--------------------------- MODULE MCSourcingBasis ---------------------------
(* An instance of SourcingBasis for TLC. *)
EXTENDS SourcingBasis, TLC

CONSTANTS c1, c2, c3, c4, v1, v2, v3, p1

Typed(code) ==
  [code |-> code, folded |-> {}, part |-> {}, like |-> {}, sure |-> FALSE,
   plant |-> p1, spec |-> TRUE, preferred |-> Nobody, near |-> {v2}]

\* Two lines for one material, the second without a specification; the same
\* code spelled otherwise; a free text.
Lined ==
  c1 :> [Typed("VAL-1") EXCEPT !.preferred = v3]
    @@ c2 :> [Typed("VAL-1") EXCEPT !.spec = FALSE]
    @@ c3 :> [Typed("val-1") EXCEPT !.folded = {"VAL-1"}]
    @@ c4 :> [Typed(NoCode) EXCEPT !.near = {}]

MCLine == [c \in Cases |-> Lined[c]]

MCGroup == "VAL-1" :> {"VAL-1"}

MCApproved == {<<"VAL-1", p1, v1>>}

MCHistory ==
  {[material |-> "VAL-1", plant |-> p1, vendor |-> v1, price |-> 9,
    recent |-> TRUE],
   [material |-> "VAL-1", plant |-> p1, vendor |-> v1, price |-> 7,
    recent |-> TRUE],
   [material |-> "VAL-1", plant |-> p1, vendor |-> v2, price |-> 5,
    recent |-> FALSE]}

MCCurve == "VAL-1" :> 6

MCBook == "VAL-1" :> (p1 :> 10)

MCScore == v1 :> 3 @@ v2 :> 2 @@ v3 :> 1

\* v2 quotes in a currency worth five of the base currency.
MCRate == v1 :> 1 @@ v2 :> 5 @@ v3 :> 0

\* v1 has agreed one price for every plant, and another one for p1.
MCSeeds ==
  <<[material |-> "VAL-1", vendor |-> v1, plant |-> EveryPlant, price |-> 9,
     since |-> 0, active |-> TRUE, next |-> 0],
    [material |-> "VAL-1", vendor |-> v1, plant |-> p1, price |-> 8,
     since |-> 0, active |-> TRUE, next |-> 0],
    [material |-> "VAL-1", vendor |-> v2, plant |-> p1, price |-> 4,
     since |-> 0, active |-> TRUE, next |-> 0]>>
=============================================================================
