----------------------------- MODULE MCCaseFile ------------------------------
(* An instance of CaseFile for TLC. *)
EXTENDS CaseFile, TLC

CONSTANTS plain, other, bare, k1, k2, k3, drawing, odd, mute

\* Two requisitions whose numbers yield one case id, and one without number.
MCNumberIn ==
  [r \in {plain, other, bare} |-> [m \in Months |->
     CASE r = plain -> "PR-1"
       [] r = other -> "PR/1"
       [] r = bare -> IF m = 0 THEN "PR-M0-BARE" ELSE "PR-M1-BARE"]]

MCCaseId ==
  "PR-1" :> k1 @@ "PR/1" :> k1 @@ "PR-M0-BARE" :> k2 @@ "PR-M1-BARE" :> k3

St(a, b, s) == [about |-> a, binding |-> b, sure |-> s]

\* In one document the parser finds nothing.
MCSays ==
  drawing :> <<St("finish", 1, 2)>>
    @@ odd :> <<St("grade", 2, 1)>>
    @@ mute :> <<>>

\* One requisition implies nothing: no date, no material under inspection.
MCDerived ==
  [r \in {plain, other, bare} |->
     IF r = plain THEN <<St("delivery", 2, 2)>> ELSE <<>>]

\* The model is less sure and more demanding, and its answer begins with an
\* entry that is passed over.
MCSupplements == {<<St(Unusable, 0, 0), St("finish", 2, 0)>>}
=============================================================================
