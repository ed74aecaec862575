-------------------------- MODULE MCTechnicalVerdict --------------------------
(* An instance of TechnicalVerdict for TLC. *)
EXTENDS TechnicalVerdict, TLC

CONSTANTS s1, bore, cert, heat, f1, f2

\* A bore in millimetres, a certificate and a greatest temperature.
MCReq ==
  bore :> [op |-> "RANGE", low |-> 20, high |-> 30, uom |-> "MM",
           allowed |-> {}, mandatory |-> TRUE]
    @@ cert :> [op |-> "BOOLEAN", low |-> NoNumber, high |-> NoNumber,
                uom |-> NoUnit, allowed |-> {}, mandatory |-> TRUE]
    @@ heat :> [op |-> "LTE", low |-> NoNumber, high |-> 80, uom |-> "C",
                allowed |-> {}, mandatory |-> TRUE]

MCUnit ==
  "MM" :> [dimension |-> "LENGTH", scale |-> 1, offset |-> 0]
    @@ "CM" :> [dimension |-> "LENGTH", scale |-> 10, offset |-> 0]
    @@ "C" :> [dimension |-> "TEMPERATURE", scale |-> 1, offset |-> 273]
    @@ "K" :> [dimension |-> "TEMPERATURE", scale |-> 1, offset |-> 0]
    @@ "KG" :> [dimension |-> "MASS", scale |-> 1, offset |-> 0]

Number25MM == [words |-> "other", number |-> 25, uom |-> "MM"]
Number25CM == [words |-> "other", number |-> 25, uom |-> "CM"]
Number2CM == [words |-> "other", number |-> 2, uom |-> "CM"]
Number25KG == [words |-> "other", number |-> 25, uom |-> "KG"]
Yes == [words |-> "yes", number |-> NoNumber, uom |-> NoUnit]
No == [words |-> "no", number |-> NoNumber, uom |-> NoUnit]

Number350K == [words |-> "other", number |-> 350, uom |-> "K"]
Number90 == [words |-> "other", number |-> 90, uom |-> NoUnit]

Text(file, keyed, a, b, c) ==
  [file |-> file, says |-> bore :> [keyed |-> keyed, answer |-> a]
                             @@ cert :> [keyed |-> keyed, answer |-> b]
                             @@ heat :> [keyed |-> TRUE, answer |-> c]]

\* Answers under their keys, in the letter or in a file, the same file with
\* another answer, a file without keys, one that says little.
MCDocuments ==
  {Text(NoAttachment, TRUE, Number25MM, No, Number350K),
   Text(f1, TRUE, Number2CM, Yes, Number350K),
   Text(f1, TRUE, Number25CM, Yes, Number350K),
   Text(f2, FALSE, Number25KG, Silent, Number90),
   Text(f2, FALSE, Silent, Yes, Number350K)}

MCModelFinds == {Number25MM, Number25CM}
=============================================================================
