------------------------- MODULE SourcingCase_proofs -------------------------
(***************************************************************************)
(* What the operations on a sourcing case return, for the proofs about the *)
(* services that share it.                                                 *)
(***************************************************************************)
EXTENDS SourcingCase, TLAPS

\* A transition moves the state and nothing else.
LEMMA TransitionCase ==
  ASSUME NEW c \in Case, NEW s \in CaseStates
  PROVE  /\ Transition(c, s) \in Case
         /\ Transition(c, s).state = s
         /\ Transition(c, s).unlocked = c.unlocked
         /\ Transition(c, s).awardee = c.awardee
         /\ Transition(c, s).round = c.round
BY DEF Transition, Case

\* The technical approval unlocks the case and opens its evaluation.
LEMMA UnlockedCase ==
  ASSUME NEW c \in Case
  PROVE  /\ ApplyTechnicalApproval(c) \in Case
         /\ ApplyTechnicalApproval(c).state = "COMMERCIAL_EVALUATION"
         /\ ApplyTechnicalApproval(c).unlocked = TRUE
         /\ ApplyTechnicalApproval(c).awardee = c.awardee
         /\ ApplyTechnicalApproval(c).round = c.round
<1>1. /\ UnlockCommercial(c) \in Case
      /\ UnlockCommercial(c).unlocked = TRUE
      /\ UnlockCommercial(c).awardee = c.awardee
      /\ UnlockCommercial(c).round = c.round
  BY DEF UnlockCommercial, Case
<1>2. "COMMERCIAL_EVALUATION" \in CaseStates
  BY DEF CaseStates
<1> QED
  BY <1>1, <1>2, TransitionCase DEF ApplyTechnicalApproval

\* An award names the supplier and leaves the case where it is.
LEMMA AwardedCase ==
  ASSUME NEW c \in Case, NEW v \in Suppliers
  PROVE  /\ RecordAward(c, v) \in Case
         /\ RecordAward(c, v).state = c.state
         /\ RecordAward(c, v).unlocked = c.unlocked
         /\ RecordAward(c, v).awardee = v
         /\ RecordAward(c, v).round = c.round
BY DEF RecordAward, Case

\* A new round moves the case to negotiation and counts one up, within the
\* policy's limit.
LEMMA OpenedRoundCase ==
  ASSUME NEW c \in Case, MayOpenRound(c)
  PROVE  /\ OpenRound(Transition(c, "NEGOTIATION")) \in Case
         /\ OpenRound(Transition(c, "NEGOTIATION")).state = "NEGOTIATION"
         /\ OpenRound(Transition(c, "NEGOTIATION")).unlocked = c.unlocked
         /\ OpenRound(Transition(c, "NEGOTIATION")).awardee = c.awardee
         /\ OpenRound(Transition(c, "NEGOTIATION")).round = c.round + 1
<1> DEFINE d == Transition(c, "NEGOTIATION")
<1>1. /\ d \in Case
      /\ d.state = "NEGOTIATION"
      /\ d.unlocked = c.unlocked
      /\ d.awardee = c.awardee
      /\ d.round = c.round
  <2>1. "NEGOTIATION" \in CaseStates
    BY DEF CaseStates
  <2> QED
    BY <2>1, TransitionCase
<1>2. d.round + 1 \in 0..MaxRounds
  <2>1. c.round \in 0..MaxRounds /\ c.round < MaxRounds
    BY DEF MayOpenRound, Case
  <2> QED
    BY <1>1, <2>1, CaseAssumption
<1> HIDE DEF d
<1>3. /\ OpenRound(d) \in Case
      /\ OpenRound(d).state = d.state
      /\ OpenRound(d).unlocked = d.unlocked
      /\ OpenRound(d).awardee = d.awardee
      /\ OpenRound(d).round = d.round + 1
  BY <1>1, <1>2 DEF OpenRound, Case
<1> QED
  BY <1>1, <1>3 DEF d
=============================================================================
