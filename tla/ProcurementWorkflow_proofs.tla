---------------------- MODULE ProcurementWorkflow_proofs ----------------------
(***************************************************************************)
(* What the workflow guarantees for any settings, number of faults, rounds *)
(* and suppliers.  It looks at its signals only, and the decisions are in  *)
(* the database: the invariant says that a signal is never ahead of its    *)
(* decision and that no decision is ever taken back, so that wherever the  *)
(* workflow got to, the decision it rests on is there.                     *)
(***************************************************************************)
EXTENDS ProcurementWorkflow, SourcingCase_proofs

\* A signal that arrived speaks of a decision that was committed.
SignalsFollowDecisions ==
  /\ "release" \in wf.told => desk.prepared /\ desk.released
  /\ "technical" \in wf.told => case.unlocked
  /\ "negotiation" \in wf.told => desk.asked /\ case.round > 0
  /\ "award" \in wf.told => case.awardee # NoSupplier

\* What the activity before has drafted is there.
DraftsAreThere ==
  /\ wf.at = "rfqGate" => desk.prepared
  /\ wf.at \in {"schedule", "expedite", "finalize"} => desk.orders > 0

\* A cancel request that was let in could be carried out at the time.
CancelIsPossible ==
  cancel # "none" => <<cancel, "CANCELLED">> \in LegalTransitions

\* Nothing sends a case to expediting.
NeverExpediting == case.state # "EXPEDITING"

IInv ==
  /\ TypeOK
  /\ StagesFollowDecisions
  /\ CompletedHasOrder
  /\ SignalsFollowDecisions
  /\ DraftsAreThere
  /\ CancelIsPossible
  /\ NeverExpediting

LEMMA InitIInv == Init => IInv
<1> SUFFICES ASSUME Init PROVE IInv
  OBVIOUS
<1> USE CaseAssumption, WorkflowAssumption DEF Init
<1>1. case \in Case
  BY DEF NewCase, Case, CaseStates
<1>2. TypeOK
  <2>1. 0 \in 0..MaxOrders /\ 0 \in 0..MaxFaults
    OBVIOUS
  <2>2. desk \in [prepared : BOOLEAN, released : BOOLEAN, asked : BOOLEAN,
                 orders : 0..MaxOrders]
    BY <2>1, Zenon
  <2>3. wf \in [at : Steps, told : SUBSET Signals, result : Results]
    BY DEF Steps, Signals, Results
  <2> QED
    BY <1>1, <2>1, <2>2, <2>3 DEF TypeOK
<1> QED
  BY <1>1, <1>2
     DEF IInv, StagesFollowDecisions, CompletedHasOrder, DraftsAreThere,
         SignalsFollowDecisions, CancelIsPossible, NeverExpediting, NewCase

-----------------------------------------------------------------------------
(* The case *)

DrivenMove(s, t) ==
  \/ t = s
  \/ <<s, t>> \in DrivenTransitions
  \/ \E u \in CaseStates : /\ <<s, u>> \in DrivenTransitions
                           /\ <<u, t>> \in DrivenTransitions

\* What a step may do to the case: no decision is taken back, and the case
\* moves along the driven transitions, awarded and unlocked only in place.
CaseGoesOn ==
  /\ case' \in Case
  /\ case'.state # "EXPEDITING"
  /\ case.unlocked => case'.unlocked
  /\ case.awardee # NoSupplier => case'.awardee # NoSupplier
  /\ case.round > 0 => case'.round > 0
  /\ DrivenMove(case.state, case'.state)
  /\ case'.unlocked # case.unlocked
       => case.state = "WAITING_FOR_TECHNICAL_APPROVAL"
  /\ case'.awardee # case.awardee => case'.state = case.state

LEMMA CaseMoved ==
  ASSUME IInv, NEW s \in CaseStates \ {"EXPEDITING"},
         DrivenMove(case.state, s), case' = Transition(case, s)
  PROVE  CaseGoesOn
BY TransitionCase DEF IInv, TypeOK, CaseGoesOn

LEMMA CaseStays ==
  ASSUME IInv, case' = case
  PROVE  CaseGoesOn
BY DEF IInv, TypeOK, CaseGoesOn, DrivenMove, NeverExpediting

LEMMA WorkflowMovesCase ==
  ASSUME IInv, WorkflowStep
  PROVE  CaseGoesOn
<1>1. CASE Validate
  BY <1>1, CaseMoved, CaseStays
     DEF Validate, DrivenMove, DrivenTransitions, CaseStates
<1>2. CASE Source
  BY <1>2, CaseMoved, CaseStays
     DEF Source, DrivenMove, DrivenTransitions, CaseStates
<1>3. CASE Prepare
  BY <1>3, CaseMoved, CaseStays
     DEF Prepare, Refuse, DrivenMove, DrivenTransitions, CaseStates
<1>4. CASE Send
  BY <1>4, CaseMoved, CaseStays
     DEF Send, DrivenMove, DrivenTransitions, CaseStates
<1>5. CASE Evaluate
  <2>1. DrivenMove("WAITING_FOR_QUOTES", "WAITING_FOR_TECHNICAL_APPROVAL")
    BY DEF DrivenMove, DrivenTransitions, CaseStates
  <2>2. DrivenMove("TECHNICAL_EVALUATION", "WAITING_FOR_TECHNICAL_APPROVAL")
    BY DEF DrivenMove, DrivenTransitions
  <2> QED
    BY <1>5, <2>1, <2>2, CaseMoved, CaseStays DEF Evaluate, CaseStates
<1>6. CASE PlanRound
  <2>1. CASE case' = case
    BY <2>1, CaseStays
  <2>2. CASE MayOpenNegotiation(case) /\ case' = OpenRound(Transition(case, "NEGOTIATION"))
    <3>1. case \in Case /\ MayOpenRound(case)
      BY <2>2 DEF MayOpenNegotiation, IInv, TypeOK
    <3>2. DrivenMove(case.state, "NEGOTIATION")
      BY <3>1 DEF MayOpenRound, DrivenMove, DrivenTransitions
    <3>3. case.round \in Nat /\ case.round + 1 > 0
      BY <3>1, CaseAssumption DEF Case
    <3> QED
      BY <2>2, <3>1, <3>2, <3>3, OpenedRoundCase DEF CaseGoesOn
  <2> QED
    BY <1>6, <2>1, <2>2 DEF PlanRound
<1>7. CASE Recommend
  BY <1>7, CaseMoved, CaseStays
     DEF Recommend, Refuse, DrivenMove, DrivenTransitions, CaseStates
<1>8. CASE Finalize
  <2>1. CanTransition(case, "COMPLETED") => case.state = "ORDER_PLACED"
    BY DEF IInv, NeverExpediting, CanTransition, LegalTransitions, Abandoned
  <2> QED
    BY <1>8, <2>1, CaseMoved, CaseStays
       DEF Finalize, Finalized, DrivenMove, DrivenTransitions, CaseStates
<1>9. CASE Fail
  BY <1>9, CaseMoved, CaseStays
     DEF Fail, Finalized, CanTransition, DrivenMove, DrivenTransitions,
         CaseStates, Abandoned
<1> QED
  BY <1>1, <1>2, <1>3, <1>4, <1>5, <1>6, <1>7, <1>8, <1>9, CaseStays
     DEF WorkflowStep, Start, Collect, TimesOut, Close, Unseal, Commercial,
         NotApproved, SendRound, WaitForReplies, Schedule, Expedite, PassGate

LEMMA PeopleMoveCase ==
  ASSUME IInv, PeopleStep
  PROVE  CaseGoesOn
<1>1. CASE ApproveTechnical
  <2>1. case \in Case /\ case.state = "WAITING_FOR_TECHNICAL_APPROVAL"
    BY <1>1 DEF ApproveTechnical, MayUnlockCommercial, IInv, TypeOK
  <2>2. DrivenMove(case.state, "COMMERCIAL_EVALUATION")
    BY <2>1 DEF DrivenMove, DrivenTransitions
  <2> QED
    BY <1>1, <2>1, <2>2, UnlockedCase DEF ApproveTechnical, CaseGoesOn
<1>2. ASSUME NEW v \in Suppliers, ApproveAward(v) PROVE CaseGoesOn
  <2>1. case \in Case /\ case.state # "EXPEDITING"
    BY DEF IInv, TypeOK, NeverExpediting
  <2>2. case' = RecordAward(case, v) /\ v # NoSupplier
    BY <1>2, CaseAssumption DEF ApproveAward
  <2> QED
    BY <2>1, <2>2, AwardedCase DEF CaseGoesOn, DrivenMove
<1>3. CASE ReleasePo
  BY <1>3, CaseMoved, CaseStays
     DEF ReleasePo, DrivenMove, DrivenTransitions, CaseStates
<1>4. CASE CommitCancel
  BY <1>4, CaseMoved, CaseStays
     DEF CommitCancel, DrivenMove, DrivenTransitions, CaseStates, Abandoned,
         IInv, CancelIsPossible
<1>5. CASE OpenAwardGate
  BY <1>5, CaseMoved, CaseStays
     DEF OpenAwardGate, DrivenMove, DrivenTransitions, CaseStates
<1> QED
  BY <1>1, <1>2, <1>3, <1>4, <1>5, CaseStays
     DEF PeopleStep, EngineeringReady, ReleaseRfq, ApproveNegotiation,
         RequestCancel

LEMMA CaseStep == IInv /\ [Next]_vars => CaseGoesOn
BY WorkflowMovesCase, PeopleMoveCase, CaseStays DEF Next, vars, ActivityFails

-----------------------------------------------------------------------------
(* What else the database holds *)

Desks == [prepared : BOOLEAN, released : BOOLEAN, asked : BOOLEAN,
          orders : 0..MaxOrders]

DeskGoesOn ==
  /\ desk' \in Desks
  /\ desk.prepared => desk'.prepared
  /\ desk.released => desk'.released
  /\ desk.asked => desk'.asked
  /\ desk.orders > 0 => desk'.orders > 0

LEMMA DeskStep ==
  ASSUME IInv, [Next]_vars
  PROVE  DeskGoesOn
<1>1. desk \in Desks
  BY DEF IInv, TypeOK, Desks
<1>2. ASSUME desk' = desk PROVE DeskGoesOn
  BY <1>1, <1>2 DEF DeskGoesOn
<1>3. ASSUME desk' = [desk EXCEPT !.prepared = TRUE] PROVE DeskGoesOn
  BY <1>1, <1>3 DEF DeskGoesOn, Desks
<1>4. ASSUME desk' = [desk EXCEPT !.released = TRUE] PROVE DeskGoesOn
  BY <1>1, <1>4 DEF DeskGoesOn, Desks
<1>5. ASSUME desk' = [desk EXCEPT !.asked = TRUE] PROVE DeskGoesOn
  BY <1>1, <1>5 DEF DeskGoesOn, Desks
<1>6. ASSUME desk' = [desk EXCEPT !.orders = @ + 1], desk.orders < MaxOrders
      PROVE  DeskGoesOn
  BY <1>1, <1>6, WorkflowAssumption DEF DeskGoesOn, Desks
<1>7. \/ desk' = desk
      \/ desk' = [desk EXCEPT !.prepared = TRUE]
      \/ desk' = [desk EXCEPT !.released = TRUE]
      \/ desk' = [desk EXCEPT !.asked = TRUE]
      \/ desk' = [desk EXCEPT !.orders = @ + 1] /\ desk.orders < MaxOrders
  <2>1. CASE PeopleStep
    BY <2>1, Zenon
       DEF PeopleStep, EngineeringReady, ReleaseRfq, ApproveTechnical,
           ApproveNegotiation, ApproveAward, ReleasePo, RequestCancel,
           CommitCancel, OpenAwardGate
  <2>2. CASE WorkflowStep
    BY <2>2, Zenon
       DEF WorkflowStep, Start, Validate, Source, Prepare, Send, Collect, Close,
           Evaluate, Unseal, Commercial, PlanRound, NotApproved, SendRound,
           WaitForReplies, Recommend, Schedule, Expedite, Finalize, Fail,
           PassGate, Refuse, TimesOut
  <2>3. CASE ActivityFails \/ UNCHANGED vars
    BY <2>3, Zenon DEF ActivityFails, vars
  <2> QED
    BY <2>1, <2>2, <2>3 DEF Next
<1> QED
  BY <1>2, <1>3, <1>4, <1>5, <1>6, <1>7

LEMMA CancelStep ==
  ASSUME IInv, [Next]_vars
  PROVE  CancelIsPossible' /\ cancel' \in CaseStates \cup {"none"}
<1>1. \/ cancel' = cancel
      \/ cancel' = "none"
      \/ cancel' = case.state /\ CanTransition(case, "CANCELLED")
  <2>1. CASE PeopleStep
    BY <2>1, Zenon
       DEF PeopleStep, EngineeringReady, ReleaseRfq, ApproveTechnical,
           ApproveNegotiation, ApproveAward, ReleasePo, RequestCancel,
           CommitCancel, OpenAwardGate
  <2>2. CASE WorkflowStep
    BY <2>2, Zenon
       DEF WorkflowStep, Start, Validate, Source, Prepare, Send, Collect, Close,
           Evaluate, Unseal, Commercial, PlanRound, NotApproved, SendRound,
           WaitForReplies, Recommend, Schedule, Expedite, Finalize, Fail,
           PassGate, Refuse, TimesOut
  <2>3. CASE ActivityFails \/ UNCHANGED vars
    BY <2>3, Zenon DEF ActivityFails, vars
  <2> QED
    BY <2>1, <2>2, <2>3 DEF Next
<1>2. case.state \in CaseStates
  BY DEF IInv, TypeOK, Case
<1> QED
  BY <1>1, <1>2 DEF IInv, TypeOK, CancelIsPossible, CanTransition

LEMMA FaultStep ==
  ASSUME IInv, [Next]_vars
  PROVE  faults' \in 0..MaxFaults
<1>1. faults' = faults \/ MayFault
  <2>1. CASE PeopleStep
    BY <2>1, Zenon
       DEF PeopleStep, EngineeringReady, ReleaseRfq, ApproveTechnical,
           ApproveNegotiation, ApproveAward, ReleasePo, RequestCancel,
           CommitCancel, OpenAwardGate, Signal
  <2>2. CASE WorkflowStep
    BY <2>2, Zenon
       DEF WorkflowStep, Start, Validate, Source, Prepare, Send, Collect, Close,
           Evaluate, Unseal, Commercial, PlanRound, NotApproved, SendRound,
           WaitForReplies, Recommend, Schedule, Expedite, Finalize, Fail,
           PassGate, Refuse, TimesOut, Answer
  <2>3. CASE ActivityFails \/ UNCHANGED vars
    BY <2>3, Zenon DEF ActivityFails, vars
  <2> QED
    BY <2>1, <2>2, <2>3 DEF Next
<1> QED
  BY <1>1, WorkflowAssumption DEF IInv, TypeOK, MayFault

-----------------------------------------------------------------------------
(* The workflow *)

Flows == [at : Steps, told : SUBSET Signals, result : Results]

\* Where the workflow is and what it reports rest on decisions.
FlowFollows ==
  /\ wf \in Flows
  /\ StagesFollowDecisions
  /\ SignalsFollowDecisions
  /\ DraftsAreThere
  /\ wf.result = "COMPLETED" => desk.orders > 0

Going == CaseGoesOn /\ DeskGoesOn /\ IInv

\* A workflow that stays where it is stays right, as decisions stand.
LEMMA FlowStays ==
  ASSUME Going, wf' = wf
  PROVE  FlowFollows'
BY DEF Going, IInv, TypeOK, FlowFollows, Flows, CaseGoesOn, DeskGoesOn,
       StagesFollowDecisions, SignalsFollowDecisions, DraftsAreThere,
       CompletedHasOrder

\* A workflow that goes to a step takes its signals with it; it may go where
\* the decisions the step rests on are there.
LEMMA FlowGoes ==
  ASSUME Going, NEW step \in Steps, GoTo(step),
         step \in {"send", "collect", "close", "evaluate", "techGate"}
           => desk'.prepared /\ (desk'.released \/ AutoReleaseRfq),
         step \in {"unseal", "commercial", "negPlan", "negGate", "negSend",
                  "negWait", "awardGate"} => case'.unlocked,
         step \in {"negSend", "negWait"} => desk'.asked /\ case'.round > 0,
         step \in {"recommend", "schedule", "expedite", "finalize"}
           => case'.awardee # NoSupplier,
         step = "rfqGate" => desk'.prepared,
         step \in {"schedule", "expedite", "finalize"} => desk'.orders > 0
  PROVE  FlowFollows'
<1>1. /\ wf \in Flows /\ wf' \in Flows
      /\ wf'.at = step /\ wf'.told = wf.told /\ wf'.result = wf.result
  BY DEF Going, IInv, TypeOK, Flows, GoTo
<1>2. SignalsFollowDecisions'
  BY <1>1 DEF Going, IInv, CaseGoesOn, DeskGoesOn, SignalsFollowDecisions
<1>3. wf'.result = "COMPLETED" => desk'.orders > 0
  BY <1>1 DEF Going, IInv, DeskGoesOn, CompletedHasOrder
<1> QED
  BY <1>1, <1>2, <1>3 DEF FlowFollows, StagesFollowDecisions, DraftsAreThere

LEMMA FlowEnds ==
  ASSUME Going, NEW result \in Results, End(result),
         result = "COMPLETED" => desk'.orders > 0
  PROVE  FlowFollows'
<1>1. /\ wf \in Flows /\ wf' \in Flows
      /\ wf'.at = "ended" /\ wf'.told = wf.told /\ wf'.result = result
  BY DEF Going, IInv, TypeOK, Flows, End, Steps
<1>2. SignalsFollowDecisions'
  BY <1>1 DEF Going, IInv, CaseGoesOn, DeskGoesOn, SignalsFollowDecisions
<1> QED
  BY <1>1, <1>2 DEF FlowFollows, StagesFollowDecisions, DraftsAreThere

\* The workflow hears of a decision that is there.
LEMMA FlowHears ==
  ASSUME Going, NEW signal \in Signals, Signal(signal),
         signal = "release" => desk'.prepared /\ desk'.released,
         signal = "technical" => case'.unlocked,
         signal = "negotiation" => desk'.asked /\ case'.round > 0,
         signal = "award" => case'.awardee # NoSupplier
  PROVE  FlowFollows'
<1>1. CASE wf' = wf
  BY <1>1, FlowStays
<1>2. CASE wf' = [wf EXCEPT !.told = @ \cup {signal}]
  <2>1. /\ wf \in Flows /\ wf' \in Flows
        /\ wf'.at = wf.at /\ wf'.told = wf.told \cup {signal}
        /\ wf'.result = wf.result
    BY <1>2 DEF Going, IInv, TypeOK, Flows
  <2>2. SignalsFollowDecisions'
    BY <2>1 DEF Going, IInv, CaseGoesOn, DeskGoesOn, SignalsFollowDecisions
  <2>3. StagesFollowDecisions' /\ DraftsAreThere'
    BY <2>1 DEF Going, IInv, CaseGoesOn, DeskGoesOn, StagesFollowDecisions,
                DraftsAreThere
  <2>4. wf'.result = "COMPLETED" => desk'.orders > 0
    BY <2>1 DEF Going, IInv, DeskGoesOn, CompletedHasOrder
  <2> QED
    BY <2>1, <2>2, <2>3, <2>4 DEF FlowFollows
<1> QED
  BY <1>1, <1>2 DEF Signal

LEMMA FlowAnswers ==
  ASSUME Going, NEW step \in Steps, Answer(step),
         step \in {"send", "collect", "close", "evaluate", "techGate"}
           => desk'.prepared /\ (desk'.released \/ AutoReleaseRfq),
         step \in {"unseal", "commercial", "negPlan", "negGate", "negSend",
                  "negWait", "awardGate"} => case'.unlocked,
         step \in {"negSend", "negWait"} => desk'.asked /\ case'.round > 0,
         step \in {"recommend", "schedule", "expedite", "finalize"}
           => case'.awardee # NoSupplier,
         step = "rfqGate" => desk'.prepared,
         step \in {"schedule", "expedite", "finalize"} => desk'.orders > 0
  PROVE  FlowFollows'
BY FlowGoes, FlowStays DEF Answer

LEMMA WorkflowFlow ==
  ASSUME Going, WorkflowStep
  PROVE  FlowFollows'
<1> USE DEF Steps, Results
<1>1. CASE Start
  BY <1>1, FlowGoes, FlowEnds DEF Start
<1>2. CASE Validate
  BY <1>2, FlowAnswers DEF Validate
<1>3. CASE Source
  BY <1>3, FlowAnswers DEF Source
<1>4. ASSUME NEW step \in Steps, Refuse(step) PROVE FlowFollows'
  BY <1>4, FlowGoes DEF Refuse
<1>5. CASE Prepare
  <2>1. CASE Refuse("prepare")
    BY <2>1, <1>4
  <2>2. CASE /\ desk' = [desk EXCEPT !.prepared = TRUE]
             /\ Answer(IF AutoReleaseRfq THEN "send" ELSE "rfqGate")
    <3>1. desk'.prepared
      BY <2>2 DEF Going, IInv, TypeOK
    <3> QED
      BY <2>2, <3>1, FlowAnswers
  <2> QED
    BY <1>5, <2>1, <2>2 DEF Prepare
<1>6. CASE Send \/ Close \/ Evaluate
  <2>1. desk'.prepared /\ (desk'.released \/ AutoReleaseRfq)
    BY <1>6 DEF Send, Close, Evaluate, Going, DeskGoesOn, IInv,
                StagesFollowDecisions
  <2> QED
    BY <1>6, <2>1, FlowAnswers DEF Send, Close, Evaluate
<1>7. CASE Collect
  <2>1. wf.at = "collect"
    BY <1>7 DEF Collect
  <2>2. desk'.prepared /\ (desk'.released \/ AutoReleaseRfq)
    BY <2>1 DEF Going, DeskGoesOn, IInv, StagesFollowDecisions
  <2> QED
    BY <1>7, <2>2, FlowGoes, FlowEnds DEF Collect, TimesOut
<1>8. CASE Unseal \/ Commercial
  <2>1. case.unlocked => case'.unlocked
    BY DEF Going, CaseGoesOn
  <2>2. CASE Unseal
    BY <2>1, <2>2, FlowAnswers DEF Unseal
  <2>3. CASE Commercial
    BY <2>1, <2>3, FlowAnswers DEF Commercial
  <2> QED
    BY <1>8, <2>2, <2>3
<1>9. CASE PlanRound
  <2>1. wf.at = "negPlan"
    BY <1>9 DEF PlanRound
  <2>2. case'.unlocked
    BY <2>1 DEF Going, CaseGoesOn, IInv, StagesFollowDecisions
  <2>3. CASE wf' = [wf EXCEPT !.at = "negGate", !.told = @ \ {"negotiation"}]
    <3>1. /\ wf \in Flows /\ wf' \in Flows
          /\ wf'.at = "negGate" /\ wf'.told \subseteq wf.told
          /\ wf'.result = wf.result
      BY <2>3 DEF Going, IInv, TypeOK, Flows
    <3>2. SignalsFollowDecisions'
      BY <3>1 DEF Going, IInv, CaseGoesOn, DeskGoesOn, SignalsFollowDecisions
    <3>3. wf'.result = "COMPLETED" => desk'.orders > 0
      BY <3>1 DEF Going, IInv, DeskGoesOn, CompletedHasOrder
    <3> QED
      BY <2>2, <3>1, <3>2, <3>3
         DEF FlowFollows, StagesFollowDecisions, DraftsAreThere
  <2>4. CASE wf' = wf
    BY <2>4, FlowStays
  <2>5. CASE GoTo("awardGate")
    BY <2>2, <2>5, FlowGoes
  <2> QED
    BY <1>9, <2>3, <2>4, <2>5 DEF PlanRound
<1>10. CASE NotApproved \/ SendRound \/ WaitForReplies
  <2>1. wf.at \in {"negGate", "negSend", "negWait"}
    BY <1>10 DEF NotApproved, SendRound, WaitForReplies
  <2>2. case'.unlocked
    BY <2>1 DEF Going, CaseGoesOn, IInv, StagesFollowDecisions
  <2>3. wf.at = "negSend" => case'.round > 0 /\ (desk.asked => desk'.asked)
    BY DEF Going, CaseGoesOn, DeskGoesOn, IInv, StagesFollowDecisions
  <2>4. CASE NotApproved
    BY <2>2, <2>4, FlowGoes DEF NotApproved
  <2>5. CASE SendRound
    BY <2>2, <2>3, <2>5, FlowAnswers DEF SendRound
  <2>6. CASE WaitForReplies
    BY <2>6, FlowEnds DEF WaitForReplies
  <2> QED
    BY <1>10, <2>4, <2>5, <2>6
<1>11. CASE Recommend
  <2>1. CASE Refuse("recommend")
    BY <2>1, <1>4
  <2>2. CASE /\ wf.at = "recommend" /\ Answer("schedule")
             /\ desk' = [desk EXCEPT !.orders = @ + 1]
    <3>1. case'.awardee # NoSupplier
      BY <2>2 DEF Going, CaseGoesOn, IInv, StagesFollowDecisions
    <3>2. desk'.orders > 0
      BY <2>2, WorkflowAssumption DEF Going, IInv, TypeOK
    <3> QED
      BY <2>2, <3>1, <3>2, FlowAnswers
  <2> QED
    BY <1>11, <2>1, <2>2 DEF Recommend
<1>12. CASE Schedule \/ Expedite \/ Finalize
  <2>1. case'.awardee # NoSupplier /\ desk'.orders > 0
    BY <1>12 DEF Schedule, Expedite, Finalize, Going, CaseGoesOn, DeskGoesOn,
                 IInv, StagesFollowDecisions, DraftsAreThere
  <2>2. CASE Schedule
    BY <2>1, <2>2, FlowAnswers DEF Schedule
  <2>3. CASE Expedite
    BY <2>1, <2>3, FlowGoes, FlowEnds DEF Expedite, TimesOut
  <2>4. CASE Finalize
    BY <2>1, <2>4, FlowStays, FlowEnds DEF Finalize
  <2> QED
    BY <1>12, <2>2, <2>3, <2>4
<1>13. CASE Fail
  BY <1>13, FlowEnds DEF Fail
<1>14. CASE PassGate
  <2>1. PICK g \in Gates :
          /\ wf.at = g[1]
          /\ wf.told \cap {g[2], "cancel"} # {}
          /\ IF Told("cancel") THEN End("CANCELLED") ELSE GoTo(g[3])
    BY <1>14 DEF PassGate
  <2>2. CASE Told("cancel")
    BY <2>1, <2>2, FlowEnds
  <2>3. CASE ~Told("cancel")
    <3>1. g[2] \in wf.told /\ GoTo(g[3])
      BY <2>1, <2>3 DEF Told
    <3>2. /\ g[2] = "release" => desk'.prepared /\ desk'.released
          /\ g[2] = "technical" => case'.unlocked
          /\ g[2] = "negotiation" => desk'.asked /\ case'.round > 0
          /\ g[2] = "award" => case'.awardee # NoSupplier
          /\ g[1] = "negGate" => case'.unlocked
      BY <2>1, <3>1 DEF Going, CaseGoesOn, DeskGoesOn, IInv,
                        SignalsFollowDecisions, StagesFollowDecisions
    <3> QED
      BY <3>1, <3>2, FlowGoes DEF Gates
  <2> QED
    BY <2>2, <2>3
<1> QED
  BY <1>1, <1>2, <1>3, <1>5, <1>6, <1>7, <1>8, <1>9, <1>10, <1>11, <1>12,
     <1>13, <1>14 DEF WorkflowStep

LEMMA PeopleFlow ==
  ASSUME Going, PeopleStep
  PROVE  FlowFollows'
<1> USE DEF Signals
<1>1. CASE EngineeringReady \/ RequestCancel
  BY <1>1, FlowHears DEF EngineeringReady, RequestCancel
<1>2. CASE ReleaseRfq
  <2>1. desk'.prepared /\ desk'.released
    BY <1>2 DEF ReleaseRfq, Going, IInv, TypeOK
  <2> QED
    BY <1>2, <2>1, FlowHears DEF ReleaseRfq
<1>3. CASE ApproveTechnical
  <2>1. case'.unlocked
    BY <1>3, UnlockedCase DEF ApproveTechnical, Going, IInv, TypeOK
  <2> QED
    BY <1>3, <2>1, FlowHears DEF ApproveTechnical
<1>4. CASE ApproveNegotiation
  <2>1. desk'.asked /\ case'.round > 0
    BY <1>4 DEF ApproveNegotiation, Going, IInv, TypeOK
  <2> QED
    BY <1>4, <2>1, FlowHears DEF ApproveNegotiation
<1>5. ASSUME NEW v \in Suppliers, ApproveAward(v) PROVE FlowFollows'
  <2>1. case'.awardee # NoSupplier
    BY <1>5, AwardedCase, CaseAssumption DEF ApproveAward, Going, IInv, TypeOK
  <2> QED
    BY <1>5, <2>1, FlowHears DEF ApproveAward
<1>6. CASE ReleasePo \/ CommitCancel \/ OpenAwardGate
  BY <1>6, FlowStays DEF ReleasePo, CommitCancel, OpenAwardGate
<1> QED
  BY <1>1, <1>2, <1>3, <1>4, <1>5, <1>6 DEF PeopleStep

\* Whoever drafts an order finds the case awarded and unlocked.
LEMMA OrdersFollow ==
  ASSUME Going, [Next]_vars
  PROVE  desk'.orders > 0 => case'.awardee # NoSupplier /\ case'.unlocked
<1>1. CASE desk.orders > 0
  BY <1>1 DEF Going, IInv, CompletedHasOrder, CaseGoesOn
<1>2. CASE /\ wf.at = "recommend" /\ case.unlocked
  BY <1>2 DEF Going, IInv, CaseGoesOn, StagesFollowDecisions
<1>3. desk \in Desks
  BY DEF Going, IInv, TypeOK, Desks
<1>4. \/ desk' = desk
      \/ desk' = [desk EXCEPT !.prepared = TRUE]
      \/ desk' = [desk EXCEPT !.released = TRUE]
      \/ desk' = [desk EXCEPT !.asked = TRUE]
      \/ wf.at = "recommend" /\ case.unlocked
  <2>1. CASE PeopleStep
    BY <2>1, Zenon
       DEF PeopleStep, EngineeringReady, ReleaseRfq, ApproveTechnical,
           ApproveNegotiation, ApproveAward, ReleasePo, RequestCancel,
           CommitCancel, OpenAwardGate
  <2>2. CASE WorkflowStep
    BY <2>2, Zenon
       DEF WorkflowStep, Start, Validate, Source, Prepare, Send, Collect, Close,
           Evaluate, Unseal, Commercial, PlanRound, NotApproved, SendRound,
           WaitForReplies, Recommend, Schedule, Expedite, Finalize, Fail,
           PassGate, Refuse, TimesOut
  <2>3. CASE ActivityFails \/ UNCHANGED vars
    BY <2>3, Zenon DEF ActivityFails, vars
  <2> QED
    BY <2>1, <2>2, <2>3 DEF Next
<1>5. CASE ~(desk.orders > 0) /\ desk'.orders = desk.orders
  BY <1>5
<1> QED
  BY <1>1, <1>2, <1>3, <1>4, <1>5 DEF Desks

LEMMA StepKeepsIInv == IInv /\ [Next]_vars => IInv'
<1> SUFFICES ASSUME IInv, [Next]_vars PROVE IInv'
  OBVIOUS
<1>1. Going
  BY CaseStep, DeskStep DEF Going
<1>2. FlowFollows'
  <2>1. CASE ActivityFails
    BY <1>1, <2>1, FlowGoes DEF ActivityFails, Steps
  <2>2. CASE UNCHANGED vars
    BY <1>1, <2>2, FlowStays DEF vars
  <2> QED
    BY <1>1, <2>1, <2>2, WorkflowFlow, PeopleFlow DEF Next
<1>3. TypeOK'
  BY <1>1, <1>2, CancelStep, FaultStep
     DEF Going, CaseGoesOn, DeskGoesOn, FlowFollows, Desks, Flows, TypeOK
<1>4. CompletedHasOrder'
  BY <1>1, <1>2, OrdersFollow DEF FlowFollows, CompletedHasOrder
<1>5. CancelIsPossible' /\ NeverExpediting'
  BY <1>1, CancelStep DEF Going, CaseGoesOn, NeverExpediting
<1> QED
  BY <1>2, <1>3, <1>4, <1>5 DEF IInv, FlowFollows

LEMMA Invariance == Spec => []IInv
BY InitIInv, StepKeepsIInv, PTL DEF Spec

-----------------------------------------------------------------------------
(* Theorems *)

\* The workflow model is well typed for all settings and bounds.
THEOREM TypeCorrect == Spec => []TypeOK
<1>1. IInv => TypeOK
  BY DEF IInv
<1> QED
  BY <1>1, Invariance, PTL

\* Wherever the workflow is, the decision it rests on is in the database,
\* however many answers and signals were lost.
THEOREM StagesDecided == Spec => []StagesFollowDecisions
<1>1. IInv => StagesFollowDecisions
  BY DEF IInv
<1> QED
  BY <1>1, Invariance, PTL

\* An order is drafted for an awarded case, and a workflow that reports
\* COMPLETED has drafted one.
THEOREM OrderDrafted == Spec => []CompletedHasOrder
<1>1. IInv => CompletedHasOrder
  BY DEF IInv
<1> QED
  BY <1>1, Invariance, PTL

\* What the other modules assume of the workflow and of the routes holds.
THEOREM CaseDriven == Spec => CaseMovesAsAssumed
<1> DEFINE Moves ==
      case' # case =>
        /\ \/ case'.state = case.state
           \/ <<case.state, case'.state>> \in DrivenTransitions
           \/ \E s \in CaseStates :
                /\ <<case.state, s>> \in DrivenTransitions
                /\ <<s, case'.state>> \in DrivenTransitions
        /\ case'.unlocked # case.unlocked
             => case.state = "WAITING_FOR_TECHNICAL_APPROVAL"
        /\ case'.awardee # case.awardee => case'.state = case.state
<1>1. IInv /\ [Next]_vars => [Moves]_vars
  BY CaseStep DEF CaseGoesOn, DrivenMove
<1> QED
  BY <1>1, Invariance, PTL DEF Spec, CaseMovesAsAssumed
=============================================================================
