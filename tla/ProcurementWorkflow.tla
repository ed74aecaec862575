------------------------- MODULE ProcurementWorkflow -------------------------
(***************************************************************************)
(* The durable workflow of a case: the order of its activities, the four   *)
(* points where it waits for a person, and the case it drives beside the   *)
(* people who decide on it through the API (workflows/procurement.py, the  *)
(* activities it calls, the routes that signal it).                        *)
(*                                                                         *)
(* The workflow knows what its activities returned and what it was         *)
(* signalled; the case and the decisions are in the database.  An activity *)
(* commits and its answer may be lost, then it is executed again.  A       *)
(* signal that Temporal does not take is logged and dropped.  Activities   *)
(* that move no case and cannot fail in a way of their own are part of the *)
(* step before them.                                                       *)
(***************************************************************************)
EXTENDS SourcingCase

CONSTANTS AutoReleaseRfq,     \* ProcurementWorkflowInput.auto_release_rfq
          EnableNegotiation,  \* ProcurementWorkflowInput.enable_negotiation
          ScenarioRunner,     \* the seed's pipeline drives the case as well
          MaxFaults,          \* bound: lost answers, lost signals, activities
                              \* that fail until their attempts are used up
          MaxOrders           \* bound: recommendations drafted for the case

ASSUME WorkflowAssumption ==
  /\ AutoReleaseRfq \in BOOLEAN
  /\ EnableNegotiation \in BOOLEAN
  /\ ScenarioRunner \in BOOLEAN
  /\ MaxFaults \in Nat
  /\ MaxOrders \in Nat

VARIABLES case,     \* the sourcing case
          desk,     \* what else the database holds: decisions and drafts
          cancel,   \* a cancel request between its signal and its commit:
                    \* the state it has read, or "none"
          wf,       \* the workflow: where it is, its signals, its result
          faults    \* faults so far

vars == <<case, desk, cancel, wf, faults>>

Steps ==
  {"start", "validate", "engineering", "revalidate", "source", "prepare",
   "rfqGate", "send", "collect", "close", "evaluate", "techGate", "unseal",
   "commercial", "negPlan", "negGate", "negSend", "negWait", "awardGate",
   "recommend", "schedule", "expedite", "finalize", "failing", "ended"}

Signals == {"engineering", "release", "technical", "negotiation", "award",
            "cancel"}

\* BROKEN: the run ended with an exception nobody catches.
Results == {"RUNNING", "COMPLETED", "CANCELLED", "FAILED", "BROKEN"}

TypeOK ==
  /\ case \in Case
  /\ desk \in [prepared : BOOLEAN,             \* an RFQ package exists
               released : BOOLEAN,             \* and was released
               asked    : BOOLEAN,             \* a NEGOTIATION_SEND approval
               orders   : 0..MaxOrders]        \* PO recommendations
  /\ cancel \in CaseStates \cup {"none"}
  /\ wf \in [at : Steps, told : SUBSET Signals, result : Results]
  /\ faults \in 0..MaxFaults

Init ==
  /\ case = NewCase
  /\ desk = [prepared |-> FALSE, released |-> FALSE, asked |-> FALSE,
             orders |-> 0]
  /\ cancel = "none"
  /\ wf = [at |-> "start", told |-> {}, result |-> "RUNNING"]
  /\ faults = 0

-----------------------------------------------------------------------------
(* Steps of the workflow *)

MayFault == faults < MaxFaults /\ faults' = faults + 1

GoTo(step) == wf' = [wf EXCEPT !.at = step]

End(result) == wf' = [wf EXCEPT !.at = "ended", !.result = result]

Told(signal) == signal \in wf.told

\* _call: the activity's commit is in the other conjuncts of the action; its
\* answer arrives, or is lost and the activity executed once more.
Answer(step) ==
  \/ GoTo(step) /\ UNCHANGED faults
  \/ MayFault /\ UNCHANGED wf

\* An activity of this step refuses, or fails until its attempts are used up.
Refuse(step) ==
  /\ wf.at = step
  /\ GoTo("failing")
  /\ UNCHANGED <<case, desk, cancel, faults>>

\* Steps inside the try block of run.
Calling == Steps \ {"start", "rfqGate", "engineering", "techGate", "negGate",
                    "awardGate", "failing", "ended"}

ActivityFails ==
  \E step \in Calling :
    /\ wf.at = step
    /\ MayFault
    /\ GoTo("failing")
    /\ UNCHANGED <<case, desk, cancel>>

\* record_workflow_handle_activity, outside the try block.
Start ==
  /\ wf.at = "start"
  /\ \/ GoTo("validate") /\ UNCHANGED faults
     \/ MayFault /\ End("BROKEN")
  /\ UNCHANGED <<case, desk, cancel>>

\* Faulty variant: a second refusal is sent back to engineering, whose answer
\* is still on record.
ValidateAgain ==
  /\ case' = IF case.state = "RECEIVED" THEN Transition(case, "VALIDATING_PR")
                                        ELSE case
  /\ wf.at \in {"validate", "revalidate"}
  /\ \E step \in {"engineering", "source"} : Answer(step)
  /\ UNCHANGED <<desk, cancel>>

\* validate_pr_activity; the second refusal fails the workflow.
Validate ==
  /\ case' = IF case.state = "RECEIVED" THEN Transition(case, "VALIDATING_PR")
                                        ELSE case
  /\ \/ wf.at = "validate"   /\ \E step \in {"engineering", "source"} :
                                  Answer(step)
     \/ wf.at = "revalidate" /\ \E step \in {"failing", "source"} :
                                  Answer(step)
  /\ UNCHANGED <<desk, cancel>>

\* extract_requirements, build_benchmarks and build_shortlist_activity; an
\* empty shortlist fails the workflow.
Source ==
  /\ wf.at = "source"
  /\ case' = IF case.state = "VALIDATING_PR"
             THEN Transition(case, "SOURCING_STRATEGY") ELSE case
  /\ \E step \in {"failing", "prepare"} : Answer(step)
  /\ UNCHANGED <<desk, cancel>>

\* prepare_rfq_activity; the size of the shortlist is the subject of RfqDesk.
Prepare ==
  LET ready == IF case.state = "SOURCING_STRATEGY"
               THEN Transition(case, "READY_FOR_RFQ") ELSE case
  IN  \/ /\ wf.at = "prepare"
         /\ ready.state = "READY_FOR_RFQ"
         /\ case' = ready
         /\ desk' = [desk EXCEPT !.prepared = TRUE]
         /\ Answer(IF AutoReleaseRfq THEN "send" ELSE "rfqGate")
         /\ UNCHANGED cancel
      \/ Refuse("prepare")

\* send_rfq_invitations_activity; nothing is issued to an RFQ that invites
\* nobody.
Send ==
  /\ wf.at = "send"
  /\ case' = IF case.state = "READY_FOR_RFQ"
             THEN Transition(case, "WAITING_FOR_QUOTES") ELSE case
  /\ Answer("collect")
  /\ UNCHANGED <<desk, cancel>>

\* wait_condition raises TimeoutError when its timeout passes first, and
\* neither loop that polls for mail catches it: the run ends there.
TimesOut ==
  /\ End("BROKEN")
  /\ UNCHANGED <<case, desk, cancel, faults>>

\* _collect_quotes: returns when all suppliers have answered; otherwise the
\* first poll interval ends it.
Collect ==
  \/ /\ wf.at = "collect"
     /\ IF Told("cancel") THEN End("CANCELLED") ELSE GoTo("close")
     /\ UNCHANGED <<case, desk, cancel, faults>>
  \/ wf.at = "collect" /\ ~Told("cancel") /\ TimesOut

\* close_rfq_activity
Close ==
  /\ wf.at = "close"
  /\ Answer("evaluate")
  /\ UNCHANGED <<case, desk, cancel>>

\* technical_evaluation_activity
Evaluate ==
  /\ wf.at = "evaluate"
  /\ case' = IF case.state \in {"WAITING_FOR_QUOTES", "TECHNICAL_EVALUATION"}
             THEN Transition(case, "WAITING_FOR_TECHNICAL_APPROVAL") ELSE case
  /\ Answer("techGate")
  /\ UNCHANGED <<desk, cancel>>

\* unseal_bids_activity and commercial_evaluation_activity: both read prices,
\* which are refused on a locked case.
Unseal ==
  /\ wf.at = "unseal"
  /\ Answer(IF case.unlocked THEN "commercial" ELSE "failing")
  /\ UNCHANGED <<case, desk, cancel>>

Commercial ==
  /\ wf.at = "commercial"
  /\ Answer(IF ~case.unlocked THEN "failing"
            ELSE IF EnableNegotiation THEN "negPlan" ELSE "awardGate")
  /\ UNCHANGED <<case, desk, cancel>>

-----------------------------------------------------------------------------
(* Negotiation: _run_negotiation *)

\* negotiation_recommendation_activity drafts a round, or skips when it may
\* not or nobody is left to negotiate with.  Once heard of, the workflow
\* forgets any approval it was signalled before.
PlanRound ==
  \/ /\ wf.at = "negPlan"
     /\ MayOpenNegotiation(case)
     /\ case' = OpenRound(Transition(case, "NEGOTIATION"))
     /\ \/ /\ wf' = [wf EXCEPT !.at = "negGate", !.told = @ \ {"negotiation"}]
           /\ UNCHANGED faults
        \/ MayFault /\ UNCHANGED wf
     /\ UNCHANGED <<desk, cancel>>
  \/ /\ wf.at = "negPlan"
     /\ GoTo("awardGate")
     /\ UNCHANGED <<case, desk, cancel, faults>>

\* Seven days without an approval: the round is left and the workflow goes on.
NotApproved ==
  /\ wf.at = "negGate"
  /\ wf.told \cap {"negotiation", "cancel"} = {}
  /\ GoTo("awardGate")
  /\ UNCHANGED <<case, desk, cancel, faults>>

\* send_negotiation_round_activity, under the approval the signal named.
SendRound ==
  /\ wf.at = "negSend"
  /\ Answer(IF desk.asked THEN "negWait" ELSE "failing")
  /\ UNCHANGED <<case, desk, cancel>>

\* The wait for replies; close_negotiation_round_activity is behind it.
WaitForReplies ==
  /\ wf.at = "negWait"
  /\ IF Told("cancel") THEN End("CANCELLED") ELSE End("BROKEN")
  /\ UNCHANGED <<case, desk, cancel, faults>>

-----------------------------------------------------------------------------
(* Award and after *)

\* po_recommendation_activity, for a supplier the new ranking still has.
Recommend ==
  \/ /\ wf.at = "recommend"
     /\ case.unlocked
     /\ desk.orders < MaxOrders
     /\ desk' = [desk EXCEPT !.orders = @ + 1]
     /\ IF case.state = "WAITING_FOR_AWARD_APPROVAL"
        THEN /\ MayTransition(case, "PO_RECOMMENDATION")
             /\ case' = Transition(case, "PO_RECOMMENDATION")
        ELSE UNCHANGED case
     /\ Answer("schedule")
     /\ UNCHANGED cancel
  \/ Refuse("recommend")

\* schedule_delivery_reminders_activity
Schedule ==
  /\ wf.at = "schedule"
  /\ Answer("expedite")
  /\ UNCHANGED <<case, desk, cancel>>

\* _expedite returns at once when nothing is due or the case is cancelled;
\* with a reminder due, its wait of a day runs into the timeout.
Expedite ==
  \/ /\ wf.at = "expedite"
     /\ GoTo("finalize")
     /\ UNCHANGED <<case, desk, cancel, faults>>
  \/ wf.at = "expedite" /\ ~Told("cancel") /\ TimesOut

\* finalize_case_activity
Finalized(target) ==
  IF CanTransition(case, target) THEN Transition(case, target) ELSE case

Finalize ==
  /\ wf.at = "finalize"
  /\ case' = Finalized("COMPLETED")
  /\ \/ End("COMPLETED") /\ UNCHANGED faults
     \/ MayFault /\ UNCHANGED wf
  /\ UNCHANGED <<desk, cancel>>

\* _fail: a FAILED that cannot be recorded is logged.
Fail ==
  /\ wf.at = "failing"
  /\ \/ case' = Finalized("FAILED") /\ UNCHANGED faults
     \/ MayFault /\ UNCHANGED case
  /\ End("FAILED")
  /\ UNCHANGED <<desk, cancel>>

-----------------------------------------------------------------------------
(* The waits for people *)

Gates == {<<"engineering", "engineering", "revalidate">>,
          <<"rfqGate",     "release",     "send">>,
          <<"techGate",    "technical",   "unseal">>,
          <<"negGate",     "negotiation", "negSend">>,
          <<"awardGate",   "award",       "recommend">>}

\* Faulty variant: the wait ends on any signal.
PassGateUntold ==
  \E g \in Gates :
    /\ wf.at = g[1]
    /\ wf.told # {}
    /\ IF Told("cancel") THEN End("CANCELLED") ELSE GoTo(g[3])
    /\ UNCHANGED <<case, desk, cancel, faults>>

\* The condition holds: a cancellation takes precedence.
PassGate ==
  \E g \in Gates :
    /\ wf.at = g[1]
    /\ wf.told \cap {g[2], "cancel"} # {}
    /\ IF Told("cancel") THEN End("CANCELLED") ELSE GoTo(g[3])
    /\ UNCHANGED <<case, desk, cancel, faults>>

-----------------------------------------------------------------------------
(* People, through the API *)

\* try_signal_workflow, once the decision is committed.
Signal(signal) ==
  \/ wf' = [wf EXCEPT !.told = @ \cup {signal}] /\ UNCHANGED faults
  \/ MayFault /\ UNCHANGED wf

EngineeringReady ==
  /\ Signal("engineering")
  /\ UNCHANGED <<case, desk, cancel>>

ReleaseRfq ==
  /\ desk.prepared
  /\ desk' = [desk EXCEPT !.released = TRUE]
  /\ Signal("release")
  /\ UNCHANGED <<case, cancel>>

ApproveTechnical ==
  /\ MayUnlockCommercial(case)
  /\ case' = ApplyTechnicalApproval(case)
  /\ Signal("technical")
  /\ UNCHANGED <<desk, cancel>>

ApproveNegotiation ==
  /\ case.round > 0
  /\ desk' = [desk EXCEPT !.asked = TRUE]
  /\ Signal("negotiation")
  /\ UNCHANGED <<case, cancel>>

\* Faulty variant: the workflow is signalled before the award is recorded.
ApproveAwardSignalFirst(v) ==
  /\ v \in Suppliers
  /\ case' = IF MayRecordAward(case, v) THEN RecordAward(case, v) ELSE case
  /\ Signal("award")
  /\ UNCHANGED <<desk, cancel>>

\* approve_award, by the signature that completes the chain.
ApproveAward(v) ==
  /\ MayRecordAward(case, v)
  /\ case' = RecordAward(case, v)
  /\ Signal("award")
  /\ UNCHANGED <<desk, cancel>>

ReleasePo ==
  /\ desk.orders > 0
  /\ case' = IF case.state = "PO_RECOMMENDATION"
             THEN Transition(case, "ORDER_PLACED") ELSE case
  /\ UNCHANGED <<desk, cancel, wf, faults>>

\* cancel_case signals the workflow within its transaction ...
RequestCancel ==
  /\ cancel = "none"
  /\ CanTransition(case, "CANCELLED")
  /\ cancel' = case.state
  /\ Signal("cancel")
  /\ UNCHANGED <<case, desk>>

\* Faulty variant: the case is written without the version it was read at.
CommitCancelUnversioned ==
  /\ cancel # "none"
  /\ case' = Transition(case, "CANCELLED")
  /\ cancel' = "none"
  /\ UNCHANGED <<desk, wf, faults>>

\* ... which commits when the request ends, unless the case has moved since.
CommitCancel ==
  /\ cancel # "none"
  /\ case' = IF case.state = cancel THEN Transition(case, "CANCELLED")
                                    ELSE case
  /\ cancel' = "none"
  /\ UNCHANGED <<desk, wf, faults>>

\* The scenario runner is the only one to open the award gate of a case whose
\* negotiation was not closed.
OpenAwardGate ==
  /\ ScenarioRunner
  /\ case.state \in {"COMMERCIAL_EVALUATION", "NEGOTIATION"}
  /\ case' = Transition(case, "WAITING_FOR_AWARD_APPROVAL")
  /\ UNCHANGED <<desk, cancel, wf, faults>>

-----------------------------------------------------------------------------
(* The system *)

WorkflowStep ==
  \/ Start \/ Validate \/ Source \/ Prepare \/ Send \/ Collect \/ Close
  \/ Evaluate \/ Unseal \/ Commercial
  \/ PlanRound \/ NotApproved \/ SendRound \/ WaitForReplies
  \/ Recommend \/ Schedule \/ Expedite \/ Finalize \/ Fail
  \/ PassGate

PeopleStep ==
  \/ EngineeringReady \/ ReleaseRfq \/ ApproveTechnical \/ ApproveNegotiation
  \/ \E v \in Suppliers : ApproveAward(v)
  \/ ReleasePo \/ RequestCancel \/ CommitCancel \/ OpenAwardGate

Next == WorkflowStep \/ ActivityFails \/ PeopleStep

Spec == Init /\ [][Next]_vars

\* Temporal executes what is due; a request that was begun ends.  People
\* decide when they like.
FairSpec == Spec /\ WF_vars(WorkflowStep) /\ WF_vars(CommitCancel)

-----------------------------------------------------------------------------
(* Properties *)

\* Where the workflow is, somebody decided it may be: past each of its gates
\* the decision is on the case or in the database, although all the workflow
\* looks at is its signals.
StagesFollowDecisions ==
  /\ wf.at \in {"send", "collect", "close", "evaluate", "techGate"}
       => desk.prepared /\ (desk.released \/ AutoReleaseRfq)
  /\ wf.at \in {"unseal", "commercial", "negPlan", "negGate", "negSend",
                "negWait", "awardGate"} => case.unlocked
  /\ wf.at \in {"negSend", "negWait"} => desk.asked /\ case.round > 0
  /\ wf.at \in {"recommend", "schedule", "expedite", "finalize"}
       => case.awardee # NoSupplier

\* An order is drafted for an awarded case only, and a workflow that returns
\* COMPLETED has drafted one.
CompletedHasOrder ==
  /\ desk.orders > 0 => case.awardee # NoSupplier /\ case.unlocked
  /\ wf.result = "COMPLETED" => desk.orders > 0

\* What the other modules assume of the workflow and of the routes: a case
\* moves along the driven transitions, one or two in a session; it is unlocked
\* on leaving the technical gate only; no session awards and moves it.
CaseMovesAsAssumed ==
  [][case' # case =>
       /\ \/ case'.state = case.state
          \/ <<case.state, case'.state>> \in DrivenTransitions
          \/ \E s \in CaseStates :
               /\ <<case.state, s>> \in DrivenTransitions
               /\ <<s, case'.state>> \in DrivenTransitions
       /\ case'.unlocked # case.unlocked
            => case.state = "WAITING_FOR_TECHNICAL_APPROVAL"
       /\ case'.awardee # case.awardee => case'.state = case.state]_vars

\* The workflow never hangs on anything but people: whatever is lost, fails
\* or is cancelled, it comes to rest at a gate or ends.
ComesToRest ==
  <>[](wf.at \in {g[1] : g \in Gates} \cup {"ended"})

-----------------------------------------------------------------------------
(* What the documents and comments say and the code does not keep: each of   *)
(* these fails.                                                              *)

\* A supplier who does not answer cannot end the workflow: the quote window
\* closes at its deadline.
QuoteWindowIsHeld ==
  [][wf.at = "collect" => wf'.result # "BROKEN"]_vars

\* The workflow waits for the award of a case that can be awarded.
AwardGateIsOpen ==
  wf.at = "awardGate" =>
    case.state \in {"WAITING_FOR_AWARD_APPROVAL"} \cup TerminalStates

\* A technical approval stands whether or not the workflow could be told: the
\* workflow goes on from its gate.
ApprovalIsActedOn ==
  case.unlocked /\ wf.at = "techGate" ~> wf.at # "techGate"

\* A workflow that returns COMPLETED leaves a completed case.
CompletedMeansCompleted ==
  wf.result = "COMPLETED" => case.state = "COMPLETED"
=============================================================================
