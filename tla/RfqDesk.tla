------------------------------- MODULE RfqDesk -------------------------------
(***************************************************************************)
(* From the shortlist to the closing of the quote window: RFQ packages,    *)
(* their release by a person, the invitations, the reminders and what the  *)
(* suppliers answer (rfq_service.py, mailroom.py, the shortlist and        *)
(* release routes, the activities and the part of the workflow that calls  *)
(* them).                                                                  *)
(*                                                                         *)
(* An activity commits and may be executed again when its answer to        *)
(* Temporal is lost: the actions of the workflow say whether they were     *)
(* heard of.  Which letters leave, and how often, is the subject of        *)
(* Outbox; here mail is what the communication rows say of it.  The        *)
(* reminder interval and the counters shown to people are left out.        *)
(***************************************************************************)
EXTENDS SourcingCase, Sequences

CONSTANTS MaxSuppliers,   \* settings.max_suppliers_per_rfq
          MaxReminders,   \* settings.max_rfq_reminders
          AutoRelease,    \* ProcurementWorkflowInput.auto_release_rfq
          AutoSend,       \* settings.allow_automated_email_send
          MaxRfqs         \* bound: executions of prepare_rfq_activity

ASSUME RfqAssumption ==
  /\ IsFiniteSet(Suppliers)
  /\ MaxSuppliers \in Nat
  /\ MaxReminders \in Nat
  /\ AutoRelease \in BOOLEAN
  /\ AutoSend \in BOOLEAN
  /\ MaxRfqs \in Nat

VARIABLES case,       \* the sourcing case
          selected,   \* candidates marked for invitation
          rfqs,       \* RFQ packages, in the order they were built
          reminders,  \* case.reminder_count_by_supplier
          answer,     \* what each supplier last told us (external)
          flow        \* the workflow: its stage, the package it was told of,
                      \* and whether the release signal reached it

vars == <<case, selected, rfqs, reminders, answer, flow>>

InvitationStatus ==
  {"NONE", "DRAFT", "QUEUED", "SENT", "ACKNOWLEDGED", "QUOTED", "DECLINED",
   "NO_RESPONSE"}

Rfq == [status   : {"PENDING_RELEASE_APPROVAL", "ISSUED", "CLOSED"},
        released : BOOLEAN,                                \* released_by
        invited  : [Suppliers -> InvitationStatus],
        mail     : [Suppliers -> {"NONE", "PENDING_APPROVAL", "SENT"}]]

Answers == {"SILENT", "ASKED", "REFUSED", "QUOTED"}

Stages == {"prepare", "release", "send", "collect", "close", "left"}

TypeOK ==
  /\ case \in Case
  /\ selected \in SUBSET Suppliers
  /\ rfqs \in Seq(Rfq)
  /\ reminders \in [Suppliers -> 0..MaxReminders]
  /\ answer \in [Suppliers -> Answers]
  /\ flow \in [stage : Stages, rfq : 0..MaxRfqs, signalled : BOOLEAN]

Init ==
  /\ case = NewCase
  /\ selected = {}
  /\ rfqs = <<>>
  /\ reminders = [v \in Suppliers |-> 0]
  /\ answer = [v \in Suppliers |-> "SILENT"]
  /\ flow = [stage |-> "prepare", rfq |-> 0, signalled |-> FALSE]

-----------------------------------------------------------------------------
(* Reading the rows *)

\* latest_for_case orders by revision and every package is revision 1.
IsLatest(i) == i \in DOMAIN rfqs

Invitees(i) == {v \in Suppliers : rfqs[i].invited[v] # "NONE"}

\* find_invitation: the newest invitation of the supplier.
IsNewest(v, i) ==
  /\ i \in DOMAIN rfqs
  /\ v \in Invitees(i)
  /\ \A j \in DOMAIN rfqs : j > i => v \notin Invitees(j)

Mark(v, i, status) == rfqs' = [rfqs EXCEPT ![i].invited[v] = status]

HasQuote(v) == answer[v] = "QUOTED"

-----------------------------------------------------------------------------
(* The shortlist *)

\* The shortlist is built (and rebuilt on demand), overridden or added to by
\* a person, in any state of the case.
Reselect ==
  /\ selected' \in SUBSET Suppliers
  /\ case' = IF case.state = "VALIDATING_PR"
             THEN Transition(case, "SOURCING_STRATEGY")
             ELSE case
  /\ UNCHANGED <<rfqs, reminders, answer, flow>>

-----------------------------------------------------------------------------
(* The RFQ package *)

\* The package of a new RFQ; a supplier without an address is not invited.
Package(invited) ==
  [status   |-> "PENDING_RELEASE_APPROVAL",
   released |-> FALSE,
   invited  |-> [v \in Suppliers |-> IF v \in invited THEN "DRAFT" ELSE "NONE"],
   mail     |-> [v \in Suppliers |-> "NONE"]]

\* prepare_rfq_activity
PrepareRfq ==
  LET ready == IF case.state = "SOURCING_STRATEGY"
               THEN Transition(case, "READY_FOR_RFQ") ELSE case
  IN  /\ flow.stage = "prepare"
      /\ Len(rfqs) < MaxRfqs
      /\ MayIssueRfq(ready, selected, MaxSuppliers)
      /\ case' = ready
      /\ \E invited \in SUBSET selected :
           rfqs' = Append(rfqs, Package(invited))
      /\ \/ UNCHANGED flow
         \/ flow' = [flow EXCEPT !.stage = IF AutoRelease THEN "send"
                                                          ELSE "release",
                                 !.rfq = Len(rfqs) + 1]
      /\ UNCHANGED <<selected, reminders, answer>>

\* approve_rfq_release, in any state of the case and of the package; the
\* signal may not reach the workflow.
ReleaseRfq(i) ==
  /\ IsLatest(i)
  /\ rfqs' = [rfqs EXCEPT ![i].status = "ISSUED", ![i].released = TRUE]
  /\ flow' \in {flow, [flow EXCEPT !.signalled = TRUE]}
  /\ UNCHANGED <<case, selected, reminders, answer>>

\* Faulty variant: the workflow does not wait for the release.
PassReleaseGateEarly ==
  /\ flow.stage = "release"
  /\ flow' = [flow EXCEPT !.stage = "send"]
  /\ UNCHANGED <<case, selected, rfqs, reminders, answer>>

\* The workflow's wait for the release ends.
PassReleaseGate ==
  /\ flow.stage = "release"
  /\ flow.signalled
  /\ flow' = [flow EXCEPT !.stage = "send"]
  /\ UNCHANGED <<case, selected, rfqs, reminders, answer>>

-----------------------------------------------------------------------------
(* Invitations *)

\* MailroomService.send for the key of one invitation: a row that exists is
\* left as it is.
Mailed(i, v) == IF rfqs[i].mail[v] # "NONE" THEN rfqs[i].mail[v]
                ELSE IF AutoSend THEN "SENT" ELSE "PENDING_APPROVAL"

\* The package after one execution of the activity: every invitation is
\* marked anew, whatever was known of it.
Invited(i) ==
  [rfqs[i] EXCEPT
     !.status = "ISSUED",
     !.mail = [v \in Suppliers |-> IF v \in Invitees(i) THEN Mailed(i, v)
                                                        ELSE rfqs[i].mail[v]],
     !.invited = [v \in Suppliers |->
                    IF v \notin Invitees(i) THEN rfqs[i].invited[v]
                    ELSE IF Mailed(i, v) = "SENT" THEN "SENT" ELSE "QUEUED"]]

\* Faulty variant: the case waits for quotes nobody was asked for.
SendInvitationsToNobody ==
  LET i == flow.rfq
  IN  /\ flow.stage = "send"
      /\ rfqs' = IF Invitees(i) # {} THEN [rfqs EXCEPT ![i] = Invited(i)]
                                     ELSE rfqs
      /\ case' = IF case.state = "READY_FOR_RFQ"
                 THEN Transition(case, "WAITING_FOR_QUOTES")
                 ELSE case
      /\ flow' \in {flow, [flow EXCEPT !.stage = "collect"]}
      /\ UNCHANGED <<selected, reminders, answer>>

\* send_rfq_invitations_activity, for the package the workflow was told of.
SendInvitations ==
  LET i == flow.rfq
  IN  /\ flow.stage = "send"
      /\ rfqs' = IF Invitees(i) # {} THEN [rfqs EXCEPT ![i] = Invited(i)]
                                     ELSE rfqs
      /\ case' = IF case.state = "READY_FOR_RFQ" /\ Invitees(i) # {}
                 THEN Transition(case, "WAITING_FOR_QUOTES")
                 ELSE case
      /\ flow' \in {flow, [flow EXCEPT !.stage = "collect"]}
      /\ UNCHANGED <<selected, reminders, answer>>

\* release_held and _advance_invitation_on_send, whatever the supplier has
\* said in the meantime.
ReleaseHeld(i, v) ==
  /\ i \in DOMAIN rfqs
  /\ rfqs[i].mail[v] = "PENDING_APPROVAL"
  /\ rfqs' = [rfqs EXCEPT ![i].mail[v] = "SENT", ![i].invited[v] = "SENT"]
  /\ UNCHANGED <<case, selected, reminders, answer, flow>>

-----------------------------------------------------------------------------
(* Reminders *)

\* may_send_reminder, once the interval has passed, and register_reminder.
MayRemind(v) ==
  /\ case.state = "WAITING_FOR_QUOTES"
  /\ reminders[v] < MaxReminders

\* supplier_reminder_activity: the status read is the newest invitation's.
Remind(v) ==
  /\ flow.stage = "collect"
  /\ \E i \in DOMAIN rfqs :
       /\ IsNewest(v, i)
       /\ rfqs[i].invited[v] \notin {"QUOTED", "DECLINED"}
  /\ MayRemind(v)
  /\ reminders' = [reminders EXCEPT ![v] = @ + 1]
  /\ UNCHANGED <<case, selected, rfqs, answer, flow>>

-----------------------------------------------------------------------------
(* Answers *)

\* A reply that reached us is matched to the invitation it answers; a letter
\* held back has reached nobody.
Reached(v, i) == i \in DOMAIN rfqs /\ rfqs[i].mail[v] = "SENT"

\* receive, then ingest_from_communication: the matched invitation and the
\* newest one are marked.
ReceiveQuote(v, i) ==
  /\ Reached(v, i)
  /\ \E j \in DOMAIN rfqs :
       /\ IsNewest(v, j)
       /\ rfqs' = [rfqs EXCEPT ![i].invited[v] = "QUOTED",
                               ![j].invited[v] = "QUOTED"]
  /\ answer' = [answer EXCEPT ![v] = "QUOTED"]
  /\ UNCHANGED <<case, selected, reminders, flow>>

\* A question, and a refusal as well: _classify calls a refusal a
\* clarification, so the branch of receive that marks a refusal is not
\* reached.
ReceiveOther(v, i) ==
  /\ Reached(v, i)
  /\ Mark(v, i, "ACKNOWLEDGED")
  /\ \E word \in {"ASKED", "REFUSED"} :
       answer' = [answer EXCEPT ![v] = IF HasQuote(v) THEN "QUOTED" ELSE word]
  /\ UNCHANGED <<case, selected, reminders, flow>>

\* Manual entry of a quotation or a refusal sent by other means.
EnterQuote(v) ==
  /\ rfqs # <<>>
  /\ \E declined \in BOOLEAN :
       /\ answer' = [answer EXCEPT ![v] = IF declined THEN "REFUSED"
                                                      ELSE "QUOTED"]
       /\ \/ \E j \in DOMAIN rfqs :
               IsNewest(v, j) /\ Mark(v, j, IF declined THEN "DECLINED"
                                                        ELSE "QUOTED")
          \/ /\ \A j \in DOMAIN rfqs : v \notin Invitees(j)
             /\ UNCHANGED rfqs
  /\ UNCHANGED <<case, selected, reminders, flow>>

-----------------------------------------------------------------------------
(* The end of the quote window *)

\* _collect_quotes returns: everybody answered, or the window is over.
StopCollecting ==
  /\ flow.stage = "collect"
  /\ flow' = [flow EXCEPT !.stage = "close"]
  /\ UNCHANGED <<case, selected, rfqs, reminders, answer>>

ClosedStatus(status) ==
  IF status \in {"SENT", "ACKNOWLEDGED", "QUEUED"} THEN "NO_RESPONSE" ELSE status

\* close_rfq_activity, for whichever package is taken for the latest.
CloseRfq(i) ==
  /\ flow.stage = "close"
  /\ IsLatest(i)
  /\ rfqs' = [rfqs EXCEPT
                ![i].status = "CLOSED",
                ![i].invited = [v \in Suppliers |->
                                  ClosedStatus(rfqs[i].invited[v])]]
  /\ flow' \in {flow, [flow EXCEPT !.stage = "left"]}
  /\ UNCHANGED <<case, selected, reminders, answer>>

-----------------------------------------------------------------------------
(* The rest of the system, through the case *)

MoveCase ==
  \E s \in {"VALIDATING_PR", "TECHNICAL_EVALUATION"} \cup Abandoned :
    /\ <<case.state, s>> \in DrivenTransitions
    /\ s = "TECHNICAL_EVALUATION" => flow.stage = "left"
    /\ case' = Transition(case, s)
    /\ UNCHANGED <<selected, rfqs, reminders, answer, flow>>

Next ==
  \/ Reselect
  \/ PrepareRfq
  \/ \E i \in 1..MaxRfqs : ReleaseRfq(i)
  \/ PassReleaseGate
  \/ SendInvitations
  \/ \E i \in 1..MaxRfqs, v \in Suppliers : ReleaseHeld(i, v)
  \/ \E v \in Suppliers : Remind(v)
  \/ \E i \in 1..MaxRfqs, v \in Suppliers : ReceiveQuote(v, i)
  \/ \E i \in 1..MaxRfqs, v \in Suppliers : ReceiveOther(v, i)
  \/ \E v \in Suppliers : EnterQuote(v)
  \/ StopCollecting
  \/ \E i \in 1..MaxRfqs : CloseRfq(i)
  \/ MoveCase

Spec == Init /\ [][Next]_vars

-----------------------------------------------------------------------------
(* Properties *)

\* Unless release is automatic, no invitation is drafted to a supplier before
\* a person has released a package of the case, and no supplier has a letter
\* that no invitation stands for.
NothingOutBeforeRelease ==
  \A i \in DOMAIN rfqs, v \in Suppliers :
    rfqs[i].mail[v] # "NONE" =>
      /\ v \in Invitees(i)
      /\ AutoRelease \/ \E j \in DOMAIN rfqs : rfqs[j].released

\* A case waits for quotes only if somebody was asked for one: a package was
\* issued and has an invitation that is more than a draft.
SomebodyWasAsked ==
  case.state = "WAITING_FOR_QUOTES" =>
    \E i \in DOMAIN rfqs :
      /\ rfqs[i].status # "PENDING_RELEASE_APPROVAL"
      /\ \E v \in Invitees(i) : rfqs[i].invited[v] # "DRAFT"

\* No package invites more suppliers than the policy allows, however the
\* shortlist changes around it, and reminders go to invited suppliers only.
InvitationsAreBounded ==
  /\ \A i \in DOMAIN rfqs : Cardinality(Invitees(i)) <= MaxSuppliers
  /\ \A v \in Suppliers :
       reminders[v] > 0 => \E i \in DOMAIN rfqs : v \in Invitees(i)

-----------------------------------------------------------------------------
(* What the documents and comments say and the code does not keep: each of   *)
(* these fails.                                                              *)

\* The letters that leave are those of a package a person released.
ReleasedPackageIsTheOneSent ==
  \A i \in DOMAIN rfqs, v \in Suppliers :
    rfqs[i].mail[v] # "NONE" => rfqs[i].released

\* A supplier whose quotation is on file is not reminded to quote.
NoReminderAfterQuote ==
  [][\A v \in Suppliers :
       reminders'[v] > reminders[v] => answer[v] # "QUOTED"]_vars

\* A supplier who answered the enquiry with a refusal is not reminded.
NoReminderAfterRefusal ==
  [][\A v \in Suppliers :
       reminders'[v] > reminders[v] => answer[v] # "REFUSED"]_vars
=============================================================================
