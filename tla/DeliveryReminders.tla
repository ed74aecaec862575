-------------------------- MODULE DeliveryReminders --------------------------
(***************************************************************************)
(* The chase after an order: the reminders an order puts on the schedule   *)
(* (schedule_delivery_reminders_activity), the activity that sends those   *)
(* that are due (send_delivery_reminder_activity), the loop of the         *)
(* workflow around it (_expedite), and the people who cancel a case.       *)
(*                                                                         *)
(* The reminders of all cases of a tenant are in one table; an attempt of  *)
(* the sending activity reads the oldest that are due, writes a letter for *)
(* those of its own case, and commits at its end.  The database is         *)
(* SERIALIZABLE: the commit fails when a reminder it read was rewritten.   *)
(*                                                                         *)
(* An order has one line here; further lines have reminders of their own.  *)
(***************************************************************************)
EXTENDS Integers, SourcingCase

CONSTANTS Cases,          \* cases of a tenant, each with an order
          Offsets,        \* days from the delivery date to each reminder
          PageLimit,      \* reminders one attempt reads
          Tries,          \* attempts of an activity before it fails
          LastDay,        \* bound: the calendar ends here
          MaxChaseFaults  \* bound: attempts that fail or are not heard of

ASSUME RemindersAssumption ==
  /\ IsFiniteSet(Cases)
  /\ IsFiniteSet(Offsets) /\ Offsets \subseteq Int
  /\ PageLimit \in Nat \ {0}
  /\ Tries \in Nat \ {0}
  /\ LastDay \in Nat
  /\ MaxChaseFaults \in Nat

VARIABLES now,         \* the calendar
          delivery,    \* delivery date of each order, never changed
          reached,     \* letters leave: no policy holds them, and the vendor is
                       \* known; never changed
          status,      \* status of each row of scheduled_reminders
          case,        \* state of each case
          flow,        \* where each workflow is
          told,        \* workflows that have heard of the cancellation
          reading,     \* what the open attempt of each workflow read
          lastRead,    \* the day each workflow read the table last
          letters,     \* letters the provider accepted for each row (external)
          chaseFaults  \* faults so far

chaseVars == <<now, delivery, reached, status, case, flow, told, reading,
               lastRead, letters, chaseFaults>>

Days == 0..LastDay

\* The row for one offset written by one execution of the scheduling activity.
Reminders == Cases \X Offsets \X (1..Tries)

CaseOf(r) == r[1]

DueDay(r) == delivery[CaseOf(r)] + r[2]

Unstarted == [open |-> FALSE, rows |-> {}]

ChaseTypeOK ==
  /\ now \in Days
  /\ delivery \in [Cases -> Days]
  /\ reached \in [Cases -> BOOLEAN]
  /\ status \in [Reminders -> {"none", "SCHEDULED", "SENT", "CANCELLED"}]
  /\ case \in [Cases -> {"PO_RECOMMENDATION", "ORDER_PLACED"}
                         \cup TerminalStates]
  /\ flow \in [Cases -> [pc : {"schedule", "send", "wait", "finish", "fail",
                               "ended"},
                         try : 1..Tries]]
  /\ told \in SUBSET Cases
  /\ reading \in [Cases -> [open : BOOLEAN, rows : SUBSET Reminders]]
  /\ lastRead \in [Cases -> -1..LastDay]
  /\ letters \in [Reminders -> Nat]
  /\ chaseFaults \in 0..MaxChaseFaults

\* The order exists, the workflow is about to set up its reminders.
ChaseInit ==
  /\ now = 0
  /\ delivery \in [Cases -> Days]
  /\ reached \in [Cases -> BOOLEAN]
  /\ status = [r \in Reminders |-> "none"]
  /\ case = [c \in Cases |-> "PO_RECOMMENDATION"]
  /\ flow = [c \in Cases |-> [pc |-> "schedule", try |-> 1]]
  /\ told = {}
  /\ reading = [c \in Cases |-> Unstarted]
  /\ lastRead = [c \in Cases |-> -1]
  /\ letters = [r \in Reminders |-> 0]
  /\ chaseFaults = 0

-----------------------------------------------------------------------------
(* Time, and the workflow's view of an activity *)

FlowAt(c, pc) == flow[c].pc = pc

NewDay ==
  /\ now < LastDay
  /\ now' = now + 1
  /\ UNCHANGED <<delivery, reached, status, case, flow, told, reading,
                 lastRead, letters, chaseFaults>>

ChaseFault == chaseFaults < MaxChaseFaults /\ chaseFaults' = chaseFaults + 1

\* The activity completed.
Proceed(c, pc) == flow' = [flow EXCEPT ![c] = [pc |-> pc, try |-> 1]]

\* The attempt failed, or Temporal did not hear of it: the next one, or the
\* workflow fails.
TryAgain(c) ==
  IF flow[c].try < Tries
  THEN flow' = [flow EXCEPT ![c].try = @ + 1]
  ELSE Proceed(c, "fail")

\* The workflow hears, or does not hear, that the activity completed.
Answer(c, pc) ==
  \/ Proceed(c, pc) /\ UNCHANGED chaseFaults
  \/ TryAgain(c) /\ ChaseFault

-----------------------------------------------------------------------------
(* Setting up the schedule *)

\* A date before delivery that has passed already is left out.
Wanted(c) == {d \in Offsets : d > 0 \/ delivery[c] + d > now}

\* Every execution writes rows of its own: they have no key.
Schedule(c) ==
  /\ FlowAt(c, "schedule")
  /\ status' = [r \in Reminders |->
       IF CaseOf(r) = c /\ r[2] \in Wanted(c) /\ r[3] = flow[c].try
       THEN "SCHEDULED" ELSE status[r]]
  /\ Answer(c, "send")
  /\ UNCHANGED <<now, delivery, reached, case, told, reading, lastRead,
                 letters>>

\* The attempt dies before it commits.
ScheduleFails(c) ==
  /\ FlowAt(c, "schedule")
  /\ ChaseFault
  /\ TryAgain(c)
  /\ UNCHANGED <<now, delivery, reached, status, case, told, reading,
                 lastRead, letters>>

-----------------------------------------------------------------------------
(* Sending what is due *)

Due == {r \in Reminders : status[r] = "SCHEDULED" /\ DueDay(r) <= now}

\* The oldest reminders of the tenant, of whatever case.
Oldest(S) ==
  /\ S \subseteq Due
  /\ Cardinality(S) = IF Cardinality(Due) < PageLimit THEN Cardinality(Due)
                      ELSE PageLimit
  /\ \A r \in S, o \in Due \ S : DueDay(r) <= DueDay(o)

Own(c) == {r \in reading[c].rows : CaseOf(r) = c}

\* What the provider has accepted once letters for the rows in S are written.
Posted(S) ==
  [r \in Reminders |-> IF r \in S /\ reached[CaseOf(r)]
                       THEN letters[r] + 1 ELSE letters[r]]

\* The table once the rows in S have another status.
Marked(S, to) == [r \in Reminders |-> IF r \in S THEN to ELSE status[r]]

\* A new attempt reads the table.  A workflow that has heard of the
\* cancellation leaves the loop instead.
ReadDue(c) ==
  /\ FlowAt(c, "send")
  /\ ~reading[c].open
  /\ c \notin told \/ flow[c].try > 1
  /\ \E S \in SUBSET Due :
       /\ Oldest(S)
       /\ reading' = [reading EXCEPT ![c] = [open |-> TRUE, rows |-> S]]
  /\ lastRead' = [lastRead EXCEPT ![c] = now]
  /\ UNCHANGED <<now, delivery, reached, status, case, flow, told, letters,
                 chaseFaults>>

\* None of the case's rows was rewritten since the attempt read them.
Unchanged(c) == \A r \in Own(c) : status[r] = "SCHEDULED"

\* Faulty variant: the commit does not look at what was rewritten meanwhile.
SendDueBlindly(c) ==
  /\ FlowAt(c, "send")
  /\ reading[c].open
  /\ letters' = Posted(Own(c))
  /\ status' = Marked(Own(c), "SENT")
  /\ reading' = [reading EXCEPT ![c] = Unstarted]
  /\ Answer(c, IF reading[c].rows = {} THEN "finish" ELSE "wait")
  /\ UNCHANGED <<now, delivery, reached, case, told, lastRead>>

\* Faulty variant: the loop ends when nothing was sent.
SendDueOrStop(c) ==
  /\ FlowAt(c, "send")
  /\ reading[c].open
  /\ Unchanged(c)
  /\ letters' = Posted(Own(c))
  /\ status' = Marked(Own(c), "SENT")
  /\ reading' = [reading EXCEPT ![c] = Unstarted]
  /\ Answer(c, IF Own(c) = {} THEN "finish" ELSE "wait")
  /\ UNCHANGED <<now, delivery, reached, case, told, lastRead>>

\* A letter for each reminder of the case; each is then SENT, also when the
\* letter is held back or there is nobody to write to.  What the workflow
\* hears counts the reminders of every case.
SendDue(c) ==
  /\ FlowAt(c, "send")
  /\ reading[c].open
  /\ Unchanged(c)
  /\ letters' = Posted(Own(c))
  /\ status' = Marked(Own(c), "SENT")
  /\ reading' = [reading EXCEPT ![c] = Unstarted]
  /\ Answer(c, IF reading[c].rows = {} THEN "finish" ELSE "wait")
  /\ UNCHANGED <<now, delivery, reached, case, told, lastRead>>

\* The attempt ends without a commit, after some of its letters left: the
\* process dies, or the rows were rewritten meanwhile.
SendDueFails(c) ==
  /\ FlowAt(c, "send")
  /\ reading[c].open
  /\ \/ ChaseFault
     \/ ~Unchanged(c) /\ UNCHANGED chaseFaults
  /\ \E S \in SUBSET Own(c) : letters' = Posted(S)
  /\ reading' = [reading EXCEPT ![c] = Unstarted]
  /\ TryAgain(c)
  /\ UNCHANGED <<now, delivery, reached, status, case, told, lastRead>>

-----------------------------------------------------------------------------
(* The loop around it, and the end of the case *)

\* The workflow has heard of the cancellation: it leaves the loop and closes
\* the case like one that is done.
StopChasing(c) ==
  /\ c \in told
  /\ \/ FlowAt(c, "send") /\ ~reading[c].open /\ flow[c].try = 1
     \/ FlowAt(c, "wait")
  /\ Proceed(c, "finish")
  /\ UNCHANGED <<now, delivery, reached, status, case, told, reading,
                 lastRead, letters, chaseFaults>>

\* Nobody cancelled for a day.  wait_condition raises TimeoutError, which
\* nothing catches: the workflow ends here, and the case stays as it is.
DayIsOver(c) ==
  /\ FlowAt(c, "wait")
  /\ c \notin told
  /\ Proceed(c, "ended")
  /\ UNCHANGED <<now, delivery, reached, status, case, told, reading,
                 lastRead, letters, chaseFaults>>

MayMove(c, state) == <<case[c], state>> \in LegalTransitions

\* finalize_case_activity, for a case that is done or has failed: a case that
\* may not move to that state stays as it is, so one whose order nobody has
\* released is not completed.
Finish(c) ==
  /\ \/ FlowAt(c, "finish")
     \/ FlowAt(c, "fail")
  /\ LET target == IF FlowAt(c, "fail") THEN "FAILED" ELSE "COMPLETED" IN
     case' = [case EXCEPT ![c] = IF MayMove(c, target) THEN target ELSE @]
  /\ Proceed(c, "ended")
  /\ UNCHANGED <<now, delivery, reached, status, told, reading, lastRead,
                 letters, chaseFaults>>

\* release_order: a person releases the order for the ERP system.
ReleaseOrder(c) ==
  /\ MayMove(c, "ORDER_PLACED")
  /\ case' = [case EXCEPT ![c] = "ORDER_PLACED"]
  /\ UNCHANGED <<now, delivery, reached, status, flow, told, reading,
                 lastRead, letters, chaseFaults>>

\* cancel_for_case: what is still on the schedule.
Pending(c) == {r \in Reminders : CaseOf(r) = c /\ status[r] = "SCHEDULED"}

\* cancel_case: the case, its reminders, and a signal that may get lost.
Cancel(c) ==
  /\ MayMove(c, "CANCELLED")
  /\ case' = [case EXCEPT ![c] = "CANCELLED"]
  /\ status' = Marked(Pending(c), "CANCELLED")
  /\ told' \in {told, told \cup {c}}
  /\ UNCHANGED <<now, delivery, reached, flow, reading, lastRead, letters,
                 chaseFaults>>

-----------------------------------------------------------------------------
(* The system *)

Work(c) ==
  \/ Schedule(c) \/ ReadDue(c) \/ SendDue(c)
  \/ StopChasing(c) \/ DayIsOver(c) \/ Finish(c)

ChaseNext ==
  \/ NewDay
  \/ \E c \in Cases :
       \/ Work(c) \/ ScheduleFails(c) \/ SendDueFails(c)
       \/ ReleaseOrder(c) \/ Cancel(c)

ChaseSpec == ChaseInit /\ [][ChaseNext]_chaseVars

\* Temporal runs what a workflow waits for, and days go by.
ChaseFairSpec ==
  /\ ChaseSpec
  /\ WF_chaseVars(NewDay)
  /\ \A c \in Cases : WF_chaseVars(Work(c) \/ SendDueFails(c))
-----------------------------------------------------------------------------
(* Properties *)

Cancelled(r) == status[r] = "CANCELLED"

\* A reminder cancelled with its case stays cancelled, and no letter leaves
\* for it but from an attempt that had read it before, and is rolled back.
CancelledIsNotChased ==
  [][\A r \in Reminders : Cancelled(r) =>
       /\ Cancelled(r)'
       /\ letters'[r] > letters[r] =>
            r \in reading[CaseOf(r)].rows]_chaseVars

\* A workflow that closed its case as completed left nothing of the case on
\* the schedule that was due when it read the table last: neither a full page
\* of other cases' reminders, nor a letter held back, ends the loop early.
CompletedLeftNothingDue ==
  \A r \in Reminders :
    case[CaseOf(r)] = "COMPLETED" /\ CaseOf(r) \notin told
      /\ DueDay(r) <= lastRead[CaseOf(r)]
      => status[r] # "SCHEDULED"

-----------------------------------------------------------------------------
(* What the documents and comments say and the code does not keep: each of   *)
(* these fails.                                                              *)

\* "Send delivery reminders on schedule until every one has fired": a reminder
\* on the schedule is sent, unless its case is cancelled.
EveryReminderFires ==
  \A r \in Reminders :
    status[r] = "SCHEDULED" /\ DueDay(r) <= LastDay
      ~> status[r] = "SENT" \/ case[CaseOf(r)] = "CANCELLED"

\* A cancelled case has no reminder on the schedule.
CancelledIsOffSchedule ==
  \A r \in Reminders :
    case[CaseOf(r)] = "CANCELLED" => status[r] # "SCHEDULED"
=============================================================================
