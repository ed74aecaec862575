-------------------------------- MODULE Outbox --------------------------------
(***************************************************************************)
(* How letters to suppliers leave the system: the mail activity with its   *)
(* retries, the row and the idempotency key that guard each letter, and    *)
(* the people who release what policy held back (MailroomService.send and  *)
(* release_held, the idempotency repository, the session of an activity).  *)
(*                                                                         *)
(* A letter is the number of its invitation: the activity goes through     *)
(* them in one order, within one database transaction, and talks to the    *)
(* mail provider in the middle of it.  Temporal starts another attempt     *)
(* when one fails or is not heard of in time, up to the number its retry   *)
(* policy allows.  It listens to one attempt at a time; one it no longer   *)
(* listens to may run on beside the next, to its end.                      *)
(* The database is SERIALIZABLE: an insert waits for the transaction that  *)
(* holds the same unique key, fails if that one commits, and a commit      *)
(* fails if a row it rewrites has changed since it was read.               *)
(***************************************************************************)
EXTENDS Naturals

CONSTANTS LetterCount,   \* invitations of the RFQ
          Attempts,      \* the attempts the retry policy allows: five
          Clerks,        \* people releasing held mail at the same time
          Nobody,        \* none of the attempts
          MaxFaults      \* bound: releases by a person that fail

ASSUME OutboxAssumption ==
  /\ LetterCount \in Nat
  /\ Nobody \notin Attempts
  /\ MaxFaults \in Nat

VARIABLES autoSend,  \* settings.allow_automated_email_send, never changed
          row,       \* the committed communication row of each letter
          holder,    \* attempt whose open transaction inserted the row
          attempt,   \* where each attempt of the activity is
          clerk,     \* where each person releasing mail is
          copies,    \* copies the provider accepted (external)
          lost,      \* copies whose transaction was then rolled back
          released,  \* letters a person asked to release
          begun,     \* attempts that were started
          current,   \* the attempt Temporal listens to
          spoiled,   \* attempts it heard fail, or not in time, but for a key
                     \* that was taken
          outcome,   \* of the activity, as the workflow is told
          faults     \* releases that failed

temporal == <<begun, current, spoiled, outcome>>

mail == <<row, holder, copies, lost, released>>

vars == <<autoSend, mail, attempt, clerk, temporal, faults>>

Letter == 1..LetterCount

RowStatus == {"NONE", "PENDING_APPROVAL", "SENT"}

TypeOK ==
  /\ autoSend \in BOOLEAN
  /\ row \in [Letter -> RowStatus]
  /\ holder \in [Letter -> Attempts \cup {Nobody}]
  /\ attempt \in [Attempts -> [pc : {"idle", "lookup", "insert", "claimed"},
                               at : 1..(LetterCount + 1)]]
  /\ clerk \in [Clerks -> [pc : {"idle", "deliver", "record"},
                           at : 1..(LetterCount + 1)]]
  /\ copies \in [Letter -> Nat]
  /\ lost \in [Letter -> Nat]
  /\ released \in SUBSET Letter
  /\ begun \in SUBSET Attempts
  /\ current \in Attempts \cup {Nobody}
  /\ spoiled \in SUBSET Attempts
  /\ outcome \in {"open", "done", "refused", "exhausted"}
  /\ faults \in 0..MaxFaults

Idle == [pc |-> "idle", at |-> 1]

Init ==
  /\ autoSend \in BOOLEAN
  /\ row = [k \in Letter |-> "NONE"]
  /\ holder = [k \in Letter |-> Nobody]
  /\ attempt = [a \in Attempts |-> Idle]
  /\ clerk = [c \in Clerks |-> Idle]
  /\ copies = [k \in Letter |-> 0]
  /\ lost = [k \in Letter |-> 0]
  /\ released = {}
  /\ begun = {}
  /\ current = Nobody
  /\ spoiled = {}
  /\ outcome = "open"
  /\ faults = 0

-----------------------------------------------------------------------------
(* One attempt of the mail activity: MailroomService.send, letter by letter *)

At(a, pc) == attempt[a].pc = pc

\* The letter the attempt is working on.
Current(a) == attempt[a].at

Working(a) == ~At(a, "idle")

GoTo(a, pc, k) == attempt' = [attempt EXCEPT ![a] = [pc |-> pc, at |-> k]]

\* Temporal hears the end of attempt a; of one that is not current it takes no
\* notice.
Ends(a) == current' = IF current = a THEN Nobody ELSE current

\* Faulty variant: the number of attempts is not limited.
BeginAgain(a) ==
  /\ At(a, "idle")
  /\ outcome = "open" /\ current = Nobody
  /\ begun' = begun \cup {a}
  /\ current' = a
  /\ GoTo(a, "lookup", 1)
  /\ UNCHANGED <<autoSend, mail, clerk, spoiled, outcome, faults>>

\* A worker takes the next attempt.
Begin(a) ==
  /\ a \notin begun
  /\ outcome = "open" /\ current = Nobody
  /\ begun' = begun \cup {a}
  /\ current' = a
  /\ GoTo(a, "lookup", 1)
  /\ UNCHANGED <<autoSend, mail, clerk, spoiled, outcome, faults>>

\* find_by_idempotency_key: a committed row means the letter is dealt with.
Lookup(a) ==
  /\ At(a, "lookup")
  /\ Current(a) \in Letter
  /\ IF row[Current(a)] = "NONE"
     THEN GoTo(a, "insert", Current(a))
     ELSE GoTo(a, "lookup", Current(a) + 1)
  /\ UNCHANGED <<autoSend, mail, clerk, temporal, faults>>

\* Faulty variant: the key is claimed without waiting for who holds it.
InsertUnheld(a) ==
  /\ At(a, "insert")
  /\ row[Current(a)] = "NONE"
  /\ holder' = [holder EXCEPT ![Current(a)] = a]
  /\ IF autoSend THEN GoTo(a, "claimed", Current(a))
                 ELSE GoTo(a, "lookup", Current(a) + 1)
  /\ UNCHANGED <<autoSend, row, clerk, copies, lost, released, temporal,
                 faults>>

\* Faulty variant: a letter is transmitted whatever the policy says.
InsertUngated(a) ==
  /\ At(a, "insert")
  /\ row[Current(a)] = "NONE"
  /\ holder[Current(a)] = Nobody
  /\ holder' = [holder EXCEPT ![Current(a)] = a]
  /\ GoTo(a, "claimed", Current(a))
  /\ UNCHANGED <<autoSend, row, clerk, copies, lost, released, temporal,
                 faults>>

\* communications.create, the policy gate and idempotency.claim: both inserts
\* carry the letter's key.  A letter policy holds back needs nothing more.
Insert(a) ==
  /\ At(a, "insert")
  /\ row[Current(a)] = "NONE"
  /\ holder[Current(a)] = Nobody
  /\ holder' = [holder EXCEPT ![Current(a)] = a]
  /\ IF autoSend THEN GoTo(a, "claimed", Current(a))
                 ELSE GoTo(a, "lookup", Current(a) + 1)
  /\ UNCHANGED <<autoSend, row, clerk, copies, lost, released, temporal,
                 faults>>

\* mailer.send returned.
Transmit(a) ==
  /\ At(a, "claimed")
  /\ copies' = [copies EXCEPT ![Current(a)] = @ + 1]
  /\ GoTo(a, "lookup", Current(a) + 1)
  /\ UNCHANGED <<autoSend, row, holder, clerk, lost, released, temporal,
                 faults>>

Held(a) == {k \in Letter : holder[k] = a}

\* Letters the attempt handed to the provider within its open transaction.
Transmitted(a) ==
  IF autoSend THEN {k \in Held(a) : At(a, "claimed") => k # Current(a)} ELSE {}

\* The session is rolled back: rows and claims of every letter of the attempt
\* vanish, what was mailed is mailed.
RollBack(a) ==
  /\ holder' = [k \in Letter |-> IF holder[k] = a THEN Nobody ELSE holder[k]]
  /\ lost' = [k \in Letter |-> IF k \in Transmitted(a) THEN lost[k] + 1
                                                       ELSE lost[k]]
  /\ attempt' = [attempt EXCEPT ![a] = Idle]
  /\ Ends(a)
  /\ UNCHANGED <<autoSend, row, clerk, copies, released, begun, faults>>

\* Faulty variant: the insert does not wait for the holder of the key, it
\* fails at once.
CollideWithHolder(a) ==
  /\ At(a, "insert")
  /\ row[Current(a)] # "NONE" \/ holder[Current(a)] # Nobody
  /\ RollBack(a)
  /\ UNCHANGED <<spoiled, outcome>>

\* The insert waited for an attempt that committed: IntegrityError, and an
\* attempt is used up.
Collide(a) ==
  /\ At(a, "insert")
  /\ row[Current(a)] # "NONE"
  /\ RollBack(a)
  /\ UNCHANGED <<spoiled, outcome>>

\* The worker dies, the provider refuses a letter or the commit fails; the
\* letters before it share the attempt's transaction.  Whether the error is
\* one the policy does not retry is left open: the list names error codes,
\* what Temporal compares is the name of the exception's class.
Fail(a) ==
  /\ Working(a)
  /\ RollBack(a)
  /\ IF current = a
     THEN spoiled' = spoiled \cup {a} /\ outcome' \in {"open", "refused"}
     ELSE UNCHANGED <<spoiled, outcome>>

\* Faulty variant: the commit of with_context is left out.
BookedNothing(a) == row

\* What an attempt that commits writes.
Booked(a) ==
  [k \in Letter |-> IF holder[k] # a THEN row[k]
                    ELSE IF autoSend THEN "SENT" ELSE "PENDING_APPROVAL"]

\* with_context commits every letter at once.  Its answer is lost, or comes
\* when Temporal no longer listens, or completes the activity.
Commit(a) ==
  /\ At(a, "lookup")
  /\ Current(a) = LetterCount + 1
  /\ row' = Booked(a)
  /\ holder' = [k \in Letter |-> IF holder[k] = a THEN Nobody ELSE holder[k]]
  /\ attempt' = [attempt EXCEPT ![a] = Idle]
  /\ \/ current = a /\ outcome' = "done" /\ current' = Nobody
     \/ UNCHANGED <<outcome, current>>
  /\ UNCHANGED <<autoSend, clerk, copies, lost, released, begun, spoiled,
                 faults>>

-----------------------------------------------------------------------------
(* Temporal, beside the attempts *)

\* start_to_close_timeout: the attempt may still be running, or be over.
TimeOut ==
  /\ current # Nobody
  /\ spoiled' = spoiled \cup {current}
  /\ current' = Nobody
  /\ UNCHANGED <<autoSend, mail, attempt, clerk, begun, outcome, faults>>

\* maximum_attempts are used up: the activity fails, and with it the workflow.
GiveUp ==
  /\ outcome = "open" /\ current = Nobody
  /\ begun = Attempts
  /\ outcome' = "exhausted"
  /\ UNCHANGED <<autoSend, mail, attempt, clerk, begun, current, spoiled,
                 faults>>

-----------------------------------------------------------------------------
(* A person releasing a held letter: MailroomService.release_held          *)

Review(c, k) ==
  /\ clerk[c].pc = "idle"
  /\ row[k] = "PENDING_APPROVAL"
  /\ clerk' = [clerk EXCEPT ![c] = [pc |-> "deliver", at |-> k]]
  /\ released' = released \cup {k}
  /\ UNCHANGED <<autoSend, row, holder, attempt, copies, lost, temporal,
                 faults>>

\* The letter is mailed before anything is written; no key is claimed.
Deliver(c) ==
  /\ clerk[c].pc = "deliver"
  /\ copies' = [copies EXCEPT ![clerk[c].at] = @ + 1]
  /\ clerk' = [clerk EXCEPT ![c].pc = "record"]
  /\ UNCHANGED <<autoSend, row, holder, attempt, lost, released, temporal,
                 faults>>

\* mark_sent and the commit of the request, which fails when somebody else has
\* marked the row since it was read: that copy is on no book.
Record(c) ==
  LET k == clerk[c].at
  IN  /\ clerk[c].pc = "record"
      /\ row' = [row EXCEPT ![k] = "SENT"]
      /\ lost' = IF row[k] = "SENT" THEN [lost EXCEPT ![k] = @ + 1] ELSE lost
      /\ clerk' = [clerk EXCEPT ![c] = Idle]
      /\ UNCHANGED <<autoSend, holder, attempt, copies, released, temporal,
                     faults>>

\* The provider refuses, or the process dies before the commit.
ClerkFails(c) ==
  /\ clerk[c].pc # "idle"
  /\ faults < MaxFaults /\ faults' = faults + 1
  /\ lost' = IF clerk[c].pc = "record"
             THEN [lost EXCEPT ![clerk[c].at] = @ + 1] ELSE lost
  /\ clerk' = [clerk EXCEPT ![c] = Idle]
  /\ UNCHANGED <<autoSend, row, holder, attempt, copies, released, temporal>>

-----------------------------------------------------------------------------
(* The system *)

AttemptStep(a) ==
  \/ Begin(a) \/ Lookup(a) \/ Insert(a) \/ Transmit(a)
  \/ Collide(a) \/ Fail(a) \/ Commit(a)

Next ==
  \/ \E a \in Attempts : AttemptStep(a)
  \/ TimeOut \/ GiveUp
  \/ \E c \in Clerks :
       \/ \E k \in Letter : Review(c, k)
       \/ Deliver(c) \/ Record(c) \/ ClerkFails(c)

Spec == Init /\ [][Next]_vars

\* Temporal hands out attempts while it may, gives up on those it does not hear
\* of, and ends the activity when there are no more.  Nothing is assumed of the
\* attempts themselves, nor of the people.
FairSpec ==
  /\ Spec
  /\ WF_vars(\E a \in Attempts : Begin(a))
  /\ WF_vars(TimeOut)
  /\ WF_vars(GiveUp)

-----------------------------------------------------------------------------
(* Properties *)

AllBooked == \A k \in Letter : row[k] # "NONE"

\* With automated sending, a supplier receives a second copy of a letter only
\* if the transaction that mailed the first was rolled back by a fault: two
\* attempts that overlap never both mail it, and an attempt that loses the
\* race for a key has mailed nothing it then forgets.
CopiesAreAccounted ==
  autoSend => \A k \in Letter : copies[k] <= 1 + lost[k]

\* What the books call sent has left, and with automated sending switched off
\* no letter leaves that a person did not release.
NothingSentByAccident ==
  \A k \in Letter :
    /\ row[k] = "SENT" => copies[k] > 0
    /\ copies[k] > 0 /\ ~autoSend => k \in released

\* What Temporal was told is done is on the books: whichever attempt reported
\* completion, however many came before it or ran beside it, every letter has
\* a committed row, sent or held for release.
AcknowledgedIsRecorded ==
  outcome = "done" => AllBooked

\* Attempts do not use each other up: if the activity fails because there are
\* no more of them, either every one was hit by a fault of its own (it failed,
\* or was not heard of in time), or every letter is on the books.  An attempt
\* that is lost to the key of another is lost to one that has done the work.
ExhaustedForAReason ==
  outcome = "exhausted" => spoiled = Attempts \/ AllBooked

\* The activity comes to an end the workflow is told of, whatever its attempts
\* do: they may fail, fall silent or wait for each other's keys.
ActivityEnds == <>(outcome # "open")

-----------------------------------------------------------------------------
(* What the documents and comments say and the code does not keep: each of   *)
(* these fails.                                                              *)

\* "A retry after a lost ack cannot duplicate them": no supplier receives a
\* letter twice.
NothingSentTwice == \A k \in Letter : copies[k] <= 1
=============================================================================
