------------------------------ MODULE CaseStore ------------------------------
(***************************************************************************)
(* How a case is loaded, changed and saved (SqlSourcingCaseRepository, the *)
(* sessions around it, run_in_transaction), with several sessions at the   *)
(* same case.                                                              *)
(*                                                                         *)
(* A session keeps one row object per case: every load of the session,     *)
(* also the one that save makes to check the version, answers with that    *)
(* object and not with what others committed meanwhile.  So the check can  *)
(* refuse no newer write of another session; that is left to the database, *)
(* which aborts a transaction whose reads have changed.                    *)
(*                                                                         *)
(* The case is the sequence of the changes made to it.                     *)
(***************************************************************************)
EXTENDS Naturals, Sequences, FiniteSets

CONSTANTS Requests,      \* requests of people: get_db, made once
          Activities,    \* activities: with_context, attempted again
          Retriers,      \* calls of run_in_transaction
          Plan,          \* the changes each makes, in order: a transition?
          MaxAttempts,   \* attempts Temporal makes at an activity
          MaxRetries,    \* run_in_transaction's max_retries
          Serializable,  \* the isolation the sessions get
          MaxFaults      \* bound: failed statements, lost answers

Callers == Requests \cup Activities \cup Retriers

ASSUME StoreAssumption ==
  /\ Plan \in [Callers -> Seq(BOOLEAN) \ {<<>>}]
  /\ MaxAttempts \in Nat \ {0}
  /\ MaxRetries \in Nat
  /\ Serializable \in BOOLEAN
  /\ MaxFaults \in Nat

VARIABLES stored,    \* the committed row
          call,      \* where each call is, and what its session holds
          answered,  \* callers that were told their call is done
          faults     \* faults so far

vars == <<stored, call, answered, faults>>

Attempts(c) ==
  IF c \in Activities THEN MaxAttempts
  ELSE IF c \in Retriers THEN MaxRetries + 1
  ELSE 1

Changes == UNION {{c} \X DOMAIN Plan[c] : c \in Callers}

\* version and log of the case.
Row == [version : Nat \ {0}, log : Seq(Changes)]

\* row: the session's row object; base: the committed row it was loaded from.
Call == [pc : {"idle", "open", "done", "failed"}, attempt : Nat, step : Nat,
         row : Row, base : Row]

NewRow == [version |-> 1, log |-> <<>>]

TypeOK ==
  /\ stored \in Row
  /\ call \in [Callers -> Call]
  /\ \A c \in Callers : /\ call[c].attempt \in 1..Attempts(c)
                        /\ call[c].step \in 1..(Len(Plan[c]) + 1)
  /\ answered \in SUBSET Callers
  /\ faults \in 0..MaxFaults

Fresh(attempt) == [pc |-> "idle", attempt |-> attempt, step |-> 1,
                   row |-> NewRow, base |-> NewRow]

Init ==
  /\ stored = NewRow
  /\ call = [c \in Callers |-> Fresh(1)]
  /\ answered = {}
  /\ faults = 0

-----------------------------------------------------------------------------
(* The case in a session *)

MadeIn(l) == {l[i] : i \in DOMAIN l}

\* The case the service holds after its change: transition counts the version
\* up, and does not happen in a state it does not leave from; reminders,
\* rounds, the award and the unlocking leave the version alone.
Changed(c, row) ==
  LET change == <<c, call[c].step>> IN
  IF ~Plan[c][call[c].step]
  THEN [row EXCEPT !.log = Append(@, change)]
  ELSE IF change \in MadeIn(row.log) THEN row
  ELSE [version |-> row.version + 1, log |-> Append(row.log, change)]

Larger(m, n) == IF m < n THEN n ELSE m

\* save: refuses a case older than the row of the session, and writes it.
MaySave(case, row) == case.version >= row.version

Saved(case, row) ==
  [version |-> Larger(case.version, row.version + 1), log |-> case.log]

\* require: the session loads the row.
Begin(c) ==
  /\ call[c].pc = "idle"
  /\ call' = [call EXCEPT ![c].pc = "open", ![c].row = stored,
                          ![c].base = stored]
  /\ UNCHANGED <<stored, answered, faults>>

\* A service loads the case from the session, changes it and saves it.  When
\* the change finds nothing to do, there is nothing to save.
Change(c) ==
  /\ call[c].pc = "open"
  /\ call[c].step <= Len(Plan[c])
  /\ LET case == Changed(c, call[c].row) IN
     /\ MaySave(case, call[c].row)
     /\ call' = [call EXCEPT ![c].step = @ + 1,
                             ![c].row = IF case = @ THEN @
                                        ELSE Saved(case, @)]
  /\ UNCHANGED <<stored, answered, faults>>

-----------------------------------------------------------------------------
(* The end of a session *)

ReadyToCommit(c) == call[c].pc = "open" /\ call[c].step > Len(Plan[c])

\* Faulty variant: nobody looks whether the row has changed.
CurrentAlways(c) == TRUE

\* The transaction has read what is still committed.
Current(c) == Serializable => stored = call[c].base

MayFault == faults < MaxFaults /\ faults' = faults + 1

\* Faulty variant: the session is not rolled back before the next attempt.
TryAgainUnrolled(c) ==
  call' = [call EXCEPT ![c] =
    IF @.attempt < Attempts(c)
    THEN [@ EXCEPT !.pc = "open", !.attempt = @ + 1, !.step = 1,
                   !.base = stored]
    ELSE [@ EXCEPT !.pc = "failed"]]

\* The exception rolls the session back: Temporal or the loop starts another
\* attempt from the committed row, a request fails.
TryAgain(c) ==
  call' = [call EXCEPT ![c] =
    IF @.attempt < Attempts(c) THEN Fresh(@.attempt + 1)
    ELSE [@ EXCEPT !.pc = "failed"]]

Commit(c) ==
  /\ ReadyToCommit(c)
  /\ Current(c)
  /\ stored' = call[c].row
  /\ call' = [call EXCEPT ![c].pc = "done"]
  /\ answered' = answered \cup {c}
  /\ UNCHANGED faults

\* The commit is made, and the connection lost before the caller hears of it:
\* statement_completion_unknown for run_in_transaction, another attempt for an
\* activity.
CommitUnheard(c) ==
  /\ ReadyToCommit(c)
  /\ Current(c)
  /\ MayFault
  /\ stored' = call[c].row
  /\ TryAgain(c)
  /\ UNCHANGED answered

\* The database aborts the transaction: it has read what is changed now.
Abort(c) ==
  /\ call[c].pc = "open"
  /\ ~Current(c)
  /\ TryAgain(c)
  /\ UNCHANGED <<stored, answered, faults>>

\* A statement fails for another reason, or the process dies.
Break(c) ==
  /\ call[c].pc = "open"
  /\ MayFault
  /\ TryAgain(c)
  /\ UNCHANGED <<stored, answered>>

-----------------------------------------------------------------------------
(* The system *)

Next ==
  \E c \in Callers :
    \/ Begin(c) \/ Change(c) \/ Commit(c) \/ CommitUnheard(c)
    \/ Abort(c) \/ Break(c)

Spec == Init /\ [][Next]_vars

-----------------------------------------------------------------------------
(* Properties *)

\* The sessions implement the promise of the repository: committed changes are
\* those of whole calls, each made on top of all before it, and nobody is told
\* that a call is done whose changes are not there.
Promise == INSTANCE AtomicCase WITH log <- stored.log

ImplementsAtomicCase == Promise!Spec

Times(change) ==
  Cardinality({i \in DOMAIN stored.log : stored.log[i] = change})

\* However often a call is attempted, a transition happens once, and any other
\* change once more for each fault at most.
ChangesAreNotRepeated ==
  \A ch \in Changes :
    Times(ch) <= IF Plan[ch[1]][ch[2]] THEN 1 ELSE 1 + faults

-----------------------------------------------------------------------------
(* What the documents and comments say and the code does not keep: each of   *)
(* these fails.                                                              *)

\* "Every contending write goes through run_in_transaction": a call fails only
\* after a fault, not because somebody else was quicker.
ContentionIsRetried ==
  faults = 0 => \A c \in Callers : call[c].pc # "failed"
=============================================================================
