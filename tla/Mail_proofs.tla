----------------------------- MODULE Mail_proofs -----------------------------
(***************************************************************************)
(* What Outbox, Inbox and DeliveryReminders guarantee for any number of    *)
(* letters, messages, reminders, sessions and attempts, however many       *)
(* faults occur.                                                           *)
(*                                                                         *)
(* Outbox.  A letter is accounted for by three facts: whether its row is   *)
(* committed as sent, whether an open transaction has handed it over, and  *)
(* how many transactions that had were rolled back.  The invariant keeps   *)
(* the copies equal to what these add up to; it needs that one attempt     *)
(* holds the key of a letter it is about to mail, and that a row somebody  *)
(* holds is not committed yet.  That attempts do not use each other up     *)
(* rests on the letters being booked together, by the commit of an attempt *)
(* that passed them all.                                                   *)
(*                                                                         *)
(* DeliveryReminders.  That a completed case left nothing due is carried   *)
(* from the empty page the workflow read, through its way to the end, to   *)
(* the closed case.  That no attempt puts back a cancelled reminder rests  *)
(* on every execution of the scheduling activity writing rows of its own.  *)
(*                                                                         *)
(* Inbox.  Alone, a session sees all that is committed: what it is yet to  *)
(* receive is unread, what it is to quote is marked and not quoted.  A     *)
(* session no other was open beside sees all that is committed whatever    *)
(* went before, so nothing it inserts is refused; whoever is refused, or   *)
(* meets another's document, was crossed.                                  *)
(***************************************************************************)
EXTENDS Outbox, Inbox, DeliveryReminders, FiniteSetTheorems, TLAPS

-----------------------------------------------------------------------------
(* Outbox: how letters leave *)

\* An attempt that is past the insert works on a letter, and one that is
\* about to mail holds the letter's key.
ClaimsAreHeld ==
  \A a \in Attempts :
    /\ attempt[a].pc \in {"insert", "claimed"} => attempt[a].at \in Letter
    /\ attempt[a].pc = "claimed" => autoSend /\ holder[attempt[a].at] = a

HeldIsUncommitted ==
  \A k \in Letter : holder[k] # Nobody => row[k] = "NONE"

\* A person works on a committed row that was held back and asked for.
ClerksReleaseHeldLetters ==
  \A c \in Clerks : clerk[c].pc # "idle" =>
    /\ ~autoSend
    /\ clerk[c].at \in released
    /\ row[clerk[c].at] # "NONE"
    /\ clerk[c].pc = "record" => copies[clerk[c].at] > 0

\* An open transaction has handed the letter over.
InTransit(k) ==
  /\ holder[k] # Nobody
  /\ attempt[holder[k]].pc = "claimed" => k # attempt[holder[k]].at

Accounted ==
  autoSend => \A k \in Letter :
    /\ row[k] # "PENDING_APPROVAL"
    /\ row[k] = "SENT" \/ InTransit(k) => copies[k] = lost[k] + 1
    /\ ~(row[k] = "SENT" \/ InTransit(k)) => copies[k] = lost[k]

\* What Temporal keeps is well typed, and only attempts it began are at work.
TemporalBooks ==
  /\ begun \in SUBSET Attempts
  /\ current \in Attempts \cup {Nobody}
  /\ spoiled \in SUBSET Attempts
  /\ outcome \in {"open", "done", "refused", "exhausted"}
  /\ faults \in 0..MaxFaults
  /\ \A a \in Attempts : attempt[a].pc # "idle" => a \in begun

IInv ==
  /\ TypeOK
  /\ TemporalBooks
  /\ ClaimsAreHeld
  /\ HeldIsUncommitted
  /\ ClerksReleaseHeldLetters
  /\ Accounted
  /\ NothingSentByAccident

-----------------------------------------------------------------------------
LEMMA InitIInv == Init => IInv
<1> SUFFICES ASSUME Init PROVE IInv
  OBVIOUS
<1> USE OutboxAssumption DEF Init, Letter
<1>1. TypeOK /\ TemporalBooks
  <2>1. 1 \in 1..(LetterCount + 1)
    OBVIOUS
  <2>2. /\ attempt \in [Attempts ->
                        [pc : {"idle", "lookup", "insert", "claimed"},
                         at : 1..(LetterCount + 1)]]
        /\ clerk \in [Clerks -> [pc : {"idle", "deliver", "record"},
                                 at : 1..(LetterCount + 1)]]
    BY <2>1 DEF Idle
  <2>3. /\ row \in [Letter -> RowStatus]
        /\ holder \in [Letter -> Attempts \cup {Nobody}]
        /\ copies \in [Letter -> Nat]
        /\ lost \in [Letter -> Nat]
    BY DEF RowStatus
  <2>4. autoSend \in BOOLEAN /\ released \in SUBSET Letter
    OBVIOUS
  <2>5. TemporalBooks
    BY DEF TemporalBooks, Idle
  <2> QED
    BY <2>2, <2>3, <2>4, <2>5, Zenon DEF TypeOK, TemporalBooks
<1>2. ClaimsAreHeld /\ HeldIsUncommitted /\ ClerksReleaseHeldLetters
  BY DEF ClaimsAreHeld, HeldIsUncommitted, ClerksReleaseHeldLetters, Idle
<1>3. Accounted /\ NothingSentByAccident
  BY DEF Accounted, InTransit, NothingSentByAccident
<1> QED
  BY <1>1, <1>2, <1>3 DEF IInv

\* A step of an attempt that only moves it on, without holding, mailing or
\* claiming anything.
LEMMA MovedOn ==
  ASSUME IInv, NEW a \in Attempts,
         NEW pc \in {"lookup", "insert"}, NEW k \in 1..(LetterCount + 1),
         GoTo(a, pc, k), pc = "insert" => k \in Letter,
         attempt[a].pc # "claimed",
         UNCHANGED <<autoSend, mail, clerk>>, TemporalBooks'
  PROVE  IInv'
<1> USE DEF mail
<1>1. TypeOK'
  BY DEF IInv, TypeOK, TemporalBooks, GoTo
<1>2. ClaimsAreHeld'
  BY DEF IInv, TypeOK, GoTo, ClaimsAreHeld
<1>3. HeldIsUncommitted' /\ ClerksReleaseHeldLetters' /\ NothingSentByAccident'
  BY DEF IInv, HeldIsUncommitted, ClerksReleaseHeldLetters,
         NothingSentByAccident
<1>4. \A j \in Letter : InTransit(j)' <=> InTransit(j)
  BY DEF IInv, TypeOK, GoTo, InTransit
<1>5. Accounted'
  BY <1>4 DEF IInv, Accounted
<1> QED
  BY <1>1, <1>2, <1>3, <1>5 DEF IInv

\* Whatever rolls an attempt back, the copies it mailed turn from copies in
\* transit into lost ones.
LEMMA RolledBack ==
  ASSUME IInv, NEW a \in Attempts, RollBack(a), TemporalBooks'
  PROVE  IInv'
<1> USE OutboxAssumption DEF RollBack
<1>1. TypeOK'
  BY DEF IInv, TypeOK, TemporalBooks, Idle
<1>2. ClaimsAreHeld'
  BY DEF IInv, TypeOK, ClaimsAreHeld, Idle
<1>3. HeldIsUncommitted'
  BY DEF IInv, HeldIsUncommitted, TypeOK
<1>4. ClerksReleaseHeldLetters' /\ NothingSentByAccident'
  BY DEF IInv, ClerksReleaseHeldLetters, NothingSentByAccident
<1>5. ASSUME autoSend, NEW k \in Letter
      PROVE  /\ row'[k] # "PENDING_APPROVAL"
             /\ row'[k] = "SENT" \/ InTransit(k)' => copies'[k] = lost'[k] + 1
             /\ ~(row'[k] = "SENT" \/ InTransit(k)') => copies'[k] = lost'[k]
  <2>1. CASE holder[k] = a
    <3>1. k \in Transmitted(a) <=> InTransit(k)
      BY <1>5, <2>1 DEF Transmitted, Held, At, Current, InTransit
    <3>2. ~InTransit(k)' /\ row'[k] = "NONE"
      BY <2>1 DEF InTransit, IInv, HeldIsUncommitted
    <3>3. lost'[k] = IF InTransit(k) THEN lost[k] + 1 ELSE lost[k]
      BY <3>1 DEF IInv, TypeOK
    <3> QED
      BY <1>5, <3>2, <3>3, <2>1 DEF IInv, Accounted
  <2>2. CASE holder[k] # a
    <3>1. lost'[k] = lost[k]
      BY <2>2 DEF Transmitted, Held
    <3>2. InTransit(k)' <=> InTransit(k)
      BY <2>2 DEF InTransit, IInv, TypeOK
    <3> QED
      BY <1>5, <3>1, <3>2 DEF IInv, Accounted
  <2> QED
    BY <2>1, <2>2
<1>6. Accounted'
  BY <1>5 DEF Accounted
<1> QED
  BY <1>1, <1>2, <1>3, <1>4, <1>6 DEF IInv

\* Moving an attempt on keeps its place well typed.
LEMMA PlaceOfAttempt ==
  ASSUME TypeOK, NEW a \in Attempts,
         NEW pc \in {"idle", "lookup", "insert", "claimed"},
         NEW k \in 1..(LetterCount + 1), GoTo(a, pc, k)
  PROVE  attempt' \in [Attempts ->
                         [pc : {"idle", "lookup", "insert", "claimed"},
                          at : 1..(LetterCount + 1)]]
BY DEF GoTo, TypeOK

\* A letter that is inserted has left nobody's hands yet: the copies of it are
\* all lost ones, and stay so until it is mailed.
LEMMA InsertKeeps ==
  ASSUME IInv, NEW a \in Attempts, Insert(a), TemporalBooks'
  PROVE  IInv'
<1> DEFINE k == attempt[a].at
<1> USE OutboxAssumption DEF Insert, GoTo, At, Current
<1>1. k \in Letter /\ row[k] = "NONE" /\ holder[k] = Nobody
  BY DEF IInv, ClaimsAreHeld
<1>2. TypeOK'
  <2>1. /\ k \in 1..(LetterCount + 1) /\ k + 1 \in 1..(LetterCount + 1)
        /\ TypeOK
    BY <1>1 DEF IInv, Letter
  <2>2. attempt' \in [Attempts ->
                        [pc : {"idle", "lookup", "insert", "claimed"},
                         at : 1..(LetterCount + 1)]]
    BY <2>1, PlaceOfAttempt
  <2> QED
    BY <2>1, <2>2 DEF TypeOK, TemporalBooks
<1>3. ClaimsAreHeld'
  BY <1>1 DEF IInv, TypeOK, ClaimsAreHeld
<1>4. HeldIsUncommitted'
  BY <1>1 DEF IInv, TypeOK, HeldIsUncommitted
<1>5. ClerksReleaseHeldLetters' /\ NothingSentByAccident'
  BY DEF IInv, ClerksReleaseHeldLetters, NothingSentByAccident
<1>6. ASSUME autoSend, NEW j \in Letter
      PROVE  InTransit(j)' <=> InTransit(j)
  <2>1. CASE j = k
    BY <2>1, <1>1, <1>6 DEF InTransit, IInv, TypeOK
  <2>2. CASE j # k /\ holder[j] = a
    BY <2>2, <1>1, <1>6 DEF InTransit, IInv, TypeOK
  <2>3. CASE j # k /\ holder[j] # a
    BY <2>3, <1>1 DEF InTransit, IInv, TypeOK
  <2> QED
    BY <2>1, <2>2, <2>3
<1>7. Accounted'
  BY <1>6 DEF IInv, Accounted
<1> QED
  BY <1>2, <1>3, <1>4, <1>5, <1>7 DEF IInv

\* Mailing adds one copy to a letter only its holder can mail.
LEMMA TransmitKeeps ==
  ASSUME IInv, NEW a \in Attempts, Transmit(a), TemporalBooks'
  PROVE  IInv'
<1> USE OutboxAssumption DEF Transmit, GoTo, At, Current
<1>1. PICK k \in Letter : k = attempt[a].at
  BY DEF IInv, ClaimsAreHeld
<1>2. autoSend /\ holder[k] = a /\ a # Nobody /\ row[k] = "NONE"
  BY <1>1 DEF IInv, ClaimsAreHeld, HeldIsUncommitted
<1>3. TypeOK'
  <2>1. k + 1 \in 1..(LetterCount + 1) /\ TypeOK
    BY <1>1, <1>2 DEF IInv, Letter
  <2>2. attempt' \in [Attempts ->
                        [pc : {"idle", "lookup", "insert", "claimed"},
                         at : 1..(LetterCount + 1)]]
    BY <2>1, <1>1, PlaceOfAttempt
  <2>3. copies' \in [Letter -> Nat]
    BY <2>1, <1>1 DEF TypeOK
  <2> QED
    BY <2>1, <2>2, <2>3 DEF TypeOK, TemporalBooks
<1>4. ClaimsAreHeld' /\ HeldIsUncommitted'
  BY <1>1, <1>2 DEF IInv, TypeOK, ClaimsAreHeld, HeldIsUncommitted
<1>5. ClerksReleaseHeldLetters' /\ NothingSentByAccident'
  BY <1>1, <1>2 DEF IInv, TypeOK, ClerksReleaseHeldLetters,
                     NothingSentByAccident
<1>6. ~InTransit(k) /\ InTransit(k)'
  <2>1. ~InTransit(k)
    BY <1>1, <1>2 DEF InTransit
  <2>2. attempt'[a].pc = "lookup" /\ holder'[k] = a
    BY <1>1, <1>2 DEF IInv, TypeOK
  <2> QED
    BY <1>2, <2>1, <2>2 DEF InTransit
<1>7. \A j \in Letter \ {k} : InTransit(j)' <=> InTransit(j)
  BY <1>1, <1>2 DEF InTransit, IInv, TypeOK
<1>8. /\ copies'[k] = copies[k] + 1
      /\ \A j \in Letter \ {k} : copies'[j] = copies[j]
  BY <1>1, <1>2 DEF IInv, TypeOK
<1>9. ASSUME NEW j \in Letter
      PROVE  /\ row'[j] # "PENDING_APPROVAL"
             /\ row'[j] = "SENT" \/ InTransit(j)' => copies'[j] = lost'[j] + 1
             /\ ~(row'[j] = "SENT" \/ InTransit(j)') => copies'[j] = lost'[j]
  <2>1. CASE j = k
    BY <2>1, <1>2, <1>6, <1>8 DEF IInv, Accounted
  <2>2. CASE j # k
    BY <2>2, <1>2, <1>7, <1>8 DEF IInv, Accounted
  <2> QED
    BY <2>1, <2>2
<1>10. Accounted'
  BY <1>9 DEF Accounted
<1> QED
  BY <1>3, <1>4, <1>5, <1>10 DEF IInv

\* A commit turns what was in transit into what is on the books.
LEMMA CommitKeeps ==
  ASSUME IInv, NEW a \in Attempts, Commit(a), TemporalBooks'
  PROVE  IInv'
<1> USE OutboxAssumption DEF Commit, Booked, At, Current, Idle
<1>1. TypeOK'
  <2>2. attempt' \in [Attempts ->
                        [pc : {"idle", "lookup", "insert", "claimed"},
                         at : 1..(LetterCount + 1)]]
    BY DEF IInv, TypeOK
  <2>3. row' \in [Letter -> RowStatus]
    BY DEF IInv, TypeOK, RowStatus
  <2>4. holder' \in [Letter -> Attempts \cup {Nobody}]
    BY DEF IInv, TypeOK
  <2> QED
    BY <2>2, <2>3, <2>4 DEF IInv, TypeOK, TemporalBooks
<1>2. ClaimsAreHeld' /\ HeldIsUncommitted'
  BY DEF IInv, TypeOK, ClaimsAreHeld, HeldIsUncommitted
<1>3. ASSUME NEW k \in Letter
      PROVE  /\ holder[k] = a => row'[k] = IF autoSend THEN "SENT"
                                                      ELSE "PENDING_APPROVAL"
             /\ holder[k] # a => row'[k] = row[k]
             /\ holder[k] = a => InTransit(k) /\ row[k] = "NONE"
             /\ InTransit(k)' <=> InTransit(k) /\ holder[k] # a
  BY DEF IInv, TypeOK, InTransit, HeldIsUncommitted
<1>4. Accounted'
  BY <1>3 DEF IInv, Accounted
<1>5. ClerksReleaseHeldLetters'
  BY DEF IInv, TypeOK, ClerksReleaseHeldLetters
<1>6. NothingSentByAccident'
  BY <1>3 DEF IInv, TypeOK, NothingSentByAccident, Accounted
<1> QED
  BY <1>1, <1>2, <1>4, <1>5, <1>6 DEF IInv

\* People only come in where letters are held back, and those are accounted
\* for by their release.
LEMMA ClerkKeeps ==
  ASSUME IInv, NEW c \in Clerks,
         \/ \E k \in Letter : Review(c, k)
         \/ Deliver(c) \/ Record(c) \/ ClerkFails(c),
         TemporalBooks'
  PROVE  IInv'
<1> USE OutboxAssumption DEF TemporalBooks
<1>1. ASSUME NEW k \in Letter, Review(c, k) PROVE IInv'
  <2>1. ~autoSend
    BY <1>1 DEF Review, IInv, Accounted
  <2>2. TypeOK'
    BY <1>1 DEF Review, IInv, TypeOK, Letter
  <2> QED
    BY <1>1, <2>1, <2>2
       DEF Review, IInv, TypeOK, ClaimsAreHeld, HeldIsUncommitted,
           ClerksReleaseHeldLetters, Accounted, NothingSentByAccident
<1>2. ASSUME clerk[c].pc # "idle"
      PROVE  ~autoSend /\ clerk[c].at \in released /\ clerk[c].at \in Letter
  BY <1>2 DEF IInv, TypeOK, ClerksReleaseHeldLetters
<1>3. CASE Deliver(c)
  <2>1. TypeOK'
    BY <1>2, <1>3 DEF Deliver, IInv, TypeOK
  <2>2. ClerksReleaseHeldLetters' /\ NothingSentByAccident'
    BY <1>2, <1>3 DEF Deliver, IInv, TypeOK, ClerksReleaseHeldLetters,
                      NothingSentByAccident
  <2> QED
    BY <1>2, <1>3, <2>1, <2>2
       DEF Deliver, IInv, ClaimsAreHeld, HeldIsUncommitted, Accounted
<1>4. CASE Record(c)
  <2>1. TypeOK'
    <3>1. clerk' \in [Clerks -> [pc : {"idle", "deliver", "record"},
                                at : 1..(LetterCount + 1)]]
      BY <1>2, <1>4 DEF Record, IInv, TypeOK, Idle, Letter
    <3>2. row' \in [Letter -> RowStatus]
      BY <1>2, <1>4 DEF Record, IInv, TypeOK, RowStatus
    <3>3. lost' \in [Letter -> Nat]
      BY <1>2, <1>4 DEF Record, IInv, TypeOK
    <3> QED
      BY <1>4, <3>1, <3>2, <3>3 DEF Record, IInv, TypeOK
  <2>2. ClerksReleaseHeldLetters' /\ NothingSentByAccident'
    BY <1>2, <1>4 DEF Record, IInv, TypeOK, ClerksReleaseHeldLetters,
                      NothingSentByAccident, Idle
  <2>3. HeldIsUncommitted'
    BY <1>2, <1>4 DEF Record, IInv, TypeOK, HeldIsUncommitted,
                      ClerksReleaseHeldLetters
  <2> QED
    BY <1>2, <1>4, <2>1, <2>2, <2>3
       DEF Record, IInv, ClaimsAreHeld, Accounted
<1>5. CASE ClerkFails(c)
  <2>1. TypeOK'
    <3>1. clerk' \in [Clerks -> [pc : {"idle", "deliver", "record"},
                                at : 1..(LetterCount + 1)]]
      BY <1>2, <1>5 DEF ClerkFails, IInv, TypeOK, Idle, Letter
    <3>2. lost' \in [Letter -> Nat]
      BY <1>2, <1>5 DEF ClerkFails, IInv, TypeOK
    <3> QED
      BY <1>5, <3>1, <3>2 DEF ClerkFails, IInv, TypeOK
  <2>2. ClerksReleaseHeldLetters' /\ NothingSentByAccident'
    BY <1>2, <1>5 DEF ClerkFails, IInv, TypeOK, ClerksReleaseHeldLetters,
                      NothingSentByAccident, Idle
  <2> QED
    BY <1>2, <1>5, <2>1, <2>2
       DEF ClerkFails, IInv, ClaimsAreHeld, HeldIsUncommitted, Accounted
<1> QED
  BY <1>1, <1>3, <1>4, <1>5

LEMMA TemporalStep ==
  ASSUME TypeOK, TemporalBooks, [Next]_vars
  PROVE  TemporalBooks'
<1> USE OutboxAssumption DEF TemporalBooks, temporal
<1>1. /\ TemporalBooks
      /\ attempt \in [Attempts ->
                        [pc : {"idle", "lookup", "insert", "claimed"},
                         at : 1..(LetterCount + 1)]]
  BY DEF TypeOK
<1>2. ASSUME NEW a \in Attempts, Begin(a) PROVE TemporalBooks'
  BY <1>1, <1>2 DEF Begin, GoTo
<1>3. ASSUME NEW a \in Attempts, Lookup(a) \/ Insert(a) \/ Transmit(a)
      PROVE  TemporalBooks'
  BY <1>1, <1>3 DEF Lookup, Insert, Transmit, GoTo, At
<1>4. ASSUME NEW a \in Attempts, Collide(a) \/ Fail(a) PROVE TemporalBooks'
  BY <1>1, <1>4 DEF Collide, Fail, RollBack, Ends, Idle
<1>5. ASSUME NEW a \in Attempts, Commit(a) PROVE TemporalBooks'
  BY <1>1, <1>5 DEF Commit, Idle
<1>6. ASSUME TimeOut \/ GiveUp PROVE TemporalBooks'
  BY <1>1, <1>6 DEF TimeOut, GiveUp
<1>7. ASSUME NEW c \in Clerks,
             \/ \E k \in Letter : Review(c, k)
             \/ Deliver(c) \/ Record(c) \/ ClerkFails(c)
      PROVE  TemporalBooks'
  BY <1>1, <1>7 DEF Review, Deliver, Record, ClerkFails
<1>8. CASE UNCHANGED vars
  BY <1>1, <1>8 DEF vars
<1> QED
  BY <1>2, <1>3, <1>4, <1>5, <1>6, <1>7, <1>8 DEF Next, AttemptStep

LEMMA StepKeepsIInv == IInv /\ [Next]_vars => IInv'
<1> SUFFICES ASSUME IInv, [Next]_vars PROVE IInv'
  OBVIOUS
<1> USE OutboxAssumption
<1>0. TemporalBooks'
  BY TemporalStep DEF IInv
<1>1. ASSUME NEW a \in Attempts, Begin(a) PROVE IInv'
  <2>1. 1 \in 1..(LetterCount + 1)
    OBVIOUS
  <2>2. attempt[a].pc # "claimed"
    BY <1>1 DEF Begin, IInv, TemporalBooks
  <2> QED
    BY <1>0, <1>1, <2>1, <2>2, MovedOn DEF Begin
<1>2. ASSUME NEW a \in Attempts, Lookup(a) PROVE IInv'
  <2>1. /\ Current(a) \in 1..(LetterCount + 1)
        /\ Current(a) + 1 \in 1..(LetterCount + 1)
    BY <1>2 DEF Lookup, Letter
  <2> QED
    BY <1>0, <1>2, <2>1, MovedOn DEF Lookup, At, Current
<1>3. ASSUME NEW a \in Attempts, Collide(a) \/ Fail(a) PROVE IInv'
  BY <1>0, <1>3, RolledBack DEF Collide, Fail
<1>4. CASE TimeOut \/ GiveUp
  BY <1>0, <1>4 DEF TimeOut, GiveUp, mail, TemporalBooks, IInv, TypeOK,
                    ClaimsAreHeld, HeldIsUncommitted, InTransit, Accounted,
                    ClerksReleaseHeldLetters, NothingSentByAccident
<1>5. CASE UNCHANGED vars
  BY <1>5 DEF vars, mail, temporal, IInv, TypeOK, TemporalBooks,
              ClaimsAreHeld, HeldIsUncommitted, InTransit,
              ClerksReleaseHeldLetters,
              Accounted, NothingSentByAccident
<1> QED
  BY <1>0, <1>1, <1>2, <1>3, <1>4, <1>5, InsertKeeps, TransmitKeeps,
     CommitKeeps, ClerkKeeps DEF Next, AttemptStep

\* What an attempt has passed is on the books or in its own transaction.
PassedIsBooked ==
  \A a \in Attempts, k \in Letter :
    attempt[a].pc # "idle" /\ k < attempt[a].at
      => row[k] # "NONE" \/ holder[k] = a

\* No step takes a row off the books or a key from who holds it, except the
\* end of the holder's own attempt; the last letter is passed before a commit.
LEMMA BookedStep ==
  ASSUME IInv, PassedIsBooked, AcknowledgedIsRecorded, [Next]_vars
  PROVE  PassedIsBooked' /\ AcknowledgedIsRecorded'
<1> USE OutboxAssumption DEF mail, temporal
<1> DEFINE Kept == PassedIsBooked' /\ AcknowledgedIsRecorded'
<1>1. /\ attempt \in [Attempts ->
                      [pc : {"idle", "lookup", "insert", "claimed"},
                       at : 1..(LetterCount + 1)]]
      /\ row \in [Letter -> RowStatus]
      /\ holder \in [Letter -> Attempts \cup {Nobody}]
      /\ \A a \in Attempts : attempt[a].at \in Nat
  BY DEF IInv, TypeOK
<1>2. ASSUME NEW a \in Attempts, NEW pc, NEW n \in Nat, GoTo(a, pc, n),
             \A k \in Letter : k < n => row[k] # "NONE" \/ holder'[k] = a,
             \A k \in Letter : holder'[k] = holder[k] \/ holder[k] = Nobody,
             UNCHANGED <<row, outcome>>
      PROVE  Kept
  <2>1. ASSUME NEW b \in Attempts, NEW k \in Letter,
               attempt'[b].pc # "idle", k < attempt'[b].at
        PROVE  row'[k] # "NONE" \/ holder'[k] = b
    <3>1. CASE b = a
      BY <1>1, <1>2, <2>1, <3>1 DEF GoTo
    <3>2. CASE b # a
      <4>1. row[k] # "NONE" \/ holder[k] = b
        BY <1>1, <1>2, <2>1, <3>2 DEF GoTo, PassedIsBooked
      <4> QED
        BY <1>2, <4>1
    <3> QED
      BY <3>1, <3>2
  <2> QED
    BY <1>2, <2>1, Zenon DEF PassedIsBooked, AcknowledgedIsRecorded, AllBooked
<1>3. ASSUME NEW a \in Attempts, attempt[a].pc # "idle",
             NEW k \in Letter, k < attempt[a].at
      PROVE  row[k] # "NONE" \/ holder[k] = a
  BY <1>3 DEF PassedIsBooked
<1>4. ASSUME NEW a \in Attempts, Begin(a) PROVE Kept
  <2>1. \A k \in Letter : ~(k < 1)
    BY DEF Letter
  <2> QED
    BY <1>2, <1>4, <2>1 DEF Begin
<1>5. ASSUME NEW a \in Attempts, Lookup(a) PROVE Kept
  <2>1. \A k \in Letter : k < attempt[a].at => row[k] # "NONE" \/ holder[k] = a
    BY <1>3, <1>5 DEF Lookup, At
  <2>2. CASE row[attempt[a].at] = "NONE"
    BY <1>1, <1>2, <1>5, <2>1, <2>2 DEF Lookup, Current
  <2>3. CASE row[attempt[a].at] # "NONE"
    <3>1. \A k \in Letter :
            k < attempt[a].at + 1 => k < attempt[a].at \/ k = attempt[a].at
      BY <1>1 DEF Letter
    <3> QED
      BY <1>1, <1>2, <1>5, <2>1, <2>3, <3>1 DEF Lookup, Current
  <2> QED
    BY <2>2, <2>3
<1>6. ASSUME NEW a \in Attempts, Insert(a) \/ Transmit(a) PROVE Kept
  <2>1. /\ attempt[a].at \in Letter
        /\ holder'[attempt[a].at] = a
        /\ \A k \in Letter \ {attempt[a].at} : holder'[k] = holder[k]
        /\ holder[attempt[a].at] \in {a, Nobody}
    BY <1>1, <1>6 DEF Insert, Transmit, At, Current, IInv, ClaimsAreHeld
  <2>2. \A k \in Letter : k < attempt[a].at => row[k] # "NONE" \/ holder[k] = a
    BY <1>3, <1>6 DEF Insert, Transmit, At
  <2>3. \A k \in Letter :
          k < attempt[a].at + 1 => k < attempt[a].at \/ k = attempt[a].at
    BY <1>1 DEF Letter
  <2>4. /\ \A k \in Letter :
             k < attempt[a].at + 1 => row[k] # "NONE" \/ holder'[k] = a
        /\ \A k \in Letter : holder'[k] = holder[k] \/ holder[k] = Nobody
    BY <2>1, <2>2, <2>3
  <2>5. \A k \in Letter :
          k < attempt[a].at => row[k] # "NONE" \/ holder'[k] = a
    BY <2>1, <2>2
  <2>6. UNCHANGED <<row, outcome>> /\ attempt[a].at + 1 \in Nat
    BY <1>1, <1>6 DEF Insert, Transmit
  <2>7. \/ GoTo(a, "claimed", attempt[a].at)
        \/ \E pc \in {"lookup"} : GoTo(a, pc, attempt[a].at + 1)
    BY <1>6 DEF Insert, Transmit, Current
  <2> QED
    BY <1>1, <1>2, <2>4, <2>5, <2>6, <2>7
<1>7. ASSUME NEW a \in Attempts, Collide(a) \/ Fail(a) PROVE Kept
  <2>1. RollBack(a) /\ (outcome' = "done" => outcome = "done")
    BY <1>7 DEF Collide, Fail
  <2>2. ASSUME NEW b \in Attempts, NEW k \in Letter,
               attempt'[b].pc # "idle", k < attempt'[b].at
        PROVE  row'[k] # "NONE" \/ holder'[k] = b
    <3>1. b # a /\ attempt'[b] = attempt[b]
      BY <1>1, <2>1, <2>2 DEF RollBack, Idle
    <3> QED
      BY <1>3, <2>1, <2>2, <3>1 DEF RollBack
  <2>3. PassedIsBooked'
    BY <2>2, Zenon DEF PassedIsBooked
  <2> QED
    BY <2>1, <2>3 DEF RollBack, AcknowledgedIsRecorded, AllBooked
<1>8. ASSUME NEW a \in Attempts, Commit(a) PROVE Kept
  <2>1. \A k \in Letter : k < attempt[a].at
    BY <1>8 DEF Commit, Current, Letter
  <2>2. \A k \in Letter : row[k] # "NONE" \/ holder[k] = a
    BY <1>3, <1>8, <2>1 DEF Commit, At
  <2>3. \A k \in Letter : row'[k] # "NONE"
    BY <1>8, <2>2 DEF Commit, Booked
  <2> QED
    BY <2>3 DEF PassedIsBooked, AcknowledgedIsRecorded, AllBooked
<1>9. ASSUME NEW c \in Clerks,
             \/ \E k \in Letter : Review(c, k)
             \/ Deliver(c) \/ Record(c) \/ ClerkFails(c)
      PROVE  Kept
  <2>1. /\ UNCHANGED <<attempt, holder, outcome>>
        /\ \A k \in Letter : row[k] # "NONE" => row'[k] # "NONE"
    BY <1>1, <1>9 DEF Review, Deliver, Record, ClerkFails
  <2> QED
    BY <2>1 DEF PassedIsBooked, AcknowledgedIsRecorded, AllBooked
<1>10. CASE TimeOut \/ GiveUp
  BY <1>10 DEF TimeOut, GiveUp, mail, PassedIsBooked, AcknowledgedIsRecorded,
               AllBooked
<1>11. CASE UNCHANGED vars
  BY <1>11 DEF vars, mail, temporal, PassedIsBooked, AcknowledgedIsRecorded,
               AllBooked
<1> QED
  BY <1>4, <1>5, <1>6, <1>7, <1>8, <1>9, <1>10, <1>11 DEF Next, AttemptStep

\* The letters of an activity come onto the books together.
BookedTogether == \A k \in Letter : row[k] # "NONE" => AllBooked

\* An attempt that was begun is listened to or was spoiled, until the work is
\* done.
UsedUp == begun \subseteq spoiled \cup {current} \/ AllBooked

\* What is booked stays booked, and a step that books a letter is a commit,
\* which books them all.
LEMMA BookedStays ==
  ASSUME IInv, PassedIsBooked, BookedTogether, [Next]_vars
  PROVE  BookedTogether' /\ (AllBooked => AllBooked')
<1> USE OutboxAssumption DEF BookedTogether, AllBooked
<1>1. row \in [Letter -> RowStatus]
  BY DEF IInv, TypeOK
<1>2. ASSUME NEW a \in Attempts, Commit(a) PROVE AllBooked'
  <2>1. \A k \in Letter : k < attempt[a].at
    BY <1>2 DEF Commit, Current, Letter
  <2>2. \A k \in Letter : row[k] # "NONE" \/ holder[k] = a
    BY <1>2, <2>1 DEF Commit, At, PassedIsBooked
  <2> QED
    BY <1>2, <2>2 DEF Commit, Booked
<1>3. ASSUME NEW c \in Clerks, Record(c)
      PROVE  BookedTogether' /\ (AllBooked => AllBooked')
  <2>1. clerk[c].at \in Letter => row[clerk[c].at] # "NONE"
    BY <1>3 DEF Record, IInv, ClerksReleaseHeldLetters
  <2> QED
    BY <1>1, <1>3, <2>1 DEF Record
<1>4. CASE UNCHANGED row
  BY <1>4
<1>5. CASE UNCHANGED vars
  BY <1>4, <1>5 DEF vars, mail
<1>6. ASSUME NEW a \in Attempts,
             \/ Begin(a) \/ Lookup(a) \/ Insert(a) \/ Transmit(a)
             \/ Collide(a) \/ Fail(a)
      PROVE  UNCHANGED row
  BY <1>6 DEF Begin, Lookup, Insert, Transmit, Collide, Fail, RollBack, mail
<1>7. ASSUME NEW c \in Clerks,
             (\E k \in Letter : Review(c, k)) \/ Deliver(c) \/ ClerkFails(c)
      PROVE  UNCHANGED row
  BY <1>7 DEF Review, Deliver, ClerkFails
<1>8. ASSUME TimeOut \/ GiveUp PROVE UNCHANGED row
  BY <1>8 DEF TimeOut, GiveUp, mail
<1> QED
  BY <1>2, <1>3, <1>4, <1>5, <1>6, <1>7, <1>8 DEF Next, AttemptStep

\* Only a failure, a timeout or finished work takes an attempt from the one
\* that is listened to.
LEMMA UsedUpStep ==
  ASSUME IInv, PassedIsBooked, BookedTogether, UsedUp, ExhaustedForAReason,
         [Next]_vars
  PROVE  UsedUp' /\ ExhaustedForAReason'
<1> USE OutboxAssumption DEF UsedUp, ExhaustedForAReason
<1>1. AllBooked => AllBooked'
  BY BookedStays
<1>2. SUFFICES ASSUME ~AllBooked', ~AllBooked
               PROVE  UsedUp' /\ ExhaustedForAReason'
  BY <1>1, <1>2
<1>3. /\ begun \subseteq spoiled \cup {current}
      /\ outcome = "exhausted" => spoiled = Attempts
      /\ begun \in SUBSET Attempts /\ spoiled \in SUBSET Attempts
      /\ current \in Attempts \cup {Nobody}
  BY <1>2 DEF IInv, TypeOK
<1>4. ASSUME NEW a \in Attempts, Begin(a) PROVE UsedUp' /\ ExhaustedForAReason'
  BY <1>3, <1>4 DEF Begin
<1>5. ASSUME NEW a \in Attempts, Lookup(a) \/ Insert(a) \/ Transmit(a)
      PROVE  UsedUp' /\ ExhaustedForAReason'
  BY <1>3, <1>5 DEF Lookup, Insert, Transmit, temporal
<1>6. ASSUME NEW a \in Attempts PROVE ~Collide(a)
  <2>1. Collide(a) => Current(a) \in Letter
    BY DEF Collide, At, Current, IInv, ClaimsAreHeld
  <2> QED
    BY <1>2, <2>1 DEF Collide, BookedTogether
<1>7. ASSUME NEW a \in Attempts, Fail(a) PROVE UsedUp' /\ ExhaustedForAReason'
  <2>1. /\ begun' = begun
        /\ current' = IF current = a THEN Nobody ELSE current
    BY <1>7 DEF Fail, RollBack, Ends
  <2>2. IF current = a
        THEN spoiled' = spoiled \cup {a} /\ outcome' # "exhausted"
        ELSE spoiled' = spoiled /\ outcome' = outcome
    BY <1>7 DEF Fail
  <2> QED
    BY <1>3, <2>1, <2>2
<1>8. ASSUME NEW a \in Attempts PROVE ~Commit(a)
  <2>1. Commit(a) => \A k \in Letter : k < attempt[a].at
    BY DEF Commit, Current, Letter
  <2>2. Commit(a) => \A k \in Letter : row[k] # "NONE" \/ holder[k] = a
    BY <2>1 DEF Commit, At, PassedIsBooked
  <2>3. Commit(a) => AllBooked'
    BY <2>2 DEF Commit, Booked, AllBooked
  <2> QED
    BY <1>2, <2>3
<1>9. CASE TimeOut
  BY <1>3, <1>9 DEF TimeOut
<1>10. CASE GiveUp
  BY <1>3, <1>10 DEF GiveUp
<1>11. ASSUME NEW c \in Clerks,
              \/ \E k \in Letter : Review(c, k)
              \/ Deliver(c) \/ Record(c) \/ ClerkFails(c)
       PROVE  UsedUp' /\ ExhaustedForAReason'
  BY <1>3, <1>11 DEF Review, Deliver, Record, ClerkFails, temporal
<1>12. CASE UNCHANGED vars
  BY <1>3, <1>12 DEF vars, temporal
<1> QED
  BY <1>4, <1>5, <1>6, <1>7, <1>8, <1>9, <1>10, <1>11, <1>12
     DEF Next, AttemptStep

-----------------------------------------------------------------------------
(* Theorems *)

LEMMA Invariance == Spec => []IInv
BY InitIInv, StepKeepsIInv, PTL DEF Spec

\* Outbox is well typed whatever the number of letters and attempts.
THEOREM TypeCorrect == Spec => []TypeOK
<1>1. IInv => TypeOK
  BY DEF IInv
<1> QED
  BY <1>1, Invariance, PTL

\* Every further copy of a letter goes back to a transaction that was rolled
\* back, for any number of overlapping attempts.
THEOREM Accounting == Spec => []CopiesAreAccounted
<1>1. IInv => CopiesAreAccounted
  BY DEF IInv, TypeOK, Accounted, CopiesAreAccounted
<1> QED
  BY <1>1, Invariance, PTL

\* Nothing is called sent that has not left, and nothing held back leaves
\* unless a person released it.
THEOREM NoAccident == Spec => []NothingSentByAccident
<1>1. IInv => NothingSentByAccident
  BY DEF IInv
<1> QED
  BY <1>1, Invariance, PTL

LEMMA Booking == Spec => [](PassedIsBooked /\ AcknowledgedIsRecorded)
<1>1. Init => PassedIsBooked /\ AcknowledgedIsRecorded
  BY DEF Init, Idle, PassedIsBooked, AcknowledgedIsRecorded
<1>2. /\ IInv /\ PassedIsBooked /\ AcknowledgedIsRecorded
      /\ [Next]_vars
      => (PassedIsBooked /\ AcknowledgedIsRecorded)'
  BY BookedStep
<1> QED
  BY <1>1, <1>2, Invariance, PTL DEF Spec

\* An activity that was reported complete has left every letter on the books,
\* whatever its attempts failed at and however they overlapped.
THEOREM Reported == Spec => []AcknowledgedIsRecorded
BY Booking, PTL

\* An activity that ran out of attempts was hit by a fault in every one of
\* them, or has left every letter on the books, whatever their number: a key
\* that is taken costs an attempt only when the work is done.
THEOREM Exhaustion == Spec => []ExhaustedForAReason
<1> DEFINE J == BookedTogether /\ UsedUp /\ ExhaustedForAReason
<1>1. Init => J
  BY DEF Init, BookedTogether, UsedUp, ExhaustedForAReason
<1>2. IInv /\ PassedIsBooked /\ J /\ [Next]_vars => J'
  BY BookedStays, UsedUpStep
<1>3. J => ExhaustedForAReason
  OBVIOUS
<1> QED
  BY <1>1, <1>2, <1>3, Invariance, Booking, PTL DEF Spec

-----------------------------------------------------------------------------
(* DeliveryReminders: the chase after an order *)

\* An attempt reads the table while its workflow is sending.
ReadsWhileSending == \A c \in Cases : reading[c].open => FlowAt(c, "send")

\* What this execution of the scheduling activity, and any later one, writes
\* is not there yet.
NotWrittenYet ==
  \A r \in Reminders :
    FlowAt(CaseOf(r), "schedule") /\ flow[CaseOf(r)].try <= r[3]
      => status[r] = "none"

CompletedHasEnded ==
  \A c \in Cases : case[c] = "COMPLETED" => FlowAt(c, "ended")

\* The workflow found nothing due, and is on its way to closing its case for
\* that reason or has closed it.
FoundNothing(c) ==
  \/ FlowAt(c, "send") /\ reading[c].open /\ reading[c].rows = {}
  \/ FlowAt(c, "finish") /\ c \notin told
  \/ case[c] = "COMPLETED" /\ c \notin told

NothingWasDue ==
  \A r \in Reminders :
    FoundNothing(CaseOf(r)) /\ DueDay(r) <= lastRead[CaseOf(r)]
      => status[r] # "SCHEDULED"

ChaseIInv ==
  /\ ChaseTypeOK
  /\ ReadsWhileSending
  /\ NotWrittenYet
  /\ CompletedHasEnded
  /\ NothingWasDue

\* A completed case moves nowhere, and only one way leads to that state.
LEMMA CompletedIsFinal ==
  ASSUME NEW c \in Cases
  PROVE  /\ case[c] = "COMPLETED" =>
              ~MayMove(c, "COMPLETED") /\ ~MayMove(c, "CANCELLED")
                /\ ~MayMove(c, "FAILED") /\ ~MayMove(c, "ORDER_PLACED")
BY DEF MayMove, LegalTransitions, Abandoned

\* The table is finite, so a page that is empty means that nothing is due.
LEMMA RemindersAreFinite == IsFiniteSet(Reminders)
<1> DEFINE P == (Cases \X Offsets) \X (1..Tries)
           f == [p \in P |-> <<p[1][1], p[1][2], p[2]>>]
<1>1. IsFiniteSet(1..Tries)
  <2>1. 1 \in Int /\ Tries \in Int
    BY RemindersAssumption
  <2> QED
    BY <2>1, FS_Interval
<1>2. IsFiniteSet(Cases \X Offsets)
  BY RemindersAssumption, FS_Product
<1>3. IsFiniteSet(P)
  BY <1>1, <1>2, FS_Product
<1>4. \A p \in P : f[p] \in Reminders
  BY DEF Reminders
<1>5. \A r \in Reminders : \E p \in P : f[p] = r
  <2> TAKE r \in Reminders
  <2>1. /\ r[1] \in Cases /\ r[2] \in Offsets /\ r[3] \in 1..Tries
        /\ r = <<r[1], r[2], r[3]>>
    BY DEF Reminders
  <2>2. <<<<r[1], r[2]>>, r[3]>> \in P
    BY <2>1
  <2>3. f[<<<<r[1], r[2]>>, r[3]>>] = r
    BY <2>1, <2>2
  <2> QED
    BY <2>2, <2>3
<1>6. f \in [P -> Reminders]
  BY <1>4
<1> HIDE DEF P, f
<1>7. f \in Surjection(P, Reminders)
  BY <1>5, <1>6 DEF Surjection
<1> QED
  BY <1>3, <1>7, FS_Surjection

LEMMA EmptyPage ==
  ASSUME Oldest({})
  PROVE  Due = {}
<1>1. IsFiniteSet(Due)
  <2>1. Due \in SUBSET Reminders
    BY DEF Due
  <2> QED
    BY <2>1, RemindersAreFinite, FS_Subset
<1>2. Cardinality({}) = IF Cardinality(Due) < PageLimit
                        THEN Cardinality(Due) ELSE PageLimit
  BY DEF Oldest
<1>3. Cardinality(Due) = 0
  BY <1>1, <1>2, FS_EmptySet, RemindersAssumption
<1> QED
  BY <1>1, <1>3, FS_EmptySet

LEMMA ChaseInitIInv == ChaseInit => ChaseIInv
<1> SUFFICES ASSUME ChaseInit PROVE ChaseIInv
  OBVIOUS
<1> USE RemindersAssumption DEF ChaseInit
<1>1. ChaseTypeOK
  <2>1. flow \in [Cases -> [pc : {"schedule", "send", "wait", "finish",
                                  "fail", "ended"}, try : 1..Tries]]
    <3>1. 1 \in 1..Tries
      OBVIOUS
    <3> QED
      BY <3>1
  <2>2. reading \in [Cases -> [open : BOOLEAN, rows : SUBSET Reminders]]
    BY DEF Unstarted
  <2>3. now \in Days /\ chaseFaults \in 0..MaxChaseFaults
    BY DEF Days
  <2>4. lastRead \in [Cases -> -1..LastDay]
    OBVIOUS
  <2>5. case \in [Cases -> {"PO_RECOMMENDATION", "ORDER_PLACED"}
                           \cup TerminalStates]
    OBVIOUS
  <2> QED
    BY <2>1, <2>2, <2>3, <2>4, <2>5 DEF ChaseTypeOK
<1>2. ReadsWhileSending /\ NotWrittenYet /\ CompletedHasEnded
  BY DEF ReadsWhileSending, NotWrittenYet, CompletedHasEnded, Unstarted,
         Reminders, CaseOf
<1>3. NothingWasDue
  BY DEF NothingWasDue
<1> QED
  BY <1>1, <1>2, <1>3 DEF ChaseIInv

\* What an answer leaves of the workflow's place: where it goes on, the same
\* activity once more, or the failure of the workflow.
LEMMA Onwards ==
  ASSUME ChaseTypeOK, NEW c \in Cases,
         NEW pc \in {"send", "wait", "finish", "ended"},
         Proceed(c, pc) \/ TryAgain(c)
  PROVE  /\ flow' \in [Cases -> [pc : {"schedule", "send", "wait", "finish",
                                       "fail", "ended"}, try : 1..Tries]]
         /\ \A d \in Cases \ {c} : flow'[d] = flow[d]
         /\ \/ flow'[c].pc = pc
            \/ flow'[c].pc = flow[c].pc /\ flow'[c].try = flow[c].try + 1
            \/ flow'[c].pc = "fail"
<1> DEFINE F == [pc : {"schedule", "send", "wait", "finish", "fail", "ended"},
                 try : 1..Tries]
<1>1. flow[c] \in F /\ flow \in [Cases -> F]
  BY DEF ChaseTypeOK
<1>2. \A q \in {"send", "wait", "finish", "ended", "fail"} :
        [pc |-> q, try |-> 1] \in F
  BY RemindersAssumption
<1>3. CASE Proceed(c, pc)
  BY <1>1, <1>2, <1>3 DEF Proceed
<1>4. CASE TryAgain(c) /\ flow[c].try < Tries
  <2>1. flow' = [flow EXCEPT ![c].try = flow[c].try + 1]
    BY <1>4 DEF TryAgain
  <2>2. flow[c].try + 1 \in 1..Tries
    BY <1>1, <1>4, RemindersAssumption
  <2> QED
    BY <1>1, <2>1, <2>2
<1>5. CASE TryAgain(c) /\ ~(flow[c].try < Tries)
  BY <1>1, <1>2, <1>5 DEF TryAgain, Proceed
<1> QED
  BY <1>3, <1>4, <1>5

\* A fault is counted within the bound, an answer that is heard is none.
LEMMA AnswerGoesOn ==
  ASSUME ChaseTypeOK, NEW c \in Cases,
         NEW pc \in {"send", "wait", "finish", "ended"}, Answer(c, pc)
  PROVE  /\ Proceed(c, pc) \/ TryAgain(c)
         /\ chaseFaults' \in 0..MaxChaseFaults
BY RemindersAssumption DEF Answer, ChaseFault, ChaseTypeOK

LEMMA MarkedType ==
  ASSUME ChaseTypeOK, NEW S \in SUBSET Reminders,
         NEW to \in {"SENT", "CANCELLED"}
  PROVE  Marked(S, to)
           \in [Reminders -> {"none", "SCHEDULED", "SENT", "CANCELLED"}]
BY DEF ChaseTypeOK, Marked

LEMMA PostedType ==
  ASSUME ChaseTypeOK, NEW S \in SUBSET Reminders
  PROVE  Posted(S) \in [Reminders -> Nat]
BY DEF ChaseTypeOK, Posted

LEMMA OwnType ==
  ASSUME ChaseTypeOK, NEW c \in Cases
  PROVE  /\ Own(c) \in SUBSET Reminders
         /\ Own(c) \subseteq reading[c].rows
         /\ \A r \in Own(c) : CaseOf(r) = c
BY DEF ChaseTypeOK, Own

LEMMA ClosedType ==
  ASSUME ChaseTypeOK, NEW c \in Cases
  PROVE  [reading EXCEPT ![c] = Unstarted]
           \in [Cases -> [open : BOOLEAN, rows : SUBSET Reminders]]
<1>1. Unstarted \in [open : BOOLEAN, rows : SUBSET Reminders]
  BY DEF Unstarted
<1> QED
  BY <1>1 DEF ChaseTypeOK

LEMMA ScheduleKeeps ==
  ASSUME ChaseIInv, NEW c \in Cases, Schedule(c)
  PROVE  ChaseIInv'
<1> USE DEF ChaseIInv
<1>1. /\ \A d \in Cases \ {c} : flow'[d] = flow[d]
      /\ flow' \in [Cases -> [pc : {"schedule", "send", "wait", "finish",
                                    "fail", "ended"}, try : 1..Tries]]
      /\ \/ flow'[c].pc = "send"
         \/ flow'[c].pc = flow[c].pc /\ flow'[c].try = flow[c].try + 1
         \/ flow'[c].pc = "fail"
      /\ chaseFaults' \in 0..MaxChaseFaults
  <2>1. Answer(c, "send")
    BY DEF Schedule
  <2>2. /\ Proceed(c, "send") \/ TryAgain(c)
        /\ chaseFaults' \in 0..MaxChaseFaults
    BY <2>1, AnswerGoesOn
  <2> QED
    BY <2>2, Onwards
<1>2. status' \in [Reminders -> {"none", "SCHEDULED", "SENT", "CANCELLED"}]
  BY DEF Schedule, ChaseTypeOK
<1>3. ChaseTypeOK'
  BY <1>1, <1>2 DEF ChaseTypeOK, Schedule, Days
<1>4. FlowAt(c, "schedule") /\ ~reading[c].open /\ case[c] # "COMPLETED"
  BY DEF Schedule, ReadsWhileSending, CompletedHasEnded, FlowAt
<1>5. ReadsWhileSending'
  BY <1>1, <1>4 DEF ReadsWhileSending, Schedule, FlowAt
<1>6. CompletedHasEnded'
  BY <1>1, <1>4 DEF CompletedHasEnded, Schedule, FlowAt
<1>7. NotWrittenYet'
  <2> SUFFICES ASSUME NEW r \in Reminders, flow'[CaseOf(r)].pc = "schedule",
                      flow'[CaseOf(r)].try <= r[3]
               PROVE  status'[r] = "none"
    BY DEF NotWrittenYet, FlowAt
  <2>1. CaseOf(r) \in Cases /\ r[3] \in Nat /\ flow[c].try \in Nat
    BY DEF CaseOf, Reminders, ChaseTypeOK
  <2>2. CASE CaseOf(r) = c
    <3>1. flow'[c].try = flow[c].try + 1
      BY <1>1, <2>2
    <3>2. flow[c].try <= r[3] /\ r[3] # flow[c].try
      BY <2>1, <2>2, <3>1
    <3>3. status[r] = "none"
      BY <1>4, <2>2, <3>2 DEF NotWrittenYet
    <3> QED
      BY <3>2, <3>3 DEF Schedule, ChaseTypeOK
  <2>3. CASE CaseOf(r) # c
    BY <1>1, <2>1, <2>3 DEF NotWrittenYet, FlowAt, Schedule
  <2> QED
    BY <2>2, <2>3
<1>8. NothingWasDue'
  <2>1. ASSUME NEW r \in Reminders, CaseOf(r) = c
        PROVE  ~FoundNothing(CaseOf(r))'
    BY <1>1, <1>4, <2>1 DEF FoundNothing, Schedule, FlowAt
  <2>2. ASSUME NEW r \in Reminders, CaseOf(r) # c
        PROVE  /\ status'[r] = status[r]
               /\ FoundNothing(CaseOf(r))' <=> FoundNothing(CaseOf(r))
               /\ DueDay(r)' = DueDay(r)
    <3>1. CaseOf(r) \in Cases
      BY DEF CaseOf, Reminders
    <3> QED
      BY <1>1, <2>2, <3>1
         DEF FoundNothing, Schedule, FlowAt, DueDay
  <2> QED
    BY <2>1, <2>2 DEF NothingWasDue, Schedule
<1> QED
  BY <1>3, <1>5, <1>6, <1>7, <1>8

LEMMA ReadDueKeeps ==
  ASSUME ChaseIInv, NEW c \in Cases, ReadDue(c)
  PROVE  ChaseIInv'
<1> USE DEF ChaseIInv
<1>1. PICK S \in SUBSET Due :
        /\ Oldest(S)
        /\ reading' = [reading EXCEPT ![c] = [open |-> TRUE, rows |-> S]]
  BY DEF ReadDue
<1>2. S \in SUBSET Reminders
  BY <1>1 DEF Due
<1>3. lastRead' = [lastRead EXCEPT ![c] = now]
  BY DEF ReadDue
<1>4. ChaseTypeOK'
  <2>1. [open |-> TRUE, rows |-> S]
          \in [open : BOOLEAN, rows : SUBSET Reminders]
    BY <1>2
  <2>2. reading' \in [Cases -> [open : BOOLEAN, rows : SUBSET Reminders]]
    BY <1>1, <2>1 DEF ChaseTypeOK
  <2>3. now \in -1..LastDay
    BY RemindersAssumption DEF ChaseTypeOK, Days
  <2>4. lastRead' \in [Cases -> -1..LastDay]
    BY <1>3, <2>3 DEF ChaseTypeOK
  <2> QED
    BY <2>2, <2>4 DEF ChaseTypeOK, ReadDue, Days
<1>5. ReadsWhileSending'
  BY <1>1 DEF ReadsWhileSending, ReadDue, FlowAt, ChaseTypeOK
<1>6. NotWrittenYet' /\ CompletedHasEnded'
  BY DEF NotWrittenYet, CompletedHasEnded, ReadDue, FlowAt
<1>7. NothingWasDue'
  <2> SUFFICES ASSUME NEW r \in Reminders, FoundNothing(CaseOf(r))',
                      DueDay(r)' <= lastRead'[CaseOf(r)]
               PROVE  status[r] # "SCHEDULED"
    BY DEF NothingWasDue, ReadDue
  <2>1. CaseOf(r) \in Cases /\ DueDay(r)' = DueDay(r)
    BY DEF CaseOf, Reminders, DueDay, ReadDue
  <2>2. CASE CaseOf(r) = c
    <3>1. S = {}
      BY <1>1, <2>2 DEF FoundNothing, ReadDue, FlowAt, CompletedHasEnded,
                        ChaseTypeOK
    <3>2. Due = {}
      BY <1>1, <3>1, EmptyPage
    <3>3. lastRead'[c] = now
      BY <1>3 DEF ChaseTypeOK
    <3>4. DueDay(r) <= now
      BY <2>1, <2>2, <3>3
    <3> QED
      BY <3>2, <3>4 DEF Due
  <2>3. CASE CaseOf(r) # c
    BY <1>1, <1>3, <2>1, <2>3
       DEF FoundNothing, ReadDue, FlowAt, NothingWasDue, ChaseTypeOK
  <2> QED
    BY <2>2, <2>3
<1> QED
  BY <1>4, <1>5, <1>6, <1>7

\* An attempt that ends without a commit leaves the table as it was.
LEMMA AttemptFails ==
  ASSUME ChaseIInv, NEW c \in Cases,
         FlowAt(c, "schedule") \/ FlowAt(c, "send"), TryAgain(c),
         reading' \in {reading, [reading EXCEPT ![c] = Unstarted]},
         FlowAt(c, "send") => reading' = [reading EXCEPT ![c] = Unstarted],
         letters' \in [Reminders -> Nat],
         chaseFaults' \in 0..MaxChaseFaults,
         UNCHANGED <<now, delivery, reached, status, case, told, lastRead>>
  PROVE  ChaseIInv'
<1> USE DEF ChaseIInv
<1>1. /\ \A d \in Cases \ {c} : flow'[d] = flow[d]
      /\ flow' \in [Cases -> [pc : {"schedule", "send", "wait", "finish",
                                    "fail", "ended"}, try : 1..Tries]]
      /\ \/ flow'[c].pc = flow[c].pc /\ flow'[c].try = flow[c].try + 1
         \/ flow'[c].pc = "fail"
  <2>1. /\ \A d \in Cases \ {c} : flow'[d] = flow[d]
        /\ flow' \in [Cases -> [pc : {"schedule", "send", "wait", "finish",
                                      "fail", "ended"}, try : 1..Tries]]
    BY Onwards
  <2>2. CASE flow[c].try < Tries
    BY <2>1, <2>2 DEF TryAgain, ChaseTypeOK
  <2>3. CASE ~(flow[c].try < Tries)
    BY <2>1, <2>3 DEF TryAgain, Proceed, ChaseTypeOK
  <2> QED
    BY <2>1, <2>2, <2>3
<1>2. reading' \in [Cases -> [open : BOOLEAN, rows : SUBSET Reminders]]
  <2>1. reading \in [Cases -> [open : BOOLEAN, rows : SUBSET Reminders]]
    BY DEF ChaseTypeOK
  <2>2. [reading EXCEPT ![c] = Unstarted]
          \in [Cases -> [open : BOOLEAN, rows : SUBSET Reminders]]
    BY ClosedType
  <2> QED
    BY <2>1, <2>2, Zenon
<1>3. ChaseTypeOK'
  BY <1>1, <1>2 DEF ChaseTypeOK, Days
<1>4. ~reading'[c].open /\ \A d \in Cases \ {c} : reading'[d] = reading[d]
  BY DEF ReadsWhileSending, FlowAt, Unstarted, ChaseTypeOK
<1>5. case[c] # "COMPLETED"
  BY DEF CompletedHasEnded, FlowAt
<1>6. ReadsWhileSending' /\ CompletedHasEnded'
  BY <1>1, <1>4, <1>5 DEF ReadsWhileSending, CompletedHasEnded, FlowAt
<1>7. NotWrittenYet'
  <2> SUFFICES ASSUME NEW r \in Reminders, flow'[CaseOf(r)].pc = "schedule",
                      flow'[CaseOf(r)].try <= r[3]
               PROVE  status[r] = "none"
    BY DEF NotWrittenYet, FlowAt
  <2>1. /\ CaseOf(r) \in Cases /\ r[3] \in Nat
        /\ flow[CaseOf(r)].try \in Nat
    BY DEF CaseOf, Reminders, ChaseTypeOK
  <2>2. flow[CaseOf(r)].pc = "schedule" /\ flow[CaseOf(r)].try <= r[3]
    BY <1>1, <2>1
  <2> QED
    BY <2>2 DEF NotWrittenYet, FlowAt
<1>8. NothingWasDue'
  <2>1. \A r \in Reminders : FoundNothing(CaseOf(r))' => FoundNothing(CaseOf(r))
    <3> SUFFICES ASSUME NEW r \in Reminders, FoundNothing(CaseOf(r))'
                 PROVE  FoundNothing(CaseOf(r))
      OBVIOUS
    <3>1. CaseOf(r) \in Cases
      BY DEF CaseOf, Reminders
    <3>2. CaseOf(r) # c
      BY <1>1, <1>4, <1>5 DEF FoundNothing, FlowAt
    <3> QED
      BY <1>1, <1>4, <3>1, <3>2 DEF FoundNothing, FlowAt
  <2> QED
    BY <2>1 DEF NothingWasDue, DueDay
<1> QED
  BY <1>3, <1>6, <1>7, <1>8

LEMMA ScheduleFailsKeeps ==
  ASSUME ChaseIInv, NEW c \in Cases, ScheduleFails(c)
  PROVE  ChaseIInv'
<1>1. chaseFaults' \in 0..MaxChaseFaults
  BY RemindersAssumption DEF ScheduleFails, ChaseFault, ChaseIInv, ChaseTypeOK
<1>2. letters' \in [Reminders -> Nat] /\ ~FlowAt(c, "send")
  BY DEF ScheduleFails, ChaseIInv, ChaseTypeOK, FlowAt
<1> QED
  BY <1>1, <1>2, AttemptFails DEF ScheduleFails

LEMMA SendDueFailsKeeps ==
  ASSUME ChaseIInv, NEW c \in Cases, SendDueFails(c)
  PROVE  ChaseIInv'
<1>1. chaseFaults' \in 0..MaxChaseFaults
  BY RemindersAssumption DEF SendDueFails, ChaseFault, ChaseIInv, ChaseTypeOK
<1>2. letters' \in [Reminders -> Nat]
  BY OwnType, PostedType DEF SendDueFails, ChaseIInv
<1> QED
  BY <1>1, <1>2, AttemptFails DEF SendDueFails

LEMMA SendDueKeeps ==
  ASSUME ChaseIInv, NEW c \in Cases, SendDue(c)
  PROVE  ChaseIInv'
<1> USE DEF ChaseIInv
<1> DEFINE pc == IF reading[c].rows = {} THEN "finish" ELSE "wait"
<1>1. /\ \A d \in Cases \ {c} : flow'[d] = flow[d]
      /\ flow' \in [Cases -> [pc : {"schedule", "send", "wait", "finish",
                                    "fail", "ended"}, try : 1..Tries]]
      /\ \/ flow'[c].pc = pc
         \/ flow'[c].pc = flow[c].pc
         \/ flow'[c].pc = "fail"
      /\ chaseFaults' \in 0..MaxChaseFaults
  <2>1. Answer(c, pc) /\ pc \in {"send", "wait", "finish", "ended"}
    BY DEF SendDue
  <2> HIDE DEF pc
  <2>2. /\ Proceed(c, pc) \/ TryAgain(c)
        /\ chaseFaults' \in 0..MaxChaseFaults
    BY <2>1, AnswerGoesOn
  <2> QED
    BY <2>1, <2>2, Onwards
<1>2. ChaseTypeOK'
  <2>1. Own(c) \in SUBSET Reminders
    BY OwnType
  <2>2. status' \in [Reminders -> {"none", "SCHEDULED", "SENT", "CANCELLED"}]
    BY <2>1, MarkedType DEF SendDue
  <2>3. letters' \in [Reminders -> Nat]
    BY <2>1, PostedType DEF SendDue
  <2>4. reading' \in [Cases -> [open : BOOLEAN, rows : SUBSET Reminders]]
    BY ClosedType DEF SendDue
  <2> QED
    BY <1>1, <2>2, <2>3, <2>4 DEF ChaseTypeOK, SendDue, Days
<1>3. /\ ~reading'[c].open
      /\ \A d \in Cases \ {c} : reading'[d] = reading[d]
  BY DEF SendDue, Unstarted, ChaseTypeOK
<1>4. case[c] # "COMPLETED" /\ FlowAt(c, "send") /\ reading[c].open
  BY DEF CompletedHasEnded, FlowAt, SendDue
<1>5. ReadsWhileSending' /\ CompletedHasEnded'
  BY <1>1, <1>3, <1>4 DEF ReadsWhileSending, CompletedHasEnded, FlowAt, SendDue
<1>6. \A r \in Reminders :
        /\ CaseOf(r) \in Cases
        /\ status'[r] \in {status[r], "SENT"}
        /\ CaseOf(r) # c => status'[r] = status[r]
  BY OwnType DEF SendDue, Marked, CaseOf, Reminders
<1>7. NotWrittenYet'
  BY <1>1, <1>4, <1>6 DEF NotWrittenYet, FlowAt
<1>8. NothingWasDue'
  <2>1. \A r \in Reminders : FoundNothing(CaseOf(r))' => FoundNothing(CaseOf(r))
    <3> SUFFICES ASSUME NEW r \in Reminders, FoundNothing(CaseOf(r))'
                 PROVE  FoundNothing(CaseOf(r))
      OBVIOUS
    <3>1. CaseOf(r) \in Cases /\ UNCHANGED <<case, told>>
      BY <1>6 DEF SendDue
    <3>2. CASE CaseOf(r) = c
      <4>1. flow'[c].pc = "finish" => reading[c].rows = {}
        BY <1>1, <1>4 DEF FlowAt
      <4> QED
        BY <1>3, <1>4, <3>1, <3>2, <4>1 DEF FoundNothing, FlowAt
    <3>3. CASE CaseOf(r) # c
      BY <1>1, <1>3, <3>1, <3>3 DEF FoundNothing, FlowAt
    <3> QED
      BY <3>2, <3>3
  <2>2. \A r \in Reminders : DueDay(r)' = DueDay(r)
    BY DEF DueDay, SendDue
  <2> QED
    BY <1>6, <2>1, <2>2 DEF NothingWasDue, SendDue
<1> QED
  BY <1>2, <1>5, <1>7, <1>8

\* A step of the workflow between its activities.
LEMMA StopChasingKeeps ==
  ASSUME ChaseIInv, NEW c \in Cases, StopChasing(c)
  PROVE  ChaseIInv'
<1> USE DEF ChaseIInv
<1>1. /\ \A d \in Cases \ {c} : flow'[d] = flow[d]
      /\ flow' \in [Cases -> [pc : {"schedule", "send", "wait", "finish",
                                    "fail", "ended"}, try : 1..Tries]]
  BY Onwards DEF StopChasing
<1>2. flow'[c].pc = "finish"
  BY DEF StopChasing, Proceed, ChaseTypeOK
<1>3. /\ c \in told /\ ~reading[c].open /\ case[c] # "COMPLETED"
  BY DEF StopChasing, ReadsWhileSending, CompletedHasEnded, FlowAt
<1>4. ChaseTypeOK'
  BY <1>1 DEF ChaseTypeOK, StopChasing, Days
<1>5. /\ ReadsWhileSending' /\ CompletedHasEnded'
  BY <1>1, <1>3 DEF ReadsWhileSending, CompletedHasEnded, FlowAt, StopChasing
<1>6. \A r \in Reminders : CaseOf(r) \in Cases
  BY DEF CaseOf, Reminders
<1>7. NotWrittenYet'
  BY <1>1, <1>2, <1>6 DEF NotWrittenYet, FlowAt, StopChasing
<1>8. NothingWasDue'
  BY <1>1, <1>2, <1>3, <1>6
     DEF NothingWasDue, FoundNothing, FlowAt, StopChasing, DueDay
<1> QED
  BY <1>4, <1>5, <1>7, <1>8

LEMMA DayIsOverKeeps ==
  ASSUME ChaseIInv, NEW c \in Cases, DayIsOver(c)
  PROVE  ChaseIInv'
<1> USE DEF ChaseIInv
<1>1. /\ \A d \in Cases \ {c} : flow'[d] = flow[d]
      /\ flow' \in [Cases -> [pc : {"schedule", "send", "wait", "finish",
                                    "fail", "ended"}, try : 1..Tries]]
  BY Onwards DEF DayIsOver
<1>2. flow'[c].pc = "ended"
  BY DEF DayIsOver, Proceed, ChaseTypeOK
<1>3. ~reading[c].open /\ case[c] # "COMPLETED"
  BY DEF DayIsOver, ReadsWhileSending, CompletedHasEnded, FlowAt
<1>4. ChaseTypeOK'
  BY <1>1 DEF ChaseTypeOK, DayIsOver, Days
<1>5. /\ ReadsWhileSending' /\ CompletedHasEnded'
  BY <1>1, <1>3 DEF ReadsWhileSending, CompletedHasEnded, FlowAt, DayIsOver
<1>6. \A r \in Reminders : CaseOf(r) \in Cases
  BY DEF CaseOf, Reminders
<1>7. NotWrittenYet'
  BY <1>1, <1>2, <1>6 DEF NotWrittenYet, FlowAt, DayIsOver
<1>8. NothingWasDue'
  BY <1>1, <1>2, <1>3, <1>6
     DEF NothingWasDue, FoundNothing, FlowAt, DayIsOver, DueDay
<1> QED
  BY <1>4, <1>5, <1>7, <1>8

LEMMA FinishKeeps ==
  ASSUME ChaseIInv, NEW c \in Cases, Finish(c)
  PROVE  ChaseIInv'
<1> USE DEF ChaseIInv
<1>1. /\ \A d \in Cases \ {c} : flow'[d] = flow[d]
      /\ flow' \in [Cases -> [pc : {"schedule", "send", "wait", "finish",
                                    "fail", "ended"}, try : 1..Tries]]
  BY Onwards DEF Finish
<1>2. flow'[c].pc = "ended"
  BY DEF Finish, Proceed, ChaseTypeOK
<1>3. /\ ~reading[c].open /\ case[c] # "COMPLETED"
      /\ FlowAt(c, "finish") \/ FlowAt(c, "fail")
  BY DEF Finish, ReadsWhileSending, CompletedHasEnded, FlowAt
<1>4. /\ case' \in [Cases -> {"PO_RECOMMENDATION", "ORDER_PLACED"}
                             \cup TerminalStates]
      /\ \A d \in Cases \ {c} : case'[d] = case[d]
      /\ case'[c] = "COMPLETED" => FlowAt(c, "finish")
  <2> DEFINE target == IF FlowAt(c, "fail") THEN "FAILED" ELSE "COMPLETED"
             to == IF MayMove(c, target) THEN target ELSE case[c]
  <2>1. case' = [case EXCEPT ![c] = to]
    BY DEF Finish
  <2>2. /\ to \in {"PO_RECOMMENDATION", "ORDER_PLACED"} \cup TerminalStates
        /\ to = "COMPLETED" => FlowAt(c, "finish")
    BY <1>3 DEF ChaseTypeOK, TerminalStates, FlowAt
  <2> HIDE DEF to
  <2> QED
    BY <2>1, <2>2 DEF ChaseTypeOK
<1>5. ChaseTypeOK'
  BY <1>1, <1>4 DEF ChaseTypeOK, Finish, Days
<1>6. ReadsWhileSending' /\ CompletedHasEnded'
  BY <1>1, <1>2, <1>3, <1>4
     DEF ReadsWhileSending, CompletedHasEnded, FlowAt, Finish
<1>7. \A r \in Reminders : CaseOf(r) \in Cases
  BY DEF CaseOf, Reminders
<1>8. NotWrittenYet'
  BY <1>1, <1>2, <1>7 DEF NotWrittenYet, FlowAt, Finish
<1>9. NothingWasDue'
  <2>1. \A d \in Cases : FoundNothing(d)' => FoundNothing(d)
    BY <1>1, <1>2, <1>3, <1>4 DEF FoundNothing, FlowAt, Finish
  <2> QED
    BY <1>7, <2>1 DEF NothingWasDue, Finish, DueDay
<1> QED
  BY <1>5, <1>6, <1>8, <1>9

LEMMA ReleaseOrderKeeps ==
  ASSUME ChaseIInv, NEW c \in Cases, ReleaseOrder(c)
  PROVE  ChaseIInv'
<1> USE DEF ChaseIInv
<1>1. /\ case' \in [Cases -> {"PO_RECOMMENDATION", "ORDER_PLACED"}
                             \cup TerminalStates]
      /\ \A d \in Cases : case'[d] = "COMPLETED" => case[d] = "COMPLETED"
  BY DEF ReleaseOrder, ChaseTypeOK
<1>2. ChaseTypeOK'
  BY <1>1 DEF ChaseTypeOK, ReleaseOrder, Days
<1>3. ReadsWhileSending' /\ CompletedHasEnded' /\ NotWrittenYet'
  BY <1>1 DEF ReadsWhileSending, CompletedHasEnded, NotWrittenYet, FlowAt,
              ReleaseOrder
<1>4. NothingWasDue'
  <2>1. \A r \in Reminders : CaseOf(r) \in Cases
    BY DEF CaseOf, Reminders
  <2> QED
    BY <1>1, <2>1 DEF NothingWasDue, FoundNothing, FlowAt, ReleaseOrder, DueDay
<1> QED
  BY <1>2, <1>3, <1>4

LEMMA CancelKeeps ==
  ASSUME ChaseIInv, NEW c \in Cases, Cancel(c)
  PROVE  ChaseIInv'
<1> USE DEF ChaseIInv
<1>1. /\ case' \in [Cases -> {"PO_RECOMMENDATION", "ORDER_PLACED"}
                             \cup TerminalStates]
      /\ \A d \in Cases : case'[d] = "COMPLETED" => case[d] = "COMPLETED"
  BY DEF Cancel, ChaseTypeOK, TerminalStates
<1>2. /\ told' \in SUBSET Cases
      /\ told \subseteq told'
  BY DEF Cancel, ChaseTypeOK
<1>3. Pending(c) \in SUBSET Reminders
  BY DEF Pending
<1>4. status' \in [Reminders -> {"none", "SCHEDULED", "SENT", "CANCELLED"}]
  BY <1>3, MarkedType DEF Cancel
<1>5. \A r \in Reminders :
        status'[r] = IF r \in Pending(c) THEN "CANCELLED" ELSE status[r]
  BY DEF Cancel, Marked
<1>6. ChaseTypeOK'
  BY <1>1, <1>2, <1>4 DEF ChaseTypeOK, Cancel, Days
<1>7. ReadsWhileSending' /\ CompletedHasEnded'
  BY <1>1 DEF ReadsWhileSending, CompletedHasEnded, FlowAt, Cancel
<1>8. NotWrittenYet'
  BY <1>5 DEF NotWrittenYet, FlowAt, Cancel, Pending
<1>9. NothingWasDue'
  <2>1. \A r \in Reminders : CaseOf(r) \in Cases
    BY DEF CaseOf, Reminders
  <2>2. \A d \in Cases : FoundNothing(d)' => FoundNothing(d)
    BY <1>1, <1>2 DEF FoundNothing, FlowAt, Cancel
  <2> QED
    BY <1>5, <2>1, <2>2 DEF NothingWasDue, Cancel, DueDay
<1> QED
  BY <1>6, <1>7, <1>8, <1>9

LEMMA NewDayKeeps ==
  ASSUME ChaseIInv, NewDay
  PROVE  ChaseIInv'
<1> USE DEF ChaseIInv
<1>1. now' \in Days
  BY RemindersAssumption DEF NewDay, ChaseTypeOK, Days
<1>2. ChaseTypeOK'
  BY <1>1 DEF ChaseTypeOK, NewDay, Days
<1>3. ReadsWhileSending' /\ CompletedHasEnded' /\ NotWrittenYet'
  BY DEF ReadsWhileSending, CompletedHasEnded, NotWrittenYet, FlowAt, NewDay
<1>4. NothingWasDue'
  BY DEF NothingWasDue, FoundNothing, FlowAt, NewDay, DueDay
<1> QED
  BY <1>2, <1>3, <1>4

LEMMA ChaseStepKeepsIInv == ChaseIInv /\ [ChaseNext]_chaseVars => ChaseIInv'
<1> SUFFICES ASSUME ChaseIInv, [ChaseNext]_chaseVars PROVE ChaseIInv'
  OBVIOUS
<1>1. CASE UNCHANGED chaseVars
  BY <1>1
     DEF chaseVars, ChaseIInv, ChaseTypeOK, ReadsWhileSending, NotWrittenYet,
         CompletedHasEnded, NothingWasDue, FoundNothing, FlowAt, DueDay, Days
<1>2. CASE ChaseNext
  BY <1>2, NewDayKeeps, ScheduleKeeps, ReadDueKeeps, SendDueKeeps,
     StopChasingKeeps, DayIsOverKeeps, FinishKeeps, ScheduleFailsKeeps,
     SendDueFailsKeeps, ReleaseOrderKeeps, CancelKeeps DEF ChaseNext, Work
<1> QED
  BY <1>1, <1>2

LEMMA ChaseInvariance == ChaseSpec => []ChaseIInv
BY ChaseInitIInv, ChaseStepKeepsIInv, PTL DEF ChaseSpec

\* The chase is well typed for any number of cases, reminders and attempts.
THEOREM ChaseTypeCorrect == ChaseSpec => []ChaseTypeOK
<1>1. ChaseIInv => ChaseTypeOK
  BY DEF ChaseIInv
<1> QED
  BY <1>1, ChaseInvariance, PTL

\* A workflow that closed its case as completed had read an empty page last:
\* whatever else is on the schedules of the tenant, and however many rows a
\* page has, nothing of the case that was due then is still there.
THEOREM NothingDueIsLeft == ChaseSpec => []CompletedLeftNothingDue
<1>1. ChaseIInv => CompletedLeftNothingDue
  BY DEF ChaseIInv, NothingWasDue, FoundNothing, CompletedLeftNothingDue
<1> QED
  BY <1>1, ChaseInvariance, PTL

\* One step neither puts a cancelled reminder back nor mails for it, but from
\* an attempt that had read it.
LEMMA CancelledStep ==
  ASSUME ChaseIInv, [ChaseNext]_chaseVars, NEW r \in Reminders, Cancelled(r)
  PROVE  /\ Cancelled(r)'
         /\ letters'[r] > letters[r] => r \in reading[CaseOf(r)].rows
<1> USE DEF Cancelled
<1>1. CaseOf(r) \in Cases /\ letters[r] \in Nat /\ r[3] \in Nat
  BY DEF CaseOf, Reminders, ChaseIInv, ChaseTypeOK
<1>2. CASE status' = status /\ letters' = letters
  BY <1>1, <1>2
<1>3. ASSUME NEW c \in Cases, Schedule(c)
      PROVE  Cancelled(r)' /\ letters' = letters
  <2>1. CaseOf(r) = c => r[3] # flow[c].try
    <3>1. flow[c].try \in Nat /\ FlowAt(c, "schedule")
      BY <1>3 DEF Schedule, ChaseIInv, ChaseTypeOK
    <3> QED
      BY <1>1, <3>1 DEF ChaseIInv, NotWrittenYet
  <2> QED
    BY <1>3, <2>1 DEF Schedule
<1>4. ASSUME NEW c \in Cases, SendDue(c)
      PROVE  status'[r] = "CANCELLED" /\ letters'[r] = letters[r]
  <2>1. r \notin Own(c)
    BY <1>4 DEF SendDue, Unchanged
  <2> QED
    BY <1>4, <2>1 DEF SendDue, Marked, Posted
<1>5. ASSUME NEW c \in Cases, SendDueFails(c)
      PROVE  /\ status' = status
             /\ letters'[r] > letters[r] => r \in reading[CaseOf(r)].rows
  <2>1. PICK S \in SUBSET Own(c) : letters' = Posted(S)
    BY <1>5 DEF SendDueFails
  <2>2. letters'[r] > letters[r] => r \in Own(c)
    BY <1>1, <2>1 DEF Posted
  <2> QED
    BY <1>5, <2>2 DEF SendDueFails, Own
<1>6. ASSUME NEW c \in Cases, Cancel(c)
      PROVE  status'[r] = "CANCELLED" /\ letters' = letters
  BY <1>6 DEF Cancel, Marked
<1>7. CASE UNCHANGED chaseVars
  BY <1>1, <1>7 DEF chaseVars
<1>8. ASSUME NEW c \in Cases,
             \/ ReadDue(c) \/ StopChasing(c) \/ DayIsOver(c) \/ Finish(c)
             \/ ScheduleFails(c) \/ ReleaseOrder(c)
      PROVE  status' = status /\ letters' = letters
  BY <1>8 DEF ReadDue, StopChasing, DayIsOver, Finish, ScheduleFails,
              ReleaseOrder
<1>9. CASE NewDay
  BY <1>1, <1>9 DEF NewDay
<1> QED
  BY <1>1, <1>3, <1>4, <1>5, <1>6, <1>7, <1>8, <1>9 DEF ChaseNext, Work

\* A reminder cancelled with its case stays cancelled, whoever was sending
\* meanwhile, and only attempts that had read it before still mail for it.
THEOREM CancelledStaysQuiet == ChaseSpec => CancelledIsNotChased
<1>1. ChaseIInv /\ [ChaseNext]_chaseVars =>
        [\A r \in Reminders : Cancelled(r) =>
           /\ Cancelled(r)'
           /\ letters'[r] > letters[r] =>
                r \in reading[CaseOf(r)].rows]_chaseVars
  BY CancelledStep
<1> QED
  BY <1>1, ChaseInvariance, PTL DEF ChaseSpec, CancelledIsNotChased

-----------------------------------------------------------------------------
(* Inbox: how suppliers' mail comes in *)

\* The conditions under which the marks made before the commit lose nothing.
Calm == ~overlap /\ inboxFaults = 0 /\ Ordinary

ClosedIsEmpty == \A s \in Sessions : ~Open(s) => session[s] = Closed

\* A request has one message, which it is yet to receive or has received.
RelaysPushOne ==
  \A s \in Relays :
    /\ session[s].todo \cap session[s].mine = {}
    /\ \A i, j \in session[s].todo \cup session[s].mine : i = j
    /\ session[s].todo \cup session[s].offers \subseteq relayed

\* A session that is alone sees what is committed.
AloneItSeesAll ==
  ~overlap => \A s \in Sessions : Open(s) =>
    /\ \A o \in Sessions : Open(o) => o = s
    /\ session[s].snap = Recorded
    /\ session[s].sawFile = filed

\* What a poll is yet to receive is unread, what it is to read as a quotation
\* is marked.
ReadersMark ==
  Calm => \A s \in Readers :
    /\ \A m \in session[s].todo : box[m] = "unread"
    /\ \A m \in session[s].offers : box[m] = "processed"

\* A message is marked before it is quoted, so no poll meets it again.
MarkedBeforeQuoted ==
  Calm => \A m \in Mail \ relayed :
    /\ quotes[m] > 0 => box[m] = "processed"
    /\ \A s \in Readers :
         m \in session[s].todo \cup session[s].offers => quotes[m] = 0

LossTyped == crossed \in SUBSET Sessions /\ spilt \in SUBSET Mail

InboxIInv ==
  /\ InboxTypeOK
  /\ ClosedIsEmpty
  /\ RelaysPushOne
  /\ AloneItSeesAll
  /\ ReadersMark
  /\ MarkedBeforeQuoted
  /\ QuotedOnceAlone

LEMMA ClosedSession ==
  /\ Closed \in SessionType
  /\ ~Closed.open
  /\ Closed.todo = {} /\ Closed.snap = {} /\ Closed.mine = {}
  /\ Closed.broken = {} /\ Closed.offers = {}
  /\ ~Closed.files
BY DEF Closed, SessionType

LEMMA OpenedSession ==
  ASSUME NEW todo \in SUBSET Mail, filed \in BOOLEAN
  PROVE  /\ Opened(todo) \in SessionType
         /\ Opened(todo).open
         /\ Opened(todo).todo = todo /\ Opened(todo).snap = Recorded
         /\ Opened(todo).mine = {} /\ Opened(todo).offers = {}
         /\ Opened(todo).sawFile = filed
<1>1. Recorded \in SUBSET Mail
  BY DEF Recorded
<1> QED
  BY <1>1, ClosedSession DEF Opened, SessionType

LEMMA ReceivedSession ==
  ASSUME NEW s, NEW m \in Mail, session[s] \in SessionType
  PROVE  /\ Received(s, m) \in SessionType
         /\ Received(s, m).open = session[s].open
         /\ Received(s, m).todo = session[s].todo \ {m}
         /\ Received(s, m).snap = session[s].snap
         /\ Received(s, m).mine = session[s].mine \cup {m}
         /\ Received(s, m).offers \subseteq session[s].offers \cup {m}
         /\ Received(s, m).sawFile = session[s].sawFile
<1> DEFINE O == IF kind[m] \in Priced THEN session[s].offers \cup {m}
                ELSE session[s].offers
           F == session[s].files \/ (kind[m] = "listed" /\ ~session[s].sawFile)
           T == session[s].todo \ {m}
           I == session[s].mine \cup {m}
<1>1. /\ O \in SUBSET Mail /\ T \in SUBSET Mail /\ I \in SUBSET Mail
      /\ O \subseteq session[s].offers \cup {m}
  BY DEF SessionType
<1>2. F \in BOOLEAN
  BY DEF SessionType
<1>3. Received(s, m) = [session[s] EXCEPT !.todo = T, !.mine = I, !.offers = O,
                                          !.files = F]
  BY Zenon DEF Received
<1> HIDE DEF O, F, T, I
<1>4. /\ Received(s, m) \in SessionType
      /\ Received(s, m).open = session[s].open
      /\ Received(s, m).todo = T
      /\ Received(s, m).snap = session[s].snap
      /\ Received(s, m).mine = I
      /\ Received(s, m).offers = O
      /\ Received(s, m).sawFile = session[s].sawFile
  BY <1>1, <1>2, <1>3 DEF SessionType
<1> QED
  BY <1>1, <1>4 DEF T, I

LEMMA KnownSession ==
  ASSUME NEW s, NEW m \in Mail, session[s] \in SessionType
  PROVE  /\ Known(s, m) \in SessionType
         /\ Known(s, m).open = session[s].open
         /\ Known(s, m).todo = session[s].todo \ {m}
         /\ Known(s, m).snap = session[s].snap
         /\ Known(s, m).mine = session[s].mine
         /\ Known(s, m).offers \subseteq session[s].offers \cup {m}
         /\ Known(s, m).sawFile = session[s].sawFile
<1> DEFINE O == IF kind[m] = "question" THEN session[s].offers
                ELSE session[s].offers \cup {m}
           T == session[s].todo \ {m}
<1>1. /\ O \in SUBSET Mail /\ T \in SUBSET Mail
      /\ O \subseteq session[s].offers \cup {m}
  BY DEF SessionType
<1>2. Known(s, m) = [session[s] EXCEPT !.todo = T, !.offers = O]
  BY Zenon DEF Known
<1> HIDE DEF O, T
<1>3. /\ Known(s, m) \in SessionType
      /\ Known(s, m).open = session[s].open
      /\ Known(s, m).todo = T
      /\ Known(s, m).snap = session[s].snap
      /\ Known(s, m).mine = session[s].mine
      /\ Known(s, m).offers = O
      /\ Known(s, m).sawFile = session[s].sawFile
  BY <1>1, <1>2 DEF SessionType
<1> QED
  BY <1>1, <1>3 DEF T

LEMMA SpoiledSession ==
  ASSUME NEW s, NEW m \in Mail, session[s] \in SessionType
  PROVE  /\ Spoiled(s, m) \in SessionType
         /\ Spoiled(s, m).open = session[s].open
         /\ Spoiled(s, m).todo = session[s].todo \ {m}
         /\ Spoiled(s, m).snap = session[s].snap
         /\ Spoiled(s, m).mine = session[s].mine \cup {m}
         /\ Spoiled(s, m).offers = session[s].offers
         /\ Spoiled(s, m).sawFile = session[s].sawFile
BY DEF Spoiled, SessionType

LEMMA ResumedSession ==
  ASSUME NEW s, NEW m \in Mail, session[s] \in SessionType
  PROVE  /\ Resumed(s, m) \in SessionType
         /\ Resumed(s, m).open = session[s].open
         /\ Resumed(s, m).todo = session[s].todo \ {m}
         /\ Resumed(s, m).mine = {}
         /\ Resumed(s, m).offers = session[s].offers
<1>1. Recorded \in SUBSET Mail
  BY DEF Recorded
<1> QED
  BY <1>1 DEF Resumed, SessionType

LEMMA InboxInitIInv == InboxInit => InboxIInv
<1> SUFFICES ASSUME InboxInit PROVE InboxIInv
  OBVIOUS
<1> USE InboxAssumption, ClosedSession DEF InboxInit
<1>1. InboxTypeOK
  <2>1. session \in [Sessions -> SessionType]
    BY Zenon
  <2>2. inboxFaults \in 0..MaxInboxFaults
    OBVIOUS
  <2>3. /\ box \in [Mail -> {"absent", "unread", "processed"}]
        /\ mailRow \in [Mail -> {"none", "broken", "whole"}]
        /\ quotes \in [Mail -> Nat]
    OBVIOUS
  <2>4. /\ kind \in [Mail -> Kinds] /\ imap \in BOOLEAN /\ filed \in BOOLEAN
        /\ overlap \in BOOLEAN /\ relayed \in SUBSET Mail
        /\ crossed \in SUBSET Sessions /\ spilt \in SUBSET Mail
    BY Zenon
  <2> QED
    BY <2>1, <2>2, <2>3, <2>4, Zenon DEF InboxTypeOK
<1>2. /\ ClosedIsEmpty /\ RelaysPushOne /\ AloneItSeesAll /\ ReadersMark
      /\ MarkedBeforeQuoted
  BY DEF ClosedIsEmpty, RelaysPushOne, AloneItSeesAll, ReadersMark,
         MarkedBeforeQuoted, Open, Sessions
<1>3. QuotedOnceAlone
  BY DEF QuotedOnceAlone
<1> QED
  BY <1>1, <1>2, <1>3 DEF InboxIInv

\* Once the calm is broken it does not come back.
LEMMA CalmBefore ==
  ASSUME InboxTypeOK, kind' = kind, overlap => overlap',
         inboxFaults' \in {inboxFaults, inboxFaults + 1}, Calm'
  PROVE  Calm
<1>1. inboxFaults \in Nat
  BY InboxAssumption DEF InboxTypeOK
<1> QED
  BY <1>1 DEF Calm, Ordinary, Mail

\* Marking, with a Message-ID and without a failure, marks one message.
LEMMA MarkingOne ==
  ASSUME InboxTypeOK, NEW s \in Sessions, NEW m \in Mail, Mark(s, m),
         kind' = kind, overlap' = overlap
  PROVE  /\ box' \in [Mail -> {"absent", "unread", "processed"}]
         /\ inboxFaults' \in 0..MaxInboxFaults
         /\ inboxFaults' \in {inboxFaults, inboxFaults + 1}
         /\ Calm' => \A k \in Mail :
              /\ k # m => box'[k] = box[k]
              /\ box'[k] \in {box[k], "processed"}
         /\ Calm' /\ s \in Relays => box' = box
         /\ Calm' /\ s \in Readers /\ box[m] # "absent" =>
              box'[m] = "processed"
<1>1. CASE s \in Relays
  BY <1>1, InboxAssumption DEF Mark, InboxTypeOK
<1>2. CASE s \in Readers /\ InboxFault /\ box' = box
  <2>1. inboxFaults' # 0 /\ inboxFaults' \in 0..MaxInboxFaults
    BY <1>2, InboxAssumption DEF InboxFault, InboxTypeOK
  <2> QED
    BY <1>2, <2>1 DEF InboxFault, InboxTypeOK, Calm
<1>3. CASE /\ s \in Readers /\ inboxFaults' = inboxFaults
           /\ MarkTargets(m) = {} /\ box' = box
  <2>1. Calm' => kind[m] # "anonymous"
    BY DEF Calm, Ordinary
  <2>2. ~Calm'
    BY <1>3, <2>1 DEF MarkTargets
  <2> QED
    BY <1>3, <2>2, InboxAssumption DEF InboxTypeOK
<1>4. ASSUME NEW S \in MarkTargets(m),
             s \in Readers, inboxFaults' = inboxFaults,
             box' = [k \in Mail |-> IF k \in S THEN "processed" ELSE box[k]]
      PROVE  /\ box' \in [Mail -> {"absent", "unread", "processed"}]
             /\ Calm' => S = {k \in {m} : box[k] # "absent"}
  <2>1. Calm' => kind[m] # "anonymous"
    BY DEF Calm, Ordinary
  <2> QED
    BY <1>4, <2>1 DEF MarkTargets, InboxTypeOK
<1>5. ASSUME NEW S \in MarkTargets(m),
             s \in Readers, inboxFaults' = inboxFaults,
             box' = [k \in Mail |-> IF k \in S THEN "processed" ELSE box[k]]
      PROVE  /\ Calm' => \A k \in Mail :
                  /\ k # m => box'[k] = box[k]
                  /\ box'[k] \in {box[k], "processed"}
             /\ Calm' /\ box[m] # "absent" => box'[m] = "processed"
  BY <1>4, <1>5
<1>6. s \in Readers => s \notin Relays
  BY InboxAssumption
<1>7. inboxFaults \in 0..MaxInboxFaults
  BY DEF InboxTypeOK
<1>8. CASE \E S \in MarkTargets(m) :
             /\ s \in Readers /\ inboxFaults' = inboxFaults
             /\ box' = [k \in Mail |-> IF k \in S THEN "processed" ELSE box[k]]
  BY <1>4, <1>5, <1>6, <1>7, <1>8
<1> QED
  BY <1>1, <1>2, <1>3, <1>8 DEF Mark

\* What the invariants say of one session that takes the place of another.
LEMMA SessionReplaced ==
  ASSUME InboxTypeOK, NEW s \in Sessions, NEW x \in SessionType,
         session' = [session EXCEPT ![s] = x]
  PROVE  /\ session' \in [Sessions -> SessionType]
         /\ session'[s] = x
         /\ \A o \in Sessions \ {s} : session'[o] = session[o]
         /\ Open(s)' = x.open
         /\ \A o \in Sessions \ {s} : Open(o)' = Open(o)
BY DEF InboxTypeOK, Open

\* A session meets a message, marks it and goes on to the next one, and the
\* message is recorded or in the session.
LEMMA MetKeeps ==
  ASSUME InboxIInv, LossTyped', NEW s \in Sessions, NEW m \in Mail,
         Receives(s, m), Stays,
         box' \in [Mail -> {"absent", "unread", "processed"}],
         inboxFaults' \in 0..MaxInboxFaults,
         inboxFaults' \in {inboxFaults, inboxFaults + 1},
         Calm' => \A k \in Mail :
           /\ k # m => box'[k] = box[k]
           /\ box'[k] \in {box[k], "processed"},
         NEW x \in SessionType, session' = [session EXCEPT ![s] = x],
         x.open, x.todo = session[s].todo \ {m}, x.snap = session[s].snap,
         x.mine \in {session[s].mine, session[s].mine \cup {m}},
         x.offers \subseteq session[s].offers \cup {m},
         x.sawFile = session[s].sawFile,
         Calm => m \in Recorded \cup x.mine,
         Calm' /\ s \in Readers => box'[m] = "processed" \/ m \notin x.offers
  PROVE  InboxIInv'
<1> USE DEF InboxIInv
<1>1. /\ session' \in [Sessions -> SessionType]
      /\ session'[s] = x
      /\ \A o \in Sessions \ {s} : session'[o] = session[o]
      /\ \A o \in Sessions \ {s} : Open(o)' = Open(o)
      /\ Open(s)'
  BY SessionReplaced
<1>2. Open(s) /\ m \in session[s].todo /\ session[s] \in SessionType
  BY DEF Receives, InboxTypeOK
<1>3. InboxTypeOK'
  BY <1>1 DEF InboxTypeOK, LossTyped, Stays
<1>4. ClosedIsEmpty'
  BY <1>1 DEF ClosedIsEmpty
<1>5. RelaysPushOne'
  <2>1. s \in Relays =>
          /\ x.todo \cap x.mine = {}
          /\ \A i, j \in x.todo \cup x.mine : i = j
          /\ x.todo \cup x.offers \subseteq relayed
    BY <1>2 DEF RelaysPushOne
  <2>2. \A o \in Relays : o \in Sessions
    BY DEF Sessions
  <2> QED
    BY <1>1, <2>1, <2>2 DEF RelaysPushOne, Stays
<1>6. AloneItSeesAll'
  <2>1. Recorded' = Recorded /\ filed' = filed /\ overlap' = overlap
    BY DEF Recorded, Stays
  <2> QED
    BY <1>1, <1>2, <2>1 DEF AloneItSeesAll
<1>7. Calm' => Calm
  BY CalmBefore DEF Stays
<1>9. ASSUME Calm', NEW r \in Readers
       PROVE  /\ \A k \in session'[r].todo : box'[k] = "unread"
              /\ \A k \in session'[r].offers : box'[k] = "processed"
  <2>1. /\ r \in Sessions /\ r \notin Relays
        /\ \A k \in session[r].todo : k \in Mail /\ box[k] = "unread"
        /\ \A k \in session[r].offers : k \in Mail /\ box[k] = "processed"
    BY <1>7, <1>9, InboxAssumption
       DEF ReadersMark, Sessions, InboxTypeOK, SessionType
  <2>2. CASE r = s
    BY <1>1, <1>2, <1>9, <2>1, <2>2
  <2>3. CASE r # s
    <3>1. session[r] = Closed
      BY <1>2, <1>7, <1>9, <2>1, <2>3
         DEF AloneItSeesAll, ClosedIsEmpty, Calm
    <3> QED
      BY <1>1, <2>1, <2>3, <3>1, ClosedSession
  <2> QED
    BY <2>2, <2>3
<1>10. ReadersMark'
  BY <1>9 DEF ReadersMark
<1>11. MarkedBeforeQuoted'
  <2> SUFFICES ASSUME Calm', NEW k \in Mail \ relayed
               PROVE  /\ quotes[k] > 0 => box'[k] = "processed"
                      /\ \A r \in Readers :
                           k \in session'[r].todo \cup session'[r].offers
                             => quotes[k] = 0
    BY DEF MarkedBeforeQuoted, Stays
  <2>1. quotes[k] > 0 => box'[k] = "processed"
    BY <1>7 DEF MarkedBeforeQuoted
  <2>2. ASSUME NEW r \in Readers,
               k \in session'[r].todo \cup session'[r].offers
        PROVE  quotes[k] = 0
    <3>1. k \in session[r].todo \cup session[r].offers
      <4>1. r \in Sessions
        BY DEF Sessions
      <4> QED
        BY <1>1, <1>2, <2>2, <4>1
    <3> QED
      BY <1>7, <3>1 DEF MarkedBeforeQuoted
  <2> QED
    BY <2>1, <2>2
<1>12. QuotedOnceAlone'
  BY <1>7 DEF QuotedOnceAlone, Calm, Stays
<1> QED
  BY <1>3, <1>4, <1>5, <1>6, <1>10, <1>11, <1>12

\* A session that marked the message it met had it from the unread mail.
LEMMA MarkedAndMet ==
  ASSUME InboxIInv, NEW s \in Sessions, NEW m \in Mail, Receives(s, m),
         Mark(s, m), Stays
  PROVE  /\ box' \in [Mail -> {"absent", "unread", "processed"}]
         /\ inboxFaults' \in 0..MaxInboxFaults
         /\ inboxFaults' \in {inboxFaults, inboxFaults + 1}
         /\ Calm' => \A k \in Mail :
              /\ k # m => box'[k] = box[k]
              /\ box'[k] \in {box[k], "processed"}
         /\ Calm' /\ s \in Readers => box'[m] = "processed"
<1>1. /\ box' \in [Mail -> {"absent", "unread", "processed"}]
      /\ inboxFaults' \in 0..MaxInboxFaults
      /\ inboxFaults' \in {inboxFaults, inboxFaults + 1}
      /\ Calm' => \A k \in Mail :
           /\ k # m => box'[k] = box[k]
           /\ box'[k] \in {box[k], "processed"}
      /\ Calm' /\ s \in Readers /\ box[m] # "absent" => box'[m] = "processed"
  BY MarkingOne DEF InboxIInv, Stays
<1>2. Calm' => Calm
  BY <1>1, CalmBefore DEF InboxIInv, Stays
<1>3. Calm /\ s \in Readers => box[m] = "unread"
  BY DEF InboxIInv, ReadersMark, Receives
<1> QED
  BY <1>1, <1>2, <1>3

LEMMA DuplicateKeeps ==
  ASSUME InboxIInv, LossTyped', NEW s \in Sessions, NEW m \in Mail,
         Duplicate(s, m)
  PROVE  InboxIInv'
<1>1. session[s] \in SessionType /\ Receives(s, m) /\ Mark(s, m) /\ Stays
  BY DEF InboxIInv, InboxTypeOK, Duplicate
<1>2. Calm => m \in Recorded \cup Known(s, m).mine
  BY <1>1, KnownSession
     DEF Calm, InboxIInv, AloneItSeesAll, Duplicate, Receives, Visible, Recorded
<1>3. Known(s, m).open
  BY <1>1, KnownSession DEF Receives, Open
<1> DEFINE x == Known(s, m)
<1>4. /\ x \in SessionType /\ x.todo = session[s].todo \ {m}
      /\ x.snap = session[s].snap
      /\ x.mine \in {session[s].mine, session[s].mine \cup {m}}
      /\ x.offers \subseteq session[s].offers \cup {m}
      /\ x.sawFile = session[s].sawFile
  BY <1>1, KnownSession
<1>5. x.open /\ (Calm => m \in Recorded \cup x.mine)
      /\ session' = [session EXCEPT ![s] = x]
  BY <1>2, <1>3 DEF Duplicate
<1> HIDE DEF x
<1>6. /\ box' \in [Mail -> {"absent", "unread", "processed"}]
      /\ inboxFaults' \in 0..MaxInboxFaults
      /\ inboxFaults' \in {inboxFaults, inboxFaults + 1}
      /\ Calm' => \A k \in Mail :
           /\ k # m => box'[k] = box[k]
           /\ box'[k] \in {box[k], "processed"}
      /\ Calm' /\ s \in Readers => box'[m] = "processed"
  BY <1>1, MarkedAndMet
<1> QED
  BY <1>1, <1>4, <1>5, <1>6, MetKeeps

LEMMA ReceiveKeeps ==
  ASSUME InboxIInv, LossTyped', NEW s \in Sessions, NEW m \in Mail,
         Receive(s, m)
  PROVE  InboxIInv'
<1>1. session[s] \in SessionType /\ Receives(s, m) /\ Mark(s, m) /\ Stays
  BY DEF InboxIInv, InboxTypeOK, Receive
<1>2. m \in Recorded \cup Received(s, m).mine
  BY <1>1, ReceivedSession
<1>3. Received(s, m).open
  BY <1>1, ReceivedSession DEF Receives, Open
<1>4. session' = [session EXCEPT ![s] = Received(s, m)]
  BY DEF Receive
<1> DEFINE x == Received(s, m)
<1>5. /\ x \in SessionType /\ x.todo = session[s].todo \ {m}
      /\ x.snap = session[s].snap
      /\ x.mine \in {session[s].mine, session[s].mine \cup {m}}
      /\ x.offers \subseteq session[s].offers \cup {m}
      /\ x.sawFile = session[s].sawFile
  BY <1>1, ReceivedSession
<1>6. x.open /\ (Calm => m \in Recorded \cup x.mine)
      /\ session' = [session EXCEPT ![s] = x]
  BY <1>2, <1>3, <1>4
<1> HIDE DEF x
<1>7. /\ box' \in [Mail -> {"absent", "unread", "processed"}]
      /\ inboxFaults' \in 0..MaxInboxFaults
      /\ inboxFaults' \in {inboxFaults, inboxFaults + 1}
      /\ Calm' => \A k \in Mail :
           /\ k # m => box'[k] = box[k]
           /\ box'[k] \in {box[k], "processed"}
      /\ Calm' /\ s \in Readers => box'[m] = "processed"
  BY <1>1, MarkedAndMet
<1> QED
  BY <1>1, <1>5, <1>6, <1>7, MetKeeps

\* A poll that goes on after an attachment was refused keeps the row and does
\* not mark the message.
LEMMA SpoilKeeps ==
  ASSUME InboxIInv, LossTyped', NEW s \in Readers, NEW m \in Mail,
         BreakOff(s, m)
  PROVE  InboxIInv'
<1>1. s \in Sessions
  BY DEF Sessions
<1>2. session[s] \in SessionType /\ Receives(s, m) /\ Stays
  BY <1>1 DEF InboxIInv, InboxTypeOK, BreakOff
<1>3. box' = box /\ inboxFaults' = inboxFaults
  BY DEF BreakOff
<1>4. /\ box' \in [Mail -> {"absent", "unread", "processed"}]
      /\ inboxFaults' \in 0..MaxInboxFaults
      /\ inboxFaults' \in {inboxFaults, inboxFaults + 1}
      /\ \A k \in Mail : box'[k] = box[k]
  BY <1>3, InboxAssumption DEF InboxIInv, InboxTypeOK
<1>5. Calm' => m \notin Spoiled(s, m).offers
  <2>1. Calm' => Calm
    BY <1>2, <1>4, CalmBefore DEF InboxIInv, Stays
  <2> QED
    BY <1>2, <2>1, SpoiledSession DEF InboxIInv, ReadersMark, Receives
<1>6. m \in Recorded \cup Spoiled(s, m).mine /\ Spoiled(s, m).open
  BY <1>2, SpoiledSession DEF Receives, Open
<1>7. session' = [session EXCEPT ![s] = Spoiled(s, m)]
  BY DEF BreakOff
<1> QED
  BY <1>1, <1>2, <1>4, <1>5, <1>6, <1>7, SpoiledSession, MetKeeps

\* A session ends without a commit; in the calm it had marked nothing that is
\* not recorded.
LEMMA EndedKeeps ==
  ASSUME InboxIInv, LossTyped', NEW s \in Sessions, Stays, box' = box,
         session' = [session EXCEPT ![s] = Closed],
         inboxFaults' \in 0..MaxInboxFaults,
         inboxFaults' \in {inboxFaults, inboxFaults + 1},
         Calm' => \A m \in session[s].mine : box[m] # "processed"
  PROVE  InboxIInv'
<1> USE DEF InboxIInv
<1>1. /\ session' \in [Sessions -> SessionType]
      /\ session'[s] = Closed
      /\ \A o \in Sessions \ {s} : session'[o] = session[o]
      /\ \A o \in Sessions \ {s} : Open(o)' = Open(o)
      /\ ~Open(s)'
  BY SessionReplaced, ClosedSession
<1>2. InboxTypeOK'
  BY <1>1 DEF InboxTypeOK, LossTyped, Stays
<1>3. ClosedIsEmpty'
  BY <1>1 DEF ClosedIsEmpty
<1>4. \A o \in Sessions :
        /\ session'[o].todo \subseteq session[o].todo
        /\ session'[o].mine \subseteq session[o].mine
        /\ session'[o].offers \subseteq session[o].offers
  BY <1>1, ClosedSession
<1>5. (\A o \in Relays : o \in Sessions) /\ (\A o \in Readers : o \in Sessions)
  BY DEF Sessions
<1>6. RelaysPushOne'
  <2> SUFFICES ASSUME NEW o \in Relays
               PROVE  /\ session'[o].todo \cap session'[o].mine = {}
                      /\ \A i, j \in session'[o].todo \cup session'[o].mine :
                           i = j
                      /\ session'[o].todo \cup session'[o].offers
                           \subseteq relayed
    BY DEF RelaysPushOne, Stays
  <2> QED
    BY <1>4, <1>5 DEF RelaysPushOne
<1>7. Recorded' = Recorded /\ filed' = filed /\ overlap' = overlap
  BY DEF Recorded, Stays
<1>8. AloneItSeesAll'
  BY <1>1, <1>7 DEF AloneItSeesAll
<1>9. Calm' => Calm
  BY CalmBefore DEF Stays
<1>11. ReadersMark'
  BY <1>4, <1>5, <1>9 DEF ReadersMark
<1>12. MarkedBeforeQuoted'
  BY <1>4, <1>5, <1>9 DEF MarkedBeforeQuoted, Stays
<1>13. QuotedOnceAlone'
  BY <1>9 DEF QuotedOnceAlone, Calm, Stays
<1> QED
  BY <1>2, <1>3, <1>6, <1>8, <1>11, <1>12, <1>13

\* A request whose attachment is refused had inserted nothing before.
LEMMA RefusedPushKeeps ==
  ASSUME InboxIInv, LossTyped', NEW s \in Relays, NEW m \in Mail,
         BreakOff(s, m)
  PROVE  InboxIInv'
<1>1. s \in Sessions /\ s \notin Readers
  BY InboxAssumption DEF Sessions
<1>2. session[s].mine = {}
  BY DEF InboxIInv, RelaysPushOne, BreakOff, Receives
<1>3. Stays /\ box' = box /\ inboxFaults' = inboxFaults
      /\ session' = [session EXCEPT ![s] = Closed]
  BY <1>1 DEF BreakOff
<1>4. inboxFaults \in 0..MaxInboxFaults
  BY DEF InboxIInv, InboxTypeOK
<1> QED
  BY <1>1, <1>2, <1>3, <1>4, EndedKeeps

\* Alone, a session finds every key and the shared document free or seen.
LEMMA AloneNothingIsRefused ==
  ASSUME InboxIInv, NEW s \in Sessions, NEW m \in Mail, Receives(s, m), Calm
  PROVE  /\ Visible(s) = Recorded \cup session[s].mine
         /\ ~KeyHeld(s, m)
         /\ FileReady(s)
         /\ kind[m] # "anonymous"
<1>1. /\ session[s].snap = Recorded
      /\ session[s].sawFile = filed
      /\ Others(s) = {}
  BY DEF InboxIInv, AloneItSeesAll, Receives, Calm, Others
<1>2. filed \in BOOLEAN
  BY DEF InboxIInv, InboxTypeOK
<1> QED
  BY <1>1, <1>2 DEF Visible, KeyHeld, FileReady, Calm, Ordinary

LEMMA RefuseKeeps ==
  ASSUME InboxIInv, LossTyped', NEW s \in Sessions, NEW m \in Mail,
         Refuse(s, m)
  PROVE  InboxIInv'
<1>1. ~Calm
  BY AloneNothingIsRefused DEF Refuse, Recorded
<1>2. inboxFaults \in 0..MaxInboxFaults
  BY DEF InboxIInv, InboxTypeOK
<1>3. ~Calm'
  BY <1>1, <1>2, CalmBefore DEF Refuse, Stays, InboxIInv
<1> QED
  BY <1>2, <1>3, EndedKeeps DEF Refuse

LEMMA LoseSessionKeeps ==
  ASSUME InboxIInv, LossTyped', NEW s \in Sessions, LoseSession(s)
  PROVE  InboxIInv'
<1>1. inboxFaults' \in 0..MaxInboxFaults /\ inboxFaults' # 0
  BY InboxAssumption DEF LoseSession, InboxFault, InboxIInv, InboxTypeOK
<1>2. ~Calm'
  BY <1>1 DEF Calm
<1> QED
  BY <1>1, <1>2, EndedKeeps DEF LoseSession, InboxFault

\* A document committed since the session began shows that it is not alone.
LEMMA DiscardKeeps ==
  ASSUME InboxIInv, LossTyped', NEW s \in Sessions, NEW m \in Mail,
         Discard(s, m)
  PROVE  InboxIInv'
<1> USE DEF InboxIInv
<1>1. overlap /\ overlap' /\ ~Calm'
  BY DEF Discard, AloneItSeesAll, Receives, Stays, Calm, InboxTypeOK
<1>2. session[s] \in SessionType
  BY DEF InboxTypeOK
<1>3. /\ session' \in [Sessions -> SessionType]
      /\ session'[s] = Resumed(s, m)
      /\ \A o \in Sessions \ {s} : session'[o] = session[o]
      /\ \A o \in Sessions \ {s} : Open(o)' = Open(o)
      /\ Open(s)'
  BY <1>2, ResumedSession, SessionReplaced DEF Discard, Receives, Open
<1>4. InboxTypeOK'
  <2>1. /\ box' \in [Mail -> {"absent", "unread", "processed"}]
        /\ inboxFaults' \in 0..MaxInboxFaults
    BY MarkingOne DEF Discard, Stays
  <2> QED
    BY <1>3, <2>1 DEF InboxTypeOK, LossTyped, Discard, Stays
<1>5. ClosedIsEmpty'
  BY <1>3 DEF ClosedIsEmpty
<1>6. RelaysPushOne'
  <2>1. (\A o \in Relays : o \in Sessions) /\ relayed' = relayed
    BY DEF Sessions, Discard, Stays
  <2>2. s \in Relays =>
          /\ session'[s].todo \cap session'[s].mine = {}
          /\ \A i, j \in session'[s].todo \cup session'[s].mine : i = j
          /\ session'[s].todo \cup session'[s].offers \subseteq relayed
    BY <1>2, <1>3, ResumedSession DEF RelaysPushOne
  <2> QED
    BY <1>3, <2>1, <2>2 DEF RelaysPushOne
<1>7. /\ AloneItSeesAll' /\ ReadersMark' /\ MarkedBeforeQuoted'
      /\ QuotedOnceAlone'
  BY <1>1 DEF AloneItSeesAll, ReadersMark, MarkedBeforeQuoted, QuotedOnceAlone
<1> QED
  BY <1>4, <1>5, <1>6, <1>7

LEMMA CommitSessionKeeps ==
  ASSUME InboxIInv, LossTyped', NEW s \in Sessions, CommitSession(s)
  PROVE  InboxIInv'
<1> USE DEF InboxIInv
<1>1. /\ session' \in [Sessions -> SessionType]
      /\ session'[s] = Closed
      /\ \A o \in Sessions \ {s} : session'[o] = session[o]
      /\ \A o \in Sessions \ {s} : Open(o)' = Open(o)
      /\ ~Open(s)'
  BY SessionReplaced, ClosedSession DEF CommitSession
<1>2. /\ Open(s) /\ session[s] \in SessionType
      /\ UNCHANGED <<kind, imap, box, relayed, overlap, inboxFaults>>
  BY DEF CommitSession, InboxTypeOK
<1>3. InboxTypeOK'
  <2>1. mailRow' \in [Mail -> {"none", "broken", "whole"}]
    BY DEF CommitSession, InboxTypeOK
  <2>2. quotes' \in [Mail -> Nat]
    BY DEF CommitSession, InboxTypeOK
  <2>3. filed' \in BOOLEAN
    BY <1>2, Zenon DEF CommitSession, InboxTypeOK, SessionType
  <2> QED
    BY <1>1, <1>2, <2>1, <2>2, <2>3 DEF InboxTypeOK, LossTyped
<1>4. ClosedIsEmpty'
  BY <1>1 DEF ClosedIsEmpty
<1>5. \A o \in Sessions :
        /\ session'[o].todo \subseteq session[o].todo
        /\ session'[o].mine \subseteq session[o].mine
        /\ session'[o].offers \subseteq session[o].offers
  BY <1>1, ClosedSession
<1>6. (\A o \in Relays : o \in Sessions) /\ (\A o \in Readers : o \in Sessions)
  BY DEF Sessions
<1>7. RelaysPushOne'
  <2> SUFFICES ASSUME NEW o \in Relays
               PROVE  /\ session'[o].todo \cap session'[o].mine = {}
                      /\ \A i, j \in session'[o].todo \cup session'[o].mine :
                           i = j
                      /\ session'[o].todo \cup session'[o].offers
                           \subseteq relayed
    BY <1>2 DEF RelaysPushOne
  <2> QED
    BY <1>5, <1>6 DEF RelaysPushOne
<1>8. Calm' <=> Calm
  BY <1>2 DEF Calm, Ordinary
<1>9. AloneItSeesAll'
  <2>1. ~overlap => \A o \in Sessions : ~Open(o)'
    BY <1>1, <1>2 DEF AloneItSeesAll
  <2> QED
    BY <1>2, <2>1 DEF AloneItSeesAll
<1>10. \A k \in Mail :
         k \in Recorded \/ k \in session[s].mine => k \in Recorded'
  BY <1>2 DEF Recorded, CommitSession, InboxTypeOK
<1>12. ReadersMark'
  BY <1>2, <1>5, <1>6, <1>8 DEF ReadersMark
<1>13. ASSUME Calm, NEW k \in Mail \ relayed, quotes'[k] # quotes[k]
       PROVE  /\ quotes[k] = 0 /\ quotes'[k] = 1 /\ box[k] = "processed"
              /\ \A r \in Readers :
                   k \notin session'[r].todo \cup session'[r].offers
  <2>1. k \in session[s].offers /\ quotes'[k] = quotes[k] + 1
    BY <1>13 DEF CommitSession, InboxTypeOK
  <2>2. s \in Readers
    BY <2>1 DEF RelaysPushOne, Sessions
  <2>3. quotes[k] = 0 /\ box[k] = "processed"
    BY <1>13, <2>1, <2>2 DEF MarkedBeforeQuoted, ReadersMark
  <2>4. ASSUME NEW r \in Readers
        PROVE  session'[r] = Closed
    <3>1. r \in Sessions
      BY <1>6
    <3> QED
      BY <1>1, <1>2, <1>13, <3>1 DEF AloneItSeesAll, ClosedIsEmpty, Calm
  <2> QED
    BY <2>1, <2>3, <2>4, ClosedSession
<1>14. MarkedBeforeQuoted'
  <2> SUFFICES ASSUME Calm, NEW k \in Mail \ relayed
               PROVE  /\ quotes'[k] > 0 => box[k] = "processed"
                      /\ \A r \in Readers :
                           k \in session'[r].todo \cup session'[r].offers
                             => quotes'[k] = 0
    BY <1>2, <1>8 DEF MarkedBeforeQuoted
  <2>1. CASE quotes'[k] = quotes[k]
    BY <1>5, <1>6, <2>1 DEF MarkedBeforeQuoted
  <2>2. CASE quotes'[k] # quotes[k]
    BY <1>13, <2>2
  <2> QED
    BY <2>1, <2>2
<1>15. QuotedOnceAlone'
  <2> SUFFICES ASSUME Calm, NEW k \in Mail \ relayed
               PROVE  quotes'[k] <= 1
    BY <1>2, <1>8 DEF QuotedOnceAlone, Calm
  <2>1. quotes[k] <= 1
    BY DEF QuotedOnceAlone, Calm
  <2> QED
    BY <1>13, <2>1
<1> QED
  BY <1>3, <1>4, <1>7, <1>9, <1>12, <1>14, <1>15

\* A session begins: from unread mail it polls, or with one message that is
\* pushed.
LEMMA OpenSessionKeeps ==
  ASSUME InboxIInv, LossTyped', NEW s \in Sessions, NEW todo \in SUBSET Mail,
         OpenSession(s, todo), relayed \subseteq relayed',
         relayed' \in SUBSET Mail,
         s \in Readers => todo \subseteq Unread,
         s \in Relays =>
           todo \subseteq relayed' /\ \A i, j \in todo : i = j
  PROVE  InboxIInv'
<1> USE DEF InboxIInv
<1>1. filed \in BOOLEAN
  BY DEF InboxTypeOK
<1>2. /\ session' \in [Sessions -> SessionType]
      /\ session'[s] = Opened(todo)
      /\ \A o \in Sessions \ {s} : session'[o] = session[o]
      /\ \A o \in Sessions \ {s} : Open(o)' = Open(o)
      /\ Open(s)'
  <2> DEFINE x == Opened(todo)
  <2>1. session' = [session EXCEPT ![s] = x]
    BY DEF OpenSession
  <2>2. x \in SessionType /\ x.open
    BY <1>1, OpenedSession
  <2> HIDE DEF x
  <2>3. /\ session' \in [Sessions -> SessionType]
        /\ session'[s] = x
        /\ \A o \in Sessions \ {s} : session'[o] = session[o]
        /\ \A o \in Sessions \ {s} : Open(o)' = Open(o)
        /\ Open(s)'
    BY <2>1, <2>2, SessionReplaced
  <2> QED
    BY <2>3 DEF x
<1>3. /\ UNCHANGED <<kind, imap, box, mailRow, filed, quotes, inboxFaults>>
      /\ overlap' \in BOOLEAN
      /\ overlap => overlap'
      /\ Recorded' = Recorded
      /\ ~overlap' => \A o \in Sessions \ {s} : ~Open(o)
  <2>1. overlap' = (overlap \/ Others(s) # {}) /\ overlap \in BOOLEAN
    BY DEF OpenSession, InboxTypeOK
  <2>2. UNCHANGED <<kind, imap, box, mailRow, filed, quotes, inboxFaults>>
    BY DEF OpenSession
  <2>3. overlap' \in BOOLEAN /\ (overlap => overlap')
    BY <2>1, Zenon
  <2>4. ~overlap' => \A o \in Sessions \ {s} : ~Open(o)
    BY <2>1 DEF Others
  <2> QED
    BY <2>2, <2>3, <2>4 DEF Recorded
<1>4. InboxTypeOK'
  BY <1>2, <1>3 DEF InboxTypeOK, LossTyped
<1>5. ClosedIsEmpty'
  BY <1>2 DEF ClosedIsEmpty
<1>6. RelaysPushOne'
  <2>1. \A o \in Relays : o \in Sessions
    BY DEF Sessions
  <2>2. s \in Relays =>
          /\ session'[s].todo \cap session'[s].mine = {}
          /\ \A i, j \in session'[s].todo \cup session'[s].mine : i = j
          /\ session'[s].todo \cup session'[s].offers \subseteq relayed'
    BY <1>1, <1>2, OpenedSession
  <2> QED
    BY <1>2, <2>1, <2>2 DEF RelaysPushOne
<1>7. AloneItSeesAll'
  BY <1>1, <1>2, <1>3, OpenedSession DEF AloneItSeesAll
<1>8. Calm' => Calm
  BY <1>3 DEF Calm, Ordinary
<1>10. \A r \in Readers :
         /\ r \in Sessions
         /\ r = s => /\ session'[r].todo \subseteq Unread
                     /\ session'[r].offers = {}
         /\ r # s => session'[r] = session[r]
  BY <1>1, <1>2, OpenedSession DEF Sessions
<1>11. ReadersMark'
  BY <1>3, <1>8, <1>10 DEF ReadersMark, Unread
<1>12. MarkedBeforeQuoted'
  <2> SUFFICES ASSUME Calm', NEW k \in Mail \ relayed'
               PROVE  /\ quotes[k] > 0 => box[k] = "processed"
                      /\ \A r \in Readers :
                           k \in session'[r].todo \cup session'[r].offers
                             => quotes[k] = 0
    BY <1>3 DEF MarkedBeforeQuoted
  <2>1. k \in Mail \ relayed /\ quotes[k] \in Nat
    BY DEF InboxTypeOK
  <2>2. quotes[k] > 0 => box[k] = "processed"
    BY <1>8, <2>1 DEF MarkedBeforeQuoted
  <2>3. k \in Unread => quotes[k] = 0
    BY <2>1, <2>2 DEF Unread
  <2> QED
    BY <1>8, <1>10, <2>1, <2>2, <2>3 DEF MarkedBeforeQuoted
<1>13. QuotedOnceAlone'
  BY <1>3, <1>8 DEF QuotedOnceAlone, Calm
<1> QED
  BY <1>4, <1>5, <1>6, <1>7, <1>11, <1>12, <1>13

LEMMA PollKeeps ==
  ASSUME InboxIInv, LossTyped', NEW s \in Readers, Poll(s)
  PROVE  InboxIInv'
<1>1. s \in Sessions /\ s \notin Relays
  BY InboxAssumption DEF Sessions
<1>2. Fetched \subseteq Unread /\ Fetched \in SUBSET Mail
  BY DEF Fetched, Unread
<1>3. relayed' = relayed /\ relayed \in SUBSET Mail
  BY DEF Poll, InboxIInv, InboxTypeOK
<1> QED
  BY <1>1, <1>2, <1>3, OpenSessionKeeps DEF Poll

LEMMA PushKeeps ==
  ASSUME InboxIInv, LossTyped', NEW s \in Relays, NEW m \in Mail,
         Push(s, m)
  PROVE  InboxIInv'
<1>1. s \in Sessions /\ s \notin Readers
  BY InboxAssumption DEF Sessions
<1>2. relayed' = relayed \cup {m} /\ relayed \in SUBSET Mail
  BY DEF Push, InboxIInv, InboxTypeOK
<1> QED
  BY <1>1, <1>2, OpenSessionKeeps DEF Push

LEMMA ArriveKeeps ==
  ASSUME InboxIInv, LossTyped', NEW m \in Mail, Arrive(m)
  PROVE  InboxIInv'
<1> USE DEF InboxIInv
<1>1. /\ UNCHANGED <<kind, imap, mailRow, filed, quotes, session, relayed,
                     overlap, crossed, spilt, inboxFaults>>
      /\ Recorded' = Recorded /\ (Calm' <=> Calm)
  BY DEF Arrive, Recorded, Calm, Ordinary
<1>2. /\ box' \in [Mail -> {"absent", "unread", "processed"}]
      /\ \A k \in Mail : box'[k] = "processed" <=> box[k] = "processed"
      /\ \A k \in Mail : box[k] = "unread" => box'[k] = "unread"
  BY DEF Arrive, InboxTypeOK
<1>3. InboxTypeOK'
  BY <1>1, <1>2 DEF InboxTypeOK, LossTyped
<1>4. ClosedIsEmpty' /\ RelaysPushOne' /\ AloneItSeesAll'
  BY <1>1 DEF ClosedIsEmpty, RelaysPushOne, AloneItSeesAll, Open
<1>5. QuotedOnceAlone'
  BY <1>1, <1>2 DEF QuotedOnceAlone, Open, Calm, Ordinary
<1>6. ReadersMark' /\ MarkedBeforeQuoted'
  <2>1. \A r \in Readers :
          session[r].todo \subseteq Mail /\ session[r].offers \subseteq Mail
    BY DEF InboxTypeOK, SessionType, Sessions
  <2> QED
    BY <1>1, <1>2, <2>1 DEF ReadersMark, MarkedBeforeQuoted
<1> QED
  BY <1>3, <1>4, <1>5, <1>6

LEMMA InboxStutter ==
  ASSUME InboxIInv, LossTyped', UNCHANGED inboxVars
  PROVE  InboxIInv'
<1>1. UNCHANGED <<kind, imap, box, mailRow, filed, quotes, session, relayed,
                  overlap, crossed, spilt, inboxFaults>>
  BY DEF inboxVars
<1>2. Recorded' = Recorded /\ (Calm' <=> Calm)
  BY <1>1 DEF Recorded, Calm, Ordinary
<1>3. /\ InboxTypeOK' /\ ClosedIsEmpty' /\ RelaysPushOne'
  BY <1>1 DEF InboxIInv, InboxTypeOK, ClosedIsEmpty, RelaysPushOne, Open
<1>4. /\ AloneItSeesAll' /\ ReadersMark' /\ MarkedBeforeQuoted'
  BY <1>1, <1>2 DEF InboxIInv, AloneItSeesAll, ReadersMark,
                    MarkedBeforeQuoted, Open
<1>5. QuotedOnceAlone'
  BY <1>1, <1>2 DEF InboxIInv, QuotedOnceAlone, Open, Calm,
                    Ordinary
<1> QED
  BY <1>3, <1>4, <1>5 DEF InboxIInv

LEMMA HandleKeeps ==
  ASSUME InboxIInv, LossTyped', NEW s \in Sessions, Handle(s)
  PROVE  InboxIInv'
<1>1. ASSUME NEW m \in Mail, BreakOff(s, m) PROVE InboxIInv'
  BY <1>1, SpoilKeeps, RefusedPushKeeps DEF Sessions
<1> QED
  BY <1>1, DuplicateKeeps, ReceiveKeeps, DiscardKeeps, RefuseKeeps,
     CommitSessionKeeps DEF Handle

LEMMA LossStep ==
  ASSUME InboxTypeOK, [InboxNext]_inboxVars
  PROVE  LossTyped'
<1> USE DEF LossTyped, Stays
<1>1. /\ crossed \in SUBSET Sessions /\ spilt \in SUBSET Mail
      /\ \A s \in Sessions : session[s].mine \in SUBSET Mail
      /\ Readers \subseteq Sessions /\ Relays \subseteq Sessions
  BY DEF InboxTypeOK, SessionType, Sessions
<1>2. ASSUME NEW s \in Sessions, NEW todo, OpenSession(s, todo)
      PROVE  LossTyped'
  BY <1>1, <1>2 DEF OpenSession, Others
<1>3. ASSUME NEW s \in Sessions, NEW M \in SUBSET Mail, Spill(s, M),
             UNCHANGED crossed
      PROVE  LossTyped'
  BY <1>1, <1>3 DEF Spill
<1>4. ASSUME NEW s \in Sessions, NEW m \in Mail,
             \/ Duplicate(s, m) \/ Receive(s, m) \/ BreakOff(s, m)
             \/ Discard(s, m) \/ Refuse(s, m)
      PROVE  LossTyped'
  BY <1>1, <1>3, <1>4 DEF Duplicate, Receive, BreakOff, Discard, Refuse
<1>5. ASSUME NEW s \in Sessions, CommitSession(s) \/ LoseSession(s)
      PROVE  LossTyped'
  BY <1>1, <1>5 DEF CommitSession, LoseSession
<1>6. ASSUME NEW m \in Mail, Arrive(m) PROVE LossTyped'
  BY <1>1, <1>6 DEF Arrive
<1>7. CASE UNCHANGED inboxVars
  BY <1>1, <1>7 DEF inboxVars
<1> QED
  BY <1>1, <1>2, <1>4, <1>5, <1>6, <1>7 DEF InboxNext, Handle, Poll, Push

LEMMA InboxStepKeepsIInv == InboxIInv /\ [InboxNext]_inboxVars => InboxIInv'
<1> SUFFICES ASSUME InboxIInv, [InboxNext]_inboxVars PROVE InboxIInv'
  OBVIOUS
<1>1. \A s : s \in Readers \/ s \in Relays => s \in Sessions
  BY DEF Sessions
<1>2. LossTyped'
  BY LossStep DEF InboxIInv
<1> QED
  BY <1>1, <1>2, InboxStutter, ArriveKeeps, PollKeeps, PushKeeps, HandleKeeps,
     LoseSessionKeeps DEF InboxNext

-----------------------------------------------------------------------------
(* Inbox: what sessions beside each other take from one another *)

SnapIsRecorded == \A s \in Sessions : session[s].snap \subseteq Recorded

\* A session no other was open beside is alone, and sees what is committed.
UncrossedSeesAll ==
  \A s \in Sessions \ crossed : Open(s) =>
    /\ \A o \in Sessions : Open(o) => o = s
    /\ session[s].snap = Recorded
    /\ session[s].sawFile = filed

LossIInv == SnapIsRecorded /\ UncrossedSeesAll /\ LossIsAccounted

\* With a Message-ID, marking a message marks no other.
LEMMA MarkingKeepsOthers ==
  ASSUME Ordinary, NEW s \in Sessions, NEW m \in Mail, Mark(s, m)
  PROVE  \A k \in Mail : box'[k] = "processed" => box[k] = "processed" \/ k = m
<1>1. \A S \in MarkTargets(m) : S \subseteq {m}
  BY DEF Ordinary, MarkTargets
<1> QED
  BY <1>1 DEF Mark

\* A message that was met and marked is recorded, in the session's hands, or
\* spilt.
LEMMA MetIsAccounted ==
  ASSUME InboxIInv, LossIInv, NEW s \in Sessions, NEW m \in Mail,
         Receives(s, m), Mark(s, m), Stays, spilt \subseteq spilt',
         NEW x \in SessionType, session' = [session EXCEPT ![s] = x],
         x.open, x.snap \subseteq Recorded,
         Ordinary => session[s].mine \cup {m}
                       \subseteq Recorded \cup x.mine \cup spilt',
         s \notin crossed =>
           x.snap = session[s].snap /\ x.sawFile = session[s].sawFile
  PROVE  LossIInv'
<1> USE DEF LossIInv
<1>1. /\ session'[s] = x
      /\ \A o \in Sessions \ {s} : session'[o] = session[o]
      /\ \A o \in Sessions \ {s} : Open(o)' = Open(o)
      /\ Open(s)' /\ Open(s)
  BY SessionReplaced DEF InboxIInv, Receives
<1>2. /\ Recorded' = Recorded /\ filed' = filed /\ crossed' = crossed
      /\ Ordinary' = Ordinary
  BY DEF Stays, Recorded, Ordinary
<1>3. SnapIsRecorded'
  BY <1>1, <1>2 DEF SnapIsRecorded
<1>4. UncrossedSeesAll'
  BY <1>1, <1>2 DEF UncrossedSeesAll
<1>5. LossIsAccounted'
  <2> SUFFICES ASSUME Ordinary, NEW k \in Mail, box'[k] = "processed"
               PROVE  \/ k \in Recorded'
                      \/ \E o \in Sessions : Open(o)' /\ k \in session'[o].mine
                      \/ k \in spilt'
    BY <1>2 DEF LossIsAccounted
  <2>1. CASE k \in session[s].mine \cup {m}
    BY <1>1, <1>2, <2>1
  <2>2. CASE k \notin session[s].mine \cup {m}
    <3>1. box[k] = "processed"
      BY <2>2, MarkingKeepsOthers
    <3>2. \/ k \in Recorded \/ k \in spilt
          \/ \E o \in Sessions \ {s} : Open(o) /\ k \in session[o].mine
      BY <2>2, <3>1 DEF LossIsAccounted
    <3> QED
      BY <1>1, <1>2, <3>2
  <2> QED
    BY <2>1, <2>2
<1> QED
  BY <1>3, <1>4, <1>5

\* A session that ends without a commit spills what it had marked, or had
\* nothing.
LEMMA EndIsAccounted ==
  ASSUME InboxIInv, LossIInv, NEW s \in Sessions, Open(s), Stays,
         spilt \subseteq spilt', box' = box,
         session' = [session EXCEPT ![s] = Closed],
         Ordinary => session[s].mine \subseteq spilt'
  PROVE  LossIInv'
<1> USE DEF LossIInv
<1>1. /\ session'[s] = Closed
      /\ \A o \in Sessions \ {s} : session'[o] = session[o]
      /\ \A o \in Sessions \ {s} : Open(o)' = Open(o)
      /\ ~Open(s)'
  BY SessionReplaced, ClosedSession DEF InboxIInv
<1>2. /\ Recorded' = Recorded /\ filed' = filed /\ crossed' = crossed
      /\ Ordinary' = Ordinary
  BY DEF Stays, Recorded, Ordinary
<1>3. SnapIsRecorded'
  BY <1>1, <1>2, ClosedSession DEF SnapIsRecorded
<1>4. UncrossedSeesAll'
  BY <1>1, <1>2 DEF UncrossedSeesAll
<1>5. LossIsAccounted'
  <2> SUFFICES ASSUME Ordinary, NEW k \in Mail, box[k] = "processed"
               PROVE  \/ k \in Recorded'
                      \/ \E o \in Sessions : Open(o)' /\ k \in session'[o].mine
                      \/ k \in spilt'
    BY <1>2 DEF LossIsAccounted
  <2>1. \/ k \in Recorded \/ k \in spilt \/ k \in session[s].mine
        \/ \E o \in Sessions \ {s} : Open(o) /\ k \in session[o].mine
    BY DEF LossIsAccounted
  <2> QED
    BY <1>1, <1>2, <2>1
<1> QED
  BY <1>3, <1>4, <1>5

\* Only beside another session are rows refused or found to be in the way.
LEMMA OnlyCrossedAreRefused ==
  ASSUME InboxIInv, LossIInv, Ordinary, NEW s \in Sessions, NEW m \in Mail,
         Refuse(s, m) \/ Discard(s, m)
  PROVE  s \in crossed
<1> SUFFICES ASSUME s \notin crossed PROVE FALSE
  OBVIOUS
<1>1. Receives(s, m) /\ Open(s)
  BY DEF Refuse, Discard, Receives
<1>2. /\ session[s].snap = Recorded /\ session[s].sawFile = filed
      /\ Others(s) = {}
  BY <1>1 DEF LossIInv, UncrossedSeesAll, Others
<1>3. /\ kind[m] # "anonymous" /\ ~KeyHeld(s, m) /\ FileReady(s)
      /\ Recorded \subseteq Visible(s)
  <2>1. filed \in BOOLEAN
    BY DEF InboxIInv, InboxTypeOK
  <2> QED
    BY <1>2, <2>1 DEF Ordinary, KeyHeld, FileReady, Visible
<1>4. ~Discard(s, m)
  BY <1>2 DEF Discard
<1>5. ~Refuse(s, m)
  BY <1>3 DEF Refuse, Recorded
<1> QED
  BY <1>4, <1>5

LEMMA HandleIsAccounted ==
  ASSUME InboxIInv, LossIInv, NEW s \in Sessions, Handle(s)
  PROVE  LossIInv'
<1>1. /\ session[s] \in SessionType
      /\ Recorded \in SUBSET Mail
      /\ session[s].snap \subseteq Recorded
  BY DEF InboxIInv, InboxTypeOK, LossIInv, SnapIsRecorded, Recorded
<1>2. ASSUME NEW m \in Mail, Duplicate(s, m) PROVE LossIInv'
  <2> DEFINE x == Known(s, m)
  <2>1. /\ x \in SessionType /\ x.open = session[s].open
        /\ x.snap = session[s].snap /\ x.mine = session[s].mine
        /\ x.sawFile = session[s].sawFile
    BY <1>1, KnownSession
  <2>2. m \in Recorded \cup session[s].mine
    BY <1>1, <1>2 DEF Duplicate, Visible, Recorded
  <2>3. /\ session' = [session EXCEPT ![s] = x] /\ spilt' = spilt
        /\ Receives(s, m) /\ Mark(s, m) /\ Stays
    BY <1>2 DEF Duplicate
  <2>4. x.open
    BY <2>1, <2>3 DEF Receives, Open
  <2> HIDE DEF x
  <2>5. /\ x.snap \subseteq Recorded /\ spilt \subseteq spilt'
        /\ session[s].mine \cup {m} \subseteq Recorded \cup x.mine \cup spilt'
    BY <1>1, <2>1, <2>2, <2>3
  <2> QED
    BY <2>1, <2>3, <2>4, <2>5, MetIsAccounted
<1>3. ASSUME NEW m \in Mail, Receive(s, m) PROVE LossIInv'
  <2> DEFINE x == Received(s, m)
  <2>1. /\ x \in SessionType /\ x.open = session[s].open
        /\ x.snap = session[s].snap /\ x.mine = session[s].mine \cup {m}
        /\ x.sawFile = session[s].sawFile
    BY <1>1, ReceivedSession
  <2>2. /\ session' = [session EXCEPT ![s] = x] /\ spilt' = spilt
        /\ Receives(s, m) /\ Mark(s, m) /\ Stays
    BY <1>3 DEF Receive
  <2>3. x.open
    BY <2>1, <2>2 DEF Receives, Open
  <2> HIDE DEF x
  <2> QED
    BY <1>1, <2>1, <2>2, <2>3, MetIsAccounted
<1>4. ASSUME NEW m \in Mail, Discard(s, m) PROVE LossIInv'
  <2> DEFINE x == Resumed(s, m)
  <2>1. x \in SessionType /\ x.open = session[s].open
    BY <1>1, ResumedSession
  <2>2. x.snap = Recorded
    BY <1>1 DEF Resumed, SessionType
  <2>3. /\ session' = [session EXCEPT ![s] = x]
        /\ Receives(s, m) /\ Mark(s, m) /\ Stays
        /\ Spill(s, session[s].mine \cup {m})
    BY <1>4 DEF Discard
  <2>4. x.open /\ spilt \subseteq spilt'
    BY <2>1, <2>3 DEF Receives, Open, Spill
  <2>5. s \in crossed
    <3>1. Open(s) /\ filed /\ ~session[s].sawFile
      BY <1>4 DEF Discard, Receives
    <3> QED
      BY <3>1 DEF LossIInv, UncrossedSeesAll
  <2>6. session[s].mine \cup {m} \subseteq spilt'
    BY <2>3, <2>5 DEF Spill
  <2> HIDE DEF x
  <2> QED
    BY <1>1, <2>1, <2>2, <2>3, <2>4, <2>5, <2>6, MetIsAccounted
<1>5. ASSUME NEW m \in Mail, Refuse(s, m) PROVE LossIInv'
  <2>1. /\ Open(s) /\ Stays /\ box' = box
        /\ session' = [session EXCEPT ![s] = Closed]
        /\ Spill(s, session[s].mine)
    BY <1>5 DEF Refuse, Receives
  <2>2. Ordinary => s \in crossed
    BY <1>5, OnlyCrossedAreRefused
  <2>3. /\ spilt \subseteq spilt'
        /\ Ordinary => session[s].mine \subseteq spilt'
    BY <2>1, <2>2 DEF Spill
  <2> QED
    BY <2>1, <2>3, EndIsAccounted
<1>6. ASSUME NEW m \in Mail, BreakOff(s, m) PROVE LossIInv'
  <2>1. /\ Receives(s, m) /\ Open(s) /\ Stays /\ box' = box
        /\ spilt' = spilt
        /\ session' = [session EXCEPT
             ![s] = IF s \in Readers THEN Spoiled(s, m) ELSE Closed]
    BY <1>6 DEF BreakOff, Receives
  <2>2. CASE s \in Relays
    <3>1. s \notin Readers /\ session[s].mine = {}
      BY <2>1, <2>2, InboxAssumption DEF InboxIInv, RelaysPushOne, Receives
    <3> QED
      BY <2>1, <3>1, EndIsAccounted
  <2>3. CASE s \in Readers
    <3> DEFINE x == Spoiled(s, m)
    <3>1. /\ x \in SessionType /\ x.open = session[s].open
          /\ x.snap = session[s].snap /\ x.mine = session[s].mine \cup {m}
          /\ x.sawFile = session[s].sawFile
      BY <1>1, SpoiledSession
    <3>2. session' = [session EXCEPT ![s] = x] /\ x.open
      BY <2>1, <2>3, <3>1 DEF Open
    <3> HIDE DEF x
    <3>3. /\ session'[s] = x
          /\ \A o \in Sessions \ {s} : session'[o] = session[o]
          /\ \A o \in Sessions \ {s} : Open(o)' = Open(o)
          /\ Open(s)'
      BY <3>1, <3>2, SessionReplaced DEF InboxIInv
    <3>4. /\ Recorded' = Recorded /\ filed' = filed /\ crossed' = crossed
          /\ Ordinary' = Ordinary
      BY <2>1 DEF Stays, Recorded, Ordinary
    <3>5. SnapIsRecorded' /\ UncrossedSeesAll'
      BY <2>1, <3>1, <3>3, <3>4
         DEF LossIInv, SnapIsRecorded, UncrossedSeesAll
    <3>6. LossIsAccounted'
      BY <2>1, <3>1, <3>3, <3>4 DEF LossIInv, LossIsAccounted
    <3> QED
      BY <3>5, <3>6 DEF LossIInv
  <2> QED
    BY <2>2, <2>3 DEF Sessions
<1>7. CASE CommitSession(s)
  <2>1. /\ session'[s] = Closed
        /\ \A o \in Sessions \ {s} : session'[o] = session[o]
        /\ \A o \in Sessions \ {s} : Open(o)' = Open(o)
        /\ ~Open(s)'
    BY <1>7, SessionReplaced, ClosedSession DEF CommitSession, InboxIInv
  <2>2. /\ Recorded \cup session[s].mine \subseteq Recorded'
        /\ Open(s)
        /\ UNCHANGED <<kind, box, crossed, spilt>> /\ Ordinary' = Ordinary
    BY <1>1, <1>7 DEF CommitSession, Recorded, Ordinary, InboxIInv,
                      InboxTypeOK, SessionType
  <2>3. SnapIsRecorded'
    BY <2>1, <2>2, ClosedSession DEF LossIInv, SnapIsRecorded
  <2>4. UncrossedSeesAll'
    BY <2>1, <2>2 DEF LossIInv, UncrossedSeesAll
  <2>5. LossIsAccounted'
    <3> SUFFICES ASSUME Ordinary, NEW k \in Mail, box[k] = "processed"
                 PROVE  \/ k \in Recorded'
                        \/ \E o \in Sessions :
                             Open(o)' /\ k \in session'[o].mine
                        \/ k \in spilt'
      BY <2>2 DEF LossIsAccounted
    <3>1. \/ k \in Recorded \/ k \in spilt \/ k \in session[s].mine
          \/ \E o \in Sessions \ {s} : Open(o) /\ k \in session[o].mine
      BY DEF LossIInv, LossIsAccounted
    <3> QED
      BY <2>1, <2>2, <3>1
  <2> QED
    BY <2>3, <2>4, <2>5 DEF LossIInv
<1> QED
  BY <1>2, <1>3, <1>4, <1>5, <1>6, <1>7 DEF Handle

LEMMA OpenIsAccounted ==
  ASSUME InboxIInv, LossIInv, NEW s \in Sessions, NEW todo \in SUBSET Mail,
         OpenSession(s, todo)
  PROVE  LossIInv'
<1>1. filed \in BOOLEAN
  BY DEF InboxIInv, InboxTypeOK
<1>2. /\ session'[s] = Opened(todo)
      /\ \A o \in Sessions \ {s} : session'[o] = session[o]
      /\ \A o \in Sessions \ {s} : Open(o)' = Open(o)
      /\ ~Open(s)
  BY <1>1, OpenedSession, SessionReplaced DEF OpenSession, InboxIInv
<1>3. /\ Recorded' = Recorded /\ filed' = filed /\ Ordinary' = Ordinary
      /\ UNCHANGED <<box, spilt>>
  BY DEF OpenSession, Recorded, Ordinary
<1>4. SnapIsRecorded'
  BY <1>1, <1>2, <1>3, OpenedSession DEF LossIInv, SnapIsRecorded
<1>5. UncrossedSeesAll'
  <2>1. CASE Others(s) = {}
    <3>1. \A o \in Sessions : Open(o)' => o = s
      BY <1>2, <2>1 DEF Others
    <3> QED
      BY <1>1, <1>2, <1>3, <3>1, OpenedSession DEF UncrossedSeesAll
  <2>2. CASE Others(s) # {}
    <3>1. \A o \in Sessions : Open(o)' => o \in crossed'
      BY <1>2, <2>2 DEF OpenSession, Others
    <3> QED
      BY <3>1 DEF UncrossedSeesAll
  <2> QED
    BY <2>1, <2>2
<1>6. LossIsAccounted'
  <2>1. \A o \in Sessions : Open(o) => Open(o)' /\ session'[o] = session[o]
    BY <1>2
  <2> QED
    BY <1>3, <2>1 DEF LossIInv, LossIsAccounted
<1> QED
  BY <1>4, <1>5, <1>6 DEF LossIInv

LEMMA LossStepKeeps ==
  ASSUME InboxIInv, LossIInv, [InboxNext]_inboxVars
  PROVE  LossIInv'
<1>1. \A s : s \in Readers \/ s \in Relays => s \in Sessions
  BY DEF Sessions
<1>2. ASSUME NEW s \in Readers, Poll(s) PROVE LossIInv'
  BY <1>1, <1>2, OpenIsAccounted DEF Poll, Fetched, Unread
<1>3. ASSUME NEW s \in Relays, NEW m \in Mail, Push(s, m) PROVE LossIInv'
  BY <1>1, <1>3, OpenIsAccounted DEF Push
<1>4. ASSUME NEW s \in Sessions, LoseSession(s) PROVE LossIInv'
  BY <1>4, EndIsAccounted DEF LoseSession
<1>5. ASSUME NEW m \in Mail, Arrive(m) PROVE LossIInv'
  <2>1. /\ UNCHANGED <<kind, mailRow, filed, session, crossed, spilt>>
        /\ \A k \in Mail : box'[k] = "processed" => box[k] = "processed"
    BY <1>5 DEF Arrive, InboxIInv, InboxTypeOK
  <2> QED
    BY <2>1 DEF LossIInv, SnapIsRecorded, UncrossedSeesAll, LossIsAccounted,
                Recorded, Ordinary, Open
<1>6. CASE UNCHANGED inboxVars
  BY <1>6 DEF inboxVars, LossIInv, SnapIsRecorded, UncrossedSeesAll,
              LossIsAccounted, Recorded, Ordinary, Open
<1> QED
  BY <1>1, <1>2, <1>3, <1>4, <1>5, <1>6, HandleIsAccounted DEF InboxNext

LEMMA InboxInvariance == InboxSpec => []InboxIInv
BY InboxInitIInv, InboxStepKeepsIInv, PTL DEF InboxSpec

\* The mailbox and its sessions are well typed for any number of readers,
\* requests and messages.
THEOREM InboxTypeCorrect == InboxSpec => []InboxTypeOK
<1>1. InboxIInv => InboxTypeOK
  BY DEF InboxIInv
<1> QED
  BY <1>1, InboxInvariance, PTL

\* As long as sessions do not overlap and none fails, a message that came by
\* the mailbox alone becomes one quotation at most, however often known
\* messages are read again.
THEOREM AloneQuotedOnce == InboxSpec => []QuotedOnceAlone
<1>1. InboxIInv => QuotedOnceAlone
  BY DEF InboxIInv
<1> QED
  BY <1>1, InboxInvariance, PTL

\* A reply that is marked as read is lost only from a session that hit a fault
\* or that another one ran beside, for any number of readers, requests and
\* messages.
THEOREM LossesAreAccounted == InboxSpec => []LossIsAccounted
<1>1. InboxInit => LossIInv
  BY ClosedSession
     DEF InboxInit, LossIInv, SnapIsRecorded, UncrossedSeesAll,
         LossIsAccounted, Open
<1>2. InboxIInv /\ LossIInv /\ [InboxNext]_inboxVars => LossIInv'
  BY LossStepKeeps
<1>3. LossIInv => LossIsAccounted
  BY DEF LossIInv
<1> QED
  BY <1>1, <1>2, <1>3, InboxInvariance, PTL DEF InboxSpec
=============================================================================
