------------------------ MODULE CaseRecords_proofs -------------------------
(***************************************************************************)
(* What is proved of the records a case rests on, for any constants: of    *)
(* the case repository (CaseStore), of the requisition, the documents and  *)
(* the requirements on file (CaseFile), of what is taken from the master   *)
(* data and given back to it (SourcingBasis), and of the technical verdict *)
(* on each supplier (TechnicalVerdict).  The four share nothing but the    *)
(* lemmas about numbers below.                                             *)
(***************************************************************************)
EXTENDS CaseStore, CaseFile, SourcingBasis, TechnicalVerdict,
        FiniteSetTheorems, SequenceTheorems, WellFoundedInduction, TLAPS

-----------------------------------------------------------------------------
(* Lemmas about numbers *)

\* Every set of naturals has a least one: the way to an induction on numbers
\* here is the least counterexample.
LEMMA LeastNatural ==
  ASSUME NEW S \in SUBSET Nat, S # {}
  PROVE  \E x \in S : \A y \in S : x <= y
<1> DEFINE R == {ss \in Nat \X Nat : ss[1] < ss[2]}
<1>1. OpToRel(<, Nat) = R
  BY Zenon DEF OpToRel
<1>2. IsWellFoundedOn(R, Nat)
  BY <1>1, NatLessThanWellFounded
<1> HIDE DEF R
<1>3. PICK x \in S : \A y \in S : <<y, x>> \notin R
  BY <1>2, WFMin
<1>4. \A y \in S : ~(y < x)
  BY <1>3 DEF R
<1> QED BY <1>4

\* A set of numbers up to n has a greatest one.
LEMMA GreatestNatural ==
  ASSUME NEW n \in Nat, NEW S \in SUBSET (1..n), S # {}
  PROVE  \E x \in S : \A y \in S : y <= x
<1> DEFINE D == {n - x : x \in S}
<1>1. \A x \in S : n - x \in Nat
  OBVIOUS
<1>2. D \in SUBSET Nat /\ D # {}
  BY <1>1
<1>3. PICK d \in D : \A e \in D : d <= e
  BY <1>2, LeastNatural
<1>4. PICK x \in S : d = n - x
  BY <1>3
<1>5. \A y \in S : n - x <= n - y
  BY <1>3, <1>4
<1> QED BY <1>5

\* A finite nonempty set of numbers has a greatest one.
LEMMA GreatestOfFinite ==
  ASSUME NEW S \in SUBSET Nat, IsFiniteSet(S), S # {}
  PROVE  \E x \in S : \A y \in S : y <= x
<1> DEFINE Bad == {T \in FiniteSubsetsOf(S) :
                     T # {} /\ \A x \in T : \E y \in T : ~(y <= x)}
<1>1. SUFFICES ASSUME Bad # {} PROVE FALSE
  <2>1. S \in FiniteSubsetsOf(S)
    BY DEF FiniteSubsetsOf
  <2> QED BY <1>1, <2>1
<1>2. PICK T \in Bad :
        \A U \in Bad : <<U, T>> \notin StrictSubsetOrdering(S)
  BY <1>1, FS_StrictSubsetOrderingWellFounded, WFMin
<1>3. T \subseteq S /\ IsFiniteSet(T) /\ T # {}
  BY DEF FiniteSubsetsOf
<1>4. PICK x \in T : TRUE
  BY <1>3
<1> DEFINE U == T \ {x}
<1>5. U \notin Bad
  <2>1. <<U, T>> \in StrictSubsetOrdering(S)
    BY <1>3, <1>4 DEF StrictSubsetOrdering
  <2> QED BY <1>2, <2>1
<1>6. U \in FiniteSubsetsOf(S)
  BY <1>3, FS_RemoveElement DEF FiniteSubsetsOf
<1>7. CASE U = {}
  BY <1>3, <1>4, <1>7
<1>8. CASE U # {}
  <2>1. PICK z \in U : \A y \in U : y <= z
    BY <1>5, <1>6, <1>8
  <2>2. \E w \in T : \A y \in T : y <= w
    <3>1. x \in Nat /\ z \in Nat /\ T \subseteq Nat
      BY <1>3, <1>4, <2>1
    <3>2. CASE x <= z
      BY <2>1, <3>1, <3>2
    <3>3. CASE z <= x
      <4>1. \A y \in T : y <= x
        BY <2>1, <3>1, <3>3
      <4> QED BY <1>4, <4>1
    <3> QED BY <3>1, <3>2, <3>3
  <2> QED BY <2>2
<1> QED BY <1>7, <1>8

\* Min is what its name says.
LEMMA MinOfNaturals ==
  ASSUME NEW S \in SUBSET Nat, S # {}
  PROVE  /\ Min(S) \in S
         /\ \A y \in S : Min(S) <= y
<1>1. \E x \in S : \A y \in S : x =< y
  BY LeastNatural
<1> QED BY <1>1 DEF Min

-----------------------------------------------------------------------------
(* CaseStore *)

\* The changes a session has got to.
Begun(c) == {c} \X (1..(call[c].step - 1))

\* The row object of an open session is the row it was loaded from with the
\* changes made since, and nothing else.
SessionsBuildOnTheirBase ==
  \A c \in Callers : call[c].pc = "open" =>
    Promise!Adds(Promise!Wanted(c, call[c].base.log) \cap Begun(c),
                 call[c].base.log, call[c].row.log)

Done == {c \in Callers : call[c].pc = "done"}

Places(ch, l) == {i \in DOMAIN l : l[i] = ch}

\* A transition was made once, any other change once per fault and once by the
\* attempt whose caller was told.
CountedIn(log, mishaps, told) ==
  \A c \in Callers : \A i \in DOMAIN Plan[c] :
    Cardinality(Places(<<c, i>>, log)) <=
      IF Plan[c][i] THEN 1 ELSE mishaps + (IF c \in told THEN 1 ELSE 0)

\* This is so of what is committed, and of what an open session was loaded
\* from, whether or not that is committed still.
CommitsAreCounted ==
  /\ CountedIn(stored.log, faults, Done)
  /\ \A d \in Callers :
       call[d].pc = "open" => CountedIn(call[d].base.log, faults, Done)

\* An attempt that has not begun has made no change.
IdleIsFresh == \A c \in Callers : call[c].pc = "idle" => call[c].step = 1

IInv ==
  TypeOK /\ IdleIsFresh /\ SessionsBuildOnTheirBase /\ CommitsAreCounted

-----------------------------------------------------------------------------
(* Lemmas about sequences of changes *)

LEMMA ChangeIsPair ==
  /\ \A c \in Callers : /\ Plan[c] \in Seq(BOOLEAN)
                        /\ Len(Plan[c]) \in Nat
                        /\ DOMAIN Plan[c] = 1..Len(Plan[c])
  /\ \A c \in Callers : \A i \in DOMAIN Plan[c] : <<c, i>> \in Changes
  /\ \A ch \in Changes : /\ ch[1] \in Callers
                         /\ ch[2] \in DOMAIN Plan[ch[1]]
                         /\ ch = <<ch[1], ch[2]>>
<1>1. \A c \in Callers : Plan[c] \in Seq(BOOLEAN)
  BY StoreAssumption
<1>2. \A c \in Callers : /\ Len(Plan[c]) \in Nat
                         /\ DOMAIN Plan[c] = 1..Len(Plan[c])
  BY <1>1
<1>3. \A c \in Callers : \A i \in DOMAIN Plan[c] : <<c, i>> \in Changes
  BY DEF Changes
<1>4. ASSUME NEW ch \in Changes
      PROVE  /\ ch[1] \in Callers
             /\ ch[2] \in DOMAIN Plan[ch[1]]
             /\ ch = <<ch[1], ch[2]>>
  <2>1. PICK c \in Callers : ch \in {c} \X DOMAIN Plan[c]
    BY DEF Changes
  <2> QED
    BY <2>1
<1> QED
  BY <1>1, <1>2, <1>3, <1>4

\* What a sequence holds once changes were added to it.
LEMMA MadeWithAdded ==
  ASSUME NEW l \in Seq(Changes), NEW m \in Seq(Changes), NEW S,
         Promise!Adds(S, l, m)
  PROVE  Promise!MadeIn(m) = Promise!MadeIn(l) \cup S
<1>1. /\ Len(l) \in Nat /\ Len(m) \in Nat
      /\ DOMAIN l = 1..Len(l) /\ DOMAIN m = 1..Len(m)
      /\ Len(l) <= Len(m)
  BY DEF Promise!Adds
<1>2. DOMAIN m = DOMAIN l \cup ((Len(l) + 1)..Len(m))
  BY <1>1
<1>3. \A i \in DOMAIN l : m[i] = l[i]
  BY <1>1 DEF Promise!Adds
<1>4. S = {m[i] : i \in (Len(l) + 1)..Len(m)}
  BY DEF Promise!Adds
<1> QED
  BY <1>2, <1>3, <1>4 DEF Promise!MadeIn

\* Nothing added.
LEMMA AddsNothing ==
  ASSUME NEW l \in Seq(Changes)
  PROVE  Promise!Adds({}, l, l)
<1>1. Len(l) \in Nat
  OBVIOUS
<1>2. (Len(l) + 1)..Len(l) = {}
  BY <1>1
<1> QED
  BY <1>1, <1>2 DEF Promise!Adds

\* One change more, later in the plan than those before it.
LEMMA AddsOneMore ==
  ASSUME NEW l \in Seq(Changes), NEW m \in Seq(Changes), NEW S,
         NEW x \in Changes,
         Promise!Adds(S, l, m),
         \A y \in S : y[2] < x[2]
  PROVE  Promise!Adds(S \cup {x}, l, Append(m, x))
<1> DEFINE n == Append(m, x)
<1>1. /\ Len(l) \in Nat /\ Len(m) \in Nat /\ Len(l) <= Len(m)
      /\ Len(n) = Len(m) + 1
      /\ n[Len(m) + 1] = x
      /\ \A i \in 1..Len(m) : n[i] = m[i]
  BY DEF Promise!Adds
<1> HIDE DEF n
<1>2. \A i \in 1..Len(l) : n[i] = l[i]
  BY <1>1 DEF Promise!Adds
<1>3. (Len(l) + 1)..Len(n) = ((Len(l) + 1)..Len(m)) \cup {Len(m) + 1}
  BY <1>1
<1>4. \A i \in (Len(l) + 1)..Len(m) : n[i] = m[i] /\ m[i] \in S
  BY <1>1 DEF Promise!Adds
<1>5. S = {m[i] : i \in (Len(l) + 1)..Len(m)}
  BY DEF Promise!Adds
<1>6. S \cup {x} = {n[i] : i \in (Len(l) + 1)..Len(n)}
  <2>1. {n[i] : i \in (Len(l) + 1)..Len(n)} =
          {n[i] : i \in (Len(l) + 1)..Len(m)} \cup {n[Len(m) + 1]}
    BY <1>3
  <2>2. {n[i] : i \in (Len(l) + 1)..Len(m)} = S
    BY <1>4, <1>5
  <2> QED
    BY <2>1, <2>2, <1>1
<1>7. ASSUME NEW i \in (Len(l) + 1)..Len(n), NEW j \in (Len(l) + 1)..Len(n),
             i < j
      PROVE  n[i][2] < n[j][2]
  <2>1. i \in (Len(l) + 1)..Len(m)
    BY <1>1, <1>7
  <2>2. CASE j = Len(m) + 1
    BY <2>1, <2>2, <1>1, <1>4
  <2>3. CASE j # Len(m) + 1
    <3>1. j \in (Len(l) + 1)..Len(m)
      BY <2>3, <1>1
    <3>2. m[i][2] < m[j][2]
      BY <2>1, <3>1, <1>7 DEF Promise!Adds
    <3> QED
      BY <2>1, <3>1, <3>2, <1>4
  <2> QED
    BY <2>2, <2>3
<1> QED
  BY <1>1, <1>2, <1>6, <1>7 DEF Promise!Adds, n

LEMMA PlacesAreFinite ==
  ASSUME NEW l \in Seq(Changes), NEW ch
  PROVE  /\ IsFiniteSet(Places(ch, l))
         /\ Cardinality(Places(ch, l)) \in Nat
<1>1. IsFiniteSet(1..Len(l))
  BY FS_Interval
<1>2. Places(ch, l) \subseteq 1..Len(l)
  BY DEF Places
<1> QED
  BY <1>1, <1>2, FS_Subset, FS_CardinalityType

\* Adding changes leaves the others where they are, and puts each of its own
\* in one more place.
LEMMA PlacesWithAdded ==
  ASSUME NEW l \in Seq(Changes), NEW m \in Seq(Changes), NEW S,
         Promise!Adds(S, l, m), NEW ch
  PROVE  /\ ch \notin S => Places(ch, m) = Places(ch, l)
         /\ ch \in S =>
              Cardinality(Places(ch, m)) = Cardinality(Places(ch, l)) + 1
<1>1. /\ Len(l) \in Nat /\ Len(m) \in Nat
      /\ DOMAIN l = 1..Len(l) /\ DOMAIN m = 1..Len(m)
      /\ Len(l) <= Len(m)
      /\ \A i \in 1..Len(l) : m[i] = l[i]
      /\ S = {m[i] : i \in (Len(l) + 1)..Len(m)}
  BY DEF Promise!Adds
<1>2. \A i, j \in (Len(l) + 1)..Len(m) : m[i] = m[j] => i = j
  <2> SUFFICES ASSUME NEW i \in (Len(l) + 1)..Len(m),
                      NEW j \in (Len(l) + 1)..Len(m), m[i] = m[j], i < j
               PROVE  FALSE
    BY <1>1
  <2>1. m[i][2] < m[j][2]
    BY DEF Promise!Adds
  <2>2. m[i] \in Changes
    BY <1>1
  <2>3. m[i][2] \in 1..Len(Plan[m[i][1]]) /\ Len(Plan[m[i][1]]) \in Nat
    BY <2>2, ChangeIsPair
  <2> QED
    BY <2>1, <2>3
<1>3. CASE ch \notin S
  <2>1. \A i \in DOMAIN m : m[i] = ch => i \in DOMAIN l
    BY <1>1, <1>3
  <2> QED
    BY <2>1, <1>1, <1>3 DEF Places
<1>4. CASE ch \in S
  <2>1. PICK p \in (Len(l) + 1)..Len(m) : m[p] = ch
    BY <1>1, <1>4
  <2>2. Places(ch, m) = Places(ch, l) \cup {p}
    <3>1. \A i \in DOMAIN m : m[i] = ch => i \in DOMAIN l \/ i = p
      BY <1>1, <1>2, <2>1
    <3>2. \A i \in DOMAIN l : i \in DOMAIN m /\ m[i] = l[i]
      BY <1>1
    <3>3. p \in DOMAIN m
      BY <1>1
    <3> QED
      BY <3>1, <3>2, <3>3, <2>1 DEF Places
  <2>3. p \notin Places(ch, l)
    BY <1>1 DEF Places
  <2> QED
    BY <2>2, <2>3, PlacesAreFinite, FS_AddElement, <1>4
<1> QED
  BY <1>3, <1>4

-----------------------------------------------------------------------------
(* Type correctness *)

LEMMA AttemptsPositive == \A c \in Callers : Attempts(c) \in Nat \ {0}
BY StoreAssumption DEF Attempts

LEMMA FreshIsTyped ==
  ASSUME NEW c \in Callers, NEW k \in 1..Attempts(c)
  PROVE  /\ Fresh(k) \in Call
         /\ Fresh(k).attempt = k
         /\ Fresh(k).step \in 1..(Len(Plan[c]) + 1)
<1>1. k \in Nat
  BY AttemptsPositive
<1>2. NewRow \in Row
  BY DEF NewRow, Row
<1>3. Len(Plan[c]) \in Nat
  BY ChangeIsPair
<1> QED
  BY <1>1, <1>2, <1>3 DEF Fresh, Call

LEMMA TypeInit == Init => TypeOK
<1> SUFFICES ASSUME Init PROVE TypeOK
  OBVIOUS
<1>1. NewRow \in Row
  BY DEF NewRow, Row
<1>2. \A c \in Callers : 1 \in 1..Attempts(c)
  BY AttemptsPositive
<1>3. call \in [Callers -> Call]
  BY <1>2, FreshIsTyped DEF Init
<1>4. \A c \in Callers : /\ call[c].attempt \in 1..Attempts(c)
                         /\ call[c].step \in 1..(Len(Plan[c]) + 1)
  BY <1>2, FreshIsTyped DEF Init
<1> QED
  BY <1>1, <1>3, <1>4, StoreAssumption DEF Init, TypeOK

\* What an open session holds.
LEMMA OpenCall ==
  ASSUME TypeOK, NEW c \in Callers
  PROVE  /\ call[c] \in Call
         /\ call[c].row \in Row /\ call[c].base \in Row
         /\ call[c].row.log \in Seq(Changes)
         /\ call[c].base.log \in Seq(Changes)
         /\ call[c].step \in Nat /\ call[c].step >= 1
         /\ call[c].step <= Len(Plan[c]) + 1
         /\ call[c].attempt \in 1..Attempts(c)
         /\ Len(Plan[c]) \in Nat
<1>1. call[c] \in Call
  BY DEF TypeOK
<1>2. Len(Plan[c]) \in Nat
  BY ChangeIsPair
<1>3. /\ call[c].attempt \in 1..Attempts(c)
      /\ call[c].step \in 1..(Len(Plan[c]) + 1)
  BY DEF TypeOK
<1> QED
  BY <1>1, <1>2, <1>3 DEF Call, Row

LEMMA LogReplaced ==
  ASSUME NEW row \in Row, NEW l \in Seq(Changes)
  PROVE  /\ [row EXCEPT !.log = l] \in Row
         /\ [row EXCEPT !.log = l].log = l
BY DEF Row

\* A change keeps the row a row.
LEMMA ChangedIsRow ==
  ASSUME TypeOK, NEW c \in Callers, call[c].step <= Len(Plan[c])
  PROVE  /\ <<c, call[c].step>> \in Changes
         /\ Changed(c, call[c].row) \in Row
         /\ Saved(Changed(c, call[c].row), call[c].row) \in Row
         /\ Saved(Changed(c, call[c].row), call[c].row).log
              = Changed(c, call[c].row).log
<1> DEFINE row == call[c].row
           x == <<c, call[c].step>>
<1>1. /\ row \in Row /\ row.log \in Seq(Changes)
      /\ row.version \in Nat \ {0}
      /\ call[c].step \in DOMAIN Plan[c]
  BY OpenCall, ChangeIsPair DEF Row
<1>2. x \in Changes
  BY <1>1, ChangeIsPair
<1>3. Append(row.log, x) \in Seq(Changes)
  BY <1>1, <1>2
<1>4. Changed(c, row) \in Row
  <2>1. [row EXCEPT !.log = Append(row.log, x)] \in Row
    BY <1>1, <1>3, LogReplaced
  <2>2. [version |-> row.version + 1, log |-> Append(row.log, x)] \in Row
    BY <1>1, <1>3 DEF Row
  <2> HIDE DEF row, x
  <2>3. \/ Changed(c, row) = [row EXCEPT !.log = Append(row.log, x)]
        \/ Changed(c, row) = row
        \/ Changed(c, row) =
             [version |-> row.version + 1, log |-> Append(row.log, x)]
    BY DEF Changed, x
  <2> QED
    BY <2>1, <2>2, <2>3, <1>1
<1>5. /\ Saved(Changed(c, row), row) \in Row
      /\ Saved(Changed(c, row), row).log = Changed(c, row).log
  BY <1>1, <1>4 DEF Saved, Larger, Row
<1> QED
  BY <1>2, <1>4, <1>5

\* What becomes of a call whose attempt has failed.
LEMMA TriedAgain ==
  ASSUME TypeOK, NEW c \in Callers, TryAgain(c)
  PROVE  /\ call' \in [Callers -> Call]
         /\ \A d \in Callers : /\ call'[d].attempt \in 1..Attempts(d)
                               /\ call'[d].step \in 1..(Len(Plan[d]) + 1)
         /\ \A d \in Callers \ {c} : call'[d] = call[d]
         /\ call'[c].pc \in {"idle", "failed"}
         /\ call'[c].pc = "idle" => call'[c].step = 1
<1>1. call \in [Callers -> Call]
  BY DEF TypeOK
<1>2. CASE call[c].attempt < Attempts(c)
  <2>1. call' = [call EXCEPT ![c] = Fresh(call[c].attempt + 1)]
    BY <1>2 DEF TryAgain
  <2>2. call[c].attempt + 1 \in 1..Attempts(c)
    BY <1>2, OpenCall, AttemptsPositive
  <2>3. /\ Fresh(call[c].attempt + 1).pc = "idle"
        /\ Fresh(call[c].attempt + 1).step = 1
    BY DEF Fresh
  <2> QED
    BY <1>1, <2>1, <2>2, <2>3, FreshIsTyped DEF TypeOK
<1>3. CASE ~(call[c].attempt < Attempts(c))
  <2> DEFINE failed == [call[c] EXCEPT !.pc = "failed"]
  <2>1. call' = [call EXCEPT ![c] = failed]
    BY <1>3 DEF TryAgain
  <2>2. /\ failed \in Call /\ failed.pc = "failed"
        /\ failed.attempt = call[c].attempt /\ failed.step = call[c].step
    BY <1>1 DEF Call
  <2> HIDE DEF failed
  <2> QED
    BY <1>1, <2>1, <2>2 DEF TypeOK
<1> QED
  BY <1>2, <1>3

LEMMA TypeStep == TypeOK /\ [Next]_vars => TypeOK'
<1> SUFFICES ASSUME TypeOK, [Next]_vars PROVE TypeOK'
  OBVIOUS
<1>1. ASSUME NEW c \in Callers, Begin(c) PROVE TypeOK'
  <2> DEFINE opened == [call[c] EXCEPT !.pc = "open", !.row = stored,
                                       !.base = stored]
  <2>1. call' = [call EXCEPT ![c] = opened]
    BY <1>1 DEF Begin
  <2>2. /\ opened \in Call /\ opened.attempt = call[c].attempt
        /\ opened.step = call[c].step
    BY OpenCall DEF TypeOK, Call
  <2> HIDE DEF opened
  <2> QED
    BY <1>1, <2>1, <2>2 DEF Begin, TypeOK
<1>2. ASSUME NEW c \in Callers, Change(c) PROVE TypeOK'
  <2> DEFINE held == Changed(c, call[c].row)
  <2>1. PICK row \in Row :
          call' = [call EXCEPT ![c] = [call[c] EXCEPT !.step = @ + 1,
                                                      !.row = row]]
    <3>1. call[c].step <= Len(Plan[c])
      BY <1>2 DEF Change
    <3>2. call' = [call EXCEPT ![c] =
                     [call[c] EXCEPT !.step = @ + 1,
                        !.row = IF held = @ THEN @ ELSE Saved(held, @)]]
      BY <1>2 DEF Change
    <3>3. (IF held = call[c].row THEN call[c].row
           ELSE Saved(held, call[c].row)) \in Row
      BY <3>1, OpenCall, ChangedIsRow
    <3> QED
      BY <3>2, <3>3
  <2>2. PICK n \in Nat, x \in Call : n = call[c].step + 1 /\ x = call[c]
    BY OpenCall
  <2> DEFINE moved == [x EXCEPT !.step = n, !.row = row]
  <2>3. /\ moved \in Call /\ moved.attempt = call[c].attempt
        /\ moved.step = n
    <3> HIDE DEF held
    <3>1. moved \in Call /\ moved.attempt = x.attempt /\ moved.step = n
      BY DEF Call
    <3> QED
      BY <3>1, <2>2
  <2>4. n \in 1..(Len(Plan[c]) + 1)
    BY <1>2, <2>2, OpenCall DEF Change
  <2>5. call' = [call EXCEPT ![c] = moved]
    BY <2>1, <2>2
  <2> HIDE DEF moved
  <2> QED
    BY <1>2, <2>5, <2>3, <2>4 DEF Change, TypeOK
<1>3. ASSUME NEW c \in Callers, Commit(c) PROVE TypeOK'
  <2> DEFINE done == [call[c] EXCEPT !.pc = "done"]
  <2>1. call' = [call EXCEPT ![c] = done]
    BY <1>3 DEF Commit
  <2>2. /\ done \in Call /\ done.attempt = call[c].attempt
        /\ done.step = call[c].step
    BY OpenCall DEF Call
  <2>3. stored' \in Row
    BY <1>3, OpenCall DEF Commit
  <2> HIDE DEF done
  <2> QED
    BY <1>3, <2>1, <2>2, <2>3 DEF Commit, TypeOK
<1>4. ASSUME NEW c \in Callers, CommitUnheard(c) PROVE TypeOK'
  <2>1. TryAgain(c)
    BY <1>4 DEF CommitUnheard
  <2>2. stored' \in Row /\ faults' \in 0..MaxFaults
    BY <1>4, OpenCall, StoreAssumption DEF CommitUnheard, MayFault, TypeOK
  <2> QED
    BY <1>4, <2>1, <2>2, TriedAgain DEF CommitUnheard, TypeOK
<1>5. ASSUME NEW c \in Callers, Abort(c) PROVE TypeOK'
  <2>1. TryAgain(c)
    BY <1>5 DEF Abort
  <2> QED
    BY <1>5, <2>1, TriedAgain DEF Abort, TypeOK
<1>6. ASSUME NEW c \in Callers, Break(c) PROVE TypeOK'
  <2>1. TryAgain(c)
    BY <1>6 DEF Break
  <2>2. faults' \in 0..MaxFaults
    BY <1>6, StoreAssumption DEF Break, MayFault, TypeOK
  <2> QED
    BY <1>6, <2>1, <2>2, TriedAgain DEF Break, TypeOK
<1>7. CASE UNCHANGED vars
  BY <1>7 DEF vars, TypeOK
<1> QED
  BY <1>1, <1>2, <1>3, <1>4, <1>5, <1>6, <1>7 DEF Next

\* Every state of the case store is well typed: what is committed and what a
\* session holds is always a row, and no call is attempted more often than
\* its caller allows.
THEOREM TypeCorrect == Spec => []TypeOK
BY TypeInit, TypeStep, PTL DEF Spec

-----------------------------------------------------------------------------
(* What a session builds *)

Outcome(c) == Promise!Wanted(c, call[c].base.log) \cap Begun(c)

\* A change is made if the call still wants it.
LEMMA ChangeAdds ==
  ASSUME TypeOK, NEW c \in Callers, call[c].step <= Len(Plan[c]),
         Promise!Adds(Outcome(c), call[c].base.log, call[c].row.log)
  PROVE  LET x == <<c, call[c].step>>
             log == Changed(c, call[c].row).log
         IN  /\ x \in Promise!Wanted(c, call[c].base.log) =>
                  Promise!Adds(Outcome(c) \cup {x}, call[c].base.log, log)
             /\ x \notin Promise!Wanted(c, call[c].base.log) =>
                  Changed(c, call[c].row) = call[c].row
<1> DEFINE x == <<c, call[c].step>>
           row == call[c].row
           base == call[c].base
<1>1. /\ row \in Row /\ row.log \in Seq(Changes)
      /\ base.log \in Seq(Changes)
      /\ call[c].step \in DOMAIN Plan[c] /\ call[c].step \in Nat
      /\ x \in Changes
  BY OpenCall, ChangeIsPair
<1>2. MadeIn(row.log) = Promise!MadeIn(base.log) \cup Outcome(c)
  BY <1>1, MadeWithAdded DEF MadeIn, Promise!MadeIn
<1>3. \A y \in Outcome(c) : y[2] < x[2] /\ y # x
  BY <1>1 DEF Outcome, Begun
<1>4. x \in Promise!Wanted(c, base.log)
        <=> ~Plan[c][call[c].step] \/ x \notin MadeIn(row.log)
  BY <1>1, <1>2, <1>3 DEF Promise!Wanted
<1>5. ASSUME x \in Promise!Wanted(c, base.log)
      PROVE  Promise!Adds(Outcome(c) \cup {x}, base.log, Changed(c, row).log)
  <2>1. Changed(c, row).log = Append(row.log, x)
    <3>1. CASE ~Plan[c][call[c].step]
      <4>1. Append(row.log, x) \in Seq(Changes)
        BY <1>1
      <4>2. Changed(c, row) = [row EXCEPT !.log = Append(row.log, x)]
        BY <3>1 DEF Changed
      <4> QED
        BY <4>1, <4>2, <1>1, LogReplaced
    <3>2. CASE Plan[c][call[c].step]
      <4>1. x \notin MadeIn(row.log)
        BY <3>2, <1>4, <1>5
      <4> QED
        BY <3>2, <4>1 DEF Changed
    <3> QED
      BY <3>1, <3>2
  <2> HIDE DEF x, row, base
  <2>2. Promise!Adds(Outcome(c), base.log, row.log)
    BY DEF row, base
  <2> QED
    BY <2>1, <2>2, <1>1, <1>3, AddsOneMore
<1>6. ASSUME x \notin Promise!Wanted(c, base.log)
      PROVE  Changed(c, row) = row
  BY <1>4, <1>6 DEF Changed
<1> QED
  BY <1>5, <1>6

\* A session whose changes have all been made has the outcome of the call, on
\* top of the row it was loaded from.
LEMMA ReadyBuilds ==
  ASSUME TypeOK, SessionsBuildOnTheirBase, NEW c \in Callers, ReadyToCommit(c)
  PROVE  Promise!Adds(Promise!Wanted(c, call[c].base.log), call[c].base.log,
                      call[c].row.log)
<1>1. call[c].pc = "open" /\ call[c].step = Len(Plan[c]) + 1
  BY OpenCall DEF ReadyToCommit
<1>2. Begun(c) = {c} \X DOMAIN Plan[c]
  BY <1>1, ChangeIsPair DEF Begun
<1>3. Promise!Wanted(c, call[c].base.log) \cap Begun(c)
        = Promise!Wanted(c, call[c].base.log)
  BY <1>2 DEF Promise!Wanted
<1> QED
  BY <1>1, <1>3 DEF SessionsBuildOnTheirBase

\* More faults and more callers who were told allow for more.
LEMMA CountsGrow ==
  ASSUME NEW log \in Seq(Changes), NEW f \in Nat, NEW g \in Nat, f <= g,
         NEW D, NEW E, D \subseteq E, CountedIn(log, f, D)
  PROVE  CountedIn(log, g, E)
<1> SUFFICES ASSUME NEW c \in Callers, NEW i \in DOMAIN Plan[c]
             PROVE  Cardinality(Places(<<c, i>>, log)) <=
                      IF Plan[c][i] THEN 1
                      ELSE g + (IF c \in E THEN 1 ELSE 0)
  BY DEF CountedIn
<1>1. Cardinality(Places(<<c, i>>, log)) \in Nat
  BY PlacesAreFinite
<1>2. Cardinality(Places(<<c, i>>, log)) <=
        IF Plan[c][i] THEN 1 ELSE f + (IF c \in D THEN 1 ELSE 0)
  BY DEF CountedIn
<1> QED
  BY <1>1, <1>2

\* The outcome of a call has each of its changes once more at most, which is
\* allowed for if its caller is told or a fault is why it is not.
LEMMA OutcomeIsCounted ==
  ASSUME TypeOK, SessionsBuildOnTheirBase, CommitsAreCounted,
         NEW c \in Callers, ReadyToCommit(c),
         NEW g \in Nat, NEW E, Done \subseteq E,
         (g = faults /\ c \in E) \/ g = faults + 1
  PROVE  CountedIn(call[c].row.log, g, E)
<1> DEFINE base == call[c].base.log
           made == call[c].row.log
<1>1. Promise!Adds(Promise!Wanted(c, base), base, made)
  BY ReadyBuilds
<1>2. base \in Seq(Changes) /\ made \in Seq(Changes)
  BY OpenCall
<1>3. CountedIn(base, faults, Done) /\ c \notin Done
  BY DEF ReadyToCommit, CommitsAreCounted, Done
<1>4. faults \in Nat
  BY StoreAssumption DEF TypeOK
<1> HIDE DEF base, made
<1> SUFFICES ASSUME NEW d \in Callers, NEW i \in DOMAIN Plan[d]
             PROVE  Cardinality(Places(<<d, i>>, made)) <=
                      IF Plan[d][i] THEN 1
                      ELSE g + (IF d \in E THEN 1 ELSE 0)
  BY DEF CountedIn, made
<1> DEFINE x == <<d, i>>
           before == Cardinality(Places(x, base))
           after == Cardinality(Places(x, made))
           most == IF Plan[d][i] THEN 1 ELSE g + (IF d \in E THEN 1 ELSE 0)
<1> SUFFICES after <= most
  OBVIOUS
<1>5. before \in Nat /\ after \in Nat
  BY <1>2, PlacesAreFinite
<1>6. before <= IF Plan[d][i] THEN 1
                ELSE faults + (IF d \in Done THEN 1 ELSE 0)
  BY <1>3 DEF CountedIn
<1>7. CASE x \notin Promise!Wanted(c, base)
  <2>1. after = before
    BY <1>1, <1>2, <1>7, PlacesWithAdded
  <2> HIDE DEF before, after
  <2> QED
    BY <1>4, <1>5, <1>6, <2>1
<1>8. CASE x \in Promise!Wanted(c, base)
  <2>1. d = c
    BY <1>8 DEF Promise!Wanted
  <2>2. after = before + 1
    BY <1>1, <1>2, <1>8, PlacesWithAdded
  <2>3. CASE Plan[d][i]
    <3>1. x \notin Promise!MadeIn(base)
      BY <1>8, <2>1, <2>3 DEF Promise!Wanted
    <3>2. Places(x, base) = {}
      BY <3>1 DEF Places, Promise!MadeIn
    <3>3. before = 0
      BY <3>2, FS_EmptySet
    <3> HIDE DEF before, after
    <3> QED
      BY <3>3, <2>2, <2>3
  <2>4. CASE ~Plan[d][i]
    <3> HIDE DEF before, after
    <3> QED
      BY <1>3, <1>4, <1>5, <1>6, <2>1, <2>2, <2>4
  <2> QED
    BY <2>3, <2>4
<1> QED
  BY <1>7, <1>8

-----------------------------------------------------------------------------
(* The inductive invariant *)

LEMMA InvInit == Init => IInv
<1> SUFFICES ASSUME Init PROVE IInv
  OBVIOUS
<1>1. TypeOK
  BY TypeInit
<1>2. SessionsBuildOnTheirBase /\ IdleIsFresh
  BY DEF Init, Fresh, SessionsBuildOnTheirBase, IdleIsFresh
<1>3. ASSUME NEW c \in Callers, NEW i \in DOMAIN Plan[c]
      PROVE  Cardinality(Places(<<c, i>>, stored.log)) = 0
  <2>1. Places(<<c, i>>, stored.log) = {}
    BY DEF Init, NewRow, Places
  <2> QED
    BY <2>1, FS_EmptySet
<1>4. CommitsAreCounted
  <2>1. faults = 0 /\ \A c \in Callers : call[c].pc = "idle"
    BY DEF Init, Fresh
  <2> QED
    BY <1>3, <2>1 DEF CommitsAreCounted, CountedIn
<1> QED
  BY <1>1, <1>2, <1>4 DEF IInv

\* A step of c leaves alone what the sessions of the others have built.
LEMMA OthersBuild ==
  ASSUME SessionsBuildOnTheirBase, NEW c \in Callers,
         \A d \in Callers \ {c} : call'[d] = call[d],
         call'[c].pc = "open" =>
           Promise!Adds(Outcome(c)', call'[c].base.log, call'[c].row.log)
  PROVE  SessionsBuildOnTheirBase'
<1> SUFFICES ASSUME NEW d \in Callers, call'[d].pc = "open"
             PROVE  Promise!Adds(Outcome(d)', call'[d].base.log,
                                 call'[d].row.log)
  BY DEF SessionsBuildOnTheirBase, Outcome
<1>1. CASE d = c
  BY <1>1
<1>2. CASE d # c
  <2>1. call'[d] = call[d]
    BY <1>2
  <2>2. Outcome(d)' = Outcome(d)
    BY <2>1 DEF Outcome, Begun
  <2>3. Promise!Adds(Outcome(d), call[d].base.log, call[d].row.log)
    BY <2>1 DEF SessionsBuildOnTheirBase, Outcome
  <2> QED
    BY <2>1, <2>2, <2>3
<1> QED
  BY <1>1, <1>2

\* The counts after a step of c: what is committed then must be counted, and
\* what its session was loaded from is committed or was so before.
LEMMA CountsKept ==
  ASSUME TypeOK, TypeOK', CommitsAreCounted, NEW c \in Callers,
         \A d \in Callers \ {c} : call'[d] = call[d],
         call[c].pc # "done", faults <= faults',
         CountedIn(stored'.log, faults', Done'),
         call'[c].pc = "open" =>
           \/ call'[c].base = stored
           \/ call[c].pc = "open" /\ call'[c].base = call[c].base
  PROVE  CommitsAreCounted'
<1>1. faults \in Nat /\ faults' \in Nat /\ Done \subseteq Done'
  <2>1. faults \in Nat /\ faults' \in Nat
    BY StoreAssumption DEF TypeOK
  <2>2. Done \subseteq Done'
    <3>1. ASSUME NEW d \in Callers, call[d].pc = "done"
          PROVE  call'[d].pc = "done"
      BY <3>1
    <3> QED
      BY <3>1 DEF Done
  <2> QED
    BY <2>1, <2>2
<1>2. ASSUME NEW log \in Seq(Changes), CountedIn(log, faults, Done)
      PROVE  CountedIn(log, faults', Done')
  BY <1>1, <1>2, CountsGrow
<1>3. stored.log \in Seq(Changes)
  BY DEF TypeOK, Row
<1>4. ASSUME NEW d \in Callers, call'[d].pc = "open"
      PROVE  CountedIn(call'[d].base.log, faults', Done')
  <2>1. call[d].base.log \in Seq(Changes)
    BY OpenCall
  <2>2. CASE call'[d].base = stored
    BY <1>2, <1>3, <2>2 DEF CommitsAreCounted
  <2>3. CASE call[d].pc = "open" /\ call'[d].base = call[d].base
    BY <1>2, <2>1, <2>3 DEF CommitsAreCounted
  <2> QED
    BY <1>4, <2>2, <2>3
<1> QED
  BY <1>4 DEF CommitsAreCounted

\* Where nothing is committed and nobody done is begun anew, the counts stay.
LEMMA CountsStay ==
  ASSUME TypeOK, TypeOK', CommitsAreCounted, NEW c \in Callers,
         \A d \in Callers \ {c} : call'[d] = call[d],
         call[c].pc # "done", UNCHANGED stored, faults <= faults',
         call'[c].pc = "open" =>
           \/ call'[c].base = stored
           \/ call[c].pc = "open" /\ call'[c].base = call[c].base
  PROVE  CommitsAreCounted'
<1>1. faults \in Nat /\ faults' \in Nat /\ Done \subseteq Done'
  <2>1. faults \in Nat /\ faults' \in Nat
    BY StoreAssumption DEF TypeOK
  <2>2. Done \subseteq Done'
    <3>1. ASSUME NEW d \in Callers, call[d].pc = "done"
          PROVE  call'[d].pc = "done"
      BY <3>1
    <3> QED
      BY <3>1 DEF Done
  <2> QED
    BY <2>1, <2>2
<1>2. stored.log \in Seq(Changes)
  BY DEF TypeOK, Row
<1>3. CountedIn(stored.log, faults', Done')
  BY <1>1, <1>2, CountsGrow DEF CommitsAreCounted
<1> QED
  BY <1>3, CountsKept

LEMMA IdleStep ==
  ASSUME IdleIsFresh, NEW c \in Callers,
         \A d \in Callers \ {c} : call'[d] = call[d],
         call'[c].pc = "idle" => call'[c].step = 1
  PROVE  IdleIsFresh'
BY DEF IdleIsFresh

LEMMA InvStep == IInv /\ [Next]_vars => IInv'
<1> SUFFICES ASSUME IInv, [Next]_vars PROVE IInv'
  OBVIOUS
<1> USE DEF IInv
<1>1. TypeOK'
  BY TypeStep
<1>2. faults \in Nat /\ faults' \in Nat
  BY <1>1, StoreAssumption DEF TypeOK
<1>3. call \in [Callers -> Call]
  BY DEF TypeOK
<1> DEFINE Goal == /\ IdleIsFresh' /\ SessionsBuildOnTheirBase'
                   /\ CommitsAreCounted'
<1>4. ASSUME NEW c \in Callers, Begin(c) PROVE Goal
  <2>1. /\ \A d \in Callers \ {c} : call'[d] = call[d]
        /\ call'[c].pc = "open"
        /\ call'[c].base = stored /\ call'[c].row = stored
        /\ call'[c].step = call[c].step
        /\ call[c].pc = "idle"
        /\ UNCHANGED <<stored, faults>>
    BY <1>3, <1>4 DEF Begin, Call
  <2>2. call'[c].step = 1
    BY <2>1 DEF IdleIsFresh
  <2>3. Outcome(c)' = {}
    BY <2>2 DEF Outcome, Begun
  <2>4. Promise!Adds({}, stored.log, stored.log)
    BY AddsNothing DEF TypeOK, Row
  <2>5. SessionsBuildOnTheirBase'
    BY <2>1, <2>3, <2>4, OthersBuild
  <2>6. CommitsAreCounted'
    BY <2>1, <1>1, <1>2, CountsStay
  <2>7. IdleIsFresh'
    BY <2>1, IdleStep
  <2> QED
    BY <2>5, <2>6, <2>7
<1>5. ASSUME NEW c \in Callers, Change(c) PROVE Goal
  <2> DEFINE held == Changed(c, call[c].row)
  <2>1. /\ \A d \in Callers \ {c} : call'[d] = call[d]
        /\ call[c].pc = "open" /\ call'[c].pc = "open"
        /\ call'[c].base = call[c].base
        /\ call'[c].step = call[c].step + 1
        /\ call'[c].row = IF held = call[c].row THEN call[c].row
                          ELSE Saved(held, call[c].row)
        /\ call[c].step <= Len(Plan[c])
        /\ UNCHANGED <<stored, faults>>
    BY <1>3, <1>5 DEF Change, Call
  <2>2. call'[c].row.log = held.log
    BY <2>1, ChangedIsRow
  <2> DEFINE x == <<c, call[c].step>>
             wanted == Promise!Wanted(c, call[c].base.log)
  <2>3. Begun(c)' = Begun(c) \cup {x}
    <3>1. call[c].step \in Nat /\ call[c].step >= 1
      BY OpenCall
    <3> QED
      BY <2>1, <3>1 DEF Begun
  <2>4. Outcome(c)' = (wanted \cap Begun(c)) \cup (wanted \cap {x})
    BY <2>1, <2>3 DEF Outcome
  <2>5. Promise!Adds(Outcome(c), call[c].base.log, call[c].row.log)
    BY <2>1 DEF SessionsBuildOnTheirBase, Outcome
  <2>6. Promise!Adds(Outcome(c)', call'[c].base.log, call'[c].row.log)
    <3> HIDE DEF held
    <3>1. CASE x \in wanted
      <4>1. Outcome(c)' = Outcome(c) \cup {x}
        BY <2>4, <3>1 DEF Outcome
      <4>2. Promise!Adds(Outcome(c) \cup {x}, call[c].base.log, held.log)
        BY <2>1, <2>5, <3>1, ChangeAdds DEF held
      <4> QED
        BY <4>1, <4>2, <2>1, <2>2
    <3>2. CASE x \notin wanted
      <4>1. Outcome(c)' = Outcome(c)
        BY <2>4, <3>2 DEF Outcome
      <4>2. held = call[c].row
        BY <2>1, <2>5, <3>2, ChangeAdds DEF held
      <4> QED
        BY <4>1, <4>2, <2>1, <2>5
    <3> QED
      BY <3>1, <3>2
  <2>7. SessionsBuildOnTheirBase'
    BY <2>1, <2>6, OthersBuild
  <2>8. CommitsAreCounted'
    BY <2>1, <1>1, <1>2, CountsStay
  <2>9. IdleIsFresh'
    BY <2>1, IdleStep
  <2> QED
    BY <2>7, <2>8, <2>9
<1>6. ASSUME NEW c \in Callers, Commit(c) PROVE Goal
  <2>1. /\ \A d \in Callers \ {c} : call'[d] = call[d]
        /\ call[c].pc = "open" /\ call'[c].pc = "done"
        /\ ReadyToCommit(c)
        /\ stored' = call[c].row /\ faults' = faults
    BY <1>3, <1>6 DEF Commit, Call, ReadyToCommit
  <2>2. SessionsBuildOnTheirBase'
    BY <2>1, OthersBuild
  <2>3. IdleIsFresh'
    BY <2>1, IdleStep
  <2>4. faults \in Nat /\ Done \subseteq Done' /\ c \in Done'
    BY <2>1, <1>2 DEF Done
  <2>5. CountedIn(call[c].row.log, faults, Done')
    BY <2>1, <2>4, OutcomeIsCounted
  <2>6. CommitsAreCounted'
    BY <2>1, <2>5, <1>1, <1>2, CountsKept
  <2> QED
    BY <2>2, <2>3, <2>6
<1>7. ASSUME NEW c \in Callers, CommitUnheard(c) PROVE Goal
  <2>1. /\ \A d \in Callers \ {c} : call'[d] = call[d]
        /\ call[c].pc = "open" /\ call'[c].pc \in {"idle", "failed"}
        /\ call'[c].pc = "idle" => call'[c].step = 1
        /\ ReadyToCommit(c)
        /\ stored' = call[c].row /\ faults' = faults + 1
    BY <1>7, TriedAgain DEF CommitUnheard, ReadyToCommit, MayFault
  <2>2. SessionsBuildOnTheirBase'
    BY <2>1, OthersBuild
  <2>3. IdleIsFresh'
    BY <2>1, IdleStep
  <2>4. faults + 1 \in Nat /\ Done \subseteq Done'
    BY <2>1, <1>2 DEF Done
  <2>5. CountedIn(call[c].row.log, faults + 1, Done')
    BY <2>1, <2>4, OutcomeIsCounted
  <2>6. CommitsAreCounted'
    BY <2>1, <2>5, <1>1, <1>2, CountsKept
  <2> QED
    BY <2>2, <2>3, <2>6
<1>8. ASSUME NEW c \in Callers, Abort(c) \/ Break(c) PROVE Goal
  <2>1. /\ \A d \in Callers \ {c} : call'[d] = call[d]
        /\ call[c].pc = "open" /\ call'[c].pc \in {"idle", "failed"}
        /\ call'[c].pc = "idle" => call'[c].step = 1
        /\ UNCHANGED stored /\ faults <= faults'
    BY <1>2, <1>8, TriedAgain DEF Abort, Break, MayFault
  <2>2. SessionsBuildOnTheirBase'
    BY <2>1, OthersBuild
  <2>3. CommitsAreCounted'
    BY <2>1, <1>1, <1>2, CountsStay
  <2>4. IdleIsFresh'
    BY <2>1, IdleStep
  <2> QED
    BY <2>2, <2>3, <2>4
<1>9. CASE UNCHANGED vars
  <2>1. UNCHANGED <<stored, call, faults>>
    BY <1>9 DEF vars
  <2>2. SessionsBuildOnTheirBase'
    BY <2>1 DEF SessionsBuildOnTheirBase, Begun
  <2>3. CommitsAreCounted'
    BY <2>1 DEF CommitsAreCounted, Done
  <2>4. IdleIsFresh'
    BY <2>1 DEF IdleIsFresh
  <2> QED
    BY <1>1, <2>2, <2>3, <2>4
<1> QED
  BY <1>1, <1>4, <1>5, <1>6, <1>7, <1>8, <1>9 DEF Next

LEMMA Invariance == Spec => []IInv
<1>1. Init => IInv
  BY InvInit
<1>2. IInv /\ [Next]_vars => IInv'
  BY InvStep
<1> QED
  BY <1>1, <1>2, PTL DEF Spec

-----------------------------------------------------------------------------
(* The theorems *)

LEMMA InvImpliesCounts == IInv => ChangesAreNotRepeated
<1> SUFFICES ASSUME IInv, NEW ch \in Changes
             PROVE  Times(ch) <= IF Plan[ch[1]][ch[2]] THEN 1 ELSE 1 + faults
  BY DEF ChangesAreNotRepeated
<1> USE DEF IInv
<1> DEFINE c == ch[1]
            i == ch[2]
<1>1. ch = <<c, i>> /\ c \in Callers /\ i \in DOMAIN Plan[c]
  BY ChangeIsPair
<1> HIDE DEF c, i
<1>2. Times(<<c, i>>) <= IF Plan[c][i] THEN 1
                         ELSE faults + (IF c \in Done THEN 1 ELSE 0)
  BY <1>1 DEF CommitsAreCounted, CountedIn, Times, Places
<1>3. faults \in Nat
  BY StoreAssumption DEF TypeOK
<1>4. Times(<<c, i>>) \in Nat
  <2>1. stored.log \in Seq(Changes)
    BY DEF TypeOK, Row
  <2> QED
    BY <2>1, PlacesAreFinite DEF Times, Places
<1> QED
  BY <1>1, <1>2, <1>3, <1>4 DEF c, i

\* However many callers there are and whatever fails, a transition of the case
\* is committed once, and any other change once more for each fault at most.
\* This rests on the sessions alone, whatever isolation they get.
THEOREM NotRepeated == Spec => []ChangesAreNotRepeated
<1>1. Spec => []IInv
  BY Invariance
<1> QED
  BY <1>1, InvImpliesCounts, PTL

LEMMA PromiseStep ==
  Serializable /\ IInv /\ [Next]_vars
    => [Promise!Next]_<<stored.log, answered>>
<1> SUFFICES ASSUME Serializable, IInv, [Next]_vars
             PROVE  [Promise!Next]_<<stored.log, answered>>
  OBVIOUS
<1> USE DEF IInv
<1>1. ASSUME NEW c \in Callers, ReadyToCommit(c), Current(c),
             stored' = call[c].row,
             answered' \in {answered, answered \cup {c}}
      PROVE  Promise!Next
  <2>1. call[c].base = stored
    BY <1>1 DEF Current
  <2>2. Promise!Adds(Promise!Wanted(c, stored.log), stored.log, stored'.log)
    BY <1>1, <2>1, ReadyBuilds
  <2> QED
    BY <1>1, <2>2 DEF Promise!Next, Promise!Apply
<1>2. ASSUME NEW c \in Callers, Commit(c) PROVE Promise!Next
  BY <1>1, <1>2 DEF Commit
<1>3. ASSUME NEW c \in Callers, CommitUnheard(c) PROVE Promise!Next
  BY <1>1, <1>3 DEF CommitUnheard
<1>4. ASSUME NEW c \in Callers,
             Begin(c) \/ Change(c) \/ Abort(c) \/ Break(c)
      PROVE  UNCHANGED <<stored.log, answered>>
  BY <1>4 DEF Begin, Change, Abort, Break
<1>5. CASE UNCHANGED vars
  BY <1>5 DEF vars
<1> QED
  BY <1>2, <1>3, <1>4, <1>5 DEF Next

LEMMA PromiseInit == Init => Promise!Init
BY DEF Init, NewRow, Promise!Init

\* The sessions of the case repository implement an atomic case: what is
\* committed is the outcome of whole calls, one on top of the other, and who
\* was told that a call is done finds it there.
THEOREM Refinement == ASSUME Serializable PROVE Spec => ImplementsAtomicCase
<1>1. Spec => []IInv
  BY Invariance
<1>2. IInv /\ [Next]_vars => [Promise!Next]_<<stored.log, answered>>
  BY PromiseStep
<1> QED
  BY <1>1, <1>2, PromiseInit, PTL DEF Spec, Promise!Spec, ImplementsAtomicCase

-----------------------------------------------------------------------------
(* CaseFile: what is read, one text after the other *)

\* The function FlattenSeq is defined by exists: the least length for which it
\* did not would be one more than one for which it does.
LEMMA FlattenExists ==
  ASSUME NEW T, NEW seqs \in Seq(Seq(T)), seqs # <<>>
  PROVE  \E g : g = [i \in 1..Len(seqs) |->
                       IF i = 1 THEN seqs[i] ELSE g[i - 1] \o seqs[i]]
<1> DEFINE N == Len(seqs)
           Good(m, g) == g = [i \in 1..m |->
                                IF i = 1 THEN seqs[i] ELSE g[i - 1] \o seqs[i]]
           Bad == {m \in 1..N : ~\E g : Good(m, g)}
<1>1. N \in Nat \ {0}
  OBVIOUS
<1> HIDE DEF N, Good
<1>a. Bad \in SUBSET Nat /\ Bad \subseteq 1..N
  BY <1>1
<1>2. SUFFICES ASSUME Bad # {} PROVE FALSE
  <2>1. N \in 1..N /\ N \notin Bad
    <3> HIDE DEF Bad
    <3> QED BY <1>1, <1>2
  <2>2. \E g : Good(N, g)
    BY <2>1
  <2> QED BY <2>2 DEF Good, N
<1>3. PICK m \in Bad : \A o \in Bad : m <= o
  BY <1>a, <1>2, LeastNatural
<1>b. m \in Nat /\ m >= 1 /\ m <= N /\ ~\E g : Good(m, g)
  BY <1>1, <1>3
<1>c. m - 1 \in 1..N => m - 1 \notin Bad
  BY <1>3, <1>b
<1>4. CASE m = 1
  <2> DEFINE g == [i \in 1..1 |-> seqs[i]]
  <2>1. Good(1, g)
    BY DEF Good
  <2> QED BY <1>b, <1>4, <2>1
<1>5. CASE m # 1
  <2>1. m - 1 \in 1..N /\ m - 1 \notin Bad
    BY <1>1, <1>b, <1>c, <1>5
  <2>2. PICK h : Good(m - 1, h)
    BY <2>1
  <2> DEFINE g == [i \in 1..m |->
                     IF i = 1 THEN seqs[i] ELSE h[i - 1] \o seqs[i]]
  <2>3. \A i \in 1..(m - 1) : g[i] = h[i]
    <3>1. \A i \in 1..(m - 1) :
            h[i] = IF i = 1 THEN seqs[i] ELSE h[i - 1] \o seqs[i]
      BY <2>2 DEF Good
    <3>2. \A i \in 1..(m - 1) : i \in 1..m
      BY <1>1, <1>b
    <3> HIDE DEF Bad
    <3> QED BY <3>1, <3>2
  <2>4. \A i \in 1..m : i # 1 => i - 1 \in 1..(m - 1)
    BY <1>1, <1>b
  <2>5. \A i \in 1..m : g[i] = IF i = 1 THEN seqs[i] ELSE g[i - 1] \o seqs[i]
    BY <2>3, <2>4
  <2>6. Good(m, g)
    BY <2>5 DEF Good
  <2> QED BY <1>b, <2>6
<1> QED BY <1>4, <1>5

\* Flattening yields a sequence of the same elements.
LEMMA FlattenIsSeq ==
  ASSUME NEW T, NEW seqs \in Seq(Seq(T))
  PROVE  FlattenSeq(seqs) \in Seq(T)
<1>1. CASE seqs = <<>>
  <2>1. Len(seqs) = 0
    BY <1>1
  <2>2. FlattenSeq(seqs) = seqs
    BY <2>1, Zenon DEF FlattenSeq
  <2>3. seqs \in Seq(T)
    BY <1>1
  <2> QED BY <2>2, <2>3, Zenon
<1>2. CASE seqs # <<>>
  <2> DEFINE N == Len(seqs)
             f == CHOOSE g : g = [i \in 1..Len(seqs) |->
                       IF i = 1 THEN seqs[i] ELSE g[i - 1] \o seqs[i]]
  <2>1. FlattenSeq(seqs) = f[N]
    BY <1>2 DEF FlattenSeq
  <2>2. f = [i \in 1..N |-> IF i = 1 THEN seqs[i] ELSE f[i - 1] \o seqs[i]]
    BY <1>2, FlattenExists
  <2> HIDE DEF f
  <2>3. /\ \A i \in 1..N : f[i] = IF i = 1 THEN seqs[i]
                                  ELSE f[i - 1] \o seqs[i]
        /\ N \in Nat \ {0} /\ DOMAIN seqs = 1..N
        /\ \A i \in 1..N : seqs[i] \in Seq(T)
    <3>1. N \in Nat \ {0} /\ DOMAIN seqs = 1..N
      BY <1>2
    <3>2. \A i \in 1..N : seqs[i] \in Seq(T)
      BY <3>1
    <3> HIDE DEF N
    <3> QED BY <2>2, <3>1, <3>2
  <2> HIDE DEF N
  <2> DEFINE Bad == {i \in 1..N : f[i] \notin Seq(T)}
  <2>4. Bad = {}
    <3>1. SUFFICES ASSUME Bad # {} PROVE FALSE
      OBVIOUS
    <3>2. PICK m \in Bad : \A o \in Bad : m <= o
      <4>1. Bad \in SUBSET Nat
        BY <2>3
      <4> HIDE DEF Bad
      <4> QED BY <3>1, <4>1, LeastNatural
    <3>a. m \in 1..N /\ f[m] \notin Seq(T)
      BY <3>2
    <3>b. m - 1 \in 1..N => m - 1 \notin Bad
      <4>1. m \in Nat
        BY <2>3, <3>a
      <4> HIDE DEF Bad
      <4> QED BY <2>3, <3>2, <4>1
    <3>3. CASE m = 1
      BY <2>3, <3>a, <3>3
    <3>4. CASE m # 1
      <4>1. m - 1 \in 1..N /\ m - 1 \notin Bad
        <5>1. m - 1 \in 1..N
          BY <2>3, <3>a, <3>4
        <5> QED BY <3>b, <5>1
      <4>2. f[m - 1] \in Seq(T)
        BY <4>1
      <4>3. f[m] = f[m - 1] \o seqs[m] /\ seqs[m] \in Seq(T)
        BY <2>3, <3>a, <3>4
      <4>4. f[m] \in Seq(T)
        BY <4>2, <4>3
      <4> QED BY <3>a, <4>4
    <3> QED BY <3>3, <3>4
  <2>5. N \in 1..N /\ N \notin Bad
    <3> HIDE DEF Bad
    <3> QED BY <2>3, <2>4
  <2> QED BY <2>1, <2>3, <2>5
<1> QED BY <1>1, <1>2

-----------------------------------------------------------------------------
(* CaseFile: from statements to requirements *)

LEMMA WeightOrder ==
  ASSUME NEW a \in 0..2, NEW b \in 0..2, NEW c \in 0..2, NEW d \in 0..2,
         8 - (3 * a + b) <= 8 - (3 * c + d)
  PROVE  ~(c > a) /\ ~(c = a /\ d > b)
OBVIOUS

\* Among statements about the same thing there is one that no other beats: one
\* of the greatest weight.
LEMMA UnbeatenExists ==
  ASSUME NEW items \in Seq(Statements), NEW i \in DOMAIN items
  PROVE  \E j \in Alike(items, i) :
           \A k \in Alike(items, i) : ~Beats(items[k], items[j])
<1> DEFINE A == Alike(items, i)
           lack(j) == 8 - (3 * items[j].binding + items[j].sure)
           L == {lack(j) : j \in A}
<1>1. i \in A /\ A \subseteq DOMAIN items
  BY DEF Alike
<1>2. \A j \in A : items[j].binding \in 0..2 /\ items[j].sure \in 0..2
  <2>1. \A j \in A : items[j] \in Statements
    BY <1>1
  <2> QED BY <2>1 DEF Statements
<1> HIDE DEF A
<1>3. \A j \in A : lack(j) \in Nat
  <2>1. TAKE j \in A
  <2>2. items[j].binding \in {0, 1, 2} /\ items[j].sure \in {0, 1, 2}
    BY <1>2
  <2> QED BY <2>2
<1>4. L \in SUBSET Nat /\ L # {}
  BY <1>1, <1>3
<1>5. PICK x \in L : \A y \in L : x <= y
  BY <1>4, LeastNatural
<1>6. PICK j \in A : x = lack(j)
  BY <1>5
<1>7. \A k \in A : ~Beats(items[k], items[j])
  <2>1. TAKE k \in A
  <2>2. lack(j) <= lack(k)
    BY <1>5, <1>6
  <2>3. /\ items[j].binding \in 0..2 /\ items[j].sure \in 0..2
        /\ items[k].binding \in 0..2 /\ items[k].sure \in 0..2
    BY <1>2
  <2>4. /\ ~(items[k].binding > items[j].binding)
        /\ ~ /\ items[k].binding = items[j].binding
             /\ items[k].sure > items[j].sure
    BY <2>2, <2>3, WeightOrder
  <2> QED BY <2>4 DEF Beats
<1> QED BY <1>7 DEF A

KeyOf(items, i) == Min(Alike(items, i))

BestOf(items, i) ==
  Min({j \in Alike(items, i) :
         \A k \in Alike(items, i) : ~Beats(items[k], items[j])})

RequirementOf(items, i) ==
  [key |-> KeyOf(items, i), active |-> TRUE, says |-> items[BestOf(items, i)]]

LEMMA DedupedRows ==
  ASSUME NEW items \in Seq(Statements)
  PROVE  Deduped(items) = {RequirementOf(items, i) : i \in Stated(items)}
BY DEF Deduped, RequirementOf, KeyOf, BestOf

\* The requirement made of the statement at i.
LEMMA RequirementIsOf ==
  ASSUME NEW items \in Seq(Statements), NEW i \in DOMAIN items
  PROVE  /\ RequirementOf(items, i) \in Requirement
         /\ RequirementOf(items, i).active = TRUE
         /\ RequirementOf(items, i).key = KeyOf(items, i)
         /\ RequirementOf(items, i).says.about = items[i].about
         /\ RequirementOf(items, i).says.binding >= items[i].binding
         /\ KeyOf(items, i) \in DOMAIN items
         /\ items[KeyOf(items, i)].about = items[i].about
         /\ KeyOf(items, i) <= i
<1> DEFINE A == Alike(items, i)
           U == {j \in A : \A k \in A : ~Beats(items[k], items[j])}
           m == KeyOf(items, i)
           b == BestOf(items, i)
           act == TRUE
<1>1. DOMAIN items \subseteq Nat \ {0} /\ i \in A /\ A \subseteq DOMAIN items
  BY DEF Alike
<1>2. m \in A /\ m <= i
  BY <1>1, MinOfNaturals DEF KeyOf
<1>3. U \in SUBSET Nat /\ U # {}
  BY <1>1, UnbeatenExists
<1>4. b = Min(U)
  BY DEF BestOf
<1> HIDE DEF U
<1>5. b \in U
  BY <1>3, <1>4, MinOfNaturals
<1>6. b \in A /\ ~Beats(items[i], items[b])
  BY <1>1, <1>5 DEF U
<1>7. act \in BOOLEAN /\ act = TRUE
  OBVIOUS
<1> HIDE DEF act
<1>8. /\ m \in DOMAIN items /\ items[m].about = items[i].about
      /\ b \in DOMAIN items /\ items[b].about = items[i].about
  BY <1>2, <1>6 DEF Alike
<1>9. RequirementOf(items, i) = [key |-> m, active |-> act, says |-> items[b]]
  BY DEF RequirementOf, act
<1> HIDE DEF m, b, A
<1>10. items[i] \in Statements /\ items[b] \in Statements
  BY <1>8
<1>11. items[b].binding >= items[i].binding
  BY <1>6, <1>10 DEF Beats, Statements
<1>12. RequirementOf(items, i) \in Requirement
  BY <1>1, <1>7, <1>8, <1>9, <1>10 DEF Requirement
<1>13. /\ RequirementOf(items, i).active = act
       /\ RequirementOf(items, i).key = m
       /\ RequirementOf(items, i).says = items[b]
  BY <1>9
<1> QED BY <1>2, <1>7, <1>8, <1>11, <1>12, <1>13 DEF m

\* Two statements have the same key, or are about the same thing, only where
\* they have one requirement.
LEMMA RequirementsDiffer ==
  ASSUME NEW items \in Seq(Statements),
         NEW i \in DOMAIN items, NEW j \in DOMAIN items,
         RequirementOf(items, i) # RequirementOf(items, j)
  PROVE  /\ KeyOf(items, i) # KeyOf(items, j)
         /\ items[i].about # items[j].about
<1>1. items[i].about # items[j].about
  <2>1. SUFFICES ASSUME items[i].about = items[j].about PROVE FALSE
    OBVIOUS
  <2>2. Alike(items, i) = Alike(items, j)
    BY <2>1 DEF Alike
  <2> QED BY <2>2 DEF RequirementOf, KeyOf, BestOf
<1>2. /\ items[KeyOf(items, i)].about = items[i].about
      /\ items[KeyOf(items, j)].about = items[j].about
  BY RequirementIsOf
<1> QED BY <1>1, <1>2

-----------------------------------------------------------------------------
(* CaseFile: the inductive invariant *)

\* The row behind a case is there, and its number leads to it.
CasesHaveRows ==
  \A c \in CaseIds : case[c] # NoCase => pr[case[c].number] \in Requisitions

\* A key is one row's, in force or not.
KeysAreOwn ==
  \A c \in CaseIds : \A r, q \in rows[c] : r.key = q.key => r = q

FileIInv ==
  /\ FileTypeOK
  /\ CasesHaveRows
  /\ KeysAreOwn
  /\ NothingReadIsWeakened

LEMMA NoCaseIsNone ==
  /\ NoCase \notin CaseRow
  /\ NoCase.version = 0
  /\ \A x \in CaseRow : /\ x.number \in Numbers /\ x.from \in Requisitions
                        /\ x.version \in 1..(MaxMoves + 2)
<1>1. NoCase.version = 0
  BY DEF NoCase
<1>2. \A x \in CaseRow : /\ x.number \in Numbers /\ x.from \in Requisitions
                         /\ x.version \in 1..(MaxMoves + 2)
  BY DEF CaseRow
<1> QED BY <1>1, <1>2

LEMMA NumberIsNumber ==
  ASSUME FileTypeOK, NEW r \in Requisitions
  PROVE  NumberOf(r) \in Numbers
BY DEF FileTypeOK, NumberOf, Numbers

LEMMA ParsedIsSeq ==
  ASSUME FileTypeOK, NEW c \in CaseIds
  PROVE  Parsed(c) \in Seq(Statements)
<1> DEFINE n == Len(versions)
           texts == [k \in DOMAIN versions |-> TextAt(c, n + 1 - k)]
<1>1. /\ versions \in Seq(Version) /\ n \in Nat
      /\ DOMAIN versions = 1..n
  BY DEF FileTypeOK
<1>2. \A i \in Readable(c) : /\ i \in 1..n
                             /\ Says[versions[i].content] \in Seq(Statements)
  <2>1. TAKE i \in Readable(c)
  <2>2. i \in DOMAIN versions
    BY DEF Readable, OfCase
  <2>3. versions[i].content \in Specs
    <3>1. versions[i] \in Version
      BY <1>1, <2>2
    <3> QED BY <3>1 DEF Version
  <2> QED BY <1>1, <2>2, <2>3, FileAssumption
<1> HIDE DEF n
<1>3. \A k \in 1..n : TextAt(c, n + 1 - k) \in Seq(Statements)
  <2>1. TAKE k \in 1..n
  <2>2. CASE n + 1 - k \in Readable(c)
    BY <1>2, <2>2 DEF TextAt
  <2>3. CASE n + 1 - k \notin Readable(c)
    <3>1. TextAt(c, n + 1 - k) = <<>>
      BY <2>3 DEF TextAt
    <3>2. <<>> \in Seq(Statements)
      OBVIOUS
    <3> QED BY <3>1, <3>2
  <2> QED BY <2>2, <2>3
<1>4. texts \in Seq(Seq(Statements))
  BY <1>1, <1>3
<1>5. Parsed(c) = FlattenSeq(texts)
  BY DEF Parsed, n
<1>6. FlattenSeq(texts) \in Seq(Statements)
  <2> HIDE DEF texts
  <2> QED BY <1>4, FlattenIsSeq
<1> QED BY <1>5, <1>6

LEMMA ImpliedIsSeq ==
  ASSUME FileTypeOK, CasesHaveRows, NEW c \in CaseIds
  PROVE  Implied(c) \in Seq(Statements)
<1>1. CASE case[c] = NoCase
  BY <1>1 DEF Implied
<1>2. CASE case[c] # NoCase
  <2>1. pr[case[c].number] \in Requisitions
    BY <1>2 DEF CasesHaveRows
  <2>2. Derived[pr[case[c].number]] \in Seq(Statements)
    BY <2>1, FileAssumption
  <2> QED BY <1>2, <2>2 DEF Implied
<1> QED BY <1>1, <1>2

LEMMA FoundIsSeq ==
  ASSUME FileTypeOK, CasesHaveRows, NEW c \in CaseIds
  PROVE  Found(c) \in Seq(Statements)
<1>1. Parsed(c) \in Seq(Statements) /\ Implied(c) \in Seq(Statements)
  BY ParsedIsSeq, ImpliedIsSeq
<1> QED BY <1>1 DEF Found

LEMMA FileInitIInv ==
  FileInit => FileIInv
<1> SUFFICES ASSUME FileInit PROVE FileIInv
  OBVIOUS
<1> USE DEF FileInit
<1>1. FileTypeOK
  BY FileAssumption DEF FileTypeOK, Months
<1>2. CasesHaveRows
  BY DEF CasesHaveRows
<1>3. KeysAreOwn
  BY DEF KeysAreOwn
<1>4. NothingReadIsWeakened
  <2>1. \A c \in CaseIds : Stated(basis[c]) = {}
    BY DEF Stated
  <2> QED BY <2>1 DEF NothingReadIsWeakened
<1> QED BY <1>1, <1>2, <1>3, <1>4 DEF FileIInv

\* Of a step that extracts nothing.
LEMMA RowsKeptIInv ==
  ASSUME FileIInv, UNCHANGED <<rows, basis>>,
         month' \in Months, pr' \in [Numbers -> Requisitions \cup {Nothing}],
         case' \in [CaseIds -> {NoCase} \cup CaseRow],
         versions' \in Seq(Version), CasesHaveRows'
  PROVE  FileIInv'
BY DEF FileIInv, FileTypeOK, KeysAreOwn, NothingReadIsWeakened, Active

LEMMA IntakeIInv ==
  ASSUME FileIInv, NEW r \in Requisitions, NEW k \in CaseIds, Intake(r, k)
  PROVE  /\ FileIInv'
         /\ \A c \in CaseIds : case[c] # NoCase =>
              /\ case'[c] # NoCase
              /\ case'[c].number = case[c].number
              /\ pr'[case'[c].number] = pr[case[c].number]
<1> DEFINE n == NumberOf(r)
<1>1. FileTypeOK /\ CasesHaveRows
  BY DEF FileIInv
<1>2. n \in Numbers
  BY <1>1, NumberIsNumber
<1>3. /\ ~HasCase(n) /\ MayOpen(k)
      /\ pr' = [pr EXCEPT ![n] = r]
      /\ case' = [case EXCEPT ![k] = IF case[k] = NoCase THEN Opened(r)
                                     ELSE Rewritten(case[k], r)]
      /\ UNCHANGED <<month, versions, rows, basis>>
  BY DEF Intake, Filed
<1>4. /\ pr \in [Numbers -> Requisitions \cup {Nothing}]
      /\ case \in [CaseIds -> {NoCase} \cup CaseRow]
  BY <1>1 DEF FileTypeOK
<1>5. Opened(r) \in CaseRow /\ Opened(r).number = n
  BY <1>2, FileAssumption DEF Opened, CaseRow
<1>6. case[k] # NoCase =>
        /\ Rewritten(case[k], r) \in CaseRow
        /\ Rewritten(case[k], r).number = case[k].number
  <2>1. SUFFICES ASSUME case[k] # NoCase
                 PROVE  /\ Rewritten(case[k], r) \in CaseRow
                        /\ Rewritten(case[k], r).number = case[k].number
    OBVIOUS
  <2> DEFINE x == case[k]
             v == x.version + 1
  <2>2. x \in CaseRow /\ x.version = 1
    <3>1. x \in CaseRow
      BY <1>2, <1>4, <2>1
    <3>2. x.version \in 1..(MaxMoves + 2) /\ 1 >= x.version
      BY <1>3, <2>1, <3>1, NoCaseIsNone DEF MayOpen
    <3> QED BY <3>1, <3>2, FileAssumption
  <2>3. Rewritten(x, r) = [x EXCEPT !.from = r, !.version = v]
    BY DEF Rewritten
  <2> HIDE DEF x
  <2>4. v \in 1..(MaxMoves + 2)
    BY <2>2, FileAssumption
  <2> HIDE DEF v
  <2>5. Rewritten(x, r) = [number |-> x.number, from |-> r, version |-> v]
    BY <2>2, <2>3 DEF CaseRow
  <2>6. x.number \in Numbers
    BY <2>2, NoCaseIsNone
  <2>7. Rewritten(x, r) \in CaseRow /\ Rewritten(x, r).number = x.number
    BY <2>4, <2>5, <2>6 DEF CaseRow
  <2> QED BY <2>7 DEF x
<1>7. case' \in [CaseIds -> {NoCase} \cup CaseRow]
  <2> QED BY <1>2, <1>3, <1>4, <1>5, <1>6
<1>8. pr' \in [Numbers -> Requisitions \cup {Nothing}]
  BY <1>2, <1>3, <1>4
<1>9. \A c \in CaseIds :
        /\ case[c] # NoCase =>
             /\ case'[c] # NoCase
             /\ case'[c].number = case[c].number
        /\ case[c] = NoCase /\ case'[c] # NoCase =>
             case'[c].number = n
  <2> HIDE DEF n
  <2>1. TAKE c \in CaseIds
  <2>2. CASE c = k
    BY <1>2, <1>3, <1>4, <1>5, <1>6, <2>2, NoCaseIsNone
  <2>3. CASE c # k
    BY <1>2, <1>3, <1>4, <2>3
  <2> QED BY <2>2, <2>3
<1>10. \A c \in CaseIds : case[c] # NoCase =>
         /\ case[c].number \in Numbers /\ case[c].number # n
         /\ pr'[case[c].number] = pr[case[c].number]
  <2> HIDE DEF n
  <2>1. TAKE c \in CaseIds
  <2>2. SUFFICES ASSUME case[c] # NoCase
                 PROVE  /\ case[c].number \in Numbers /\ case[c].number # n
                        /\ pr'[case[c].number] = pr[case[c].number]
    OBVIOUS
  <2>3. case[c] \in CaseRow
    BY <1>4, <2>2
  <2>4. case[c].number \in Numbers
    BY <2>3, NoCaseIsNone
  <2>5. case[c].number # n
    BY <1>3 DEF HasCase
  <2> QED BY <1>3, <1>4, <2>4, <2>5
<1>11. CasesHaveRows'
  <2> HIDE DEF n
  <2>1. pr'[n] = r
    BY <1>2, <1>3, <1>4
  <2>2. \A c \in CaseIds : case'[c] # NoCase =>
          pr'[case'[c].number] \in Requisitions
    BY <1>1, <1>9, <1>10, <2>1 DEF CasesHaveRows
  <2> QED BY <2>2 DEF CasesHaveRows, NoCase
<1>12. FileIInv'
  BY <1>1, <1>3, <1>7, <1>8, <1>11, RowsKeptIInv DEF FileTypeOK
<1> QED BY <1>9, <1>10, <1>12

LEMMA MoveIInv ==
  ASSUME FileIInv, NEW k \in CaseIds, Move(k)
  PROVE  /\ FileIInv'
         /\ \A c \in CaseIds : case[c] # NoCase =>
              /\ case'[c] # NoCase
              /\ case'[c].number = case[c].number
              /\ case'[c].from = case[c].from
              /\ pr'[case'[c].number] = pr[case[c].number]
<1> DEFINE x == case[k]
           v == x.version + 1
           y == [x EXCEPT !.version = v]
<1>1. FileTypeOK /\ CasesHaveRows
  BY DEF FileIInv
<1>2. /\ x # NoCase /\ x.version <= MaxMoves
      /\ UNCHANGED <<month, pr, versions, rows, basis>>
      /\ case' = [case EXCEPT ![k] = y]
  BY DEF Move
<1>3. case \in [CaseIds -> {NoCase} \cup CaseRow]
  BY <1>1 DEF FileTypeOK
<1>4. x \in CaseRow
  BY <1>2, <1>3
<1> HIDE DEF x
<1>5. /\ v \in 1..(MaxMoves + 2)
      /\ x.number \in Numbers /\ x.from \in Requisitions
  BY <1>2, <1>4, NoCaseIsNone, FileAssumption
<1> HIDE DEF v
<1>6. y = [number |-> x.number, from |-> x.from, version |-> v]
  BY <1>4 DEF CaseRow
<1> HIDE DEF y
<1>7. y \in CaseRow /\ y.number = x.number /\ y.from = x.from
  BY <1>5, <1>6 DEF CaseRow
<1>8. case' \in [CaseIds -> {NoCase} \cup CaseRow]
  BY <1>2, <1>3, <1>7
<1>9. \A c \in CaseIds : case[c] # NoCase =>
        /\ case'[c] # NoCase
        /\ case'[c].number = case[c].number
        /\ case'[c].from = case[c].from
  BY <1>2, <1>3, <1>7, NoCaseIsNone DEF x
<1>10. \A c \in CaseIds : case'[c] # NoCase => case[c] # NoCase
  BY <1>2, <1>3 DEF x
<1>11. CasesHaveRows'
  <2>1. \A c \in CaseIds : case'[c] # NoCase =>
          pr'[case'[c].number] \in Requisitions
    BY <1>1, <1>2, <1>9, <1>10 DEF CasesHaveRows
  <2> QED BY <2>1 DEF CasesHaveRows, NoCase
<1>12. FileIInv'
  BY <1>1, <1>2, <1>8, <1>11, RowsKeptIInv DEF FileTypeOK
<1> QED BY <1>2, <1>9, <1>12

LEMMA IngestIInv ==
  ASSUME FileIInv, NEW c \in CaseIds, NEW s \in Specs, Ingest(c, s)
  PROVE  /\ FileIInv'
         /\ \A d \in CaseIds : \A i \in Readable(d) :
              /\ i \in Readable(d)'
              /\ versions'[i].content = versions[i].content
<1>1. FileTypeOK /\ CasesHaveRows
  BY DEF FileIInv
<1> DEFINE t == "SUPERSEDED"
           Old(i) == [versions[i] EXCEPT !.trust = t]
           mid == [i \in DOMAIN versions |->
                     IF OfCase(c) # {} /\ i = Latest(c)
                     THEN Old(i) ELSE versions[i]]
           new == [content |-> s, case |-> c, trust |-> Verdict(s)]
<1>2. /\ versions' = Append(mid, new)
      /\ UNCHANGED <<month, pr, case, rows, basis>>
  BY DEF Ingest
<1>3. /\ versions \in Seq(Version)
      /\ \A i \in DOMAIN versions : versions[i] \in Version
  BY <1>1 DEF FileTypeOK
<1>4. new \in Version
  <2> DEFINE w == Verdict(s)
  <2>1. w \in {"AUTHORITATIVE", "QUARANTINED", "SUPERSEDED"}
    BY DEF Verdict
  <2>2. new = [content |-> s, case |-> c, trust |-> w]
    OBVIOUS
  <2> HIDE DEF w, new
  <2> QED BY <2>1, <2>2 DEF Version
<1>5. t \in {"AUTHORITATIVE", "QUARANTINED", "SUPERSEDED"} /\ t # "QUARANTINED"
  OBVIOUS
<1> HIDE DEF t, new
<1>6. \A i \in DOMAIN versions :
        /\ Old(i) \in Version
        /\ Old(i).content = versions[i].content
        /\ Old(i).case = versions[i].case
        /\ Old(i).trust = t
  <2>1. TAKE i \in DOMAIN versions
  <2>2. Old(i) = [content |-> versions[i].content, case |-> versions[i].case,
                  trust |-> t]
    BY <1>3 DEF Version
  <2>3. versions[i].content \in Specs /\ versions[i].case \in CaseIds
    BY <1>3 DEF Version
  <2> HIDE DEF Old
  <2>4. Old(i) \in Version
    BY <1>5, <2>2, <2>3 DEF Version
  <2> QED BY <2>2, <2>4
<1> HIDE DEF Old
<1>7. mid \in Seq(Version) /\ DOMAIN mid = DOMAIN versions
  <2>1. \A i \in 1..Len(versions) : mid[i] \in Version
    BY <1>3, <1>6
  <2>2. DOMAIN versions = 1..Len(versions) /\ Len(versions) \in Nat
    BY <1>3
  <2>3. mid = [i \in 1..Len(versions) |-> mid[i]]
    BY <2>2
  <2>4. DOMAIN mid = DOMAIN versions
    OBVIOUS
  <2> HIDE DEF mid
  <2> QED BY <2>1, <2>2, <2>3, <2>4
<1>8. \A i \in DOMAIN versions : mid[i] = Old(i) \/ mid[i] = versions[i]
  OBVIOUS
<1> HIDE DEF mid
<1>9. /\ versions' \in Seq(Version)
      /\ \A i \in DOMAIN versions : i \in DOMAIN versions'
                                      /\ versions'[i] = mid[i]
  BY <1>2, <1>3, <1>4, <1>7
<1>10. \A i \in DOMAIN versions :
         /\ i \in DOMAIN versions'
         /\ versions'[i].content = versions[i].content
         /\ versions'[i].case = versions[i].case
         /\ versions'[i].trust = versions[i].trust \/ versions'[i].trust = t
  BY <1>6, <1>8, <1>9
<1>11. \A d \in CaseIds : \A i \in Readable(d) :
         /\ i \in Readable(d)'
         /\ versions'[i].content = versions[i].content
  BY <1>5, <1>10 DEF Readable, OfCase
<1>12. CasesHaveRows'
  BY <1>1, <1>2 DEF CasesHaveRows, NoCase
<1>13. FileIInv'
  BY <1>1, <1>2, <1>9, <1>12, RowsKeptIInv DEF FileTypeOK
<1> QED BY <1>11, <1>13

LEMMA SupplementIsSeq ==
  ASSUME NEW c, NEW more \in Supplemented(c)
  PROVE  more \in Seq(Statements)
<1>1. more = <<>> \/ more \in Supplements
  BY DEF Supplemented
<1>2. <<>> \in Seq(Statements)
  OBVIOUS
<1> QED BY <1>1, <1>2, FileAssumption

\* What replace_for_case leaves: the rows that were there, none in force, and
\* the new ones.
LEMMA ReplacedRows ==
  ASSUME FileTypeOK, NEW c \in CaseIds,
         NEW items \in Seq(Statements)
  PROVE  /\ Replaced(c, Deduped(items)) \in SUBSET Requirement
         /\ {r \in Replaced(c, Deduped(items)) : r.active} = Deduped(items)
         /\ \A r \in rows[c] : \E q \in Replaced(c, Deduped(items)) :
              q.key = r.key
         /\ \A q \in Replaced(c, Deduped(items)) :
              \/ q \in Deduped(items)
              \/ \E r \in rows[c] :
                   q = [key |-> r.key, says |-> r.says, active |-> FALSE]
<1> DEFINE new == Deduped(items)
           off == FALSE
           Off(r) == [r EXCEPT !.active = off]
           old == {Off(r) : r \in rows[c]}
<1>1. rows[c] \subseteq Requirement
  BY DEF FileTypeOK
<1>2. \A r \in new : r \in Requirement /\ r.active = TRUE
  <2>1. TAKE r \in new
  <2>2. PICK i \in Stated(items) : r = RequirementOf(items, i)
    BY DedupedRows
  <2>3. i \in DOMAIN items
    BY DEF Stated
  <2> QED BY <2>2, <2>3, RequirementIsOf
<1>3. off \in BOOLEAN /\ off = FALSE
  OBVIOUS
<1>4. Replaced(c, new) = old \cup new
  BY DEF Replaced
<1> HIDE DEF off, new
<1>5. \A r \in rows[c] : /\ Off(r) \in Requirement
                         /\ Off(r).active = FALSE
                         /\ Off(r).key = r.key
                         /\ Off(r) = [key |-> r.key, says |-> r.says,
                                      active |-> off]
  <2>1. TAKE r \in rows[c]
  <2>2. r \in Requirement
    BY <1>1
  <2>3. Off(r) = [key |-> r.key, says |-> r.says, active |-> off]
    BY <2>2 DEF Requirement
  <2>4. r.key \in Nat \ {0} /\ r.says \in Statements
    BY <2>2 DEF Requirement
  <2> HIDE DEF Off
  <2>5. Off(r) \in Requirement
    BY <1>3, <2>3, <2>4 DEF Requirement
  <2> QED BY <1>3, <2>3, <2>5
<1> HIDE DEF Off
<1>6. \A r \in old : r \in Requirement /\ r.active = FALSE
  BY <1>5
<1>7. \A r \in rows[c] : \E q \in old : q.key = r.key
  BY <1>5
<1>8. \A q \in old : \E r \in rows[c] :
        q = [key |-> r.key, says |-> r.says, active |-> off]
  BY <1>5
<1> HIDE DEF old
<1>10. old \cup new \in SUBSET Requirement
  BY <1>2, <1>6
<1>11. {r \in old \cup new : r.active} = new
  BY <1>2, <1>6
<1> QED BY <1>3, <1>4, <1>7, <1>8, <1>10, <1>11 DEF new

LEMMA ExtractIInv ==
  ASSUME FileIInv, NEW c \in CaseIds, Extract(c)
  PROVE  /\ FileIInv'
         /\ \A d \in CaseIds : \A r \in rows[d] :
              /\ \E q \in rows'[d] : q.key = r.key
              /\ \A q \in rows'[d] : q.key = r.key =>
                   q.says = r.says /\ (q.active => r.active)
<1>1. FileTypeOK /\ CasesHaveRows /\ KeysAreOwn /\ NothingReadIsWeakened
  BY DEF FileIInv
<1>2. PICK more \in Supplemented(c) :
        /\ KeysFree(c, Deduped(Found(c) \o more))
        /\ rows' = [rows EXCEPT
             ![c] = Replaced(c, Deduped(Found(c) \o more))]
        /\ basis' = [basis EXCEPT ![c] = Found(c) \o more]
        /\ UNCHANGED <<month, pr, case, versions>>
  BY DEF Extract
<1> DEFINE items == Found(c) \o more
           new == Deduped(items)
<1>3. items \in Seq(Statements)
  <2>1. more \in Seq(Statements)
    BY SupplementIsSeq
  <2> QED BY <1>1, <2>1, FoundIsSeq
<1>4. /\ rows' = [rows EXCEPT ![c] = Replaced(c, new)]
      /\ basis' = [basis EXCEPT ![c] = items]
  BY <1>2
<1> HIDE DEF items
<1>5. /\ Replaced(c, new) \in SUBSET Requirement
      /\ {r \in Replaced(c, new) : r.active} = new
      /\ \A r \in rows[c] : \E q \in Replaced(c, new) : q.key = r.key
      /\ \A q \in Replaced(c, new) :
           \/ q \in new
           \/ \E r \in rows[c] :
                q = [key |-> r.key, says |-> r.says, active |-> FALSE]
  BY <1>1, <1>3, ReplacedRows
<1>6. new = {RequirementOf(items, i) : i \in Stated(items)}
  BY <1>3, DedupedRows
<1> HIDE DEF new
<1>7. /\ rows \in [CaseIds -> SUBSET Requirement]
      /\ basis \in [CaseIds -> Seq(Statements)]
  BY <1>1 DEF FileTypeOK
<1>8. FileTypeOK'
  <2>1. /\ rows' \in [CaseIds -> SUBSET Requirement]
        /\ basis' \in [CaseIds -> Seq(Statements)]
    BY <1>3, <1>4, <1>5, <1>7
  <2> QED BY <1>1, <1>2, <2>1 DEF FileTypeOK
<1>9. CasesHaveRows'
  BY <1>1, <1>2 DEF CasesHaveRows, NoCase
<1>10. \A q \in Replaced(c, new) : \A r \in rows[c] : q.key = r.key =>
         q = [key |-> r.key, says |-> r.says, active |-> FALSE]
  <2>1. TAKE q \in Replaced(c, new)
  <2>2. SUFFICES ASSUME NEW r \in rows[c], q.key = r.key
                 PROVE  q = [key |-> r.key, says |-> r.says, active |-> FALSE]
    OBVIOUS
  <2>3. q \notin new
    BY <1>2, <2>2 DEF KeysFree, Keys, new, items
  <2>4. PICK o \in rows[c] :
          q = [key |-> o.key, says |-> o.says, active |-> FALSE]
    BY <1>5, <2>3
  <2>5. o = r
    BY <1>1, <2>2, <2>4 DEF KeysAreOwn
  <2> QED BY <2>4, <2>5
<1>11. KeysAreOwn'
  <2>1. \A q, o \in Replaced(c, new) : q.key = o.key => q = o
    <3>1. TAKE q, o \in Replaced(c, new)
    <3>2. SUFFICES ASSUME q.key = o.key PROVE q = o
      OBVIOUS
    <3>3. CASE q \in new /\ o \in new
      <4>1. PICK i \in Stated(items) : q = RequirementOf(items, i)
        BY <1>6, <3>3
      <4>2. PICK j \in Stated(items) : o = RequirementOf(items, j)
        BY <1>6, <3>3
      <4>3. i \in DOMAIN items /\ j \in DOMAIN items
        BY DEF Stated
      <4>4. q.key = KeyOf(items, i) /\ o.key = KeyOf(items, j)
        BY <1>3, <4>1, <4>2, <4>3, RequirementIsOf
      <4> QED BY <1>3, <3>2, <4>1, <4>2, <4>3, <4>4, RequirementsDiffer
    <3>4. CASE q \notin new
      <4>1. PICK r \in rows[c] :
              q = [key |-> r.key, says |-> r.says, active |-> FALSE]
        BY <1>5, <3>4
      <4>2. o.key = r.key
        BY <3>2, <4>1
      <4> QED BY <1>10, <4>1, <4>2
    <3>5. CASE o \notin new
      <4>1. PICK r \in rows[c] :
              o = [key |-> r.key, says |-> r.says, active |-> FALSE]
        BY <1>5, <3>5
      <4>2. q.key = r.key
        BY <3>2, <4>1
      <4> QED BY <1>10, <4>1, <4>2
    <3> QED BY <3>3, <3>4, <3>5
  <2>2. SUFFICES ASSUME NEW d \in CaseIds
                 PROVE  \A r, q \in rows'[d] : r.key = q.key => r = q
    BY DEF KeysAreOwn
  <2>3. CASE d # c
    BY <1>1, <1>4, <1>7, <2>3 DEF KeysAreOwn
  <2>4. CASE d = c
    BY <1>4, <1>7, <2>1, <2>4
  <2> QED BY <2>3, <2>4
<1>12. \A d \in CaseIds : \A r \in rows[d] :
         /\ \E q \in rows'[d] : q.key = r.key
         /\ \A q \in rows'[d] : q.key = r.key =>
              q.says = r.says /\ (q.active => r.active)
  <2>1. TAKE d \in CaseIds
  <2>2. CASE d # c
    BY <1>1, <1>4, <1>7, <2>2 DEF KeysAreOwn
  <2>3. CASE d = c
    <3>1. rows'[d] = Replaced(c, new)
      BY <1>4, <1>7, <2>3
    <3> QED BY <1>5, <1>10, <2>3, <3>1
  <2> QED BY <2>2, <2>3
<1>13. NothingReadIsWeakened'
  <2>1. SUFFICES ASSUME NEW d \in CaseIds, NEW i \in Stated(basis'[d])
                 PROVE  \E r \in Active(d)' :
                          /\ r.says.about = basis'[d][i].about
                          /\ r.says.binding >= basis'[d][i].binding
                          /\ \A o \in Active(d)' \ {r} :
                               o.key # r.key /\ o.says.about # r.says.about
    BY DEF NothingReadIsWeakened
  <2>2. CASE d # c
    <3>1. Active(d)' = Active(d) /\ basis'[d] = basis[d]
      BY <1>4, <1>7, <2>2 DEF Active
    <3> QED BY <1>1, <2>1, <3>1 DEF NothingReadIsWeakened
  <2>3. CASE d = c
    <3>1. Active(d)' = new /\ basis'[d] = items
      BY <1>4, <1>5, <1>7, <2>3 DEF Active
    <3>2. i \in Stated(items) /\ i \in DOMAIN items
      BY <2>1, <3>1 DEF Stated
    <3> DEFINE r == RequirementOf(items, i)
    <3>3. /\ r \in new
          /\ r.says.about = items[i].about
          /\ r.says.binding >= items[i].binding
      BY <1>3, <1>6, <3>2, RequirementIsOf
    <3>4. \A o \in new \ {r} : o.key # r.key /\ o.says.about # r.says.about
      <4>1. TAKE o \in new \ {r}
      <4>2. PICK j \in Stated(items) : o = RequirementOf(items, j)
        BY <1>6
      <4> j \in DOMAIN items
        BY DEF Stated
      <4>3. /\ KeyOf(items, i) # KeyOf(items, j)
            /\ items[i].about # items[j].about
        BY <1>3, <3>2, <4>1, <4>2, RequirementsDiffer
      <4>4. /\ r.key = KeyOf(items, i) /\ r.says.about = items[i].about
            /\ o.key = KeyOf(items, j) /\ o.says.about = items[j].about
        BY <1>3, <3>2, <4>2, RequirementIsOf
      <4> HIDE DEF r
      <4> QED BY <4>3, <4>4
    <3> HIDE DEF r
    <3> QED BY <3>1, <3>3, <3>4
  <2> QED BY <2>2, <2>3
<1> QED BY <1>8, <1>9, <1>11, <1>12, <1>13 DEF FileIInv

LEMMA FileNextIInv ==
  FileIInv /\ [FileNext]_fileVars => FileIInv'
<1> SUFFICES ASSUME FileIInv, [FileNext]_fileVars PROVE FileIInv'
  OBVIOUS
<1>1. CASE UNCHANGED fileVars
  <2>1. UNCHANGED <<month, pr, case, versions, rows, basis>>
    BY <1>1 DEF fileVars
  <2>2. CasesHaveRows'
    BY <2>1 DEF FileIInv, CasesHaveRows, NoCase
  <2> QED BY <2>1, <2>2, RowsKeptIInv DEF FileIInv, FileTypeOK
<1>2. CASE NextMonth
  <2>1. month' \in Months
    BY <1>2, FileAssumption DEF NextMonth, FileIInv, FileTypeOK, Months
  <2>2. CasesHaveRows'
    BY <1>2 DEF FileIInv, CasesHaveRows, NoCase, NextMonth
  <2> QED BY <1>2, <2>1, <2>2, RowsKeptIInv DEF NextMonth, FileIInv, FileTypeOK
<1>3. ASSUME NEW r \in Requisitions, NEW c \in CaseIds, Intake(r, c)
      PROVE  FileIInv'
  BY <1>3, IntakeIInv
<1>4. ASSUME NEW c \in CaseIds, Move(c) PROVE FileIInv'
  BY <1>4, MoveIInv
<1>5. ASSUME NEW c \in CaseIds, Extract(c) PROVE FileIInv'
  BY <1>5, ExtractIInv
<1>6. ASSUME NEW c \in CaseIds, NEW s \in Specs, Ingest(c, s) PROVE FileIInv'
  BY <1>6, IngestIInv
<1> QED BY <1>1, <1>2, <1>3, <1>4, <1>5, <1>6 DEF FileNext

\* The types hold in every reachable state.
THEOREM FileTypeCorrect == FileSpec => []FileTypeOK
<1>1. FileIInv => FileTypeOK
  BY DEF FileIInv
<1> QED BY FileInitIInv, FileNextIInv, <1>1, PTL DEF FileSpec

\* Each statement of the last extraction has one requirement in force about
\* the same thing, no less binding, and no two requirements share a key.
THEOREM StatementsKeepTheirForce == FileSpec => []NothingReadIsWeakened
<1>1. FileIInv => NothingReadIsWeakened
  BY DEF FileIInv
<1> QED BY FileInitIInv, FileNextIInv, <1>1, PTL DEF FileSpec

\* A case that has moved on is not opened again by another requisition.
THEOREM MovedCaseStaysItsOwn == FileSpec => MovedCaseIsKept
<1>1. ASSUME FileIInv, [FileNext]_fileVars, NEW c \in CaseIds,
             case[c].version > 1
      PROVE  case'[c].from = case[c].from
  <2>1. FileTypeOK /\ case \in [CaseIds -> {NoCase} \cup CaseRow]
    BY <1>1 DEF FileIInv, FileTypeOK
  <2>2. case[c] # NoCase /\ case[c].version \in Nat
    BY <1>1, <2>1, NoCaseIsNone, FileAssumption
  <2>3. CASE UNCHANGED case
    BY <2>3
  <2>4. ASSUME NEW r \in Requisitions, NEW k \in CaseIds, Intake(r, k)
        PROVE  case'[c] = case[c]
    <3>1. k # c
      <4>1. MayOpen(k)
        BY <2>4 DEF Intake
      <4> QED BY <1>1, <2>2, <4>1 DEF MayOpen
    <3> QED BY <2>1, <2>4, <3>1 DEF Intake
  <2>5. ASSUME NEW k \in CaseIds, Move(k)
        PROVE  case'[c].from = case[c].from
    BY <1>1, <2>2, <2>5, MoveIInv
  <2>6. ASSUME NEW k \in CaseIds, Extract(k) PROVE UNCHANGED case
    BY <2>6 DEF Extract
  <2>7. ASSUME NEW k \in CaseIds, NEW s \in Specs, Ingest(k, s)
        PROVE  UNCHANGED case
    BY <2>7 DEF Ingest
  <2>8. NextMonth \/ UNCHANGED fileVars => UNCHANGED case
    BY DEF NextMonth, fileVars
  <2> QED BY <1>1, <2>3, <2>4, <2>5, <2>6, <2>7, <2>8 DEF FileNext
<1>2. FileIInv /\ [FileNext]_fileVars =>
        [\A c \in CaseIds :
           case[c].version > 1 => case'[c].from = case[c].from]_fileVars
  BY <1>1
<1> QED BY FileInitIInv, FileNextIInv, <1>2, PTL DEF FileSpec, MovedCaseIsKept

\* Whatever is extracted later, a requirement stays on file as it was stated,
\* under its own key, and never comes back in force.
THEOREM RequirementsStayOnFile == FileSpec => RequirementsResolve
<1>1. ASSUME FileIInv, [FileNext]_fileVars, NEW c \in CaseIds,
             NEW r \in rows[c]
      PROVE  /\ \E q \in rows'[c] : q.key = r.key
             /\ \A q \in rows'[c] : q.key = r.key =>
                  q.says = r.says /\ (q.active => r.active)
  <2>1. KeysAreOwn
    BY <1>1 DEF FileIInv
  <2>2. CASE UNCHANGED rows
    BY <1>1, <2>1, <2>2 DEF KeysAreOwn
  <2>3. ASSUME NEW k \in CaseIds, Extract(k)
        PROVE  /\ \E q \in rows'[c] : q.key = r.key
               /\ \A q \in rows'[c] : q.key = r.key =>
                    q.says = r.says /\ (q.active => r.active)
    BY <1>1, <2>3, ExtractIInv
  <2>4. ASSUME NEW x \in Requisitions, NEW k \in CaseIds, Intake(x, k)
        PROVE  UNCHANGED rows
    BY <2>4 DEF Intake
  <2>5. ASSUME NEW k \in CaseIds, Move(k) PROVE UNCHANGED rows
    BY <2>5 DEF Move
  <2>6. ASSUME NEW k \in CaseIds, NEW x \in Specs, Ingest(k, x)
        PROVE  UNCHANGED rows
    BY <2>6 DEF Ingest
  <2>7. NextMonth \/ UNCHANGED fileVars => UNCHANGED rows
    BY DEF NextMonth, fileVars
  <2> QED BY <1>1, <2>2, <2>3, <2>4, <2>5, <2>6, <2>7 DEF FileNext
<1>2. FileIInv /\ [FileNext]_fileVars =>
        [\A c \in CaseIds : \A r \in rows[c] :
           /\ \E q \in rows'[c] : q.key = r.key
           /\ \A q \in rows'[c] : q.key = r.key =>
                q.says = r.says /\ (q.active => r.active)]_fileVars
  BY <1>1
<1> QED BY FileInitIInv, FileNextIInv, <1>2, PTL
        DEF FileSpec, RequirementsResolve

-----------------------------------------------------------------------------
(* SourcingBasis: lemmas about prices and records *)

LEMMA InfoRecordIsRecord ==
  ASSUME NEW m \in Codes, NEW v \in Vendors,
         NEW pl \in Plants \cup {EveryPlant},
         NEW amount \in Nat \ {0}, NEW s \in Nat, NEW a \in BOOLEAN,
         NEW n \in Nat
  PROVE  [material |-> m, vendor |-> v, plant |-> pl, price |-> amount,
          since |-> s, active |-> a, next |-> n] \in InfoRecord
BY DEF InfoRecord

LEMMA RetiredIsRecord ==
  ASSUME NEW x \in InfoRecord, NEW n \in Nat
  PROVE  /\ Retired(x, n) \in InfoRecord
         /\ SameKey(Retired(x, n), x) /\ SameKey(x, Retired(x, n))
         /\ Retired(x, n).since = x.since /\ Retired(x, n).plant = x.plant
         /\ Retired(x, n).active = FALSE
         /\ Retired(x, n).next = n
<1> DEFINE b == FALSE
           y == [x EXCEPT !.active = b]
<1>1. b \in BOOLEAN
  OBVIOUS
<1> HIDE DEF b
<1>2. y = [material |-> x.material, vendor |-> x.vendor, plant |-> x.plant,
           price |-> x.price, since |-> x.since, active |-> b,
           next |-> x.next]
  BY DEF InfoRecord
<1>3. y \in InfoRecord
  BY <1>1, <1>2 DEF InfoRecord
<1>4. Retired(x, n) = [y EXCEPT !.next = n]
  BY DEF Retired, b
<1> HIDE DEF y
<1>5. [y EXCEPT !.next = n]
        = [material |-> y.material, vendor |-> y.vendor, plant |-> y.plant,
           price |-> y.price, since |-> y.since, active |-> y.active,
           next |-> n]
  BY <1>3 DEF InfoRecord
<1>6. Retired(x, n)
        = [material |-> x.material, vendor |-> x.vendor, plant |-> x.plant,
           price |-> x.price, since |-> x.since, active |-> b, next |-> n]
  BY <1>2, <1>4, <1>5
<1>7. Retired(x, n) \in InfoRecord
  BY <1>1, <1>6 DEF InfoRecord
<1> QED BY <1>6, <1>7 DEF SameKey, b

LEMMA ExceptProposal ==
  ASSUME NEW x \in Proposal, NEW n
  PROVE  [x EXCEPT !.record = n]
           = [case |-> x.case, material |-> x.material, vendor |-> x.vendor,
              plant |-> x.plant, price |-> x.price, existing |-> x.existing,
              record |-> n]
BY DEF Proposal

LEMMA ProposalIsRecord ==
  ASSUME NEW c \in Cases, NEW m \in Codes, NEW v \in Vendors,
         NEW pl \in Plants, NEW amount \in Prices, NEW e \in Nat, NEW r \in Nat
  PROVE  [case |-> c, material |-> m, vendor |-> v, plant |-> pl,
          price |-> amount, existing |-> e, record |-> r] \in Proposal
BY DEF Proposal

LEMMA LineIsLine ==
  ASSUME NEW c \in Cases
  PROVE  Line[c] \in Lines /\ Line[c].plant \in Plants /\ Line[c].code \in Codes
BY BasisAssumption DEF Lines, Codes

LEMMA ToBaseIsNatural ==
  ASSUME NEW r \in InfoRecord PROVE ToBase(r) \in Nat
<1>1. r.price \in Nat /\ r.vendor \in Vendors
  BY DEF InfoRecord
<1>2. Rate[r.vendor] \in Nat
  BY <1>1, BasisAssumption
<1> QED BY <1>1, <1>2 DEF ToBase

LEMMA PricesAreNatural ==
  ASSUME NEW H \in SUBSET History
  PROVE  PricesOf(H) \in SUBSET Nat /\ IsFiniteSet(H)
<1>1. \A h \in H : h.price \in Nat
  BY BasisAssumption DEF Purchases
<1>2. IsFiniteSet(H)
  BY BasisAssumption, FS_Subset
<1> QED BY <1>1, <1>2 DEF PricesOf

LEMMA FinitePrices ==
  ASSUME NEW H, IsFiniteSet(H) PROVE IsFiniteSet(PricesOf(H))
<1> DEFINE f == [h \in H |-> h.price]
<1>1. f \in Surjection(H, PricesOf(H))
  BY DEF Surjection, PricesOf
<1> QED BY <1>1, FS_Surjection

\* There is a middle price where anything was paid.
LEMMA MedianIsNatural ==
  ASSUME NEW H \in SUBSET History, H # {}
  PROVE  Median(H) \in Nat
<1> DEFINE half == Cardinality(H) \div 2
           Q == {p \in PricesOf(H) : half < Cardinality(AtMost(H, p))}
<1>1. PricesOf(H) \in SUBSET Nat /\ IsFiniteSet(H) /\ PricesOf(H) # {}
  BY PricesAreNatural DEF PricesOf
<1>2. PICK top \in PricesOf(H) : \A p \in PricesOf(H) : p <= top
  BY <1>1, FinitePrices, GreatestOfFinite
<1>3. AtMost(H, top) = H
  BY <1>2 DEF AtMost, PricesOf
<1>4. half < Cardinality(H)
  <2>1. Cardinality(H) \in Nat /\ Cardinality(H) # 0
    BY <1>1, FS_EmptySet, FS_CardinalityType
  <2> QED BY <2>1
<1>5. top \in Q
  BY <1>3, <1>4
<1>6. PICK p \in Q : \A q \in Q : p <= q
  BY <1>1, <1>5, LeastNatural
<1>7. \E x \in PricesOf(H) :
        /\ half < Cardinality(AtMost(H, x))
        /\ \A q \in PricesOf(H) : half < Cardinality(AtMost(H, q)) => x <= q
  BY <1>6
<1>8. Median(H) \in PricesOf(H)
  BY <1>7 DEF Median
<1> QED BY <1>1, <1>8

-----------------------------------------------------------------------------
(* SourcingBasis: the benchmark *)

LEMMA MaxOfTwo ==
  ASSUME NEW a \in Nat, NEW b \in Nat PROVE Max({a, b}) \in Nat
<1>1. \E x \in {a, b} : \A y \in {a, b} : x >= y
  OBVIOUS
<1> QED BY <1>1 DEF Max

LEMMA ProductIsNatural ==
  ASSUME NEW a \in Nat, NEW b \in Nat PROVE a * b \in Nat
OBVIOUS

LEMMA ReferenceIsNatural ==
  ASSUME BasisTypeOK, NEW code, NEW plant \in Plants
  PROVE  Reference(code, plant) \in Nat
<1> DEFINE H == Window(code, plant)
           R == InForceFor(code)
<1>1. R \subseteq InfoRecord
  BY DEF BasisTypeOK, InForceFor
<1>2. H \in SUBSET History
  BY DEF Window
<1>3. CASE R # {}
  <2> DEFINE P == {ToBase(r) : r \in R}
  <2>1. P \in SUBSET Nat /\ P # {}
    BY <1>1, <1>3, ToBaseIsNatural
  <2>2. Reference(code, plant) = Min(P)
    BY <1>3 DEF Reference, Cheapest
  <2>3. Min(P) \in P
    BY <2>1, MinOfNaturals
  <2> QED BY <2>1, <2>2, <2>3
<1>4. CASE R = {}
  <2>1. CASE code \notin Materials
    BY <1>4, <2>1 DEF Reference
  <2>2. CASE code \in Materials
    <3>1. CurvePrice(code) \in Nat /\ Book[code][plant] \in Nat
      BY <2>2, BasisAssumption DEF CurvePrice
    <3>2. H # {} => Median(H) \in Nat
      BY <1>2, MedianIsNatural
    <3> HIDE DEF H
    <3>3. Reference(code, plant) \in
            {CurvePrice(code), Median(H), Book[code][plant]}
      BY <1>4, <2>2 DEF Reference, H
    <3>4. H = {} => Reference(code, plant) = Book[code][plant]
      BY <1>4, <2>2 DEF Reference, H
    <3> QED BY <1>4, <3>1, <3>2, <3>3, <3>4
  <2> QED BY <2>1, <2>2
<1> QED BY <1>3, <1>4

LEMMA ShouldCostIsNatural ==
  ASSUME NEW code, NEW plant PROVE ShouldCost(code, plant) \in Nat
<1> DEFINE H == Window(code, plant)
           P == PricesOf(H) \cup ({CurvePrice(code)} \ {0})
<1>1. CASE H = {}
  BY <1>1 DEF ShouldCost
<1>2. CASE H # {}
  <2>1. H \in SUBSET History
    BY DEF Window
  <2>2. PricesOf(H) \in SUBSET Nat /\ PricesOf(H) # {}
    BY <1>2, <2>1, PricesAreNatural DEF PricesOf
  <2>3. code \in Materials
    BY <1>2, BasisAssumption DEF Window, Purchases
  <2>4. CurvePrice(code) \in Nat
    BY <2>3, BasisAssumption DEF CurvePrice
  <2>5. P \in SUBSET Nat /\ P # {}
    BY <2>2, <2>4
  <2>6. ShouldCost(code, plant) = Min(P)
    BY <1>2 DEF ShouldCost
  <2> QED BY <2>5, <2>6, MinOfNaturals
<1> QED BY <1>1, <1>2

LEMMA BenchmarkIsBenchmark ==
  ASSUME BasisTypeOK, NEW c \in Cases
  PROVE  BenchmarkOf(c) \in Benchmark
<1> DEFINE r == Reference(Line[c].code, Line[c].plant)
           s == ShouldCost(Line[c].code, Line[c].plant)
           t == Max({r * (100 - TargetPct), s * 100})
<1>1. r \in Nat
  BY LineIsLine, ReferenceIsNatural
<1>2. s \in Nat
  BY ShouldCostIsNatural
<1>3. t \in Nat
  <2>1. 100 - TargetPct \in Nat
    BY BasisAssumption
  <2>2. r * (100 - TargetPct) \in Nat
    BY <1>1, <2>1, ProductIsNatural
  <2>3. s * 100 \in Nat
    BY <1>2
  <2> QED BY <2>2, <2>3, MaxOfTwo
<1>4. CASE r = 0
  <2>1. BenchmarkOf(c) = [NoBenchmark EXCEPT !.should = s]
    BY <1>4 DEF BenchmarkOf
  <2> HIDE DEF s
  <2>2. BenchmarkOf(c) = [reference |-> 0, should |-> s, target |-> 0]
    BY <2>1 DEF NoBenchmark
  <2> QED BY <1>1, <1>2, <1>4, <2>2 DEF Benchmark
<1>5. CASE r # 0
  <2>1. BenchmarkOf(c) = [reference |-> r, should |-> s, target |-> t]
    BY <1>5 DEF BenchmarkOf
  <2> HIDE DEF r, s, t
  <2> QED BY <1>1, <1>2, <1>3, <2>1 DEF Benchmark
<1> QED BY <1>4, <1>5

-----------------------------------------------------------------------------
(* SourcingBasis: the agent's choice *)

\* The best of the able are no more than the limit: of those chosen the one
\* that scores least has the others above it.
LEMMA ChosenWithinLimit ==
  ASSUME NEW c \in Cases
  PROVE  /\ IsFiniteSet(Chosen(c))
         /\ Cardinality(Chosen(c)) <= Limit
<1> USE DEF Candidates
<1>1. CASE FixedSource(c) # {}
  <2>1. PICK v : Chosen(c) = {v}
    BY <1>1 DEF Chosen
  <2>2. IsFiniteSet({v}) /\ Cardinality({v}) = 1
    BY FS_Singleton
  <2> QED BY <2>1, <2>2, BasisAssumption
<1>2. CASE FixedSource(c) = {}
  <2> DEFINE A == Able(c)
             T == {v \in A : Cardinality({w \in A : Score[w] > Score[v]})
                               < Limit}
  <2>1. Chosen(c) = T
    BY <1>2 DEF Chosen
  <2>2. A \subseteq Vendors /\ IsFiniteSet(A)
    BY BasisAssumption, FS_Subset DEF Able
  <2>3. IsFiniteSet(T)
    BY <2>2, FS_Subset
  <2>3a. T \subseteq A
         /\ \A v \in T : Cardinality({w \in A : Score[w] > Score[v]}) < Limit
    OBVIOUS
  <2> HIDE DEF T, A
  <2>4. CASE T = {}
    <3>1. Cardinality(T) = 0
      BY <2>4, FS_EmptySet
    <3> QED BY <2>1, <2>3, <3>1, BasisAssumption
  <2>5. CASE T # {}
    <3> DEFINE N == {Score[v] : v \in T}
    <3>1. N \in SUBSET Nat /\ N # {}
      <4>1. Score \in [Vendors -> Nat]
        BY BasisAssumption
      <4> QED BY <2>2, <2>3a, <2>5, <4>1
    <3>2. PICK x \in N : \A y \in N : x <= y
      BY <3>1, LeastNatural
    <3>3. PICK m \in T : x = Score[m]
      BY <3>2
    <3> DEFINE B == {w \in A : Score[w] > Score[m]}
    <3>4. T \ {m} \subseteq B
      <4>1. SUFFICES ASSUME NEW w \in T, w # m PROVE Score[w] > Score[m]
        BY <2>3a
      <4>2. Score[m] <= Score[w]
        BY <3>2, <3>3
      <4>3. Score[w] # Score[m]
        BY <2>2, <2>3a, <4>1, BasisAssumption DEF IsInjective
      <4>4. Score[w] \in Nat /\ Score[m] \in Nat
        BY <2>2, <2>3a, BasisAssumption
      <4> QED BY <2>3a, <4>2, <4>3, <4>4
    <3>5. IsFiniteSet(B)
      BY <2>2, FS_Subset
    <3>6. Cardinality(B) < Limit
      BY <2>3a
    <3>7. Cardinality(T \ {m}) <= Cardinality(B)
      BY <3>4, <3>5, FS_Subset
    <3>8. Cardinality(T \ {m}) = Cardinality(T) - 1
      BY <2>3, FS_RemoveElement
    <3>9. Cardinality(B) \in Nat /\ Cardinality(T) \in Nat
      BY <2>3, <3>5, FS_CardinalityType
    <3> QED BY <2>1, <2>3, <3>6, <3>7, <3>8, <3>9, BasisAssumption
  <2> QED BY <2>4, <2>5
<1> QED BY <1>1, <1>2

AgentsRows(l, c) ==
  {v \in Vendors : l[c][v] = [selected |-> TRUE, by |-> "AGENT"]}

\* What the agent has selected is what it chose, or was selected before.
LEMMA RebuiltRows ==
  ASSUME BasisTypeOK, NEW c \in Cases
  PROVE  /\ Rebuilt(c) \in [Cases -> [Vendors -> ShortlistRow]]
         /\ AgentsRows(Rebuilt(c), c) \subseteq Chosen(c)
         /\ \A d \in Cases \ {c} :
              AgentsRows(Rebuilt(c), d) = AgentsRows(list, d)
         /\ \A d \in Cases, v \in Vendors :
              list[d][v].by = "PERSON" => Rebuilt(c)[d][v].by = "PERSON"
<1> DEFINE row(v) == IF v \in Candidates(c)
             THEN [selected |-> v \in Chosen(c),
                   by |-> IF list[c][v] = NoRow THEN "AGENT" ELSE list[c][v].by]
             ELSE KeptRow(list[c][v])
<1>1. \A v \in Vendors : list[c][v] \in ShortlistRow
  BY DEF BasisTypeOK
<1>2. \A v \in Vendors : row(v) \in ShortlistRow
  <2>1. TAKE v \in Vendors
  <2>2. CASE v \in Candidates(c)
    <3> DEFINE b == v \in Chosen(c)
               p == IF list[c][v] = NoRow THEN "AGENT" ELSE list[c][v].by
    <3>1. b \in BOOLEAN
      OBVIOUS
    <3>2. p \in {"AGENT", "PERSON", Nobody}
      BY <1>1 DEF ShortlistRow
    <3>3. row(v) = [selected |-> b, by |-> p]
      BY <2>2
    <3> HIDE DEF b, p, row
    <3> QED BY <3>1, <3>2, <3>3 DEF ShortlistRow
  <2>3. CASE v \notin Candidates(c)
    BY <1>1, <2>3 DEF KeptRow, NoRow, ShortlistRow
  <2> QED BY <2>2, <2>3
<1>3. /\ Rebuilt(c) = [list EXCEPT ![c] = [v \in Vendors |-> row(v)]]
      /\ list \in [Cases -> [Vendors -> ShortlistRow]]
  BY DEF Rebuilt, BasisTypeOK
<1>4. \A v \in Vendors :
        /\ row(v) = [selected |-> TRUE, by |-> "AGENT"] => v \in Chosen(c)
        /\ list[c][v].by = "PERSON" => row(v).by = "PERSON"
  <2>1. TAKE v \in Vendors
  <2>2. CASE v \in Candidates(c)
    <3> DEFINE b == v \in Chosen(c)
               p == IF list[c][v] = NoRow THEN "AGENT" ELSE list[c][v].by
    <3>1. row(v) = [selected |-> b, by |-> p]
      BY <2>2
    <3>2. list[c][v].by = "PERSON" => p = "PERSON"
      BY DEF NoRow, Nobody
    <3>3. row(v).selected = b /\ row(v).by = p
      BY <3>1
    <3> HIDE DEF row, b, p
    <3>4. row(v) = [selected |-> TRUE, by |-> "AGENT"] => b = TRUE
      <4>1. SUFFICES ASSUME row(v) = [selected |-> TRUE, by |-> "AGENT"]
                     PROVE  b = TRUE
        OBVIOUS
      <4>2. row(v).selected = TRUE
        BY <4>1
      <4> QED BY <3>3, <4>2, Zenon
    <3>5. b = TRUE => v \in Chosen(c)
      BY DEF b
    <3> QED BY <3>2, <3>3, <3>4, <3>5
  <2>3. CASE v \notin Candidates(c)
    BY <1>1, <2>3 DEF KeptRow, NoRow, ShortlistRow, Nobody
  <2> QED BY <2>2, <2>3
<1> HIDE DEF row
<1>5. Rebuilt(c) \in [Cases -> [Vendors -> ShortlistRow]]
  BY <1>2, <1>3
<1>6. /\ \A v \in Vendors : Rebuilt(c)[c][v] = row(v)
      /\ \A d \in Cases \ {c} : Rebuilt(c)[d] = list[d]
  BY <1>3
<1> QED BY <1>4, <1>5, <1>6 DEF AgentsRows

-----------------------------------------------------------------------------
(* SourcingBasis: the inductive invariant *)

\* A record written back names its award and a plant of its own; those that
\* were there before name no award.
AgeOfRecords ==
  /\ Len(Seeds) <= Len(book)
  /\ \A k \in DOMAIN book :
       IF k \in WrittenBack
       THEN book[k].since \in 1..Len(proposals) /\ book[k].plant \in Plants
       ELSE book[k].since = 0

\* The types, two of the invariants and the age of the records together are
\* inductive: by its age a record that was written back is preferred to one
\* that was there before, so it is the one that is superseded; and what a
\* shortlist holds in the agent's name is what it chose or less.
BasisIInv ==
  /\ BasisTypeOK
  /\ PricesFollowAwards
  /\ AgeOfRecords
  /\ AgentKeepsToTheLimit

LEMMA BasisInitIInv ==
  BasisInit => BasisIInv
<1> SUFFICES ASSUME BasisInit PROVE BasisIInv
  OBVIOUS
<1> USE DEF BasisInit
<1>1. /\ book \in Seq(InfoRecord)
      /\ \A k \in DOMAIN book :
           book[k].active /\ book[k].next = 0 /\ book[k].since = 0
  BY BasisAssumption
<1>2. BasisTypeOK
  <2>1. master \in [Materials -> MasterRow]
    <3>1. \A d \in BOOLEAN :
            [buyable |-> TRUE, plants |-> Plants, described |-> d] \in MasterRow
      BY DEF MasterRow
    <3> QED BY <3>1
  <2>2. stage \in [Cases -> Stages] /\ fit \in SUBSET Vendors
    BY DEF Stages
  <2>3. bench \in [Cases -> Benchmark]
    BY DEF Benchmark, NoBenchmark
  <2>4. list \in [Cases -> [Vendors -> ShortlistRow]]
    BY DEF ShortlistRow, NoRow
  <2>5. edits \in 0..MaxEdits
    BY BasisAssumption
  <2>6. proposals \in Seq(Proposal) /\ proposals = <<>>
    OBVIOUS
  <2> QED BY <1>1, <2>1, <2>2, <2>3, <2>4, <2>5, <2>6 DEF BasisTypeOK
<1>3. PricesFollowAwards /\ AgeOfRecords
  <2>1. book = Seeds /\ Len(book) \in Nat /\ DOMAIN book = 1..Len(book)
    BY <1>1
  <2>2. WrittenBack = {}
    BY <2>1 DEF WrittenBack
  <2> QED BY <1>1, <2>1, <2>2 DEF PricesFollowAwards, AgeOfRecords
<1>4. AgentKeepsToTheLimit
  <2>1. \A c \in Cases : AgentsRows(list, c) = {}
    BY DEF AgentsRows, NoRow, Nobody
  <2>2. \A c \in Cases : Cardinality(AgentsRows(list, c)) = 0
    BY <2>1, FS_EmptySet
  <2>3. \A c \in Cases : Cardinality(AgentsRows(list, c)) <= Limit
    <3>1. Limit \in Nat
      BY BasisAssumption
    <3> QED BY <2>2, <3>1
  <2> QED BY <2>3 DEF AgentKeepsToTheLimit, AgentsRows
<1> QED BY <1>2, <1>3, <1>4 DEF BasisIInv

LEMMA LimitIsKept ==
  ASSUME AgentKeepsToTheLimit, NEW l,
         \A c \in Cases : \/ AgentsRows(l, c) \subseteq AgentsRows(list, c)
                          \/ AgentsRows(l, c) \subseteq Chosen(c)
  PROVE  \A c \in Cases : Cardinality(AgentsRows(l, c)) <= Limit
<1> TAKE c \in Cases
<1>1. IsFiniteSet(AgentsRows(list, c)) /\ IsFiniteSet(AgentsRows(l, c))
  BY BasisAssumption, FS_Subset DEF AgentsRows
<1>2. Cardinality(AgentsRows(list, c)) <= Limit
  BY DEF AgentKeepsToTheLimit, AgentsRows
<1>3. IsFiniteSet(Chosen(c)) /\ Cardinality(Chosen(c)) <= Limit
  BY ChosenWithinLimit
<1>4. \E S : /\ AgentsRows(l, c) \subseteq S
             /\ IsFiniteSet(S) /\ Cardinality(S) <= Limit
  BY <1>1, <1>2, <1>3
<1>5. PICK S : /\ AgentsRows(l, c) \subseteq S
               /\ IsFiniteSet(S) /\ Cardinality(S) <= Limit
  BY <1>4
<1>6. Cardinality(AgentsRows(l, c)) <= Cardinality(S)
  BY <1>5, FS_Subset
<1>7. /\ Cardinality(AgentsRows(l, c)) \in Nat /\ Cardinality(S) \in Nat
      /\ Limit \in Nat
  BY <1>1, <1>5, FS_CardinalityType, BasisAssumption
<1> QED BY <1>5, <1>6, <1>7

\* The record in force covers what is asked for, and none that does is newer.
LEMMA InForceIsInForce ==
  ASSUME BasisTypeOK, AgeOfRecords, NEW p
  PROVE  /\ InForce(p) \in 0..Len(book)
         /\ InForce(p) # 0 => /\ book[InForce(p)].active
                              /\ Covers(book[InForce(p)], p)
         /\ \A j \in DOMAIN book :
              book[j].active /\ Covers(book[j], p) =>
                /\ InForce(p) # 0
                /\ book[j].since <= book[InForce(p)].since
<1> DEFINE K == {k \in DOMAIN book : book[k].active /\ Covers(book[k], p)}
           m == Len(proposals) + 1
<1>1. /\ Len(book) \in Nat /\ DOMAIN book = 1..Len(book) /\ m \in Nat
      /\ \A k \in DOMAIN book : book[k].since + 1 \in 1..m
  <2>1. Len(book) \in Nat /\ DOMAIN book = 1..Len(book)
        /\ Len(proposals) \in Nat
    BY DEF BasisTypeOK
  <2>2. \A k \in DOMAIN book : book[k].since \in 0..Len(proposals)
    BY <2>1 DEF AgeOfRecords
  <2> QED BY <2>1, <2>2
<1>2. CASE K = {}
  <2>1. InForce(p) = 0
    BY <1>2 DEF InForce
  <2> QED BY <1>1, <1>2, <2>1
<1>3. CASE K # {}
  <2> DEFINE S == {book[k].since + 1 : k \in K}
  <2>1. S \in SUBSET (1..m) /\ S # {}
    BY <1>1, <1>3
  <2>2. PICK x \in S : \A y \in S : y <= x
    BY <1>1, <2>1, GreatestNatural
  <2>3. PICK k \in K : x = book[k].since + 1
    BY <2>2
  <2>4. \A o \in K : book[o].since + 1 <= book[k].since + 1
    BY <2>2, <2>3
  <2>5. \A o \in K : book[o].since <= book[k].since
    <3>1. \A o \in K : book[o].since \in Nat
      <4>1. \A o \in DOMAIN book : book[o] \in InfoRecord
        BY DEF BasisTypeOK
      <4> QED BY <4>1 DEF InfoRecord
    <3> QED BY <2>4, <3>1
  <2>6. InForce(p) =
          CHOOSE q \in K : \A o \in K : book[o].since <= book[q].since
    BY <1>3 DEF InForce
  <2>7. /\ InForce(p) \in K
        /\ \A o \in K : book[o].since <= book[InForce(p)].since
    BY <2>5, <2>6
  <2> HIDE DEF m
  <2> QED BY <1>1, <2>7
<1> QED BY <1>2, <1>3

LEMMA EngineeringIInv ==
  ASSUME BasisIInv, NEW m \in Materials, Engineering(m)
  PROVE  BasisIInv'
<1>1. UNCHANGED <<fit, stage, bench, list, edits, proposals, book>>
  BY DEF Engineering
<1>2. master' \in [Materials -> MasterRow]
  <2>1. master \in [Materials -> MasterRow]
    BY DEF BasisIInv, BasisTypeOK
  <2>2. PICK r \in MasterRow : master' = [master EXCEPT ![m] = r]
    <3>1. CASE master' = [master EXCEPT ![m].described = TRUE]
      <4> DEFINE r == [master[m] EXCEPT !.described = TRUE]
      <4>1. master' = [master EXCEPT ![m] = r]
        BY <3>1
      <4>2. r \in MasterRow
        BY <2>1 DEF MasterRow
      <4> QED BY <4>1, <4>2
    <3>2. CASE master' = [master EXCEPT ![m].buyable = ~@]
      <4> DEFINE r == [master[m] EXCEPT !.buyable = ~@]
      <4>1. master' = [master EXCEPT ![m] = r]
        BY <3>2
      <4>2. r \in MasterRow
        BY <2>1 DEF MasterRow
      <4> QED BY <4>1, <4>2
    <3> QED BY <3>1, <3>2 DEF Engineering
  <2> QED BY <2>1, <2>2
<1> QED BY <1>1, <1>2 DEF BasisIInv, BasisTypeOK, PricesFollowAwards,
                         WrittenBack, AgeOfRecords, AgentKeepsToTheLimit

\* Of a step that touches neither the shortlists nor the info records.
LEMMA StageAndBenchIInv ==
  ASSUME BasisIInv, UNCHANGED <<master, list, edits, proposals, book>>,
         fit' \in SUBSET Vendors, stage' \in [Cases -> Stages],
         bench' \in [Cases -> Benchmark]
  PROVE  BasisIInv'
BY DEF BasisIInv, BasisTypeOK, PricesFollowAwards, WrittenBack,
       AgeOfRecords, AgentKeepsToTheLimit

\* Of a step that changes the shortlists only.
LEMMA ListIInv ==
  ASSUME BasisIInv, UNCHANGED <<master, fit, bench, proposals, book>>,
         edits' \in 0..MaxEdits, stage' \in [Cases -> Stages],
         list' \in [Cases -> [Vendors -> ShortlistRow]],
         \A c \in Cases : \/ AgentsRows(list', c) \subseteq AgentsRows(list, c)
                          \/ AgentsRows(list', c) \subseteq Chosen(c)
  PROVE  BasisIInv'
<1>1. AgentKeepsToTheLimit
  BY DEF BasisIInv
<1>2. \A c \in Cases : Cardinality(AgentsRows(list', c)) <= Limit
  BY <1>1, LimitIsKept
<1>3. AgentKeepsToTheLimit'
  BY <1>2 DEF AgentKeepsToTheLimit, AgentsRows
<1> QED BY <1>3 DEF BasisIInv, BasisTypeOK, PricesFollowAwards, WrittenBack,
                    AgeOfRecords

LEMMA TakeBenchmarkIInv ==
  ASSUME BasisIInv, NEW c \in Cases, TakeBenchmark(c)
  PROVE  BasisIInv'
<1>1. BasisTypeOK /\ BenchmarkOf(c) \in Benchmark
  BY BenchmarkIsBenchmark DEF BasisIInv
<1>2. PICK b \in Benchmark : bench' = [bench EXCEPT ![c] = b]
  <2>1. bench[c] \in Benchmark
    BY <1>1 DEF BasisTypeOK
  <2> QED BY <1>1, <2>1 DEF TakeBenchmark
<1>3. bench' \in [Cases -> Benchmark]
  BY <1>1, <1>2 DEF BasisTypeOK
<1>4. stage' \in [Cases -> Stages] /\ fit' \in SUBSET Vendors
  BY <1>1 DEF BasisTypeOK, TakeBenchmark, Stages
<1> QED BY <1>3, <1>4, StageAndBenchIInv DEF TakeBenchmark

LEMMA RebuildIInv ==
  ASSUME BasisIInv, NEW c \in Cases, Shortlist(c) \/ Rebuild(c)
  PROVE  BasisIInv'
<1>1. BasisTypeOK
  BY DEF BasisIInv
<1>2. list' = Rebuilt(c)
  BY DEF Shortlist, Rebuild
<1>3. list' \in [Cases -> [Vendors -> ShortlistRow]]
  BY <1>1, <1>2, RebuiltRows
<1>4. \A d \in Cases : \/ AgentsRows(list', d) \subseteq AgentsRows(list, d)
                       \/ AgentsRows(list', d) \subseteq Chosen(d)
  BY <1>1, <1>2, RebuiltRows
<1>5. stage' \in [Cases -> Stages] /\ edits' \in 0..MaxEdits
  BY <1>1 DEF BasisTypeOK, Shortlist, Rebuild, Stages
<1> QED BY <1>3, <1>4, <1>5, ListIInv DEF Shortlist, Rebuild

LEMMA SelectIInv ==
  ASSUME BasisIInv, NEW c \in Cases, NEW S \in SUBSET OnList(c), Select(c, S)
  PROVE  BasisIInv'
<1>1. BasisTypeOK
  BY DEF BasisIInv
<1> DEFINE row(v) == IF v \in OnList(c) THEN Decided(list[c][v], v \in S)
                     ELSE NoRow
<1>2. /\ list \in [Cases -> [Vendors -> ShortlistRow]]
      /\ list' = [list EXCEPT ![c] = [v \in Vendors |-> row(v)]]
  BY <1>1 DEF BasisTypeOK, Select
<1>3. \A v \in Vendors :
        /\ row(v) \in ShortlistRow
        /\ row(v).by = "AGENT" => row(v) = list[c][v]
  <2>1. TAKE v \in Vendors
  <2>2. list[c][v] \in ShortlistRow
    BY <1>2
  <2>3. CASE v \in OnList(c)
    <3> DEFINE b == v \in S
    <3>1. b \in BOOLEAN /\ row(v) = Decided(list[c][v], b)
      BY <2>3
    <3> HIDE DEF b, row
    <3> QED BY <2>2, <3>1 DEF Decided, ShortlistRow
  <2>4. CASE v \notin OnList(c)
    BY <2>4 DEF NoRow, ShortlistRow, Nobody
  <2> QED BY <2>3, <2>4
<1> HIDE DEF row
<1>4. list' \in [Cases -> [Vendors -> ShortlistRow]]
  BY <1>2, <1>3
<1>5. \A v \in Vendors : list'[c][v] = row(v)
  BY <1>2
<1>6. \A d \in Cases : AgentsRows(list', d) \subseteq AgentsRows(list, d)
  <2>1. TAKE d \in Cases
  <2>2. CASE d = c
    <3>1. SUFFICES ASSUME NEW v \in Vendors,
                          row(v) = [selected |-> TRUE, by |-> "AGENT"]
                   PROVE  list[c][v] = [selected |-> TRUE, by |-> "AGENT"]
      BY <1>5, <2>2 DEF AgentsRows
    <3>2. row(v).by = "AGENT"
      BY <3>1
    <3> QED BY <1>3, <3>1, <3>2
  <2>3. CASE d # c
    BY <1>2, <2>3 DEF AgentsRows
  <2> QED BY <2>2, <2>3
<1>7. edits' \in 0..MaxEdits /\ stage' \in [Cases -> Stages]
  BY <1>1, BasisAssumption DEF BasisTypeOK, Select
<1> QED BY <1>4, <1>6, <1>7, ListIInv DEF Select

LEMMA AddSupplierIInv ==
  ASSUME BasisIInv, NEW c \in Cases, NEW v \in Vendors, AddSupplier(c, v)
  PROVE  BasisIInv'
<1>1. BasisTypeOK
  BY DEF BasisIInv
<1> DEFINE r == [selected |-> TRUE, by |-> "PERSON"]
<1>2. /\ list \in [Cases -> [Vendors -> ShortlistRow]]
      /\ list' = [list EXCEPT ![c][v] = r]
  BY <1>1 DEF BasisTypeOK, AddSupplier
<1>3. r \in ShortlistRow /\ r # [selected |-> TRUE, by |-> "AGENT"]
  <2>1. r.by = "PERSON"
    OBVIOUS
  <2>2. [selected |-> TRUE, by |-> "AGENT"].by = "AGENT"
    OBVIOUS
  <2>3. r # [selected |-> TRUE, by |-> "AGENT"]
    BY <2>1, <2>2
  <2> QED BY <2>3 DEF ShortlistRow
<1> HIDE DEF r
<1>4. list' \in [Cases -> [Vendors -> ShortlistRow]]
  BY <1>2, <1>3
<1>5. \A d \in Cases, w \in Vendors :
        list'[d][w] = r \/ list'[d][w] = list[d][w]
  BY <1>2
<1>6. \A d \in Cases : AgentsRows(list', d) \subseteq AgentsRows(list, d)
  BY <1>3, <1>5 DEF AgentsRows
<1>7. edits' \in 0..MaxEdits /\ stage' \in [Cases -> Stages]
  BY <1>1, BasisAssumption DEF BasisTypeOK, AddSupplier
<1> QED BY <1>4, <1>6, <1>7, ListIInv DEF AddSupplier

\* A proposal of the agent's: for an awarded vendor, with the record in force.
LEMMA ProposeIInv ==
  ASSUME BasisIInv, NEW c \in Cases, NEW v \in Vendors, NEW price \in Prices,
         Propose(c, v, price)
  PROVE  BasisIInv'
<1> DEFINE b == 0
           p == [case |-> c, material |-> Line[c].code, vendor |-> v,
                 plant |-> Line[c].plant, price |-> price,
                 existing |-> b, record |-> b]
           e == InForce(p)
           q == [p EXCEPT !.existing = e]
<1>1. BasisTypeOK /\ PricesFollowAwards /\ AgeOfRecords /\ AgentKeepsToTheLimit
  BY DEF BasisIInv
<1>2. proposals' = Append(proposals, q)
  BY DEF Propose
<1>3. e \in 0..Len(book) /\ Len(book) \in Nat
  BY <1>1, InForceIsInForce DEF BasisTypeOK
<1>4. b \in 0..Len(book)
  BY <1>3
<1> HIDE DEF e, b
<1>5. q = [case |-> c, material |-> Line[c].code, vendor |-> v,
           plant |-> Line[c].plant, price |-> price,
           existing |-> e, record |-> b]
  OBVIOUS
<1>6. q \in Proposal
  BY <1>3, <1>4, <1>5, LineIsLine, ProposalIsRecord
<1>7. q.existing = e /\ q.record = b
  BY <1>5
<1> HIDE DEF q
<1>8. UNCHANGED <<master, fit, stage, bench, list, edits, book>>
  BY DEF Propose
<1>9. /\ proposals' \in Seq(Proposal)
      /\ \A i \in DOMAIN proposals' :
           /\ proposals'[i].existing \in 0..Len(book)
           /\ proposals'[i].record \in 0..Len(book)
  <2>1. proposals \in Seq(Proposal)
    BY <1>1 DEF BasisTypeOK
  <2>2. proposals' \in Seq(Proposal)
    BY <1>2, <1>6, <2>1
  <2>3. \A i \in DOMAIN proposals' :
          proposals'[i] = q \/ (i \in DOMAIN proposals
                                  /\ proposals'[i] = proposals[i])
    BY <1>2, <2>1
  <2> QED BY <1>1, <1>3, <1>4, <1>7, <2>2, <2>3 DEF BasisTypeOK
<1>10. BasisTypeOK'
  BY <1>1, <1>8, <1>9 DEF BasisTypeOK
<1>11. PricesFollowAwards' /\ AgentKeepsToTheLimit'
  BY <1>1, <1>8 DEF PricesFollowAwards, WrittenBack, AgentKeepsToTheLimit
<1>12. AgeOfRecords'
  <2>1. Len(proposals) \in Nat /\ Len(proposals') = Len(proposals) + 1
    BY <1>1, <1>2 DEF BasisTypeOK
  <2> QED BY <1>1, <1>8, <2>1 DEF AgeOfRecords, WrittenBack
<1> QED BY <1>10, <1>11, <1>12 DEF BasisIInv

\* What apply_info_record_proposal leaves: the record in force is retired in
\* favour of the new one, the others are as they were.
LEMMA ApplyIInv ==
  ASSUME BasisIInv, NEW i \in DOMAIN proposals, Apply(i)
  PROVE  BasisIInv'
<1> DEFINE p == proposals[i]
           k == InForce(p)
           n == Len(book) + 1
           a == TRUE
           z == 0
           new == [material |-> p.material, vendor |-> p.vendor,
                   plant |-> p.plant, price |-> p.price, since |-> i,
                   active |-> a, next |-> z]
           mid == IF k = 0 THEN book ELSE Superseded(k, n)
<1>1. BasisTypeOK /\ PricesFollowAwards /\ AgeOfRecords /\ AgentKeepsToTheLimit
  BY DEF BasisIInv
<1>2. /\ book' = Append(mid, new)
      /\ proposals' = [proposals EXCEPT ![i].record = n]
      /\ UNCHANGED <<master, fit, stage, bench, list, edits>>
  BY DEF Apply, ReplacedBy
<1>3. /\ book \in Seq(InfoRecord) /\ proposals \in Seq(Proposal)
      /\ p \in Proposal /\ i \in Nat /\ n \in Nat /\ Len(book) \in Nat
      /\ DOMAIN book = 1..Len(book)
  BY <1>1 DEF BasisTypeOK
<1>4. /\ k \in 0..Len(book)
      /\ k # 0 => book[k].active /\ Covers(book[k], p)
      /\ \A j \in DOMAIN book :
           book[j].active /\ Covers(book[j], p) =>
             k # 0 /\ book[j].since <= book[k].since
  BY <1>1, InForceIsInForce
<1>5. a \in BOOLEAN /\ z \in Nat /\ a = TRUE /\ z = 0
  OBVIOUS
<1> HIDE DEF a, z
<1>6. new \in InfoRecord
  <2>1. /\ p.material \in Codes /\ p.vendor \in Vendors /\ p.plant \in Plants
        /\ p.price \in Nat \ {0}
    BY <1>3, BasisAssumption DEF Proposal
  <2> HIDE DEF p
  <2> QED BY <1>3, <1>5, <2>1, InfoRecordIsRecord
<1>7. /\ SameKey(new, p) /\ SameKey(p, new)
      /\ new.active = a /\ new.next = z
      /\ new.since = i /\ new.plant = p.plant
  BY DEF SameKey
<1> HIDE DEF new
<1>8. /\ mid \in Seq(InfoRecord) /\ Len(mid) = Len(book)
      /\ \A j \in DOMAIN book :
           mid[j] = IF j = k THEN Retired(book[k], n) ELSE book[j]
  <2>1. CASE k = 0
    BY <1>3, <2>1
  <2>2. CASE k # 0
    <3>1. k \in DOMAIN book
      BY <1>3, <1>4, <2>2
    <3>2. Retired(book[k], n) \in InfoRecord
      <4>1. book[k] \in InfoRecord
        BY <1>3, <3>1
      <4> HIDE DEF n, k
      <4> QED BY <1>3, <4>1, RetiredIsRecord, Zenon
    <3>3. mid = [book EXCEPT ![k] = Retired(book[k], n)]
      BY <2>2 DEF Superseded
    <3> HIDE DEF mid, k, n
    <3> QED BY <1>3, <3>1, <3>2, <3>3
  <2> QED BY <2>1, <2>2
<1> HIDE DEF mid
<1>9. /\ book' \in Seq(InfoRecord) /\ Len(book') = n
      /\ book'[n] = new
      /\ \A j \in DOMAIN book :
           book'[j] = IF j = k THEN Retired(book[k], n) ELSE book[j]
  BY <1>2, <1>3, <1>6, <1>8
<1>10. k # 0 => /\ SameKey(book'[k], book[k]) /\ SameKey(book[k], book'[k])
                /\ book'[k].active = FALSE /\ book'[k].next = n
  <2>1. SUFFICES ASSUME k # 0
                 PROVE  /\ SameKey(book'[k], book[k])
                        /\ SameKey(book[k], book'[k])
                        /\ book'[k].active = FALSE /\ book'[k].next = n
    OBVIOUS
  <2>2. k \in DOMAIN book
    BY <1>3, <1>4, <2>1
  <2>3. book[k] \in InfoRecord
    BY <1>3, <2>2
  <2>4. book'[k] = Retired(book[k], n)
    BY <1>9, <2>2
  <2> HIDE DEF n, k
  <2>5. n \in Nat
    BY <1>3
  <2>6. /\ SameKey(Retired(book[k], n), book[k])
        /\ SameKey(book[k], Retired(book[k], n))
        /\ Retired(book[k], n).active = FALSE
        /\ Retired(book[k], n).next = n
    BY <2>3, <2>5, RetiredIsRecord, Zenon
  <2> QED BY <2>4, <2>6
<1>11. \A j \in DOMAIN book :
         /\ SameKey(book'[j], book[j]) /\ SameKey(book[j], book'[j])
         /\ j # k => book'[j] = book[j]
  <2>1. TAKE j \in DOMAIN book
  <2>2. CASE j = k
    <3>1. k # 0
      BY <1>3, <2>2
    <3> QED BY <1>10, <2>2, <3>1
  <2>3. CASE j # k
    BY <1>9, <2>3 DEF SameKey
  <2> QED BY <2>2, <2>3
<1>12. \A j \in DOMAIN book : book[j].next \in {0} \cup (j + 1)..Len(book)
  BY <1>1 DEF BasisTypeOK
<1>13. DOMAIN book' = 1..n /\ 1..n = DOMAIN book \cup {n}
  BY <1>3, <1>9
<1>14. /\ \A o \in DOMAIN book : o # k => book'[o].next # n
       /\ book'[n].next # n
  <2>1. \A o \in DOMAIN book : o # k => book'[o].next # n
    BY <1>3, <1>11, <1>12
  <2> QED BY <1>3, <1>5, <1>7, <1>9, <2>1
<1>15. \A o \in DOMAIN book :
         o \in WrittenBack /\ SameKey(book[o], p) /\ book[o].active => o = k
  <2>1. SUFFICES ASSUME NEW o \in DOMAIN book, o \in WrittenBack,
                        SameKey(book[o], p), book[o].active
                 PROVE  o = k
    OBVIOUS
  <2>2. Covers(book[o], p)
    BY <2>1 DEF SameKey, Covers
  <2>3. k # 0 /\ book[o].since <= book[k].since
    BY <1>4, <2>1, <2>2
  <2>4. k \in DOMAIN book
    BY <1>3, <1>4, <2>3
  <2>5. book[o].since \in 1..Len(proposals) /\ Len(proposals) \in Nat
    BY <1>1, <1>3, <2>1 DEF AgeOfRecords
  <2>6. k \in WrittenBack /\ book[k].plant \in Plants
    BY <1>1, <2>3, <2>4, <2>5 DEF AgeOfRecords
  <2>7. SameKey(book[k], p)
    <3>1. Covers(book[k], p) /\ book[k].plant # EveryPlant
      BY <1>4, <2>3, <2>6, BasisAssumption
    <3> QED BY <3>1 DEF Covers, SameKey
  <2>8. SameKey(book[o], book[k]) /\ book[k].active
    BY <1>4, <2>1, <2>3, <2>7 DEF SameKey
  <2> QED BY <1>1, <2>1, <2>6, <2>8 DEF PricesFollowAwards
<1>16. /\ \A j \in DOMAIN book : j \in WrittenBack' <=> j \in WrittenBack
       /\ n \in WrittenBack'
  <2>1. Len(Seeds) \in Nat /\ Len(Seeds) <= Len(book)
    BY <1>1, BasisAssumption DEF AgeOfRecords
  <2>2. WrittenBack' = (Len(Seeds) + 1)..n
    BY <1>9 DEF WrittenBack
  <2>3. \A j \in DOMAIN book : j \in (Len(Seeds) + 1)..n
                                <=> j \in (Len(Seeds) + 1)..Len(book)
    BY <1>3, <2>1
  <2>4. n \in (Len(Seeds) + 1)..n
    BY <1>3, <2>1
  <2> QED BY <2>2, <2>3, <2>4 DEF WrittenBack
<1>17. \A j \in DOMAIN book : book'[j].active => j # k /\ book[j].active
  <2>1. TAKE j \in DOMAIN book
  <2>2. CASE j = k
    BY <1>3, <1>10, <2>2
  <2>3. CASE j # k
    BY <1>11, <2>3
  <2> QED BY <2>2, <2>3
<1>18. PricesFollowAwards'
  <2>1. \A j, o \in WrittenBack' :
          j # o /\ SameKey(book'[j], book'[o]) =>
            ~(book'[j].active /\ book'[o].active)
    <3>1. SUFFICES ASSUME NEW j \in WrittenBack', NEW o \in WrittenBack',
                          j # o, SameKey(book'[j], book'[o]),
                          book'[j].active, book'[o].active
                   PROVE  FALSE
      OBVIOUS
    <3>2. j \in DOMAIN book' /\ o \in DOMAIN book'
      <4>1. Len(Seeds) \in Nat
        BY BasisAssumption
      <4> QED BY <1>3, <1>9, <1>13, <4>1 DEF WrittenBack
    <3>3. ASSUME NEW x \in DOMAIN book, x \in WrittenBack',
                 SameKey(book'[x], new), book'[x].active
          PROVE  FALSE
      <4>1. x # k /\ book[x].active
        BY <1>17, <3>3
      <4>2. SameKey(book[x], p)
        BY <1>7, <1>11, <3>3 DEF SameKey
      <4> QED BY <1>15, <1>16, <3>3, <4>1, <4>2
    <3>4. CASE j = n
      <4>1. o \in DOMAIN book /\ SameKey(book'[o], new)
        BY <1>9, <1>13, <3>1, <3>2, <3>4 DEF SameKey
      <4> QED BY <3>1, <3>3, <4>1
    <3>5. CASE o = n
      <4>1. j \in DOMAIN book /\ SameKey(book'[j], new)
        BY <1>9, <1>13, <3>1, <3>2, <3>5
      <4> QED BY <3>1, <3>3, <4>1
    <3>6. CASE j # n /\ o # n
      <4>1. j \in DOMAIN book /\ o \in DOMAIN book
        BY <1>13, <3>2, <3>6
      <4>2. /\ j # k /\ book[j].active /\ book'[j] = book[j]
            /\ o # k /\ book[o].active /\ book'[o] = book[o]
        BY <1>11, <1>17, <3>1, <4>1
      <4>3. j \in WrittenBack /\ o \in WrittenBack
        BY <1>16, <4>1
      <4> QED BY <1>1, <3>1, <4>2, <4>3 DEF PricesFollowAwards
    <3> QED BY <3>4, <3>5, <3>6
  <2>2. \A j \in DOMAIN book' : book'[j].active <=> book'[j].next = 0
    <3>1. TAKE j \in DOMAIN book'
    <3>2. CASE j = n
      BY <1>5, <1>7, <1>9, <3>2
    <3>3. CASE j # n /\ j = k
      <4>1. j \in DOMAIN book
        BY <1>13, <3>3
      <4>2. k # 0
        BY <1>3, <3>3, <4>1
      <4> QED BY <1>3, <1>10, <3>3, <4>2
    <3>4. CASE j # n /\ j # k
      <4>1. j \in DOMAIN book /\ book'[j] = book[j]
        BY <1>11, <1>13, <3>4
      <4> QED BY <1>1, <4>1 DEF PricesFollowAwards
    <3> QED BY <3>2, <3>3, <3>4
  <2>3. ASSUME NEW j \in DOMAIN book', ~book'[j].active
        PROVE  /\ Covers(book'[j], book'[book'[j].next])
               /\ \A o \in DOMAIN book' \ {j} : book'[j].next # book'[o].next
    <3>1. j \in DOMAIN book
      BY <1>5, <1>7, <1>9, <1>13, <2>3
    <3>2. CASE j = k
      <4>1. k # 0
        BY <1>3, <3>1, <3>2
      <4>2. book'[j].next = n
        BY <1>10, <3>2, <4>1
      <4>3. Covers(book'[j], new)
        <5>1. Covers(book[j], p)
          BY <1>4, <3>2, <4>1
        <5>2. SameKey(book'[j], book[j]) /\ SameKey(new, p)
          BY <1>7, <1>11, <3>1
        <5> QED BY <5>1, <5>2 DEF Covers, SameKey
      <4>4. \A o \in DOMAIN book' \ {j} : book'[o].next # n
        BY <1>13, <1>14, <3>2
      <4> QED BY <1>9, <4>2, <4>3, <4>4
    <3>3. CASE j # k
      <4>1. book'[j] = book[j] /\ ~book[j].active
        BY <1>11, <2>3, <3>1, <3>3
      <4>2. /\ Covers(book[j], book[book[j].next]) /\ book[j].next # 0
            /\ \A o \in DOMAIN book \ {j} : book[j].next # book[o].next
        BY <1>1, <3>1, <4>1 DEF PricesFollowAwards
      <4>3. book[j].next \in DOMAIN book /\ book[j].next # n
        BY <1>3, <1>12, <3>1, <4>2
      <4>4. Covers(book'[j], book'[book'[j].next])
        <5>1. SameKey(book'[book[j].next], book[book[j].next])
          BY <1>11, <4>3
        <5> QED BY <4>1, <4>2, <5>1 DEF Covers, SameKey
      <4>5. \A o \in DOMAIN book' \ {j} : book'[j].next # book'[o].next
        <5>1. TAKE o \in DOMAIN book' \ {j}
        <5>2. CASE o = n
          BY <1>5, <1>7, <1>9, <4>1, <4>2, <5>2
        <5>3. CASE o # n /\ o = k
          <6>1. o \in DOMAIN book
            BY <1>13, <5>3
          <6>2. k # 0
            BY <1>3, <5>3, <6>1
          <6> QED BY <1>10, <4>1, <4>3, <5>3, <6>2
        <5>4. CASE o # n /\ o # k
          <6>1. o \in DOMAIN book /\ book'[o] = book[o]
            BY <1>11, <1>13, <5>4
          <6> QED BY <4>1, <4>2, <6>1
        <5> QED BY <5>2, <5>3, <5>4
      <4> QED BY <4>4, <4>5
    <3> QED BY <3>2, <3>3
  <2> QED BY <2>1, <2>2, <2>3 DEF PricesFollowAwards
<1>19. BasisTypeOK'
  <2>1. \A j \in DOMAIN book' : book'[j].next \in {0} \cup (j + 1)..Len(book')
    <3>1. TAKE j \in DOMAIN book'
    <3>2. CASE j = n
      BY <1>5, <1>7, <1>9, <3>2
    <3>3. CASE j # n /\ j = k
      <4>1. j \in DOMAIN book /\ k # 0
        BY <1>3, <1>13, <3>3
      <4> QED BY <1>3, <1>9, <1>10, <3>3, <4>1
    <3>4. CASE j # n /\ j # k
      <4>1. j \in DOMAIN book /\ book'[j] = book[j]
        BY <1>11, <1>13, <3>4
      <4> QED BY <1>3, <1>9, <1>12, <4>1
    <3> QED BY <3>2, <3>3, <3>4
  <2>2. /\ proposals' \in Seq(Proposal)
        /\ \A j \in DOMAIN proposals' :
             /\ proposals'[j].existing \in 0..Len(book')
             /\ proposals'[j].record \in 0..Len(book')
    <3> DEFINE q == [p EXCEPT !.record = n]
    <3> HIDE DEF n
    <3>1. q = [case |-> p.case, material |-> p.material, vendor |-> p.vendor,
               plant |-> p.plant, price |-> p.price, existing |-> p.existing,
               record |-> n]
      BY <1>3, ExceptProposal
    <3>2. q.existing = p.existing /\ q.record = n
      BY <3>1
    <3>3. q \in Proposal
      <4> HIDE DEF q
      <4>1. /\ p.case \in Cases /\ p.material \in Codes
            /\ p.vendor \in Vendors /\ p.plant \in Plants
            /\ p.price \in Prices /\ p.existing \in Nat
        BY <1>3 DEF Proposal
      <4> HIDE DEF p
      <4> QED BY <1>3, <3>1, <4>1, ProposalIsRecord
    <3>4. proposals' = [proposals EXCEPT ![i] = q]
      BY <1>2
    <3> HIDE DEF q
    <3>5. proposals' \in Seq(Proposal) /\ DOMAIN proposals' = DOMAIN proposals
      BY <1>3, <3>3, <3>4
    <3>6. \A j \in DOMAIN proposals :
            proposals'[j] = IF j = i THEN q ELSE proposals[j]
      BY <1>3, <3>4
    <3>7. \A j \in DOMAIN proposals :
            /\ proposals[j].existing \in 0..Len(book)
            /\ proposals[j].record \in 0..Len(book)
      BY <1>1 DEF BasisTypeOK
    <3>8. 0..Len(book) \subseteq 0..Len(book') /\ n \in 0..Len(book')
      BY <1>3, <1>9 DEF n
    <3>9. p.existing \in 0..Len(book)
      BY <3>7
    <3> QED BY <3>2, <3>5, <3>6, <3>7, <3>8, <3>9
  <2> QED BY <1>1, <1>2, <1>9, <2>1, <2>2 DEF BasisTypeOK
<1>20. AgentKeepsToTheLimit'
  BY <1>1, <1>2 DEF AgentKeepsToTheLimit
<1>21. AgeOfRecords'
  <2>1. Len(proposals') = Len(proposals) /\ i \in 1..Len(proposals)
    BY <1>2, <1>3
  <2>2. Len(Seeds) <= Len(book')
    <3>1. Len(Seeds) \in Nat /\ Len(Seeds) <= Len(book)
      BY <1>1, BasisAssumption DEF AgeOfRecords
    <3> QED BY <1>3, <1>9, <3>1
  <2>3. ASSUME NEW j \in DOMAIN book
        PROVE  book'[j].since = book[j].since /\ book'[j].plant = book[j].plant
    <3>1. CASE j = k
      <4>1. book[j] \in InfoRecord /\ n \in Nat
        BY <1>3, <2>3
      <4>2. book'[j] = Retired(book[j], n)
        BY <1>9, <2>3, <3>1
      <4> HIDE DEF n, k
      <4>3. /\ Retired(book[j], n).since = book[j].since
            /\ Retired(book[j], n).plant = book[j].plant
        BY <4>1, RetiredIsRecord, Zenon
      <4> QED BY <4>2, <4>3
    <3>2. CASE j # k
      BY <1>11, <2>3, <3>2
    <3> QED BY <3>1, <3>2
  <2>4. p.plant \in Plants
    BY <1>3 DEF Proposal
  <2>5. book'[n].since = i /\ book'[n].plant \in Plants
    BY <1>7, <1>9, <2>4
  <2>6. \A j \in DOMAIN book' :
          IF j \in WrittenBack'
          THEN /\ book'[j].since \in 1..Len(proposals')
               /\ book'[j].plant \in Plants
          ELSE book'[j].since = 0
    <3>1. TAKE j \in DOMAIN book'
    <3>2. CASE j = n
      BY <1>16, <2>1, <2>5, <3>2
    <3>3. CASE j # n
      <4>1. j \in DOMAIN book
        BY <1>13, <3>3
      <4> QED BY <1>1, <1>16, <2>1, <2>3, <4>1 DEF AgeOfRecords
    <3> QED BY <3>2, <3>3
  <2> QED BY <2>2, <2>6 DEF AgeOfRecords
<1> QED BY <1>18, <1>19, <1>20, <1>21 DEF BasisIInv

LEMMA BasisNextIInv ==
  BasisIInv /\ [BasisNext]_basisVars => BasisIInv'
<1> SUFFICES ASSUME BasisIInv, [BasisNext]_basisVars PROVE BasisIInv'
  OBVIOUS
<1>1. BasisTypeOK
  BY DEF BasisIInv
<1>2. CASE UNCHANGED basisVars
  BY <1>2 DEF basisVars, BasisIInv, BasisTypeOK, PricesFollowAwards,
              WrittenBack, AgeOfRecords, AgentKeepsToTheLimit
<1>3. ASSUME NEW m \in Materials, Engineering(m) PROVE BasisIInv'
  BY <1>3, EngineeringIInv
<1>4. ASSUME NEW v \in Fallible, Standing(v) PROVE BasisIInv'
  <2>1. fit' \in SUBSET Vendors
    BY <1>1, <1>4, BasisAssumption DEF Standing, BasisTypeOK
  <2> QED BY <1>1, <1>4, <2>1, StageAndBenchIInv DEF Standing, BasisTypeOK
<1>5. ASSUME NEW c \in Cases, Validate(c) \/ Revalidate(c) PROVE BasisIInv'
  <2>1. stage' \in [Cases -> Stages]
    BY <1>1, <1>5 DEF Validate, Revalidate, BasisTypeOK, Stages
  <2> QED BY <1>1, <1>5, <2>1, StageAndBenchIInv
            DEF Validate, Revalidate, BasisTypeOK
<1>6. ASSUME NEW c \in Cases, TakeBenchmark(c) PROVE BasisIInv'
  BY <1>6, TakeBenchmarkIInv
<1>7. ASSUME NEW c \in Cases, Shortlist(c) \/ Rebuild(c) PROVE BasisIInv'
  BY <1>7, RebuildIInv
<1>8. ASSUME NEW c \in Cases, NEW S \in SUBSET OnList(c), Select(c, S)
      PROVE BasisIInv'
  BY <1>8, SelectIInv
<1>9. ASSUME NEW c \in Cases, NEW v \in Vendors, AddSupplier(c, v)
      PROVE BasisIInv'
  BY <1>9, AddSupplierIInv
<1>10. ASSUME NEW c \in Cases, NEW v \in Vendors, NEW price \in Prices,
              Propose(c, v, price)
       PROVE BasisIInv'
  BY <1>10, ProposeIInv
<1>11. ASSUME NEW i \in DOMAIN proposals, Apply(i) PROVE BasisIInv'
  BY <1>11, ApplyIInv
<1> QED BY <1>2, <1>3, <1>4, <1>5, <1>6, <1>7, <1>8, <1>9, <1>10, <1>11
        DEF BasisNext

\* The types of the records hold in every reachable state.
THEOREM BasisTypeCorrect == BasisSpec => []BasisTypeOK
<1>1. BasisIInv => BasisTypeOK
  BY DEF BasisIInv
<1> QED BY BasisInitIInv, BasisNextIInv, <1>1, PTL DEF BasisSpec

\* However the proposals of several cases and of repeated drafts are applied,
\* one price at most of those written back for a material, vendor and plant is
\* in force, and a record goes out of force only for one that it covered.
THEOREM WrittenBackPrices == BasisSpec => []PricesFollowAwards
<1>1. BasisIInv => PricesFollowAwards
  BY DEF BasisIInv
<1> QED BY BasisInitIInv, BasisNextIInv, <1>1, PTL DEF BasisSpec

\* The agent's own choice never exceeds max_suppliers_per_rfq, whatever is
\* rebuilt and changed.
THEOREM AgentStaysWithinLimit == BasisSpec => []AgentKeepsToTheLimit
<1>1. BasisIInv => AgentKeepsToTheLimit
  BY DEF BasisIInv
<1> QED BY BasisInitIInv, BasisNextIInv, <1>1, PTL DEF BasisSpec

\* A step of the shortlist's keeps the rows that are a person's.
LEMMA PersonsRowsStep ==
  ASSUME BasisTypeOK, [BasisNext]_basisVars, NEW c \in Cases, NEW v \in Vendors,
         list[c][v].by = "PERSON"
  PROVE  list'[c][v].by = "PERSON"
<1>1. list \in [Cases -> [Vendors -> ShortlistRow]]
  BY DEF BasisTypeOK
<1>2. CASE UNCHANGED list
  BY <1>2
<1>3. ASSUME NEW d \in Cases, Shortlist(d) \/ Rebuild(d)
      PROVE  list'[c][v].by = "PERSON"
  BY <1>3, RebuiltRows DEF Shortlist, Rebuild
<1>4. ASSUME NEW d \in Cases, NEW S \in SUBSET OnList(d), Select(d, S)
      PROVE  list'[c][v].by = "PERSON"
  <2> DEFINE b == v \in S
  <2>1. list[c][v] # NoRow
    BY DEF NoRow, Nobody
  <2>2. CASE d = c
    <3>1. v \in OnList(c)
      BY <2>1 DEF OnList
    <3>2. list'[c][v] = Decided(list[c][v], b)
      BY <1>1, <1>4, <2>2, <3>1 DEF Select
    <3> HIDE DEF b
    <3>3. \/ list'[c][v] = list[c][v]
          \/ list'[c][v] = [selected |-> b, by |-> "PERSON"]
      BY <3>2 DEF Decided
    <3>4. CASE list'[c][v] = list[c][v]
      BY <3>4
    <3>5. CASE list'[c][v] = [selected |-> b, by |-> "PERSON"]
      BY <3>5
    <3> QED BY <3>3, <3>4, <3>5
  <2>3. CASE d # c
    BY <1>1, <1>4, <2>3 DEF Select
  <2> QED BY <2>2, <2>3
<1>5. ASSUME NEW d \in Cases, NEW w \in Vendors, AddSupplier(d, w)
      PROVE  list'[c][v].by = "PERSON"
  <2> DEFINE r == [selected |-> TRUE, by |-> "PERSON"]
  <2>1. list' = [list EXCEPT ![d][w] = r] /\ r.by = "PERSON"
    BY <1>5 DEF AddSupplier
  <2> HIDE DEF r
  <2>2. list'[c][v] = r \/ list'[c][v] = list[c][v]
    BY <1>1, <2>1
  <2> QED BY <2>1, <2>2
<1>6. ASSUME NEW d \in Cases, NEW w \in Vendors, NEW price \in Prices,
             Propose(d, w, price)
      PROVE  UNCHANGED list
  BY <1>6 DEF Propose
<1>7. ASSUME NEW i \in DOMAIN proposals, Apply(i) PROVE UNCHANGED list
  BY <1>7 DEF Apply
<1>8. ASSUME NEW m \in Materials, Engineering(m) PROVE UNCHANGED list
  BY <1>8 DEF Engineering
<1>9. ASSUME NEW w \in Fallible, Standing(w) PROVE UNCHANGED list
  BY <1>9 DEF Standing
<1>10. ASSUME NEW d \in Cases, Validate(d) \/ Revalidate(d) \/ TakeBenchmark(d)
       PROVE  UNCHANGED list
  BY <1>10 DEF Validate, Revalidate, TakeBenchmark
<1>11. UNCHANGED basisVars => UNCHANGED list
  BY DEF basisVars
<1> QED BY <1>2, <1>3, <1>4, <1>5, <1>6, <1>7, <1>8, <1>9, <1>10, <1>11
        DEF BasisNext

\* Rebuilding a list never takes a vendor off it that a person decided about.
THEOREM WhatPeopleDecidedStays == BasisSpec => PersonsRowsStay
<1>1. BasisIInv /\ [BasisNext]_basisVars =>
        [\A c \in Cases, v \in Vendors :
           list[c][v].by = "PERSON" => list'[c][v].by = "PERSON"]_basisVars
  BY PersonsRowsStep DEF BasisIInv
<1> QED BY BasisInitIInv, BasisNextIInv, <1>1, PTL
        DEF BasisSpec, PersonsRowsStay

-----------------------------------------------------------------------------
(* TechnicalVerdict: lemmas about answers and their evaluation *)

LEMMA SilentIsAnswer == Silent \in Answer
<1>1. NoUnit \in STRING
  BY VerdictAssumption
<1> QED BY <1>1, Zenon DEF Silent, Answer

LEMMA ProductGrows ==
  ASSUME NEW m \in Int, NEW n \in Int, NEW k \in Nat \ {0}
  PROVE  m < n <=> m * k < n * k
<1> DEFINE d == n - m
<1>1. d \in Int /\ (m < n <=> d > 0)
  OBVIOUS
<1>2. n * k - m * k = d * k
  OBVIOUS
<1>3. m * k \in Int /\ n * k \in Int
  OBVIOUS
<1> HIDE DEF d
<1>4. d > 0 => d * k > 0
  BY <1>1
<1>5. d <= 0 => d * k <= 0
  BY <1>1
<1>6. d * k \in Int
  BY <1>1
<1> QED BY <1>1, <1>2, <1>3, <1>4, <1>5, <1>6

\* What "in the base unit" means for numbers: the order stays.
LEMMA BaseKeepsOrder ==
  ASSUME NEW u \in DOMAIN Unit, NEW m \in Int, NEW n \in Int
  PROVE  /\ InBase(m, u) \in Int
         /\ m < n <=> InBase(m, u) < InBase(n, u)
<1>1. PICK k \in Nat \ {0}, o \in Int :
        \A x \in Int : InBase(x, u) = x * k + o
  BY VerdictAssumption DEF InBase, UnitDefinition
<1>2. m * k \in Int /\ n * k \in Int
  OBVIOUS
<1> DEFINE p == m * k
           r == n * k
<1>3. /\ m < n <=> p < r
      /\ InBase(m, u) = p + o /\ InBase(n, u) = r + o
      /\ p \in Int /\ r \in Int
  BY <1>1, <1>2, ProductGrows
<1> HIDE DEF p, r
<1> QED BY <1>3

LEMMA CompliantNumberFits ==
  ASSUME NEW a \in Answer, NEW d \in Demand,
         d.op \notin {"PRESENT", "BOOLEAN", "ONE_OF"},
         Evaluated(a, d) = "COMPLIANT"
  PROVE  Fits(a, d)
<1> DEFINE unit == UnitOf(a, d)
           common(n, u, o) == Scaled(n, u, o)
<1>1. a # Silent /\ ~Incomparable(a, d) /\ OfNumber(a, d) = "COMPLIANT"
  BY DEF Evaluated
<1>2. a.number # NoNumber /\ ~Below(a, d) /\ ~Above(a, d)
  BY <1>1 DEF OfNumber
<1>3. a.number \in Int /\ d.low \in Int /\ d.high \in Int
  <2>1. Number \cup {NoNumber} \subseteq Int
    BY DEF Number, NoNumber
  <2> QED BY <2>1 DEF Answer, Demand
<1>4. d.uom = NoUnit \/ unit = d.uom \/ Convertible(unit, d.uom)
  BY <1>1, <1>2 DEF Incomparable
<1>5. Comparable(a, d)
  BY <1>4 DEF Comparable, Convertible, UnitOf
<1>6. unit = NoUnit => d.uom = NoUnit
  BY DEF UnitOf
<1>7. ASSUME NEW m \in Int, NEW n \in Int
      PROVE  /\ Less(m, unit, n, d.uom) <=>
                  Scaled(m, unit, d.uom) < Scaled(n, d.uom, unit)
             /\ Less(n, d.uom, m, unit) <=>
                  Scaled(n, d.uom, unit) < Scaled(m, unit, d.uom)
             /\ Scaled(m, unit, d.uom) \in Int
             /\ Scaled(n, d.uom, unit) \in Int
  <2>1. CASE {unit, d.uom} \subseteq DOMAIN Unit
    <3>1. unit # NoUnit /\ d.uom # NoUnit
      BY <2>1, VerdictAssumption
    <3>2. Scaled(m, unit, d.uom) = InBase(m, unit)
      BY <2>1 DEF Scaled
    <3>3. Scaled(n, d.uom, unit) = InBase(n, d.uom)
      BY <2>1 DEF Scaled
    <3>4. CASE unit = d.uom
      BY <2>1, <3>2, <3>3, <3>4, BaseKeepsOrder DEF Less
    <3>5. CASE unit # d.uom
      <4>1. NoUnit \notin {unit, d.uom}
        BY <3>1
      <4>2. InBase(m, unit) \in Int /\ InBase(n, d.uom) \in Int
        BY <2>1, BaseKeepsOrder
      <4> QED BY <4>1, <4>2, <3>2, <3>3, <3>5 DEF Less
    <3> QED BY <3>4, <3>5
  <2>2. CASE ~({unit, d.uom} \subseteq DOMAIN Unit)
    <3>1. unit = d.uom \/ d.uom = NoUnit
      BY <2>2, <1>4 DEF Convertible
    <3> QED BY <3>1, <2>2 DEF Less, Scaled
  <2> QED BY <2>1, <2>2
<1>8. d.low # NoNumber =>
        Scaled(a.number, unit, d.uom) >= Scaled(d.low, d.uom, unit)
  BY <1>2, <1>3, <1>7 DEF Below
<1>9. d.high # NoNumber =>
        Scaled(a.number, unit, d.uom) <= Scaled(d.high, d.uom, unit)
  BY <1>2, <1>3, <1>7 DEF Above
<1> QED BY <1>2, <1>5, <1>8, <1>9 DEF Fits

\* An answer that is found compliant fits on a common scale: no word, missing
\* number or foreign unit is taken for one that does.
LEMMA CompliantFits ==
  ASSUME NEW a \in Answer, NEW d \in Demand, Evaluated(a, d) = "COMPLIANT"
  PROVE  Fits(a, d) /\ a # Silent
<1>1. a # Silent
  BY DEF Evaluated
<1>2. CASE d.op \in {"PRESENT", "BOOLEAN", "ONE_OF"}
  <2>1. OfWords(a, d) = "COMPLIANT"
    BY <1>2 DEF Evaluated
  <2>2. CASE d.op = "PRESENT"
    BY <1>1, <2>2 DEF Fits
  <2>3. CASE d.op = "BOOLEAN"
    <3>1. a.words = "yes"
      BY <2>1, <2>3 DEF OfWords
    <3> QED BY <1>1, <2>3, <3>1 DEF Fits
  <2>4. CASE d.op = "ONE_OF"
    <3>1. a.words \in d.allowed
      BY <2>1, <2>4 DEF OfWords
    <3> QED BY <1>1, <2>4, <3>1 DEF Fits
  <2> QED BY <1>2, <2>2, <2>3, <2>4
<1>3. CASE d.op \notin {"PRESENT", "BOOLEAN", "ONE_OF"}
  BY <1>1, <1>3, CompliantNumberFits
<1> QED BY <1>1, <1>2, <1>3

LEMMA EvaluatedIsStatus ==
  ASSUME NEW a, NEW d PROVE Evaluated(a, d) \in Statuses
<1>1. OfNumber(a, d) \in Statuses
  BY DEF OfNumber, Statuses
<1>2. OfWords(a, d) \in Statuses
  BY DEF OfWords, Statuses
<1> QED BY <1>1, <1>2 DEF Evaluated, Statuses

-----------------------------------------------------------------------------
(* TechnicalVerdict: lemmas about claims *)

LEMMA KeptIsLeast ==
  ASSUME NEW S \in SUBSET Nat, S # {}
  PROVE  Kept(S) \in S
<1>1. \E i \in S : \A j \in S : i <= j
  BY LeastNatural
<1> QED BY <1>1 DEF Kept

\* A typed list of quotations, and where its claims come from.
LEMMA ClaimsArePositions ==
  ASSUME VerdictTypeOK, NEW v \in Suppliers, NEW r \in Requirements
  PROVE  /\ quotes[v] \in Seq(Quotation)
         /\ Newest(v) \in Nat
         /\ DOMAIN quotes[v] = 1..Newest(v)
         /\ Claims(v, r) \subseteq 1..Newest(v)
         /\ Claimed(v, r) \subseteq Claims(v, r)
         /\ \A i \in 1..Newest(v) : /\ quotes[v][i] \in Quotation
                                    /\ AnswerOf(v, i, r) \in Answer
<1>1. quotes[v] \in Seq(Quotation)
  BY DEF VerdictTypeOK
<1>2. \A i \in 1..Newest(v) : quotes[v][i] \in Quotation
  BY <1>1 DEF Newest
<1>3. \A q \in Quotation : q.text.says[r].answer \in Answer
  <2> SUFFICES ASSUME NEW q \in Quotation PROVE q.text.says[r].answer \in Answer
    OBVIOUS
  <2>1. q.text \in Document
    BY VerdictAssumption DEF Quotation
  <2>2. q.text.says[r] \in Said
    BY <2>1 DEF Document
  <2> QED BY <2>2 DEF Said
<1> QED BY <1>1, <1>2, <1>3 DEF Newest, Claims, Claimed, AnswerOf

\* The newest claim gives way to none, so where there is a claim one is kept.
LEMMA NewestClaimIsClaimed ==
  ASSUME VerdictTypeOK, NEW v \in Suppliers, NEW r \in Requirements,
         Claims(v, r) # {}
  PROVE  Claimed(v, r) # {}
<1>1. PICK i \in Claims(v, r) : \A j \in Claims(v, r) : j <= i
  BY ClaimsArePositions, GreatestNatural
<1>2. \A j \in Claims(v, r) : ~(j > i)
  BY <1>1, ClaimsArePositions
<1>3. i \in Claimed(v, r)
  BY <1>2 DEF Claimed
<1> QED BY <1>3

LEMMA CollectedIsAnswer ==
  ASSUME VerdictTypeOK, NEW v \in Suppliers, NEW r \in Requirements,
         NEW found \in ModelFinds \cup {Silent}, Newest(v) # 0
  PROVE  Collected(v, r, found) \in Answer
<1>1. found \in Answer /\ Silent \in Answer
  BY VerdictAssumption, SilentIsAnswer
<1>2. CASE Claimed(v, r) # {}
  <2>1. Claimed(v, r) \in SUBSET Nat
    BY ClaimsArePositions
  <2>2. Kept(Claimed(v, r)) \in 1..Newest(v)
    BY <1>2, <2>1, KeptIsLeast, ClaimsArePositions
  <2> QED BY <1>2, <2>2, ClaimsArePositions DEF Collected
<1>3. CASE Claimed(v, r) = {}
  <2>1. Newest(v) \in 1..Newest(v)
    BY ClaimsArePositions
  <2> QED BY <1>1, <1>3, <2>1, ClaimsArePositions
          DEF Collected, InAttachment, FoundByModel
<1> QED BY <1>2, <1>3

\* What is collected depends on the texts received, and on nothing else.
LEMMA CollectedFollowsTexts ==
  ASSUME VerdictTypeOK, NEW v \in Suppliers, NEW r \in Requirements,
         NEW found, Newest(v) # 0,
         DOMAIN quotes'[v] = DOMAIN quotes[v], Newest(v)' = Newest(v),
         \A i \in DOMAIN quotes[v] : quotes'[v][i].text = quotes[v][i].text
  PROVE  Collected(v, r, found)' = Collected(v, r, found)
<1>1. \A i \in 1..Newest(v) : AnswerOf(v, i, r)' = AnswerOf(v, i, r)
  BY ClaimsArePositions DEF AnswerOf
<1>2. Claims(v, r)' = Claims(v, r)
  BY DEF Claims
<1>3. Claimed(v, r)' = Claimed(v, r)
  <2>1. \A i \in Claims(v, r) : quotes'[v][i].text.file = quotes[v][i].text.file
    BY ClaimsArePositions
  <2> QED BY <1>2, <2>1 DEF Claimed
<1>4. Newest(v) \in 1..Newest(v) /\ Newest(v) \in DOMAIN quotes[v]
  BY ClaimsArePositions
<1>5. /\ InAttachment(v, r)' = InAttachment(v, r)
      /\ FoundByModel(v, found)' = FoundByModel(v, found)
  BY <1>1, <1>4 DEF InAttachment, FoundByModel
<1>6. Claimed(v, r) # {} =>
        AnswerOf(v, Kept(Claimed(v, r)), r)'
          = AnswerOf(v, Kept(Claimed(v, r)), r)
  <2>1. Kept(Claimed(v, r))' = Kept(Claimed(v, r))
    BY <1>3 DEF Kept
  <2>2. Claimed(v, r) # {} => Kept(Claimed(v, r)) \in 1..Newest(v)
    BY ClaimsArePositions, KeptIsLeast
  <2> QED BY <1>1, <2>1, <2>2 DEF AnswerOf
<1> QED BY <1>3, <1>5, <1>6 DEF Collected

-----------------------------------------------------------------------------
(* TechnicalVerdict: what holds of every assessment *)

\* A verdict is that of the rows: who was qualified meets what is mandatory.
YesIsMet ==
  \A v \in Suppliers : \A i \in DOMAIN quotes[v] :
    quotes[v][i].rows # <<>> /\ quotes[v][i].verdict = "YES" =>
      \A r \in Mandatory : Met(quotes[v][i].rows[r])

\* A status is that of the answer beside it.
StatusFollowsAnswer ==
  \A v \in Suppliers : \A i \in DOMAIN quotes[v] :
    quotes[v][i].rows # <<>> =>
      \A r \in Requirements :
        quotes[v][i].rows[r].status
          = Evaluated(quotes[v][i].rows[r].answer, Req[r])

\* The answers of a newest quotation are those that are collected still, but
\* for what the model found.
NewestIsCollected ==
  \A v \in Suppliers :
    Newest(v) # 0 /\ quotes[v][Newest(v)].rows # <<>> =>
      \A r \in Requirements :
        \E found \in ModelFinds \cup {Silent} :
          quotes[v][Newest(v)].rows[r].answer = Collected(v, r, found)

VerdictIInv ==
  VerdictTypeOK /\ YesIsMet /\ StatusFollowsAnswer /\ NewestIsCollected

LEMMA QuotationIsRecord ==
  ASSUME NEW text \in Documents, NEW verdict \in {"UNKNOWN", "YES", "NO"},
         NEW table \in [Requirements -> Assessment] \cup {<<>>}
  PROVE  [text |-> text, verdict |-> verdict, rows |-> table] \in Quotation
BY DEF Quotation

LEMMA RowExceptAccepted ==
  ASSUME NEW x \in Assessment, NEW b
  PROVE  [x EXCEPT !.accepted = b]
           = [status |-> x.status, answer |-> x.answer, accepted |-> b]
BY DEF Assessment

\* What evaluating a quotation makes of it.
LEMMA JudgedIsQuotation ==
  ASSUME NEW q \in Quotation, NEW answers \in [Requirements -> Answer],
         NEW j, j = Judged(q, answers)
  PROVE  /\ j \in Quotation
         /\ j.text = q.text
         /\ j.verdict = Qualified(j.rows)
         /\ j.verdict # "UNKNOWN"
         /\ \A r \in Requirements :
              /\ j.rows[r].answer = answers[r]
              /\ j.rows[r].status = Evaluated(answers[r], Req[r])
              /\ q.rows # <<>> => j.rows[r].accepted = q.rows[r].accepted
<1> DEFINE old(r) == IF q.rows = <<>> THEN NewAssessment ELSE q.rows[r]
           table == [r \in Requirements |->
                      Assessed(old(r), answers[r], Req[r])]
<1>1. ASSUME NEW r \in Requirements PROVE old(r) \in Assessment
  <2>1. NewAssessment \in Assessment
    BY SilentIsAnswer, Zenon DEF NewAssessment, Assessment, Statuses
  <2>2. q.rows # <<>> => q.rows \in [Requirements -> Assessment]
    BY DEF Quotation
  <2> QED BY <2>1, <2>2
<1>2. table \in [Requirements -> Assessment]
  <2> SUFFICES ASSUME NEW r \in Requirements
               PROVE  Assessed(old(r), answers[r], Req[r]) \in Assessment
    OBVIOUS
  <2>1. Evaluated(answers[r], Req[r]) \in Statuses
    BY EvaluatedIsStatus
  <2>2. old(r).accepted \in BOOLEAN
    BY <1>1 DEF Assessment
  <2> QED BY <2>1, <2>2, Zenon DEF Assessed, Assessment
<1>3. \A r \in Requirements :
        /\ table[r].answer = answers[r]
        /\ table[r].status = Evaluated(answers[r], Req[r])
        /\ table[r].accepted = old(r).accepted
  BY DEF Assessed
<1>4. Qualified(table) \in {"YES", "NO"}
  BY DEF Qualified
<1>5. j = [q EXCEPT !.rows = table, !.verdict = Qualified(table)]
  BY DEF Judged
<1> HIDE DEF table
<1>6. j = [text |-> q.text, verdict |-> Qualified(table), rows |-> table]
  BY <1>5 DEF Quotation
<1>7. j \in Quotation
  <2>1. q.text \in Documents
    BY DEF Quotation
  <2> QED BY <1>2, <1>4, <1>6, <2>1, QuotationIsRecord
<1> QED BY <1>3, <1>4, <1>6, <1>7

\* What accepting a deviation makes of a quotation.
LEMMA AcceptedIsQuotation ==
  ASSUME NEW q \in Quotation, q.rows # <<>>, NEW r \in Requirements,
         NEW a, a = Signed(q, r)
  PROVE  /\ a \in Quotation
         /\ a.text = q.text /\ a.verdict = q.verdict
         /\ a.rows # <<>>
         /\ \A o \in Requirements :
              /\ a.rows[o].answer = q.rows[o].answer
              /\ a.rows[o].status = q.rows[o].status
              /\ q.rows[o].accepted => a.rows[o].accepted
<1>1. q.rows \in [Requirements -> Assessment]
  BY DEF Quotation
<1> DEFINE new == [status |-> q.rows[r].status, answer |-> q.rows[r].answer,
                   accepted |-> TRUE]
           table == [q.rows EXCEPT ![r] = new]
<1>2. new \in Assessment /\ new.status = q.rows[r].status
        /\ new.answer = q.rows[r].answer /\ new.accepted
  <2>1. q.rows[r] \in Assessment
    BY <1>1
  <2> QED BY <2>1 DEF Assessment
<1>3. [q.rows[r] EXCEPT !.accepted = TRUE] = new
  <2>1. q.rows[r] \in Assessment
    BY <1>1
  <2> QED BY <2>1, RowExceptAccepted
<1>4. a = [text |-> q.text, verdict |-> q.verdict, rows |-> table]
  <2>1. a = [q EXCEPT !.rows = [q.rows EXCEPT ![r] =
                                  [q.rows[r] EXCEPT !.accepted = TRUE]]]
    BY Zenon DEF Signed
  <2> QED BY <1>3, <2>1 DEF Quotation
<1> HIDE DEF new
<1>5. table \in [Requirements -> Assessment]
  BY <1>1, <1>2
<1>6. \A o \in Requirements : table[o] = IF o = r THEN new ELSE q.rows[o]
  BY <1>1
<1>7. table # <<>>
  <2>1. DOMAIN table = Requirements /\ r \in DOMAIN table
    BY <1>5
  <2> QED BY <2>1
<1> HIDE DEF table
<1>8. a \in Quotation
  <2>1. q.text \in Documents /\ q.verdict \in {"UNKNOWN", "YES", "NO"}
    BY DEF Quotation
  <2> QED BY <1>4, <1>5, <2>1, QuotationIsRecord
<1>9. /\ a.text = q.text /\ a.verdict = q.verdict
      /\ a.rows = table
  BY <1>4
<1> QED BY <1>2, <1>6, <1>7, <1>8, <1>9

-----------------------------------------------------------------------------
(* TechnicalVerdict: what each action does to one supplier's quotations *)

LEMMA IngestAppends ==
  ASSUME VerdictTypeOK, NEW u \in Suppliers, NEW text \in Documents,
         NEW changed \in BOOLEAN, IngestQuotation(u, text, changed),
         NEW v \in Suppliers
  PROVE  /\ DOMAIN quotes' = Suppliers
         /\ quotes'[v] \in Seq(Quotation)
         /\ v # u => quotes'[v] = quotes[v]
         /\ v = u =>
              /\ Len(quotes'[v]) = Newest(v) + 1
              /\ quotes'[v][Newest(v) + 1].rows = <<>>
              /\ \A i \in 1..Newest(v) : quotes'[v][i] = quotes[v][i]
<1> DEFINE verdict == IF Newest(u) = 0 \/ changed THEN "UNKNOWN"
                      ELSE quotes[u][Newest(u)].verdict
           new == [text |-> text, verdict |-> verdict, rows |-> <<>>]
<1>1. quotes' = [quotes EXCEPT ![u] = Append(quotes[u], new)]
  BY DEF IngestQuotation
<1>2. quotes \in [Suppliers -> Seq(Quotation)]
  BY DEF VerdictTypeOK
<1>3. verdict \in {"UNKNOWN", "YES", "NO"}
  <2>1. Newest(u) # 0 => quotes[u][Newest(u)] \in Quotation
    BY <1>2 DEF Newest
  <2> QED BY <2>1 DEF Quotation
<1> HIDE DEF verdict
<1>4. new \in Quotation /\ new.rows = <<>>
  BY <1>3, QuotationIsRecord
<1> HIDE DEF new
<1>5. Append(quotes[u], new) \in Seq(Quotation)
  BY <1>2, <1>4
<1> QED BY <1>1, <1>2, <1>4, <1>5 DEF Newest

LEMMA EvaluateJudges ==
  ASSUME VerdictTypeOK, Evaluate, NEW v \in Suppliers
  PROVE  /\ DOMAIN quotes' = Suppliers
         /\ quotes'[v] \in Seq(Quotation)
         /\ Len(quotes'[v]) = Newest(v)
         /\ \A i \in 1..Newest(v) :
              i # Newest(v) => quotes'[v][i] = quotes[v][i]
         /\ Newest(v) # 0 =>
              \E found \in [Requirements -> ModelFinds \cup {Silent}] :
                quotes'[v][Newest(v)]
                  = Judged(quotes[v][Newest(v)],
                           [r \in Requirements |-> Collected(v, r, found[r])])
         /\ Newest(v) # 0 =>
              /\ quotes'[v][Newest(v)].text = quotes[v][Newest(v)].text
              /\ quotes'[v][Newest(v)].verdict # "UNKNOWN"
<1>1. PICK finds \in [Suppliers -> [Requirements -> ModelFinds \cup {Silent}]] :
        quotes' = [w \in Suppliers |->
          IF Newest(w) = 0 THEN <<>>
          ELSE [quotes[w] EXCEPT ![Newest(w)] =
                  Judged(@, [r \in Requirements |->
                               Collected(w, r, finds[w][r])])]]
  BY DEF Evaluate
<1>2. quotes[v] \in Seq(Quotation) /\ Newest(v) \in Nat
        /\ DOMAIN quotes[v] = 1..Newest(v)
  BY DEF VerdictTypeOK, Newest
<1>3. DOMAIN quotes' = Suppliers
  BY <1>1
<1>4. CASE Newest(v) = 0
  <2>1. quotes'[v] = <<>>
    BY <1>1, <1>4
  <2> QED BY <1>3, <1>4, <2>1
<1>5. CASE Newest(v) # 0
  <2> DEFINE answers == [r \in Requirements |-> Collected(v, r, finds[v][r])]
             q == quotes[v][Newest(v)]
             j == Judged(q, answers)
  <2>1. finds[v] \in [Requirements -> ModelFinds \cup {Silent}]
    BY <1>1
  <2>2. answers \in [Requirements -> Answer]
    BY <2>1, <1>5, CollectedIsAnswer
  <2>3. q \in Quotation /\ Newest(v) \in 1..Newest(v)
    BY <1>2, <1>5
  <2>4. quotes'[v] = [quotes[v] EXCEPT ![Newest(v)] = j]
    BY <1>1, <1>5
  <2> HIDE DEF answers
  <2>5. j \in Quotation /\ j.text = q.text /\ j.verdict # "UNKNOWN"
    BY <2>2, <2>3, JudgedIsQuotation
  <2> HIDE DEF j
  <2>6. /\ quotes'[v] \in Seq(Quotation)
        /\ Len(quotes'[v]) = Newest(v)
        /\ quotes'[v][Newest(v)] = j
        /\ \A i \in 1..Newest(v) :
             i # Newest(v) => quotes'[v][i] = quotes[v][i]
    <3>1. quotes[v] \in [1..Newest(v) -> Quotation]
      BY <1>2 DEF Newest
    <3>2. quotes'[v] \in [1..Newest(v) -> Quotation]
      BY <2>4, <2>5, <3>1
    <3> QED BY <1>2, <2>3, <2>4, <3>1, <3>2
  <2>7. \E found \in [Requirements -> ModelFinds \cup {Silent}] :
          j = Judged(q, [r \in Requirements |-> Collected(v, r, found[r])])
    BY <2>1 DEF j, answers
  <2> QED BY <1>3, <2>5, <2>6, <2>7
<1> QED BY <1>4, <1>5

LEMMA AcceptSigns ==
  ASSUME VerdictTypeOK, NEW u \in Suppliers, NEW k \in DOMAIN quotes[u],
         NEW r \in Requirements, AcceptDeviation(u, k, r),
         NEW v \in Suppliers
  PROVE  /\ DOMAIN quotes' = Suppliers
         /\ quotes'[v] \in Seq(Quotation)
         /\ Len(quotes'[v]) = Newest(v)
         /\ quotes[u][k].rows # <<>>
         /\ \A i \in 1..Newest(v) :
              quotes'[v][i] = IF v = u /\ i = k THEN Signed(quotes[v][i], r)
                              ELSE quotes[v][i]
<1>1. /\ quotes' = [quotes EXCEPT ![u][k] = Signed(@, r)]
      /\ quotes[u][k].rows # <<>>
  BY DEF AcceptDeviation
<1>2. quotes \in [Suppliers -> Seq(Quotation)]
  BY DEF VerdictTypeOK
<1> DEFINE q == quotes[u][k]
           a == Signed(q, r)
<1>3. quotes[u] \in Seq(Quotation) /\ q \in Quotation
  BY <1>2
<1>4. a \in Quotation
  BY <1>1, <1>3, AcceptedIsQuotation
<1>5. quotes' = [quotes EXCEPT ![u] = [quotes[u] EXCEPT ![k] = a]]
  BY <1>1
<1> HIDE DEF a
<1>6. [quotes[u] EXCEPT ![k] = a] \in Seq(Quotation)
        /\ Len([quotes[u] EXCEPT ![k] = a]) = Len(quotes[u])
  BY <1>3, <1>4
<1>7. /\ v # u => quotes'[v] = quotes[v]
      /\ v = u => quotes'[v] = [quotes[u] EXCEPT ![k] = a]
      /\ DOMAIN quotes' = Suppliers
  BY <1>2, <1>5
<1>8. CASE v = u
  BY <1>1, <1>2, <1>3, <1>6, <1>7, <1>8 DEF Newest, a
<1>9. CASE v # u
  BY <1>1, <1>2, <1>7, <1>9 DEF Newest
<1> QED BY <1>8, <1>9

-----------------------------------------------------------------------------
(* TechnicalVerdict: the invariant and what follows from it *)

LEMMA VerdictInitially == VerdictInit => VerdictIInv
<1> SUFFICES ASSUME VerdictInit PROVE VerdictIInv
  OBVIOUS
<1>1. quotes = [v \in Suppliers |-> <<>>] /\ accepted = 0
  BY DEF VerdictInit
<1>2. 0 \in 0..MaxAccepted
  BY VerdictAssumption
<1> QED BY <1>1, <1>2
        DEF VerdictIInv, VerdictTypeOK, YesIsMet, StatusFollowsAnswer,
            NewestIsCollected, Newest

LEMMA VerdictTypeStep ==
  VerdictTypeOK /\ [VerdictNext]_verdictVars => VerdictTypeOK'
<1> SUFFICES ASSUME VerdictTypeOK, [VerdictNext]_verdictVars
             PROVE  VerdictTypeOK'
  OBVIOUS
<1>1. ASSUME NEW u \in Suppliers, NEW text \in Documents,
             NEW changed \in BOOLEAN, IngestQuotation(u, text, changed)
      PROVE  VerdictTypeOK'
  <2>1. quotes' \in [Suppliers -> Seq(Quotation)]
    <3>1. quotes' = [v \in Suppliers |-> quotes'[v]]
      BY <1>1 DEF IngestQuotation, VerdictTypeOK
    <3>2. \A v \in Suppliers : quotes'[v] \in Seq(Quotation)
      BY <1>1, IngestAppends
    <3> QED BY <3>1, <3>2
  <2>2. ASSUME NEW v \in Suppliers, NEW i \in DOMAIN quotes'[v],
               quotes'[v][i].rows # <<>>
        PROVE  quotes'[v][i].verdict # "UNKNOWN"
    <3>1. v # u => quotes'[v] = quotes[v]
      BY <1>1, IngestAppends
    <3>2. v = u => i \in 1..Newest(v) /\ quotes'[v][i] = quotes[v][i]
      <4>1. ASSUME v = u PROVE i \in 1..(Newest(v) + 1)
        BY <1>1, <2>1, <2>2, <4>1, IngestAppends
      <4>2. v = u => i # Newest(v) + 1
        BY <1>1, <2>2, IngestAppends
      <4>3. Newest(v) \in Nat
        BY DEF VerdictTypeOK, Newest
      <4> QED BY <1>1, <4>1, <4>2, <4>3, IngestAppends
    <3> QED BY <2>2, <3>1, <3>2 DEF VerdictTypeOK, Newest
  <2>3. accepted' = accepted
    BY <1>1 DEF IngestQuotation
  <2> QED BY <2>1, <2>2, <2>3 DEF VerdictTypeOK
<1>2. ASSUME Evaluate PROVE VerdictTypeOK'
  <2>1. quotes' \in [Suppliers -> Seq(Quotation)]
    <3>1. quotes' = [v \in Suppliers |-> quotes'[v]]
      BY <1>2 DEF Evaluate
    <3>2. \A v \in Suppliers : quotes'[v] \in Seq(Quotation)
      BY <1>2, EvaluateJudges
    <3> QED BY <3>1, <3>2
  <2>2. ASSUME NEW v \in Suppliers, NEW i \in DOMAIN quotes'[v],
               quotes'[v][i].rows # <<>>
        PROVE  quotes'[v][i].verdict # "UNKNOWN"
    <3>1. i \in 1..Newest(v) /\ i \in DOMAIN quotes[v] /\ Newest(v) # 0
      BY <1>2, <2>1, <2>2, EvaluateJudges DEF VerdictTypeOK, Newest
    <3> QED BY <1>2, <2>2, <3>1, EvaluateJudges DEF VerdictTypeOK
  <2>3. accepted' = accepted
    BY <1>2 DEF Evaluate
  <2> QED BY <2>1, <2>2, <2>3 DEF VerdictTypeOK
<1>3. ASSUME NEW u \in Suppliers, NEW k \in DOMAIN quotes[u],
             NEW r \in Requirements, AcceptDeviation(u, k, r)
      PROVE  VerdictTypeOK'
  <2>1. quotes' \in [Suppliers -> Seq(Quotation)]
    <3>1. quotes' = [v \in Suppliers |-> quotes'[v]]
      BY <1>3 DEF AcceptDeviation, VerdictTypeOK
    <3>2. \A v \in Suppliers : quotes'[v] \in Seq(Quotation)
      BY <1>3, AcceptSigns
    <3> QED BY <3>1, <3>2
  <2>2. ASSUME NEW v \in Suppliers, NEW i \in DOMAIN quotes'[v],
               quotes'[v][i].rows # <<>>
        PROVE  quotes'[v][i].verdict # "UNKNOWN"
    <3>1. i \in 1..Newest(v) /\ i \in DOMAIN quotes[v]
            /\ quotes[v][i] \in Quotation
      BY <1>3, <2>1, <2>2, AcceptSigns DEF VerdictTypeOK, Newest
    <3>2. CASE v = u /\ i = k
      <4>1. quotes[v][i].rows # <<>> /\ quotes'[v][i] = Signed(quotes[v][i], r)
        BY <1>3, <3>1, <3>2, AcceptSigns
      <4>2. quotes'[v][i].verdict = quotes[v][i].verdict
        BY <3>1, <4>1, AcceptedIsQuotation
      <4> QED BY <3>1, <4>1, <4>2 DEF VerdictTypeOK
    <3>3. CASE ~(v = u /\ i = k)
      <4>1. quotes'[v][i] = quotes[v][i]
        BY <1>3, <3>1, <3>3, AcceptSigns
      <4> QED BY <2>2, <3>1, <4>1 DEF VerdictTypeOK
    <3> QED BY <3>2, <3>3
  <2>3. accepted' \in 0..MaxAccepted
    BY <1>3, VerdictAssumption DEF AcceptDeviation, VerdictTypeOK
  <2> QED BY <2>1, <2>2, <2>3 DEF VerdictTypeOK
<1>4. ASSUME UNCHANGED verdictVars PROVE VerdictTypeOK'
  BY <1>4 DEF verdictVars, VerdictTypeOK
<1> QED BY <1>1, <1>2, <1>3, <1>4 DEF VerdictNext

\* A quotation that is there after a step was there before it, unless it is
\* the one that has just arrived and has no assessments.
LEMMA AssessedWasThere ==
  ASSUME VerdictTypeOK, VerdictNext,
         NEW v \in Suppliers, NEW i \in DOMAIN quotes'[v],
         quotes'[v][i].rows # <<>> \/ i \in 1..Newest(v)
  PROVE  /\ i \in DOMAIN quotes[v] /\ i \in 1..Newest(v)
         /\ quotes[v][i] \in Quotation
         /\ quotes'[v][i].text = quotes[v][i].text
         /\ \/ quotes'[v][i] = quotes[v][i]
            \/ /\ i = Newest(v)
               /\ \E found \in [Requirements -> ModelFinds \cup {Silent}] :
                    quotes'[v][i]
                      = Judged(quotes[v][i],
                               [r \in Requirements |->
                                  Collected(v, r, found[r])])
            \/ /\ quotes[v][i].rows # <<>>
               /\ \E r \in Requirements :
                    quotes'[v][i] = Signed(quotes[v][i], r)
<1>0. /\ Newest(v) \in Nat /\ DOMAIN quotes[v] = 1..Newest(v)
      /\ \A k \in 1..Newest(v) : quotes[v][k] \in Quotation
  BY DEF VerdictTypeOK, Newest
<1>1. ASSUME NEW u \in Suppliers, NEW text \in Documents,
             NEW changed \in BOOLEAN, IngestQuotation(u, text, changed)
      PROVE  i \in 1..Newest(v) /\ quotes'[v][i] = quotes[v][i]
  <2>1. CASE v = u
    <3>1. quotes'[v] \in Seq(Quotation) /\ Len(quotes'[v]) = Newest(v) + 1
      BY <1>1, <2>1, IngestAppends
    <3>2. i \in 1..(Newest(v) + 1)
      BY <3>1
    <3>3. i # Newest(v) + 1
      BY <1>0, <1>1, <2>1, IngestAppends
    <3> QED BY <1>0, <1>1, <2>1, <3>2, <3>3, IngestAppends
  <2>2. CASE v # u
    BY <1>0, <1>1, <2>2, IngestAppends
  <2> QED BY <2>1, <2>2
<1>2. ASSUME Evaluate
      PROVE  /\ i \in 1..Newest(v)
             /\ quotes'[v][i].text = quotes[v][i].text
             /\ \/ quotes'[v][i] = quotes[v][i]
                \/ /\ i = Newest(v)
                   /\ \E found \in [Requirements -> ModelFinds \cup {Silent}] :
                        quotes'[v][i]
                          = Judged(quotes[v][i],
                                   [r \in Requirements |->
                                      Collected(v, r, found[r])])
  <2>1. quotes'[v] \in Seq(Quotation) /\ Len(quotes'[v]) = Newest(v)
    BY <1>2, EvaluateJudges
  <2>2. i \in 1..Newest(v) /\ Newest(v) # 0
    BY <1>0, <2>1
  <2> QED BY <1>2, <2>2, EvaluateJudges
<1>3. ASSUME NEW u \in Suppliers, NEW k \in DOMAIN quotes[u],
             NEW r \in Requirements, AcceptDeviation(u, k, r)
      PROVE  /\ i \in 1..Newest(v)
             /\ quotes'[v][i].text = quotes[v][i].text
             /\ \/ quotes'[v][i] = quotes[v][i]
                \/ /\ quotes[v][i].rows # <<>>
                   /\ \E o \in Requirements :
                        quotes'[v][i] = Signed(quotes[v][i], o)
  <2>1. quotes'[v] \in Seq(Quotation) /\ Len(quotes'[v]) = Newest(v)
    BY <1>3, AcceptSigns
  <2>2. i \in 1..Newest(v)
    BY <1>0, <2>1
  <2>3. CASE v = u /\ i = k
    <3>1. quotes[v][i].rows # <<>> /\ quotes'[v][i] = Signed(quotes[v][i], r)
      BY <1>3, <2>2, <2>3, AcceptSigns
    <3>2. quotes'[v][i].text = quotes[v][i].text
      BY <1>0, <2>2, <3>1, AcceptedIsQuotation
    <3> QED BY <2>2, <3>1, <3>2
  <2>4. CASE ~(v = u /\ i = k)
    BY <1>3, <2>2, <2>4, AcceptSigns
  <2> QED BY <2>3, <2>4
<1>4. \/ i \in 1..Newest(v) /\ quotes'[v][i] = quotes[v][i]
      \/ Evaluate
      \/ \E u \in Suppliers : \E k \in DOMAIN quotes[u], r \in Requirements :
           AcceptDeviation(u, k, r)
  BY <1>1 DEF VerdictNext
<1> QED BY <1>0, <1>2, <1>3, <1>4

\* Quotations are added behind those there are, and no text changes.
LEMMA TextsStay ==
  ASSUME VerdictTypeOK, VerdictNext, NEW v \in Suppliers
  PROVE  /\ Newest(v) \in Nat /\ Newest(v)' \in Nat
         /\ Newest(v)' >= Newest(v)
         /\ DOMAIN quotes'[v] = 1..Newest(v)'
         /\ DOMAIN quotes[v] = 1..Newest(v)
         /\ \A k \in 1..Newest(v) : quotes'[v][k].text = quotes[v][k].text
<1>0. /\ quotes[v] \in Seq(Quotation)
      /\ \A k \in 1..Newest(v) : /\ quotes[v][k] \in Quotation
                                 /\ k \in DOMAIN quotes[v]
  BY DEF VerdictTypeOK, Newest
<1>1. VerdictTypeOK'
  BY VerdictTypeStep
<1>2. quotes'[v] \in Seq(Quotation)
  BY <1>1 DEF VerdictTypeOK
<1>3. ASSUME NEW u \in Suppliers, NEW text \in Documents,
             NEW changed \in BOOLEAN, IngestQuotation(u, text, changed)
      PROVE  /\ Len(quotes'[v]) >= Newest(v)
             /\ \A k \in 1..Newest(v) :
                  quotes'[v][k].text = quotes[v][k].text
  BY <1>0, <1>3, IngestAppends DEF Newest
<1>4. ASSUME Evaluate
      PROVE  /\ Len(quotes'[v]) >= Newest(v)
             /\ \A k \in 1..Newest(v) :
                  quotes'[v][k].text = quotes[v][k].text
  BY <1>0, <1>4, EvaluateJudges DEF Newest
<1>5. ASSUME NEW u \in Suppliers, NEW i \in DOMAIN quotes[u],
             NEW r \in Requirements, AcceptDeviation(u, i, r)
      PROVE  /\ Len(quotes'[v]) >= Newest(v)
             /\ \A k \in 1..Newest(v) :
                  quotes'[v][k].text = quotes[v][k].text
  <2>1. Len(quotes'[v]) = Newest(v)
    BY <1>5, AcceptSigns
  <2>2. ASSUME NEW k \in 1..Newest(v)
        PROVE  quotes'[v][k].text = quotes[v][k].text
    <3>1. CASE v = u /\ k = i
      <4>1. /\ quotes[v][k].rows # <<>> /\ quotes[v][k] \in Quotation
            /\ quotes'[v][k] = Signed(quotes[v][k], r)
        BY <1>0, <1>5, <3>1, AcceptSigns
      <4> QED BY <4>1, AcceptedIsQuotation
    <3>2. CASE ~(v = u /\ k = i)
      BY <1>5, <3>2, AcceptSigns
    <3> QED BY <3>1, <3>2
  <2> QED BY <1>0, <2>1, <2>2 DEF Newest
<1>6. /\ Len(quotes'[v]) >= Newest(v)
      /\ \A k \in 1..Newest(v) : quotes'[v][k].text = quotes[v][k].text
  BY <1>3, <1>4, <1>5 DEF VerdictNext
<1> QED BY <1>0, <1>2, <1>6 DEF Newest

LEMMA VerdictStep ==
  VerdictIInv /\ [VerdictNext]_verdictVars => VerdictIInv'
<1> SUFFICES ASSUME VerdictIInv, VerdictNext PROVE VerdictIInv'
  <2>1. ASSUME VerdictIInv, UNCHANGED verdictVars PROVE VerdictIInv'
    <3>1. quotes' = quotes /\ VerdictTypeOK'
      BY <2>1, VerdictTypeStep DEF verdictVars, VerdictIInv
    <3>2. YesIsMet'
      BY <2>1, <3>1 DEF VerdictIInv, YesIsMet, Mandatory, Met
    <3>6. StatusFollowsAnswer'
      BY <2>1, <3>1 DEF VerdictIInv, StatusFollowsAnswer
    <3>3. \A v \in Suppliers : Newest(v)' = Newest(v)
      BY <3>1 DEF Newest
    <3>4. ASSUME NEW v \in Suppliers, NEW r \in Requirements, NEW found,
                 Newest(v) # 0
          PROVE  Collected(v, r, found)' = Collected(v, r, found)
      BY <2>1, <3>1, <3>3, <3>4, CollectedFollowsTexts DEF VerdictIInv
    <3>5. NewestIsCollected'
      BY <2>1, <3>1, <3>3, <3>4 DEF VerdictIInv, NewestIsCollected
    <3> QED BY <3>1, <3>2, <3>5, <3>6 DEF VerdictIInv
  <2> QED BY <2>1
<1> USE DEF VerdictIInv
<1>1. VerdictTypeOK'
  BY VerdictTypeStep
<1>2. YesIsMet'
  <2> SUFFICES ASSUME NEW v \in Suppliers, NEW i \in DOMAIN quotes'[v],
                      quotes'[v][i].rows # <<>>,
                      quotes'[v][i].verdict = "YES",
                      NEW r \in Mandatory
               PROVE  Met(quotes'[v][i].rows[r])
    BY DEF YesIsMet, Mandatory, Met
  <2> DEFINE q == quotes[v][i]
  <2>1. i \in DOMAIN quotes[v] /\ i \in 1..Newest(v) /\ q \in Quotation
    BY AssessedWasThere
  <2>2. CASE quotes'[v][i] = q
    BY <2>1, <2>2 DEF YesIsMet
  <2>3. ASSUME NEW found \in [Requirements -> ModelFinds \cup {Silent}],
               quotes'[v][i] = Judged(q, [o \in Requirements |->
                                            Collected(v, o, found[o])])
        PROVE  Met(quotes'[v][i].rows[r])
    <3> DEFINE answers == [o \in Requirements |-> Collected(v, o, found[o])]
    <3>1. Newest(v) # 0
      BY <2>1 DEF VerdictTypeOK, Newest
    <3>2. answers \in [Requirements -> Answer]
      BY <3>1, CollectedIsAnswer
    <3> HIDE DEF answers
    <3>3. quotes'[v][i].verdict = Qualified(quotes'[v][i].rows)
      BY <2>1, <2>3, <3>2, JudgedIsQuotation DEF answers
    <3> QED BY <3>3 DEF Qualified, Mandatory
  <2>4. ASSUME NEW o \in Requirements, quotes'[v][i] = Signed(q, o),
               q.rows # <<>>
        PROVE  Met(quotes'[v][i].rows[r])
    <3>1. r \in Requirements
      BY DEF Mandatory
    <3>2. /\ quotes'[v][i].verdict = q.verdict
          /\ quotes'[v][i].rows[r].status = q.rows[r].status
          /\ q.rows[r].accepted => quotes'[v][i].rows[r].accepted
      <4> DEFINE a == quotes'[v][i]
      <4>1. q \in Quotation /\ a = Signed(q, o) /\ q.rows # <<>>
        BY <2>1, <2>4
      <4> HIDE DEF a, q
      <4>2. /\ a.verdict = q.verdict
            /\ \A x \in Requirements :
                 /\ a.rows[x].answer = q.rows[x].answer
                 /\ a.rows[x].status = q.rows[x].status
                 /\ q.rows[x].accepted => a.rows[x].accepted
        BY <4>1, AcceptedIsQuotation
      <4> QED BY <3>1, <4>2 DEF a
    <3>3. Met(q.rows[r])
      BY <2>1, <2>4, <3>2 DEF YesIsMet
    <3> QED BY <3>2, <3>3 DEF Met
  <2> QED BY <2>2, <2>3, <2>4, AssessedWasThere
<1>3. StatusFollowsAnswer'
  <2> SUFFICES ASSUME NEW v \in Suppliers, NEW i \in DOMAIN quotes'[v],
                      quotes'[v][i].rows # <<>>,
                      NEW r \in Requirements
               PROVE  quotes'[v][i].rows[r].status
                        = Evaluated(quotes'[v][i].rows[r].answer, Req[r])
    BY DEF StatusFollowsAnswer, Evaluated, Incomparable, OfWords, OfNumber,
           Below, Above, Less, InBase, Convertible, UnitOf
  <2> DEFINE q == quotes[v][i]
  <2>1. i \in DOMAIN quotes[v] /\ i \in 1..Newest(v) /\ q \in Quotation
    BY AssessedWasThere
  <2>2. CASE quotes'[v][i] = q
    BY <2>1, <2>2 DEF StatusFollowsAnswer
  <2>3. ASSUME NEW found \in [Requirements -> ModelFinds \cup {Silent}],
               quotes'[v][i] = Judged(q, [o \in Requirements |->
                                            Collected(v, o, found[o])])
        PROVE  quotes'[v][i].rows[r].status
                 = Evaluated(quotes'[v][i].rows[r].answer, Req[r])
    <3> DEFINE answers == [o \in Requirements |-> Collected(v, o, found[o])]
    <3>1. Newest(v) # 0
      BY <2>1 DEF VerdictTypeOK, Newest
    <3>2. answers \in [Requirements -> Answer]
      BY <3>1, CollectedIsAnswer
    <3> HIDE DEF answers
    <3> QED BY <2>1, <2>3, <3>2, JudgedIsQuotation DEF answers
  <2>4. ASSUME NEW o \in Requirements, quotes'[v][i] = Signed(q, o),
               q.rows # <<>>
        PROVE  quotes'[v][i].rows[r].status
                 = Evaluated(quotes'[v][i].rows[r].answer, Req[r])
    <3>1. /\ quotes'[v][i].rows[r].answer = q.rows[r].answer
          /\ quotes'[v][i].rows[r].status = q.rows[r].status
      BY <2>1, <2>4, AcceptedIsQuotation
    <3> QED BY <2>1, <2>4, <3>1 DEF StatusFollowsAnswer
  <2> QED BY <2>2, <2>3, <2>4, AssessedWasThere
<1>4. NewestIsCollected'
  <2> SUFFICES ASSUME NEW v \in Suppliers, Newest(v)' # 0,
                      quotes'[v][Newest(v)'].rows # <<>>,
                      NEW r \in Requirements
               PROVE  \E found \in ModelFinds \cup {Silent} :
                        quotes'[v][Newest(v)'].rows[r].answer
                          = Collected(v, r, found)'
    BY DEF NewestIsCollected
  <2> DEFINE i == Newest(v)
             q == quotes[v][i]
  <2>1. Newest(v)' = i /\ i # 0 /\ i \in DOMAIN quotes'[v]
    <3>1. Newest(v)' \in DOMAIN quotes'[v]
      BY TextsStay
    <3>2. Newest(v)' \in 1..Newest(v)
      BY <3>1, AssessedWasThere
    <3> QED BY <3>1, <3>2, TextsStay
  <2>2. ASSUME NEW found
        PROVE  Collected(v, r, found)' = Collected(v, r, found)
    BY <2>1, TextsStay, CollectedFollowsTexts
  <2> SUFFICES \E found \in ModelFinds \cup {Silent} :
                 quotes'[v][i].rows[r].answer = Collected(v, r, found)
    BY <2>1, <2>2
  <2>3. quotes'[v][i].rows # <<>> /\ q \in Quotation
    BY <2>1, AssessedWasThere
  <2>4. CASE quotes'[v][i] = q
    BY <2>1, <2>3, <2>4 DEF NewestIsCollected
  <2>5. ASSUME NEW found \in [Requirements -> ModelFinds \cup {Silent}],
               quotes'[v][i] = Judged(q, [o \in Requirements |->
                                            Collected(v, o, found[o])])
        PROVE  quotes'[v][i].rows[r].answer = Collected(v, r, found[r])
    <3> DEFINE answers == [o \in Requirements |-> Collected(v, o, found[o])]
    <3>1. answers \in [Requirements -> Answer]
      BY <2>1, CollectedIsAnswer
    <3>2. answers[r] = Collected(v, r, found[r])
      OBVIOUS
    <3> HIDE DEF answers
    <3>3. quotes'[v][i].rows[r].answer = answers[r]
      BY <2>3, <2>5, <3>1, JudgedIsQuotation DEF answers
    <3> QED BY <3>2, <3>3
  <2>6. ASSUME NEW o \in Requirements, quotes'[v][i] = Signed(q, o),
               q.rows # <<>>
        PROVE  \E found \in ModelFinds \cup {Silent} :
                 quotes'[v][i].rows[r].answer = Collected(v, r, found)
    <3>1. quotes'[v][i].rows[r].answer = q.rows[r].answer
      BY <2>3, <2>6, AcceptedIsQuotation
    <3> QED BY <2>1, <2>6, <3>1 DEF NewestIsCollected
  <2>7. \A found \in [Requirements -> ModelFinds \cup {Silent}] :
          found[r] \in ModelFinds \cup {Silent}
    OBVIOUS
  <2> QED BY <2>1, <2>3, <2>4, <2>5, <2>6, <2>7, AssessedWasThere
<1> QED BY <1>1, <1>2, <1>3, <1>4

LEMMA VerdictInvariant == VerdictSpec => []VerdictIInv
<1> QED BY VerdictInitially, VerdictStep, PTL DEF VerdictSpec

\* Whatever arrives, is evaluated and accepted, a list of quotations stays one.
THEOREM VerdictTypeCorrect == VerdictSpec => []VerdictTypeOK
<1>1. VerdictIInv => VerdictTypeOK
  BY DEF VerdictIInv
<1> QED BY <1>1, VerdictInvariant, PTL

\* No supplier is qualified by an answer that does not fit: for any demands,
\* units and documents, whatever the model makes of them.
THEOREM NobodyQualifiesUnproven == VerdictSpec => []QualifiedIsProven
<1>1. VerdictIInv => QualifiedIsProven
  <2> SUFFICES ASSUME VerdictIInv, NEW v \in Suppliers,
                      NEW i \in DOMAIN quotes[v],
                      quotes[v][i].rows # <<>>, quotes[v][i].verdict = "YES",
                      NEW r \in Mandatory, ~quotes[v][i].rows[r].accepted
               PROVE  Fits(quotes[v][i].rows[r].answer, Req[r])
    BY DEF QualifiedIsProven
  <2> DEFINE row == quotes[v][i].rows[r]
  <2>1. r \in Requirements /\ Req[r] \in Demand
    BY VerdictAssumption DEF Mandatory
  <2>2. row \in Assessment
    <3>1. quotes[v][i] \in Quotation
      BY DEF VerdictIInv, VerdictTypeOK
    <3> QED BY <2>1, <3>1 DEF Quotation
  <2>3. row.answer \in Answer
    BY <2>2 DEF Assessment
  <2>4. Evaluated(row.answer, Req[r]) = "COMPLIANT"
    BY <2>1 DEF VerdictIInv, YesIsMet, StatusFollowsAnswer, Met
  <2> QED BY <2>1, <2>3, <2>4, CompliantFits
<1> QED BY <1>1, VerdictInvariant, PTL

\* What one step makes of a supplier who was qualified.
LEMMA QualifiedStep ==
  ASSUME VerdictIInv, VerdictNext, NEW v \in Suppliers,
         NEW i \in DOMAIN quotes[v], quotes[v][i].rows # <<>>,
         quotes[v][i].verdict = "YES", quotes'[v][i].verdict = "NO"
  PROVE  \E r \in Mandatory :
           /\ ~quotes[v][i].rows[r].accepted
           /\ Claims(v, r) = {}
           /\ quotes[v][i].rows[r].answer \in ModelFinds
<1> USE DEF VerdictIInv
<1> DEFINE q == quotes[v][i]
<1>1. PICK found \in [Requirements -> ModelFinds \cup {Silent}] :
        /\ i = Newest(v) /\ i # 0 /\ q \in Quotation
        /\ quotes'[v][i] = Judged(q, [o \in Requirements |->
                                        Collected(v, o, found[o])])
  <2>1. i \in 1..Newest(v) /\ i \in DOMAIN quotes'[v] /\ q \in Quotation
    BY TextsStay DEF VerdictTypeOK
  <2>2. ASSUME NEW o \in Requirements, quotes'[v][i] = Signed(q, o)
        PROVE  FALSE
    BY <2>1, <2>2, AcceptedIsQuotation
  <2>3. i # 0
    BY <2>1, TextsStay
  <2> QED BY <2>1, <2>2, <2>3, AssessedWasThere
<1> DEFINE answers == [o \in Requirements |-> Collected(v, o, found[o])]
           j == quotes'[v][i]
<1>2. answers \in [Requirements -> Answer]
  BY <1>1, CollectedIsAnswer
<1>3. \A o \in Requirements : answers[o] = Collected(v, o, found[o])
  OBVIOUS
<1> HIDE DEF answers
<1>4. /\ j.verdict = Qualified(j.rows)
      /\ \A o \in Requirements :
           /\ j.rows[o].status = Evaluated(answers[o], Req[o])
           /\ j.rows[o].accepted = q.rows[o].accepted
  BY <1>1, <1>2, JudgedIsQuotation DEF answers
<1>5. PICK r \in Mandatory : ~Met(j.rows[r])
  BY <1>4 DEF Qualified, Mandatory
<1>6. r \in Requirements
  BY DEF Mandatory
<1>7. ~q.rows[r].accepted /\ q.rows[r].status = "COMPLIANT"
  BY <1>4, <1>5, <1>6 DEF Met, YesIsMet
<1>8. Evaluated(answers[r], Req[r]) # "COMPLIANT"
  BY <1>4, <1>5, <1>6 DEF Met
<1>9. PICK before \in ModelFinds \cup {Silent} :
        q.rows[r].answer = Collected(v, r, before)
  BY <1>1, <1>6 DEF NewestIsCollected
<1>10. Evaluated(q.rows[r].answer, Req[r]) = "COMPLIANT"
  BY <1>6, <1>7 DEF StatusFollowsAnswer
<1>11. Collected(v, r, before) # Collected(v, r, found[r])
  BY <1>3, <1>6, <1>8, <1>9, <1>10
<1>12. Claimed(v, r) = {} /\ InAttachment(v, r) = Silent
  BY <1>11 DEF Collected
<1>13. Claims(v, r) = {}
  BY <1>6, <1>12, NewestClaimIsClaimed
<1>14. q.rows[r].answer # Silent
  BY <1>10 DEF Evaluated
<1>15. q.rows[r].answer = before
  BY <1>9, <1>12, <1>14 DEF Collected, FoundByModel
<1> QED BY <1>7, <1>13, <1>14, <1>15

\* An evaluation takes a verdict back only over an answer that the model alone
\* had found: claims and deviations outlast any sequence of steps.
THEOREM VerdictIsNotTakenBack == VerdictSpec => VerdictStands
<1>1. VerdictIInv /\ [VerdictNext]_verdictVars =>
        [\A v \in Suppliers : \A i \in DOMAIN quotes[v] :
           /\ quotes[v][i].rows # <<>>
           /\ quotes[v][i].verdict = "YES"
           /\ quotes'[v][i].verdict = "NO"
           => \E r \in Mandatory :
                /\ ~quotes[v][i].rows[r].accepted
                /\ Claims(v, r) = {}
                /\ quotes[v][i].rows[r].answer \in ModelFinds]_verdictVars
  BY QualifiedStep
<1> QED BY <1>1, VerdictInvariant, PTL DEF VerdictSpec, VerdictStands
=============================================================================
