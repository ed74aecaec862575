---------------------------- MODULE RfqDesk_proofs ----------------------------
(***************************************************************************)
(* What RfqDesk guarantees for any suppliers, limits and settings and any  *)
(* number of packages.  Almost every action overwrites some package; what  *)
(* all of them leave standing is said once, in GoesOn: who is invited, the *)
(* release, and that what was sent or asked does not become a draft again. *)
(***************************************************************************)
EXTENDS RfqDesk, SourcingCase_proofs, FiniteSetTheorems

SomeReleased == \E i \in DOMAIN rfqs : rfqs[i].released

\* The workflow knows a package from its first answer on, and has passed its
\* gate only with a release, unless there is no gate.
FlowFollowsRelease ==
  /\ flow.stage # "prepare" => flow.rfq \in DOMAIN rfqs
  /\ flow.signalled => SomeReleased
  /\ flow.stage \notin {"prepare", "release"} => AutoRelease \/ SomeReleased

PackagesAreCounted == Len(rfqs) <= MaxRfqs

IInv ==
  /\ TypeOK
  /\ PackagesAreCounted
  /\ FlowFollowsRelease
  /\ NothingOutBeforeRelease
  /\ SomebodyWasAsked
  /\ InvitationsAreBounded

LEMMA InitIInv == Init => IInv
<1> SUFFICES ASSUME Init PROVE IInv
  OBVIOUS
<1> USE CaseAssumption, RfqAssumption DEF Init
<1>1. case \in Case /\ case.state = "RECEIVED"
  BY DEF NewCase, Case, CaseStates
<1>2. /\ rfqs \in Seq(Rfq) /\ Len(rfqs) = 0 /\ DOMAIN rfqs = {}
  OBVIOUS
<1>3. /\ reminders \in [Suppliers -> 0..MaxReminders]
      /\ \A v \in Suppliers : ~(reminders[v] > 0)
  OBVIOUS
<1>4. /\ flow \in [stage : Stages, rfq : 0..MaxRfqs, signalled : BOOLEAN]
      /\ flow.stage = "prepare" /\ ~flow.signalled
  <2>1. 0 \in 0..MaxRfqs /\ "prepare" \in Stages
    BY DEF Stages
  <2> QED
    BY <2>1, Zenon
<1>5. TypeOK
  BY <1>1, <1>2, <1>3, <1>4 DEF TypeOK, Answers
<1> QED
  BY <1>1, <1>2, <1>3, <1>4, <1>5
     DEF IInv, PackagesAreCounted, FlowFollowsRelease, NothingOutBeforeRelease,
         SomebodyWasAsked, InvitationsAreBounded

-----------------------------------------------------------------------------
(* What becomes of a package *)

GoesOn(p, q) ==
  /\ q \in Rfq
  /\ p.released => q.released
  /\ p.status # "PENDING_RELEASE_APPROVAL"
       => q.status # "PENDING_RELEASE_APPROVAL"
  /\ \A v \in Suppliers :
       /\ q.invited[v] = "NONE" <=> p.invited[v] = "NONE"
       /\ p.invited[v] \notin {"NONE", "DRAFT"} => q.invited[v] # "DRAFT"
       /\ q.mail[v] # "NONE" =>
            \/ p.mail[v] # "NONE"
            \/ flow.stage = "send" /\ p.invited[v] # "NONE"

PackagesGoOn ==
  /\ rfqs' \in Seq(Rfq)
  /\ DOMAIN rfqs' = DOMAIN rfqs
  /\ Len(rfqs') = Len(rfqs)
  /\ \A i \in DOMAIN rfqs : GoesOn(rfqs[i], rfqs'[i])

LEMMA Unchanged ==
  ASSUME NEW p \in Rfq
  PROVE  GoesOn(p, p)
BY DEF GoesOn

LEMMA Overwritten ==
  ASSUME rfqs \in Seq(Rfq), NEW i \in DOMAIN rfqs, NEW q,
         GoesOn(rfqs[i], q), rfqs' = [rfqs EXCEPT ![i] = q]
  PROVE  PackagesGoOn
<1>1. q \in Rfq
  BY DEF GoesOn
<1>2. /\ rfqs' \in Seq(Rfq) /\ DOMAIN rfqs' = DOMAIN rfqs
      /\ Len(rfqs') = Len(rfqs)
      /\ \A j \in DOMAIN rfqs : rfqs'[j] = IF j = i THEN q ELSE rfqs[j]
      /\ \A j \in DOMAIN rfqs : rfqs[j] \in Rfq
  BY <1>1
<1> QED
  BY <1>2, Unchanged DEF PackagesGoOn

\* Marking an invitation of a supplier who is invited.
LEMMA Marked ==
  ASSUME NEW p \in Rfq, NEW v \in Suppliers, p.invited[v] # "NONE",
         NEW status \in InvitationStatus \ {"NONE", "DRAFT"}
  PROVE  GoesOn(p, [p EXCEPT !.invited = [p.invited EXCEPT ![v] = status]])
BY DEF GoesOn, Rfq, InvitationStatus

\* As long as packages go on, every part of the invariant that speaks of
\* packages holds on.
LEMMA Kept ==
  ASSUME IInv, PackagesGoOn,
         case'.state = "WAITING_FOR_QUOTES" =>
           case.state = "WAITING_FOR_QUOTES" \/ SomebodyWasAsked',
         \A v \in Suppliers :
           reminders'[v] > 0 =>
             reminders[v] > 0 \/ \E i \in DOMAIN rfqs : v \in Invitees(i)
  PROVE  /\ PackagesAreCounted'
         /\ SomeReleased => SomeReleased'
         /\ NothingOutBeforeRelease'
         /\ SomebodyWasAsked'
         /\ InvitationsAreBounded'
<1> USE DEF PackagesGoOn
<1>1. \A i \in DOMAIN rfqs : Invitees(i)' = Invitees(i)
  BY DEF GoesOn, Invitees
<1>2. SomeReleased => SomeReleased'
  BY DEF GoesOn, SomeReleased
<1>3. NothingOutBeforeRelease'
  <2> SUFFICES ASSUME NEW i \in DOMAIN rfqs, NEW v \in Suppliers,
                      rfqs'[i].mail[v] # "NONE"
               PROVE  v \in Invitees(i)' /\ (AutoRelease \/ SomeReleased')
    BY DEF NothingOutBeforeRelease, SomeReleased
  <2>1. CASE rfqs[i].mail[v] # "NONE"
    BY <2>1, <1>1, <1>2 DEF IInv, NothingOutBeforeRelease, SomeReleased
  <2>2. CASE flow.stage = "send" /\ rfqs[i].invited[v] # "NONE"
    BY <2>2, <1>1, <1>2 DEF IInv, FlowFollowsRelease, Invitees
  <2> QED
    BY <2>1, <2>2 DEF GoesOn
<1>4. SomebodyWasAsked'
  <2> SUFFICES ASSUME case.state = "WAITING_FOR_QUOTES"
               PROVE  SomebodyWasAsked'
    BY DEF SomebodyWasAsked
  <2>1. PICK i \in DOMAIN rfqs :
          /\ rfqs[i].status # "PENDING_RELEASE_APPROVAL"
          /\ \E v \in Invitees(i) : rfqs[i].invited[v] # "DRAFT"
    BY DEF IInv, SomebodyWasAsked
  <2>2. PICK v \in Invitees(i) : rfqs[i].invited[v] # "DRAFT"
    BY <2>1
  <2>3. rfqs'[i].invited[v] # "DRAFT" /\ v \in Invitees(i)'
    BY <1>1, <2>2 DEF GoesOn, Invitees
  <2>4. rfqs'[i].status # "PENDING_RELEASE_APPROVAL"
    BY <2>1 DEF GoesOn
  <2> QED
    BY <2>3, <2>4 DEF SomebodyWasAsked
<1>5. InvitationsAreBounded'
  BY <1>1 DEF IInv, InvitationsAreBounded
<1> QED
  BY <1>2, <1>3, <1>4, <1>5 DEF IInv, PackagesAreCounted

\* The rest of the invariant, for a step that moves packages on.
LEMMA Settled ==
  ASSUME IInv, PackagesGoOn,
         case' \in Case, selected' \in SUBSET Suppliers,
         answer' \in [Suppliers -> Answers],
         case'.state = "WAITING_FOR_QUOTES" =>
           case.state = "WAITING_FOR_QUOTES" \/ SomebodyWasAsked',
         reminders' \in [Suppliers -> 0..MaxReminders],
         \A v \in Suppliers :
           reminders'[v] > 0 =>
             reminders[v] > 0 \/ \E i \in DOMAIN rfqs : v \in Invitees(i),
         flow' \in [stage : Stages, rfq : 0..MaxRfqs, signalled : BOOLEAN],
         flow' = flow \/ FlowFollowsRelease'
  PROVE  IInv'
<1>1. /\ PackagesAreCounted' /\ NothingOutBeforeRelease'
      /\ SomebodyWasAsked' /\ InvitationsAreBounded'
      /\ SomeReleased => SomeReleased'
  BY Kept
<1>2. TypeOK'
  BY DEF TypeOK, PackagesGoOn
<1>3. FlowFollowsRelease'
  <2>1. CASE flow' = flow
    BY <2>1, <1>1 DEF IInv, FlowFollowsRelease, PackagesGoOn
  <2> QED
    BY <2>1
<1> QED
  BY <1>1, <1>2, <1>3 DEF IInv

\* A step that touches one package and what suppliers are known to have said.
LEMMA Noted ==
  ASSUME IInv, PackagesGoOn, UNCHANGED <<case, selected, reminders, flow>>,
         answer' \in [Suppliers -> Answers]
  PROVE  IInv'
<1>1. /\ case \in Case /\ selected \in SUBSET Suppliers
      /\ reminders \in [Suppliers -> 0..MaxReminders]
      /\ flow \in [stage : Stages, rfq : 0..MaxRfqs, signalled : BOOLEAN]
  BY DEF IInv, TypeOK
<1> QED
  BY <1>1, Settled

LEMMA NothingTouched ==
  ASSUME IInv, UNCHANGED rfqs
  PROVE  PackagesGoOn
BY Unchanged DEF IInv, TypeOK, PackagesGoOn

-----------------------------------------------------------------------------
(* Steps that leave the packages alone *)

LEMMA StutterKeepsIInv ==
  ASSUME IInv, UNCHANGED vars PROVE IInv'
BY NothingTouched, Noted DEF IInv, TypeOK, vars

LEMMA ReselectKeepsIInv ==
  ASSUME IInv, Reselect PROVE IInv'
<1> USE DEF Reselect
<1>1. case' \in Case /\ (case'.state = "WAITING_FOR_QUOTES" =>
                           case.state = "WAITING_FOR_QUOTES")
  <2>1. "SOURCING_STRATEGY" \in CaseStates /\ case \in Case
    BY DEF CaseStates, IInv, TypeOK
  <2> QED
    BY <2>1, TransitionCase
<1> QED
  BY <1>1, NothingTouched, Settled DEF IInv, TypeOK

LEMMA PassReleaseGateKeepsIInv ==
  ASSUME IInv, PassReleaseGate PROVE IInv'
<1> USE DEF PassReleaseGate
<1>1. flow \in [stage : Stages, rfq : 0..MaxRfqs, signalled : BOOLEAN]
  BY DEF IInv, TypeOK
<1>2. /\ flow'.stage = "send" /\ flow'.rfq = flow.rfq
      /\ flow'.signalled = flow.signalled
      /\ flow' \in [stage : Stages, rfq : 0..MaxRfqs, signalled : BOOLEAN]
  BY <1>1 DEF Stages
<1>3. FlowFollowsRelease'
  BY <1>2 DEF IInv, FlowFollowsRelease, SomeReleased
<1> QED
  BY <1>2, <1>3, NothingTouched, Settled DEF IInv, TypeOK

LEMMA StopCollectingKeepsIInv ==
  ASSUME IInv, StopCollecting PROVE IInv'
<1> USE DEF StopCollecting
<1>1. flow \in [stage : Stages, rfq : 0..MaxRfqs, signalled : BOOLEAN]
  BY DEF IInv, TypeOK
<1>2. /\ flow'.stage = "close" /\ flow'.rfq = flow.rfq
      /\ flow'.signalled = flow.signalled
      /\ flow' \in [stage : Stages, rfq : 0..MaxRfqs, signalled : BOOLEAN]
  BY <1>1 DEF Stages
<1>3. FlowFollowsRelease'
  BY <1>2 DEF IInv, FlowFollowsRelease, SomeReleased
<1> QED
  BY <1>2, <1>3, NothingTouched, Settled DEF IInv, TypeOK

LEMMA RemindKeepsIInv ==
  ASSUME IInv, NEW v \in Suppliers, Remind(v) PROVE IInv'
<1> USE DEF Remind
<1>1. PICK i \in DOMAIN rfqs : v \in Invitees(i)
  BY DEF IsNewest
<1>2. /\ reminders \in [Suppliers -> 0..MaxReminders]
      /\ reminders[v] < MaxReminders /\ MaxReminders \in Nat
  BY RfqAssumption DEF IInv, TypeOK, MayRemind
<1>3. /\ reminders' \in [Suppliers -> 0..MaxReminders]
      /\ \A w \in Suppliers : w # v => reminders'[w] = reminders[w]
  BY <1>2
<1> QED
  BY <1>1, <1>3, NothingTouched, Settled DEF IInv, TypeOK

LEMMA MoveCaseKeepsIInv ==
  ASSUME IInv, MoveCase PROVE IInv'
<1> USE DEF MoveCase
<1>1. PICK s \in {"VALIDATING_PR", "TECHNICAL_EVALUATION"} \cup Abandoned :
        case' = Transition(case, s)
  OBVIOUS
<1>2. /\ s \in CaseStates /\ s # "WAITING_FOR_QUOTES" /\ case \in Case
  BY DEF CaseStates, Abandoned, IInv, TypeOK
<1>3. case' \in Case /\ case'.state # "WAITING_FOR_QUOTES"
  BY <1>1, <1>2, TransitionCase
<1> QED
  BY <1>3, NothingTouched, Settled DEF IInv, TypeOK

-----------------------------------------------------------------------------
(* Steps that write one package *)

\* A package is a record with these fields, so that a field can be replaced.
LEMMA Field ==
  ASSUME rfqs \in Seq(Rfq), NEW i \in DOMAIN rfqs
  PROVE  /\ rfqs[i] \in Rfq
         /\ rfqs[i].status \in
              {"PENDING_RELEASE_APPROVAL", "ISSUED", "CLOSED"}
         /\ rfqs[i].invited \in [Suppliers -> InvitationStatus]
         /\ rfqs[i].mail \in
              [Suppliers -> {"NONE", "PENDING_APPROVAL", "SENT"}]
<1>1. rfqs[i] \in Rfq
  OBVIOUS
<1> QED
  BY <1>1 DEF Rfq

LEMMA ReleaseRfqKeepsIInv ==
  ASSUME IInv, NEW i \in 1..MaxRfqs, ReleaseRfq(i) PROVE IInv'
<1> USE DEF ReleaseRfq, IsLatest
<1>1. /\ rfqs \in Seq(Rfq) /\ rfqs[i] \in Rfq
      /\ flow \in [stage : Stages, rfq : 0..MaxRfqs, signalled : BOOLEAN]
  BY Field DEF IInv, TypeOK
<1> DEFINE q == [rfqs[i] EXCEPT !.status = "ISSUED", !.released = TRUE]
<1>2. GoesOn(rfqs[i], q) /\ q.released
  BY <1>1 DEF GoesOn, Rfq
<1>3. rfqs' = [rfqs EXCEPT ![i] = q]
  BY <1>1
<1> HIDE DEF q
<1>4. PackagesGoOn
  BY <1>1, <1>2, <1>3, Overwritten
<1>5. SomeReleased'
  BY <1>1, <1>2, <1>3 DEF SomeReleased
<1>6. /\ flow' \in [stage : Stages, rfq : 0..MaxRfqs, signalled : BOOLEAN]
      /\ flow'.stage = flow.stage /\ flow'.rfq = flow.rfq
  BY <1>1
<1>7. FlowFollowsRelease'
  BY <1>4, <1>5, <1>6 DEF IInv, FlowFollowsRelease, PackagesGoOn
<1> QED
  BY <1>4, <1>6, <1>7, Settled DEF IInv, TypeOK

LEMMA ReleaseHeldKeepsIInv ==
  ASSUME IInv, NEW i \in 1..MaxRfqs, NEW v \in Suppliers, ReleaseHeld(i, v)
  PROVE  IInv'
<1> USE DEF ReleaseHeld
<1>1. rfqs \in Seq(Rfq) /\ rfqs[i] \in Rfq
  BY Field DEF IInv, TypeOK
<1>2. rfqs[i].invited[v] # "NONE"
  BY DEF IInv, NothingOutBeforeRelease, Invitees
<1> DEFINE q == [rfqs[i] EXCEPT !.mail[v] = "SENT", !.invited[v] = "SENT"]
<1>3. GoesOn(rfqs[i], q)
  BY <1>1, <1>2 DEF GoesOn, Rfq, InvitationStatus
<1>4. rfqs' = [rfqs EXCEPT ![i] = q]
  BY <1>1
<1> HIDE DEF q
<1> QED
  BY <1>1, <1>3, <1>4, Overwritten, Noted DEF IInv, TypeOK

LEMMA Reaching ==
  ASSUME IInv, NEW i, NEW v \in Suppliers, Reached(v, i)
  PROVE  /\ i \in DOMAIN rfqs /\ rfqs[i] \in Rfq
         /\ rfqs[i].invited[v] # "NONE"
BY Field DEF IInv, TypeOK, Reached, NothingOutBeforeRelease, Invitees

\* What Mark does to an invitation that stands.
LEMMA Marking ==
  ASSUME IInv, NEW v \in Suppliers, NEW i \in DOMAIN rfqs,
         rfqs[i].invited[v] # "NONE",
         NEW status \in InvitationStatus \ {"NONE", "DRAFT"},
         Mark(v, i, status)
  PROVE  PackagesGoOn
<1>1. rfqs \in Seq(Rfq) /\ rfqs[i] \in Rfq
  BY Field DEF IInv, TypeOK
<1>2. rfqs' = [rfqs EXCEPT ![i] = [rfqs[i] EXCEPT
                 !.invited = [rfqs[i].invited EXCEPT ![v] = status]]]
  BY <1>1 DEF Mark
<1> QED
  BY <1>1, <1>2, Marked, Overwritten

LEMMA ReceiveOtherKeepsIInv ==
  ASSUME IInv, NEW i \in 1..MaxRfqs, NEW v \in Suppliers, ReceiveOther(v, i)
  PROVE  IInv'
<1> USE DEF ReceiveOther
<1>1. "ACKNOWLEDGED" \in InvitationStatus \ {"NONE", "DRAFT"}
  BY DEF InvitationStatus
<1>2. PackagesGoOn
  BY <1>1, Reaching, Marking
<1>3. answer' \in [Suppliers -> Answers]
  BY DEF Answers, IInv, TypeOK
<1> QED
  BY <1>2, <1>3, Noted

LEMMA EnterQuoteKeepsIInv ==
  ASSUME IInv, NEW v \in Suppliers, EnterQuote(v)
  PROVE  IInv'
<1> USE DEF EnterQuote
<1>1. {"DECLINED", "QUOTED"} \subseteq InvitationStatus \ {"NONE", "DRAFT"}
  BY DEF InvitationStatus
<1>2. PackagesGoOn
  <2>1. CASE UNCHANGED rfqs
    BY <2>1, NothingTouched
  <2>2. CASE \E j \in DOMAIN rfqs, status \in {"DECLINED", "QUOTED"} :
               IsNewest(v, j) /\ Mark(v, j, status)
    <3>1. PICK j \in DOMAIN rfqs, status \in {"DECLINED", "QUOTED"} :
                 IsNewest(v, j) /\ Mark(v, j, status)
      BY <2>2
    <3>2. rfqs[j].invited[v] # "NONE"
      BY <3>1 DEF IsNewest, Invitees
    <3> QED
      BY <3>1, <3>2, <1>1, Marking
  <2> QED
    BY <2>1, <2>2
<1>3. answer' \in [Suppliers -> Answers]
  BY DEF Answers, IInv, TypeOK
<1> QED
  BY <1>2, <1>3, Noted

Quoted(p, v) ==
  [p EXCEPT !.invited = [p.invited EXCEPT ![v] = "QUOTED"]]

LEMMA QuotedTwice ==
  ASSUME NEW p \in Rfq, NEW v \in Suppliers
  PROVE  Quoted(Quoted(p, v), v) = Quoted(p, v)
<1> DEFINE q == Quoted(p, v)
<1>1. q.invited = [p.invited EXCEPT ![v] = "QUOTED"]
  BY DEF Quoted, Rfq
<1>2. [q.invited EXCEPT ![v] = "QUOTED"] = q.invited
  BY <1>1 DEF Rfq
<1>3. [q EXCEPT !.invited = q.invited] = q
  BY DEF Quoted, Rfq
<1> QED
  BY <1>2, <1>3 DEF Quoted

LEMMA Replaced ==
  ASSUME NEW s \in Seq(Rfq), NEW i \in DOMAIN s, NEW q \in Rfq
  PROVE  /\ [s EXCEPT ![i] = q] \in Seq(Rfq)
         /\ DOMAIN [s EXCEPT ![i] = q] = DOMAIN s
         /\ Len([s EXCEPT ![i] = q]) = Len(s)
         /\ \A k \in DOMAIN s :
              [s EXCEPT ![i] = q][k] = IF k = i THEN q ELSE s[k]
OBVIOUS

\* Two invitations of the supplier are marked, or one of them twice.
LEMMA ReceiveQuoteKeepsIInv ==
  ASSUME IInv, NEW i \in 1..MaxRfqs, NEW v \in Suppliers, ReceiveQuote(v, i)
  PROVE  IInv'
<1>1. PICK j \in DOMAIN rfqs :
        /\ IsNewest(v, j)
        /\ rfqs' = [rfqs EXCEPT ![i].invited[v] = "QUOTED",
                                ![j].invited[v] = "QUOTED"]
  BY DEF ReceiveQuote
<1>2. /\ i \in DOMAIN rfqs /\ rfqs \in Seq(Rfq)
      /\ rfqs[i].invited[v] # "NONE" /\ rfqs[j].invited[v] # "NONE"
      /\ \A k \in DOMAIN rfqs : rfqs[k] \in Rfq
  BY <1>1, Reaching, Field DEF ReceiveQuote, IsNewest, Invitees, IInv, TypeOK
<1>3. "QUOTED" \in InvitationStatus \ {"NONE", "DRAFT"}
  BY DEF InvitationStatus
<1>4. \A k \in {i, j} :
        GoesOn(rfqs[k], Quoted(rfqs[k], v)) /\ Quoted(rfqs[k], v) \in Rfq
  <2>1. \A k \in {i, j} : GoesOn(rfqs[k], Quoted(rfqs[k], v))
    BY <1>1, <1>2, <1>3, Marked DEF Quoted
  <2> QED
    BY <2>1 DEF GoesOn
<1> DEFINE first == [rfqs EXCEPT ![i] = Quoted(rfqs[i], v)]
<1>5. /\ first \in Seq(Rfq) /\ DOMAIN first = DOMAIN rfqs
      /\ Len(first) = Len(rfqs)
      /\ \A k \in DOMAIN rfqs :
           first[k] = IF k = i THEN Quoted(rfqs[k], v) ELSE rfqs[k]
  BY <1>2, <1>4, Replaced
<1>6. rfqs' = [first EXCEPT ![j] = Quoted(first[j], v)]
  BY <1>1, <1>2 DEF Quoted
<1> HIDE DEF first
<1>7. Quoted(first[j], v) = Quoted(rfqs[j], v)
  BY <1>2, <1>5, QuotedTwice
<1>8. /\ rfqs' \in Seq(Rfq) /\ DOMAIN rfqs' = DOMAIN rfqs
      /\ Len(rfqs') = Len(rfqs)
      /\ \A k \in DOMAIN rfqs :
           rfqs'[k] = IF k \in {i, j} THEN Quoted(rfqs[k], v) ELSE rfqs[k]
  BY <1>4, <1>5, <1>6, <1>7, Replaced
<1>9. PackagesGoOn
  BY <1>2, <1>4, <1>8, Unchanged DEF PackagesGoOn
<1>10. answer' \in [Suppliers -> Answers]
  BY DEF ReceiveQuote, Answers, IInv, TypeOK
<1> QED
  BY <1>9, <1>10, Noted DEF ReceiveQuote

LEMMA CloseRfqKeepsIInv ==
  ASSUME IInv, NEW i \in 1..MaxRfqs, CloseRfq(i) PROVE IInv'
<1> USE DEF CloseRfq, IsLatest
<1>1. /\ rfqs \in Seq(Rfq) /\ rfqs[i] \in Rfq
      /\ flow \in [stage : Stages, rfq : 0..MaxRfqs, signalled : BOOLEAN]
  BY Field DEF IInv, TypeOK
<1> DEFINE closed == [v \in Suppliers |-> ClosedStatus(rfqs[i].invited[v])]
           q == [rfqs[i] EXCEPT !.status = "CLOSED", !.invited = closed]
<1>2. GoesOn(rfqs[i], q)
  BY <1>1 DEF GoesOn, Rfq, ClosedStatus, InvitationStatus
<1>3. rfqs' = [rfqs EXCEPT ![i] = q]
  BY <1>1
<1> HIDE DEF q
<1>4. PackagesGoOn
  BY <1>1, <1>2, <1>3, Overwritten
<1>5. /\ flow' \in [stage : Stages, rfq : 0..MaxRfqs, signalled : BOOLEAN]
      /\ flow'.stage \in {flow.stage, "left"}
      /\ flow'.rfq = flow.rfq /\ flow'.signalled = flow.signalled
  BY <1>1 DEF Stages
<1>6. FlowFollowsRelease'
  <2>1. SomeReleased => SomeReleased'
    BY <1>4 DEF PackagesGoOn, GoesOn, SomeReleased
  <2> QED
    BY <1>4, <1>5, <2>1 DEF IInv, FlowFollowsRelease, PackagesGoOn
<1> QED
  BY <1>4, <1>5, <1>6, Settled DEF IInv, TypeOK

-----------------------------------------------------------------------------
(* Preparing a package and sending its invitations *)

\* The new package is the last one and nothing in it has been sent.
LEMMA PrepareRfqKeepsIInv ==
  ASSUME IInv, PrepareRfq PROVE IInv'
<1>0. PICK n : n = Len(rfqs) + 1
  OBVIOUS
<1> DEFINE ready == IF case.state = "SOURCING_STRATEGY"
                    THEN Transition(case, "READY_FOR_RFQ") ELSE case
<1>1. PICK invited \in SUBSET selected :
        rfqs' = Append(rfqs, Package(invited))
  BY DEF PrepareRfq
<1>2. /\ case \in Case /\ selected \in SUBSET Suppliers
      /\ rfqs \in Seq(Rfq) /\ Len(rfqs) < MaxRfqs /\ MaxRfqs \in Nat
      /\ flow \in [stage : Stages, rfq : 0..MaxRfqs, signalled : BOOLEAN]
      /\ flow.stage = "prepare"
      /\ UNCHANGED <<selected, reminders, answer>>
  BY RfqAssumption DEF PrepareRfq, IInv, TypeOK
<1>3. case' \in Case /\ case'.state = "READY_FOR_RFQ"
  <2>1. case' = ready /\ ready.state = "READY_FOR_RFQ"
    BY DEF PrepareRfq, MayIssueRfq
  <2>2. ready \in Case
    BY <1>2, TransitionCase DEF CaseStates
  <2> QED
    BY <2>1, <2>2
<1>4. Cardinality(invited) <= MaxSuppliers
  <2>1. Cardinality(selected) \in 1..MaxSuppliers
    BY DEF PrepareRfq, MayIssueRfq
  <2>2. IsFiniteSet(selected)
    BY <1>2, RfqAssumption, FS_Subset
  <2>3. IsFiniteSet(invited) /\ Cardinality(invited) <= Cardinality(selected)
    BY <2>2, FS_Subset
  <2> QED
    BY <2>1, <2>2, <2>3, RfqAssumption, FS_CardinalityType
<1>5. /\ Package(invited) \in Rfq
      /\ \A v \in Suppliers :
           /\ Package(invited).mail[v] = "NONE"
           /\ Package(invited).invited[v] # "NONE" <=> v \in invited
  BY <1>2 DEF Package, Rfq, InvitationStatus
<1>6. /\ rfqs' \in Seq(Rfq) /\ Len(rfqs') = n
      /\ DOMAIN rfqs' = DOMAIN rfqs \cup {n}
      /\ \A k \in DOMAIN rfqs : rfqs'[k] = rfqs[k]
      /\ rfqs'[n] = Package(invited)
  BY <1>0, <1>1, <1>2, <1>5
<1> HIDE DEF ready
<1>7. /\ \A k \in DOMAIN rfqs : Invitees(k)' = Invitees(k)
      /\ Invitees(n)' = invited
  BY <1>2, <1>5, <1>6 DEF Invitees
<1>8. SomeReleased => SomeReleased'
  BY <1>6 DEF SomeReleased
<1>9. /\ flow' \in [stage : Stages, rfq : 0..MaxRfqs, signalled : BOOLEAN]
      /\ flow'.signalled = flow.signalled
      /\ \/ flow' = flow
         \/ /\ flow'.rfq = n
            /\ flow'.stage = IF AutoRelease THEN "send" ELSE "release"
  <2>1. n \in 0..MaxRfqs /\ {"send", "release"} \subseteq Stages
    BY <1>0, <1>2 DEF Stages
  <2>2. CASE flow' = flow
    BY <1>2, <2>2
  <2>3. CASE flow' = [flow EXCEPT !.stage = IF AutoRelease THEN "send"
                                                           ELSE "release",
                                  !.rfq = n]
    BY <1>2, <2>1, <2>3
  <2> QED
    BY <1>0, <2>2, <2>3 DEF PrepareRfq
<1>10. TypeOK' /\ PackagesAreCounted'
  BY <1>0, <1>2, <1>3, <1>6, <1>9 DEF IInv, TypeOK, PackagesAreCounted
<1>11. FlowFollowsRelease'
  BY <1>2, <1>6, <1>8, <1>9 DEF IInv, FlowFollowsRelease
<1>12. NothingOutBeforeRelease'
  BY <1>5, <1>6, <1>7, <1>8
     DEF IInv, NothingOutBeforeRelease, SomeReleased
<1>13. SomebodyWasAsked'
  BY <1>3 DEF SomebodyWasAsked
<1>14. InvitationsAreBounded'
  <2>1. \A k \in DOMAIN rfqs' : Cardinality(Invitees(k)') <= MaxSuppliers
    <3> SUFFICES ASSUME NEW k \in DOMAIN rfqs'
                 PROVE  Cardinality(Invitees(k)') <= MaxSuppliers
      OBVIOUS
    <3>1. CASE k \in DOMAIN rfqs
      BY <3>1, <1>7 DEF IInv, InvitationsAreBounded
    <3>2. CASE k = n
      <4>1. Invitees(k)' = invited
        BY <3>2, <1>7
      <4> QED
        BY <4>1, <1>4
    <3> QED
      BY <3>1, <3>2, <1>6
  <2>2. \A v \in Suppliers :
          reminders'[v] > 0 => \E k \in DOMAIN rfqs' : v \in Invitees(k)'
    BY <1>2, <1>6, <1>7 DEF IInv, InvitationsAreBounded
  <2> QED
    BY <2>1, <2>2 DEF InvitationsAreBounded
<1> QED
  BY <1>10, <1>11, <1>12, <1>13, <1>14 DEF IInv

LEMMA SendInvitationsKeepsIInv ==
  ASSUME IInv, SendInvitations PROVE IInv'
<1>0. PICK i : i = flow.rfq
  OBVIOUS
<1>1. /\ i \in DOMAIN rfqs /\ flow.stage = "send"
      /\ rfqs \in Seq(Rfq) /\ rfqs[i] \in Rfq /\ case \in Case
      /\ flow \in [stage : Stages, rfq : 0..MaxRfqs, signalled : BOOLEAN]
      /\ UNCHANGED <<selected, reminders, answer>>
  <2>1. i \in DOMAIN rfqs /\ rfqs \in Seq(Rfq)
    BY <1>0 DEF SendInvitations, IInv, TypeOK, FlowFollowsRelease
  <2> QED
    BY <2>1, Field DEF SendInvitations, IInv, TypeOK
<1>2. GoesOn(rfqs[i], Invited(i))
  BY <1>1 DEF GoesOn, Invited, Mailed, Invitees, Rfq, InvitationStatus
<1>3. PackagesGoOn
  <2>1. CASE rfqs' = [rfqs EXCEPT ![i] = Invited(i)]
    BY <1>1, <1>2, <2>1, Overwritten
  <2>2. CASE UNCHANGED rfqs
    BY <2>2, NothingTouched
  <2> QED
    BY <1>0, <2>1, <2>2 DEF SendInvitations
<1>4. case' \in Case
  BY <1>1, TransitionCase DEF SendInvitations, CaseStates
<1>5. ASSUME case'.state = "WAITING_FOR_QUOTES",
             case.state # "WAITING_FOR_QUOTES"
      PROVE  SomebodyWasAsked'
  <2>1. Invitees(i) # {} /\ rfqs' = [rfqs EXCEPT ![i] = Invited(i)]
    BY <1>0, <1>5 DEF SendInvitations
  <2>2. PICK v \in Invitees(i) : v \in Suppliers
    BY <2>1 DEF Invitees
  <2>3. /\ Invited(i).status = "ISSUED"
        /\ Invited(i).invited[v] \in {"SENT", "QUEUED"}
    BY <1>1, <2>2 DEF Invited, Rfq
  <2>4. i \in DOMAIN rfqs' /\ rfqs'[i] = Invited(i)
    BY <1>1, <2>1
  <2>5. v \in Invitees(i)'
    BY <2>2, <2>3, <2>4 DEF Invitees
  <2> QED
    BY <2>3, <2>4, <2>5 DEF SomebodyWasAsked
<1>6. /\ flow' \in [stage : Stages, rfq : 0..MaxRfqs, signalled : BOOLEAN]
      /\ flow'.stage \in {"send", "collect"}
      /\ flow'.rfq = flow.rfq /\ flow'.signalled = flow.signalled
  BY <1>1 DEF SendInvitations, Stages
<1>7. FlowFollowsRelease'
  <2>1. SomeReleased => SomeReleased'
    BY <1>3 DEF PackagesGoOn, GoesOn, SomeReleased
  <2> QED
    BY <1>1, <1>3, <1>6, <2>1 DEF IInv, FlowFollowsRelease, PackagesGoOn
<1> QED
  BY <1>1, <1>3, <1>4, <1>5, <1>6, <1>7, Settled DEF IInv, TypeOK

-----------------------------------------------------------------------------
LEMMA StepKeepsIInv == IInv /\ [Next]_vars => IInv'
BY StutterKeepsIInv, ReselectKeepsIInv, PrepareRfqKeepsIInv,
   ReleaseRfqKeepsIInv, PassReleaseGateKeepsIInv, SendInvitationsKeepsIInv,
   ReleaseHeldKeepsIInv, RemindKeepsIInv, ReceiveQuoteKeepsIInv,
   ReceiveOtherKeepsIInv, EnterQuoteKeepsIInv, StopCollectingKeepsIInv,
   CloseRfqKeepsIInv, MoveCaseKeepsIInv
   DEF Next

LEMMA Invariance == Spec => []IInv
BY InitIInv, StepKeepsIInv, PTL DEF Spec

\* The values the variables of the RFQ desk can take.
THEOREM TypeCorrect == Spec => []TypeOK
<1>1. IInv => TypeOK
  BY DEF IInv
<1> QED
  BY <1>1, Invariance, PTL

\* Unless release is automatic, no letter is drafted before a person has
\* released a package of the case, whatever the workflow is told and however
\* often its activities are executed.
THEOREM ReleaseFirst == Spec => []NothingOutBeforeRelease
<1>1. IInv => NothingOutBeforeRelease
  BY DEF IInv
<1> QED
  BY <1>1, Invariance, PTL

\* A case that waits for quotes has an issued package and somebody who was
\* asked, however packages are rebuilt, answered and closed meanwhile.
THEOREM SomebodyAsked == Spec => []SomebodyWasAsked
<1>1. IInv => SomebodyWasAsked
  BY DEF IInv
<1> QED
  BY <1>1, Invariance, PTL

\* No package invites more suppliers than the policy allows, and only the
\* invited are reminded.
THEOREM Bounded == Spec => []InvitationsAreBounded
<1>1. IInv => InvitationsAreBounded
  BY DEF IInv
<1> QED
  BY <1>1, Invariance, PTL
=============================================================================
