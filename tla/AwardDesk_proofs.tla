-------------------------- MODULE AwardDesk_proofs --------------------------
(***************************************************************************)
(* What AwardDesk guarantees for every set of suppliers, every number of   *)
(* rounds and of recommendations.  The inductive invariant adds to the     *)
(* properties of the module the two facts the services rest on: a supplier *)
(* handed to po_recommendation_activity was awarded the case, and an       *)
(* approval to negotiate names a round that was planned.                   *)
(***************************************************************************)
EXTENDS AwardDesk, SourcingCase_proofs

\* What the award signal carries to the workflow, the case has recorded.
AwardsAreRecorded == awards # {} => case.awardee # NoSupplier

ApprovalsNameRounds == approvals.negotiation \subseteq DOMAIN rounds

IInv ==
  /\ TypeOK
  /\ OrderedOnlyWhenAwarded
  /\ PlacedOrderIsReleased
  /\ RoundsAreAuthorised
  /\ AwardsAreRecorded
  /\ ApprovalsNameRounds

Placed == {"ORDER_PLACED", "EXPEDITING", "COMPLETED"}

-----------------------------------------------------------------------------
(* Lemmas *)

\* Overwriting one element of a sequence.
LEMMA Overwritten ==
  ASSUME NEW S, NEW s \in Seq(S), NEW i \in DOMAIN s, NEW e \in S, NEW t,
         t = [s EXCEPT ![i] = e]
  PROVE  /\ t \in Seq(S)
         /\ Len(t) = Len(s)
         /\ DOMAIN t = DOMAIN s
         /\ t[i] = e
         /\ \A j \in DOMAIN s : t[j] = e \/ t[j] = s[j]
OBVIOUS

\* The state graph, for the transitions MoveCase makes: only a placed order
\* completes, and nothing else leads into the order states.
LEMMA MovedIntoOrders ==
  ASSUME NEW e, NEW s \in {"VALIDATING_PR", "SOURCING_STRATEGY",
                           "READY_FOR_RFQ", "WAITING_FOR_QUOTES",
                           "TECHNICAL_EVALUATION",
                           "WAITING_FOR_TECHNICAL_APPROVAL"} \cup TerminalStates,
         <<e, s>> \in DrivenTransitions
  PROVE  /\ s \in CaseStates
         /\ s \in OrderStates => e \in Placed /\ s \in Placed
<1>1. s \in CaseStates
  BY DEF CaseStates, TerminalStates
<1>2. s \in OrderStates => s = "COMPLETED"
  BY DEF OrderStates, TerminalStates
<1>3. s = "COMPLETED" => e = "ORDER_PLACED"
  BY DEF DrivenTransitions, Abandoned
<1> QED
  BY <1>1, <1>2, <1>3 DEF Placed

\* The initial state satisfies the invariant.
LEMMA InitInv == Init => IInv
<1> SUFFICES ASSUME Init PROVE IInv
  OBVIOUS
<1>1. NewCase \in Case
  BY CaseAssumption DEF NewCase, Case, CaseStates
<1>2. /\ <<>> \in Seq(Round) /\ <<>> \in Seq(Order)
      /\ Len(<<>>) = 0 /\ DOMAIN <<>> = {}
  OBVIOUS
<1> QED
  BY <1>1, <1>2, CaseAssumption
     DEF Init, IInv, TypeOK, OrderedOnlyWhenAwarded, PlacedOrderIsReleased,
         RoundsAreAuthorised, AwardsAreRecorded, ApprovalsNameRounds, NewCase,
         OrderStates

\* A step that only moves the case keeps the invariant unless it leads into
\* the order states from outside or among them from a case not yet placed.
LEMMA CaseStep ==
  ASSUME IInv, UNCHANGED <<rounds, approvals, awards, orders>>,
         case' \in Case,
         case'.awardee = case.awardee,
         case'.round = case.round,
         case'.state \in OrderStates => case.state \in OrderStates,
         case'.state \in Placed => case.state \in Placed
  PROVE  IInv'
BY DEF IInv, TypeOK, OrderedOnlyWhenAwarded, PlacedOrderIsReleased,
       RoundsAreAuthorised, AwardsAreRecorded, ApprovalsNameRounds, Placed

\* A round is planned as the case counts it.
LEMMA PlanStep ==
  ASSUME IInv, PlanRound
  PROVE  IInv'
<1> USE DEF IInv, TypeOK
<1> DEFINE row == [status |-> "PENDING_APPROVAL", sentUnder |-> 0]
<1>1. /\ case' \in Case
      /\ case'.state = "NEGOTIATION"
      /\ case'.awardee = case.awardee
      /\ case'.round = case.round + 1
  BY OpenedRoundCase DEF PlanRound, MayOpenNegotiation
<1>2. row \in Round
  BY CaseAssumption DEF Round
<1>3. /\ rounds' \in Seq(Round)
      /\ Len(rounds') = Len(rounds) + 1
      /\ \A n \in DOMAIN rounds : n \in DOMAIN rounds' /\ rounds'[n] = rounds[n]
      /\ \A n \in DOMAIN rounds' : n \in DOMAIN rounds \/ rounds'[n] = row
  BY <1>2 DEF PlanRound
<1>4. UNCHANGED <<approvals, awards, orders>>
  BY DEF PlanRound
<1>5. RoundsAreAuthorised'
  <2>1. Len(rounds') = case'.round
    BY <1>1, <1>3 DEF RoundsAreAuthorised
  <2>2. ASSUME NEW n \in DOMAIN rounds', rounds'[n].status = "SENT"
        PROVE  rounds'[n].sentUnder \in approvals'.negotiation \cap DOMAIN rounds'
    <3>1. n \in DOMAIN rounds /\ rounds'[n] = rounds[n]
      BY <2>2, <1>3
    <3> QED
      BY <2>2, <3>1, <1>3, <1>4 DEF RoundsAreAuthorised
  <2> QED
    BY <2>1, <2>2 DEF RoundsAreAuthorised
<1> QED
  BY <1>1, <1>3, <1>4, <1>5
     DEF OrderedOnlyWhenAwarded, PlacedOrderIsReleased, AwardsAreRecorded,
         ApprovalsNameRounds, OrderStates

\* An approval to negotiate names the newest round, which exists.
LEMMA ApproveNegotiationStep ==
  ASSUME IInv, ApproveNegotiation
  PROVE  IInv'
<1> USE DEF IInv, TypeOK
<1>1. Len(rounds) \in DOMAIN rounds /\ Len(rounds) \in RoundNumbers
  <2>1. Len(rounds) \in Nat /\ Len(rounds) # 0 /\ DOMAIN rounds = 1..Len(rounds)
    BY DEF ApproveNegotiation
  <2>2. Len(rounds) \in 0..MaxRounds
    BY DEF RoundsAreAuthorised, Case
  <2> QED
    BY <2>1, <2>2, CaseAssumption DEF RoundNumbers
<1>2. approvals' = [approvals EXCEPT
                      !.negotiation = approvals.negotiation \cup {Len(rounds)}]
  BY DEF ApproveNegotiation
<1>3. UNCHANGED <<case, rounds, awards, orders>>
  BY DEF ApproveNegotiation
<1>4. /\ approvals'.negotiation = approvals.negotiation \cup {Len(rounds)}
      /\ approvals'.award = approvals.award
      /\ approvals'.release = approvals.release
      /\ approvals' \in [negotiation : SUBSET RoundNumbers,
                         award       : SUBSET Suppliers,
                         release     : BOOLEAN]
  BY <1>1, <1>2
<1> QED
  BY <1>1, <1>3, <1>4
     DEF OrderedOnlyWhenAwarded, PlacedOrderIsReleased, RoundsAreAuthorised,
         AwardsAreRecorded, ApprovalsNameRounds

\* Sending a round rewrites that round, under an approval that exists.
LEMMA SendStep ==
  ASSUME IInv, NEW n \in RoundNumbers, NEW a \in RoundNumbers, SendRound(n, a)
  PROVE  IInv'
<1> USE DEF IInv, TypeOK
<1>1. PICK st \in {"SENT", "PENDING_APPROVAL"} :
        rounds' = [rounds EXCEPT ![n] = [status |-> st, sentUnder |-> a]]
  BY DEF SendRound
<1>2. /\ n \in DOMAIN rounds
      /\ a \in approvals.negotiation
      /\ UNCHANGED <<case, approvals, awards, orders>>
  BY DEF SendRound
<1>3. [status |-> st, sentUnder |-> a] \in Round
  BY DEF Round, RoundNumbers
<1>4. /\ rounds' \in Seq(Round)
      /\ Len(rounds') = Len(rounds)
      /\ DOMAIN rounds' = DOMAIN rounds
      /\ \A m \in DOMAIN rounds :
           rounds'[m].sentUnder = a \/ rounds'[m] = rounds[m]
  BY <1>1, <1>2, <1>3
<1> QED
  BY <1>2, <1>4
     DEF OrderedOnlyWhenAwarded, PlacedOrderIsReleased, RoundsAreAuthorised,
         AwardsAreRecorded, ApprovalsNameRounds

\* Closing a round sends nothing and at most opens the award gate.
LEMMA CloseStep ==
  ASSUME IInv, NEW n \in RoundNumbers, CloseRound(n)
  PROVE  IInv'
<1> USE DEF IInv, TypeOK
<1> DEFINE moved == Transition(case, "WAITING_FOR_AWARD_APPROVAL")
<1>1. /\ moved \in Case
      /\ moved.state = "WAITING_FOR_AWARD_APPROVAL"
      /\ moved.awardee = case.awardee
      /\ moved.round = case.round
  BY TransitionCase DEF CaseStates
<1> HIDE DEF moved
<1>2. case' = case \/ case' = moved
  BY DEF CloseRound, moved
<1>3. /\ n \in DOMAIN rounds
      /\ rounds' = [rounds EXCEPT ![n].status = "CLOSED"]
      /\ UNCHANGED <<approvals, awards, orders>>
  BY DEF CloseRound
<1>4. /\ rounds' \in Seq(Round)
      /\ Len(rounds') = Len(rounds)
      /\ DOMAIN rounds' = DOMAIN rounds
      /\ \A m \in DOMAIN rounds :
           rounds'[m].status = "CLOSED" \/ rounds'[m] = rounds[m]
  <2> DEFINE closed == [rounds[n] EXCEPT !.status = "CLOSED"]
  <2>1. rounds[n] \in Round
    BY <1>3
  <2>2. closed \in Round /\ closed.status = "CLOSED"
    BY <2>1 DEF Round
  <2>3. rounds' = [rounds EXCEPT ![n] = closed]
    BY <1>3
  <2> HIDE DEF closed
  <2>4. rounds \in Seq(Round) /\ n \in DOMAIN rounds
    BY <1>3
  <2> QED
    BY ONLY <2>2, <2>3, <2>4, Overwritten
<1>5. /\ case' \in Case
      /\ case'.awardee = case.awardee
      /\ case'.round = case.round
      /\ case'.state \in OrderStates => case'.state = case.state
  <2>1. CASE case' = case
    BY <2>1
  <2>2. CASE case' = moved
    BY <1>1, <2>2 DEF OrderStates
  <2> QED
    BY <1>2, <2>1, <2>2
<1>6. RoundsAreAuthorised'
  BY <1>3, <1>4, <1>5 DEF RoundsAreAuthorised
<1>7. PlacedOrderIsReleased'
  BY <1>3, <1>5 DEF PlacedOrderIsReleased, OrderStates
<1>8. OrderedOnlyWhenAwarded' /\ AwardsAreRecorded' /\ ApprovalsNameRounds'
  BY <1>3, <1>4, <1>5
     DEF OrderedOnlyWhenAwarded, AwardsAreRecorded, ApprovalsNameRounds
<1> QED
  BY <1>3, <1>4, <1>5, <1>6, <1>7, <1>8

\* A signature is kept, and an award is recorded under it.
LEMMA AwardStep ==
  ASSUME IInv, NEW v \in Suppliers, ApproveAward(v)
  PROVE  IInv'
<1> USE DEF IInv, TypeOK
<1>1. /\ approvals'.award = approvals.award \cup {v}
      /\ approvals'.negotiation = approvals.negotiation
      /\ approvals'.release = approvals.release
      /\ approvals' \in [negotiation : SUBSET RoundNumbers,
                         award       : SUBSET Suppliers,
                         release     : BOOLEAN]
  BY DEF ApproveAward
<1>2. UNCHANGED <<rounds, orders>>
  BY DEF ApproveAward
<1>3. \/ UNCHANGED <<case, awards>>
      \/ /\ case' \in Case
         /\ case'.state = case.state
         /\ case'.awardee = v
         /\ case'.round = case.round
         /\ awards' = awards \cup {v}
  BY AwardedCase DEF ApproveAward
<1>4. v # NoSupplier
  BY CaseAssumption
<1> QED
  BY <1>1, <1>2, <1>3, <1>4
     DEF OrderedOnlyWhenAwarded, PlacedOrderIsReleased, RoundsAreAuthorised,
         AwardsAreRecorded, ApprovalsNameRounds

\* A recommendation is appended; it needs an award, and moves the case on
\* only from the award gate.
LEMMA RecommendStep ==
  ASSUME IInv, NEW v \in Suppliers, RecommendPo(v)
  PROVE  IInv'
<1> USE DEF IInv, TypeOK
<1> DEFINE moved == Transition(case, "PO_RECOMMENDATION")
<1>1. /\ moved \in Case
      /\ moved.state = "PO_RECOMMENDATION"
      /\ moved.awardee = case.awardee
      /\ moved.round = case.round
  BY TransitionCase DEF CaseStates
<1> HIDE DEF moved
<1>2. case' = case \/ case' = moved
  BY DEF RecommendPo, moved
<1>3. PICK satisfied \in BOOLEAN :
        orders' = Append(orders, [vendor |-> v, satisfied |-> satisfied,
                                  status |-> "RECOMMENDED"])
  BY DEF RecommendPo
<1>4. /\ orders' \in Seq(Order)
      /\ \A i \in DOMAIN orders : i \in DOMAIN orders' /\ orders'[i] = orders[i]
  BY <1>3 DEF Order
<1>5. case.awardee # NoSupplier
  BY DEF RecommendPo, AwardsAreRecorded
<1>6. UNCHANGED <<rounds, approvals, awards>>
  BY DEF RecommendPo
<1>7. PlacedOrderIsReleased'
  <2> SUFFICES ASSUME case'.state \in {"ORDER_PLACED", "EXPEDITING", "COMPLETED"}
               PROVE  /\ approvals'.release
                      /\ \E i \in DOMAIN orders' :
                           orders'[i].status = "RELEASED" /\ orders'[i].satisfied
    BY DEF PlacedOrderIsReleased
  <2>1. case' = case
    BY <1>1, <1>2
  <2>2. PICK i \in DOMAIN orders :
          orders[i].status = "RELEASED" /\ orders[i].satisfied
    BY <2>1 DEF PlacedOrderIsReleased
  <2> QED
    BY <2>1, <2>2, <1>4, <1>6 DEF PlacedOrderIsReleased
<1> QED
  BY <1>1, <1>2, <1>4, <1>5, <1>6, <1>7
     DEF OrderedOnlyWhenAwarded, RoundsAreAuthorised,
         AwardsAreRecorded, ApprovalsNameRounds

\* A release touches the newest recommendation, complete, and places the
\* order of a case at that point.
LEMMA ReleaseStep ==
  ASSUME IInv, ReleasePo
  PROVE  IInv'
<1> USE DEF IInv, TypeOK
<1> DEFINE moved == Transition(case, "ORDER_PLACED")
           n == Len(orders)
<1>1. /\ moved \in Case
      /\ moved.state = "ORDER_PLACED"
      /\ moved.awardee = case.awardee
      /\ moved.round = case.round
  BY TransitionCase DEF CaseStates
<1> HIDE DEF moved
<1>2. case' = case \/ case' = moved
  BY DEF ReleasePo, moved
<1>3. n \in DOMAIN orders /\ orders[n].satisfied
  BY DEF ReleasePo, Last
<1>4. /\ orders' = [orders EXCEPT ![n].status = "RELEASED"]
      /\ approvals' = [approvals EXCEPT !.release = TRUE]
      /\ UNCHANGED <<rounds, awards>>
  BY DEF ReleasePo
<1> HIDE DEF n
<1>5. /\ orders' \in Seq(Order)
      /\ n \in DOMAIN orders'
      /\ orders'[n].status = "RELEASED"
      /\ orders'[n].satisfied
  <2> DEFINE placed == [orders[n] EXCEPT !.status = "RELEASED"]
  <2>1. orders[n] \in Order
    BY <1>3
  <2>2. /\ placed \in Order
        /\ placed.status = "RELEASED"
        /\ placed.satisfied = orders[n].satisfied
    BY <2>1 DEF Order
  <2>3. orders' = [orders EXCEPT ![n] = placed]
    BY <1>4
  <2> HIDE DEF placed
  <2>4. orders \in Seq(Order) /\ n \in DOMAIN orders /\ orders[n].satisfied
    BY <1>3
  <2> QED
    BY ONLY <2>2, <2>3, <2>4, Overwritten
<1>6. orders # <<>>
  BY <1>3
<1>7. /\ approvals'.award = approvals.award
      /\ approvals'.negotiation = approvals.negotiation
      /\ approvals'.release
      /\ approvals' \in [negotiation : SUBSET RoundNumbers,
                         award       : SUBSET Suppliers,
                         release     : BOOLEAN]
  BY <1>4
<1>8. case' \in Case /\ case'.awardee = case.awardee /\ case'.round = case.round
  <2>1. CASE case' = case
    BY <2>1
  <2>2. CASE case' = moved
    BY <1>1, <2>2
  <2> QED
    BY <1>2, <2>1, <2>2
<1>9. PlacedOrderIsReleased'
  BY <1>5, <1>7 DEF PlacedOrderIsReleased
<1>10. OrderedOnlyWhenAwarded'
  BY <1>6, <1>7, <1>8 DEF OrderedOnlyWhenAwarded
<1>11. RoundsAreAuthorised' /\ AwardsAreRecorded' /\ ApprovalsNameRounds'
  BY <1>4, <1>7, <1>8
     DEF RoundsAreAuthorised, AwardsAreRecorded, ApprovalsNameRounds
<1> QED
  BY <1>4, <1>5, <1>7, <1>8, <1>9, <1>10, <1>11

\* Every step keeps the invariant.
LEMMA NextInv == IInv /\ [Next]_vars => IInv'
<1> SUFFICES ASSUME IInv, [Next]_vars
             PROVE  IInv'
  OBVIOUS
<1>0. case \in Case
  BY DEF IInv, TypeOK
<1>1. CASE PlanRound
  BY <1>1, PlanStep
<1>2. CASE ApproveNegotiation
  BY <1>2, ApproveNegotiationStep
<1>3. ASSUME NEW n \in RoundNumbers, NEW a \in RoundNumbers, SendRound(n, a)
      PROVE  IInv'
  BY <1>3, SendStep
<1>4. ASSUME NEW n \in RoundNumbers, CloseRound(n)
      PROVE  IInv'
  BY <1>4, CloseStep
<1>5. CASE OpenAwardGate
  <2>1. /\ case' \in Case
        /\ case'.state = "WAITING_FOR_AWARD_APPROVAL"
        /\ case'.awardee = case.awardee
        /\ case'.round = case.round
    BY <1>0, <1>5, TransitionCase DEF OpenAwardGate, CaseStates
  <2> QED
    BY <1>5, <2>1, CaseStep DEF OpenAwardGate, OrderStates, Placed
<1>6. ASSUME NEW v \in Suppliers, ApproveAward(v)
      PROVE  IInv'
  BY <1>6, AwardStep
<1>7. ASSUME NEW v \in Suppliers, RecommendPo(v)
      PROVE  IInv'
  BY <1>7, RecommendStep
<1>8. CASE ReleasePo
  BY <1>8, ReleaseStep
<1>9. CASE UnlockCase
  <2>1. /\ case' \in Case
        /\ case'.state = "COMMERCIAL_EVALUATION"
        /\ case'.awardee = case.awardee
        /\ case'.round = case.round
    BY <1>0, <1>9, UnlockedCase DEF UnlockCase
  <2> QED
    BY <1>9, <2>1, CaseStep DEF UnlockCase, OrderStates, Placed
<1>10. CASE MoveCase
  <2>1. PICK s \in {"VALIDATING_PR", "SOURCING_STRATEGY", "READY_FOR_RFQ",
                    "WAITING_FOR_QUOTES", "TECHNICAL_EVALUATION",
                    "WAITING_FOR_TECHNICAL_APPROVAL"} \cup TerminalStates :
          /\ <<case.state, s>> \in DrivenTransitions
          /\ case' = Transition(case, s)
          /\ UNCHANGED <<rounds, approvals, awards, orders>>
    BY <1>10 DEF MoveCase
  <2>2. /\ s \in CaseStates
        /\ s \in OrderStates => case.state \in Placed /\ s \in Placed
    BY <2>1, MovedIntoOrders
  <2>3. /\ case' \in Case
        /\ case'.state = s
        /\ case'.awardee = case.awardee
        /\ case'.round = case.round
    BY <1>0, <2>1, <2>2, TransitionCase
  <2> QED
    BY <2>1, <2>2, <2>3, CaseStep DEF OrderStates, Placed
<1>11. CASE UNCHANGED vars
  BY <1>11, <1>0, CaseStep DEF vars
<1> QED
  BY <1>1, <1>2, <1>3, <1>4, <1>5, <1>6, <1>7, <1>8, <1>9, <1>10, <1>11
     DEF Next

-----------------------------------------------------------------------------
(* The theorems *)

\* The invariant holds of every behaviour.
LEMMA Invariance == Spec => []IInv
BY InitInv, NextInv, PTL DEF Spec

\* Every variable keeps its type, and with it every round its number within
\* the policy's limit.
THEOREM TypeCorrect == Spec => []TypeOK
<1>1. IInv => TypeOK
  BY DEF IInv
<1> QED
  BY Invariance, <1>1, PTL

\* Nothing is ordered that was not awarded under a signature.
THEOREM AwardGate == Spec => []OrderedOnlyWhenAwarded
<1>1. IInv => OrderedOnlyWhenAwarded
  BY DEF IInv
<1> QED
  BY Invariance, <1>1, PTL

\* No case counts as ordered without a released, fully signed recommendation.
THEOREM ReleaseGate == Spec => []PlacedOrderIsReleased
<1>1. IInv => PlacedOrderIsReleased
  BY DEF IInv
<1> QED
  BY Invariance, <1>1, PTL

\* No price ask goes out without an approval of a planned round.
THEOREM NegotiationGate == Spec => []RoundsAreAuthorised
<1>1. IInv => RoundsAreAuthorised
  BY DEF IInv
<1> QED
  BY Invariance, <1>1, PTL

\* Only the award gate names a supplier, and a case past it never returns.
LEMMA SettledStep ==
  ASSUME case \in Case, [Next]_vars, case.state \in OrderStates
  PROVE  case'.awardee = case.awardee
<1>1. ASSUME NEW s \in CaseStates
      PROVE  Transition(case, s).awardee = case.awardee
  BY TransitionCase
<1>2. CASE PlanRound
  <2>1. MayOpenRound(case)
    BY <1>2 DEF PlanRound, MayOpenNegotiation
  <2> QED
    BY <2>1 DEF MayOpenRound, OrderStates
<1>3. CASE ApproveNegotiation \/ UNCHANGED vars
  BY <1>3 DEF ApproveNegotiation, vars
<1>4. CASE \E n, a \in RoundNumbers : SendRound(n, a)
  BY <1>4 DEF SendRound
<1>5. CASE \E n \in RoundNumbers : CloseRound(n)
  BY <1>1, <1>5 DEF CloseRound, CaseStates
<1>6. CASE OpenAwardGate
  BY <1>1, <1>6 DEF OpenAwardGate, CaseStates
<1>7. CASE \E v \in Suppliers : ApproveAward(v)
  BY <1>7 DEF ApproveAward, MayRecordAward, OrderStates
<1>8. CASE \E v \in Suppliers : RecommendPo(v)
  BY <1>1, <1>8 DEF RecommendPo, CaseStates
<1>9. CASE ReleasePo
  BY <1>1, <1>9 DEF ReleasePo, CaseStates
<1>10. CASE UnlockCase
  BY <1>10 DEF UnlockCase, MayUnlockCommercial, OrderStates
<1>11. CASE MoveCase
  <2>1. PICK s \in {"VALIDATING_PR", "SOURCING_STRATEGY", "READY_FOR_RFQ",
                    "WAITING_FOR_QUOTES", "TECHNICAL_EVALUATION",
                    "WAITING_FOR_TECHNICAL_APPROVAL"} \cup TerminalStates :
          case' = Transition(case, s)
    BY <1>11 DEF MoveCase
  <2>2. s \in CaseStates
    BY <2>1 DEF CaseStates, TerminalStates
  <2> QED
    BY <1>1, <2>1, <2>2
<1> QED
  BY <1>2, <1>3, <1>4, <1>5, <1>6, <1>7, <1>8, <1>9, <1>10, <1>11 DEF Next

\* The award of a case never changes once a recommendation moved it on.
THEOREM AwardSettled == Spec => AwardIsSettled
<1>1. IInv /\ [Next]_vars =>
        [case.state \in OrderStates => case'.awardee = case.awardee]_vars
  BY SettledStep DEF IInv, TypeOK
<1> QED
  BY Invariance, <1>1, PTL DEF Spec, AwardIsSettled
=============================================================================
