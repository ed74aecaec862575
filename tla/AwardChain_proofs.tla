-------------------------- MODULE AwardChain_proofs --------------------------
(***************************************************************************)
(* What AwardChain guarantees for all people, roles, thresholds and        *)
(* suppliers, and that it implements AwardDesk.  The loop that takes one   *)
(* signature after the other is an assignment of signatures to steps; all  *)
(* that is needed of it is that it assigns distinct ones, and that a later *)
(* signature changes nothing, since each step takes the oldest it can.     *)
(***************************************************************************)
EXTENDS AwardChain, SourcingCase_proofs, SequenceTheorems

\* A recommendation that counts as satisfied is covered, and one that left
\* counted as satisfied.
SatisfiedOrdersAreCovered ==
  \A i \in DOMAIN orders :
    /\ orders[i].satisfied => Covered(orders[i].chain, signatures)
    /\ orders[i].status = "RELEASED" => orders[i].satisfied

IInv == TypeOK /\ SatisfiedOrdersAreCovered

-----------------------------------------------------------------------------
(* Lemmas about the chain *)

\* The loop gives distinct signatures to distinct steps.
LEMMA SatisfiedIsCovered ==
  ASSUME NEW chain \in SUBSET Steps, NEW s \in Seq(Signature),
         Satisfied(chain, s)
  PROVE  Covered(chain, s)
<1>1. PICK f \in [chain -> DOMAIN s] : TakenInOrder(f, chain, s)
  BY DEF Satisfied
<1>2. \A k \in chain : f[k] \in Matches(k, s)
  BY <1>1 DEF TakenInOrder
<1>3. ASSUME NEW k \in chain, NEW j \in chain, j < k PROVE f[j] # f[k]
  BY <1>1, <1>3 DEF TakenInOrder
<1>4. \A k, j \in chain : j # k => j < k \/ k < j
  BY DEF Steps
<1>5. \A k \in chain : \A j \in chain \ {k} : f[j] # f[k]
  BY <1>3, <1>4
<1> QED
  BY <1>1, <1>2, <1>5 DEF Covered

\* What a signature meets, it meets when others follow it; and the last one
\* has the highest number.
LEMMA MatchesOfAppended ==
  ASSUME NEW s \in Seq(Signature), NEW x \in Signature, NEW k
  PROVE  /\ Matches(k, s) \subseteq Matches(k, Append(s, x))
         /\ Matches(k, Append(s, x)) \subseteq Matches(k, s) \cup {Len(s) + 1}
         /\ DOMAIN s \subseteq DOMAIN Append(s, x)
         /\ \A i \in DOMAIN s : i <= Len(s) + 1
BY DEF Matches

LEMMA CoveredStays ==
  ASSUME NEW chain \in SUBSET Steps, NEW s \in Seq(Signature),
         NEW x \in Signature, Covered(chain, s)
  PROVE  Covered(chain, Append(s, x))
<1>1. PICK f \in [chain -> DOMAIN s] :
        \A k \in chain : /\ f[k] \in Matches(k, s)
                         /\ \A j \in chain \ {k} : f[j] # f[k]
  BY DEF Covered
<1>2. f \in [chain -> DOMAIN Append(s, x)]
  BY MatchesOfAppended
<1>3. \A k \in chain : f[k] \in Matches(k, Append(s, x))
  BY <1>1, MatchesOfAppended
<1> QED
  BY <1>1, <1>2, <1>3 DEF Covered

\* Each step keeps the signature it took when another one follows.
LEMMA SatisfiedStays ==
  ASSUME NEW chain \in SUBSET Steps, NEW s \in Seq(Signature),
         NEW x \in Signature, Satisfied(chain, s)
  PROVE  Satisfied(chain, Append(s, x))
<1>1. PICK f \in [chain -> DOMAIN s] : TakenInOrder(f, chain, s)
  BY DEF Satisfied
<1>2. f \in [chain -> DOMAIN Append(s, x)]
  BY MatchesOfAppended
<1>3. ASSUME NEW k \in chain
      PROVE  LET taken == {f[j] : j \in {j \in chain : j < k}}
                 free == Matches(k, Append(s, x)) \ taken
             IN  f[k] \in free /\ \A i \in free : f[k] <= i
  <2> DEFINE taken == {f[j] : j \in {j \in chain : j < k}}
  <2>1. f[k] \in Matches(k, s) \ taken
    BY <1>1 DEF TakenInOrder
  <2>2. \A i \in Matches(k, s) \ taken : f[k] <= i
    BY <1>1 DEF TakenInOrder
  <2>3. f[k] \in DOMAIN s
    OBVIOUS
  <2> HIDE DEF taken
  <2>4. \A i \in Matches(k, Append(s, x)) \ taken : f[k] <= i
    BY <2>2, <2>3, MatchesOfAppended
  <2>5. f[k] \in Matches(k, Append(s, x)) \ taken
    BY <2>1, MatchesOfAppended
  <2> QED
    BY <2>4, <2>5 DEF taken
<1> QED
  BY <1>2, <1>3 DEF Satisfied, TakenInOrder

\* No chain is complete without an award signature.
LEMMA SatisfiedIsSigned ==
  ASSUME NEW chain \in SUBSET Steps, NEW s \in Seq(Signature), 1 \in chain,
         Satisfied(chain, s)
  PROVE  \E i \in DOMAIN s : s[i].type = "AWARD"
<1>1. PICK f \in [chain -> DOMAIN s] : TakenInOrder(f, chain, s)
  BY DEF Satisfied
<1>2. f[1] \in Matches(1, s)
  BY <1>1 DEF TakenInOrder
<1> QED
  BY <1>2 DEF Matches, TypeOfStep

LEMMA ChainIsOfSteps ==
  ASSUME NEW tier, NEW single, NEW deviations
  PROVE  /\ Chain(tier, single, deviations) \in SUBSET Steps
         /\ 1 \in Chain(tier, single, deviations)
BY DEF Chain, Steps

-----------------------------------------------------------------------------
(* Lemmas about sequences and the market *)

\* Overwriting the last element of a sequence.
LEMMA LastOverwritten ==
  ASSUME NEW S, NEW s \in Seq(S), s # <<>>, NEW e \in S, NEW t,
         t = [s EXCEPT ![Len(s)] = e]
  PROVE  /\ t \in Seq(S)
         /\ Len(s) \in DOMAIN s /\ s[Len(s)] \in S /\ Last(s) = s[Len(s)]
         /\ DOMAIN t = DOMAIN s
         /\ t[Len(s)] = e
         /\ \A i \in DOMAIN s : i # Len(s) => t[i] = s[i]
BY DEF Last

LEMMA Appended ==
  ASSUME NEW S, NEW s \in Seq(S), NEW e \in S
  PROVE  /\ Append(s, e) \in Seq(S)
         /\ DOMAIN Append(s, e) = DOMAIN s \cup {Len(s) + 1}
         /\ Append(s, e)[Len(s) + 1] = e
         /\ \A i \in DOMAIN s : Append(s, e)[i] = s[i]
OBVIOUS

LEMMA InitIInv == Init => IInv
<1> SUFFICES ASSUME Init PROVE IInv
  OBVIOUS
<1>1. case \in Case
  BY CaseAssumption DEF Init, NewCase, Case, CaseStates
<1>2. market \in Market
  BY DEF Init, Market
<1>3. /\ signatures \in Seq(Signature) /\ orders \in Seq(Order)
      /\ DOMAIN orders = {}
  BY DEF Init
<1> QED
  BY <1>1, <1>2, <1>3 DEF Init, IInv, TypeOK, SatisfiedOrdersAreCovered

-----------------------------------------------------------------------------
(* The invariant, action by action *)

\* A further signature leaves every order covered.
LEMMA SignKeeps ==
  ASSUME IInv, NEW p \in People, NEW type \in SignatureTypes,
         NEW v \in Suppliers \cup {NoSupplier}, Sign(p, type, v), orders' = orders
  PROVE  /\ signatures' \in Seq(Signature)
         /\ SatisfiedOrdersAreCovered'
<1> DEFINE x == [type |-> type, by |-> p, for |-> v]
<1>1. x \in Signature /\ signatures \in Seq(Signature) /\ orders \in Seq(Order)
  BY DEF Signature, IInv, TypeOK
<1>2. signatures' = Append(signatures, x)
  BY DEF Sign
<1> HIDE DEF x
<1>3. \A i \in DOMAIN orders : orders[i].chain \in SUBSET Steps
  <2>1. \A i \in DOMAIN orders : orders[i] \in Order
    BY <1>1
  <2> QED
    BY <2>1 DEF Order
<1>4. \A i \in DOMAIN orders :
        Covered(orders[i].chain, signatures)
          => Covered(orders[i].chain, signatures')
  BY <1>1, <1>2, <1>3, CoveredStays
<1> QED
  BY <1>1, <1>2, <1>4 DEF IInv, SatisfiedOrdersAreCovered

LEMMA SignAwardKeeps ==
  ASSUME IInv, NEW p \in People, NEW v \in Suppliers, SignAward(p, v)
  PROVE  IInv'
<1>1. Sign(p, "AWARD", v) /\ orders' = orders
  BY DEF SignAward
<1>2. "AWARD" \in SignatureTypes
  BY DEF SignatureTypes
<1>3. signatures' \in Seq(Signature) /\ SatisfiedOrdersAreCovered'
  BY <1>1, <1>2, SignKeeps
<1>4. case' \in Case /\ awards' \in SUBSET Suppliers
  <2>1. case \in Case /\ awards \in SUBSET Suppliers
    BY DEF IInv, TypeOK
  <2>2. CASE case' = RecordAward(case, v) /\ awards' = awards \cup {v}
    BY <2>1, <2>2, AwardedCase
  <2>3. CASE case' = case /\ awards' = awards
    BY <2>1, <2>3
  <2> QED
    BY <2>2, <2>3 DEF SignAward
<1> QED
  BY <1>3, <1>4 DEF IInv, TypeOK, SignAward

LEMMA AcceptDeviationKeeps ==
  ASSUME IInv, NEW p \in People, AcceptDeviation(p)
  PROVE  IInv'
<1>1. Sign(p, "DEVIATION", NoSupplier) /\ orders' = orders
  BY DEF AcceptDeviation
<1>2. signatures' \in Seq(Signature) /\ SatisfiedOrdersAreCovered'
  BY <1>1, SignKeeps DEF SignatureTypes
<1>3. market' \in Market
  BY DEF IInv, TypeOK, Market, AcceptDeviation
<1> QED
  BY <1>2, <1>3 DEF IInv, TypeOK, AcceptDeviation

LEMMA SignSingleSourceKeeps ==
  ASSUME IInv, NEW p \in People, SignSingleSource(p)
  PROVE  IInv'
<1>1. Sign(p, "SINGLE_SOURCE", NoSupplier) /\ orders' = orders
  BY DEF SignSingleSource
<1>2. signatures' \in Seq(Signature) /\ SatisfiedOrdersAreCovered'
  BY <1>1, SignKeeps DEF SignatureTypes
<1> QED
  BY <1>2 DEF IInv, TypeOK, SignSingleSource

\* What is drafted is covered if it says so, and has not left.
LEMMA RecommendPoKeeps ==
  ASSUME IInv, NEW v \in Suppliers, RecommendPo(v)
  PROVE  IInv'
<1> DEFINE chain == ChainOfOrder(v)
           o == [vendor |-> v, chain |-> chain,
                 satisfied |-> Satisfied(chain, signatures),
                 status |-> "RECOMMENDED"]
<1>1. chain \in SUBSET Steps
  BY ChainIsOfSteps DEF ChainOfOrder
<1>2. orders' = Append(orders, o) /\ signatures' = signatures
  BY DEF RecommendPo
<1>3. Satisfied(chain, signatures) \in BOOLEAN
  BY DEF Satisfied
<1>4. o.satisfied => Covered(o.chain, signatures)
  BY <1>1, SatisfiedIsCovered DEF IInv, TypeOK
<1>5. o \in Order /\ o.status # "RELEASED"
  BY <1>1, <1>3, Zenon DEF Order
<1> HIDE DEF o
<1>6. /\ orders' \in Seq(Order)
      /\ DOMAIN orders' = DOMAIN orders \cup {Len(orders) + 1}
      /\ orders'[Len(orders) + 1] = o
      /\ \A i \in DOMAIN orders : orders'[i] = orders[i]
  BY <1>2, <1>5, Appended DEF IInv, TypeOK
<1>7. SatisfiedOrdersAreCovered'
  BY <1>2, <1>4, <1>5, <1>6 DEF IInv, SatisfiedOrdersAreCovered
<1>8. case' \in Case
  BY TransitionCase DEF RecommendPo, IInv, TypeOK, CaseStates
<1> QED
  BY <1>2, <1>6, <1>7, <1>8 DEF IInv, TypeOK, RecommendPo

\* Only a satisfied recommendation leaves.
LEMMA ReleasePoKeeps ==
  ASSUME IInv, ReleasePo
  PROVE  IInv'
<1> DEFINE e == [orders[Len(orders)] EXCEPT !.status = "RELEASED"]
<1>1. orders' = [orders EXCEPT ![Len(orders)] = e]
  BY DEF ReleasePo
<1>2. /\ Len(orders) \in DOMAIN orders /\ orders[Len(orders)] \in Order
      /\ Last(orders) = orders[Len(orders)]
  BY DEF ReleasePo, IInv, TypeOK, Last
<1>3. /\ e \in Order /\ e.chain = orders[Len(orders)].chain
      /\ e.satisfied = orders[Len(orders)].satisfied
  BY <1>2 DEF Order
<1>4. e.satisfied
  BY <1>2, <1>3 DEF ReleasePo
<1> HIDE DEF e
<1>5. /\ orders' \in Seq(Order) /\ DOMAIN orders' = DOMAIN orders
      /\ orders'[Len(orders)] = e
      /\ \A i \in DOMAIN orders : i # Len(orders) => orders'[i] = orders[i]
  BY <1>1, <1>3, LastOverwritten DEF IInv, TypeOK, ReleasePo
<1>6. Covered(e.chain, signatures)
  BY <1>2, <1>3, <1>4 DEF IInv, SatisfiedOrdersAreCovered
<1>7. signatures' = signatures
  BY DEF ReleasePo
<1>8. SatisfiedOrdersAreCovered'
  BY <1>4, <1>5, <1>6, <1>7 DEF IInv, SatisfiedOrdersAreCovered
<1>9. case' \in Case
  BY TransitionCase DEF ReleasePo, IInv, TypeOK, CaseStates
<1> QED
  BY <1>5, <1>8, <1>9 DEF IInv, TypeOK, ReleasePo

\* What the rest of the system does concerns neither signatures nor orders.
LEMMA OthersKeep ==
  ASSUME IInv, Reevaluate \/ UnlockCase \/ MoveCase
  PROVE  IInv'
<1>1. UNCHANGED <<signatures, orders, awards, released>>
  BY DEF Reevaluate, UnlockCase, MoveCase
<1>2. market' \in Market
  BY DEF IInv, TypeOK, Reevaluate, UnlockCase, MoveCase
<1>3. case' \in Case
  <2>1. CASE Reevaluate
    BY <2>1 DEF Reevaluate, IInv, TypeOK
  <2>2. CASE UnlockCase
    BY <2>2, UnlockedCase DEF UnlockCase, IInv, TypeOK
  <2>3. CASE MoveCase
    <3>1. PICK s \in CaseStates : case' = Transition(case, s)
      BY <2>3 DEF MoveCase, CaseStates, TerminalStates
    <3> QED
      BY <3>1, TransitionCase DEF IInv, TypeOK
  <2> QED
    BY <2>1, <2>2, <2>3
<1> QED
  BY <1>1, <1>2, <1>3 DEF IInv, TypeOK, SatisfiedOrdersAreCovered

LEMMA StepKeepsIInv == IInv /\ [Next]_vars => IInv'
<1> SUFFICES ASSUME IInv, [Next]_vars PROVE IInv'
  OBVIOUS
<1>1. CASE UNCHANGED vars
  BY <1>1 DEF vars, IInv, TypeOK, SatisfiedOrdersAreCovered
<1> QED
  BY <1>1, SignAwardKeeps, AcceptDeviationKeeps, SignSingleSourceKeeps,
     RecommendPoKeeps, ReleasePoKeeps, OthersKeep DEF Next

LEMMA Invariance == Spec => []IInv
BY InitIInv, StepKeepsIInv, PTL DEF Spec

-----------------------------------------------------------------------------
(* Theorems *)

\* AwardChain is well typed for all people, roles and thresholds.
THEOREM TypeCorrect == Spec => []TypeOK
<1>1. IInv => TypeOK
  BY DEF IInv
<1> QED
  BY <1>1, Invariance, PTL

\* No order leaves without a signature of its own behind every step of the
\* chain it was drafted with.
THEOREM Coverage == Spec => []ReleasedOrderIsCovered
<1>1. IInv => ReleasedOrderIsCovered
  BY DEF IInv, SatisfiedOrdersAreCovered, ReleasedOrderIsCovered
<1> QED
  BY <1>1, Invariance, PTL

\* A further signature never undoes a chain that was complete.
THEOREM NotUndone == Spec => SignaturesAreNotUndone
<1> DEFINE Kept ==
      \A v \in Suppliers :
        /\ market' = market
        /\ Satisfied(ChainOfAward(v), signatures)
        => Satisfied(ChainOfAward(v), signatures')
<1>1. IInv /\ [Next]_vars => [Kept]_vars
  <2> SUFFICES ASSUME IInv, [Next]_vars, NEW v \in Suppliers,
                      Satisfied(ChainOfAward(v), signatures)
               PROVE  Satisfied(ChainOfAward(v), signatures')
    OBVIOUS
  <2>1. ChainOfAward(v) \in SUBSET Steps
    BY ChainIsOfSteps DEF ChainOfAward
  <2>2. \/ signatures' = signatures
        \/ \E x \in Signature : signatures' = Append(signatures, x)
    BY DEF Next, SignAward, AcceptDeviation, SignSingleSource, RecommendPo,
           ReleasePo, Reevaluate, UnlockCase, MoveCase, vars, Sign, Signature,
           SignatureTypes
  <2> QED
    BY <2>1, <2>2, SatisfiedStays DEF IInv, TypeOK
<1> QED
  BY <1>1, Invariance, PTL DEF Spec, SignaturesAreNotUndone

-----------------------------------------------------------------------------
(* AwardChain implements AwardDesk *)

\* What AwardDesk keeps of an order, and of all of them.
Row(o) == [vendor |-> o.vendor, satisfied |-> o.satisfied, status |-> o.status]

Rows(s) == [i \in DOMAIN s |-> Row(s[i])]

AwardedBy(s) == {s[i].for : i \in {i \in DOMAIN s : s[i].type = "AWARD"}}

DeskApprovals == [negotiation |-> {}, award |-> AwardedBy(signatures),
                  release |-> released]

LEMMA RowsOfSequence ==
  ASSUME NEW s \in Seq(Order)
  PROVE  /\ Rows(s) \in Seq(Desk!Order)
         /\ Len(Rows(s)) = Len(s)
         /\ DOMAIN Rows(s) = DOMAIN s
         /\ \A i \in DOMAIN s : Rows(s)[i] = Row(s[i])
<1>1. DOMAIN s = 1..Len(s) /\ Len(s) \in Nat
  OBVIOUS
<1>2. \A i \in DOMAIN s : s[i] \in Order
  OBVIOUS
<1>3. \A i \in DOMAIN s : Row(s[i]) \in Desk!Order
  BY <1>2 DEF Row, Order, Desk!Order
<1>4. Rows(s) \in [1..Len(s) -> Desk!Order]
  BY <1>1, <1>3 DEF Rows
<1> QED
  BY <1>1, <1>4 DEF Rows

LEMMA RowsOfAppended ==
  ASSUME NEW s \in Seq(Order), NEW o \in Order
  PROVE  Rows(Append(s, o)) = Append(Rows(s), Row(o))
<1>1. /\ Append(s, o) \in Seq(Order)
      /\ Len(Append(s, o)) = Len(s) + 1
      /\ DOMAIN Append(s, o) = 1..(Len(s) + 1)
  OBVIOUS
<1>2. /\ Rows(Append(s, o)) \in Seq(Desk!Order)
      /\ Len(Rows(Append(s, o))) = Len(s) + 1
      /\ \A i \in 1..(Len(s) + 1) : Rows(Append(s, o))[i] = Row(Append(s, o)[i])
  BY <1>1, RowsOfSequence
<1>3. /\ Rows(s) \in Seq(Desk!Order)
      /\ Len(Rows(s)) = Len(s)
      /\ \A i \in 1..Len(s) : Rows(s)[i] = Row(s[i])
  BY RowsOfSequence
<1>4. Row(o) \in Desk!Order
  BY DEF Row, Order, Desk!Order
<1>5. /\ Append(Rows(s), Row(o)) \in Seq(Desk!Order)
      /\ Len(Append(Rows(s), Row(o))) = Len(s) + 1
  BY <1>3, <1>4
<1>6. \A i \in 1..(Len(s) + 1) :
        Rows(Append(s, o))[i] = Append(Rows(s), Row(o))[i]
  BY <1>2, <1>3, <1>4
<1> QED
  BY <1>2, <1>5, <1>6, SeqEqual

LEMMA RowsOfOverwritten ==
  ASSUME NEW s \in Seq(Order), s # <<>>, NEW t \in Seq(Order),
         t = [s EXCEPT ![Len(s)].status = "RELEASED"]
  PROVE  Rows(t) = [Rows(s) EXCEPT ![Len(Rows(s))].status = "RELEASED"]
<1>1. DOMAIN t = DOMAIN s /\ Len(s) \in DOMAIN s
  OBVIOUS
<1>2. /\ s[Len(s)] \in Order
      /\ t[Len(s)] = [s[Len(s)] EXCEPT !.status = "RELEASED"]
      /\ \A i \in DOMAIN s : i # Len(s) => t[i] = s[i]
  BY <1>1
<1>3. Row(t[Len(s)]) = [Row(s[Len(s)]) EXCEPT !.status = "RELEASED"]
  BY <1>2 DEF Row, Order
<1>4. Len(Rows(s)) = Len(s) /\ Len(s) \in DOMAIN Rows(s)
  BY <1>1, RowsOfSequence
<1> QED
  BY <1>1, <1>2, <1>3, <1>4 DEF Rows

\* The initial states map to the initial state.
LEMMA DeskInit == Init => Desk!Init
<1> SUFFICES ASSUME Init PROVE Desk!Init
  OBVIOUS
<1>1. Rows(orders) = <<>>
  <2>1. orders \in Seq(Order) /\ Len(orders) = 0
    BY DEF Init
  <2>2. Rows(orders) \in Seq(Desk!Order) /\ Len(Rows(orders)) = 0
    BY <2>1, RowsOfSequence
  <2> QED
    BY <2>2
<1>2. AwardedBy(signatures) = {}
  BY DEF Init, AwardedBy
<1>3. case = Desk!NewCase
  BY DEF Init, NewCase, Desk!NewCase
<1> QED
  BY <1>1, <1>2, <1>3, Zenon DEF Init, Desk!Init, Rows, Row, AwardedBy

\* A deviation or a single-source signature is none AwardDesk keeps.
LEMMA AwardedByAppended ==
  ASSUME NEW s \in Seq(Signature), NEW x \in Signature
  PROVE  AwardedBy(Append(s, x)) =
           IF x.type = "AWARD" THEN AwardedBy(s) \cup {x.for} ELSE AwardedBy(s)
<1>1. /\ DOMAIN Append(s, x) = DOMAIN s \cup {Len(s) + 1}
      /\ Append(s, x)[Len(s) + 1] = x
      /\ \A i \in DOMAIN s : Append(s, x)[i] = s[i]
  BY Appended
<1>2. Len(s) + 1 \notin DOMAIN s
  OBVIOUS
<1> QED
  BY <1>1, <1>2 DEF AwardedBy

LEMMA SignAwardIsApproveAward ==
  ASSUME IInv, NEW p \in People, NEW v \in Suppliers, SignAward(p, v)
  PROVE  Desk!ApproveAward(v)
<1> DEFINE x == [type |-> "AWARD", by |-> p, for |-> v]
<1>1. x \in Signature /\ x.type = "AWARD" /\ x.for = v
  BY DEF Signature, SignatureTypes
<1>2. signatures' = Append(signatures, x)
  BY DEF SignAward, Sign
<1> HIDE DEF x
<1>3. AwardedBy(signatures') = AwardedBy(signatures) \cup {v}
  BY <1>1, <1>2, AwardedByAppended DEF IInv, TypeOK
<1>4. DeskApprovals' = [DeskApprovals EXCEPT !.award = @ \cup {v}]
  BY <1>3 DEF DeskApprovals, SignAward
<1>5. \/ case' = case /\ awards' = awards
      \/ /\ Desk!MayRecordAward(case, v)
         /\ case' = Desk!RecordAward(case, v)
         /\ awards' = awards \cup {v}
  BY DEF SignAward, MayRecordAward, Desk!MayRecordAward, RecordAward,
         Desk!RecordAward
<1>6. Rows(orders)' = Rows(orders)
  BY DEF SignAward
<1> QED
  BY <1>4, <1>5, <1>6, Zenon
     DEF Desk!ApproveAward, DeskApprovals, AwardedBy, Rows, Row

\* Signatures of other types, and what is ranked and judged, are nothing
\* AwardDesk sees.
LEMMA OtherSignatureStutters ==
  ASSUME IInv, NEW p \in People, AcceptDeviation(p) \/ SignSingleSource(p)
  PROVE  UNCHANGED Desk!vars
<1>1. PICK x \in Signature :
        x.type # "AWARD" /\ signatures' = Append(signatures, x)
  BY DEF AcceptDeviation, SignSingleSource, Sign, Signature, SignatureTypes
<1>2. AwardedBy(signatures') = AwardedBy(signatures)
  BY <1>1, AwardedByAppended DEF IInv, TypeOK
<1>3. DeskApprovals' = DeskApprovals
  BY <1>2 DEF DeskApprovals, AcceptDeviation, SignSingleSource
<1>4. UNCHANGED <<case, awards, orders>>
  BY DEF AcceptDeviation, SignSingleSource
<1> QED
  BY <1>3, <1>4, Zenon DEF Desk!vars, DeskApprovals, AwardedBy

LEMMA RecommendPoIsRecommendPo ==
  ASSUME IInv, NEW v \in Suppliers, RecommendPo(v)
  PROVE  Desk!RecommendPo(v)
<1> DEFINE chain == ChainOfOrder(v)
           sat == Satisfied(chain, signatures)
           o == [vendor |-> v, chain |-> chain, satisfied |-> sat,
                 status |-> "RECOMMENDED"]
<1>1. chain \in SUBSET Steps /\ 1 \in chain
  BY ChainIsOfSteps DEF ChainOfOrder
<1>2. sat \in BOOLEAN
  BY DEF Satisfied
<1>3. sat => DeskApprovals.award # {}
  BY <1>1, SatisfiedIsSigned DEF IInv, TypeOK, DeskApprovals, AwardedBy
<1>4. orders' = Append(orders, o)
  BY DEF RecommendPo
<1>5. o \in Order
  BY <1>1, <1>2, Zenon DEF Order
<1>6. Row(o) = [vendor |-> v, satisfied |-> sat, status |-> "RECOMMENDED"]
  BY DEF Row
<1> HIDE DEF o, chain, sat
<1>7. Rows(orders)' = Append(Rows(orders), Row(o))
  BY <1>4, <1>5, RowsOfAppended DEF IInv, TypeOK
<1>8. Len(Rows(orders)) < MaxOrders
  BY RowsOfSequence DEF IInv, TypeOK, RecommendPo
<1>9. UNCHANGED DeskApprovals /\ UNCHANGED awards
  BY DEF RecommendPo, DeskApprovals
<1>10. case.unlocked /\ v \in awards
  BY DEF RecommendPo
<1>11. IF case.state = "WAITING_FOR_AWARD_APPROVAL"
       THEN /\ Desk!MayTransition(case, "PO_RECOMMENDATION")
            /\ case' = Desk!Transition(case, "PO_RECOMMENDATION")
       ELSE UNCHANGED case
  BY DEF RecommendPo, MayTransition, Desk!MayTransition, Transition,
         Desk!Transition, StaysPut, Desk!StaysPut, CanTransition,
         Desk!CanTransition, LegalTransitions, Desk!LegalTransitions,
         Abandoned, Desk!Abandoned
<1>12. /\ sat => DeskApprovals.award # {}
       /\ Rows(orders)' = Append(Rows(orders),
                                [vendor |-> v, satisfied |-> sat,
                                 status |-> "RECOMMENDED"])
  BY <1>3, <1>6, <1>7
<1> QED
  BY <1>2, <1>8, <1>9, <1>10, <1>11, <1>12, Zenon
     DEF Desk!RecommendPo, DeskApprovals, AwardedBy, Rows, Row

LEMMA ReleasePoIsReleasePo ==
  ASSUME IInv, ReleasePo
  PROVE  Desk!ReleasePo
<1>1. orders \in Seq(Order) /\ orders' \in Seq(Order)
  BY ReleasePoKeeps DEF IInv, TypeOK
<1>2. Rows(orders)' = [Rows(orders) EXCEPT ![Len(Rows(orders))].status = "RELEASED"]
  BY <1>1, RowsOfOverwritten DEF ReleasePo
<1>3. /\ Rows(orders) # <<>>
      /\ Desk!Last(Rows(orders)).satisfied
  <2>1. /\ Len(Rows(orders)) = Len(orders) /\ Len(orders) > 0
        /\ Len(orders) \in DOMAIN orders
    BY <1>1, RowsOfSequence DEF ReleasePo
  <2>2. Rows(orders)[Len(orders)] = Row(orders[Len(orders)])
    BY <1>1, <2>1, RowsOfSequence
  <2>3. Rows(orders)[Len(orders)].satisfied = orders[Len(orders)].satisfied
    BY <2>2 DEF Row
  <2>4. Last(orders) = orders[Len(orders)] /\ Last(orders).satisfied
    BY DEF Last, ReleasePo
  <2>5. Rows(orders) # <<>>
    BY <2>1
  <2> QED
    BY <2>1, <2>3, <2>4, <2>5, Zenon DEF Desk!Last
<1>4. DeskApprovals' = [DeskApprovals EXCEPT !.release = TRUE]
  <2>1. signatures' = signatures /\ released' = TRUE
    BY DEF ReleasePo
  <2>2. \A a, r, t :
          [[negotiation |-> {}, award |-> a, release |-> r] EXCEPT !.release = t]
            = [negotiation |-> {}, award |-> a, release |-> t]
    OBVIOUS
  <2> QED
    BY <2>1, <2>2, Zenon DEF DeskApprovals
<1>5. case' = IF case.state = "PO_RECOMMENDATION"
              THEN Desk!Transition(case, "ORDER_PLACED") ELSE case
  BY DEF ReleasePo, Transition, Desk!Transition
<1>6. UNCHANGED awards
  BY DEF ReleasePo
<1> QED
  BY <1>2, <1>3, <1>4, <1>5, <1>6, Zenon
     DEF Desk!ReleasePo, DeskApprovals, AwardedBy, Rows, Row

LEMMA OthersAreOthers ==
  ASSUME IInv, Reevaluate \/ UnlockCase \/ MoveCase
  PROVE  [Desk!Next]_(Desk!vars)
<1>1. /\ UNCHANGED <<DeskApprovals, awards>>
      /\ Rows(orders)' = Rows(orders)
  BY DEF Reevaluate, UnlockCase, MoveCase, DeskApprovals
<1>2. CASE Reevaluate
  <2>1. UNCHANGED case
    BY <1>2 DEF Reevaluate
  <2> QED
    BY <1>1, <2>1, Zenon DEF Desk!vars, DeskApprovals, AwardedBy, Rows, Row
<1>3. CASE UnlockCase
  <2>1. /\ Desk!MayUnlockCommercial(case)
        /\ case' = Desk!ApplyTechnicalApproval(case)
    BY <1>3 DEF UnlockCase, MayUnlockCommercial, Desk!MayUnlockCommercial,
                ApplyTechnicalApproval, Desk!ApplyTechnicalApproval,
                Transition, Desk!Transition, UnlockCommercial,
                Desk!UnlockCommercial
  <2>2. Desk!UnlockCase
    BY <1>1, <2>1, Zenon DEF Desk!UnlockCase, DeskApprovals, AwardedBy, Rows, Row
  <2> QED
    BY <2>2 DEF Desk!Next
<1>4. CASE MoveCase
  <2> DEFINE early == {"VALIDATING_PR", "SOURCING_STRATEGY", "READY_FOR_RFQ",
                       "WAITING_FOR_QUOTES", "TECHNICAL_EVALUATION",
                       "WAITING_FOR_TECHNICAL_APPROVAL"} \cup TerminalStates
  <2>1. PICK s \in early \cup {"WAITING_FOR_AWARD_APPROVAL"} :
          /\ <<case.state, s>> \in DrivenTransitions
          /\ case' = Transition(case, s)
    BY <1>4 DEF MoveCase
  <2>2. CASE s \in early
    <3>1. /\ <<case.state, s>> \in Desk!DrivenTransitions
          /\ case' = Desk!Transition(case, s)
      BY <2>1 DEF DrivenTransitions, Desk!DrivenTransitions, LegalTransitions,
                  Desk!LegalTransitions, Abandoned, Desk!Abandoned,
                  Transition, Desk!Transition
    <3>2. Desk!MoveCase
      BY <1>1, <2>2, <3>1, Zenon
         DEF Desk!MoveCase, Desk!TerminalStates, TerminalStates, DeskApprovals,
             AwardedBy, Rows, Row
    <3> QED
      BY <3>2 DEF Desk!Next
  <2>3. CASE s = "WAITING_FOR_AWARD_APPROVAL"
    <3>1. case.state \in {"NEGOTIATION", "COMMERCIAL_EVALUATION"}
      BY <2>1, <2>3 DEF DrivenTransitions, Abandoned
    <3>2. case' = Desk!Transition(case, "WAITING_FOR_AWARD_APPROVAL")
      BY <2>1, <2>3 DEF Transition, Desk!Transition
    <3>3. Desk!OpenAwardGate
      BY <1>1, <3>1, <3>2, Zenon
         DEF Desk!OpenAwardGate, DeskApprovals, AwardedBy, Rows, Row
    <3> QED
      BY <3>3 DEF Desk!Next
  <2> QED
    BY <2>1, <2>2, <2>3
<1> QED
  BY <1>2, <1>3, <1>4

LEMMA DeskStep == IInv /\ [Next]_vars => [Desk!Next]_(Desk!vars)
<1> SUFFICES ASSUME IInv, [Next]_vars PROVE [Desk!Next]_(Desk!vars)
  OBVIOUS
<1>1. CASE UNCHANGED vars
  BY <1>1, Zenon DEF vars, Desk!vars
<1>2. ASSUME NEW p \in People, NEW v \in Suppliers, SignAward(p, v)
      PROVE  Desk!Next
  BY <1>2, SignAwardIsApproveAward DEF Desk!Next
<1>3. ASSUME NEW v \in Suppliers, RecommendPo(v) PROVE Desk!Next
  BY <1>3, RecommendPoIsRecommendPo DEF Desk!Next
<1>4. ASSUME ReleasePo PROVE Desk!Next
  BY <1>4, ReleasePoIsReleasePo DEF Desk!Next
<1> QED
  BY <1>1, <1>2, <1>3, <1>4, OtherSignatureStutters, OthersAreOthers DEF Next

\* Collecting signatures as the policy does is a way of doing what AwardDesk
\* promises, for all people, roles, thresholds and suppliers.
THEOREM Refinement == Spec => ImplementsDesk
BY DeskInit, DeskStep, Invariance, PTL DEF Spec, Desk!Spec, ImplementsDesk
=============================================================================
