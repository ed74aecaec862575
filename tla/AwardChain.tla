----------------------------- MODULE AwardChain -----------------------------
(***************************************************************************)
(* Who has to sign an award: the chain of approvals the policy asks for,   *)
(* the signatures that are collected for it, and the recommendation that   *)
(* is drafted and released on their strength (domain/policies.py, the      *)
(* award, deviation and release routes, application/po_recommendation.py). *)
(*                                                                         *)
(* This is AwardDesk in detail, without its negotiation: what AwardDesk    *)
(* leaves open, whether a signature completes the chain, is computed here. *)
(*                                                                         *)
(* Signatures are the positive approvals, in the order they were recorded; *)
(* a negative one is stored and never counted, and is left out.  The chain *)
(* is a set of numbered steps, taken in the order of their numbers.        *)
(***************************************************************************)
EXTENDS SourcingCase, Sequences, SequencesExt

CONSTANTS People,         \* the people who sign
          RolesOf,        \* the roles of each of them
          Tiers,          \* how many of the two value thresholds are met
          MinSuppliers,   \* settings.min_suppliers_per_rfq
          ScenarioRunner, \* the seed's pipeline drives the case
          MaxSignatures,  \* bound: positive approvals of the case
          MaxOrders       \* bound: recommendations drafted for the case

Roles == {"CATEGORY_MANAGER", "PROCUREMENT_HEAD", "EXECUTIVE", "FINANCE",
          "ENGINEER", "QUALITY"}

ASSUME ChainAssumption ==
  /\ RolesOf \in [People -> SUBSET Roles]
  /\ Tiers \subseteq 0..2
  /\ MinSuppliers \in Nat
  /\ ScenarioRunner \in BOOLEAN
  /\ MaxSignatures \in Nat
  /\ MaxOrders \in Nat

VARIABLES case,        \* the sourcing case
          signatures,  \* its positive approvals towards the award
          market,      \* the newest ranking and the compliance matrix
          awards,      \* suppliers the case was ever awarded to
          orders,      \* PO recommendations, in the order they were created
          released     \* a PO_RELEASE approval is recorded

vars == <<case, signatures, market, awards, orders, released>>

SignatureTypes == {"AWARD", "SINGLE_SOURCE", "DEVIATION"}

\* by: actor_id and with it actor_roles; for: subject_ref of an award.
Signature == [type : SignatureTypes, by : People,
              for : Suppliers \cup {NoSupplier}]

\* tier: where the ranked value of each supplier lies; qualified: the ranked
\* bids; deviating: suppliers whose present quotation has an assessment with
\* status DEVIATION or an accepted deviation; accepted: some assessment of the
\* case carries an accepted deviation.
Market == [tier : [Suppliers -> Tiers], qualified : SUBSET Suppliers,
           deviating : SUBSET Suppliers, accepted : BOOLEAN]

Steps == 1..5

Order == [vendor : Suppliers, chain : SUBSET Steps, satisfied : BOOLEAN,
          status : {"RECOMMENDED", "RELEASED"}]

TypeOK ==
  /\ case \in Case
  /\ signatures \in Seq(Signature)
  /\ market \in Market
  /\ awards \in SUBSET Suppliers
  /\ orders \in Seq(Order)
  /\ released \in BOOLEAN

Init ==
  /\ case = NewCase
  /\ signatures = <<>>
  /\ market \in [tier : [Suppliers -> Tiers], qualified : {{}},
                 deviating : {{}}, accepted : {FALSE}]
  /\ awards = {}
  /\ orders = <<>>
  /\ released = FALSE

-----------------------------------------------------------------------------
(* The chain *)

\* The approval type a step of the chain asks for.
TypeOfStep == <<"AWARD", "AWARD", "AWARD", "SINGLE_SOURCE", "DEVIATION">>

\* The roles eligible for it; each step needs one approver.
Eligible == <<{"CATEGORY_MANAGER", "PROCUREMENT_HEAD", "EXECUTIVE"},
              {"PROCUREMENT_HEAD", "FINANCE"},
              {"EXECUTIVE"},
              {"PROCUREMENT_HEAD", "CATEGORY_MANAGER"},
              {"ENGINEER", "QUALITY"}>>

\* approval_chain_for_award
Chain(tier, singleSource, deviations) ==
  {k \in Steps : /\ k = 2 => tier >= 1
                 /\ k = 3 => tier = 2
                 /\ k = 4 => singleSource
                 /\ k = 5 => deviations}

\* The signatures a step can be met by.
Matches(k, s) ==
  {i \in DOMAIN s : /\ s[i].type = TypeOfStep[k]
                    /\ RolesOf[s[i].by] \cap Eligible[k] # {}}

\* Faulty variant: a signature can be counted for several steps.
TakenUnconsumed(f, chain, s) ==
  \A k \in chain :
    /\ f[k] \in Matches(k, s)
    /\ \A i \in Matches(k, s) : f[k] <= i

\* The loop of award_chain_satisfied: each step, in order, takes the oldest
\* signature that meets it and that no earlier step took.
TakenInOrder(f, chain, s) ==
  \A k \in chain :
    LET free == Matches(k, s) \ {f[j] : j \in {j \in chain : j < k}}
    IN  f[k] \in free /\ \A i \in free : f[k] <= i

\* Faulty variant: a signature that is left over counts against the chain.
SatisfiedExactly(chain, s) ==
  \E f \in [chain -> DOMAIN s] :
    /\ TakenInOrder(f, chain, s)
    /\ Range(f) = DOMAIN s

\* award_chain_satisfied
Satisfied(chain, s) ==
  \E f \in [chain -> DOMAIN s] : TakenInOrder(f, chain, s)

IsSingleSource == Cardinality(market.qualified) < MinSuppliers

\* The chain as approve_award computes it: a deviation accepted for anybody
\* counts.
ChainOfAward(v) == Chain(market.tier[v], IsSingleSource, market.accepted)

\* The chain as recommend computes it: the deviations are those of the
\* supplier's quotation, accepted or not.
ChainOfOrder(v) ==
  Chain(market.tier[v], IsSingleSource, v \in market.deviating)

-----------------------------------------------------------------------------
(* Signing *)

Sign(p, type, v) ==
  /\ Len(signatures) < MaxSignatures
  /\ signatures' = Append(signatures, [type |-> type, by |-> p, for |-> v])

\* Permission.AWARD_APPROVE and Permission.DEVIATION_APPROVE, by role.
MayAward(p) ==
  RolesOf[p] \cap {"CATEGORY_MANAGER", "PROCUREMENT_HEAD", "EXECUTIVE"} # {}

MayAcceptDeviation(p) == RolesOf[p] \cap {"ENGINEER", "QUALITY"} # {}

\* Faulty variant: an award that cannot be recorded keeps the case's old one
\* but is signalled to the workflow all the same.
SignAwardAnyState(p, v) ==
  /\ MayAward(p)
  /\ Sign(p, "AWARD", v)
  /\ IF Satisfied(ChainOfAward(v), signatures')
     THEN /\ case' = IF MayRecordAward(case, v) THEN RecordAward(case, v)
                                                ELSE case
          /\ awards' = awards \cup {v}
     ELSE UNCHANGED <<case, awards>>
  /\ UNCHANGED <<market, orders, released>>

\* approve_award, positive decision, in any state of the case; a complete
\* chain that cannot be recorded raises and takes the signature back.
SignAward(p, v) ==
  /\ MayAward(p)
  /\ Sign(p, "AWARD", v)
  /\ IF Satisfied(ChainOfAward(v), signatures')
     THEN /\ MayRecordAward(case, v)
          /\ case' = RecordAward(case, v)
          /\ awards' = awards \cup {v}
     ELSE UNCHANGED <<case, awards>>
  /\ UNCHANGED <<market, orders, released>>

\* approve_deviation, on an assessment of the present quotation or of an
\* earlier one.
AcceptDeviation(p) ==
  /\ MayAcceptDeviation(p)
  /\ Sign(p, "DEVIATION", NoSupplier)
  /\ \E v \in Suppliers :
       \/ market' = [market EXCEPT !.accepted = TRUE]
       \/ market' = [market EXCEPT !.accepted = TRUE,
                                   !.deviating = @ \cup {v}]
  /\ UNCHANGED <<case, awards, orders, released>>

\* _record_approval of the scenario runner: no route records this type.
SignSingleSource(p) ==
  /\ ScenarioRunner
  /\ RolesOf[p] \cap Eligible[4] # {}
  /\ Sign(p, "SINGLE_SOURCE", NoSupplier)
  /\ UNCHANGED <<case, market, awards, orders, released>>

-----------------------------------------------------------------------------
(* The order *)

\* recommend, on the ranking po_recommendation_activity has just renewed.
RecommendPo(v) ==
  /\ case.unlocked
  /\ v \in awards \cap market.qualified
  /\ Len(orders) < MaxOrders
  /\ orders' = Append(orders, [vendor |-> v, chain |-> ChainOfOrder(v),
                               satisfied |-> Satisfied(ChainOfOrder(v),
                                                       signatures),
                               status |-> "RECOMMENDED"])
  /\ IF case.state = "WAITING_FOR_AWARD_APPROVAL"
     THEN /\ MayTransition(case, "PO_RECOMMENDATION")
          /\ case' = Transition(case, "PO_RECOMMENDATION")
     ELSE UNCHANGED case
  /\ UNCHANGED <<signatures, market, awards, released>>

\* release_po
ReleasePo ==
  /\ orders # <<>>
  /\ Last(orders).satisfied
  /\ released' = TRUE
  /\ orders' = [orders EXCEPT ![Len(orders)].status = "RELEASED"]
  /\ case' = IF case.state = "PO_RECOMMENDATION"
             THEN Transition(case, "ORDER_PLACED")
             ELSE case
  /\ UNCHANGED <<signatures, market, awards>>

-----------------------------------------------------------------------------
(* The rest of the system *)

\* A new ranking or a new comparison, at the latest when the envelopes are
\* open: prices, qualifications and deviations change with what is quoted.
Reevaluate ==
  /\ case.unlocked
  /\ market' \in {m \in Market : m.accepted = market.accepted}
  /\ UNCHANGED <<case, signatures, awards, orders, released>>

\* The technical approval, with the unlock it brings.
UnlockCase ==
  /\ MayUnlockCommercial(case)
  /\ case' = ApplyTechnicalApproval(case)
  /\ UNCHANGED <<signatures, market, awards, orders, released>>

\* The driven transitions no action above makes.
MoveCase ==
  \E s \in {"VALIDATING_PR", "SOURCING_STRATEGY", "READY_FOR_RFQ",
            "WAITING_FOR_QUOTES", "TECHNICAL_EVALUATION",
            "WAITING_FOR_TECHNICAL_APPROVAL", "WAITING_FOR_AWARD_APPROVAL"}
           \cup TerminalStates :
    /\ <<case.state, s>> \in DrivenTransitions
    /\ case' = Transition(case, s)
    /\ UNCHANGED <<signatures, market, awards, orders, released>>

Next ==
  \/ \E p \in People, v \in Suppliers : SignAward(p, v)
  \/ \E p \in People : AcceptDeviation(p)
  \/ \E p \in People : SignSingleSource(p)
  \/ \E v \in Suppliers : RecommendPo(v)
  \/ ReleasePo
  \/ Reevaluate
  \/ UnlockCase
  \/ MoveCase

Spec == Init /\ [][Next]_vars

-----------------------------------------------------------------------------
(* Properties *)

\* Distinct signatures meet every step of the chain.
Covered(chain, s) ==
  \E f \in [chain -> DOMAIN s] :
    \A k \in chain : /\ f[k] \in Matches(k, s)
                     /\ \A j \in chain \ {k} : f[j] # f[k]

\* An order leaves only if, for the value, the competition and the deviations
\* it was drafted with, one signature of its own stands behind every step of
\* its chain, whatever the award was signed under and whatever was ranked,
\* judged or signed since.
ReleasedOrderIsCovered ==
  \A i \in DOMAIN orders :
    orders[i].status = "RELEASED" => Covered(orders[i].chain, signatures)

\* A further signature never undoes a chain that was complete.
SignaturesAreNotUndone ==
  [][\A v \in Suppliers :
       /\ market' = market
       /\ Satisfied(ChainOfAward(v), signatures)
       => Satisfied(ChainOfAward(v), signatures')]_vars

\* AwardDesk, with what it keeps of the signatures and of the orders.
Desk == INSTANCE AwardDesk WITH
  rounds <- <<>>,
  approvals <- [negotiation |-> {},
                award |-> {signatures[i].for :
                             i \in {i \in DOMAIN signatures :
                                      signatures[i].type = "AWARD"}},
                release |-> released],
  orders <- [i \in DOMAIN orders |->
               [vendor |-> orders[i].vendor, satisfied |-> orders[i].satisfied,
                status |-> orders[i].status]]

\* Collecting the signatures as the policy does is a way of doing what
\* AwardDesk promises: every step here is one of its steps.
ImplementsDesk == Desk!Spec

-----------------------------------------------------------------------------
(* What the documents and comments say and the code does not keep: each of   *)
(* these fails.                                                              *)

\* A chain is complete as soon as distinct eligible people's signatures meet
\* its steps, in whatever order they signed.
CoveredMeansSatisfied ==
  \A v \in Suppliers :
    Covered(ChainOfAward(v), signatures)
      => Satisfied(ChainOfAward(v), signatures)

\* Above the dual-approval threshold a second person approved: the complete
\* chain of an order that has the second step was signed by two people.
SecondApprover ==
  \A o \in {orders[i] : i \in DOMAIN orders} :
    o.satisfied /\ 2 \in o.chain =>
      \E i, j \in DOMAIN signatures :
        /\ signatures[i].type = "AWARD" /\ signatures[j].type = "AWARD"
        /\ signatures[i].by # signatures[j].by

\* At the award gate every step of the chain of a ranked bid can be signed by
\* somebody.
EveryStepHasASigner ==
  case.state = "WAITING_FOR_AWARD_APPROVAL" =>
    \A v \in market.qualified : \A k \in ChainOfAward(v) :
      \E p \in People :
        /\ RolesOf[p] \cap Eligible[k] # {}
        /\ TypeOfStep[k] = "AWARD" => MayAward(p)
        /\ TypeOfStep[k] = "DEVIATION" => MayAcceptDeviation(p)
        /\ TypeOfStep[k] = "SINGLE_SOURCE" => ScenarioRunner

\* What completes the award of a supplier completes the order drafted for it,
\* unless prices or qualifications changed in between.
OrderFollowsAward ==
  [][\A v \in Suppliers :
       /\ Len(orders') > Len(orders)
       /\ Last(orders').vendor = v
       /\ Satisfied(ChainOfAward(v), signatures)
       => Last(orders').satisfied]_vars
=============================================================================
