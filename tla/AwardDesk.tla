------------------------------ MODULE AwardDesk ------------------------------
(***************************************************************************)
(* From the opened bids to the order: negotiation rounds, the award gate,  *)
(* purchase-order recommendations and their release                        *)
(* (application/negotiation.py, po_recommendation.py, the negotiation,     *)
(* award and release routes and the activities that call them).            *)
(*                                                                         *)
(* Approvals are rows that are only ever added, and every question asked   *)
(* of them is whether a positive one exists: the module keeps what the     *)
(* positive ones name.  Which signatures complete an award chain is the    *)
(* subject of AwardChain; here a chain is complete or not, and is never    *)
(* complete without an AWARD signature.                                    *)
(***************************************************************************)
EXTENDS SourcingCase, Sequences, SequencesExt

CONSTANT MaxOrders   \* bound: recommendations drafted for the case

ASSUME OrderAssumption == MaxOrders \in Nat

VARIABLES case,       \* the sourcing case
          rounds,     \* negotiation rounds, in the order they were planned
          approvals,  \* what the positive approvals of the case name
          awards,     \* suppliers the case was ever awarded to
          orders      \* PO recommendations, in the order they were created

vars == <<case, rounds, approvals, awards, orders>>

RoundNumbers == 1..MaxRounds

\* sentUnder is the round_row.approval_id, as the round that approval names;
\* 0 until the round is sent.
Round == [status    : {"PENDING_APPROVAL", "SENT", "CLOSED"},
          sentUnder : 0..MaxRounds]

Order == [vendor    : Suppliers,
          satisfied : BOOLEAN,      \* approval_chain_satisfied, as drafted
          status    : {"RECOMMENDED", "RELEASED"}]

TypeOK ==
  /\ case \in Case
  /\ rounds \in Seq(Round)
  /\ approvals \in [negotiation : SUBSET RoundNumbers,
                    award       : SUBSET Suppliers,
                    release     : BOOLEAN]
  /\ awards \in SUBSET Suppliers
  /\ orders \in Seq(Order)

Init ==
  /\ case = NewCase
  /\ rounds = <<>>
  /\ approvals = [negotiation |-> {}, award |-> {}, release |-> FALSE]
  /\ awards = {}
  /\ orders = <<>>

-----------------------------------------------------------------------------
(* Negotiation *)

\* negotiation_recommendation_activity and plan_round, when the new ranking
\* has a qualified bid.
PlanRound ==
  /\ MayOpenNegotiation(case)
  /\ case' = OpenRound(Transition(case, "NEGOTIATION"))
  /\ rounds' = Append(rounds, [status |-> "PENDING_APPROVAL", sentUnder |-> 0])
  /\ UNCHANGED <<approvals, awards, orders>>

\* approve_negotiation: the approval names the highest round, whatever the
\* state of that round or of the case.
ApproveNegotiation ==
  /\ rounds # <<>>
  /\ approvals' = [approvals EXCEPT !.negotiation = @ \cup {Len(rounds)}]
  /\ UNCHANGED <<case, rounds, awards, orders>>

\* Faulty variant: the round goes out without asking for an approval.
SendRoundUnasked(n, a) ==
  /\ n \in DOMAIN rounds
  /\ \E transmitted \in BOOLEAN :
       rounds' = [rounds EXCEPT
         ![n] = [status |-> IF transmitted THEN "SENT" ELSE "PENDING_APPROVAL",
                 sentUnder |-> a]]
  /\ UNCHANGED <<case, approvals, awards, orders>>

\* send_round: any positive NEGOTIATION_SEND approval of the case will do.
\* The round stays pending when the mailroom holds every letter.
SendRound(n, a) ==
  /\ n \in DOMAIN rounds
  /\ a \in approvals.negotiation
  /\ \E transmitted \in BOOLEAN :
       rounds' = [rounds EXCEPT
         ![n] = [status |-> IF transmitted THEN "SENT" ELSE "PENDING_APPROVAL",
                 sentUnder |-> a]]
  /\ UNCHANGED <<case, approvals, awards, orders>>

\* close_negotiation_round_activity: opens the award gate.
CloseRound(n) ==
  /\ n \in DOMAIN rounds
  /\ rounds' = [rounds EXCEPT ![n].status = "CLOSED"]
  /\ case' = IF case.state = "NEGOTIATION"
             THEN Transition(case, "WAITING_FOR_AWARD_APPROVAL")
             ELSE case
  /\ UNCHANGED <<approvals, awards, orders>>

-----------------------------------------------------------------------------
(* Award *)

\* drive_case of the scenario runner: the only caller that opens the award
\* gate of a case whose negotiation was skipped.
OpenAwardGate ==
  /\ case.state \in {"NEGOTIATION", "COMMERCIAL_EVALUATION"}
  /\ case' = Transition(case, "WAITING_FOR_AWARD_APPROVAL")
  /\ UNCHANGED <<rounds, approvals, awards, orders>>

\* Faulty variant: the award is recorded and the signature is not.
ApproveAwardUnsigned(v) ==
  /\ approvals' = approvals
  /\ \/ UNCHANGED <<case, awards>>
     \/ /\ MayRecordAward(case, v)
        /\ case' = RecordAward(case, v)
        /\ awards' = awards \cup {v}
  /\ UNCHANGED <<rounds, orders>>

\* approve_award, positive decision.  The signature is stored in any state of
\* the case; if it completes the chain the award is recorded with it, and a
\* refusal to record it rolls the signature back.
ApproveAward(v) ==
  /\ approvals' = [approvals EXCEPT !.award = @ \cup {v}]
  /\ \/ UNCHANGED <<case, awards>>
     \/ /\ MayRecordAward(case, v)
        /\ case' = RecordAward(case, v)
        /\ awards' = awards \cup {v}
  /\ UNCHANGED <<rounds, orders>>

-----------------------------------------------------------------------------
(* Purchase order *)

\* po_recommendation_activity: the supplier is the one named by the award
\* signal the workflow last took, which some recorded award named, and is
\* among the bids of the new ranking.  Nothing asks whether the case has a
\* recommendation.
RecommendPo(v) ==
  /\ case.unlocked
  /\ v \in awards
  /\ Len(orders) < MaxOrders
  /\ \E satisfied \in BOOLEAN :
       /\ satisfied => approvals.award # {}
       /\ orders' = Append(orders, [vendor |-> v, satisfied |-> satisfied,
                                    status |-> "RECOMMENDED"])
  /\ IF case.state = "WAITING_FOR_AWARD_APPROVAL"
     THEN /\ MayTransition(case, "PO_RECOMMENDATION")
          /\ case' = Transition(case, "PO_RECOMMENDATION")
     ELSE UNCHANGED case
  /\ UNCHANGED <<rounds, approvals, awards>>

\* Faulty variant: the case is moved on before the refusal of the release.
ReleasePoUnchecked ==
  /\ orders # <<>>
  /\ approvals' = [approvals EXCEPT !.release = TRUE]
  /\ orders' = IF Last(orders).satisfied
               THEN [orders EXCEPT ![Len(orders)].status = "RELEASED"]
               ELSE orders
  /\ case' = IF case.state = "PO_RECOMMENDATION"
             THEN Transition(case, "ORDER_PLACED")
             ELSE case
  /\ UNCHANGED <<rounds, awards>>

\* release_po: the newest recommendation, in any state of the case and
\* whether or not it was released before.
ReleasePo ==
  /\ orders # <<>>
  /\ Last(orders).satisfied
  /\ approvals' = [approvals EXCEPT !.release = TRUE]
  /\ orders' = [orders EXCEPT ![Len(orders)].status = "RELEASED"]
  /\ case' = IF case.state = "PO_RECOMMENDATION"
             THEN Transition(case, "ORDER_PLACED")
             ELSE case
  /\ UNCHANGED <<rounds, awards>>

-----------------------------------------------------------------------------
(* The rest of the system, through the case *)

\* The technical approval, with the unlock it brings.
UnlockCase ==
  /\ MayUnlockCommercial(case)
  /\ case' = ApplyTechnicalApproval(case)
  /\ UNCHANGED <<rounds, approvals, awards, orders>>

\* The driven transitions no action above makes.
MoveCase ==
  \E s \in {"VALIDATING_PR", "SOURCING_STRATEGY", "READY_FOR_RFQ",
            "WAITING_FOR_QUOTES", "TECHNICAL_EVALUATION",
            "WAITING_FOR_TECHNICAL_APPROVAL"} \cup TerminalStates :
    /\ <<case.state, s>> \in DrivenTransitions
    /\ case' = Transition(case, s)
    /\ UNCHANGED <<rounds, approvals, awards, orders>>

Next ==
  \/ PlanRound
  \/ ApproveNegotiation
  \/ \E n, a \in RoundNumbers : SendRound(n, a)
  \/ \E n \in RoundNumbers : CloseRound(n)
  \/ OpenAwardGate
  \/ \E v \in Suppliers : ApproveAward(v)
  \/ \E v \in Suppliers : RecommendPo(v)
  \/ ReleasePo
  \/ UnlockCase
  \/ MoveCase

Spec == Init /\ [][Next]_vars

-----------------------------------------------------------------------------
(* Properties *)

\* An order exists and a case is ordered, expedited or completed only for an
\* award somebody signed: the supplier the case is awarded to is named by a
\* positive AWARD approval, and no path reaches the order states before.
OrderedOnlyWhenAwarded ==
  /\ case.awardee # NoSupplier => case.awardee \in approvals.award
  /\ case.state \in OrderStates => case.awardee # NoSupplier
  /\ orders # <<>> => case.awardee # NoSupplier

\* A case counts as ordered or completed only if a person released a
\* recommendation whose approval chain was complete.
PlacedOrderIsReleased ==
  case.state \in {"ORDER_PLACED", "EXPEDITING", "COMPLETED"} =>
    /\ approvals.release
    /\ \E i \in DOMAIN orders :
         orders[i].status = "RELEASED" /\ orders[i].satisfied

\* No price ask is on its way without a person's approval of some round that
\* had been planned, and the case's round counter never runs apart from the
\* rounds drafted for it: each stays within the policy's limit.
RoundsAreAuthorised ==
  /\ Len(rounds) = case.round
  /\ \A n \in DOMAIN rounds :
       rounds[n].status = "SENT" =>
         rounds[n].sentUnder \in approvals.negotiation \cap DOMAIN rounds

\* Once recommended, the order stays with the supplier it was awarded to: the
\* award of a case never changes after a recommendation moved it on.
AwardIsSettled ==
  [][case.state \in OrderStates => case'.awardee = case.awardee]_vars

-----------------------------------------------------------------------------
(* What the documents and comments say and the code does not keep: each of   *)
(* these fails.                                                              *)

\* A round is transmitted under an approval given for that round.
RoundSentUnderItsOwnApproval ==
  \A n \in DOMAIN rounds :
    rounds[n].status = "SENT" => rounds[n].sentUnder = n

\* A recommendation is drafted at the award gate and nowhere else, as the
\* policy may_recommend_po asks; no service calls that policy.
RecommendedOnlyAtTheGate ==
  [][Len(orders') > Len(orders) =>
       case.state = "WAITING_FOR_AWARD_APPROVAL"]_vars

\* The order goes to the supplier the case is awarded to.
OrderGoesToTheAwardee ==
  case.state = "ORDER_PLACED" =>
    \A i \in DOMAIN orders :
      orders[i].status = "RELEASED" => orders[i].vendor = case.awardee
=============================================================================
