---------------------------- MODULE SourcingCase ----------------------------
(***************************************************************************)
(* The sourcing case: the durable file every service of the system reads,  *)
(* moves along and saves (domain/entities.py, domain/policies.py).         *)
(*                                                                         *)
(* The module has no variable.  A case is a record, and each method of the *)
(* entity is a pair of operators: the guard under which the method returns *)
(* rather than raises, and the record it leaves behind.  The services'     *)
(* modules hold the record in a variable of theirs.                        *)
(*                                                                         *)
(* Left out of the record: the history, the timestamps and the version     *)
(* number (the database runs every session at SERIALIZABLE, so a session   *)
(* is one atomic step and never meets a newer version), the monetary       *)
(* totals, and the actor, which every route that calls a gate takes from   *)
(* principal.require_human.                                                *)
(***************************************************************************)
EXTENDS Naturals, FiniteSets

CONSTANTS Suppliers,     \* vendors of the tenant
          NoSupplier,    \* awarded_supplier_id = "", award_approved_at = None
          MaxRounds      \* ProcurementPolicy.max_negotiation_rounds

ASSUME CaseAssumption ==
  /\ NoSupplier \notin Suppliers
  /\ MaxRounds \in Nat

CaseStates ==
  {"RECEIVED", "VALIDATING_PR", "WAITING_FOR_ENGINEERING",
   "SOURCING_STRATEGY", "READY_FOR_RFQ", "WAITING_FOR_QUOTES",
   "TECHNICAL_EVALUATION", "WAITING_FOR_TECHNICAL_APPROVAL",
   "COMMERCIAL_EVALUATION", "NEGOTIATION", "WAITING_FOR_AWARD_APPROVAL",
   "PO_RECOMMENDATION", "ORDER_PLACED", "EXPEDITING",
   "COMPLETED", "CANCELLED", "FAILED"}

TerminalStates == {"COMPLETED", "CANCELLED", "FAILED"}

Abandoned == {"CANCELLED", "FAILED"}

\* The state graph of the entity, one product per row of the table.
LegalTransitions ==
  UNION {{"RECEIVED"} \X ({"VALIDATING_PR"} \cup Abandoned),
         {"VALIDATING_PR"} \X
           ({"WAITING_FOR_ENGINEERING", "SOURCING_STRATEGY"} \cup Abandoned),
         {"WAITING_FOR_ENGINEERING"} \X
           ({"VALIDATING_PR", "SOURCING_STRATEGY"} \cup Abandoned),
         {"SOURCING_STRATEGY"} \X
           ({"READY_FOR_RFQ", "WAITING_FOR_ENGINEERING"} \cup Abandoned),
         {"READY_FOR_RFQ"} \X
           ({"WAITING_FOR_QUOTES", "SOURCING_STRATEGY"} \cup Abandoned),
         {"WAITING_FOR_QUOTES"} \X
           ({"TECHNICAL_EVALUATION", "READY_FOR_RFQ"} \cup Abandoned),
         {"TECHNICAL_EVALUATION"} \X
           ({"WAITING_FOR_TECHNICAL_APPROVAL", "WAITING_FOR_QUOTES"}
              \cup Abandoned),
         {"WAITING_FOR_TECHNICAL_APPROVAL"} \X
           ({"COMMERCIAL_EVALUATION", "TECHNICAL_EVALUATION", "READY_FOR_RFQ"}
              \cup Abandoned),
         {"COMMERCIAL_EVALUATION"} \X
           ({"NEGOTIATION", "WAITING_FOR_AWARD_APPROVAL"} \cup Abandoned),
         {"NEGOTIATION"} \X
           ({"NEGOTIATION", "COMMERCIAL_EVALUATION",
             "WAITING_FOR_AWARD_APPROVAL"} \cup Abandoned),
         {"WAITING_FOR_AWARD_APPROVAL"} \X
           ({"PO_RECOMMENDATION", "NEGOTIATION", "COMMERCIAL_EVALUATION"}
              \cup Abandoned),
         {"PO_RECOMMENDATION"} \X
           ({"ORDER_PLACED", "WAITING_FOR_AWARD_APPROVAL"} \cup Abandoned),
         {"ORDER_PLACED"} \X {"EXPEDITING", "COMPLETED", "CANCELLED"},
         {"EXPEDITING"} \X {"EXPEDITING", "COMPLETED", "CANCELLED"},
         {"FAILED"} \X {"VALIDATING_PR", "CANCELLED"}}

Case == [state    : CaseStates,
         unlocked : BOOLEAN,                       \* commercial_unlocked
         awardee  : Suppliers \cup {NoSupplier},   \* awarded_supplier_id
         round    : 0..MaxRounds]                  \* negotiation_round

NewCase == [state |-> "RECEIVED", unlocked |-> FALSE,
            awardee |-> NoSupplier, round |-> 0]

-----------------------------------------------------------------------------
(* SourcingCase: transitions *)

CanTransition(c, s) == <<c.state, s>> \in LegalTransitions

\* Re-entering the present state returns before any check.
StaysPut(c, s) == s = c.state /\ s \notin {"NEGOTIATION", "EXPEDITING"}

\* When transition(s) returns instead of raising.
MayTransition(c, s) ==
  \/ StaysPut(c, s)
  \/ /\ CanTransition(c, s)
     /\ s = "COMMERCIAL_EVALUATION" => c.unlocked
     /\ s = "PO_RECOMMENDATION" => c.awardee # NoSupplier

Transition(c, s) == [c EXCEPT !.state = s]

-----------------------------------------------------------------------------
(* SourcingCase: the gates only a person passes *)

MayUnlockCommercial(c) == c.state = "WAITING_FOR_TECHNICAL_APPROVAL"

UnlockCommercial(c) == [c EXCEPT !.unlocked = TRUE]

\* Faulty variant: an award can still be recorded once the order is drafted.
MayRecordAwardLate(c, v) ==
  /\ c.state \in {"WAITING_FOR_AWARD_APPROVAL", "PO_RECOMMENDATION"}
  /\ v \in Suppliers

MayRecordAward(c, v) ==
  /\ c.state = "WAITING_FOR_AWARD_APPROVAL"
  /\ v \in Suppliers

RecordAward(c, v) == [c EXCEPT !.awardee = v]

MayOpenRound(c) ==
  /\ c.state \in {"COMMERCIAL_EVALUATION", "NEGOTIATION"}
  /\ c.unlocked
  /\ c.round < MaxRounds

OpenRound(c) == [c EXCEPT !.round = c.round + 1]

-----------------------------------------------------------------------------
(* ProcurementPolicy: the gates that consult the case *)

\* Faulty variant: the upper limit on invitations is left out.
MayIssueRfqToAnyNumber(c, selected, maxSuppliers) ==
  /\ c.state = "READY_FOR_RFQ"
  /\ selected # {}

MayIssueRfq(c, selected, maxSuppliers) ==
  /\ c.state = "READY_FOR_RFQ"
  /\ Cardinality(selected) \in 1..maxSuppliers

MayOpenTechnicalEvaluation(c, received, quorum, deadlinePassed) ==
  /\ c.state = "WAITING_FOR_QUOTES"
  /\ received > 0
  /\ received < quorum => deadlinePassed

\* Faulty variant: the case moves on and stays locked.
MoveOnLocked(c) == Transition(c, "COMMERCIAL_EVALUATION")

\* apply_technical_approval: unlock, then move on, in one session.
ApplyTechnicalApproval(c) ==
  Transition(UnlockCommercial(c), "COMMERCIAL_EVALUATION")

\* may_open_negotiation asks what open_negotiation_round asks again.
MayOpenNegotiation(c) == MayOpenRound(c)

-----------------------------------------------------------------------------
(* What the rest of the system does to a case, for the modules that follow *)
(* one service closely and the others only through the case they share.    *)

\* The transitions some service of the code base asks for.  The table above
\* allows more: nothing sends a case to engineering, to expediting or back.
DrivenTransitions ==
  {<<"RECEIVED", "VALIDATING_PR">>,
   <<"VALIDATING_PR", "SOURCING_STRATEGY">>,
   <<"SOURCING_STRATEGY", "READY_FOR_RFQ">>,
   <<"READY_FOR_RFQ", "WAITING_FOR_QUOTES">>,
   <<"WAITING_FOR_QUOTES", "TECHNICAL_EVALUATION">>,
   <<"TECHNICAL_EVALUATION", "WAITING_FOR_TECHNICAL_APPROVAL">>,
   <<"WAITING_FOR_TECHNICAL_APPROVAL", "COMMERCIAL_EVALUATION">>,
   <<"COMMERCIAL_EVALUATION", "NEGOTIATION">>,
   <<"COMMERCIAL_EVALUATION", "WAITING_FOR_AWARD_APPROVAL">>,
   <<"NEGOTIATION", "WAITING_FOR_AWARD_APPROVAL">>,
   <<"WAITING_FOR_AWARD_APPROVAL", "PO_RECOMMENDATION">>,
   <<"PO_RECOMMENDATION", "ORDER_PLACED">>,
   <<"ORDER_PLACED", "COMPLETED">>}
  \cup {e \in LegalTransitions : e[2] \in Abandoned}

\* States a case can only be in once its commercial envelopes were opened.
CommercialStates ==
  {"COMMERCIAL_EVALUATION", "NEGOTIATION", "WAITING_FOR_AWARD_APPROVAL",
   "PO_RECOMMENDATION", "ORDER_PLACED", "EXPEDITING", "COMPLETED"}

\* States a case can only be in once an award was recorded.
OrderStates == {"PO_RECOMMENDATION", "ORDER_PLACED", "EXPEDITING", "COMPLETED"}
=============================================================================
