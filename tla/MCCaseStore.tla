----------------------------- MODULE MCCaseStore -----------------------------
(* An instance of CaseStore for TLC. *)
EXTENDS CaseStore

CONSTANTS q, a, t

\* A person approves (a transition); an activity moves the case and opens a
\* negotiation round; a retried call counts a reminder.
MCPlan ==
  [c \in {q, a, t} |-> IF c = q THEN <<TRUE>>
                       ELSE IF c = a THEN <<TRUE, FALSE>> ELSE <<FALSE>>]
=============================================================================
