----------------------------- MODULE AtomicCase -----------------------------
(***************************************************************************)
(* What the case repository promises those who call it: the case is the    *)
(* outcome of whole calls, one after the other, each made to the case its  *)
(* predecessors left, and whoever was told that a call is done finds it    *)
(* there.  How the sessions behind it achieve that is in CaseStore.        *)
(***************************************************************************)
EXTENDS Sequences, Naturals

CONSTANTS Callers,  \* those who change the case
          Plan      \* the changes each makes, in order: is it a transition?

VARIABLES log,      \* the changes made to the case, in their order
          answered  \* callers that were told their call is done

MadeIn(l) == {l[i] : i \in DOMAIN l}

\* A transition is made from the state the caller knows, so only once; any
\* other change is made whenever the call is.
Wanted(c, l) ==
  {ch \in {c} \X DOMAIN Plan[c] : ~Plan[c][ch[2]] \/ ch \notin MadeIn(l)}

\* m is l with the changes in S added, each once, in the order of the plan.
Adds(S, l, m) ==
  LET added == (Len(l) + 1)..Len(m)
  IN /\ Len(l) <= Len(m)
     /\ \A i \in 1..Len(l) : m[i] = l[i]
     /\ S = {m[i] : i \in added}
     /\ \A i, j \in added : i < j => m[i][2] < m[j][2]

Init == log = <<>> /\ answered = {}

Apply(c) ==
  /\ Adds(Wanted(c, log), log, log')
  /\ answered' \in {answered, answered \cup {c}}

Next == \E c \in Callers : Apply(c)

Spec == Init /\ [][Next]_<<log, answered>>
=============================================================================
