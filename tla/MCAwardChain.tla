----------------------------- MODULE MCAwardChain -----------------------------
(* AwardChain with one person per role that counts. *)
EXTENDS AwardChain

CONSTANTS cat, head, exec, eng

MCRolesOf == [p \in People |-> CASE p = cat  -> {"CATEGORY_MANAGER"}
                                 [] p = head -> {"PROCUREMENT_HEAD"}
                                 [] p = exec -> {"EXECUTIVE"}
                                 [] p = eng  -> {"ENGINEER"}]
=============================================================================
