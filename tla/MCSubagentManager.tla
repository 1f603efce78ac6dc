-------------------------- MODULE MCSubagentManager --------------------------
(* Two conversations: "a" has three items that come back for ever, "b" two  *)
(* delegations, of which one may be open at a time.                         *)
EXTENDS SubagentManager

MCOwner == {"a", "b"}
MCWork == {"a1", "a2", "a3", "b1", "b2"}
MCOwnerOf == [w \in MCWork |-> IF w \in {"a1", "a2", "a3"} THEN "a" ELSE "b"]
MCDelegation == {"b1", "b2"}

\* The delegations are interchangeable, and each is spawned once: the first of
\* them comes first.
FirstDelegation == task["b1"].status = "none" => task'["b2"].status = "none"
=============================================================================
