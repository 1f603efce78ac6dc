---------------------------- MODULE MCToolEffects ----------------------------
(* Small instances of ToolEffects.                                         *)
EXTENDS ToolEffects, TLC

CONSTANTS p1, p2, p3, e1, e2, e3

MCPid == {p1, p2}
MCPids == {p1, p2, p3}
MCEffect == {e1, e2, e3}

ToolCall(owner, key, task, run, kind, provider) ==
  [owner |-> owner, key |-> key, task |-> task, run |-> run, kind |-> kind,
   provider |-> provider]

\* Two Task Runs of one Task send the same external mutation under one key;
\* the first Run also writes locally without a key; an ad hoc turn sends an
\* external mutation without a key, such as the inverse of another.
MCCall == {ToolCall("alice", "k", "t", "r1", "external", "mail"),
           ToolCall("alice", "k", "t", "r2", "external", "mail"),
           ToolCall("alice", None, "t", "r1", "local", "file"),
           ToolCall("alice", None, None, None, "external", "mail")}


Symmetry == Permutations(MCEffect) \cup Permutations(MCPids)
=============================================================================
