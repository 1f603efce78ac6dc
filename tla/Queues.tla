------------------------------- MODULE Queues -------------------------------
(* The entries of a queue that stay when others are taken out of it,       *)
(* wherever they are: splice() and filter() of the code.  SelectSeq is the *)
(* same for a test; this one is written so that it can be reasoned about.  *)
EXTENDS Naturals, Sequences

\* The entries of s that are in S, in their order.
Staying(s, S) ==
  LET kept[i \in 0 .. Len(s)] ==
        IF i = 0 THEN <<>>
        ELSE IF s[i] \in S THEN Append(kept[i - 1], s[i]) ELSE kept[i - 1]
  IN kept[Len(s)]
=============================================================================
