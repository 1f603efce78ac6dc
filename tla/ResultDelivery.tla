---------------------------- MODULE ResultDelivery ----------------------------
(***************************************************************************)
(* What the Completion Outbox promises of one Objective, whatever turns,    *)
(* processes and channels do: at most one result is ever offered to the     *)
(* user, every message carries that result, and the Objective succeeds      *)
(* only after such a message; success and cancellation are final.           *)
(***************************************************************************)
EXTENDS Naturals, Sequences

CONSTANTS Result, None

VARIABLES
  offered,   \* the result queued for the user, or None
  messages,  \* what the channel accepted, in order
  outcome    \* of the Objective

vars == <<offered, messages, outcome>>

Init == offered = None /\ messages = <<>> /\ outcome = "open"

Offer(x) ==
  /\ offered = None /\ outcome # "cancelled"
  /\ offered' = x /\ outcome' = "open"
  /\ UNCHANGED messages

Send ==
  /\ offered # None
  /\ messages' = Append(messages, offered)
  /\ UNCHANGED <<offered, outcome>>

Succeed ==
  /\ outcome = "open" /\ messages # <<>>
  /\ outcome' = "succeeded"
  /\ UNCHANGED <<offered, messages>>

End(ending) ==
  /\ outcome \in {"open", "failed"}
  /\ outcome' = ending
  /\ UNCHANGED <<offered, messages>>

Next ==
  \/ \E x \in Result : Offer(x)
  \/ Send
  \/ Succeed
  \/ \E ending \in {"open", "failed", "cancelled"} : End(ending)

Spec == Init /\ [][Next]_vars
=============================================================================
