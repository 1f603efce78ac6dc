----------------------- MODULE MCConversationInput -----------------------
(* Small instances of ConversationInput.                                   *)
EXTENDS ConversationInput

CONSTANTS m1, m2, m3

ThreeMessages == {m1, m2, m3}
OneLeft == {m3}

\* Messages differ by their names only, so m1 may as well be the first to come.
FirstMessage == actor[m1].pc = "new" => actor'[m2].pc = "new"
=============================================================================
