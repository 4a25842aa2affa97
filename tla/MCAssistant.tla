----------------------------- MODULE MCAssistant -----------------------------
(* Small instances of Assistant for TLC.                                      *)
EXTENDS Assistant, TLC

\* no action names a chat, a user or a connection
Symmetry == Permutations(Chats) \cup Permutations(Users) \cup Permutations(Conns)
=============================================================================
