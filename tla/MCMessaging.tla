----------------------------- MODULE MCMessaging -----------------------------
(* Small instances of Messaging for TLC.                                      *)
EXTENDS Messaging, TLC

Symmetry == Permutations(Processes)

\* <<requests about the room, others, changes of the world>>
RoomLoad == {<<3, 0, 0>>, <<2, 0, 1>>, <<0, 2, 1>>}
DeleteLoad == {<<4, 0, 0>>}
DigestLoad == {<<0, 1, 1>>}
=============================================================================
