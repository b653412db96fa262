---------------------------- MODULE MCGameServer ----------------------------
(* Small sets of clients and rooms for model checking GameServer. *)
EXTENDS GameServer, TLC

CONSTANTS ann, bob     \* usernames

MCUsers == {ann, bob}
AllInRange == MCUsers \X MCUsers
\* Ratings too far apart: both can wait at once.
FarApart == {<<u, u>> : u \in MCUsers}
Symmetry == Permutations(MCUsers)
OneRoom == {<<"named", 0>>}
=============================================================================
