------------------------------ MODULE MCGateway -----------------------------
(* Two clients, two shards, for model checking Gateway. *)
EXTENDS Gateway

CONSTANTS ann, bob

MCClients == {ann, bob}
MCConns == MCClients \X (1 .. MaxLegs)
AllInRange == MCConns \X MCConns
\* What the matchmaker calls its first room.
TypedNames == {MatchRoom(1)}
OneCode == {Code(1, 0)}
QuickOrCode == {Quick} \cup OneCode
=============================================================================
