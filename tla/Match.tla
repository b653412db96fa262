------------------------------- MODULE Match --------------------------------
(***************************************************************************)
(* What a room promises: one match.  Players take seats until two colours   *)
(* are taken, and may get up before; from then on the same two play, drops   *)
(* and reconnects notwithstanding, until the match is over; then they leave. *)
(***************************************************************************)
EXTENDS FiniteSets

CONSTANT Users

VARIABLES stage, players

Init == stage = "open" /\ players = {}

Player == [user : Users, color : {"White", "Black"}]
Free(color) == \A q \in players : q.color # color

SitDown(p) ==
  /\ stage = "open" /\ Free(p.color)
  /\ players' = players \cup {p}
  /\ stage' = IF players = {} THEN "open" ELSE "playing"

GetUp(p) ==
  /\ stage = "open"
  /\ players' = players \ {p}
  /\ UNCHANGED stage

\* Both at once: a quick match.
Pair(p, q) ==
  /\ stage = "open" /\ players = {} /\ p.color # q.color
  /\ players' = {p, q} /\ stage' = "playing"

\* By a king, or by a forfeit, which empties the seats.
Decide ==
  /\ stage = "playing"
  /\ players' \in {players, {}} /\ stage' = "over"

Depart ==
  /\ stage = "over"
  /\ players' \in SUBSET players
  /\ UNCHANGED stage

Next ==
  \/ \E p \in Player : SitDown(p) \/ GetUp(p)
  \/ \E p, q \in Player : Pair(p, q)
  \/ Decide
  \/ Depart

Spec == Init /\ [][Next]_<<stage, players>>
=============================================================================
