--------------------------- MODULE GameLifecycle ----------------------------
(***************************************************************************)
(* What one match promises to whoever subscribes to it, whatever happens on *)
(* the board: pieces only ever disappear while the game runs, one at a time; *)
(* taking a king ends the game there and then, for good, and announces the   *)
(* other colour as its only winner.                                          *)
(***************************************************************************)
EXTENDS Sequences

CONSTANTS Pieces,          \* the pieces of the starting position
          KingColor        \* partial function: the colour of each king in Pieces

VARIABLES state, alive, winners

Other(c) == IF c = "White" THEN "Black" ELSE "White"

Init == state = "NotStarted" /\ alive = Pieces /\ winners = <<>>

Start == /\ state \in {"NotStarted", "Paused"}
         /\ state' = "Running"
         /\ UNCHANGED <<alive, winners>>

Stop == /\ state \in {"NotStarted", "Running"}
        /\ state' = "Paused"
        /\ UNCHANGED <<alive, winners>>

Lose(p) == /\ state = "Running" /\ p \in alive
           /\ alive' = alive \ {p}
           /\ IF p \in DOMAIN KingColor
              THEN /\ state' = "Finished"
                   /\ winners' = Append(winners, Other(KingColor[p]))
              ELSE UNCHANGED <<state, winners>>

Next == Start \/ Stop \/ \E p \in Pieces : Lose(p)

Spec == Init /\ [][Next]_<<state, alive, winners>>
=============================================================================
