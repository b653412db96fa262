------------------------------- MODULE Snapshot -------------------------------
(***************************************************************************)
(* What the players see: GameEngine::getRenderState, which the server      *)
(* sends as STATE after every wait().  A piece in flight is drawn between  *)
(* from and to by the clock alone, apart from the squares it really enters.*)
(* Coordinates are counted in parts of a cell, Scale to the cell.          *)
(***************************************************************************)
EXTENDS KungFuEngine, FiniteSetsExt

Scale == 2 * MsPerCell
OnSquare(pos) == <<Scale * pos[1], Scale * pos[2]>>

\* clamp(now - startTimeMs, 0, arrivalTimeMs - startTimeMs), counted from the end.
ToGo(pm) == IF pm.arrivalLeft < 0 THEN 0 ELSE pm.arrivalLeft

\* (to - from) * Scale per time of flight: a slide goes one cell in MsPerCell; a
\* knight, still on from, goes its two cells in twice that.
Speed(pm) ==
  IF TypeOf(pm.pieceId) = "Knight"
  THEN <<pm.to[1] - pm.currentPos[1], pm.to[2] - pm.currentPos[2]>>
  ELSE <<2 * pm.step[1], 2 * pm.step[2]>>

\* from + (to - from) * t.
Interpolated(pm) ==
  <<Scale * pm.to[1] - Speed(pm)[1] * ToGo(pm), Scale * pm.to[2] - Speed(pm)[2] * ToGo(pm)>>

\* The map from ids to active moves: a later move overwrites an earlier one.
FlightsOf(p) ==
  {i \in DOMAIN pendingMoves : pendingMoves[i].active /\ pendingMoves[i].pieceId = p}

\* restRemainingMs: the first entry of the piece counts.
RestRemaining(entries, p) ==
  IF Entries(entries, p) = {} THEN 0
  ELSE LET left == entries[Min(Entries(entries, p))].left
       IN  IF left < 0 THEN 0 ELSE left

\* A RenderPiece: where it is drawn, and how much of which rest it has left.
Rendered(p) ==
  LET still == [at |-> OnSquare(board[p].pos), cooldown |-> 0, total |-> 0]
  IN  CASE FlightsOf(p) # {} -> [still EXCEPT !.at = Interpolated(pendingMoves[Max(FlightsOf(p))])]
        [] FlightsOf(p) = {} /\ board[p].state = "Cooldown" ->
             [still EXCEPT !.cooldown = RestRemaining(cooldowns, p), !.total = CooldownMs]
        [] FlightsOf(p) = {} /\ board[p].state = "ShortRest" ->
             [still EXCEPT !.cooldown = RestRemaining(shortRestEntries, p), !.total = ShortRestMs]
        [] OTHER -> still

-----------------------------------------------------------------------------
\* The picture follows the game although it is computed from other fields than
\* the game is: a flying piece is drawn less than a cell from the square it can
\* be taken on, every other piece on its square, and exactly the resting ones
\* show a rest, which has begun and is not over.
SnapshotIsTrue ==
  phase = "idle" /\ ~kingCaptured => \A p \in DOMAIN board :
    LET r == Rendered(p)
    IN  /\ \A i \in {1, 2} : Abs(r.at[i] - Scale * board[p].pos[i]) < Scale
        /\ board[p].state # "Moving" => r.at = OnSquare(board[p].pos)
        /\ IF board[p].state \in {"Cooldown", "ShortRest"}
           THEN 0 < r.cooldown /\ r.cooldown <= r.total
           ELSE r.cooldown = 0 /\ r.total = 0
=============================================================================
