---------------------------- MODULE ClickedGame -----------------------------
(***************************************************************************)
(* A room's game as its two players drive it: the engine, and on top of it  *)
(* each player's Controller (Controller.cpp), reached through the check of  *)
(* the player's colour in ClickRouter.cpp.  A click takes the room's lock,  *)
(* as the tick thread does for all of wait(), so clicks come between calls   *)
(* of advanceTime.                                                          *)
(***************************************************************************)
EXTENDS KungFuEngine

VARIABLE selected   \* selectedPosition_ of the Controller of each colour

NoSelection == <<>>

clickVars == <<vars, selected>>

ClickInit == Init /\ selected = [me \in Colors |-> NoSelection]

HasSelection(me) == selected[me] # NoSelection
Selectable(c) == Occupied(board, c) /\ board[Occupant(board, c)].state # "Moving"

\* isFriendlyPieceAt: of the colour of whatever stands on the selected square now.
Friendly(me, c) ==
  /\ Occupied(board, c) /\ Occupied(board, selected[me])
  /\ ColorOf(Occupant(board, c)) = ColorOf(Occupant(board, selected[me]))

Clicking == phase = "idle" /\ state = "Running"
Select(me, c) == selected' = [selected EXCEPT ![me] = c]

\* The first click: only here does the router look at the colour.
ClickOwn(me, c) ==
  /\ Clicking /\ ~HasSelection(me)
  /\ Selectable(c) /\ ColorOf(Occupant(board, c)) = me
  /\ Select(me, c) /\ UNCHANGED vars

\* A click beside the board.
ClickOutside(me) ==
  /\ Clicking /\ HasSelection(me)
  /\ Select(me, NoSelection) /\ UNCHANGED vars

\* The selected square once more: a jump, if the piece there can.
CanJump(c) == Occupied(board, c) /\ board[Occupant(board, c)].state = "Idle"
ClickAgain(me, c) ==
  /\ Clicking /\ selected[me] = c
  /\ Select(me, NoSelection)
  /\ IF CanJump(c) THEN TryJump(c) ELSE UNCHANGED vars

ClickFriend(me, c) ==
  /\ Clicking /\ HasSelection(me) /\ selected[me] # c
  /\ Friendly(me, c) /\ Selectable(c)
  /\ Select(me, c) /\ UNCHANGED vars

\* Any other square: a move or a premove.  A request that is refused keeps the selection.
ClickTarget(me, c) ==
  /\ Clicking /\ HasSelection(me) /\ selected[me] # c
  /\ ~(Friendly(me, c) /\ Selectable(c))
  /\ RequestMove(selected[me], c) \/ QueuePremove(selected[me], c)
  /\ Select(me, NoSelection)

\* RoomManager::reconnect attaches the game anew.
Reattach(me) ==
  /\ phase = "idle"
  /\ Select(me, NoSelection) /\ UNCHANGED vars

Clicks ==
  \/ \E me \in Colors, c \in Cells :
       ClickOwn(me, c) \/ ClickAgain(me, c) \/ ClickFriend(me, c) \/ ClickTarget(me, c)
  \/ \E me \in Colors : ClickOutside(me) \/ Reattach(me)

Unclicked == (Start \/ Stop \/ AdvanceTime \/ WaitNoOp) /\ UNCHANGED selected

ClickNext == Clicks \/ Unclicked

ClickSpec == ClickInit /\ [][ClickNext]_clickVars

-----------------------------------------------------------------------------
\* "One mouse could always move either color" (ClickRouter.cpp): here each connection
\* commands the pieces of its own colour only.
CommandsOwnColor ==
  [][\A me \in Colors :
       HasSelection(me) /\ selected'[me] = NoSelection /\ <<board, premoves>>' # <<board, premoves>>
         => ColorOf(Occupant(board, selected[me])) = me]_clickVars
=============================================================================
