------------------------- MODULE ClickedGameProofs --------------------------
(* Clicks reach the engine only as requests it is specified for: what is     *)
(* proved of the engine holds of a game that is played by clicks.            *)
EXTENDS ClickedGame, KungFuEngineProofs

\* Premoves may be requested to every square: nothing is left out by a bound.
AllPremoves == Cells \subseteq PremoveTargets

\* A selection is a square of the board.
SelectionOK == selected \in [Colors -> Cells \cup {NoSelection}]

\* Selections stay on the board, through every click and whatever the engine does.
LEMMA SelectionStays ==
  ASSUME SelectionOK, [ClickNext]_clickVars
  PROVE  SelectionOK'
<1> USE DEF SelectionOK
<1>1. CASE Clicks
  <2>1. ASSUME NEW me \in Colors, NEW c \in Cells \cup {NoSelection}, Select(me, c)
        PROVE  selected' \in [Colors -> Cells \cup {NoSelection}]
    BY <2>1 DEF Select
  <2> QED
    BY <1>1, <2>1
    DEF Clicks, ClickOwn, ClickOutside, ClickAgain, ClickFriend, ClickTarget, Reattach
<1>2. CASE Unclicked
  BY <1>2 DEF Unclicked
<1>3. CASE UNCHANGED clickVars
  BY <1>3 DEF clickVars
<1> QED
  BY <1>1, <1>2, <1>3 DEF ClickNext

\* Every click is at most one request of the engine; everything else is the engine's own.
LEMMA ClickIsRequest ==
  ASSUME AllPremoves, SelectionOK, [ClickNext]_clickVars
  PROVE  [Next]_vars
<1>1. ASSUME NEW me \in Colors, NEW c \in Cells, ClickTarget(me, c)
      PROVE  Next
  <2>1. selected[me] \in Cells
    BY <1>1 DEF ClickTarget, HasSelection, SelectionOK
  <2>2. c \in PremoveTargets
    BY DEF AllPremoves
  <2> QED
    BY <1>1, <2>1, <2>2 DEF ClickTarget, Next, Requests
<1>2. ASSUME NEW me \in Colors, NEW c \in Cells, ClickAgain(me, c)
      PROVE  [Next]_vars
  BY <1>2 DEF ClickAgain, Next, Requests
<1>3. CASE Clicks
  BY <1>1, <1>2, <1>3 DEF Clicks, ClickOwn, ClickFriend, ClickOutside, Reattach
<1>4. CASE Unclicked
  BY <1>4 DEF Unclicked, Next, Requests
<1>5. CASE UNCHANGED clickVars
  BY <1>5 DEF clickVars
<1> QED
  BY <1>3, <1>4, <1>5 DEF ClickNext

\* A game that is played by clicks is a game of the engine (Controller.cpp adds no way to
\* change it): every property of Spec holds of it.
THEOREM ClickedGameIsGame ==
  ASSUME AllPremoves
  PROVE  ClickSpec => Spec
<1>1. ClickInit => Init /\ SelectionOK
  BY DEF ClickInit, SelectionOK
<1>2. SelectionOK /\ [ClickNext]_clickVars => SelectionOK'
  BY SelectionStays
<1>3. SelectionOK /\ [ClickNext]_clickVars => [Next]_vars
  BY ClickIsRequest
<1> QED
  BY <1>1, <1>2, <1>3, PTL DEF ClickSpec, Spec

\* So a game that is played by clicks (ClickRouter.cpp, Controller.cpp) and never restarted
\* keeps one piece per square, never hangs a piece and ends with the king.
THEOREM ClickedGameIsSafe ==
  ASSUME AllPremoves, ~Restartable
  PROVE  ClickSpec => []OnePiecePerSquare /\ []MovingHasPending /\ []RestHasTimer /\ []GameOver
  BY ClickedGameIsGame, SquaresAreExclusive, MovingPiecesAreCarried, RestingPiecesHaveTimers,
     GameEndsWithTheKing, PTL
=============================================================================
