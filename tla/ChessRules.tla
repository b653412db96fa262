----------------------------- MODULE ChessRules -----------------------------
(***************************************************************************)
(* The board and the move rules of Kung-Fu Chess: Board.cpp, PieceRules.cpp *)
(* and RuleEngine.cpp as operators on a board value.  A board is a function *)
(* from the ids of the pieces on it to their square and their PieceState.   *)
(***************************************************************************)
EXTENDS Integers, Sequences

CONSTANTS
  Rows, Cols,            \* board dimensions (Board::rows_, cols_)
  InitialPieces,         \* sequence of [type, color, pos]: the starting position
  PawnStartRow,          \* per colour: GameConfig::kWhitePawnStartRow, kBlackPawnStartRow
  PromotionRow           \* per colour: GameConfig::kWhitePawnPromotionRow, ...

Colors == {"White", "Black"}
PieceTypes == {"King", "Queen", "Rook", "Bishop", "Knight", "Pawn"}
PieceStates == {"Idle", "Moving", "Cooldown", "Airborne", "ShortRest"}
Positions == Int \X Int
Cells == (0 .. Rows - 1) \X (0 .. Cols - 1)

NumPieces == Len(InitialPieces)

ASSUME BoardAssumption ==
  /\ Rows \in Nat \ {0} /\ Cols \in Nat \ {0}
  /\ InitialPieces \in Seq([type : PieceTypes, color : Colors, pos : Cells])
  /\ \A i, j \in 1 .. NumPieces :
       InitialPieces[i].pos = InitialPieces[j].pos => i = j
  /\ PawnStartRow \in [Colors -> Int] /\ PromotionRow \in [Colors -> Int]

(***************************************************************************)
(* Piece identity.  Piece p of the starting position keeps the id p; the    *)
(* queen a pawn p is replaced by is a new object with a new id, p+NumPieces.*)
(***************************************************************************)
PieceIds == 1 .. 2 * NumPieces
QueenOf(p) == p + NumPieces
TypeOf(p) == IF p > NumPieces THEN "Queen" ELSE InitialPieces[p].type
ColorOf(p) == InitialPieces[IF p > NumPieces THEN p - NumPieces ELSE p].color
Opponent(c) == IF c = "White" THEN "Black" ELSE "White"

PieceValue(t) ==
  CASE t \in {"Knight", "Bishop"} -> 3
    [] t = "Rook" -> 5
    [] t = "Queen" -> 9
    [] t = "Pawn" -> 1
    [] t = "King" -> 0

-----------------------------------------------------------------------------
(* Board.cpp *)

InitialBoard ==
  [p \in 1 .. NumPieces |-> [pos |-> InitialPieces[p].pos, state |-> "Idle"]]

BoardOK(b) ==
  /\ DOMAIN b \subseteq PieceIds
  /\ b \in [DOMAIN b -> [pos : Positions, state : PieceStates]]

At(b, c) == {p \in DOMAIN b : b[p].pos = c}
Occupied(b, c) == At(b, c) # {}
Occupant(b, c) == CHOOSE p \in At(b, c) : TRUE

SetState(b, p, s) == [b EXCEPT ![p].state = s]
RemovePiece(b, c) == [p \in DOMAIN b \ At(b, c) |-> b[p]]

\* Board::movePiece refuses an occupied target.
MovePiece(b, from, to) ==
  IF Occupied(b, to) THEN b
  ELSE [p \in DOMAIN b |->
          IF b[p].pos = from THEN [b[p] EXCEPT !.pos = to] ELSE b[p]]

\* Board::replacePiece with a new Queen, which starts out Idle.
\* (mutant: the pawn stays)
PromotePawnKeepsPawn(b, p) ==
  [q \in DOMAIN b \cup {QueenOf(p)} |->
     IF q = QueenOf(p) THEN [pos |-> b[p].pos, state |-> "Idle"] ELSE b[q]]
PromotePawn(b, p) ==
  [q \in (DOMAIN b \ {p}) \cup {QueenOf(p)} |->
     IF q = QueenOf(p) THEN [pos |-> b[p].pos, state |-> "Idle"] ELSE b[q]]

-----------------------------------------------------------------------------
(* PieceRules.cpp *)

Orthogonal == {<<-1, 0>>, <<1, 0>>, <<0, -1>>, <<0, 1>>}
Diagonal == {<<-1, -1>>, <<-1, 1>>, <<1, -1>>, <<1, 1>>}
KnightOffsets == ({-2, 2} \X {-1, 1}) \cup ({-1, 1} \X {-2, 2})

Shift(c, d, n) == <<c[1] + n * d[1], c[2] + n * d[2]>>

\* A friend that is itself Moving is on its way out and blocks nothing.
BlocksAsStationaryFriendly(b, c, color) ==
  \E q \in At(b, c) : ColorOf(q) = color /\ b[q].state # "Moving"

\* To the edge of the board, through whatever stands in the way.
SlidingDestinations(b, p, directions) ==
  {c \in Cells :
     /\ \E d \in directions, n \in 1 .. Rows + Cols : c = Shift(b[p].pos, d, n)
     /\ ~BlocksAsStationaryFriendly(b, c, ColorOf(p))}

SteppedDestinations(b, p, offsets) ==
  {c \in Cells :
     /\ \E d \in offsets : c = Shift(b[p].pos, d, 1)
     /\ ~BlocksAsStationaryFriendly(b, c, ColorOf(p))}

BlocksForwardStep(b, c) == \E q \in At(b, c) : b[q].state # "Moving"

PawnDestinations(b, p) ==
  LET from    == b[p].pos
      forward == IF ColorOf(p) = "White" THEN 1 ELSE -1
      one     == Shift(from, <<forward, 0>>, 1)
      two     == Shift(from, <<forward, 0>>, 2)
  IN  {c \in Cells :
         \/ c = one /\ ~BlocksForwardStep(b, one)
         \/ /\ c = two /\ from[1] = PawnStartRow[ColorOf(p)]
            /\ ~BlocksForwardStep(b, one) /\ ~BlocksForwardStep(b, two)
         \/ /\ c \in {Shift(from, <<forward, dc>>, 1) : dc \in {-1, 1}}
            /\ \E q \in At(b, c) : ColorOf(q) # ColorOf(p)}

LegalDestinations(b, p) ==
  CASE TypeOf(p) = "Rook"   -> SlidingDestinations(b, p, Orthogonal)
    [] TypeOf(p) = "Bishop" -> SlidingDestinations(b, p, Diagonal)
    [] TypeOf(p) = "Queen"  -> SlidingDestinations(b, p, Orthogonal \cup Diagonal)
    [] TypeOf(p) = "Knight" -> SteppedDestinations(b, p, KnightOffsets)
    [] TypeOf(p) = "King"   -> SteppedDestinations(b, p, Orthogonal \cup Diagonal)
    [] TypeOf(p) = "Pawn"   -> PawnDestinations(b, p)

(* RuleEngine.cpp *)
ValidateMove(b, from, to) ==
  /\ from \in Cells /\ to \in Cells
  /\ Occupied(b, from)
  /\ LET p == Occupant(b, from)
     IN  /\ ~BlocksAsStationaryFriendly(b, to, ColorOf(p))
         /\ to \in LegalDestinations(b, p)
=============================================================================
