------------------------------ MODULE MCEngine ------------------------------
(* Small positions and durations for model checking KungFuEngine and Snapshot. *)
EXTENDS Snapshot

Piece(t, c, pos) == [type |-> t, color |-> c, pos |-> pos]
MCPawnStartRow == [c \in Colors |-> IF c = "White" THEN 1 ELSE Rows - 2]
MCPromotionRow == [c \in Colors |-> IF c = "White" THEN Rows - 1 ELSE 0]

\* One row: two rooks race along a lane, with a king between them.
Lane == << Piece("Rook", "White", <<0, 0>>), Piece("King", "Black", <<0, 2>>),
           Piece("Rook", "Black", <<0, 3>>) >>
LaneTargets == {<<0, 0>>, <<0, 3>>}

\* A pawn and a knight of the other side: the pawn may take the knight, be taken,
\* or be promoted; the white king may fall.
Raid == << Piece("Pawn", "White", <<1, 0>>), Piece("Knight", "Black", <<3, 1>>),
           Piece("King", "White", <<0, 1>>) >>
NoTargets == {}

\* A knight within reach of a rook; a king it may lose.
KnightRaid == << Piece("Knight", "White", <<0, 2>>), Piece("Rook", "Black", <<1, 0>>),
                 Piece("King", "White", <<0, 0>>) >>
KnightTargets == {<<0, 0>>}
=============================================================================
