--------------------------- MODULE MCClickedGame ----------------------------
(* A small position for model checking ClickedGame. *)
EXTENDS ClickedGame

NoPawns == [c \in Colors |-> 0]

\* One rook each, on one lane.
Rooks == << [type |-> "Rook", color |-> "White", pos |-> <<0, 0>>],
            [type |-> "Rook", color |-> "Black", pos |-> <<0, 2>>] >>
=============================================================================
