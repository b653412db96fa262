------------------------- MODULE KungFuFlightProofs -------------------------
(* Boards without knights: every move is of its own piece, nothing is left over from an *)
(* earlier rest, and the picture the players get is true.                               *)
EXTENDS KungFuEngineProofs, Snapshot

-----------------------------------------------------------------------------
(* Without knights, an active move belongs to its piece *)

\* A knight jumps onto a square that another move passes, and then the visit of that
\* move picks up the knight: all that follows is said of boards without knights.
NoKnights == \A p \in 1 .. NumPieces : TypeOf(p) # "Knight"

Owned(b, moves) ==
  \A i \in 1 .. Len(moves) : moves[i].active =>
    /\ moves[i].pieceId \in DOMAIN b
    /\ b[moves[i].pieceId] = [pos |-> moves[i].currentPos, state |-> "Moving"]
    /\ \A j \in 1 .. Len(moves) :
         moves[j].active /\ moves[j].currentPos = moves[i].currentPos => j = i

\* The engine knows of no piece but those of the starting position and their queens.
LEMMA NoMoverIsKnight ==
  ASSUME NoKnights, TypeOK, VisitingPiece
  PROVE  ~MoverIsKnight
<1>1. Mover \in PieceIds
  BY MoverOK
<1>2. TypeOf(Mover) # "Queen" => Mover \in 1 .. NumPieces
  BY <1>1, PieceTyping
<1> QED BY <1>2 DEF NoKnights, MoverIsKnight

\* Moves that stay as they are, with their pieces, stay owned; a move may end.
LEMMA OwnedKeeps ==
  ASSUME NEW b, NEW m, Owned(b, m), NEW d, NEW n, Len(n) = Len(m),
         \A i \in 1 .. Len(m) : n[i].active =>
           /\ m[i].active
           /\ n[i].pieceId = m[i].pieceId /\ n[i].currentPos = m[i].currentPos
           /\ m[i].pieceId \in DOMAIN d /\ d[m[i].pieceId] = b[m[i].pieceId]
  PROVE  Owned(d, n)
  BY DEF Owned

\* Erasing a move leaves the others owned.
LEMMA OwnedWithout ==
  ASSUME NEW b, NEW m \in Seq(Move), Owned(b, m), NEW i \in 1 .. Len(m)
  PROVE  Owned(b, Without(m, i))
<1> DEFINE w == Without(m, i)
           old == [k \in 1 .. Len(m) - 1 |-> IF k < i THEN k ELSE k + 1]
<1>1. Len(m) \in Nat /\ Len(w) = Len(m) - 1
      /\ \A k \in 1 .. Len(m) - 1 : w[k] = IF k < i THEN m[k] ELSE m[k + 1]
  BY LenProperties, WithoutOK
<1>2. \A k \in 1 .. Len(w) : w[k] = m[old[k]] /\ old[k] \in 1 .. Len(m)
  <2> HIDE DEF w
  <2> QED BY <1>1
<1>3. \A k, l \in 1 .. Len(w) : old[k] = old[l] => k = l
  <2> HIDE DEF w
  <2> QED BY <1>1
<1> HIDE DEF w, old
<1>4. ASSUME NEW k \in 1 .. Len(w), w[k].active
      PROVE  /\ w[k].pieceId \in DOMAIN b
             /\ b[w[k].pieceId] = [pos |-> w[k].currentPos, state |-> "Moving"]
             /\ \A l \in 1 .. Len(w) :
                  w[l].active /\ w[l].currentPos = w[k].currentPos => l = k
  <2>1. w[k] = m[old[k]] /\ old[k] \in 1 .. Len(m)
    BY <1>2
  <2>2. \A l \in 1 .. Len(w) :
          w[l].active /\ w[l].currentPos = w[k].currentPos => old[l] = old[k]
    <3>1. \A j \in 1 .. Len(m) :
            m[j].active /\ m[j].currentPos = m[old[k]].currentPos => j = old[k]
      BY <1>4, <2>1 DEF Owned
    <3> QED BY <1>2, <2>1, <3>1
  <2>3. /\ m[old[k]].pieceId \in DOMAIN b
        /\ b[m[old[k]].pieceId] = [pos |-> m[old[k]].currentPos, state |-> "Moving"]
    BY <1>4, <2>1 DEF Owned
  <2> QED BY <1>3, <2>1, <2>2, <2>3
<1>5. Owned(b, w)
  BY <1>4 DEF Owned
<1> QED BY <1>5 DEF w

\* A move that starts for a piece that was not Moving is owned by it.
LEMMA OwnedAppend ==
  ASSUME NEW b, BoardOK(b), Distinct(b), NEW m \in Seq(Move), Owned(b, m),
         NEW p \in DOMAIN b, b[p].state # "Moving",
         NEW pm \in Move, pm.pieceId = p, pm.currentPos = b[p].pos
  PROVE  Owned(SetState(b, p, "Moving"), Append(m, pm))
<1> DEFINE d == SetState(b, p, "Moving")
           n == Append(m, pm)
<1>1. Len(m) \in Nat /\ Len(n) = Len(m) + 1
      /\ \A i \in 1 .. Len(m) : n[i] = m[i]
  BY LenProperties, AppendProperties
<1>0. n[Len(m) + 1] = pm
  BY AppendProperties
<1>2. DOMAIN d = DOMAIN b /\ d[p] = [pos |-> b[p].pos, state |-> "Moving"]
      /\ \A q \in DOMAIN b : q # p => d[q] = b[q]
  BY DEF SetState, BoardOK
<1>3. \A i \in 1 .. Len(m) : m[i].active =>
        /\ m[i].pieceId \in DOMAIN b /\ m[i].pieceId # p
        /\ m[i].currentPos # pm.currentPos
  <2> SUFFICES ASSUME NEW i \in 1 .. Len(m), m[i].active
               PROVE  /\ m[i].pieceId \in DOMAIN b /\ m[i].pieceId # p
                      /\ m[i].currentPos # pm.currentPos
    OBVIOUS
  <2>1. /\ m[i].pieceId \in DOMAIN b
        /\ b[m[i].pieceId] = [pos |-> m[i].currentPos, state |-> "Moving"]
    BY DEF Owned
  <2>2. b[m[i].pieceId].pos = m[i].currentPos /\ b[m[i].pieceId].state = "Moving"
    BY <2>1
  <2> QED BY <2>1, <2>2 DEF Distinct
<1> HIDE DEF d, n
<1>4. ASSUME NEW i \in 1 .. Len(n), n[i].active
      PROVE  /\ n[i].pieceId \in DOMAIN d
             /\ d[n[i].pieceId] = [pos |-> n[i].currentPos, state |-> "Moving"]
             /\ \A j \in 1 .. Len(n) :
                  n[j].active /\ n[j].currentPos = n[i].currentPos => j = i
  <2>1. CASE i = Len(m) + 1
    <3>1. n[i] = pm
      BY <1>0, <2>1
    <3>2. \A j \in 1 .. Len(n) : j = i \/ (j \in 1 .. Len(m) /\ n[j] = m[j])
      BY <1>1, <2>1
    <3> QED BY <1>2, <1>3, <3>1, <3>2
  <2>2. CASE i \in 1 .. Len(m)
    <3>1. n[i] = m[i] /\ m[i].active
      BY <1>1, <1>4, <2>2
    <3>2. \A j \in 1 .. Len(n) : j \in 1 .. Len(m) \/ j = Len(m) + 1
      BY <1>1
    <3> QED BY <1>0, <1>1, <1>2, <1>3, <2>2, <3>1, <3>2 DEF Owned
  <2> QED BY <1>1, <1>4, <2>1, <2>2
<1>5. Owned(d, n)
  BY <1>4 DEF Owned
<1> QED BY <1>5 DEF d, n

\* The visited move moves its own piece.
LEMMA CurrentOwned ==
  ASSUME TypeOK, OnePiecePerSquare, Owned(board, pendingMoves), VisitingPiece
  PROVE  Mover = Current.pieceId /\ board[Mover].state = "Moving"
<1>1. cursor \in 1 .. Len(pendingMoves) /\ pendingMoves[cursor].active
  BY DEF VisitingPiece, Visiting, Current
<1>2. /\ Current.pieceId \in DOMAIN board
      /\ board[Current.pieceId] = [pos |-> Current.currentPos, state |-> "Moving"]
  BY <1>1 DEF Owned, Current
<1> QED BY <1>2, MoverOK DEF OnePiecePerSquare

\* Every other active move is of another piece, on another square.
LEMMA OthersOwned ==
  ASSUME TypeOK, OnePiecePerSquare, Owned(board, pendingMoves), VisitingPiece,
         NEW i \in 1 .. Len(pendingMoves), i # cursor, pendingMoves[i].active
  PROVE  /\ pendingMoves[i].pieceId \in DOMAIN board
         /\ pendingMoves[i].pieceId # Mover
         /\ board[pendingMoves[i].pieceId] = [pos |-> pendingMoves[i].currentPos, state |-> "Moving"]
         /\ pendingMoves[i].currentPos # Current.currentPos
         /\ \A j \in 1 .. Len(pendingMoves) : MovesOn(j, pendingMoves[i].currentPos) => j = i
<1>1. cursor \in 1 .. Len(pendingMoves) /\ pendingMoves[cursor].active
  BY DEF VisitingPiece, Visiting, Current
<1>2. /\ pendingMoves[i].pieceId \in DOMAIN board
      /\ board[pendingMoves[i].pieceId] = [pos |-> pendingMoves[i].currentPos, state |-> "Moving"]
      /\ \A j \in 1 .. Len(pendingMoves) : MovesOn(j, pendingMoves[i].currentPos) => j = i
  BY DEF Owned, MovesOn
<1>3. pendingMoves[i].currentPos # Current.currentPos
  BY <1>1, <1>2 DEF MovesOn, Current
<1>4. pendingMoves[i].pieceId # Mover
  BY <1>2, <1>3, MoverOK
<1> QED BY <1>2, <1>3, <1>4

\* A visit that ends the mover's move and leaves the other moving pieces as they were.
LEMMA VisitEndsOwned ==
  ASSUME TypeOK, OnePiecePerSquare, Owned(board, pendingMoves), VisitingPiece,
         NEW c \in Positions, pendingMoves' = Update(EndedOn(c)),
         \A q \in DOMAIN board : q # Mover /\ board[q].state = "Moving" =>
           q \in DOMAIN board' /\ board'[q] = board[q]
  PROVE  Owned(board', pendingMoves')
<1>1. Visiting /\ EndedOn(c) \in Move /\ ~EndedOn(c).active
  BY CurrentOK DEF VisitingPiece
<1>2. /\ Len(pendingMoves') = Len(pendingMoves)
      /\ \A i \in 1 .. Len(pendingMoves) :
           pendingMoves'[i] = IF i = cursor THEN EndedOn(c) ELSE pendingMoves[i]
  BY <1>1, UpdateOK
<1>3. \A i \in 1 .. Len(pendingMoves) : pendingMoves'[i].active =>
        i # cursor /\ pendingMoves'[i] = pendingMoves[i]
  BY <1>1, <1>2
<1>4. \A i \in 1 .. Len(pendingMoves) : i # cursor /\ pendingMoves[i].active =>
        /\ pendingMoves[i].pieceId \in DOMAIN board'
        /\ board'[pendingMoves[i].pieceId] = board[pendingMoves[i].pieceId]
  <2> SUFFICES ASSUME NEW i \in 1 .. Len(pendingMoves), i # cursor, pendingMoves[i].active
               PROVE  /\ pendingMoves[i].pieceId \in DOMAIN board'
                      /\ board'[pendingMoves[i].pieceId] = board[pendingMoves[i].pieceId]
    OBVIOUS
  <2>1. /\ pendingMoves[i].pieceId \in DOMAIN board /\ pendingMoves[i].pieceId # Mover
        /\ board[pendingMoves[i].pieceId]
             = [pos |-> pendingMoves[i].currentPos, state |-> "Moving"]
    BY OthersOwned
  <2>2. board[pendingMoves[i].pieceId].state = "Moving"
    BY <2>1
  <2> QED BY <2>1, <2>2
<1> QED BY <1>2, <1>3, <1>4, OwnedKeeps

\* Arriving changes the piece that arrives, and may bring its queen.
LEMMA ArriveOnOthers ==
  ASSUME NEW b, BoardOK(b), NEW p \in DOMAIN b, ArriveOn(b, p),
         TypeOf(p) = "Pawn" => QueenOf(p) \notin DOMAIN b,
         NEW q \in DOMAIN b, q # p
  PROVE  q \in DOMAIN board' /\ board'[q] = b[q]
<1>1. CASE board' = SetState(b, p, "Cooldown")
  BY <1>1 DEF SetState, BoardOK
<1>2. CASE TypeOf(p) = "Pawn" /\ board' = PromotePawn(b, p)
  BY <1>2 DEF PromotePawn
<1> QED BY <1>1, <1>2 DEF ArriveOn

\* A pawn on the board has no queen yet.
LEMMA NoQueenYet ==
  ASSUME TypeOK, QueensReplacePawns, NEW p \in DOMAIN board, TypeOf(p) = "Pawn"
  PROVE  QueenOf(p) \notin DOMAIN board
<1>1. p \in PieceIds
  BY DEF TypeOK, BoardOK
<1>2. p \in 1 .. NumPieces
  BY <1>1, PieceTyping
<1> QED BY <1>2 DEF QueensReplacePawns

\* A visit changes no move and no moving piece but the mover's and the one it takes.
LEMMA ResolveMoveOwned ==
  ASSUME NoKnights, TypeOK, OnePiecePerSquare, QueensReplacePawns,
         Owned(board, pendingMoves), ResolveMove
  PROVE  Owned(board', pendingMoves')
<1>1. CASE SkipMove \/ EndMoves
  BY <1>1 DEF SkipMove, EndMoves, arbiterVars
<1>2. CASE DropOrphanMove
  <2>1. /\ Visiting /\ Current.active /\ ~Occupied(board, Current.currentPos)
    BY <1>2 DEF DropOrphanMove
  <2>2. /\ Current.pieceId \in DOMAIN board
        /\ board[Current.pieceId] = [pos |-> Current.currentPos, state |-> "Moving"]
    BY <2>1 DEF Owned, Current, Visiting
  <2>3. board[Current.pieceId].pos = Current.currentPos
    BY <2>2
  <2> QED BY <2>1, <2>2, <2>3 DEF Occupied, At
<1>3. CASE Blocked
  <2>1. VisitingPiece /\ board' = SetState(board, Mover, "Idle")
        /\ pendingMoves' = Update(EndedOn(Current.currentPos))
    BY <1>3 DEF Blocked
  <2>2. \A q \in DOMAIN board : q # Mover => q \in DOMAIN board' /\ board'[q] = board[q]
    BY <2>1 DEF SetState, TypeOK, BoardOK
  <2>3. Current.currentPos \in Positions
    BY <2>1, CurrentOK DEF VisitingPiece
  <2> QED BY <2>1, <2>2, <2>3, VisitEndsOwned
<1>4. CASE CounterKill
  <2> DEFINE r == RemovePiece(board, Current.currentPos)
  <2>1. /\ VisitingPiece /\ board' = SetState(r, TargetPiece, "ShortRest")
        /\ pendingMoves' = Update(EndedOn(Current.currentPos))
        /\ board[TargetPiece].state = "Airborne"
    BY <1>4 DEF CounterKill, MeetsAirborne
  <2>2. \A q \in DOMAIN board : q # Mover => q \in DOMAIN r /\ r[q] = board[q]
    BY <2>1, OthersElsewhere DEF RemovePiece, At
  <2>3. BoardOK(r)
    BY RemovePieceOK DEF TypeOK
  <2>4. \A q \in DOMAIN r : q # TargetPiece => q \in DOMAIN board' /\ board'[q] = r[q]
    <3> HIDE DEF r
    <3> QED BY <2>1, <2>3 DEF SetState, BoardOK
  <2>5. Current.currentPos \in Positions
    BY <2>1, CurrentOK DEF VisitingPiece
  <2> HIDE DEF r
  <2> QED BY <2>1, <2>2, <2>4, <2>5, VisitEndsOwned
<1>5. CASE Arrive
  <2> DEFINE b == MovePiece(board, Current.currentPos, Target)
  <2>1. VisitingPiece /\ ~Occupied(board, Target) /\ ArriveOn(b, Mover)
        /\ pendingMoves' = Update(EndedOn(Target))
    BY <1>5 DEF Arrive, Enters
  <2>2. /\ BoardOK(b) /\ DOMAIN b = DOMAIN board /\ Mover \in DOMAIN b /\ Target \in Positions
        /\ TypeOf(Mover) = "Pawn" => QueenOf(Mover) \notin DOMAIN b
    BY <2>1, MoverOK, MovePieceOK, NoQueenYet DEF TypeOK
  <2>3. \A q \in DOMAIN board : q # Mover => b[q] = board[q]
    BY <2>1, OthersElsewhere DEF MovePiece
  <2>4. \A q \in DOMAIN b : q # Mover => q \in DOMAIN board' /\ board'[q] = b[q]
    <3> HIDE DEF b
    <3> QED BY <2>1, <2>2, ArriveOnOthers
  <2> HIDE DEF b
  <2> QED BY <2>1, <2>2, <2>3, <2>4, VisitEndsOwned
<1>6. CASE Advance
  <2> DEFINE pm == [Current EXCEPT !.currentPos = Target, !.stepLeft = @ + MsPerCell]
             b == MovePiece(board, Current.currentPos, Target)
  <2>1. VisitingPiece /\ Visiting /\ ~Occupied(board, Target) /\ board' = b
        /\ pendingMoves' = Update(pm)
    BY <1>6 DEF Advance, Enters, VisitingPiece
  <2>2. pm \in Move /\ pm.currentPos = Target /\ pm.pieceId = Current.pieceId
    BY <2>1, AdvancedOK, CurrentOK DEF VisitingPiece, Move
  <2>3. /\ Len(pendingMoves') = Len(pendingMoves)
        /\ \A i \in 1 .. Len(pendingMoves) :
             pendingMoves'[i] = IF i = cursor THEN pm ELSE pendingMoves[i]
    <3> HIDE DEF pm
    <3> QED BY <2>1, <2>2, UpdateOK
  <2>4. Mover = Current.pieceId /\ board[Mover].state = "Moving"
    BY <2>1, CurrentOwned
  <2>5. DOMAIN b = DOMAIN board /\ Mover \in DOMAIN b
        /\ b[Mover] = [pos |-> Target, state |-> "Moving"]
    BY <2>1, <2>4, MoverOK DEF MovePiece, TypeOK, BoardOK
  <2>6. \A q \in DOMAIN board : q # Mover => b[q] = board[q] /\ board[q].pos # Target
    BY <2>1, OthersElsewhere DEF MovePiece, Occupied, At
  <2> HIDE DEF pm, b
  <2>7. ASSUME NEW i \in 1 .. Len(pendingMoves), i # cursor, pendingMoves[i].active
        PROVE  /\ pendingMoves[i].pieceId \in DOMAIN b
               /\ b[pendingMoves[i].pieceId]
                    = [pos |-> pendingMoves[i].currentPos, state |-> "Moving"]
               /\ pendingMoves[i].currentPos # Target
               /\ \A j \in 1 .. Len(pendingMoves) : MovesOn(j, pendingMoves[i].currentPos) => j = i
    <3>1. /\ pendingMoves[i].pieceId \in DOMAIN board /\ pendingMoves[i].pieceId # Mover
          /\ board[pendingMoves[i].pieceId]
               = [pos |-> pendingMoves[i].currentPos, state |-> "Moving"]
          /\ \A j \in 1 .. Len(pendingMoves) : MovesOn(j, pendingMoves[i].currentPos) => j = i
      BY <2>1, <2>7, OthersOwned
    <3>2. board[pendingMoves[i].pieceId].pos = pendingMoves[i].currentPos
      BY <3>1
    <3> QED BY <2>5, <2>6, <3>1, <3>2
  <2>8. ASSUME NEW i \in 1 .. Len(pendingMoves), pendingMoves'[i].active
        PROVE  /\ pendingMoves'[i].pieceId \in DOMAIN b
               /\ b[pendingMoves'[i].pieceId]
                    = [pos |-> pendingMoves'[i].currentPos, state |-> "Moving"]
               /\ \A j \in 1 .. Len(pendingMoves) :
                    pendingMoves'[j].active
                      /\ pendingMoves'[j].currentPos = pendingMoves'[i].currentPos => j = i
    <3>1. CASE i = cursor
      BY <2>2, <2>3, <2>4, <2>5, <2>7, <3>1
    <3>2. CASE i # cursor
      <4>1. pendingMoves'[i] = pendingMoves[i]
        BY <2>3, <3>2
      <4>2. \A j \in 1 .. Len(pendingMoves) : j # i => ~MovesOn(j, pendingMoves[i].currentPos)
        BY <2>7, <2>8, <3>2, <4>1
      <4>3. pendingMoves[i].currentPos # Target
        BY <2>7, <2>8, <3>2, <4>1
      <4>4. \A j \in 1 .. Len(pendingMoves) :
              pendingMoves'[j].active
                /\ pendingMoves'[j].currentPos = pendingMoves[i].currentPos => j = i
        BY <2>2, <2>3, <4>2, <4>3 DEF MovesOn
      <4> QED BY <2>7, <2>8, <3>2, <4>1, <4>4
    <3> QED BY <3>1, <3>2
  <2> QED BY <2>1, <2>3, <2>8 DEF Owned
<1>7. CASE CaptureTarget
  <2> DEFINE r == RemovePiece(board, Target)
             b == MovePiece(r, Current.currentPos, Target)
  <2>1. /\ VisitingPiece /\ TargetIsEnemy /\ Occupied(board, Target)
        /\ pendingMoves' = AfterCapture
        /\ board' = b \/ ArriveOn(b, Mover)
    BY <1>7 DEF CaptureTarget, TargetIsEnemy
  <2>2. DOMAIN r = DOMAIN board \ At(board, Target) /\ BoardOK(r)
        /\ \A q \in DOMAIN r : r[q] = board[q]
    BY RemovePieceOK DEF RemovePiece, TypeOK
  <2>3. DOMAIN b = DOMAIN r /\ BoardOK(b) /\ Mover \in DOMAIN b
    <3>1. DOMAIN b = DOMAIN r /\ BoardOK(b)
      <4> HIDE DEF r
      <4> QED BY <2>1, <2>2, MoverOK, MovePieceOK
    <3> QED BY <2>1, <2>2, <3>1, MoverOK, MoverNotOnTarget DEF At
  <2>4. \A q \in DOMAIN b : q # Mover => b[q] = board[q]
    <3> HIDE DEF r
    <3> QED BY <2>1, <2>2, <2>3, OthersElsewhere DEF MovePiece
  <2>5. TypeOf(Mover) = "Pawn" => QueenOf(Mover) \notin DOMAIN b
    BY <2>1, <2>2, <2>3, MoverOK, NoQueenYet
  <2>6. \A q \in DOMAIN b : q # Mover => q \in DOMAIN board' /\ board'[q] = board[q]
    <3> HIDE DEF b
    <3> QED BY <2>1, <2>3, <2>4, <2>5, ArriveOnOthers
  <2>7. \A q \in DOMAIN board : board[q].pos # Target => q \in DOMAIN b
    BY <2>2, <2>3 DEF At
  <2> HIDE DEF b
  <2>8. Steps /\ ~EndedOn(Target).active
    BY <1>7, <2>1, NoMoverIsKnight, CurrentOK, MoverOK DEF CaptureTarget, Lands, VisitingPiece
  <2>9. ASSUME NEW i \in 1 .. Len(pendingMoves), pendingMoves'[i].active
        PROVE  /\ pendingMoves[i].active
               /\ pendingMoves'[i].pieceId = pendingMoves[i].pieceId
               /\ pendingMoves'[i].currentPos = pendingMoves[i].currentPos
               /\ pendingMoves[i].pieceId \in DOMAIN board'
               /\ board'[pendingMoves[i].pieceId] = board[pendingMoves[i].pieceId]
    <3>1. pendingMoves'[i] = IF i = cursor THEN EndedOn(Target)
                             ELSE IF FirstMoveOn(i, Target)
                             THEN [pendingMoves[i] EXCEPT !.active = FALSE]
                             ELSE pendingMoves[i]
      BY <2>1, <2>8 DEF AfterCapture
    <3>2. ~[pendingMoves[i] EXCEPT !.active = FALSE].active
      <4>1. pendingMoves[i] \in Move
        BY ElementOfSeq DEF TypeOK
      <4> QED BY <4>1 DEF Move
    <3>3. i # cursor /\ ~FirstMoveOn(i, Target) /\ pendingMoves'[i] = pendingMoves[i]
      BY <2>8, <2>9, <3>1, <3>2
    <3>4. /\ pendingMoves[i].pieceId \in DOMAIN board /\ pendingMoves[i].pieceId # Mover
          /\ board[pendingMoves[i].pieceId]
               = [pos |-> pendingMoves[i].currentPos, state |-> "Moving"]
          /\ \A j \in 1 .. Len(pendingMoves) : MovesOn(j, pendingMoves[i].currentPos) => j = i
      BY <2>1, <2>9, <3>3, OthersOwned
    <3>5. pendingMoves[i].currentPos # Target
      <4> SUFFICES ASSUME pendingMoves[i].currentPos = Target PROVE FirstMoveOn(i, Target)
        BY <3>3
      <4>1. MovesOn(i, Target)
        BY <2>9, <3>3 DEF MovesOn
      <4>2. Len(pendingMoves) \in Nat
        BY LenProperties DEF TypeOK
      <4>3. \A j \in 1 .. i - 1 : j \in 1 .. Len(pendingMoves) /\ j # i
        BY <4>2
      <4> QED BY <3>4, <4>1, <4>3 DEF FirstMoveOn
    <3>6. board[pendingMoves[i].pieceId].pos # Target
      BY <3>4, <3>5
    <3> QED BY <2>6, <2>7, <2>9, <3>3, <3>4, <3>6
  <2>10. Len(pendingMoves') = Len(pendingMoves)
    BY <2>1, AfterCaptureOK
  <2> QED BY <2>9, <2>10, OwnedKeeps
<1> QED BY <1>1, <1>2, <1>3, <1>4, <1>5, <1>6, <1>7 DEF ResolveMove

\* A piece that is not Moving may change its state: no move is its own.
LEMMA SetStateOwned ==
  ASSUME NEW b, BoardOK(b), NEW m, Owned(b, m), NEW p,
         p \in DOMAIN b => b[p].state # "Moving", NEW s
  PROVE  Owned(SetState(b, p, s), m)
<1> DEFINE d == SetState(b, p, s)
<1>1. DOMAIN d = DOMAIN b /\ \A q \in DOMAIN b : q # p => d[q] = b[q]
  BY DEF SetState, BoardOK
<1> HIDE DEF d
<1>2. ASSUME NEW i \in 1 .. Len(m), m[i].active
      PROVE  m[i].pieceId \in DOMAIN d /\ d[m[i].pieceId] = b[m[i].pieceId]
  <2>1. /\ m[i].pieceId \in DOMAIN b
        /\ b[m[i].pieceId] = [pos |-> m[i].currentPos, state |-> "Moving"]
    BY <1>2 DEF Owned
  <2>2. b[m[i].pieceId].state = "Moving"
    BY <2>1
  <2> QED BY <1>1, <2>1, <2>2
<1>3. Owned(d, m)
  BY <1>2, OwnedKeeps
<1> QED BY <1>3 DEF d

\* A rest ends for a piece without a move, and its premove becomes its only one.
LEMMA EndRestOwned ==
  ASSUME TypeOK, OnePiecePerSquare, Owned(board, pendingMoves), NEW p \in PieceIds,
         NEW resting, resting # "Moving", EndRest(p, resting)
  PROVE  Owned(board', pendingMoves')
<1> DEFINE idle == SetState(board, p, "Idle")
           from == board[p].pos
           pm == NewMove(p, from, premoves[p])
<1>1. \/ board' = board /\ pendingMoves' = pendingMoves
      \/ /\ p \in DOMAIN board /\ board[p].state = resting
         /\ board' = idle /\ pendingMoves' = pendingMoves
      \/ /\ p \in DOMAIN board /\ board[p].state = resting /\ p \in DOMAIN premoves
         /\ board' = SetState(idle, p, "Moving")
         /\ pendingMoves' = Append(pendingMoves, pm)
  BY DEF EndRest
<1>2. BoardOK(board) /\ pendingMoves \in Seq(Move)
  BY DEF TypeOK
<1>3. CASE p \in DOMAIN board /\ board[p].state = resting
  <2>1. Owned(idle, pendingMoves)
    BY <1>2, <1>3, SetStateOwned
  <2>2. CASE board' = idle /\ pendingMoves' = pendingMoves
    BY <2>1, <2>2
  <2>3. CASE /\ p \in DOMAIN premoves
             /\ board' = SetState(idle, p, "Moving")
             /\ pendingMoves' = Append(pendingMoves, pm)
    <3>1. BoardOK(idle) /\ Distinct(idle) /\ p \in DOMAIN idle
      BY <1>2, <1>3, SetStateOK, SetStateDistinct DEF OnePiecePerSquare, Distinct, PieceStates
    <3>2. idle[p].state # "Moving" /\ idle[p].pos = from
      BY <1>2, <1>3 DEF SetState, BoardOK
    <3>3. from \in Positions /\ premoves[p] \in Positions
      BY <1>3, <2>3 DEF TypeOK, BoardOK
    <3>4. pm \in Move /\ pm.currentPos = from /\ pm.pieceId = p
      BY <3>3, NewMoveOK DEF NewMove
    <3> HIDE DEF idle, pm
    <3> QED BY <1>2, <2>1, <2>3, <3>1, <3>2, <3>4, OwnedAppend
  <2> QED BY <1>1, <2>1, <2>2, <2>3
<1> HIDE DEF idle, pm
<1> QED BY <1>1, <1>3

\* No step leaves an active move without its piece.
LEMMA OwnedStep ==
  ASSUME NoKnights, TypeOK, OnePiecePerSquare, QueensReplacePawns,
         Owned(board, pendingMoves), [Next]_vars
  PROVE  Owned(board', pendingMoves')
<1>1. BoardOK(board) /\ pendingMoves \in Seq(Move)
  BY DEF TypeOK
<1>2. CASE UNCHANGED <<board, pendingMoves>>
  BY <1>2
<1>3. ASSUME NEW p \in DOMAIN board, board[p].state # "Moving", NEW s,
             board' = SetState(board, p, s), pendingMoves' = pendingMoves
      PROVE  Owned(board', pendingMoves')
  BY <1>1, <1>3, SetStateOwned
<1>4. ASSUME NEW from \in Cells, NEW to \in Cells, RequestMove(from, to)
      PROVE  Owned(board', pendingMoves')
  <2> DEFINE p == Occupant(board, from)
             pm == NewMove(p, from, to)
  <2>1. /\ p \in DOMAIN board /\ p \in PieceIds /\ board[p].pos = from
        /\ board[p].state # "Moving"
        /\ pendingMoves' = Append(pendingMoves, pm) /\ board' = SetState(board, p, "Moving")
    BY <1>1, <1>4, OccupantAt DEF RequestMove, BoardOK
  <2>2. pm \in Move /\ pm.currentPos = from /\ pm.pieceId = p
    BY <2>1, CellsArePositions, NewMoveOK DEF NewMove
  <2>3. Distinct(board)
    BY DEF OnePiecePerSquare, Distinct
  <2> HIDE DEF p, pm
  <2> QED BY <1>1, <2>1, <2>2, <2>3, OwnedAppend
<1>5. ASSUME NEW cell \in Cells, TryJump(cell)
      PROVE  Owned(board', pendingMoves')
  BY <1>3, <1>5, OccupantAt DEF TryJump
<1>6. CASE Tick
  <2>1. /\ Len(pendingMoves) \in Nat /\ \A i \in 1 .. Len(pendingMoves) : pendingMoves[i] \in Move
    BY <1>1, LenProperties, ElementOfSeq
  <2>2. board' = board /\ Len(pendingMoves') = Len(pendingMoves)
        /\ \A i \in 1 .. Len(pendingMoves) : pendingMoves'[i] = ElapseMove(pendingMoves[i])
    BY <1>6, <2>1 DEF Tick
  <2>3. \A i \in 1 .. Len(pendingMoves) :
          /\ pendingMoves'[i].active = pendingMoves[i].active
          /\ pendingMoves'[i].pieceId = pendingMoves[i].pieceId
          /\ pendingMoves'[i].currentPos = pendingMoves[i].currentPos
    BY <2>1, <2>2, ElapseMoveOK
  <2>4. \A i \in 1 .. Len(pendingMoves) : pendingMoves[i].active =>
          pendingMoves[i].pieceId \in DOMAIN board
    BY DEF Owned
  <2> QED BY <2>2, <2>3, <2>4, OwnedKeeps
<1>7. CASE ResolveMove
  BY <1>7, ResolveMoveOwned
<1>8. CASE EraseMove
  BY <1>1, <1>8, OwnedWithout DEF EraseMove
<1>9. CASE ExpireCooldown
  <2>1. PICK i \in 1 .. Len(cooldowns) : EndRest(cooldowns[i].pieceId, "Cooldown")
    BY <1>9 DEF ExpireCooldown
  <2>2. cooldowns[i].pieceId \in PieceIds
    BY WithoutEntry DEF TypeOK
  <2> QED BY <2>1, <2>2, EndRestOwned
<1>10. CASE ExpireShortRest
  <2>1. PICK i \in 1 .. Len(shortRestEntries) : EndRest(shortRestEntries[i].pieceId, "ShortRest")
    BY <1>10 DEF ExpireShortRest
  <2>2. shortRestEntries[i].pieceId \in PieceIds
    BY WithoutEntry DEF TypeOK
  <2> QED BY <2>1, <2>2, EndRestOwned
<1>11. CASE LandJump
  BY <1>2, <1>3, <1>11 DEF LandJump
<1>12. CASE Start \/ Stop \/ EndTick
            \/ \E from \in Cells, to \in PremoveTargets : QueuePremove(from, to)
  BY <1>2, <1>12 DEF Start, Stop, EndTick, QueuePremove, arbiterVars
<1>13. CASE WaitNoOp \/ UNCHANGED vars
  BY <1>2, <1>13 DEF WaitNoOp, vars, arbiterVars
<1> QED BY <1>4, <1>5, <1>6, <1>7, <1>8, <1>9, <1>10, <1>11, <1>12, <1>13
        DEF Next, Requests, AdvanceTime, ResolveTimers

\* The step that moves a piece is the visit of its own move.
LEMMA MoversStep ==
  ASSUME TypeOK, OnePiecePerSquare, QueensReplacePawns, Owned(board, pendingMoves), [Next]_vars,
         NEW p \in DOMAIN board \cap DOMAIN board', board'[p].pos # board[p].pos
  PROVE  board[p].state = "Moving"
<1>1. BoardOK(board) /\ p \in DOMAIN board /\ p \in DOMAIN board'
  BY DEF TypeOK
<1>2. ASSUME NEW q, NEW s, board' = SetState(board, q, s) PROVE FALSE
  BY <1>1, <1>2 DEF SetState, BoardOK
<1>3. ASSUME NEW q, NEW resting, EndRest(q, resting) PROVE FALSE
  <2>1. \E s : board' = SetState(SetState(board, q, "Idle"), q, s)
    BY <1>2, <1>3 DEF EndRest
  <2>2. board'[p].pos = board[p].pos
    BY <1>1, <2>1 DEF SetState, BoardOK
  <2> QED BY <2>2
<1>4. CASE /\ VisitingPiece
           /\ Blocked \/ CounterKill \/ CaptureTarget \/ Arrive \/ Advance
  <2> SUFFICES ASSUME p # Mover PROVE board'[p].pos = board[p].pos
    BY <1>4, CurrentOwned
  <2>1. board[p].pos # Current.currentPos
    BY <1>1, <1>4, OthersElsewhere
  <2>2. CASE Blocked
    BY <1>2, <2>2 DEF Blocked
  <2>3. CASE CounterKill
    <3> DEFINE r == RemovePiece(board, Current.currentPos)
    <3>1. board' = SetState(r, TargetPiece, "ShortRest")
      BY <2>3 DEF CounterKill
    <3>2. BoardOK(r) /\ p \in DOMAIN r /\ r[p] = board[p]
      BY <1>1, <2>1, RemovePieceOK DEF RemovePiece, At
    <3> HIDE DEF r
    <3> QED BY <3>1, <3>2 DEF SetState, BoardOK
  <2>4. ASSUME NEW b, BoardOK(b), ArriveOn(b, Mover), Mover \in DOMAIN b,
               DOMAIN b \subseteq DOMAIN board, p \in DOMAIN b => b[p] = board[p]
        PROVE  board'[p].pos = board[p].pos
    <3>1. TypeOf(Mover) = "Pawn" => QueenOf(Mover) \notin DOMAIN board
      BY <1>4, MoverOK, NoQueenYet
    <3>2. p \in DOMAIN b
      <4>1. CASE board' = SetState(b, Mover, "Cooldown")
        BY <1>1, <2>4, <4>1 DEF SetState, BoardOK
      <4>2. CASE TypeOf(Mover) = "Pawn" /\ board' = PromotePawn(b, Mover)
        BY <1>1, <3>1, <4>2 DEF PromotePawn
      <4> QED BY <2>4, <4>1, <4>2 DEF ArriveOn
    <3> QED BY <2>4, <3>1, <3>2, ArriveOnOthers
  <2>5. CASE Arrive
    <3> DEFINE b == MovePiece(board, Current.currentPos, Target)
    <3>1. BoardOK(b) /\ DOMAIN b = DOMAIN board /\ ArriveOn(b, Mover) /\ Mover \in DOMAIN b
      BY <1>1, <1>4, <2>5, MoverOK, MovePieceOK DEF Arrive
    <3>2. b[p] = board[p]
      BY <1>1, <2>1 DEF MovePiece
    <3> HIDE DEF b
    <3> QED BY <2>4, <3>1, <3>2
  <2>6. CASE Advance
    BY <1>1, <2>1, <2>6 DEF Advance, MovePiece
  <2>7. CASE CaptureTarget
    <3> DEFINE r == RemovePiece(board, Target)
               b == MovePiece(r, Current.currentPos, Target)
    <3>1. /\ TargetIsEnemy /\ Occupied(board, Target)
          /\ board' = b \/ ArriveOn(b, Mover)
      BY <2>7 DEF CaptureTarget, TargetIsEnemy
    <3>2. DOMAIN r = DOMAIN board \ At(board, Target) /\ BoardOK(r)
          /\ \A q \in DOMAIN r : r[q] = board[q]
      BY <1>1, RemovePieceOK DEF RemovePiece
    <3>3. DOMAIN b = DOMAIN r /\ BoardOK(b) /\ Mover \in DOMAIN b
      <4>1. DOMAIN b = DOMAIN r /\ BoardOK(b)
        <5> HIDE DEF r
        <5> QED BY <1>4, <3>2, MoverOK, MovePieceOK
      <4> QED BY <1>4, <3>1, <3>2, <4>1, MoverOK, MoverNotOnTarget DEF At
    <3>4. p \in DOMAIN b => b[p] = board[p]
      <4> HIDE DEF r
      <4> QED BY <2>1, <3>2, <3>3 DEF MovePiece
    <3>5. DOMAIN b \subseteq DOMAIN board
      BY <3>2, <3>3
    <3> HIDE DEF b
    <3> QED BY <1>1, <2>4, <3>1, <3>3, <3>4, <3>5
  <2> QED BY <1>4, <2>2, <2>3, <2>5, <2>6, <2>7
<1>5. CASE ResolveMove
  BY <1>4, <1>5 DEF ResolveMove, SkipMove, DropOrphanMove, Blocked, CounterKill, CaptureTarget,
                    Arrive, Enters, Advance, EndMoves
<1>6. CASE Requests
  BY <1>2, <1>6 DEF Requests, Start, Stop, QueuePremove, RequestMove, TryJump
<1>7. CASE Tick \/ EraseMove \/ EndTick \/ LandJump
  BY <1>2, <1>7 DEF Tick, EraseMove, EndTick, LandJump
<1>8. CASE ExpireCooldown \/ ExpireShortRest
  BY <1>3, <1>8 DEF ExpireCooldown, ExpireShortRest
<1>9. CASE WaitNoOp \/ UNCHANGED vars
  BY <1>9 DEF WaitNoOp, vars
<1> QED BY <1>5, <1>6, <1>7, <1>8, <1>9 DEF Next, AdvanceTime, ResolveTimers

\* Ownership, for every starting position without knights, with what it rests on.
LEMMA OwnershipInvariant ==
  ASSUME NoKnights
  PROVE  Spec => [](TypeOK /\ OnePiecePerSquare /\ QueensReplacePawns /\ Owned(board, pendingMoves))
<1> DEFINE IInv == QueensReplacePawns /\ Owned(board, pendingMoves)
<1>1. Init => IInv
  <2>1. Init => QueensReplacePawns
    BY NumPiecesNat DEF Init, InitialBoard, QueensReplacePawns, QueenOf
  <2>2. Init => Owned(board, pendingMoves)
    BY DEF Init, Owned
  <2> QED BY <2>1, <2>2
<1>2. TypeOK /\ OnePiecePerSquare /\ IInv /\ [Next]_vars => IInv'
  BY NoKnights, QueensStep, OwnedStep
<1> HIDE DEF IInv
<1>3. Spec => []IInv
  BY <1>1, <1>2, TypeCorrect, SquaresAreExclusive, PTL DEF Spec
<1>4. IInv => QueensReplacePawns /\ Owned(board, pendingMoves)
  BY DEF IInv
<1> QED BY <1>3, <1>4, TypeCorrect, SquaresAreExclusive, PTL

\* On a board without knights, whoever is visited for an active move is the piece the move
\* was started for, and it is Moving: pieceAt(currentPos) and pieceId name the same piece.
THEOREM MovesAreOwned ==
  ASSUME NoKnights
  PROVE  Spec => []PendingOwned
<1>1. Owned(board, pendingMoves) => PendingOwned
  BY DEF Owned, PendingOwned, MovesOn
<1> QED BY <1>1, OwnershipInvariant, PTL

\* On a board without knights, a piece that rests, waits or is in the air stays where it is.
THEOREM OnlyMoversAreMoved ==
  ASSUME NoKnights
  PROVE  Spec => OnlyMoversMove
<1>1. TypeOK /\ OnePiecePerSquare /\ QueensReplacePawns /\ Owned(board, pendingMoves)
      /\ [Next]_vars
        => [\A p \in DOMAIN board \cap DOMAIN board' :
              board'[p].pos # board[p].pos => board[p].state = "Moving"]_vars
  BY MoversStep
<1> QED BY <1>1, OwnershipInvariant, PTL DEF Spec, OnlyMoversMove
-----------------------------------------------------------------------------
(* Without knights, nothing is left over *)

Unique(entries) ==
  \A i, j \in 1 .. Len(entries) : entries[i].pieceId = entries[j].pieceId => i = j
UniqueTimers == Unique(cooldowns) /\ Unique(airborneEntries) /\ Unique(shortRestEntries)

\* A piece in state s with these timers and premoves: a jump that was cut short by a
\* counter-kill leaves its entry behind for a while.
Suits(p, s) ==
  /\ Timed(cooldowns, p) => s = "Cooldown"
  /\ Timed(airborneEntries, p) => s \in {"Airborne", "ShortRest"}
  /\ Timed(shortRestEntries, p) => s = "ShortRest"
  /\ p \in DOMAIN premoves => s \in {"Cooldown", "ShortRest"}
AllSuit == \A p \in DOMAIN board : Suits(p, board[p].state)

\* No timer and no premove waits for a queen that is still to come.
Seen(p) ==
  \/ Timed(cooldowns, p) \/ Timed(airborneEntries, p) \/ Timed(shortRestEntries, p)
  \/ p \in DOMAIN premoves
QueensAreNew == \A p \in 1 .. NumPieces : p \in DOMAIN board => ~Seen(QueenOf(p))

\* The entry a jump leaves behind expires before the rest does: 700 <= 750.
EndsFirst(air, rests) ==
  \A i \in 1 .. Len(air) :
    /\ air[i].left <= AirborneMs
    /\ \A j \in 1 .. Len(rests) :
         rests[j].pieceId = air[i].pieceId => air[i].left <= rests[j].left

TimersClean == UniqueTimers /\ AllSuit /\ EndsFirst(airborneEntries, shortRestEntries)

\* A list with one more entry.
LEMMA AppendUnique ==
  ASSUME NEW s \in Seq(TimerEntry), NEW p \in PieceIds, NEW n \in Int
  PROVE  /\ Unique(s) /\ ~Timed(s, p) => Unique(Append(s, [pieceId |-> p, left |-> n]))
         /\ \A q : Timed(Append(s, [pieceId |-> p, left |-> n]), q) => q = p \/ Timed(s, q)
<1> DEFINE e == [pieceId |-> p, left |-> n]
           t == Append(s, e)
<1>1. Len(s) \in Nat /\ Len(t) = Len(s) + 1 /\ \A i \in 1 .. Len(s) : t[i] = s[i]
  BY LenProperties, AppendProperties DEF TimerEntry
<1>2. t[Len(s) + 1].pieceId = p
  BY AppendProperties DEF TimerEntry
<1> HIDE DEF t
<1>3. \A i \in 1 .. Len(t) : i \in 1 .. Len(s) \/ i = Len(s) + 1
  BY <1>1
<1>4. Unique(s) /\ ~Timed(s, p) => Unique(t)
  BY <1>1, <1>2, <1>3 DEF Unique, Timed
<1>5. \A q : Timed(t, q) => q = p \/ Timed(s, q)
  BY <1>1, <1>2, <1>3 DEF Timed
<1> QED BY <1>4, <1>5 DEF t

\* A list with one entry less.
LEMMA WithoutUnique ==
  ASSUME NEW s \in Seq(TimerEntry), NEW i \in 1 .. Len(s)
  PROVE  /\ Unique(s) => Unique(Without(s, i)) /\ ~Timed(Without(s, i), s[i].pieceId)
         /\ \A q : Timed(Without(s, i), q) => Timed(s, q)
<1> DEFINE w == Without(s, i)
           old == [k \in 1 .. Len(s) - 1 |-> IF k < i THEN k ELSE k + 1]
<1>1. Len(s) \in Nat /\ Len(w) = Len(s) - 1
      /\ \A k \in 1 .. Len(s) - 1 : w[k] = IF k < i THEN s[k] ELSE s[k + 1]
  BY LenProperties, WithoutOK
<1> HIDE DEF w
<1>2. \A k \in 1 .. Len(w) : w[k] = s[old[k]] /\ old[k] \in 1 .. Len(s) /\ old[k] # i
  BY <1>1
<1>3. \A k, l \in 1 .. Len(w) : old[k] = old[l] => k = l
  BY <1>1
<1> HIDE DEF old
<1>4. Unique(s) => Unique(w)
  BY <1>2, <1>3 DEF Unique
<1>5. Unique(s) => ~Timed(w, s[i].pieceId)
  BY <1>2 DEF Unique, Timed
<1>6. \A q : Timed(w, q) => Timed(s, q)
  BY <1>2 DEF Timed
<1> QED BY <1>4, <1>5, <1>6 DEF w

\* The clock changes whose entries there are as little as who has one.
LEMMA ElapseUnique ==
  ASSUME NEW s \in Seq(TimerEntry)
  PROVE  /\ Unique(s) => Unique(ElapseEntries(s))
         /\ \A q : Timed(ElapseEntries(s), q) <=> Timed(s, q)
<1>1. Unique(s) => Unique(ElapseEntries(s))
  BY ElapseEntriesOK DEF Unique
<1>2. \A q : Timed(ElapseEntries(s), q) <=> Timed(s, q)
  BY ElapseEntriesOK DEF Timed
<1> QED BY <1>1, <1>2

\* Deadlines keep their order while time passes.
LEMMA ElapseEndsFirst ==
  ASSUME NEW a \in Seq(TimerEntry), NEW r \in Seq(TimerEntry), EndsFirst(a, r)
  PROVE  EndsFirst(ElapseEntries(a), ElapseEntries(r))
<1>1. \A m, n \in Int : m <= n => Elapse(m) <= Elapse(n)
  BY DEF Elapse, Missed
<1>2. AirborneMs \in Nat \ {0}
  BY TimingAssumption DEF TimingAssumption
<1>3. \A n \in Int : n <= AirborneMs => Elapse(n) <= AirborneMs
  BY <1>2 DEF Elapse, Missed
<1>4. /\ \A i \in 1 .. Len(a) : a[i].left \in Int
      /\ \A j \in 1 .. Len(r) : r[j].left \in Int
  BY EntryFields
<1>5. /\ Len(ElapseEntries(a)) = Len(a)
      /\ \A i \in 1 .. Len(a) : /\ ElapseEntries(a)[i].pieceId = a[i].pieceId
                                /\ ElapseEntries(a)[i].left = Elapse(a[i].left)
  BY ElapseEntriesOK
<1>6. /\ Len(ElapseEntries(r)) = Len(r)
      /\ \A i \in 1 .. Len(r) : /\ ElapseEntries(r)[i].pieceId = r[i].pieceId
                                /\ ElapseEntries(r)[i].left = Elapse(r[i].left)
  BY ElapseEntriesOK
<1> DEFINE u == ElapseEntries(a)
           v == ElapseEntries(r)
<1> HIDE DEF u, v
<1>7. ASSUME NEW i \in 1 .. Len(a)
      PROVE  /\ Elapse(a[i].left) <= AirborneMs
             /\ \A j \in 1 .. Len(r) :
                  r[j].pieceId = a[i].pieceId => Elapse(a[i].left) <= Elapse(r[j].left)
  BY <1>1, <1>3, <1>4 DEF EndsFirst
<1>8. EndsFirst(u, v)
  BY <1>5, <1>6, <1>7 DEF EndsFirst, u, v
<1> QED BY <1>8 DEF u, v

\* A rest that begins outlasts the jump that came before it.
LEMMA RestEndsLater ==
  ASSUME NEW a \in Seq(TimerEntry), NEW r \in Seq(TimerEntry), EndsFirst(a, r), NEW p \in PieceIds
  PROVE  EndsFirst(a, Append(r, [pieceId |-> p, left |-> ShortRestMs]))
<1> DEFINE e == [pieceId |-> p, left |-> ShortRestMs]
           t == Append(r, e)
<1>0. AirborneMs \in Int /\ ShortRestMs \in Int /\ AirborneMs <= ShortRestMs
  BY TimingAssumption DEF TimingAssumption
<1>1. Len(r) \in Nat /\ Len(t) = Len(r) + 1 /\ \A i \in 1 .. Len(r) : t[i] = r[i]
  BY <1>0, LenProperties, AppendProperties DEF TimerEntry
<1>2. t[Len(r) + 1].left = ShortRestMs
  BY <1>0, AppendProperties DEF TimerEntry
<1> HIDE DEF t
<1>3. \A j \in 1 .. Len(t) : j \in 1 .. Len(r) \/ j = Len(r) + 1
  BY <1>1
<1>4. EndsFirst(a, t)
  BY <1>0, <1>1, <1>2, <1>3, EntryFields DEF EndsFirst
<1> QED BY <1>4 DEF t

\* A jump begins for a piece that does not rest.
LEMMA JumpEndsFirst ==
  ASSUME NEW a \in Seq(TimerEntry), NEW r, EndsFirst(a, r), NEW p \in PieceIds, ~Timed(r, p)
  PROVE  EndsFirst(Append(a, [pieceId |-> p, left |-> AirborneMs]), r)
<1> DEFINE e == [pieceId |-> p, left |-> AirborneMs]
           t == Append(a, e)
<1>0. AirborneMs \in Int
  BY TimingAssumption DEF TimingAssumption
<1>1. Len(a) \in Nat /\ Len(t) = Len(a) + 1 /\ \A i \in 1 .. Len(a) : t[i] = a[i]
  BY <1>0, LenProperties, AppendProperties DEF TimerEntry
<1>2. t[Len(a) + 1].left = AirborneMs /\ t[Len(a) + 1].pieceId = p
  BY <1>0, AppendProperties DEF TimerEntry
<1> HIDE DEF t
<1>3. \A j \in 1 .. Len(t) : j \in 1 .. Len(a) \/ j = Len(a) + 1
  BY <1>1
<1>4. EndsFirst(t, r)
  BY <1>0, <1>1, <1>2, <1>3 DEF EndsFirst, Timed
<1> QED BY <1>4 DEF t

\* Entries that go take no order with them.
LEMMA FewerEndFirst ==
  ASSUME NEW a \in Seq(TimerEntry), NEW r \in Seq(TimerEntry), EndsFirst(a, r)
  PROVE  /\ \A i \in 1 .. Len(a) : EndsFirst(Without(a, i), r)
         /\ \A i \in 1 .. Len(r) : EndsFirst(a, Without(r, i))
<1>1. ASSUME NEW i \in 1 .. Len(a) PROVE EndsFirst(Without(a, i), r)
  <2>1. \A k \in 1 .. Len(Without(a, i)) : \E j \in 1 .. Len(a) : j # i /\ Without(a, i)[k] = a[j]
    BY WithoutKeeps
  <2> QED BY <2>1 DEF EndsFirst
<1>2. ASSUME NEW i \in 1 .. Len(r) PROVE EndsFirst(a, Without(r, i))
  <2>1. \A k \in 1 .. Len(Without(r, i)) : \E j \in 1 .. Len(r) : j # i /\ Without(r, i)[k] = r[j]
    BY WithoutKeeps
  <2> QED BY <2>1 DEF EndsFirst
<1> QED BY <1>1, <1>2

\* A step that concerns one piece: whoever else is on the board afterwards was there, in
\* the same state and with no more timers or premoves.
Concerns(p) ==
  \A q \in DOMAIN board' \ {p} :
    /\ q \in DOMAIN board /\ board'[q].state = board[q].state
    /\ Timed(cooldowns', q) => Timed(cooldowns, q)
    /\ Timed(airborneEntries', q) => Timed(airborneEntries, q)
    /\ Timed(shortRestEntries', q) => Timed(shortRestEntries, q)
    /\ q \in DOMAIN premoves' => q \in DOMAIN premoves

LEMMA ConcernsSuits ==
  ASSUME AllSuit, NEW p, Concerns(p),
         p \in DOMAIN board' =>
           /\ Timed(cooldowns', p) => board'[p].state = "Cooldown"
           /\ Timed(airborneEntries', p) => board'[p].state \in {"Airborne", "ShortRest"}
           /\ Timed(shortRestEntries', p) => board'[p].state = "ShortRest"
           /\ p \in DOMAIN premoves' => board'[p].state \in {"Cooldown", "ShortRest"}
  PROVE  AllSuit'
  BY DEF AllSuit, Suits, Concerns

\* Timers and premoves change for pieces on the board only.
LEMMA SeenStep ==
  ASSUME TypeOK, [Next]_vars, NEW q, Seen(q)'
  PROVE  Seen(q) \/ q \in DOMAIN board
<1>1. /\ cooldowns \in Seq(TimerEntry) /\ airborneEntries \in Seq(TimerEntry)
      /\ shortRestEntries \in Seq(TimerEntry) /\ DOMAIN board \subseteq PieceIds
      /\ CooldownMs \in Int /\ AirborneMs \in Int /\ ShortRestMs \in Int
  BY TimingAssumption DEF TypeOK, BoardOK, TimingAssumption
<1>2. CASE UNCHANGED <<cooldowns, airborneEntries, shortRestEntries, premoves>>
  BY <1>2 DEF Seen
<1>3. CASE Tick
  BY <1>1, <1>3, ElapseUnique DEF Tick, Seen
<1>4. ASSUME NEW from \in Cells, NEW to \in PremoveTargets, QueuePremove(from, to)
      PROVE  Seen(q) \/ q \in DOMAIN board
  <2>1. Occupant(board, from) \in DOMAIN board
    BY <1>4, OccupantAt DEF QueuePremove
  <2>2. DOMAIN premoves' = DOMAIN premoves \cup {Occupant(board, from)}
    BY <1>4 DEF QueuePremove
  <2> QED BY <1>4, <2>1, <2>2 DEF QueuePremove, Seen
<1>5. ASSUME NEW cell \in Cells, TryJump(cell)
      PROVE  Seen(q) \/ q \in DOMAIN board
  <2> DEFINE p == Occupant(board, cell)
  <2>1. /\ p \in DOMAIN board
        /\ airborneEntries' = Append(airborneEntries, [pieceId |-> p, left |-> AirborneMs])
        /\ UNCHANGED <<cooldowns, shortRestEntries, premoves>>
    BY <1>5, OccupantAt DEF TryJump
  <2> HIDE DEF p
  <2> QED BY <1>1, <2>1, AppendUnique DEF Seen
<1>6. CASE CounterKill
  <2>1. /\ TargetPiece \in DOMAIN board
        /\ shortRestEntries' =
             Append(shortRestEntries, [pieceId |-> TargetPiece, left |-> ShortRestMs])
        /\ UNCHANGED <<cooldowns, airborneEntries, premoves>>
    BY <1>6, MoverOK DEF CounterKill, MeetsAirborne, TargetIsEnemy
  <2> QED BY <1>1, <2>1, AppendUnique DEF Seen
<1>7. CASE CaptureTarget \/ Arrive
  <2>1. Mover \in DOMAIN board
    BY <1>7, MoverOK DEF CaptureTarget, Arrive, Enters
  <2>2. \A b : ArriveOn(b, Mover)
          => cooldowns' = Append(cooldowns, [pieceId |-> Mover, left |-> CooldownMs])
    BY DEF ArriveOn
  <2>3. cooldowns' = cooldowns
        \/ cooldowns' = Append(cooldowns, [pieceId |-> Mover, left |-> CooldownMs])
    BY <1>7, <2>2 DEF CaptureTarget, Arrive
  <2>4. UNCHANGED <<airborneEntries, shortRestEntries, premoves>>
    BY <1>7 DEF CaptureTarget, Arrive
  <2> QED BY <1>1, <2>1, <2>3, <2>4, AppendUnique DEF Seen
<1>8. ASSUME NEW p, NEW resting, EndRest(p, resting)
      PROVE  q \in DOMAIN premoves' => q \in DOMAIN premoves
  BY <1>8 DEF EndRest, Spent
<1>9. CASE ExpireCooldown
  BY <1>1, <1>8, <1>9, WithoutUnique DEF ExpireCooldown, Seen
<1>10. CASE ExpireShortRest
  BY <1>1, <1>8, <1>10, WithoutUnique DEF ExpireShortRest, Seen
<1>11. CASE LandJump
  <2>1. PICK i \in 1 .. Len(airborneEntries) :
          LET p == airborneEntries[i].pieceId
          IN  /\ airborneEntries' = Without(airborneEntries, i)
              /\ IF p \in DOMAIN board /\ board[p].state = "Airborne"
                 THEN /\ board' = SetState(board, p, "ShortRest")
                      /\ shortRestEntries' =
                           Append(shortRestEntries, [pieceId |-> p, left |-> ShortRestMs])
                 ELSE UNCHANGED <<board, shortRestEntries>>
    BY <1>11 DEF LandJump
  <2>2. UNCHANGED <<cooldowns, premoves>>
    BY <1>11 DEF LandJump
  <2>3. Timed(airborneEntries', q) => Timed(airborneEntries, q)
    BY <1>1, <2>1, WithoutUnique
  <2>4. Timed(shortRestEntries', q) => Timed(shortRestEntries, q) \/ q \in DOMAIN board
    <3> DEFINE p == airborneEntries[i].pieceId
    <3>1. \/ shortRestEntries' = shortRestEntries
          \/ /\ p \in DOMAIN board
             /\ shortRestEntries' =
                  Append(shortRestEntries, [pieceId |-> p, left |-> ShortRestMs])
      BY <2>1
    <3> HIDE DEF p
    <3>2. ASSUME p \in DOMAIN board, Timed(shortRestEntries', q),
                 shortRestEntries' =
                   Append(shortRestEntries, [pieceId |-> p, left |-> ShortRestMs])
          PROVE  q = p \/ Timed(shortRestEntries, q)
      BY <1>1, <3>2, AppendUnique
    <3> QED BY <3>1, <3>2
  <2> QED BY <2>2, <2>3, <2>4 DEF Seen
<1>12. CASE Start \/ Stop \/ \E from, to \in Cells : RequestMove(from, to)
  BY <1>2, <1>12 DEF Start, Stop, RequestMove, arbiterVars
<1>13. CASE SkipMove \/ DropOrphanMove \/ Blocked \/ Advance \/ EndMoves \/ EraseMove \/ EndTick
  BY <1>2, <1>13 DEF SkipMove, DropOrphanMove, Blocked, Advance, EndMoves, EraseMove, EndTick,
                     arbiterVars
<1>14. CASE WaitNoOp \/ UNCHANGED vars
  BY <1>2, <1>14 DEF WaitNoOp, vars, arbiterVars
<1> QED BY <1>3, <1>4, <1>5, <1>6, <1>7, <1>9, <1>10, <1>11, <1>12, <1>13, <1>14
        DEF Next, Requests, AdvanceTime, ResolveMove, ResolveTimers

\* So a queen starts with a clean sheet.
LEMMA QueensAreNewStep ==
  ASSUME TypeOK, OnePiecePerSquare, QueensReplacePawns, QueensAreNew, [Next]_vars
  PROVE  QueensAreNew'
<1>1. DOMAIN board \subseteq PieceIds /\ NumPieces \in Nat
  BY NumPiecesNat DEF TypeOK, BoardOK
<1>2. ASSUME NEW d, d \subseteq DOMAIN board, SameMen(d, DOMAIN board'),
             NEW p \in 1 .. NumPieces, p \in DOMAIN board'
      PROVE  p \in DOMAIN board
  <2>1. ASSUME NEW r \in d, p = QueenOf(r) PROVE FALSE
    <3>1. r \in 1 .. 2 * NumPieces /\ p = r + NumPieces
      BY <1>1, <1>2, <2>1 DEF PieceIds, QueenOf
    <3> QED BY <1>1, <3>1
  <2> QED BY <1>2, <2>1 DEF SameMen
<1>3. \A p \in 1 .. NumPieces : p \in DOMAIN board' => p \in DOMAIN board
  <2>1. CASE TakesOne \/ Keeps
    BY <1>2, <2>1 DEF TakesOne, Takes, Keeps
  <2>2. CASE UNCHANGED vars \/ Start \/ Stop
    BY <2>2 DEF vars, Start, Stop
  <2> QED BY <2>1, <2>2, StepOutcome
<1>4. \A p \in 1 .. NumPieces : p \in DOMAIN board => QueenOf(p) \notin DOMAIN board
  BY DEF QueensReplacePawns
<1> QED BY <1>3, <1>4, SeenStep DEF QueensAreNew

\* A visit that ends in an arrival begins the one rest of a piece that was Moving; a queen
\* that comes has none.
LEMMA ArriveOnClean ==
  ASSUME TypeOK, QueensAreNew, TimersClean, NEW p \in DOMAIN board, board[p].state = "Moving",
         NEW b, BoardOK(b), DOMAIN b \subseteq DOMAIN board, p \in DOMAIN b,
         \A q \in DOMAIN b : b[q].state = board[q].state, ArriveOn(b, p),
         UNCHANGED <<airborneEntries, shortRestEntries, premoves>>
  PROVE  TimersClean'
<1>1. /\ cooldowns \in Seq(TimerEntry) /\ p \in PieceIds /\ CooldownMs \in Int
      /\ cooldowns' = Append(cooldowns, [pieceId |-> p, left |-> CooldownMs])
  BY TimingAssumption DEF TypeOK, BoardOK, TimingAssumption, ArriveOn
<1>2. /\ ~Timed(cooldowns, p) /\ ~Timed(airborneEntries, p) /\ ~Timed(shortRestEntries, p)
      /\ p \notin DOMAIN premoves
  BY DEF TimersClean, AllSuit, Suits
<1>3. Unique(cooldowns') /\ \A q : Timed(cooldowns', q) => q = p \/ Timed(cooldowns, q)
  BY <1>1, <1>2, AppendUnique DEF TimersClean, UniqueTimers
<1>4. CASE board' = SetState(b, p, "Cooldown")
  <2>1. DOMAIN board' = DOMAIN b /\ board'[p].state = "Cooldown"
        /\ \A q \in DOMAIN b : q # p => board'[q].state = b[q].state
    BY <1>4 DEF SetState, BoardOK
  <2>2. Concerns(p)
    BY <1>3, <2>1 DEF Concerns
  <2>3. AllSuit'
    BY <1>2, <2>1, <2>2, ConcernsSuits DEF TimersClean
  <2> QED BY <1>3, <2>3 DEF TimersClean, UniqueTimers, EndsFirst
<1>5. CASE TypeOf(p) = "Pawn" /\ board' = PromotePawn(b, p)
  <2> DEFINE queen == QueenOf(p)
  <2>1. DOMAIN board' = (DOMAIN b \ {p}) \cup {queen}
        /\ \A q \in DOMAIN b \ {p} : q # queen => board'[q].state = b[q].state
    BY <1>5 DEF PromotePawn
  <2>2. queen # p /\ ~Seen(queen)
    BY <1>1, <1>5, QueenId, PieceTyping DEF QueensAreNew
  <2>3. Concerns(queen)
    BY <1>3, <2>1 DEF Concerns
  <2>4. ~Timed(cooldowns', queen) /\ ~Timed(airborneEntries, queen)
        /\ ~Timed(shortRestEntries, queen) /\ queen \notin DOMAIN premoves
    BY <1>3, <2>2 DEF Seen
  <2>5. AllSuit'
    <3> HIDE DEF queen
    <3> QED BY <2>3, <2>4, ConcernsSuits DEF TimersClean
  <2> QED BY <1>3, <2>5 DEF TimersClean, UniqueTimers, EndsFirst
<1> QED BY <1>4, <1>5 DEF ArriveOn

\* A rest that ends leaves nothing of it: neither its entry, nor that of the jump before it,
\* nor a premove.
LEMMA EndRestClean ==
  ASSUME TypeOK, TimersClean, NEW p, NEW resting \in {"Cooldown", "ShortRest"},
         EndRest(p, resting), p \in DOMAIN board => board[p].state = resting,
         UniqueTimers', EndsFirst(airborneEntries, shortRestEntries)',
         p \in DOMAIN board =>
           ~Timed(cooldowns', p) /\ ~Timed(airborneEntries', p) /\ ~Timed(shortRestEntries', p),
         \A q : /\ Timed(cooldowns', q) => Timed(cooldowns, q)
                /\ Timed(airborneEntries', q) => Timed(airborneEntries, q)
                /\ Timed(shortRestEntries', q) => Timed(shortRestEntries, q)
  PROVE  TimersClean'
<1>1. BoardOK(board)
  BY DEF TypeOK
<1>2. CASE p \notin DOMAIN board
  <2>1. UNCHANGED <<board, premoves>>
    BY <1>2 DEF EndRest
  <2>2. Concerns(p)
    BY <2>1 DEF Concerns
  <2>3. AllSuit'
    BY <1>2, <2>1, <2>2, ConcernsSuits DEF TimersClean
  <2> QED BY <2>3 DEF TimersClean
<1>3. CASE p \in DOMAIN board
  <2> DEFINE idle == SetState(board, p, "Idle")
  <2>1. DOMAIN premoves' = DOMAIN premoves \ {p}
        /\ (board' = idle \/ board' = SetState(idle, p, "Moving"))
    BY <1>3 DEF EndRest, Spent
  <2>2. BoardOK(idle) /\ DOMAIN idle = DOMAIN board
        /\ \A q \in DOMAIN board : q # p => idle[q].state = board[q].state
    BY <1>1, SetStateOK DEF SetState, BoardOK, PieceStates
  <2> HIDE DEF idle
  <2>3. DOMAIN board' = DOMAIN board
        /\ \A q \in DOMAIN board : q # p => board'[q].state = board[q].state
    BY <2>1, <2>2 DEF SetState, BoardOK
  <2>4. Concerns(p)
    BY <2>1, <2>3 DEF Concerns
  <2>5. AllSuit'
    BY <1>3, <2>1, <2>4, ConcernsSuits DEF TimersClean
  <2> QED BY <2>5 DEF TimersClean
<1> QED BY <1>2, <1>3

\* A jump that ends: the piece rests, unless a counter-kill has set it down before.
LEMMA LandJumpClean ==
  ASSUME TypeOK, TimersClean, LandJump
  PROVE  TimersClean'
<1>1. PICK i \in 1 .. Len(airborneEntries) :
        LET p == airborneEntries[i].pieceId
        IN  /\ airborneEntries' = Without(airborneEntries, i)
            /\ IF p \in DOMAIN board /\ board[p].state = "Airborne"
               THEN /\ board' = SetState(board, p, "ShortRest")
                    /\ shortRestEntries' =
                         Append(shortRestEntries, [pieceId |-> p, left |-> ShortRestMs])
               ELSE UNCHANGED <<board, shortRestEntries>>
  BY DEF LandJump
<1> DEFINE p == airborneEntries[i].pieceId
<1>2. /\ BoardOK(board) /\ airborneEntries \in Seq(TimerEntry)
      /\ shortRestEntries \in Seq(TimerEntry) /\ p \in PieceIds /\ ShortRestMs \in Int
  BY EntryFields, TimingAssumption DEF TypeOK, TimingAssumption
<1>3. UNCHANGED <<cooldowns, premoves>>
  BY DEF LandJump
<1>4. /\ Unique(airborneEntries') /\ ~Timed(airborneEntries', p)
      /\ \A q : Timed(airborneEntries', q) => Timed(airborneEntries, q)
      /\ airborneEntries' \in Seq(TimerEntry)
  BY <1>1, <1>2, WithoutUnique, WithoutEntry DEF TimersClean, UniqueTimers
<1>5. EndsFirst(airborneEntries', shortRestEntries)
  BY <1>1, <1>2, FewerEndFirst DEF TimersClean
<1>6. CASE p \in DOMAIN board /\ board[p].state = "Airborne"
  <2>1. /\ board' = SetState(board, p, "ShortRest")
        /\ shortRestEntries' = Append(shortRestEntries, [pieceId |-> p, left |-> ShortRestMs])
    BY <1>1, <1>6
  <2>2. DOMAIN board' = DOMAIN board /\ board'[p].state = "ShortRest"
        /\ \A q \in DOMAIN board : q # p => board'[q].state = board[q].state
    BY <1>2, <1>6, <2>1 DEF SetState, BoardOK
  <2>3. ~Timed(cooldowns, p) /\ ~Timed(shortRestEntries, p)
    BY <1>6 DEF TimersClean, AllSuit, Suits
  <2> HIDE DEF p
  <2>4. /\ Unique(shortRestEntries')
        /\ \A q : Timed(shortRestEntries', q) => q = p \/ Timed(shortRestEntries, q)
    BY <1>2, <2>1, <2>3, AppendUnique DEF TimersClean, UniqueTimers
  <2>5. EndsFirst(airborneEntries', shortRestEntries')
    BY <1>2, <1>4, <1>5, <2>1, RestEndsLater
  <2>6. Concerns(p)
    BY <1>3, <1>4, <2>2, <2>4 DEF Concerns
  <2>7. AllSuit'
    BY <1>3, <1>4, <2>2, <2>3, <2>6, ConcernsSuits DEF TimersClean
  <2> QED BY <1>3, <1>4, <2>4, <2>5, <2>7 DEF TimersClean, UniqueTimers
<1>7. CASE ~(p \in DOMAIN board /\ board[p].state = "Airborne")
  <2>1. UNCHANGED <<board, shortRestEntries>>
    BY <1>1, <1>7
  <2> HIDE DEF p
  <2>2. AllSuit'
    BY <1>3, <1>4, <2>1 DEF TimersClean, AllSuit, Suits
  <2> QED BY <1>3, <1>4, <1>5, <2>1, <2>2 DEF TimersClean, UniqueTimers
<1> QED BY <1>6, <1>7

\* The visits of advanceTime: a rest begins for whoever arrives or survives a counter-kill.
LEMMA ResolveMoveClean ==
  ASSUME NoKnights, TypeOK, OnePiecePerSquare, QueensAreNew, Owned(board, pendingMoves),
         TimersClean, ~kingCaptured', ResolveMove
  PROVE  TimersClean'
<1>1. /\ BoardOK(board) /\ shortRestEntries \in Seq(TimerEntry)
      /\ airborneEntries \in Seq(TimerEntry) /\ ShortRestMs \in Int
      /\ DOMAIN board \subseteq PieceIds
  BY TimingAssumption DEF TypeOK, BoardOK, TimingAssumption
<1>2. CASE UNCHANGED <<board, cooldowns, airborneEntries, shortRestEntries, premoves>>
  BY <1>2 DEF TimersClean, UniqueTimers, AllSuit, Suits
<1>3. VisitingPiece => Mover \in DOMAIN board /\ board[Mover].state = "Moving"
  BY MoverOK, CurrentOwned
<1>4. CASE Blocked
  <2>1. /\ VisitingPiece /\ board' = SetState(board, Mover, "Idle")
        /\ UNCHANGED <<cooldowns, airborneEntries, shortRestEntries, premoves>>
    BY <1>4 DEF Blocked
  <2>2. DOMAIN board' = DOMAIN board
        /\ \A q \in DOMAIN board : q # Mover => board'[q].state = board[q].state
    BY <1>1, <2>1 DEF SetState, BoardOK
  <2>3. Concerns(Mover)
    BY <2>1, <2>2 DEF Concerns
  <2>4. /\ ~Timed(cooldowns, Mover) /\ ~Timed(airborneEntries, Mover)
        /\ ~Timed(shortRestEntries, Mover) /\ Mover \notin DOMAIN premoves
    BY <1>3, <2>1 DEF TimersClean, AllSuit, Suits
  <2>5. AllSuit'
    BY <2>1, <2>3, <2>4, ConcernsSuits DEF TimersClean
  <2> QED BY <2>1, <2>5 DEF TimersClean, UniqueTimers
<1>5. CASE CounterKill
  <2> DEFINE r == RemovePiece(board, Current.currentPos)
  <2>1. /\ VisitingPiece /\ TargetPiece \in DOMAIN board
        /\ board[TargetPiece].state = "Airborne"
        /\ board' = SetState(r, TargetPiece, "ShortRest")
        /\ shortRestEntries' =
             Append(shortRestEntries, [pieceId |-> TargetPiece, left |-> ShortRestMs])
        /\ UNCHANGED <<cooldowns, airborneEntries, premoves>>
    BY <1>5, MoverOK DEF CounterKill, MeetsAirborne, TargetIsEnemy
  <2>2. BoardOK(r) /\ DOMAIN r \subseteq DOMAIN board /\ \A q \in DOMAIN r : r[q] = board[q]
    BY <1>1, RemovePieceOK DEF RemovePiece
  <2> HIDE DEF r
  <2>3. DOMAIN board' = DOMAIN r
        /\ (TargetPiece \in DOMAIN r => board'[TargetPiece].state = "ShortRest")
        /\ \A q \in DOMAIN r : q # TargetPiece => board'[q].state = board[q].state
    BY <2>1, <2>2 DEF SetState, BoardOK
  <2>4. /\ ~Timed(cooldowns, TargetPiece) /\ ~Timed(shortRestEntries, TargetPiece)
        /\ TargetPiece \notin DOMAIN premoves
    BY <2>1 DEF TimersClean, AllSuit, Suits
  <2>5. /\ Unique(shortRestEntries')
        /\ \A q : Timed(shortRestEntries', q) => q = TargetPiece \/ Timed(shortRestEntries, q)
    BY <1>1, <2>1, <2>4, AppendUnique DEF TimersClean, UniqueTimers
  <2>6. EndsFirst(airborneEntries, shortRestEntries')
    BY <1>1, <2>1, RestEndsLater DEF TimersClean
  <2>7. Concerns(TargetPiece)
    BY <2>1, <2>2, <2>3, <2>5 DEF Concerns
  <2>8. AllSuit'
    BY <2>1, <2>3, <2>4, <2>7, ConcernsSuits DEF TimersClean
  <2> QED BY <2>1, <2>5, <2>6, <2>8 DEF TimersClean, UniqueTimers
<1>6. CASE Arrive
  <2> DEFINE b == MovePiece(board, Current.currentPos, Target)
  <2>1. /\ VisitingPiece /\ ArriveOn(b, Mover)
        /\ UNCHANGED <<airborneEntries, shortRestEntries, premoves>>
    BY <1>6 DEF Arrive, Enters
  <2>2. BoardOK(b) /\ DOMAIN b = DOMAIN board
    BY <1>1, <2>1, MoverOK, MovePieceOK
  <2>3. \A q \in DOMAIN board : b[q].state = board[q].state
    BY <1>1 DEF MovePiece, BoardOK
  <2> HIDE DEF b
  <2> QED BY <1>3, <2>1, <2>2, <2>3, ArriveOnClean
<1>7. CASE Advance
  <2>1. /\ UNCHANGED <<cooldowns, airborneEntries, shortRestEntries, premoves>>
        /\ DOMAIN board' = DOMAIN board
        /\ \A q \in DOMAIN board : board'[q].state = board[q].state
    BY <1>1, <1>7 DEF Advance, MovePiece, BoardOK
  <2> QED BY <2>1 DEF TimersClean, UniqueTimers, AllSuit, Suits
<1>8. CASE CaptureTarget
  <2> DEFINE r == RemovePiece(board, Target)
             b == MovePiece(r, Current.currentPos, Target)
  <2>1. /\ VisitingPiece /\ TargetIsEnemy /\ Occupied(board, Target) /\ ArriveOn(b, Mover)
        /\ UNCHANGED <<airborneEntries, shortRestEntries, premoves>>
    BY <1>8 DEF CaptureTarget, TargetIsEnemy
  <2>2. DOMAIN r = DOMAIN board \ At(board, Target) /\ BoardOK(r)
        /\ \A q \in DOMAIN r : r[q] = board[q]
    BY <1>1, RemovePieceOK DEF RemovePiece
  <2>3. DOMAIN b = DOMAIN r /\ BoardOK(b) /\ Mover \in DOMAIN b
    <3>1. DOMAIN b = DOMAIN r /\ BoardOK(b)
      <4> HIDE DEF r
      <4> QED BY <2>1, <2>2, MoverOK, MovePieceOK
    <3> QED BY <2>1, <2>2, <3>1, MoverOK, MoverNotOnTarget DEF At
  <2>4. \A q \in DOMAIN b : b[q].state = board[q].state
    <3> HIDE DEF r
    <3> QED BY <2>2, <2>3 DEF MovePiece, BoardOK
  <2>5. DOMAIN b \subseteq DOMAIN board
    BY <2>2, <2>3
  <2> HIDE DEF b
  <2> QED BY <1>3, <2>1, <2>3, <2>4, <2>5, ArriveOnClean
<1>9. CASE SkipMove \/ DropOrphanMove \/ EndMoves
  BY <1>2, <1>9 DEF SkipMove, DropOrphanMove, EndMoves, arbiterVars
<1> QED BY <1>4, <1>5, <1>6, <1>7, <1>8, <1>9 DEF ResolveMove

\* No step leaves anything over.
LEMMA TimersCleanStep ==
  ASSUME NoKnights, TypeOK, OnePiecePerSquare, QueensAreNew, Owned(board, pendingMoves),
         TimersInTime, TimersClean, ~kingCaptured, ~kingCaptured', [Next]_vars
  PROVE  TimersClean'
<1>1. /\ BoardOK(board) /\ cooldowns \in Seq(TimerEntry)
      /\ airborneEntries \in Seq(TimerEntry) /\ shortRestEntries \in Seq(TimerEntry)
      /\ DOMAIN board \subseteq PieceIds /\ AirborneMs \in Int
  BY TimingAssumption DEF TypeOK, BoardOK, TimingAssumption
<1>2. CASE UNCHANGED <<board, cooldowns, airborneEntries, shortRestEntries, premoves>>
  BY <1>2 DEF TimersClean, UniqueTimers, AllSuit, Suits
<1>3. ASSUME NEW from \in Cells, NEW to \in PremoveTargets, QueuePremove(from, to)
      PROVE  TimersClean'
  <2> DEFINE p == Occupant(board, from)
  <2>1. /\ p \in DOMAIN board /\ board[p].state \in {"Cooldown", "ShortRest"}
        /\ DOMAIN premoves' = DOMAIN premoves \cup {p}
        /\ UNCHANGED <<board, cooldowns, airborneEntries, shortRestEntries>>
    BY <1>3, OccupantAt DEF QueuePremove
  <2> HIDE DEF p
  <2>2. AllSuit'
    BY <2>1 DEF TimersClean, AllSuit, Suits
  <2> QED BY <2>1, <2>2 DEF TimersClean, UniqueTimers
<1>4. ASSUME NEW from \in Cells, NEW to \in Cells, RequestMove(from, to)
      PROVE  TimersClean'
  <2> DEFINE p == Occupant(board, from)
  <2>1. /\ p \in DOMAIN board /\ board[p].state = "Idle" /\ board' = SetState(board, p, "Moving")
        /\ UNCHANGED <<cooldowns, airborneEntries, shortRestEntries, premoves>>
    BY <1>4, OccupantAt DEF RequestMove
  <2> HIDE DEF p
  <2>2. DOMAIN board' = DOMAIN board
        /\ \A q \in DOMAIN board : q # p => board'[q].state = board[q].state
    BY <1>1, <2>1 DEF SetState, BoardOK
  <2>3. Concerns(p)
    BY <2>1, <2>2 DEF Concerns
  <2>4. /\ ~Timed(cooldowns, p) /\ ~Timed(airborneEntries, p)
        /\ ~Timed(shortRestEntries, p) /\ p \notin DOMAIN premoves
    BY <2>1 DEF TimersClean, AllSuit, Suits
  <2>5. AllSuit'
    BY <2>1, <2>3, <2>4, ConcernsSuits DEF TimersClean
  <2> QED BY <2>1, <2>5 DEF TimersClean, UniqueTimers
<1>5. ASSUME NEW cell \in Cells, TryJump(cell)
      PROVE  TimersClean'
  <2> DEFINE p == Occupant(board, cell)
  <2>1. /\ p \in DOMAIN board /\ board[p].state = "Idle"
        /\ board' = SetState(board, p, "Airborne")
        /\ airborneEntries' = Append(airborneEntries, [pieceId |-> p, left |-> AirborneMs])
        /\ UNCHANGED <<cooldowns, shortRestEntries, premoves>>
    BY <1>5, OccupantAt DEF TryJump
  <2> HIDE DEF p
  <2>2. DOMAIN board' = DOMAIN board /\ board'[p].state = "Airborne"
        /\ \A q \in DOMAIN board : q # p => board'[q].state = board[q].state
    BY <1>1, <2>1 DEF SetState, BoardOK
  <2>3. /\ ~Timed(cooldowns, p) /\ ~Timed(airborneEntries, p)
        /\ ~Timed(shortRestEntries, p) /\ p \notin DOMAIN premoves
    BY <2>1 DEF TimersClean, AllSuit, Suits
  <2>4. /\ Unique(airborneEntries')
        /\ \A q : Timed(airborneEntries', q) => q = p \/ Timed(airborneEntries, q)
    BY <1>1, <2>1, <2>3, AppendUnique DEF TimersClean, UniqueTimers
  <2>5. EndsFirst(airborneEntries', shortRestEntries)
    BY <1>1, <2>1, <2>3, JumpEndsFirst DEF TimersClean
  <2>6. Concerns(p)
    BY <2>1, <2>2, <2>4 DEF Concerns
  <2>7. AllSuit'
    BY <2>1, <2>2, <2>3, <2>6, ConcernsSuits DEF TimersClean
  <2> QED BY <2>1, <2>4, <2>5, <2>7 DEF TimersClean, UniqueTimers
<1>6. CASE Tick
  <2>1. /\ cooldowns' = ElapseEntries(cooldowns)
        /\ airborneEntries' = ElapseEntries(airborneEntries)
        /\ shortRestEntries' = ElapseEntries(shortRestEntries)
        /\ UNCHANGED <<board, premoves>>
    BY <1>6 DEF Tick
  <2>2. UniqueTimers'
    BY <1>1, <2>1, ElapseUnique DEF TimersClean, UniqueTimers
  <2>3. \A q : /\ Timed(cooldowns', q) <=> Timed(cooldowns, q)
               /\ Timed(airborneEntries', q) <=> Timed(airborneEntries, q)
               /\ Timed(shortRestEntries', q) <=> Timed(shortRestEntries, q)
    BY <1>1, <2>1, ElapseUnique
  <2>4. AllSuit'
    BY <2>1, <2>3 DEF TimersClean, AllSuit, Suits
  <2>5. EndsFirst(airborneEntries', shortRestEntries')
    BY <1>1, <2>1, ElapseEndsFirst DEF TimersClean
  <2> QED BY <2>2, <2>4, <2>5 DEF TimersClean
<1>7. CASE ResolveMove
  BY <1>7, ResolveMoveClean
<1>8. CASE ExpireCooldown
  <2>1. PICK i \in 1 .. Len(cooldowns) :
          cooldowns' = Without(cooldowns, i) /\ EndRest(cooldowns[i].pieceId, "Cooldown")
    BY <1>8 DEF ExpireCooldown
  <2> DEFINE p == cooldowns[i].pieceId
  <2>2. UNCHANGED <<airborneEntries, shortRestEntries>> /\ Timed(cooldowns, p)
    BY <1>8, <2>1 DEF ExpireCooldown, Timed
  <2>3. /\ Unique(cooldowns') /\ ~Timed(cooldowns', p)
        /\ \A q : Timed(cooldowns', q) => Timed(cooldowns, q)
    BY <1>1, <2>1, WithoutUnique DEF TimersClean, UniqueTimers
  <2>4. EndRest(p, "Cooldown")
    BY <2>1
  <2> HIDE DEF p
  <2>5. p \in DOMAIN board =>
          board[p].state = "Cooldown" /\ ~Timed(airborneEntries, p) /\ ~Timed(shortRestEntries, p)
    BY <2>2 DEF TimersClean, AllSuit, Suits
  <2>6. UniqueTimers' /\ EndsFirst(airborneEntries, shortRestEntries)'
    BY <2>2, <2>3 DEF TimersClean, UniqueTimers
  <2> QED BY <2>2, <2>3, <2>4, <2>5, <2>6, EndRestClean
<1>9. CASE ExpireShortRest
  <2>1. PICK i \in 1 .. Len(shortRestEntries) :
          /\ shortRestEntries[i].left = 0
          /\ shortRestEntries' = Without(shortRestEntries, i)
          /\ EndRest(shortRestEntries[i].pieceId, "ShortRest")
    BY <1>9 DEF ExpireShortRest, FirstDue
  <2> DEFINE p == shortRestEntries[i].pieceId
  <2>2. UNCHANGED <<cooldowns, airborneEntries>> /\ Timed(shortRestEntries, p)
        /\ NothingDue(airborneEntries) /\ phase = "timers"
    BY <1>9, <2>1 DEF ExpireShortRest, Timed
  <2>3. /\ Unique(shortRestEntries') /\ ~Timed(shortRestEntries', p)
        /\ \A q : Timed(shortRestEntries', q) => Timed(shortRestEntries, q)
    BY <1>1, <2>1, WithoutUnique DEF TimersClean, UniqueTimers
  <2>4. ~Timed(airborneEntries, p)
    <3>1. \A k \in 1 .. Len(airborneEntries) :
            airborneEntries[k].left \in Int /\ airborneEntries[k].left >= 1
      BY <1>1, <2>2, NothingDueInTime, EntryFields DEF TimersInTime
    <3>2. \A k \in 1 .. Len(airborneEntries) :
            airborneEntries[k].pieceId = p => airborneEntries[k].left <= 0
      BY <2>1 DEF TimersClean, EndsFirst
    <3> QED BY <3>1, <3>2 DEF Timed
  <2>5. EndRest(p, "ShortRest") /\ EndsFirst(airborneEntries, shortRestEntries')
    BY <1>1, <2>1, FewerEndFirst DEF TimersClean
  <2> HIDE DEF p
  <2>6. p \in DOMAIN board => board[p].state = "ShortRest" /\ ~Timed(cooldowns, p)
    BY <2>2 DEF TimersClean, AllSuit, Suits
  <2>7. UniqueTimers' /\ EndsFirst(airborneEntries, shortRestEntries)'
    BY <2>2, <2>3, <2>5 DEF TimersClean, UniqueTimers
  <2> QED BY <2>2, <2>3, <2>4, <2>5, <2>6, <2>7, EndRestClean
<1>10. CASE LandJump
  BY <1>10, LandJumpClean
<1>11. CASE Start \/ Stop \/ EraseMove \/ EndTick
  BY <1>2, <1>11 DEF Start, Stop, EraseMove, EndTick, arbiterVars
<1>12. CASE WaitNoOp \/ UNCHANGED vars
  BY <1>2, <1>12 DEF WaitNoOp, vars, arbiterVars
<1> QED BY <1>3, <1>4, <1>5, <1>6, <1>7, <1>8, <1>9, <1>10, <1>11, <1>12
        DEF Next, Requests, AdvanceTime, ResolveTimers

\* On a board without knights, no rest, jump or premove of the past can cut short or follow a
\* later one: one timer for each piece that waits, none for the others, for all durations
\* with AirborneMs <= ShortRestMs.
THEOREM NothingIsLeftOver ==
  ASSUME NoKnights
  PROVE  Spec => []NothingLeftOver
<1> DEFINE Timers == TimersInTime /\ RestTimed
           Clean == ~kingCaptured => TimersClean
           Base == /\ TypeOK /\ OnePiecePerSquare /\ QueensReplacePawns
                   /\ Owned(board, pendingMoves)
<1>1. Init => Timers /\ QueensAreNew /\ Clean
  <2> SUFFICES ASSUME Init PROVE Timers /\ QueensAreNew /\ Clean
    OBVIOUS
  <2>1. /\ cooldowns = <<>> /\ airborneEntries = <<>> /\ shortRestEntries = <<>>
        /\ DOMAIN premoves = {} /\ \A p \in DOMAIN board : board[p].state = "Idle"
    BY DEF Init, InitialBoard
  <2>2. \A p : /\ ~Timed(cooldowns, p) /\ ~Timed(airborneEntries, p)
               /\ ~Timed(shortRestEntries, p) /\ p \notin DOMAIN premoves
    BY <2>1 DEF Timed
  <2>3. Timers
    BY <2>1 DEF TimersInTime, EntriesInTime, RestTimed, AllTimed
  <2>4. QueensAreNew
    BY <2>2 DEF QueensAreNew, Seen
  <2>5. TimersClean
    <3>1. UniqueTimers
      BY <2>1 DEF UniqueTimers, Unique
    <3>2. AllSuit
      BY <2>2 DEF AllSuit, Suits
    <3>3. EndsFirst(airborneEntries, shortRestEntries)
      BY <2>1 DEF EndsFirst
    <3> QED BY <3>1, <3>2, <3>3 DEF TimersClean
  <2> QED BY <2>3, <2>4, <2>5
<1>2. Base /\ Timers /\ QueensAreNew /\ Clean /\ [Next]_vars
        => Timers' /\ QueensAreNew' /\ Clean'
  <2> SUFFICES ASSUME Base, Timers, QueensAreNew, Clean, [Next]_vars
               PROVE  Timers' /\ QueensAreNew' /\ Clean'
    OBVIOUS
  <2>1. Timers'
    BY TimersInTimeStep, RestTimedStep
  <2>2. QueensAreNew'
    BY QueensAreNewStep
  <2>3. ASSUME ~kingCaptured' PROVE TimersClean'
    <3>1. ~kingCaptured
      BY <2>3, KingStaysCaptured
    <3> QED BY <2>3, <3>1, NoKnights, TimersCleanStep
  <2> QED BY <2>1, <2>2, <2>3
<1>3. Timers /\ Clean => NothingLeftOver
  <2> SUFFICES ASSUME RestTimed, TimersClean, NEW p \in DOMAIN board
               PROVE  /\ Entries(cooldowns, p) # {} =>
                           /\ board[p].state = "Cooldown"
                           /\ \E i \in 1 .. Len(cooldowns) : Entries(cooldowns, p) = {i}
                      /\ board[p].state = "Airborne" =>
                           \E i \in 1 .. Len(airborneEntries) : Entries(airborneEntries, p) = {i}
                      /\ board[p].state \in {"Idle", "Moving"} =>
                           Entries(airborneEntries, p) \cup Entries(shortRestEntries, p) = {}
                      /\ p \in DOMAIN premoves => board[p].state \in {"Cooldown", "ShortRest"}
    BY DEF NothingLeftOver
  <2>1. \A e : Entries(e, p) # {} <=> Timed(e, p)
    BY DEF Entries, Timed
  <2>2. \A e : Unique(e) /\ Timed(e, p) => \E i \in 1 .. Len(e) : Entries(e, p) = {i}
    BY DEF Entries, Timed, Unique
  <2>3. Suits(p, board[p].state)
    BY DEF TimersClean, AllSuit
  <2>4. board[p].state = "Airborne" => Timed(airborneEntries, p)
    BY DEF RestTimed, AllTimed
  <2>5. Unique(cooldowns) /\ Unique(airborneEntries)
    BY DEF TimersClean, UniqueTimers
  <2> QED BY <2>1, <2>2, <2>3, <2>4, <2>5 DEF Suits
<1> HIDE DEF Timers, Clean
<1> QED BY <1>1, <1>2, <1>3, OwnershipInvariant, PTL DEF Spec
-----------------------------------------------------------------------------
(* Without knights, every flight is a line *)

\* A move with n squares to go, the next of them in stepLeft.
OnLine(pm, least) ==
  \E n \in Nat \ {0} :
    /\ pm.to = Shift(pm.currentPos, pm.step, n)
    /\ pm.arrivalLeft = (n - 1) * MsPerCell + pm.stepLeft
    /\ least <= pm.stepLeft /\ pm.stepLeft <= MsPerCell

\* Only a move that has not been visited in this millisecond may be due for its next square.
FlightsOnLine ==
  \A i \in 1 .. Len(pendingMoves) : pendingMoves[i].active =>
    OnLine(pendingMoves[i], IF phase = "moves" /\ cursor <= i THEN 0 ELSE 1)

Directions == Orthogonal \cup Diagonal

\* Every piece but a knight goes straight.
LEMMA LegalIsStraight ==
  ASSUME NEW b, NEW p \in PieceIds, TypeOf(p) # "Knight", NEW to, to \in LegalDestinations(b, p)
  PROVE  \E d \in Directions, n \in Nat \ {0} : to = Shift(b[p].pos, d, n)
<1>0. Rows + Cols \in Nat
  BY BoardAssumption DEF BoardAssumption
<1>1. ASSUME NEW D, D \subseteq Directions, to \in SlidingDestinations(b, p, D)
      PROVE  \E d \in Directions, n \in Nat \ {0} : to = Shift(b[p].pos, d, n)
  BY <1>0, <1>1 DEF SlidingDestinations
<1>2. ASSUME to \in SteppedDestinations(b, p, Directions)
      PROVE  \E d \in Directions, n \in Nat \ {0} : to = Shift(b[p].pos, d, n)
  BY <1>2 DEF SteppedDestinations
<1>3. ASSUME to \in PawnDestinations(b, p)
      PROVE  \E d \in Directions, n \in Nat \ {0} : to = Shift(b[p].pos, d, n)
  <2> DEFINE forward == IF ColorOf(p) = "White" THEN 1 ELSE -1
  <2>1. \/ to = Shift(b[p].pos, <<forward, 0>>, 1)
        \/ to = Shift(b[p].pos, <<forward, 0>>, 2)
        \/ \E dc \in {-1, 1} : to = Shift(b[p].pos, <<forward, dc>>, 1)
    BY <1>3 DEF PawnDestinations
  <2>2. <<forward, 0>> \in Directions /\ \A dc \in {-1, 1} : <<forward, dc>> \in Directions
    BY DEF Directions, Orthogonal, Diagonal
  <2> HIDE DEF forward
  <2> QED BY <2>1, <2>2
<1>4. CASE TypeOf(p) = "Rook"
  BY <1>1, <1>4 DEF LegalDestinations, Directions
<1>5. CASE TypeOf(p) = "Bishop"
  BY <1>1, <1>5 DEF LegalDestinations, Directions
<1>6. CASE TypeOf(p) = "Queen"
  BY <1>1, <1>6 DEF LegalDestinations, Directions
<1>7. CASE TypeOf(p) = "King"
  BY <1>2, <1>7 DEF LegalDestinations, Directions
<1>8. CASE TypeOf(p) = "Pawn"
  BY <1>3, <1>8 DEF LegalDestinations
<1> QED BY <1>4, <1>5, <1>6, <1>7, <1>8, PieceTyping DEF PieceTypes

\* So a move that starts is on its line, with a whole square to go to the next one.
LEMMA NewMoveOnLine ==
  ASSUME NoKnights, NEW b, BoardOK(b), NEW from \in Positions, NEW to \in Positions,
         ValidateMove(b, from, to), NEW p
  PROVE  OnLine(NewMove(p, from, to), 1)
<1> DEFINE q == Occupant(b, from)
<1>1. q \in PieceIds /\ b[q].pos = from /\ to \in LegalDestinations(b, q)
  BY OccupantAt DEF ValidateMove, BoardOK
<1>2. TypeOf(q) # "Knight"
  BY <1>1, PieceTyping DEF NoKnights
<1> HIDE DEF q
<1>3. PICK d \in Directions, n \in Nat \ {0} : to = Shift(from, d, n)
  BY <1>1, <1>2, LegalIsStraight
<1>4. /\ d = <<d[1], d[2]>> /\ d[1] \in -1 .. 1 /\ d[2] \in -1 .. 1 /\ (d[1] # 0 \/ d[2] # 0)
  BY DEF Directions, Orthogonal, Diagonal
<1>5. from[1] \in Int /\ from[2] \in Int
  BY DEF Positions
<1>6. /\ to[1] - from[1] = n * d[1] /\ to[2] - from[2] = n * d[2]
  BY <1>3, <1>4, <1>5 DEF Shift
<1>7. ASSUME NEW s \in -1 .. 1 PROVE Sign(n * s) = s /\ Abs(n * s) = IF s = 0 THEN 0 ELSE n
  <2>1. CASE s = 0
    BY <2>1 DEF Sign, Abs
  <2>2. CASE s = 1
    BY <2>2 DEF Sign, Abs
  <2>3. CASE s = -1
    BY <2>3 DEF Sign, Abs
  <2> QED BY <2>1, <2>2, <2>3
<1>8. Sign(to[1] - from[1]) = d[1] /\ Sign(to[2] - from[2]) = d[2]
  BY <1>4, <1>6, <1>7
<1>9. Distance(from, to) = n
  <2>1. /\ Abs(to[1] - from[1]) = IF d[1] = 0 THEN 0 ELSE n
        /\ Abs(to[2] - from[2]) = IF d[2] = 0 THEN 0 ELSE n
    BY <1>4, <1>6, <1>7
  <2> QED BY <1>4, <2>1 DEF Distance
<1>10. MsPerCell \in Nat \ {0}
  BY TimingAssumption DEF TimingAssumption
<1>11. n * MsPerCell = (n - 1) * MsPerCell + MsPerCell
  BY <1>10
<1>12. /\ NewMove(p, from, to).to = to /\ NewMove(p, from, to).currentPos = from
       /\ NewMove(p, from, to).step = d
       /\ NewMove(p, from, to).arrivalLeft = n * MsPerCell
       /\ NewMove(p, from, to).stepLeft = MsPerCell
  BY <1>4, <1>8, <1>9 DEF NewMove
<1> QED BY <1>3, <1>10, <1>11, <1>12 DEF OnLine

\* A move on its line that goes on: the clock, a visit between two squares, a step.
LEMMA OnLineElapse ==
  ASSUME NEW pm \in Move, OnLine(pm, 1)
  PROVE  OnLine(ElapseMove(pm), 0)
<1>1. PICK n \in Nat \ {0} :
        /\ pm.to = Shift(pm.currentPos, pm.step, n)
        /\ pm.arrivalLeft = (n - 1) * MsPerCell + pm.stepLeft
        /\ 1 <= pm.stepLeft /\ pm.stepLeft <= MsPerCell
  BY DEF OnLine
<1>2. MsPerCell \in Nat \ {0} /\ pm.stepLeft \in Int /\ (n - 1) * MsPerCell \in Nat
  BY TimingAssumption DEF TimingAssumption, Move
<1>3. /\ ElapseMove(pm).arrivalLeft = Elapse(pm.arrivalLeft)
      /\ ElapseMove(pm).stepLeft = Elapse(pm.stepLeft)
      /\ ElapseMove(pm).to = pm.to /\ ElapseMove(pm).currentPos = pm.currentPos
      /\ ElapseMove(pm).step = pm.step
  BY DEF ElapseMove, Move
<1>4. pm.arrivalLeft \in Int /\ pm.arrivalLeft >= 1
  <2> DEFINE x == (n - 1) * MsPerCell
  <2> HIDE DEF x
  <2> QED BY <1>1, <1>2 DEF x
<1>5. Elapse(pm.arrivalLeft) = pm.arrivalLeft - 1 /\ Elapse(pm.stepLeft) = pm.stepLeft - 1
  BY <1>1, <1>2, <1>4, ElapseOK
<1>6. Elapse(pm.arrivalLeft) = (n - 1) * MsPerCell + Elapse(pm.stepLeft)
  <2> DEFINE x == (n - 1) * MsPerCell
  <2> HIDE DEF x
  <2> QED BY <1>1, <1>2, <1>5 DEF x
<1>7. 0 <= Elapse(pm.stepLeft) /\ Elapse(pm.stepLeft) <= MsPerCell
  BY <1>1, <1>2, <1>5
<1> QED BY <1>1, <1>3, <1>6, <1>7 DEF OnLine

\* A visited move that is not due stays on its line, and one that is due goes on along it.
LEMMA OnLineHere ==
  ASSUME NEW pm \in Move, OnLine(pm, 0), pm.stepLeft # 0
  PROVE  OnLine(pm, 1)
<1>1. pm.stepLeft \in Int
  BY DEF Move
<1> QED BY <1>1 DEF OnLine

LEMMA OnLineAhead ==
  ASSUME NEW pm \in Move, OnLine(pm, 0), pm.stepLeft = 0 \/ pm.arrivalLeft = 0,
         NEW next, next = Shift(pm.currentPos, pm.step, 1), next # pm.to,
         NEW am, am.to = pm.to, am.step = pm.step, am.currentPos = next,
         am.arrivalLeft = pm.arrivalLeft, am.stepLeft = pm.stepLeft + MsPerCell
  PROVE  OnLine(am, 1)
<1>1. PICK n \in Nat \ {0} :
        /\ pm.to = Shift(pm.currentPos, pm.step, n)
        /\ pm.arrivalLeft = (n - 1) * MsPerCell + pm.stepLeft
        /\ 0 <= pm.stepLeft /\ pm.stepLeft <= MsPerCell
  BY DEF OnLine
<1>2. /\ MsPerCell \in Nat \ {0} /\ pm.stepLeft \in Int
      /\ pm.currentPos[1] \in Int /\ pm.currentPos[2] \in Int
      /\ pm.step[1] \in Int /\ pm.step[2] \in Int
  BY TimingAssumption DEF TimingAssumption, Move, Positions
<1>3. n # 1
  BY <1>1
<1>4. n - 1 \in Nat \ {0} /\ (n - 1) * MsPerCell >= 1
  BY <1>2, <1>3
<1>5. pm.stepLeft = 0
  <2> DEFINE x == (n - 1) * MsPerCell
  <2>1. x \in Nat /\ x >= 1 /\ pm.arrivalLeft = x + pm.stepLeft
    BY <1>1, <1>2, <1>4
  <2> HIDE DEF x
  <2> QED BY <1>1, <1>2, <2>1
<1>6. Shift(next, pm.step, n - 1) = Shift(pm.currentPos, pm.step, n)
  <2>1. \A c, s \in Int : (c + 1 * s) + (n - 1) * s = c + n * s
    OBVIOUS
  <2> QED BY <1>2, <2>1 DEF Shift
<1>7. (n - 1) * MsPerCell = ((n - 1) - 1) * MsPerCell + MsPerCell
  BY <1>2
<1>8. am.arrivalLeft = ((n - 1) - 1) * MsPerCell + am.stepLeft /\ am.stepLeft = MsPerCell
  <2> DEFINE x == (n - 1) * MsPerCell
             y == ((n - 1) - 1) * MsPerCell
  <2>1. x \in Int /\ y \in Int /\ x = y + MsPerCell /\ pm.arrivalLeft = x + pm.stepLeft
    BY <1>1, <1>2, <1>7
  <2> HIDE DEF x, y
  <2>2. am.stepLeft = MsPerCell /\ am.arrivalLeft = y + am.stepLeft
    BY <1>2, <1>5, <2>1
  <2> QED BY <2>2 DEF y
<1>9. am.to = Shift(am.currentPos, am.step, n - 1)
  BY <1>1, <1>6
<1> QED BY <1>2, <1>4, <1>8, <1>9 DEF OnLine

\* A move that starts joins the others on its line.
LEMMA AppendOnLine ==
  ASSUME TypeOK, FlightsOnLine, UNCHANGED <<phase, cursor>>, phase # "moves",
         NEW pm \in Move, OnLine(pm, 1), pendingMoves' = Append(pendingMoves, pm)
  PROVE  FlightsOnLine'
<1>1. pendingMoves \in Seq(Move) /\ Len(pendingMoves) \in Nat
  BY LenProperties DEF TypeOK
<1>2. Len(pendingMoves') = Len(pendingMoves) + 1
  BY <1>1, AppendProperties
<1>3. \A i \in 1 .. Len(pendingMoves') :
        pendingMoves'[i] = IF i \in 1 .. Len(pendingMoves) THEN pendingMoves[i] ELSE pm
  BY <1>1, <1>2, AppendProperties
<1>4. \A i \in 1 .. Len(pendingMoves') : pendingMoves'[i].active => OnLine(pendingMoves'[i], 1)
  BY <1>3 DEF FlightsOnLine
<1> QED BY <1>4 DEF FlightsOnLine

\* Every visit leaves the visited move ended or on its line, past the square it was due on.
LEMMA VisitOnLine ==
  ASSUME TypeOK, FlightsOnLine, Visiting, NextMove, NEW pm \in Move, pm.active => OnLine(pm, 1),
         pendingMoves' = Update(pm)
  PROVE  FlightsOnLine'
<1>1. Len(pendingMoves) \in Nat /\ cursor \in 1 .. Len(pendingMoves) /\ cursor \in Nat
  BY LenProperties DEF TypeOK, Visiting
<1>2. /\ Len(pendingMoves') = Len(pendingMoves)
      /\ \A i \in 1 .. Len(pendingMoves) :
           pendingMoves'[i] = IF i = cursor THEN pm ELSE pendingMoves[i]
  BY UpdateOK
<1>3. phase = "moves" /\ phase' = "moves" /\ cursor' = cursor + 1
  BY DEF Visiting, NextMove
<1>4. ASSUME NEW i \in 1 .. Len(pendingMoves), pendingMoves'[i].active
      PROVE  OnLine(pendingMoves'[i], IF cursor + 1 <= i THEN 0 ELSE 1)
  <2>1. CASE i = cursor
    BY <1>1, <1>2, <1>4, <2>1
  <2>2. CASE i # cursor
    <3>1. pendingMoves'[i] = pendingMoves[i]
      BY <1>2, <2>2
    <3>2. (IF cursor + 1 <= i THEN 0 ELSE 1) = IF cursor <= i THEN 0 ELSE 1
      BY <1>1, <2>2
    <3>3. OnLine(pendingMoves[i], IF cursor <= i THEN 0 ELSE 1)
      BY <1>3, <1>4, <3>1 DEF FlightsOnLine
    <3> QED BY <3>1, <3>2, <3>3
  <2> QED BY <2>1, <2>2
<1> QED BY <1>2, <1>3, <1>4 DEF FlightsOnLine

\* The line of the visited move, which may be due.
LEMMA CurrentOnLine ==
  ASSUME TypeOK, FlightsOnLine, Visiting, Current.active
  PROVE  Current \in Move /\ OnLine(Current, 0)
  BY CurrentOK DEF FlightsOnLine, Visiting, Current, TypeOK

LEMMA ResolveMoveOnLine ==
  ASSUME NoKnights, TypeOK, OnePiecePerSquare, Owned(board, pendingMoves), FlightsOnLine,
         ~kingCaptured', ResolveMove
  PROVE  FlightsOnLine'
<1>1. CASE SkipMove
  <2>1. Visiting /\ NextMove /\ pendingMoves' = pendingMoves /\ Current \in Move
    BY <1>1, CurrentOK DEF SkipMove, arbiterVars
  <2>2. pendingMoves' = Update(Current)
    BY <2>1 DEF Update, Current, Visiting, TypeOK
  <2>3. ASSUME Current.active PROVE OnLine(Current, 1)
    <3>1. VisitingPiece /\ ~Steps
      BY <1>1, <2>3 DEF SkipMove
    <3>2. Current.stepLeft # 0
      BY <3>1, NoMoverIsKnight DEF Steps
    <3>3. OnLine(Current, 0)
      BY <2>1, <2>3, CurrentOnLine
    <3> QED BY <2>1, <3>2, <3>3, OnLineHere
  <2> QED BY <2>1, <2>2, <2>3, VisitOnLine
<1>2. CASE DropOrphanMove \/ Blocked \/ CounterKill \/ Arrive
  <2>1. Visiting
    BY <1>2 DEF DropOrphanMove, Blocked, CounterKill, Arrive, Enters, VisitingPiece
  <2>2. Current.currentPos \in Positions /\ (VisitingPiece => Target \in Positions)
    BY <2>1, CurrentOK, MoverOK
  <2>3. \E c \in Positions : pendingMoves' = Update(EndedOn(c))
    BY <1>2, <2>2 DEF DropOrphanMove, Blocked, CounterKill, Arrive, Enters
  <2>4. NextMove
    BY <1>2 DEF DropOrphanMove, Blocked, CounterKill, Arrive
  <2>5. \A c \in Positions : EndedOn(c) \in Move /\ ~EndedOn(c).active
    BY <2>1, CurrentOK
  <2> QED BY <2>1, <2>3, <2>4, <2>5, VisitOnLine
<1>3. CASE CaptureTarget
  <2>1. VisitingPiece /\ Visiting /\ pendingMoves' = AfterCapture /\ NextMove
    BY <1>3 DEF CaptureTarget, VisitingPiece
  <2>2. /\ cursor \in 1 .. Len(pendingMoves) /\ cursor \in Nat /\ phase = "moves"
        /\ phase' = "moves" /\ cursor' = cursor + 1 /\ Len(pendingMoves) \in Nat
    BY <2>1, LenProperties DEF Visiting, NextMove, TypeOK
  <2>3. Len(pendingMoves') = Len(pendingMoves)
    BY <2>1, AfterCaptureOK
  <2>4. ~EndedOn(Target).active
    BY <2>1, CurrentOK, MoverOK
  <2>5. ASSUME NEW i \in 1 .. Len(pendingMoves), pendingMoves'[i].active
        PROVE  OnLine(pendingMoves'[i], IF cursor + 1 <= i THEN 0 ELSE 1)
    <3>1. pendingMoves[i] \in Move
      BY ElementOfSeq DEF TypeOK
    <3>2. pendingMoves'[i] = IF i = cursor THEN EndedOn(Target)
                             ELSE IF Steps /\ FirstMoveOn(i, Target)
                             THEN [pendingMoves[i] EXCEPT !.active = FALSE]
                             ELSE pendingMoves[i]
      BY <2>1 DEF AfterCapture
    <3>3. ~[pendingMoves[i] EXCEPT !.active = FALSE].active
      BY <3>1 DEF Move
    <3>4. i # cursor /\ pendingMoves'[i] = pendingMoves[i]
      BY <2>4, <2>5, <3>2, <3>3
    <3>5. OnLine(pendingMoves[i], IF cursor <= i THEN 0 ELSE 1)
      BY <2>2, <2>5, <3>4 DEF FlightsOnLine
    <3>6. (IF cursor + 1 <= i THEN 0 ELSE 1) = IF cursor <= i THEN 0 ELSE 1
      BY <2>2, <3>4
    <3> QED BY <3>4, <3>5, <3>6
  <2> QED BY <2>2, <2>3, <2>5 DEF FlightsOnLine
<1>4. CASE Advance
  <2> DEFINE pm == [Current EXCEPT !.currentPos = Target, !.stepLeft = @ + MsPerCell]
  <2>1. Enters /\ ~MoveEnds /\ VisitingPiece /\ Visiting /\ NextMove /\ pendingMoves' = Update(pm)
    BY <1>4 DEF Advance, Enters, VisitingPiece
  <2>2. Current \in Move /\ OnLine(Current, 0)
    BY <2>1, CurrentOnLine DEF VisitingPiece
  <2>3. Target = Shift(Current.currentPos, Current.step, 1) /\ Target # Current.to
    BY <2>1, NoMoverIsKnight DEF Target, MoveEnds
  <2>4. Current.stepLeft = 0 \/ Current.arrivalLeft = 0
    BY <2>1 DEF Enters, Lands, Steps
  <2>5. pm \in Move
    BY <2>1, AdvancedOK
  <2>6. OnLine(pm, 1)
    <3>1. /\ pm.to = Current.to /\ pm.step = Current.step /\ pm.currentPos = Target
          /\ pm.arrivalLeft = Current.arrivalLeft /\ pm.stepLeft = Current.stepLeft + MsPerCell
      BY <2>2 DEF Move
    <3> HIDE DEF pm
    <3> QED BY <2>2, <2>3, <2>4, <3>1, OnLineAhead
  <2> HIDE DEF pm
  <2> QED BY <2>1, <2>5, <2>6, VisitOnLine
<1>5. CASE EndMoves
  <2>1. cursor \in Nat /\ Len(pendingMoves) \in Nat
    BY LenProperties DEF TypeOK
  <2>2. \A i \in 1 .. Len(pendingMoves) : ~(cursor <= i)
    BY <1>5, <2>1 DEF EndMoves
  <2> QED BY <1>5, <2>2 DEF EndMoves, FlightsOnLine, arbiterVars
<1> QED BY <1>1, <1>2, <1>3, <1>4, <1>5 DEF ResolveMove

\* Ending a rest starts a move on its line, or none.
LEMMA EndRestOnLine ==
  ASSUME NoKnights, TypeOK, FlightsOnLine, UNCHANGED <<phase, cursor>>, phase # "moves",
         NEW p \in PieceIds, NEW resting, EndRest(p, resting)
  PROVE  FlightsOnLine'
<1>1. CASE pendingMoves' = pendingMoves
  BY <1>1 DEF FlightsOnLine
<1>2. CASE pendingMoves' # pendingMoves
  <2> DEFINE idle == SetState(board, p, "Idle")
             from == board[p].pos
             pm == NewMove(p, from, premoves[p])
  <2>1. /\ p \in DOMAIN board /\ p \in DOMAIN premoves
        /\ ValidateMove(idle, from, premoves[p])
        /\ pendingMoves' = Append(pendingMoves, pm)
    BY <1>2 DEF EndRest
  <2>2. from \in Positions /\ premoves[p] \in Positions
    BY <2>1 DEF TypeOK, BoardOK
  <2>3. BoardOK(idle)
    BY SetStateOK DEF TypeOK, PieceStates
  <2>4. pm \in Move
    BY <2>2, NewMoveOK
  <2>5. OnLine(pm, 1)
    <3> HIDE DEF idle
    <3> QED BY <2>1, <2>2, <2>3, NewMoveOnLine
  <2> HIDE DEF pm
  <2> QED BY <2>1, <2>4, <2>5, AppendOnLine
<1> QED BY <1>1, <1>2

\* No step takes a flight off its line.
LEMMA FlightsOnLineStep ==
  ASSUME NoKnights, TypeOK, OnePiecePerSquare, Owned(board, pendingMoves), FlightsOnLine,
         ~kingCaptured', [Next]_vars
  PROVE  FlightsOnLine'
<1>1. pendingMoves \in Seq(Move) /\ Len(pendingMoves) \in Nat
  BY LenProperties DEF TypeOK
<1>2. CASE UNCHANGED <<pendingMoves, phase, cursor>>
  BY <1>2 DEF FlightsOnLine
<1>3. ASSUME NEW from \in Cells, NEW to \in Cells, RequestMove(from, to)
      PROVE  FlightsOnLine'
  <2> DEFINE pm == NewMove(Occupant(board, from), from, to)
  <2>1. /\ ValidateMove(board, from, to) /\ Occupant(board, from) \in PieceIds
        /\ pendingMoves' = Append(pendingMoves, pm)
        /\ UNCHANGED <<phase, cursor>> /\ phase # "moves"
        /\ from \in Positions /\ to \in Positions /\ BoardOK(board)
    BY <1>3, OccupantAt, CellsArePositions DEF RequestMove, TypeOK, BoardOK
  <2>2. pm \in Move /\ OnLine(pm, 1)
    BY <2>1, NewMoveOK, NewMoveOnLine
  <2> HIDE DEF pm
  <2> QED BY <2>1, <2>2, AppendOnLine
<1>4. CASE Tick
  <2>1. phase = "idle" /\ Len(pendingMoves') = Len(pendingMoves)
        /\ phase' = "moves" /\ cursor' = 1
        /\ \A i \in 1 .. Len(pendingMoves) :
             pendingMoves'[i] = ElapseMove(pendingMoves[i]) /\ pendingMoves[i] \in Move
    BY <1>1, <1>4, ElementOfSeq DEF Tick
  <2>2. ASSUME NEW i \in 1 .. Len(pendingMoves), pendingMoves'[i].active
        PROVE  OnLine(pendingMoves'[i], 0)
    <3>1. pendingMoves'[i] = ElapseMove(pendingMoves[i]) /\ pendingMoves[i] \in Move
      BY <2>1
    <3>2. pendingMoves[i].active
      BY <2>2, <3>1, ElapseMoveOK
    <3>3. OnLine(pendingMoves[i], 1)
      BY <2>1, <3>2 DEF FlightsOnLine
    <3> QED BY <3>1, <3>3, OnLineElapse
  <2>3. \A i \in 1 .. Len(pendingMoves) : 1 <= i
    BY <1>1
  <2> QED BY <2>1, <2>2, <2>3 DEF FlightsOnLine
<1>5. CASE ResolveMove
  BY <1>5, ResolveMoveOnLine
<1>6. CASE EraseMove
  <2>1. PICK i \in 1 .. Len(pendingMoves) : pendingMoves' = Without(pendingMoves, i)
    BY <1>6 DEF EraseMove
  <2>2. \A k \in 1 .. Len(pendingMoves') :
          \E j \in 1 .. Len(pendingMoves) : pendingMoves'[k] = pendingMoves[j]
    <3>1. \A k \in 1 .. Len(Without(pendingMoves, i)) :
            \E j \in 1 .. Len(pendingMoves) :
              j # i /\ Without(pendingMoves, i)[k] = pendingMoves[j]
      BY <1>1, WithoutKeeps
    <3> QED BY <2>1, <3>1
  <2>3. phase = "timers" /\ phase' = "timers"
    BY <1>6 DEF EraseMove
  <2> QED BY <2>2, <2>3 DEF FlightsOnLine
<1>7. CASE ExpireCooldown
  <2>1. PICK i \in 1 .. Len(cooldowns) : EndRest(cooldowns[i].pieceId, "Cooldown")
    BY <1>7 DEF ExpireCooldown
  <2>2. cooldowns[i].pieceId \in PieceIds /\ UNCHANGED <<phase, cursor>> /\ phase # "moves"
    BY <1>7, WithoutEntry DEF TypeOK, ExpireCooldown
  <2> QED BY <2>1, <2>2, EndRestOnLine
<1>8. CASE ExpireShortRest
  <2>1. PICK i \in 1 .. Len(shortRestEntries) : EndRest(shortRestEntries[i].pieceId, "ShortRest")
    BY <1>8 DEF ExpireShortRest
  <2>2. shortRestEntries[i].pieceId \in PieceIds /\ UNCHANGED <<phase, cursor>> /\ phase # "moves"
    BY <1>8, WithoutEntry DEF TypeOK, ExpireShortRest
  <2> QED BY <2>1, <2>2, EndRestOnLine
<1>9. CASE EndTick
  BY <1>9 DEF EndTick, FlightsOnLine, arbiterVars
<1>10. CASE \/ \E from \in Cells, to \in PremoveTargets : QueuePremove(from, to)
            \/ \E cell \in Cells : TryJump(cell)
  BY <1>2, <1>10 DEF QueuePremove, TryJump
<1>11. CASE Start \/ Stop \/ LandJump
  BY <1>2, <1>11 DEF Start, Stop, LandJump, arbiterVars
<1>12. CASE WaitNoOp \/ UNCHANGED vars
  BY <1>2, <1>12 DEF WaitNoOp, vars, arbiterVars
<1> QED BY <1>3, <1>4, <1>5, <1>6, <1>7, <1>8, <1>9, <1>10, <1>11, <1>12
        DEF Next, Requests, AdvanceTime, ResolveTimers

\* No timer has more to go than a rest of its kind takes.
AtMost(entries, ms) == \A i \in 1 .. Len(entries) : entries[i].left <= ms
RestsAreBounded == AtMost(cooldowns, CooldownMs) /\ AtMost(shortRestEntries, ShortRestMs)

LEMMA ProlongsAtMost ==
  ASSUME NEW s \in Seq(TimerEntry), NEW ms \in Nat \ {0}, AtMost(s, ms)
  PROVE  /\ AtMost(ElapseEntries(s), ms)
         /\ \A t : Prolongs(s, t, ms) => AtMost(t, ms)
<1>1. AtMost(ElapseEntries(s), ms)
  <2>1. \A n \in Int : n <= ms => Elapse(n) <= ms
    BY DEF Elapse, Missed
  <2>2. \A i \in 1 .. Len(s) : s[i].left \in Int
    BY EntryFields
  <2> QED BY <2>1, <2>2, ElapseEntriesOK DEF AtMost
<1>2. ASSUME NEW p \in PieceIds PROVE AtMost(Append(s, [pieceId |-> p, left |-> ms]), ms)
  <2> DEFINE e == [pieceId |-> p, left |-> ms]
             t == Append(s, e)
  <2>1. Len(s) \in Nat /\ Len(t) = Len(s) + 1 /\ \A i \in 1 .. Len(s) : t[i] = s[i]
    BY LenProperties, AppendProperties DEF TimerEntry
  <2>2. t[Len(s) + 1].left = ms
    BY AppendProperties DEF TimerEntry
  <2> HIDE DEF t
  <2>3. AtMost(t, ms)
    BY <2>1, <2>2 DEF AtMost
  <2> QED BY <2>3 DEF t
<1>3. ASSUME NEW i \in 1 .. Len(s) PROVE AtMost(Without(s, i), ms)
  <2>1. \A k \in 1 .. Len(Without(s, i)) : \E j \in 1 .. Len(s) : Without(s, i)[k] = s[j]
    BY WithoutKeeps
  <2> QED BY <2>1 DEF AtMost
<1> QED BY <1>1, <1>2, <1>3 DEF Prolongs

LEMMA RestsAreBoundedStep ==
  ASSUME TypeOK, RestsAreBounded, [Next]_vars
  PROVE  RestsAreBounded'
<1>1. /\ cooldowns \in Seq(TimerEntry) /\ shortRestEntries \in Seq(TimerEntry)
      /\ CooldownMs \in Nat \ {0} /\ ShortRestMs \in Nat \ {0}
  BY TimingAssumption DEF TypeOK, TimingAssumption
<1>2. CASE Tick
  BY <1>1, <1>2, ProlongsAtMost DEF Tick, RestsAreBounded
<1>3. CASE Next /\ ~Tick
  BY <1>1, <1>3, TimersOutcome, ProlongsAtMost DEF TimersProlonged, RestsAreBounded
<1>4. CASE UNCHANGED vars
  BY <1>4 DEF vars, arbiterVars, RestsAreBounded
<1> QED BY <1>2, <1>3, <1>4

-----------------------------------------------------------------------------
(* Without knights, the picture is true *)

LEMMA Alone ==
  ASSUME NEW i \in Int
  PROVE  Max({i}) = i /\ Min({i}) = i
  BY DEF Max, Min

\* A move on its line is drawn less than a cell from the square it can be taken on.
LEMMA DrawnNearby ==
  ASSUME NEW pm \in Move, TypeOf(pm.pieceId) # "Knight", OnLine(pm, 1), NEW k \in {1, 2}
  PROVE  Abs(Interpolated(pm)[k] - Scale * pm.currentPos[k]) < Scale
<1> DEFINE a == pm.arrivalLeft
           l == pm.stepLeft
           c == pm.currentPos[k]
           s == pm.step[k]
           M == MsPerCell
<1>1. PICK n \in Nat \ {0} :
        pm.to = Shift(pm.currentPos, pm.step, n) /\ a = (n - 1) * M + l /\ 1 <= l /\ l <= M
  BY DEF OnLine
<1>2. /\ M \in Nat \ {0} /\ l \in Int /\ a \in Int /\ c \in Int
      /\ s \in -1 .. 1 /\ n - 1 \in Nat
  BY TimingAssumption DEF TimingAssumption, Move, Positions
<1>3. pm.to[k] = c + n * s
  BY <1>1 DEF Shift
<1>4. a >= 1 /\ ToGo(pm) = a
  <2> DEFINE x == (n - 1) * M
  <2>1. x \in Nat
    BY <1>2
  <2>2. a = x + l
    BY <1>1
  <2> HIDE DEF x, a, l, M
  <2>3. a >= 1
    BY <1>1, <1>2, <2>1, <2>2
  <2> QED BY <1>2, <2>3 DEF ToGo, a
<1>5. Speed(pm)[k] = 2 * s
  BY DEF Speed
<1>6. Interpolated(pm)[k] = Scale * (c + n * s) - (2 * s) * a
  BY <1>3, <1>4, <1>5 DEF Interpolated
<1> HIDE DEF c, s, a, l, M
<1>7. Interpolated(pm)[k] - Scale * c = 2 * s * (M - l)
  <2>1. \A z \in Int : z \in -1 .. 1 =>
          (2 * M) * (c + n * z) - (2 * z) * ((n - 1) * M + l) - (2 * M) * c = 2 * z * (M - l)
    BY <1>2
  <2> QED BY <1>1, <1>2, <1>6, <2>1 DEF Scale, M
<1>8. Abs(2 * s * (M - l)) < 2 * M
  BY <1>1, <1>2 DEF Abs
<1> QED BY <1>7, <1>8 DEF Scale, c, M

\* The one timer of a resting piece says how long it still rests.
LEMMA RestRemains ==
  ASSUME NEW e \in Seq(TimerEntry), Unique(e), EntriesInTime(e), phase = "idle",
         NEW ms \in Nat, AtMost(e, ms), NEW p, Timed(e, p)
  PROVE  0 < RestRemaining(e, p) /\ RestRemaining(e, p) <= ms
<1>1. PICK i \in 1 .. Len(e) : e[i].pieceId = p
  BY DEF Timed
<1>2. Entries(e, p) = {i}
  BY <1>1 DEF Entries, Unique
<1>3. i \in Int /\ Min({i}) = i
  BY Alone
<1>4. e[i].left \in Int /\ e[i].left >= 1 /\ e[i].left <= ms
  BY EntryFields DEF EntriesInTime, AtMost
<1> QED BY <1>2, <1>3, <1>4 DEF RestRemaining

\* On a board without knights the picture follows the game: whatever flies is drawn less
\* than a cell from its square, the others on it, and exactly the resting ones show a rest.
THEOREM SnapshotIsFaithful ==
  ASSUME NoKnights
  PROVE  Spec => []SnapshotIsTrue
<1> DEFINE Timers == TimersInTime /\ RestTimed /\ RestsAreBounded
           Clean == ~kingCaptured => TimersClean /\ FlightsOnLine
           IInv == Timers /\ QueensAreNew /\ MovingCarried /\ Clean
           Base == /\ TypeOK /\ OnePiecePerSquare /\ QueensReplacePawns
                   /\ Owned(board, pendingMoves)
<1>1. Init => IInv
  <2> SUFFICES ASSUME Init PROVE IInv
    OBVIOUS
  <2>1. /\ pendingMoves = <<>> /\ cooldowns = <<>> /\ airborneEntries = <<>>
        /\ shortRestEntries = <<>> /\ DOMAIN premoves = {}
        /\ \A p \in DOMAIN board : board[p].state = "Idle"
    BY DEF Init, InitialBoard
  <2>2. \A p : /\ ~Timed(cooldowns, p) /\ ~Timed(airborneEntries, p)
               /\ ~Timed(shortRestEntries, p) /\ p \notin DOMAIN premoves
    BY <2>1 DEF Timed
  <2>3. TimersInTime /\ RestTimed
    BY <2>1 DEF TimersInTime, EntriesInTime, RestTimed, AllTimed
  <2>4. RestsAreBounded /\ FlightsOnLine
    BY <2>1 DEF RestsAreBounded, AtMost, FlightsOnLine
  <2>5. QueensAreNew /\ MovingCarried
    BY <2>1, <2>2 DEF QueensAreNew, Seen, MovingCarried, AllCarried
  <2>6. UniqueTimers
    BY <2>1 DEF UniqueTimers, Unique
  <2>7. AllSuit /\ EndsFirst(airborneEntries, shortRestEntries)
    BY <2>1, <2>2 DEF AllSuit, Suits, EndsFirst
  <2> QED BY <2>3, <2>4, <2>5, <2>6, <2>7 DEF TimersClean
<1>2. Base /\ IInv /\ [Next]_vars => IInv'
  <2> SUFFICES ASSUME Base, IInv, [Next]_vars PROVE IInv'
    OBVIOUS
  <2>1. Timers'
    BY TimersInTimeStep, RestTimedStep, RestsAreBoundedStep
  <2>2. QueensAreNew' /\ MovingCarried'
    BY QueensAreNewStep, MovingCarriedStep
  <2>3. ASSUME ~kingCaptured' PROVE TimersClean' /\ FlightsOnLine'
    <3>1. ~kingCaptured
      BY <2>3, KingStaysCaptured
    <3> QED BY <2>3, <3>1, NoKnights, TimersCleanStep, FlightsOnLineStep
  <2> QED BY <2>1, <2>2, <2>3
<1>3. Base /\ IInv => SnapshotIsTrue
  <2> SUFFICES ASSUME Base, IInv, phase = "idle", ~kingCaptured, NEW p \in DOMAIN board
               PROVE  /\ \A k \in {1, 2} :
                           Abs(Rendered(p).at[k] - Scale * board[p].pos[k]) < Scale
                      /\ board[p].state # "Moving" => Rendered(p).at = OnSquare(board[p].pos)
                      /\ IF board[p].state \in {"Cooldown", "ShortRest"}
                         THEN 0 < Rendered(p).cooldown /\ Rendered(p).cooldown <= Rendered(p).total
                         ELSE Rendered(p).cooldown = 0 /\ Rendered(p).total = 0
    BY DEF SnapshotIsTrue
  <2>1. CASE FlightsOf(p) # {}
    <3>1. PICK i \in FlightsOf(p) : TRUE
      BY <2>1
    <3> DEFINE pm == pendingMoves[i]
    <3>2. DOMAIN pendingMoves = 1 .. Len(pendingMoves)
      BY LenProperties DEF TypeOK
    <3>3. i \in 1 .. Len(pendingMoves) /\ pm.active /\ pm.pieceId = p /\ pm \in Move
      BY <3>1, <3>2, ElementOfSeq DEF FlightsOf, TypeOK
    <3>4. board[p] = [pos |-> pm.currentPos, state |-> "Moving"]
      BY <3>3 DEF Owned
    <3>5. board[p].pos = pm.currentPos /\ board[p].state = "Moving"
      BY <3>4
    <3>6. FlightsOf(p) = {i}
      <4>1. ASSUME NEW j \in FlightsOf(p) PROVE j = i
        <5>1. j \in 1 .. Len(pendingMoves) /\ pendingMoves[j].active /\ pendingMoves[j].pieceId = p
          BY <3>2 DEF FlightsOf
        <5>2. board[p] = [pos |-> pendingMoves[j].currentPos, state |-> "Moving"]
          BY <5>1 DEF Owned
        <5>3. board[p].pos = pendingMoves[j].currentPos
          BY <5>2
        <5> QED BY <3>3, <3>5, <5>1, <5>3 DEF Owned
      <4> QED BY <3>1, <4>1
    <3>7. Max(FlightsOf(p)) = i
      BY <3>3, <3>6, Alone
    <3>8. /\ Rendered(p).at = Interpolated(pm)
          /\ Rendered(p).cooldown = 0 /\ Rendered(p).total = 0
      BY <2>1, <3>7 DEF Rendered
    <3>9. TypeOf(pm.pieceId) # "Knight"
      <4>1. pm.pieceId \in PieceIds
        BY <3>3 DEF Move
      <4>2. TypeOf(pm.pieceId) # "Queen" => pm.pieceId \in 1 .. NumPieces
        BY <4>1, PieceTyping
      <4> QED BY <4>2, NoKnights DEF NoKnights
    <3>10. OnLine(pm, 1)
      BY <3>3 DEF FlightsOnLine
    <3> QED BY <3>3, <3>5, <3>8, <3>9, <3>10, DrawnNearby
  <2>2. CASE FlightsOf(p) = {}
    <3>1. board[p].state # "Moving"
      <4>1. SUFFICES ASSUME board[p].state = "Moving" PROVE FALSE
        OBVIOUS
      <4>2. PICK i \in 1 .. Len(pendingMoves) :
              pendingMoves[i].active /\ pendingMoves[i].currentPos = board[p].pos
        BY <4>1 DEF MovingCarried, AllCarried, CarriedAt
      <4> DEFINE q == pendingMoves[i].pieceId
      <4>3. q \in DOMAIN board /\ board[q] = [pos |-> board[p].pos, state |-> "Moving"]
        BY <4>2 DEF Owned
      <4>4. board[q].pos = board[p].pos
        BY <4>3
      <4>5. q = p
        BY <4>3, <4>4 DEF OnePiecePerSquare, Distinct
      <4>6. i \in FlightsOf(p)
        BY <4>2, <4>5, LenProperties DEF FlightsOf, TypeOK
      <4> QED BY <2>2, <4>6
    <3>2. Rendered(p).at = OnSquare(board[p].pos)
      BY <2>2 DEF Rendered
    <3>3. \A k \in {1, 2} : Abs(Rendered(p).at[k] - Scale * board[p].pos[k]) < Scale
      <4>1. MsPerCell \in Nat \ {0} /\ board[p].pos[1] \in Int /\ board[p].pos[2] \in Int
        BY TimingAssumption DEF TimingAssumption, TypeOK, BoardOK, Positions
      <4>2. \A x \in Int : Abs(x - x) = 0
        BY DEF Abs
      <4>3. Scale * board[p].pos[1] \in Int /\ Scale * board[p].pos[2] \in Int /\ 0 < Scale
        BY <4>1 DEF Scale
      <4> QED BY <3>2, <4>2, <4>3 DEF OnSquare
    <3>4. /\ cooldowns \in Seq(TimerEntry) /\ shortRestEntries \in Seq(TimerEntry)
          /\ CooldownMs \in Nat /\ ShortRestMs \in Nat
      BY TimingAssumption DEF TypeOK, TimingAssumption
    <3>5. Unique(cooldowns) /\ Unique(shortRestEntries)
      BY DEF TimersClean, UniqueTimers
    <3>6. EntriesInTime(cooldowns) /\ EntriesInTime(shortRestEntries)
      BY DEF TimersInTime
    <3>7. CASE board[p].state = "Cooldown"
      <4>1. /\ Rendered(p).cooldown = RestRemaining(cooldowns, p)
            /\ Rendered(p).total = CooldownMs
        BY <2>2, <3>7 DEF Rendered
      <4>2. Timed(cooldowns, p) /\ AtMost(cooldowns, CooldownMs)
        BY <3>7 DEF RestTimed, AllTimed, RestsAreBounded
      <4>3. 0 < RestRemaining(cooldowns, p) /\ RestRemaining(cooldowns, p) <= CooldownMs
        BY <3>4, <3>5, <3>6, <4>2, RestRemains
      <4> QED BY <3>2, <3>3, <3>7, <4>1, <4>3
    <3>8. CASE board[p].state = "ShortRest"
      <4>1. /\ Rendered(p).cooldown = RestRemaining(shortRestEntries, p)
            /\ Rendered(p).total = ShortRestMs
        BY <2>2, <3>8 DEF Rendered
      <4>2. Timed(shortRestEntries, p) /\ AtMost(shortRestEntries, ShortRestMs)
        BY <3>8 DEF RestTimed, AllTimed, RestsAreBounded
      <4>3. 0 < RestRemaining(shortRestEntries, p) /\ RestRemaining(shortRestEntries, p) <= ShortRestMs
        BY <3>4, <3>5, <3>6, <4>2, RestRemains
      <4> QED BY <3>2, <3>3, <3>8, <4>1, <4>3
    <3>9. CASE board[p].state \notin {"Cooldown", "ShortRest"}
      <4>1. Rendered(p).cooldown = 0 /\ Rendered(p).total = 0
        BY <2>2, <3>9 DEF Rendered
      <4> QED BY <3>2, <3>3, <3>9, <4>1
    <3> QED BY <3>7, <3>8, <3>9
  <2> QED BY <2>1, <2>2
<1> HIDE DEF IInv
<1> QED BY <1>1, <1>2, <1>3, OwnershipInvariant, PTL DEF Spec
===============================================================================
