------------------------- MODULE KungFuEngineProofs -------------------------
(* The engine is well typed and safe: squares, the end of the game, what a match promises, *)
(* and no piece hangs.                                                                      *)
EXTENDS KungFuEngine, SequenceTheorems, TLAPS

-----------------------------------------------------------------------------
(* Pieces and boards *)

\* The constants in the form the proofs need.
LEMMA NumPiecesNat == NumPieces \in Nat
  BY BoardAssumption DEF BoardAssumption, NumPieces

\* Every piece id has a colour and a type; only queens are numbered past NumPieces.
LEMMA PieceTyping ==
  ASSUME NEW p \in PieceIds
  PROVE  /\ ColorOf(p) \in Colors
         /\ TypeOf(p) \in PieceTypes
         /\ TypeOf(p) # "Queen" => p \in 1 .. NumPieces
<1> DEFINE q == IF p > NumPieces THEN p - NumPieces ELSE p
<1>1. NumPieces \in Nat
  BY NumPiecesNat
<1>2. q \in 1 .. NumPieces
  BY <1>1 DEF PieceIds
<1>3. InitialPieces[q] \in [type : PieceTypes, color : Colors, pos : Cells]
  BY <1>2, BoardAssumption, ElementOfSeq DEF BoardAssumption, NumPieces
<1>4. ColorOf(p) \in Colors
  BY <1>3 DEF ColorOf
<1>5. CASE p > NumPieces
  BY <1>4, <1>5 DEF TypeOf, PieceTypes
<1>6. CASE ~(p > NumPieces)
  <2>1. TypeOf(p) = InitialPieces[q].type
    BY <1>6 DEF TypeOf
  <2>2. p \in 1 .. NumPieces
    BY <1>1, <1>2, <1>6
  <2> QED BY <1>3, <1>4, <2>1, <2>2
<1> QED BY <1>5, <1>6

\* The queen of a pawn has an id.
LEMMA QueenId ==
  ASSUME NEW p \in PieceIds, TypeOf(p) = "Pawn"
  PROVE  QueenOf(p) \in PieceIds /\ QueenOf(p) # p
  BY NumPiecesNat, PieceTyping DEF PieceIds, QueenOf

\* An occupied square's occupant is a piece that stands on it.
LEMMA OccupantAt ==
  ASSUME NEW b, NEW c, Occupied(b, c)
  PROVE  Occupant(b, c) \in DOMAIN b /\ b[Occupant(b, c)].pos = c
<1>1. \E p : p \in At(b, c)
  BY DEF Occupied
<1>2. Occupant(b, c) \in At(b, c)
  BY <1>1 DEF Occupant
<1> QED BY <1>2 DEF At

\* The board operations keep a board a board.
LEMMA SetStateOK ==
  ASSUME NEW b, BoardOK(b), NEW p, NEW s \in PieceStates
  PROVE  BoardOK(SetState(b, p, s)) /\ DOMAIN SetState(b, p, s) = DOMAIN b
  BY DEF BoardOK, SetState

\* Removing takes exactly what stands on the square.
LEMMA RemovePieceOK ==
  ASSUME NEW b, BoardOK(b), NEW c
  PROVE  BoardOK(RemovePiece(b, c)) /\ DOMAIN RemovePiece(b, c) = DOMAIN b \ At(b, c)
  BY DEF BoardOK, RemovePiece

\* Moving changes squares only, and only to positions.
LEMMA MovePieceOK ==
  ASSUME NEW b, BoardOK(b), NEW from, NEW to \in Positions
  PROVE  BoardOK(MovePiece(b, from, to)) /\ DOMAIN MovePiece(b, from, to) = DOMAIN b
  BY DEF BoardOK, MovePiece

\* Promotion replaces the pawn by its queen.
LEMMA PromotePawnOK ==
  ASSUME NEW b, BoardOK(b), NEW p \in DOMAIN b, TypeOf(p) = "Pawn"
  PROVE  /\ BoardOK(PromotePawn(b, p))
         /\ DOMAIN PromotePawn(b, p) = (DOMAIN b \ {p}) \cup {QueenOf(p)}
  BY QueenId DEF BoardOK, PromotePawn, PieceStates
-----------------------------------------------------------------------------
(* Sequences of moves and timers *)

\* Erasing an entry keeps the others in order.
LEMMA WithoutOK ==
  ASSUME NEW S, NEW s \in Seq(S), NEW i \in 1 .. Len(s)
  PROVE  /\ Without(s, i) \in Seq(S)
         /\ Len(Without(s, i)) = Len(s) - 1
         /\ \A j \in 1 .. Len(s) - 1 :
              Without(s, i)[j] = IF j < i THEN s[j] ELSE s[j + 1]
<1>1. Len(s) \in Nat /\ Len(s) - 1 \in Nat
  BY LenProperties
<1>2. \A j \in 1 .. Len(s) - 1 : (IF j < i THEN s[j] ELSE s[j + 1]) \in S
  BY <1>1, ElementOfSeq
<1> QED BY <1>1, <1>2 DEF Without

\* Every entry but the erased one is still there, and nothing is added.
LEMMA WithoutKeeps ==
  ASSUME NEW S, NEW s \in Seq(S), NEW i \in 1 .. Len(s)
  PROVE  /\ \A j \in 1 .. Len(s) : j # i =>
              \E k \in 1 .. Len(Without(s, i)) : Without(s, i)[k] = s[j]
         /\ \A k \in 1 .. Len(Without(s, i)) :
              \E j \in 1 .. Len(s) : j # i /\ Without(s, i)[k] = s[j]
<1>0. Len(s) \in Nat
  BY LenProperties
<1>1. ASSUME NEW j \in 1 .. Len(s), j # i
      PROVE  \E k \in 1 .. Len(Without(s, i)) : Without(s, i)[k] = s[j]
  <2> DEFINE k == IF j < i THEN j ELSE j - 1
  <2>1. k \in 1 .. Len(s) - 1
    BY <1>0, <1>1
  <2>2. (IF k < i THEN k ELSE k + 1) = j
    BY <1>0, <1>1
  <2>3. Without(s, i)[k] = IF k < i THEN s[k] ELSE s[k + 1]
    BY <2>1, WithoutOK
  <2>4. Without(s, i)[k] = s[j]
    BY <2>2, <2>3
  <2>5. k \in 1 .. Len(Without(s, i))
    BY <2>1, WithoutOK
  <2> QED BY <2>4, <2>5
<1>2. ASSUME NEW k \in 1 .. Len(Without(s, i))
      PROVE  \E j \in 1 .. Len(s) : j # i /\ Without(s, i)[k] = s[j]
  <2> DEFINE j == IF k < i THEN k ELSE k + 1
  <2>1. k \in 1 .. Len(s) - 1
    BY <1>2, WithoutOK
  <2>2. j \in 1 .. Len(s) /\ j # i
    BY <1>0, <2>1
  <2>3. Without(s, i)[k] = s[j]
    BY <2>1, WithoutOK
  <2> QED BY <2>2, <2>3
<1> QED BY <1>1, <1>2

\* Time passing changes no entry's piece.
LEMMA ElapseOK ==
  ASSUME NEW n \in Int
  PROVE  /\ Elapse(n) \in Int /\ Elapse(n) >= -1
         /\ n >= 1 => Elapse(n) = n - 1
  BY DEF Elapse, Missed

\* A millisecond passes for every entry and changes nothing else.
LEMMA ElapseEntriesOK ==
  ASSUME NEW s \in Seq(TimerEntry)
  PROVE  /\ ElapseEntries(s) \in Seq(TimerEntry)
         /\ Len(ElapseEntries(s)) = Len(s)
         /\ \A i \in 1 .. Len(s) : /\ ElapseEntries(s)[i].pieceId = s[i].pieceId
                                  /\ ElapseEntries(s)[i].left = Elapse(s[i].left)
<1>1. Len(s) \in Nat
  BY LenProperties
<1>2. \A i \in 1 .. Len(s) : s[i] \in TimerEntry
  BY ElementOfSeq
<1>3. \A i \in 1 .. Len(s) : [s[i] EXCEPT !.left = Elapse(@)] \in TimerEntry
  BY <1>2, ElapseOK DEF TimerEntry
<1> QED BY <1>1, <1>2, <1>3 DEF ElapseEntries, TimerEntry

\* A millisecond passes for a move and changes nothing else.
LEMMA ElapseMoveOK ==
  ASSUME NEW pm \in Move
  PROVE  /\ ElapseMove(pm) \in Move
         /\ ElapseMove(pm).pieceId = pm.pieceId
         /\ ElapseMove(pm).to = pm.to
         /\ ElapseMove(pm).currentPos = pm.currentPos
         /\ ElapseMove(pm).active = pm.active
         /\ ElapseMove(pm).arrivalLeft = Elapse(pm.arrivalLeft)
<1>1. pm.arrivalLeft \in Int /\ pm.stepLeft \in Int
  BY DEF Move
<1>2. Elapse(pm.arrivalLeft) \in Int /\ Elapse(pm.stepLeft) \in Int
  BY <1>1, ElapseOK
<1> QED BY <1>2 DEF ElapseMove, Move

\* Appending one timer entry.
LEMMA AppendEntry ==
  ASSUME NEW s \in Seq(TimerEntry), NEW p \in PieceIds, NEW n \in Int
  PROVE  Append(s, [pieceId |-> p, left |-> n]) \in Seq(TimerEntry)
  BY AppendProperties DEF TimerEntry

\* Erasing one timer entry.
LEMMA WithoutEntry ==
  ASSUME NEW s \in Seq(TimerEntry), NEW i \in 1 .. Len(s)
  PROVE  Without(s, i) \in Seq(TimerEntry) /\ s[i].pieceId \in PieceIds
<1>1. s[i] \in TimerEntry
  BY ElementOfSeq
<1>2. s[i].pieceId \in PieceIds
  BY <1>1 DEF TimerEntry
<1> QED BY <1>2, WithoutOK

\* A move that starts is a Move with its first step and its arrival to come.
LEMMA NewMoveOK ==
  ASSUME NEW p \in PieceIds, NEW from \in Positions, NEW to \in Positions
  PROVE  /\ NewMove(p, from, to) \in Move
         /\ NewMove(p, from, to).active
         /\ NewMove(p, from, to).currentPos = from
         /\ NewMove(p, from, to).arrivalLeft >= 0
<1> DEFINE d == Distance(from, to)
<1>1. from[1] \in Int /\ from[2] \in Int /\ to[1] \in Int /\ to[2] \in Int
  BY DEF Positions
<1>2. d \in Nat
  BY <1>1 DEF Distance, Abs
<1>3. MsPerCell \in Nat
  BY TimingAssumption DEF TimingAssumption
<1>4. d * MsPerCell \in Nat
  BY <1>2, <1>3
<1>5. Sign(to[1] - from[1]) \in -1 .. 1 /\ Sign(to[2] - from[2]) \in -1 .. 1
  BY <1>1 DEF Sign
<1> QED BY <1>3, <1>4, <1>5 DEF NewMove, Move
-----------------------------------------------------------------------------
(* The move being visited *)

\* Replacing the visited move leaves the other moves where they are.
LEMMA UpdateOK ==
  ASSUME TypeOK, Visiting, NEW pm \in Move
  PROVE  /\ Update(pm) \in Seq(Move)
         /\ Len(Update(pm)) = Len(pendingMoves)
         /\ \A j \in 1 .. Len(pendingMoves) :
              Update(pm)[j] = IF j = cursor THEN pm ELSE pendingMoves[j]
<1>1. pendingMoves \in Seq(Move) /\ cursor \in 1 .. Len(pendingMoves)
  BY DEF TypeOK, Visiting
<1> QED BY <1>1, ExceptSeq DEF Update

\* The visited move is a move, and ending it makes it inactive.
LEMMA CurrentOK ==
  ASSUME TypeOK, Visiting
  PROVE  /\ Current \in Move
         /\ \A c \in Positions :
              /\ EndedOn(c) \in Move
              /\ ~EndedOn(c).active
              /\ EndedOn(c).currentPos = c
         /\ Current.currentPos \in Positions
<1>1. Current \in Move
  BY ElementOfSeq DEF TypeOK, Visiting, Current
<1> QED BY <1>1 DEF EndedOn, Move

\* The mover is on the board, the target is a position, and what stands on the
\* target is another piece.
LEMMA MoverOK ==
  ASSUME TypeOK, VisitingPiece
  PROVE  /\ Mover \in DOMAIN board /\ Mover \in PieceIds
         /\ board[Mover].pos = Current.currentPos
         /\ Target \in Positions
         /\ ColorOf(Mover) \in Colors
         /\ Occupied(board, Target) =>
              /\ TargetPiece \in DOMAIN board /\ TargetPiece \in PieceIds
              /\ board[TargetPiece].pos = Target
              /\ ColorOf(TargetPiece) \in Colors
<1>1. Current \in Move
  BY CurrentOK DEF VisitingPiece
<1>2. Mover \in DOMAIN board /\ board[Mover].pos = Current.currentPos
  BY OccupantAt DEF VisitingPiece, Mover
<1>3. DOMAIN board \subseteq PieceIds
  BY DEF TypeOK, BoardOK
<1>4. Target \in Positions
  BY <1>1 DEF Target, Move, Positions, Shift
<1>5. Occupied(board, Target) =>
        TargetPiece \in DOMAIN board /\ board[TargetPiece].pos = Target
  BY OccupantAt DEF TargetPiece
<1> QED BY <1>2, <1>3, <1>4, <1>5, PieceTyping

\* A knight does not stay where it is, nor does a step.
LEMMA MoverNotOnTarget ==
  ASSUME TypeOK, VisitingPiece, TargetIsEnemy
  PROVE  board[Mover].pos # Target
<1>1. CASE board[Mover].pos = Target
  <2>1. Occupant(board, Current.currentPos) = TargetPiece
    BY <1>1, MoverOK DEF TargetPiece
  <2> QED BY <2>1 DEF TargetIsEnemy, Mover
<1> QED BY <1>1

\* Updated moves.
LEMMA AdvancedOK ==
  ASSUME TypeOK, VisitingPiece
  PROVE  [Current EXCEPT !.currentPos = Target, !.stepLeft = @ + MsPerCell] \in Move
<1>1. Current \in Move /\ Target \in Positions /\ MsPerCell \in Int
  BY CurrentOK, MoverOK, TimingAssumption DEF VisitingPiece, TimingAssumption
<1>2. Current.stepLeft + MsPerCell \in Int
  BY <1>1 DEF Move
<1> QED BY <1>1, <1>2 DEF Move

\* A capture neither adds nor removes moves.
LEMMA AfterCaptureOK ==
  ASSUME TypeOK, VisitingPiece
  PROVE  /\ AfterCapture \in Seq(Move)
         /\ Len(AfterCapture) = Len(pendingMoves)
<1>1. Len(pendingMoves) \in Nat /\ \A i \in 1 .. Len(pendingMoves) : pendingMoves[i] \in Move
  BY LenProperties, ElementOfSeq DEF TypeOK
<1>2. EndedOn(Target) \in Move
  BY CurrentOK, MoverOK DEF VisitingPiece
<1>3. \A i \in 1 .. Len(pendingMoves) : [pendingMoves[i] EXCEPT !.active = FALSE] \in Move
  BY <1>1 DEF Move
<1> QED BY <1>1, <1>2, <1>3 DEF AfterCapture

\* A capture credits points and may end the game.
LEMMA CaptureOK ==
  ASSUME TypeOK, NEW c \in Colors, NEW p \in PieceIds, Capture(c, p)
  PROVE  /\ score' \in [Colors -> Nat]
         /\ state' \in GameStates
         /\ winners' \in Seq(Colors)
<1>1. PieceValue(TypeOf(p)) \in Nat
  BY PieceTyping DEF PieceTypes, PieceValue
<1>2. score' \in [Colors -> Nat]
  BY <1>1 DEF TypeOK, Capture
<1>3. state' \in GameStates
  BY DEF TypeOK, Capture, GameStates
<1>4. winners' \in Seq(Colors)
  <2>1. winners' = winners \/ winners' = Append(winners, c)
    BY DEF Capture
  <2>2. winners \in Seq(Colors)
    BY DEF TypeOK
  <2> QED BY <2>1, <2>2, AppendProperties
<1> QED BY <1>2, <1>3, <1>4

\* Arriving leaves a board and one more cooldown.
LEMMA ArriveOK ==
  ASSUME TypeOK, NEW b, BoardOK(b), NEW p \in DOMAIN b, ArriveOn(b, p)
  PROVE  BoardOK(board') /\ cooldowns' \in Seq(TimerEntry)
<1>1. p \in PieceIds /\ CooldownMs \in Int
  BY TimingAssumption DEF BoardOK, TimingAssumption
<1>2. cooldowns' \in Seq(TimerEntry)
  BY <1>1, AppendEntry DEF ArriveOn, TypeOK
<1>3. BoardOK(board')
  BY SetStateOK, PromotePawnOK DEF ArriveOn, PieceStates
<1> QED BY <1>2, <1>3

\* Ending a rest leaves a board, moves and premoves.
LEMMA EndRestOK ==
  ASSUME TypeOK, NEW p \in PieceIds, NEW resting, EndRest(p, resting)
  PROVE  /\ BoardOK(board') /\ pendingMoves' \in Seq(Move)
         /\ DOMAIN premoves' \subseteq PieceIds
         /\ premoves' \in [DOMAIN premoves' -> Positions]
<1>1. CASE ~(p \in DOMAIN board /\ board[p].state = resting)
  BY <1>1 DEF EndRest, Spent, TypeOK
<1>2. CASE p \in DOMAIN board /\ board[p].state = resting
  <2> DEFINE idle == SetState(board, p, "Idle")
             from == board[p].pos
             fires == p \in DOMAIN premoves /\ ValidateMove(idle, from, premoves[p])
  <2>1. BoardOK(idle) /\ DOMAIN idle = DOMAIN board
    BY SetStateOK DEF TypeOK, PieceStates
  <2>2. /\ premoves' = [q \in DOMAIN premoves \ {p} |-> premoves[q]]
        /\ board' = IF fires THEN SetState(idle, p, "Moving") ELSE idle
        /\ pendingMoves' = IF fires
                           THEN Append(pendingMoves, NewMove(p, from, premoves[p]))
                           ELSE pendingMoves
    BY <1>2 DEF EndRest, Spent
  <2>3. BoardOK(board')
    <3> HIDE DEF idle, fires
    <3> QED BY <2>1, <2>2, SetStateOK DEF PieceStates
  <2>4. pendingMoves' \in Seq(Move)
    <3>1. CASE ~fires
      BY <2>2, <3>1 DEF TypeOK
    <3>2. CASE fires
      <4>1. premoves[p] \in Positions
        BY <3>2 DEF TypeOK
      <4>2. from \in Positions
        BY <1>2 DEF TypeOK, BoardOK
      <4>3. NewMove(p, from, premoves[p]) \in Move
        BY <4>1, <4>2, NewMoveOK
      <4> QED BY <2>2, <3>2, <4>3, AppendProperties DEF TypeOK
    <3> QED BY <3>1, <3>2
  <2>5. DOMAIN premoves' \subseteq PieceIds /\ premoves' \in [DOMAIN premoves' -> Positions]
    BY <2>2 DEF TypeOK
  <2> QED BY <2>3, <2>4, <2>5
<1> QED BY <1>1, <1>2
-----------------------------------------------------------------------------
(* Type correctness *)

\* The positions the requests name.
LEMMA CellsArePositions == Cells \subseteq Positions
  BY BoardAssumption DEF BoardAssumption, Cells, Positions

\* The starting position is well typed.
LEMMA TypeInit == Init => TypeOK
<1> SUFFICES ASSUME Init PROVE TypeOK
  OBVIOUS
<1>1. BoardOK(board)
  <2>1. ASSUME NEW p \in 1 .. NumPieces PROVE InitialPieces[p].pos \in Positions
    <3>1. InitialPieces[p] \in [type : PieceTypes, color : Colors, pos : Cells]
      BY BoardAssumption, ElementOfSeq DEF BoardAssumption, NumPieces
    <3> QED BY <3>1, CellsArePositions
  <2> QED BY <2>1, NumPiecesNat DEF Init, InitialBoard, BoardOK, PieceIds, PieceStates
<1>2. score \in [Colors -> Nat]
  BY DEF Init
<1>3. \A S : <<>> \in Seq(S)
  BY EmptySeq
<1>4. DOMAIN premoves \subseteq PieceIds /\ premoves \in [DOMAIN premoves -> Positions]
  BY DEF Init
<1>5. /\ pendingMoves \in Seq(Move) /\ winners \in Seq(Colors)
      /\ cooldowns \in Seq(TimerEntry)
      /\ airborneEntries \in Seq(TimerEntry)
      /\ shortRestEntries \in Seq(TimerEntry)
  BY <1>3 DEF Init
<1>6. state \in GameStates /\ phase \in Phases /\ cursor \in Nat \ {0}
  BY DEF Init, GameStates, Phases
<1>7. kingCaptured \in BOOLEAN
  BY DEF Init
<1> QED BY <1>1, <1>2, <1>4, <1>5, <1>6, <1>7 DEF TypeOK

\* A request of a player keeps the types.
LEMMA TypeRequests == TypeOK /\ Requests => TypeOK'
<1> SUFFICES ASSUME TypeOK, Requests PROVE TypeOK'
  OBVIOUS
<1>1. CASE Start
  BY <1>1 DEF Start, TypeOK, arbiterVars, GameStates
<1>2. CASE Stop
  BY <1>2 DEF Stop, TypeOK, arbiterVars, GameStates
<1>3. ASSUME NEW from \in Cells, NEW to \in PremoveTargets, QueuePremove(from, to)
      PROVE  TypeOK'
  <2>1. to \in Positions
    BY TimingAssumption DEF TimingAssumption
  <2>2. Occupant(board, from) \in PieceIds
    BY <1>3, OccupantAt DEF QueuePremove, TypeOK, BoardOK
  <2>3. DOMAIN premoves' \subseteq PieceIds /\ premoves' \in [DOMAIN premoves' -> Positions]
    BY <1>3, <2>1, <2>2 DEF QueuePremove, TypeOK
  <2> QED BY <1>3, <2>3 DEF QueuePremove, TypeOK, resultVars
<1>4. ASSUME NEW from \in Cells, NEW to \in Cells, RequestMove(from, to)
      PROVE  TypeOK'
  <2>1. Occupant(board, from) \in PieceIds
    BY <1>4, OccupantAt DEF RequestMove, TypeOK, BoardOK
  <2>2. NewMove(Occupant(board, from), from, to) \in Move
    BY <2>1, CellsArePositions, NewMoveOK
  <2>3. pendingMoves' \in Seq(Move)
    BY <1>4, <2>2, AppendProperties DEF RequestMove, TypeOK
  <2>4. BoardOK(board')
    BY <1>4, SetStateOK DEF RequestMove, TypeOK, PieceStates
  <2> QED BY <1>4, <2>3, <2>4 DEF RequestMove, TypeOK, resultVars
<1>5. ASSUME NEW cell \in Cells, TryJump(cell)
      PROVE  TypeOK'
  <2>1. Occupant(board, cell) \in PieceIds
    BY <1>5, OccupantAt DEF TryJump, TypeOK, BoardOK
  <2>2. airborneEntries' \in Seq(TimerEntry)
    BY <1>5, <2>1, AppendEntry, TimingAssumption DEF TryJump, TypeOK, TimingAssumption
  <2>3. BoardOK(board')
    BY <1>5, SetStateOK DEF TryJump, TypeOK, PieceStates
  <2> QED BY <1>5, <2>2, <2>3 DEF TryJump, TypeOK, resultVars
<1> QED BY <1>1, <1>2, <1>3, <1>4, <1>5 DEF Requests

\* So does the clock.
LEMMA TypeTick == TypeOK /\ Tick => TypeOK'
<1> SUFFICES ASSUME TypeOK, Tick PROVE TypeOK'
  OBVIOUS
<1>1. Len(pendingMoves) \in Nat /\ \A i \in 1 .. Len(pendingMoves) : pendingMoves[i] \in Move
  BY LenProperties, ElementOfSeq DEF TypeOK
<1>2. \A i \in 1 .. Len(pendingMoves) :
        ElapseMove(pendingMoves[i]) \in Move
  BY <1>1, ElapseMoveOK
<1>3. pendingMoves' \in Seq(Move)
  BY <1>1, <1>2 DEF Tick
<1>4. /\ cooldowns' \in Seq(TimerEntry)
      /\ airborneEntries' \in Seq(TimerEntry)
      /\ shortRestEntries' \in Seq(TimerEntry)
  BY ElapseEntriesOK DEF Tick, TypeOK
<1>5. UNCHANGED <<board, premoves, kingCaptured, state, score, winners>>
  BY DEF Tick, resultVars
<1>6. phase' \in Phases /\ cursor' \in Nat \ {0}
  BY DEF Tick, Phases
<1> QED BY <1>3, <1>4, <1>5, <1>6 DEF TypeOK
\* Where the loop goes next.
LEMMA LoopOK ==
  ASSUME TypeOK, NextMove \/ ReturnEarly
  PROVE  phase' \in Phases /\ cursor' \in Nat \ {0}
  BY DEF TypeOK, NextMove, ReturnEarly, Phases

\* So does a visit of the loop over pendingMoves_.
LEMMA TypeResolveMove == TypeOK /\ ResolveMove => TypeOK'
<1> SUFFICES ASSUME TypeOK, ResolveMove PROVE TypeOK'
  OBVIOUS
<1>1. CASE SkipMove
  BY <1>1, LoopOK DEF SkipMove, TypeOK, arbiterVars, resultVars
<1>2. CASE DropOrphanMove
  <2>1. pendingMoves' \in Seq(Move)
    BY <1>2, CurrentOK, UpdateOK DEF DropOrphanMove
  <2> QED BY <1>2, <2>1, LoopOK DEF DropOrphanMove, TypeOK, resultVars
<1>3. CASE Blocked
  <2>1. pendingMoves' \in Seq(Move)
    BY <1>3, CurrentOK, UpdateOK DEF Blocked, VisitingPiece
  <2>2. BoardOK(board')
    BY <1>3, SetStateOK DEF Blocked, TypeOK, PieceStates
  <2> QED BY <1>3, <2>1, <2>2, LoopOK DEF Blocked, TypeOK, resultVars
<1>4. CASE CounterKill
  <2>0. VisitingPiece /\ Visiting /\ Occupied(board, Target)
    BY <1>4 DEF CounterKill, VisitingPiece, MeetsAirborne, TargetIsEnemy
  <2>1. pendingMoves' \in Seq(Move)
    BY <1>4, <2>0, CurrentOK, UpdateOK DEF CounterKill
  <2>2. BoardOK(board')
    BY <1>4, SetStateOK, RemovePieceOK DEF CounterKill, TypeOK, PieceStates
  <2>3. score' \in [Colors -> Nat] /\ state' \in GameStates /\ winners' \in Seq(Colors)
    BY <1>4, <2>0, MoverOK, CaptureOK DEF CounterKill
  <2>4. shortRestEntries' \in Seq(TimerEntry)
    BY <1>4, <2>0, MoverOK, AppendEntry, TimingAssumption
       DEF CounterKill, TypeOK, TimingAssumption
  <2>5. kingCaptured' \in BOOLEAN
    BY <1>4 DEF CounterKill
  <2>6. NextMove \/ ReturnEarly
    BY <1>4 DEF CounterKill
  <2>7. UNCHANGED <<cooldowns, airborneEntries, premoves>>
    BY <1>4 DEF CounterKill
  <2> QED BY <2>1, <2>2, <2>3, <2>4, <2>5, <2>6, <2>7, LoopOK DEF TypeOK
<1>5. CASE CaptureTarget
  <2>0. VisitingPiece /\ Visiting /\ Occupied(board, Target)
    BY <1>5 DEF CaptureTarget, VisitingPiece, TargetIsEnemy
  <2>1. pendingMoves' \in Seq(Move)
    BY <1>5, <2>0, AfterCaptureOK DEF CaptureTarget
  <2>2. score' \in [Colors -> Nat] /\ state' \in GameStates /\ winners' \in Seq(Colors)
    BY <1>5, <2>0, MoverOK, CaptureOK DEF CaptureTarget
  <2> DEFINE b == MovePiece(RemovePiece(board, Target), Current.currentPos, Target)
  <2>3. BoardOK(b) /\ DOMAIN b = DOMAIN board \ At(board, Target)
    <3>1. BoardOK(board) /\ Target \in Positions
      BY <2>0, MoverOK DEF TypeOK
    <3>2. /\ BoardOK(RemovePiece(board, Target))
          /\ DOMAIN RemovePiece(board, Target) = DOMAIN board \ At(board, Target)
      BY <3>1, RemovePieceOK
    <3> QED BY <3>1, <3>2, MovePieceOK
  <2>4. Mover \in DOMAIN b
    BY <1>5, <2>0, <2>3, MoverOK, MoverNotOnTarget DEF CaptureTarget, At
  <2>5. BoardOK(board') /\ cooldowns' \in Seq(TimerEntry) /\ kingCaptured' \in BOOLEAN
    <3>1. CASE TypeOf(TargetPiece) = "King"
      <4>1. board' = b /\ cooldowns' = cooldowns /\ kingCaptured' = TRUE
        BY <1>5, <3>1 DEF CaptureTarget
      <4> QED BY <2>3, <4>1 DEF TypeOK
    <3>2. CASE TypeOf(TargetPiece) # "King"
      <4>1. ArriveOn(b, Mover) /\ kingCaptured' = kingCaptured
        BY <1>5, <3>2 DEF CaptureTarget
      <4>2. BoardOK(board') /\ cooldowns' \in Seq(TimerEntry)
        <5> HIDE DEF b
        <5> QED BY <2>3, <2>4, <4>1, ArriveOK
      <4> QED BY <4>1, <4>2 DEF TypeOK
    <3> QED BY <3>1, <3>2
  <2>6. NextMove \/ ReturnEarly
    BY <1>5 DEF CaptureTarget
  <2>7. UNCHANGED <<airborneEntries, shortRestEntries, premoves>>
    BY <1>5 DEF CaptureTarget
  <2> QED BY <2>1, <2>2, <2>5, <2>6, <2>7, LoopOK DEF TypeOK
<1>6. CASE Arrive
  <2>0. VisitingPiece /\ Visiting
    BY <1>6 DEF Arrive, Enters, VisitingPiece
  <2>1. pendingMoves' \in Seq(Move)
    BY <1>6, <2>0, MoverOK, CurrentOK, UpdateOK DEF Arrive
  <2> DEFINE b == MovePiece(board, Current.currentPos, Target)
  <2>2. BoardOK(b) /\ Mover \in DOMAIN b
    BY <2>0, MoverOK, MovePieceOK DEF TypeOK
  <2>3. ArriveOn(b, Mover)
    BY <1>6 DEF Arrive
  <2>4. BoardOK(board') /\ cooldowns' \in Seq(TimerEntry)
    <3> HIDE DEF b
    <3> QED BY <2>2, <2>3, ArriveOK
  <2> QED BY <1>6, <2>1, <2>4, LoopOK DEF Arrive, TypeOK, resultVars
<1>7. CASE Advance
  <2>0. VisitingPiece /\ Visiting
    BY <1>7 DEF Advance, Enters, VisitingPiece
  <2>1. [Current EXCEPT !.currentPos = Target, !.stepLeft = @ + MsPerCell] \in Move
    BY <2>0, AdvancedOK
  <2>2. pendingMoves' \in Seq(Move)
    BY <1>7, <2>0, <2>1, UpdateOK DEF Advance
  <2>3. BoardOK(board')
    BY <1>7, <2>0, MoverOK, MovePieceOK DEF Advance, TypeOK
  <2> QED BY <1>7, <2>2, <2>3, LoopOK DEF Advance, TypeOK, resultVars
<1>8. CASE EndMoves
  BY <1>8 DEF EndMoves, TypeOK, arbiterVars, resultVars, Phases
<1> QED BY <1>1, <1>2, <1>3, <1>4, <1>5, <1>6, <1>7, <1>8 DEF ResolveMove

\* So does the resolution of the timers.
LEMMA TypeResolveTimers == TypeOK /\ ResolveTimers => TypeOK'
<1> SUFFICES ASSUME TypeOK, ResolveTimers PROVE TypeOK'
  OBVIOUS
<1>1. CASE EraseMove
  <2>1. pendingMoves' \in Seq(Move)
    BY <1>1, WithoutOK DEF EraseMove, TypeOK
  <2> QED BY <1>1, <2>1 DEF EraseMove, TypeOK, resultVars
<1>2. CASE ExpireCooldown
  <2>1. PICK i \in 1 .. Len(cooldowns) :
          cooldowns' = Without(cooldowns, i) /\ EndRest(cooldowns[i].pieceId, "Cooldown")
    BY <1>2 DEF ExpireCooldown
  <2>2. cooldowns' \in Seq(TimerEntry) /\ cooldowns[i].pieceId \in PieceIds
    BY <2>1, WithoutEntry DEF TypeOK
  <2>3. UNCHANGED <<airborneEntries, shortRestEntries, kingCaptured, state, score,
                    winners, phase, cursor>>
    BY <1>2 DEF ExpireCooldown, resultVars
  <2> QED BY <2>1, <2>2, <2>3, EndRestOK DEF TypeOK
<1>3. CASE LandJump
  <2>1. PICK i \in 1 .. Len(airborneEntries) :
          /\ airborneEntries' = Without(airborneEntries, i)
          /\ \/ /\ board' = SetState(board, airborneEntries[i].pieceId, "ShortRest")
                /\ shortRestEntries' = Append(shortRestEntries,
                      [pieceId |-> airborneEntries[i].pieceId, left |-> ShortRestMs])
             \/ UNCHANGED <<board, shortRestEntries>>
    BY <1>3 DEF LandJump
  <2>2. airborneEntries' \in Seq(TimerEntry) /\ airborneEntries[i].pieceId \in PieceIds
    BY <2>1, WithoutEntry DEF TypeOK
  <2>3. BoardOK(board') /\ shortRestEntries' \in Seq(TimerEntry)
    <3>1. BoardOK(SetState(board, airborneEntries[i].pieceId, "ShortRest"))
      BY SetStateOK DEF TypeOK, PieceStates
    <3>2. Append(shortRestEntries, [pieceId |-> airborneEntries[i].pieceId,
                                    left |-> ShortRestMs]) \in Seq(TimerEntry)
      BY <2>2, AppendEntry, TimingAssumption DEF TypeOK, TimingAssumption
    <3> QED BY <2>1, <3>1, <3>2 DEF TypeOK
  <2>4. UNCHANGED <<pendingMoves, cooldowns, premoves, kingCaptured, state, score,
                    winners, phase, cursor>>
    BY <1>3 DEF LandJump, resultVars
  <2> QED BY <2>2, <2>3, <2>4, <2>1 DEF TypeOK
<1>4. CASE ExpireShortRest
  <2>1. PICK i \in 1 .. Len(shortRestEntries) :
          /\ shortRestEntries' = Without(shortRestEntries, i)
          /\ EndRest(shortRestEntries[i].pieceId, "ShortRest")
    BY <1>4 DEF ExpireShortRest
  <2>2. shortRestEntries' \in Seq(TimerEntry) /\ shortRestEntries[i].pieceId \in PieceIds
    BY <2>1, WithoutEntry DEF TypeOK
  <2>3. UNCHANGED <<cooldowns, airborneEntries, kingCaptured, state, score,
                    winners, phase, cursor>>
    BY <1>4 DEF ExpireShortRest, resultVars
  <2> QED BY <2>1, <2>2, <2>3, EndRestOK DEF TypeOK
<1>5. CASE EndTick
  BY <1>5 DEF EndTick, TypeOK, arbiterVars, resultVars, Phases
<1> QED BY <1>1, <1>2, <1>3, <1>4, <1>5 DEF ResolveTimers

\* Every variable of the engine keeps its type, for every board and every timing.
THEOREM TypeCorrect == Spec => []TypeOK
<1>1. TypeOK /\ UNCHANGED vars => TypeOK'
  BY DEF TypeOK, vars, arbiterVars, resultVars
<1>2. TypeOK /\ [Next]_vars => TypeOK'
  BY <1>1, TypeRequests, TypeTick, TypeResolveMove, TypeResolveTimers
     DEF Next, AdvanceTime, WaitNoOp
<1> QED BY <1>2, TypeInit, PTL DEF Spec

-----------------------------------------------------------------------------
(* One piece per square *)

Distinct(b) == \A p, q \in DOMAIN b : b[p].pos = b[q].pos => p = q

\* A piece that changes its state stays where it is.
LEMMA SetStateDistinct ==
  ASSUME NEW b, BoardOK(b), Distinct(b), NEW p, NEW s
  PROVE  Distinct(SetState(b, p, s))
<1>1. \A q \in DOMAIN b : SetState(b, p, s)[q].pos = b[q].pos
  BY DEF SetState, BoardOK
<1>2. DOMAIN SetState(b, p, s) = DOMAIN b
  BY DEF SetState, BoardOK
<1> QED BY <1>1, <1>2 DEF Distinct

\* Removing pieces brings nobody together.
LEMMA RemovePieceDistinct ==
  ASSUME NEW b, Distinct(b), NEW c
  PROVE  Distinct(RemovePiece(b, c))
  BY DEF RemovePiece, Distinct

\* movePiece refuses an occupied target, so a piece arrives alone.
LEMMA MovePieceDistinct ==
  ASSUME NEW b, BoardOK(b), Distinct(b), NEW from, NEW to
  PROVE  Distinct(MovePiece(b, from, to))
<1>1. CASE Occupied(b, to)
  BY <1>1 DEF MovePiece
<1>2. CASE ~Occupied(b, to)
  <2> DEFINE m == MovePiece(b, from, to)
  <2>1. \A q \in DOMAIN b : b[q].pos # to
    BY <1>2 DEF Occupied, At
  <2>2. DOMAIN m = DOMAIN b
    BY <1>2 DEF MovePiece
  <2>3. \A q \in DOMAIN b : m[q].pos = IF b[q].pos = from THEN to ELSE b[q].pos
    BY <1>2 DEF MovePiece, BoardOK
  <2>4. Distinct(m)
    <3> HIDE DEF m
    <3> QED BY <2>1, <2>2, <2>3 DEF Distinct
  <2> QED BY <2>4
<1> QED BY <1>1, <1>2

\* The queen takes the place of the pawn.
LEMMA PromotePawnDistinct ==
  ASSUME NEW b, BoardOK(b), Distinct(b), NEW p \in DOMAIN b
  PROVE  Distinct(PromotePawn(b, p))
<1> DEFINE m == PromotePawn(b, p)
<1>1. DOMAIN m = (DOMAIN b \ {p}) \cup {QueenOf(p)}
  BY DEF PromotePawn
<1>2. \A q \in DOMAIN m : m[q].pos = IF q = QueenOf(p) THEN b[p].pos ELSE b[q].pos
  BY DEF PromotePawn
<1>3. Distinct(m)
  <2> HIDE DEF m
  <2> QED BY <1>1, <1>2 DEF Distinct
<1> QED BY <1>3

\* Ending a move or a rest only changes states, or promotes.
LEMMA ArriveOnDistinct ==
  ASSUME NEW b, BoardOK(b), Distinct(b), NEW p \in DOMAIN b, ArriveOn(b, p)
  PROVE  Distinct(board')
  BY SetStateDistinct, PromotePawnDistinct DEF ArriveOn

\* A rest that ends leaves the piece, or the move it starts, on its square.
LEMMA EndRestDistinct ==
  ASSUME TypeOK, OnePiecePerSquare, NEW p, NEW resting, EndRest(p, resting)
  PROVE  Distinct(board')
<1> DEFINE idle == SetState(board, p, "Idle")
<1>1. BoardOK(idle) /\ Distinct(idle)
  BY SetStateOK, SetStateDistinct DEF TypeOK, OnePiecePerSquare, Distinct, PieceStates
<1>2. board' = board \/ board' = idle \/ board' = SetState(idle, p, "Moving")
  BY DEF EndRest
<1> HIDE DEF idle
<1> QED BY <1>1, <1>2, SetStateDistinct DEF OnePiecePerSquare, Distinct
-----------------------------------------------------------------------------
(* What a step does to the pieces *)

\* e are the pieces d, one pawn of them perhaps promoted.
SameMen(d, e) ==
  e = d \/ \E p \in d : TypeOf(p) = "Pawn" /\ e = (d \ {p}) \cup {QueenOf(p)}

\* A step that takes nobody, and one that takes piece v for colour c.
Keeps == SameMen(DOMAIN board, DOMAIN board') /\ UNCHANGED resultVars
Takes(v, c) ==
  /\ phase = "moves" /\ c # ColorOf(v) /\ Capture(c, v)
  /\ kingCaptured' = (kingCaptured \/ TypeOf(v) = "King")
  /\ SameMen(DOMAIN board \ {v}, DOMAIN board')
  /\ TypeOf(v) = "King" => phase' = "idle"
TakesOne == \E v \in DOMAIN board, c \in Colors : Takes(v, c)

\* The occupant of a square is all there is on it.
LEMMA TakenAlone ==
  ASSUME OnePiecePerSquare, NEW c, Occupied(board, c)
  PROVE  At(board, c) = {Occupant(board, c)}
  BY OccupantAt DEF OnePiecePerSquare, At

\* Arriving promotes at most the piece that arrives.
LEMMA ArriveOnSameMen ==
  ASSUME NEW b, BoardOK(b), NEW p \in DOMAIN b, ArriveOn(b, p)
  PROVE  SameMen(DOMAIN b, DOMAIN board')
<1>1. DOMAIN SetState(b, p, "Cooldown") = DOMAIN b
  BY SetStateOK DEF PieceStates
<1>2. TypeOf(p) = "Pawn" => DOMAIN PromotePawn(b, p) = (DOMAIN b \ {p}) \cup {QueenOf(p)}
  BY PromotePawnOK
<1>3. \/ board' = SetState(b, p, "Cooldown")
      \/ TypeOf(p) = "Pawn" /\ board' = PromotePawn(b, p)
  BY DEF ArriveOn
<1> QED BY <1>1, <1>2, <1>3 DEF SameMen

\* The end of a rest takes nobody.
LEMMA EndRestSameMen ==
  ASSUME TypeOK, NEW p, NEW resting, EndRest(p, resting)
  PROVE  DOMAIN board' = DOMAIN board
<1> DEFINE idle == SetState(board, p, "Idle")
<1>1. BoardOK(idle) /\ DOMAIN idle = DOMAIN board
  BY SetStateOK DEF TypeOK, PieceStates
<1>2. board' = board \/ board' = idle \/ board' = SetState(idle, p, "Moving")
  BY DEF EndRest
<1> HIDE DEF idle
<1> QED BY <1>1, <1>2, SetStateOK DEF PieceStates

\* A counter-kill takes the mover, for the colour of the piece in the air.
LEMMA CounterKillTakes ==
  ASSUME TypeOK, OnePiecePerSquare, CounterKill
  PROVE  Takes(Mover, ColorOf(TargetPiece)) /\ Mover \in DOMAIN board
<1>1. VisitingPiece /\ TargetIsEnemy
  BY DEF CounterKill, MeetsAirborne
<1>2. At(board, Current.currentPos) = {Mover}
  BY <1>1, TakenAlone DEF VisitingPiece, Mover
<1>3. DOMAIN board' = DOMAIN board \ {Mover}
  <2>1. BoardOK(RemovePiece(board, Current.currentPos))
        /\ DOMAIN RemovePiece(board, Current.currentPos) = DOMAIN board \ {Mover}
    BY <1>2, RemovePieceOK DEF TypeOK
  <2> QED BY <2>1, SetStateOK DEF CounterKill, PieceStates
<1>4. kingCaptured' = (kingCaptured \/ TypeOf(Mover) = "King")
  BY DEF CounterKill
<1>5. TypeOf(Mover) = "King" => phase' = "idle"
  BY <1>4 DEF CounterKill, ReturnEarly
<1>6. phase = "moves" /\ ColorOf(TargetPiece) # ColorOf(Mover)
      /\ Capture(ColorOf(TargetPiece), Mover)
  BY <1>1 DEF CounterKill, VisitingPiece, Visiting, TargetIsEnemy
<1> QED BY <1>1, <1>3, <1>4, <1>5, <1>6, MoverOK DEF Takes, SameMen

\* A capture takes what stands on the target, for the colour of the mover.
LEMMA CaptureTargetTakes ==
  ASSUME TypeOK, OnePiecePerSquare, CaptureTarget
  PROVE  Takes(TargetPiece, ColorOf(Mover)) /\ TargetPiece \in DOMAIN board
<1>1. VisitingPiece /\ TargetIsEnemy /\ Occupied(board, Target)
  BY DEF CaptureTarget, TargetIsEnemy
<1>2. At(board, Target) = {TargetPiece}
  BY <1>1, TakenAlone DEF TargetPiece
<1> DEFINE b == MovePiece(RemovePiece(board, Target), Current.currentPos, Target)
<1>3. BoardOK(b) /\ DOMAIN b = DOMAIN board \ {TargetPiece}
  <2>1. BoardOK(board) /\ Target \in Positions
    BY <1>1, MoverOK DEF TypeOK
  <2>2. /\ BoardOK(RemovePiece(board, Target))
        /\ DOMAIN RemovePiece(board, Target) = DOMAIN board \ {TargetPiece}
    BY <1>2, <2>1, RemovePieceOK
  <2> QED BY <2>1, <2>2, MovePieceOK
<1>4. Mover \in DOMAIN b
  BY <1>1, <1>3, MoverOK, MoverNotOnTarget
<1>5. SameMen(DOMAIN board \ {TargetPiece}, DOMAIN board')
  <2>1. CASE TypeOf(TargetPiece) = "King"
    BY <1>3, <2>1 DEF CaptureTarget, SameMen
  <2>2. CASE TypeOf(TargetPiece) # "King"
    <3>1. ArriveOn(b, Mover)
      BY <2>2 DEF CaptureTarget
    <3> HIDE DEF b
    <3> QED BY <1>3, <1>4, <3>1, ArriveOnSameMen
  <2> QED BY <2>1, <2>2
<1>6. kingCaptured' = (kingCaptured \/ TypeOf(TargetPiece) = "King")
      /\ (TypeOf(TargetPiece) = "King" => phase' = "idle")
  <2>1. kingCaptured \in BOOLEAN
    BY DEF TypeOK
  <2>2. CASE TypeOf(TargetPiece) = "King"
    BY <2>2 DEF CaptureTarget, ReturnEarly
  <2>3. CASE TypeOf(TargetPiece) # "King"
    BY <2>1, <2>3 DEF CaptureTarget
  <2> QED BY <2>2, <2>3
<1>7. phase = "moves" /\ ColorOf(Mover) # ColorOf(TargetPiece)
      /\ Capture(ColorOf(Mover), TargetPiece)
  BY <1>1 DEF CaptureTarget, VisitingPiece, Visiting, TargetIsEnemy
<1> QED BY <1>1, <1>5, <1>6, <1>7, MoverOK DEF Takes

\* Every step starts or stops the game, leaves the pieces alone, or takes one.
LEMMA StepOutcome ==
  ASSUME TypeOK, OnePiecePerSquare, Next
  PROVE  Start \/ Stop \/ Keeps \/ TakesOne
<1>1. ASSUME DOMAIN board' = DOMAIN board, UNCHANGED resultVars
      PROVE  Keeps
  BY <1>1 DEF Keeps, SameMen
<1>2. CASE \E from \in Cells, to \in PremoveTargets : QueuePremove(from, to)
  BY <1>1, <1>2 DEF QueuePremove
<1>3. CASE \E from, to \in Cells : RequestMove(from, to)
  BY <1>1, <1>3, SetStateOK DEF RequestMove, TypeOK, PieceStates
<1>4. CASE \E cell \in Cells : TryJump(cell)
  BY <1>1, <1>4, SetStateOK DEF TryJump, TypeOK, PieceStates
<1>5. CASE Tick \/ SkipMove \/ DropOrphanMove \/ EndMoves \/ EraseMove \/ EndTick \/ WaitNoOp
  BY <1>1, <1>5 DEF Tick, SkipMove, DropOrphanMove, EndMoves, EraseMove, EndTick, WaitNoOp, vars
<1>6. CASE Blocked
  BY <1>1, <1>6, SetStateOK DEF Blocked, TypeOK, PieceStates
<1>7. CASE CounterKill
  BY <1>7, CounterKillTakes, MoverOK DEF TakesOne, CounterKill, MeetsAirborne, TargetIsEnemy
<1>8. CASE CaptureTarget
  BY <1>8, CaptureTargetTakes, MoverOK DEF TakesOne, CaptureTarget
<1>9. CASE Arrive
  <2> DEFINE b == MovePiece(board, Current.currentPos, Target)
  <2>1. VisitingPiece /\ ArriveOn(b, Mover) /\ UNCHANGED resultVars
    BY <1>9 DEF Arrive, Enters
  <2>2. BoardOK(b) /\ DOMAIN b = DOMAIN board /\ Mover \in DOMAIN b
    BY <2>1, MoverOK, MovePieceOK DEF TypeOK
  <2>3. SameMen(DOMAIN b, DOMAIN board')
    <3> HIDE DEF b
    <3> QED BY <2>1, <2>2, ArriveOnSameMen
  <2> QED BY <2>1, <2>2, <2>3 DEF Keeps
<1>10. CASE Advance
  BY <1>1, <1>10, MoverOK, MovePieceOK DEF Advance, Enters, TypeOK
<1>11. CASE ExpireCooldown
  BY <1>1, <1>11, EndRestSameMen DEF ExpireCooldown
<1>12. CASE LandJump
  <2>1. \/ board' = board
        \/ \E p : board' = SetState(board, p, "ShortRest")
    BY <1>12 DEF LandJump
  <2>2. DOMAIN board' = DOMAIN board
    BY <2>1, SetStateOK DEF TypeOK, PieceStates
  <2> QED BY <1>1, <1>12, <2>2 DEF LandJump
<1>13. CASE ExpireShortRest
  BY <1>1, <1>13, EndRestSameMen DEF ExpireShortRest
<1> QED BY <1>2, <1>3, <1>4, <1>5, <1>6, <1>7, <1>8, <1>9, <1>10, <1>11, <1>12, <1>13
        DEF Next, Requests, AdvanceTime, ResolveMove, ResolveTimers

-----------------------------------------------------------------------------
\* A step that moves, removes or replaces pieces leaves one piece per square.
LEMMA DistinctStep ==
  ASSUME TypeOK, OnePiecePerSquare, Next
  PROVE  Distinct(board')
<1>0. Distinct(board) /\ BoardOK(board)
  BY DEF OnePiecePerSquare, Distinct, TypeOK
<1>1. CASE board' = board
  BY <1>0, <1>1
<1>2. CASE \E p, s : board' = SetState(board, p, s)
  BY <1>0, <1>2, SetStateDistinct
<1>3. CASE CounterKill
  <2>1. BoardOK(RemovePiece(board, Current.currentPos))
        /\ Distinct(RemovePiece(board, Current.currentPos))
    BY <1>0, RemovePieceOK, RemovePieceDistinct
  <2> QED BY <1>3, <2>1, SetStateDistinct DEF CounterKill
<1>4. CASE CaptureTarget
  <2> DEFINE r == RemovePiece(board, Target)
             b == MovePiece(r, Current.currentPos, Target)
  <2>1. VisitingPiece /\ TargetIsEnemy /\ Occupied(board, Target)
    BY <1>4 DEF CaptureTarget, TargetIsEnemy
  <2>2. BoardOK(r) /\ Distinct(r) /\ DOMAIN r = DOMAIN board \ At(board, Target)
    BY <1>0, RemovePieceOK, RemovePieceDistinct
  <2>3. BoardOK(b) /\ Distinct(b) /\ DOMAIN b = DOMAIN r
    <3> HIDE DEF r
    <3> QED BY <2>1, <2>2, MoverOK, MovePieceOK, MovePieceDistinct
  <2>4. Mover \in DOMAIN b
    BY <2>1, <2>2, <2>3, MoverOK, MoverNotOnTarget DEF At
  <2>5. board' = b \/ ArriveOn(b, Mover)
    BY <1>4 DEF CaptureTarget
  <2> HIDE DEF b
  <2> QED BY <2>3, <2>4, <2>5, ArriveOnDistinct
<1>5. CASE Arrive
  <2> DEFINE b == MovePiece(board, Current.currentPos, Target)
  <2>1. VisitingPiece /\ ArriveOn(b, Mover)
    BY <1>5 DEF Arrive, Enters
  <2>2. BoardOK(b) /\ Distinct(b) /\ Mover \in DOMAIN b
    BY <1>0, <2>1, MoverOK, MovePieceOK, MovePieceDistinct
  <2> HIDE DEF b
  <2> QED BY <2>1, <2>2, ArriveOnDistinct
<1>6. CASE Advance
  BY <1>0, <1>6, MovePieceDistinct DEF Advance
<1>7. CASE ExpireCooldown \/ ExpireShortRest
  BY <1>7, EndRestDistinct DEF ExpireCooldown, ExpireShortRest
<1>8. CASE Requests
  <2>1. CASE \E from \in Cells, to \in Cells : RequestMove(from, to)
    BY <1>2, <2>1 DEF RequestMove
  <2>2. CASE \E cell \in Cells : TryJump(cell)
    BY <1>2, <2>2 DEF TryJump
  <2> QED BY <1>1, <1>8, <2>1, <2>2 DEF Requests, Start, Stop, QueuePremove
<1>9. CASE Blocked
  BY <1>2, <1>9 DEF Blocked
<1>10. CASE LandJump
  BY <1>1, <1>2, <1>10 DEF LandJump
<1>11. CASE Tick \/ SkipMove \/ DropOrphanMove \/ EndMoves \/ EraseMove \/ EndTick \/ WaitNoOp
  BY <1>1, <1>11 DEF Tick, SkipMove, DropOrphanMove, EndMoves, EraseMove, EndTick, WaitNoOp, vars
<1> QED BY <1>3, <1>4, <1>5, <1>6, <1>7, <1>8, <1>9, <1>10, <1>11
        DEF Next, AdvanceTime, ResolveMove, ResolveTimers

\* Two pieces never share a square, however moves, captures and promotions cross.
THEOREM SquaresAreExclusive == Spec => []OnePiecePerSquare
<1>1. Init => OnePiecePerSquare
  BY BoardAssumption DEF Init, InitialBoard, OnePiecePerSquare, BoardAssumption
<1>2. TypeOK /\ OnePiecePerSquare /\ [Next]_vars => OnePiecePerSquare'
  <2>1. OnePiecePerSquare /\ UNCHANGED vars => OnePiecePerSquare'
    BY DEF OnePiecePerSquare, vars
  <2>2. TypeOK /\ OnePiecePerSquare /\ Next => OnePiecePerSquare'
    BY DistinctStep DEF OnePiecePerSquare, Distinct
  <2> QED BY <2>1, <2>2
<1> QED BY <1>1, <1>2, TypeCorrect, PTL DEF Spec

-----------------------------------------------------------------------------
(* The end of the game *)

\* advanceTime works only on a running game: it returns when a king falls.
Ongoing == phase # "idle" => state = "Running"

\* A queen is on the board only in the place of a pawn that is not.
QueensReplacePawns ==
  \A p \in 1 .. NumPieces :
    QueenOf(p) \in DOMAIN board => TypeOf(p) = "Pawn" /\ p \notin DOMAIN board

\* The clock runs only while the game does.
LEMMA OngoingStep ==
  ASSUME TypeOK, OnePiecePerSquare, Ongoing, [Next]_vars
  PROVE  Ongoing'
<1>1. CASE UNCHANGED vars
  BY <1>1 DEF vars, resultVars, Ongoing
<1>2. CASE Start \/ Stop
  BY <1>2 DEF Start, Stop, Ongoing
<1>3. CASE TakesOne
  BY <1>3 DEF TakesOne, Takes, Capture, Ongoing
<1>4. CASE Keeps /\ Next
  <2>1. state' = state
    BY <1>4 DEF Keeps, resultVars
  <2>2. phase' # "idle" => phase # "idle" \/ state = "Running"
    BY <1>4 DEF Next, Requests, Start, Stop, QueuePremove, RequestMove, TryJump, AdvanceTime,
                Tick, ResolveMove, VisitingPiece, Visiting, SkipMove, DropOrphanMove, Blocked,
                CounterKill, CaptureTarget, Arrive, Enters, Advance, EndMoves,
                ResolveTimers, EraseMove, ExpireCooldown, LandJump, ExpireShortRest, EndTick,
                WaitNoOp, vars
  <2> QED BY <2>1, <2>2 DEF Ongoing
<1> QED BY <1>1, <1>2, <1>3, <1>4, StepOutcome

\* Nobody but a pawn is ever replaced.
LEMMA QueensStep ==
  ASSUME TypeOK, OnePiecePerSquare, QueensReplacePawns, [Next]_vars
  PROVE  QueensReplacePawns'
<1>1. ASSUME NEW d, d \subseteq DOMAIN board, SameMen(d, DOMAIN board')
      PROVE  QueensReplacePawns'
  <2>0. d \subseteq PieceIds /\ NumPieces \in Nat
    BY <1>1, NumPiecesNat DEF TypeOK, BoardOK
  <2>1. CASE DOMAIN board' = d
    BY <1>1, <2>1 DEF QueensReplacePawns
  <2>2. ASSUME NEW p \in d, TypeOf(p) = "Pawn", DOMAIN board' = (d \ {p}) \cup {QueenOf(p)}
        PROVE  QueensReplacePawns'
    <3>1. p \in 1 .. NumPieces
      BY <2>0, <2>2, PieceTyping
    <3> QED BY <1>1, <2>0, <2>2, <3>1 DEF QueensReplacePawns, QueenOf
  <2> QED BY <1>1, <2>1, <2>2 DEF SameMen
<1>2. CASE DOMAIN board' = DOMAIN board
  BY <1>1, <1>2 DEF SameMen
<1>3. CASE TakesOne \/ Keeps
  BY <1>1, <1>3 DEF TakesOne, Takes, Keeps
<1>4. CASE UNCHANGED vars \/ Start \/ Stop
  BY <1>2, <1>4 DEF vars, Start, Stop
<1> QED BY <1>3, <1>4, StepOutcome

\* A finished game stays finished: moves, captures, points and winners are history.
THEOREM FinishedForGood == Spec => FinishedIsFinal
<1>1. Init => Ongoing
  BY DEF Init, Ongoing
<1>2. TypeOK /\ OnePiecePerSquare /\ Ongoing /\ [Next]_vars => Ongoing'
  BY OngoingStep
<1>3. Ongoing /\ [Next]_vars
        => [state = "Finished" => UNCHANGED <<board, score, winners>>]_vars
  <2> SUFFICES ASSUME Ongoing, Next, state = "Finished"
               PROVE  UNCHANGED <<board, score, winners>>
    OBVIOUS
  <2>1. phase = "idle"
    BY DEF Ongoing
  <2> QED BY <2>1 DEF Next, Requests, Start, Stop, QueuePremove, RequestMove, TryJump, AdvanceTime,
                Tick, ResolveMove, VisitingPiece, Visiting, SkipMove, DropOrphanMove, Blocked,
                CounterKill, CaptureTarget, Arrive, Enters, Advance, EndMoves,
                ResolveTimers, EraseMove, ExpireCooldown, LandJump, ExpireShortRest, EndTick,
                WaitNoOp, vars, resultVars
<1> QED BY <1>1, <1>2, <1>3, TypeCorrect, SquaresAreExclusive, PTL DEF Spec, FinishedIsFinal

-----------------------------------------------------------------------------
(* How a game ends *)

\* Kings are pieces of the starting position; no queen and no pawn is one.
LEMMA KingIds ==
  /\ Kings \subseteq PieceIds
  /\ \A v \in PieceIds : TypeOf(v) = "King" <=> v \in Kings
  /\ \A p \in PieceIds : TypeOf(p) = "Pawn" => p \notin Kings /\ QueenOf(p) \notin Kings
<1>1. NumPieces \in Nat
  BY NumPiecesNat
<1>2. \A v \in PieceIds : TypeOf(v) = "King" => v \in 1 .. NumPieces
  BY PieceTyping
<1>3. \A p \in PieceIds : QueenOf(p) \notin 1 .. NumPieces
  BY <1>1 DEF PieceIds, QueenOf
<1>4. Kings \subseteq PieceIds
  BY <1>1 DEF Kings, PieceIds
<1> QED BY <1>2, <1>3, <1>4 DEF Kings

\* A king stays among the men unless it is the one that is taken.
LEMMA KingsRemain ==
  ASSUME NEW d, d \subseteq PieceIds, NEW e, SameMen(d, e), NEW k \in Kings
  PROVE  k \in e <=> k \in d
  BY KingIds DEF SameMen

\* A step that takes nobody, or that starts or stops the game, decides nothing.
LEMMA GameOverKeeps ==
  ASSUME TypeOK, GameOver, SameMen(DOMAIN board, DOMAIN board'),
         UNCHANGED <<kingCaptured, winners>>, (state' = "Finished") = (state = "Finished")
  PROVE  GameOver'
<1>1. \A k \in Kings : k \in DOMAIN board' <=> k \in DOMAIN board
  BY KingsRemain DEF TypeOK, BoardOK
<1>2. kingCaptured' = (\E k \in Kings : k \notin DOMAIN board')
  BY <1>1 DEF GameOver
<1>3. (state' = "Finished") = kingCaptured'
  BY DEF GameOver
<1>4. Len(winners') = IF kingCaptured' THEN 1 ELSE 0
  BY DEF GameOver
<1>5. \A i \in 1 .. Len(winners'), k \in Kings :
        ColorOf(k) = winners'[i] => k \in DOMAIN board'
  BY <1>1 DEF GameOver
<1> QED BY <1>2, <1>3, <1>4, <1>5 DEF GameOver

\* Taking a king finishes the game for the colour that took it; nothing else does.
LEMMA GameOverTakes ==
  ASSUME TypeOK, Ongoing, GameOver, NEW v \in DOMAIN board, NEW c \in Colors, Takes(v, c)
  PROVE  GameOver'
<1>1. DOMAIN board \subseteq PieceIds /\ winners \in Seq(Colors)
  BY DEF TypeOK, BoardOK
<1>2. state = "Running" /\ ~kingCaptured /\ Len(winners) = 0
  BY DEF Takes, Ongoing, GameOver
<1>3. \A k \in Kings : k \in DOMAIN board
  BY <1>2 DEF GameOver
<1>4. \A k \in Kings : k \in DOMAIN board' <=> k # v
  BY <1>1, <1>3, KingsRemain DEF Takes
<1>5. CASE TypeOf(v) = "King"
  <2>1. v \in Kings
    BY <1>1, <1>5, KingIds
  <2>2. kingCaptured' = TRUE /\ state' = "Finished" /\ winners' = Append(winners, c)
    BY <1>5 DEF Takes, Capture
  <2>3. Len(winners') = 1 /\ winners'[1] = c
    BY <1>1, <1>2, <2>2, AppendProperties
  <2>4. c # ColorOf(v)
    BY DEF Takes
  <2>5. \A i \in 1 .. Len(winners'), k \in Kings :
          ColorOf(k) = winners'[i] => k \in DOMAIN board'
    BY <1>4, <2>3, <2>4
  <2>6. \E k \in Kings : k \notin DOMAIN board'
    BY <1>4, <2>1
  <2> QED BY <2>2, <2>3, <2>5, <2>6 DEF GameOver
<1>6. CASE TypeOf(v) # "King"
  <2>1. v \notin Kings
    BY <1>1, <1>6, KingIds
  <2>2. kingCaptured' = FALSE /\ state' = "Running" /\ winners' = winners
    BY <1>2, <1>6 DEF Takes, Capture
  <2>3. ~(\E k \in Kings : k \notin DOMAIN board')
    BY <1>4, <2>1
  <2> QED BY <1>2, <2>2, <2>3 DEF GameOver
<1> QED BY <1>5, <1>6

\* Every step keeps the books on the end of the game, if nobody restarts it.
LEMMA GameOverStep ==
  ASSUME TypeOK, OnePiecePerSquare, Ongoing, GameOver, ~Restartable, [Next]_vars
  PROVE  GameOver'
<1>1. CASE UNCHANGED vars
  BY <1>1, GameOverKeeps DEF vars, resultVars, SameMen
<1>2. CASE Start \/ Stop
  BY <1>2, GameOverKeeps DEF Start, Stop, SameMen
<1>3. CASE Keeps
  BY <1>3, GameOverKeeps DEF Keeps, resultVars
<1>4. CASE TakesOne
  BY <1>4, GameOverTakes DEF TakesOne
<1> QED BY <1>1, <1>2, <1>3, <1>4, StepOutcome

\* A game nobody restarts is finished exactly when a king is gone: that is announced
\* once, and the winner is the colour whose kings all stand.
THEOREM GameEndsWithTheKing ==
  ASSUME ~Restartable
  PROVE  Spec => []GameOver
<1>1. Init => GameOver /\ Ongoing
  BY DEF Init, InitialBoard, GameOver, Kings, Ongoing
<1>2. TypeOK /\ OnePiecePerSquare /\ Ongoing /\ [Next]_vars => Ongoing'
  BY OngoingStep
<1>3. TypeOK /\ OnePiecePerSquare /\ Ongoing /\ GameOver /\ [Next]_vars => GameOver'
  BY GameOverStep
<1> QED BY <1>1, <1>2, <1>3, TypeCorrect, SquaresAreExclusive, PTL DEF Spec

-----------------------------------------------------------------------------
(* The life of a match *)

Men == 1 .. NumPieces
Alive(d) == {p \in Men : {p, QueenOf(p)} \cap d # {}}
\* The piece of the starting position that v is, or was promoted from.
Origin(v) == IF v > NumPieces THEN v - NumPieces ELSE v

\* A promotion is no loss.
LEMMA PromotionKeepsAlive ==
  ASSUME NEW d, d \subseteq PieceIds, NEW e, SameMen(d, e)
  PROVE  Alive(e) = Alive(d)
<1>1. NumPieces \in Nat
  BY NumPiecesNat
<1>2. ASSUME NEW p \in d, TypeOf(p) = "Pawn", e = (d \ {p}) \cup {QueenOf(p)}
      PROVE  Alive(e) = Alive(d)
  <2>1. p \in Men
    BY <1>2, PieceTyping DEF Men
  <2>2. \A q \in Men : {q, QueenOf(q)} \cap e # {} <=> {q, QueenOf(q)} \cap d # {}
    BY <1>1, <1>2, <2>1 DEF Men, QueenOf
  <2> QED BY <2>2 DEF Alive
<1> QED BY <1>2 DEF SameMen

\* Taking v takes its origin out of the match, and nobody else.
LEMMA TakingLosesOrigin ==
  ASSUME TypeOK, QueensReplacePawns, NEW v \in DOMAIN board
  PROVE  /\ Origin(v) \in Alive(DOMAIN board)
         /\ Alive(DOMAIN board \ {v}) = Alive(DOMAIN board) \ {Origin(v)}
<1>1. NumPieces \in Nat /\ v \in 1 .. 2 * NumPieces
  BY NumPiecesNat DEF TypeOK, BoardOK, PieceIds
<1>2. Origin(v) \in Men /\ v \in {Origin(v), QueenOf(Origin(v))}
  BY <1>1 DEF Origin, Men, QueenOf
<1>3. \A p \in Men : ~(p \in DOMAIN board /\ QueenOf(p) \in DOMAIN board)
  BY DEF QueensReplacePawns, Men
<1>4. \A p \in Men : v \in {p, QueenOf(p)} => p = Origin(v)
  BY <1>1 DEF Origin, Men, QueenOf
<1>5. \A p \in Men : {p, QueenOf(p)} \cap (DOMAIN board \ {v}) # {}
                       <=> {p, QueenOf(p)} \cap DOMAIN board # {} /\ p # Origin(v)
  BY <1>2, <1>3, <1>4
<1> QED BY <1>2, <1>5 DEF Alive

\* Only a king's origin is a king.
LEMMA OriginOfKing ==
  ASSUME TypeOK, QueensReplacePawns, NEW v \in DOMAIN board
  PROVE  /\ TypeOf(v) = "King" <=> Origin(v) \in Kings
         /\ TypeOf(v) = "King" => Origin(v) = v
<1>1. NumPieces \in Nat /\ v \in PieceIds
  BY NumPiecesNat DEF TypeOK, BoardOK
<1>2. CASE v > NumPieces
  <2>1. Origin(v) \in 1 .. NumPieces /\ QueenOf(Origin(v)) = v
    BY <1>1, <1>2 DEF Origin, QueenOf, PieceIds
  <2>2. TypeOf(Origin(v)) = "Pawn" /\ TypeOf(v) = "Queen"
    BY <1>2, <2>1 DEF QueensReplacePawns, TypeOf
  <2> QED BY <2>2 DEF Kings
<1>3. CASE ~(v > NumPieces)
  BY <1>1, <1>3, KingIds DEF Origin
<1> QED BY <1>2, <1>3

\* A capture of the engine is a loss of the match.
LEMMA TakesIsLoss ==
  ASSUME TypeOK, Ongoing, QueensReplacePawns, NEW v \in DOMAIN board, NEW c \in Colors,
         Takes(v, c)
  PROVE  Lifecycle!Lose(Origin(v)) /\ Origin(v) \in Men
<1>1. state = "Running" /\ v \in PieceIds /\ ColorOf(v) \in Colors
  BY PieceTyping DEF Takes, Ongoing, TypeOK, BoardOK
<1>2. Origin(v) \in Alive(DOMAIN board) /\ Alive(DOMAIN board') = Alive(DOMAIN board) \ {Origin(v)}
  BY TakingLosesOrigin, PromotionKeepsAlive DEF Takes, TypeOK, BoardOK
<1> DEFINE KingColor == [k \in Kings |-> ColorOf(k)]
<1>3. IF Origin(v) \in DOMAIN KingColor
      THEN state' = "Finished" /\ winners' = Append(winners, Lifecycle!Other(KingColor[Origin(v)]))
      ELSE UNCHANGED <<state, winners>>
  <2>1. CASE TypeOf(v) = "King"
    <3>1. Origin(v) \in Kings /\ Origin(v) = v
      BY <2>1, OriginOfKing
    <3>2. Lifecycle!Other(ColorOf(v)) = c
      BY <1>1 DEF Takes, Lifecycle!Other, Colors
    <3>3. state' = "Finished" /\ winners' = Append(winners, c)
      BY <2>1 DEF Takes, Capture
    <3> QED BY <3>1, <3>2, <3>3
  <2>2. CASE TypeOf(v) # "King"
    <3>1. Origin(v) \notin Kings
      BY <2>2, OriginOfKing
    <3>2. UNCHANGED <<state, winners>>
      BY <2>2 DEF Takes, Capture
    <3> QED BY <3>1, <3>2
  <2> QED BY <2>1, <2>2
<1> QED BY <1>1, <1>2, <1>3 DEF Lifecycle!Lose, Alive, Men

\* Every step of the engine is a step of the match, or none.
LEMMA LifecycleStep ==
  ASSUME TypeOK, OnePiecePerSquare, Ongoing, QueensReplacePawns, ~Restartable, [Next]_vars
  PROVE  [Lifecycle!Next]_<<state, Alive(DOMAIN board), winners>>
<1>1. CASE UNCHANGED vars
  BY <1>1 DEF vars, resultVars
<1>2. CASE Start
  BY <1>2 DEF Start, Lifecycle!Next, Lifecycle!Start, Alive, Men, TypeOK, GameStates
<1>3. CASE Stop
  BY <1>3 DEF Stop, Lifecycle!Next, Lifecycle!Stop, Alive, Men, TypeOK, GameStates
<1>4. CASE Keeps
  BY <1>4, PromotionKeepsAlive DEF Keeps, resultVars, TypeOK, BoardOK
<1>5. CASE TakesOne
  BY <1>5, TakesIsLoss DEF TakesOne, Lifecycle!Next, Men
<1> QED BY <1>1, <1>2, <1>3, <1>4, <1>5, StepOutcome

\* The engine implements the life of a match on every board: pieces disappear one at
\* a time while the game runs, and a king's loss ends it there with one winner announced.
THEOREM EngineIsAMatch ==
  ASSUME ~Restartable
  PROVE  Spec => LifecycleSpec
<1>1. Init => Lifecycle!Init /\ Ongoing /\ QueensReplacePawns
  <2> SUFFICES ASSUME Init PROVE Lifecycle!Init /\ Ongoing /\ QueensReplacePawns
    OBVIOUS
  <2>1. NumPieces \in Nat /\ DOMAIN board = 1 .. NumPieces
    BY NumPiecesNat DEF Init, InitialBoard
  <2>2. Lifecycle!Init
    BY <2>1 DEF Init, Lifecycle!Init
  <2>3. QueensReplacePawns
    BY <2>1 DEF QueensReplacePawns, QueenOf
  <2> QED BY <2>2, <2>3 DEF Init, Ongoing
<1>2. TypeOK /\ OnePiecePerSquare /\ Ongoing /\ QueensReplacePawns /\ [Next]_vars
        => Ongoing' /\ QueensReplacePawns'
  BY OngoingStep, QueensStep
<1>3. TypeOK /\ OnePiecePerSquare /\ Ongoing /\ QueensReplacePawns /\ [Next]_vars
        => [Lifecycle!Next]_<<state, {p \in 1 .. NumPieces : {p, QueenOf(p)} \cap DOMAIN board # {}}, winners>>
  BY LifecycleStep DEF Alive, Men
<1> QED BY <1>1, <1>2, <1>3, TypeCorrect, SquaresAreExclusive, PTL
        DEF Spec, LifecycleSpec, Lifecycle!Spec

-----------------------------------------------------------------------------
(* The score *)

\* Only the piece that is taken leaves the match.
LEMMA OnlyTakenLeaves ==
  ASSUME TypeOK, QueensReplacePawns, NEW d, d \subseteq DOMAIN board, SameMen(d, DOMAIN board')
  PROVE  {p \in DOMAIN board \ DOMAIN board' : QueenOf(p) \notin DOMAIN board'} = DOMAIN board \ d
<1>1. NumPieces \in Nat /\ DOMAIN board \subseteq 1 .. 2 * NumPieces
  BY NumPiecesNat DEF TypeOK, BoardOK, PieceIds
<1>2. \A p \in DOMAIN board : QueenOf(p) \notin DOMAIN board
  BY <1>1 DEF QueensReplacePawns, QueenOf
<1>3. CASE DOMAIN board' = d
  BY <1>2, <1>3
<1>4. ASSUME NEW w \in d, TypeOf(w) = "Pawn", DOMAIN board' = (d \ {w}) \cup {QueenOf(w)}
      PROVE  {p \in DOMAIN board \ DOMAIN board' : QueenOf(p) \notin DOMAIN board'}
               = DOMAIN board \ d
  <2>1. QueenOf(w) \notin DOMAIN board
    BY <1>2
  <2>2. \A p \in DOMAIN board : QueenOf(p) = QueenOf(w) => p = w
    BY <1>1 DEF QueenOf
  <2> QED BY <1>2, <1>4, <2>1, <2>2
<1> QED BY <1>3, <1>4 DEF SameMen

\* Every capture is credited once, to the other colour, at the value of what was taken.
THEOREM CapturesArePaid == Spec => Ledger
<1> DEFINE Paid(c) == \/ Left(c) = {} /\ score'[c] = score[c]
                      \/ \E p \in Left(c) :
                           Left(c) = {p} /\ score'[c] = score[c] + PieceValue(TypeOf(p))
<1>1. ASSUME TypeOK, OnePiecePerSquare, QueensReplacePawns, Next, NEW c \in Colors
      PROVE  Paid(c)
  <2>1. CASE Start \/ Stop \/ Keeps
    <3>1. SameMen(DOMAIN board, DOMAIN board') /\ score' = score
      BY <2>1 DEF Start, Stop, Keeps, SameMen, resultVars
    <3>2. Left(c) = {}
      BY <1>1, <3>1, OnlyTakenLeaves DEF Left
    <3> QED BY <3>1, <3>2
  <2>2. ASSUME NEW v \in DOMAIN board, NEW e \in Colors, Takes(v, e)
        PROVE  Paid(c)
    <3>1. {p \in DOMAIN board \ DOMAIN board' : QueenOf(p) \notin DOMAIN board'} = {v}
      BY <1>1, <2>2, OnlyTakenLeaves DEF Takes
    <3>2. Left(c) = IF ColorOf(v) = Opponent(c) THEN {v} ELSE {}
      BY <3>1 DEF Left
    <3>3. ColorOf(v) = Opponent(c) <=> c = e
      BY <1>1, <2>2, PieceTyping DEF Takes, TypeOK, BoardOK, Opponent, Colors
    <3>4. score' = [score EXCEPT ![e] = @ + PieceValue(TypeOf(v))] /\ score \in [Colors -> Nat]
      BY <1>1, <2>2 DEF Takes, Capture, TypeOK
    <3> QED BY <3>2, <3>3, <3>4
  <2> QED BY <1>1, <2>1, <2>2, StepOutcome DEF TakesOne
<1>2. TypeOK /\ OnePiecePerSquare /\ QueensReplacePawns /\ [Next]_vars
        => [\A c \in Colors : Paid(c)]_vars
  BY <1>1
<1>3. Init => QueensReplacePawns
  BY NumPiecesNat DEF Init, InitialBoard, QueensReplacePawns, QueenOf
<1>4. TypeOK /\ OnePiecePerSquare /\ QueensReplacePawns /\ [Next]_vars => QueensReplacePawns'
  BY QueensStep
<1> QED BY <1>2, <1>3, <1>4, TypeCorrect, SquaresAreExclusive, PTL DEF Spec, Ledger

-----------------------------------------------------------------------------
(* No piece hangs: whatever moves, rests or is in the air has its end to come *)

\* A move that is active has its arrival to come; only one not yet visited in this
\* millisecond may be due now.
MovesInTime ==
  ~kingCaptured => \A i \in 1 .. Len(pendingMoves) :
    pendingMoves[i].active =>
      pendingMoves[i].arrivalLeft >= IF phase = "moves" /\ cursor <= i THEN 0 ELSE 1

\* Nor is the end of a rest or a jump ever missed.
EntriesInTime(entries) ==
  \A i \in 1 .. Len(entries) : entries[i].left >= IF phase = "idle" THEN 1 ELSE 0
TimersInTime ==
  ~kingCaptured => /\ EntriesInTime(cooldowns)
                   /\ EntriesInTime(airborneEntries)
                   /\ EntriesInTime(shortRestEntries)

-----------------------------------------------------------------------------
(* Arrivals are never missed *)

\* A stationary piece is never sent to the square it stands on.
LEMMA ValidMoveLeaves ==
  ASSUME NEW b, NEW from, NEW to, ValidateMove(b, from, to),
         b[Occupant(b, from)].state # "Moving"
  PROVE  from # to
<1>1. Occupant(b, from) \in At(b, from)
  BY OccupantAt DEF ValidateMove, At
<1> QED BY <1>1 DEF ValidateMove, BlocksAsStationaryFriendly

\* So a move that starts has at least one millisecond to go.
LEMMA NewMoveInTime ==
  ASSUME NEW p, NEW from \in Positions, NEW to \in Positions, from # to
  PROVE  NewMove(p, from, to).arrivalLeft >= 1
<1> DEFINE d == Distance(from, to)
<1>1. /\ from[1] \in Int /\ from[2] \in Int /\ to[1] \in Int /\ to[2] \in Int
      /\ from[1] # to[1] \/ from[2] # to[2]
  BY DEF Positions
<1>2. d \in Nat \ {0}
  BY <1>1 DEF Distance, Abs
<1>3. MsPerCell \in Nat \ {0}
  BY TimingAssumption DEF TimingAssumption
<1>4. d * MsPerCell >= 1
  <2> HIDE DEF d
  <2> QED BY <1>2, <1>3
<1> QED BY <1>4 DEF NewMove

\* Once a king is taken it stays taken.
LEMMA KingStaysCaptured ==
  ASSUME TypeOK, OnePiecePerSquare, [Next]_vars, kingCaptured
  PROVE  kingCaptured'
  BY StepOutcome DEF Start, Stop, Keeps, TakesOne, Takes, vars, resultVars

\* A move that starts joins the others in time.
LEMMA AppendInTime ==
  ASSUME TypeOK, MovesInTime, kingCaptured' = kingCaptured, UNCHANGED <<phase, cursor>>,
         phase # "moves", NEW pm \in Move, pm.arrivalLeft >= 1,
         pendingMoves' = Append(pendingMoves, pm)
  PROVE  MovesInTime'
<1>1. pendingMoves \in Seq(Move) /\ Len(pendingMoves) \in Nat
  BY LenProperties DEF TypeOK
<1>2. Len(pendingMoves') = Len(pendingMoves) + 1
  BY <1>1, AppendProperties
<1>3. \A i \in 1 .. Len(pendingMoves') :
        pendingMoves'[i] = IF i \in 1 .. Len(pendingMoves) THEN pendingMoves[i] ELSE pm
  BY <1>1, <1>2, AppendProperties
<1> QED BY <1>1, <1>2, <1>3 DEF MovesInTime

\* The visited move is done with, or has its arrival to come; the loop goes on.
LEMMA VisitInTime ==
  ASSUME TypeOK, MovesInTime, Visiting, NextMove, kingCaptured' = kingCaptured,
         NEW pm \in Move, pm.active => pm.arrivalLeft >= 1,
         pendingMoves' = Update(pm)
  PROVE  MovesInTime'
<1>1. Len(pendingMoves) \in Nat /\ cursor \in 1 .. Len(pendingMoves) /\ cursor \in Nat
  BY LenProperties DEF TypeOK, Visiting
<1>2. /\ Len(pendingMoves') = Len(pendingMoves)
      /\ \A i \in 1 .. Len(pendingMoves) :
           pendingMoves'[i] = IF i = cursor THEN pm ELSE pendingMoves[i]
  BY UpdateOK
<1>3. phase = "moves" /\ phase' = "moves" /\ cursor' = cursor + 1
  BY DEF Visiting, NextMove
<1> QED BY <1>1, <1>2, <1>3 DEF MovesInTime

\* A visited move that does not end is not due.
LEMMA CurrentInTime ==
  ASSUME TypeOK, MovesInTime, ~kingCaptured, VisitingPiece, ~Lands
  PROVE  /\ ~Steps => Current.arrivalLeft >= 1
         /\ Enters /\ ~MoveEnds => Current.arrivalLeft >= 1
<1>1. cursor \in 1 .. Len(pendingMoves) /\ cursor \in Nat /\ Current.active /\ phase = "moves"
  BY DEF VisitingPiece, Visiting, TypeOK
<1>2. Current.arrivalLeft \in Int
  BY CurrentOK DEF VisitingPiece, Move
<1>3. Current.arrivalLeft >= 0
  BY <1>1 DEF MovesInTime, Current
<1> QED BY <1>2, <1>3 DEF Lands, Steps, MoveEnds

\* Ending a rest starts a move in time, or none.
LEMMA EndRestInTime ==
  ASSUME TypeOK, OnePiecePerSquare, MovesInTime, UNCHANGED <<kingCaptured, phase, cursor>>,
         phase = "timers", NEW p \in PieceIds, NEW resting, EndRest(p, resting)
  PROVE  MovesInTime'
<1>1. CASE pendingMoves' = pendingMoves
  BY <1>1 DEF MovesInTime
<1>2. CASE pendingMoves' # pendingMoves
  <2> DEFINE idle == SetState(board, p, "Idle")
             from == board[p].pos
  <2>1. /\ p \in DOMAIN board /\ p \in DOMAIN premoves
        /\ ValidateMove(idle, from, premoves[p])
        /\ pendingMoves' = Append(pendingMoves, NewMove(p, from, premoves[p]))
    BY <1>2 DEF EndRest
  <2>2. from \in Positions /\ premoves[p] \in Positions
    BY <2>1 DEF TypeOK, BoardOK
  <2>3. from # premoves[p]
    <3>1. Occupied(idle, from)
      BY <2>1 DEF ValidateMove
    <3>2. BoardOK(idle) /\ DOMAIN idle = DOMAIN board /\ Distinct(idle)
      BY SetStateOK, SetStateDistinct DEF TypeOK, PieceStates, OnePiecePerSquare, Distinct
    <3>3. idle[p] = [pos |-> from, state |-> "Idle"]
      BY <2>1 DEF TypeOK, BoardOK, SetState
    <3>4. Occupant(idle, from) = p
      <4> HIDE DEF idle
      <4> QED BY <2>1, <3>1, <3>2, <3>3, OccupantAt DEF Distinct
    <3> HIDE DEF idle
    <3> QED BY <2>1, <3>3, <3>4, ValidMoveLeaves
  <2>4. NewMove(p, from, premoves[p]) \in Move
        /\ NewMove(p, from, premoves[p]).arrivalLeft >= 1
    BY <2>2, <2>3, NewMoveOK, NewMoveInTime
  <2> QED BY <2>1, <2>4, AppendInTime
<1> QED BY <1>1, <1>2

\* Every visit leaves the visited move ended or in time.
LEMMA ResolveMoveInTime ==
  ASSUME TypeOK, OnePiecePerSquare, MovesInTime, ~kingCaptured, ~kingCaptured', ResolveMove
  PROVE  MovesInTime'
<1>0. kingCaptured' = kingCaptured
  BY StepOutcome DEF Next, AdvanceTime, Start, Stop, Keeps, TakesOne, Takes, TypeOK, resultVars
<1>1. CASE SkipMove
  <2>1. Visiting /\ NextMove /\ pendingMoves' = pendingMoves
    BY <1>1 DEF SkipMove, arbiterVars
  <2>2. Current \in Move /\ pendingMoves' = Update(Current)
    BY <2>1, CurrentOK DEF Update, Current, Visiting, TypeOK
  <2>3. Current.active => Current.arrivalLeft >= 1
    BY <1>1, CurrentInTime DEF SkipMove
  <2> QED BY <1>0, <2>1, <2>2, <2>3, VisitInTime
<1>2. CASE DropOrphanMove \/ Blocked \/ CounterKill \/ Arrive
  <2>1. Visiting /\ (CounterKill => NextMove)
    BY <1>2 DEF DropOrphanMove, Blocked, CounterKill, Arrive, Enters, VisitingPiece
  <2>2. Current.currentPos \in Positions /\ (VisitingPiece => Target \in Positions)
    BY <2>1, CurrentOK, MoverOK
  <2>3. \E c \in Positions : pendingMoves' = Update(EndedOn(c))
    BY <1>2, <2>2 DEF DropOrphanMove, Blocked, CounterKill, Arrive, Enters
  <2>4. NextMove
    BY <1>2, <2>1 DEF DropOrphanMove, Blocked, Arrive
  <2>5. \A c \in Positions : EndedOn(c) \in Move /\ ~EndedOn(c).active
    BY <2>1, CurrentOK
  <2> QED BY <1>0, <2>1, <2>3, <2>4, <2>5, VisitInTime
<1>3. CASE CaptureTarget
  <2>1. VisitingPiece /\ Visiting /\ pendingMoves' = AfterCapture /\ NextMove
    BY <1>3 DEF CaptureTarget, VisitingPiece
  <2>2. /\ cursor \in 1 .. Len(pendingMoves) /\ cursor \in Nat /\ phase = "moves"
        /\ phase' = "moves" /\ cursor' = cursor + 1 /\ Len(pendingMoves) \in Nat
    BY <2>1, LenProperties DEF Visiting, NextMove, TypeOK
  <2>3. Len(pendingMoves') = Len(pendingMoves)
    BY <2>1, AfterCaptureOK
  <2>4. ~EndedOn(Target).active
    BY <2>1, CurrentOK, MoverOK
  <2>5. ASSUME NEW i \in 1 .. Len(pendingMoves), pendingMoves'[i].active
        PROVE  i # cursor /\ pendingMoves'[i] = pendingMoves[i]
    <3>1. pendingMoves[i] \in Move
      BY ElementOfSeq DEF TypeOK
    <3>2. pendingMoves'[i] = IF i = cursor THEN EndedOn(Target)
                             ELSE IF Steps /\ FirstMoveOn(i, Target)
                             THEN [pendingMoves[i] EXCEPT !.active = FALSE]
                             ELSE pendingMoves[i]
      BY <2>1 DEF AfterCapture
    <3>3. ~[pendingMoves[i] EXCEPT !.active = FALSE].active
      BY <3>1 DEF Move
    <3> QED BY <2>4, <2>5, <3>2, <3>3
  <2> QED BY <2>2, <2>3, <2>5 DEF MovesInTime
<1>4. CASE Advance
  <2> DEFINE pm == [Current EXCEPT !.currentPos = Target, !.stepLeft = @ + MsPerCell]
  <2>1. Enters /\ ~MoveEnds /\ VisitingPiece /\ Visiting /\ NextMove /\ pendingMoves' = Update(pm)
    BY <1>4 DEF Advance, Enters, VisitingPiece
  <2>2. pm \in Move /\ pm.arrivalLeft = Current.arrivalLeft
    BY <2>1, AdvancedOK, CurrentOK DEF Move
  <2>3. pm.arrivalLeft >= 1
    BY <2>1, <2>2, CurrentInTime DEF MoveEnds
  <2> HIDE DEF pm
  <2> QED BY <1>0, <2>1, <2>2, <2>3, VisitInTime
<1>5. CASE EndMoves
  <2>1. cursor \in Nat /\ Len(pendingMoves) \in Nat
    BY LenProperties DEF TypeOK
  <2> QED BY <1>5, <2>1 DEF EndMoves, MovesInTime, arbiterVars
<1> QED BY <1>1, <1>2, <1>3, <1>4, <1>5 DEF ResolveMove

\* No step lets the arrival of an active move pass.
LEMMA MovesInTimeStep ==
  ASSUME TypeOK, OnePiecePerSquare, MovesInTime, [Next]_vars
  PROVE  MovesInTime'
<1>0. CASE kingCaptured'
  BY <1>0 DEF MovesInTime
<1> SUFFICES ASSUME ~kingCaptured' PROVE MovesInTime'
  BY <1>0
<1>1. ~kingCaptured
  BY KingStaysCaptured
<1>2. CASE UNCHANGED <<pendingMoves, kingCaptured, phase, cursor>>
  BY <1>2 DEF MovesInTime
<1>3. ASSUME NEW from \in Cells, NEW to \in Cells, RequestMove(from, to)
      PROVE  MovesInTime'
  <2> DEFINE pm == NewMove(Occupant(board, from), from, to)
  <2>1. /\ ValidateMove(board, from, to) /\ board[Occupant(board, from)].state # "Moving"
        /\ Occupant(board, from) \in PieceIds
        /\ pendingMoves' = Append(pendingMoves, pm)
        /\ UNCHANGED <<kingCaptured, phase, cursor>> /\ phase # "moves"
    BY <1>3, OccupantAt DEF RequestMove, resultVars, TypeOK, BoardOK
  <2>2. pm \in Move /\ pm.arrivalLeft >= 1
    BY <2>1, ValidMoveLeaves, CellsArePositions, NewMoveOK, NewMoveInTime
  <2> HIDE DEF pm
  <2> QED BY <2>1, <2>2, AppendInTime
<1>4. CASE Tick
  <2>1. /\ Len(pendingMoves) \in Nat /\ \A i \in 1 .. Len(pendingMoves) : pendingMoves[i] \in Move
    BY LenProperties, ElementOfSeq DEF TypeOK
  <2>2. phase = "idle" /\ Len(pendingMoves') = Len(pendingMoves)
    BY <1>4, <2>1 DEF Tick
  <2>3. ASSUME NEW i \in 1 .. Len(pendingMoves), pendingMoves'[i].active
        PROVE  pendingMoves'[i].arrivalLeft >= 0
    <3>1. pendingMoves'[i] = ElapseMove(pendingMoves[i]) /\ pendingMoves[i] \in Move
      BY <1>4, <2>1 DEF Tick
    <3>2. pendingMoves[i].active
      BY <2>3, <3>1, ElapseMoveOK
    <3>3. pendingMoves[i].arrivalLeft >= 1 /\ pendingMoves[i].arrivalLeft \in Int
      BY <1>1, <2>2, <3>1, <3>2 DEF MovesInTime, Move
    <3>4. pendingMoves'[i].arrivalLeft = Elapse(pendingMoves[i].arrivalLeft)
      BY <3>1, ElapseMoveOK
    <3>5. Elapse(pendingMoves[i].arrivalLeft) = pendingMoves[i].arrivalLeft - 1
      BY <3>3, ElapseOK
    <3> QED BY <3>3, <3>4, <3>5
  <2>4. phase' = "moves" /\ cursor' = 1
    BY <1>4 DEF Tick
  <2> QED BY <2>2, <2>3, <2>4 DEF MovesInTime
<1>5. CASE ResolveMove
  BY <1>1, <1>5, ResolveMoveInTime
<1>6. CASE EraseMove
  <2>1. PICK i \in 1 .. Len(pendingMoves) : pendingMoves' = Without(pendingMoves, i)
    BY <1>6 DEF EraseMove
  <2>2. \A k \in 1 .. Len(pendingMoves') :
          \E j \in 1 .. Len(pendingMoves) : pendingMoves'[k] = pendingMoves[j]
    <3>1. pendingMoves \in Seq(Move)
      BY DEF TypeOK
    <3>2. \A k \in 1 .. Len(Without(pendingMoves, i)) :
            \E j \in 1 .. Len(pendingMoves) :
              j # i /\ Without(pendingMoves, i)[k] = pendingMoves[j]
      BY <3>1, WithoutKeeps
    <3> QED BY <2>1, <3>2
  <2>3. phase = "timers" /\ UNCHANGED <<phase, kingCaptured>>
    BY <1>6 DEF EraseMove, resultVars
  <2> QED BY <1>1, <2>2, <2>3 DEF MovesInTime
<1>7. CASE ExpireCooldown
  <2>1. PICK i \in 1 .. Len(cooldowns) : EndRest(cooldowns[i].pieceId, "Cooldown")
    BY <1>7 DEF ExpireCooldown
  <2>2. cooldowns[i].pieceId \in PieceIds
    BY WithoutEntry DEF TypeOK
  <2> QED BY <1>7, <2>1, <2>2, EndRestInTime DEF ExpireCooldown, resultVars
<1>8. CASE ExpireShortRest
  <2>1. PICK i \in 1 .. Len(shortRestEntries) : EndRest(shortRestEntries[i].pieceId, "ShortRest")
    BY <1>8 DEF ExpireShortRest
  <2>2. shortRestEntries[i].pieceId \in PieceIds
    BY WithoutEntry DEF TypeOK
  <2> QED BY <1>8, <2>1, <2>2, EndRestInTime DEF ExpireShortRest, resultVars
<1>9. CASE EndTick
  BY <1>9 DEF EndTick, MovesInTime, arbiterVars, resultVars
<1>10. CASE \/ \E from \in Cells, to \in PremoveTargets : QueuePremove(from, to)
            \/ \E cell \in Cells : TryJump(cell)
  BY <1>2, <1>10 DEF QueuePremove, TryJump, resultVars
<1>11. CASE Start \/ Stop \/ LandJump
  BY <1>2, <1>11 DEF Start, Stop, LandJump, arbiterVars, resultVars
<1>12. CASE WaitNoOp \/ UNCHANGED vars
  BY <1>2, <1>12 DEF WaitNoOp, vars, arbiterVars, resultVars
<1> QED BY <1>3, <1>4, <1>5, <1>6, <1>7, <1>8, <1>9, <1>10, <1>11, <1>12
        DEF Next, Requests, AdvanceTime, ResolveTimers

-----------------------------------------------------------------------------
(* Moving pieces are carried *)

CarriedAt(moves, c) == \E i \in 1 .. Len(moves) : moves[i].active /\ moves[i].currentPos = c
AllCarried(b, moves) ==
  \A p \in DOMAIN b : b[p].state = "Moving" => CarriedAt(moves, b[p].pos)
MovingCarried == ~kingCaptured => AllCarried(board, pendingMoves)

\* A piece that is not set Moving needs no move; the others keep theirs.
LEMMA SetStateCarried ==
  ASSUME NEW b, BoardOK(b), NEW p, NEW s, NEW moves, AllCarried(b, moves),
         s = "Moving" /\ p \in DOMAIN b => CarriedAt(moves, b[p].pos)
  PROVE  AllCarried(SetState(b, p, s), moves)
<1>1. DOMAIN SetState(b, p, s) = DOMAIN b
  BY DEF SetState, BoardOK
<1>2. \A q \in DOMAIN b : /\ SetState(b, p, s)[q].pos = b[q].pos
                          /\ SetState(b, p, s)[q].state = IF q = p THEN s ELSE b[q].state
  BY DEF SetState, BoardOK
<1> QED BY <1>1, <1>2 DEF AllCarried

\* Whoever is left after an arrival in Moving was there before and is not the arriver.
LEMMA ArriveOnMoving ==
  ASSUME NEW b, BoardOK(b), NEW p \in DOMAIN b, ArriveOn(b, p), NEW q \in DOMAIN board',
         board'[q].state = "Moving"
  PROVE  q \in DOMAIN b /\ q # p /\ board'[q] = b[q]
<1>1. CASE board' = SetState(b, p, "Cooldown")
  BY <1>1 DEF SetState, BoardOK
<1>2. CASE board' = PromotePawn(b, p)
  BY <1>2 DEF PromotePawn, BoardOK
<1> QED BY <1>1, <1>2 DEF ArriveOn

\* Appending a move takes nobody's move away and gives its own square one.
LEMMA AppendCarried ==
  ASSUME NEW s \in Seq(Move), NEW pm \in Move, pm.active
  PROVE  /\ \A c : CarriedAt(s, c) => CarriedAt(Append(s, pm), c)
         /\ CarriedAt(Append(s, pm), pm.currentPos)
<1>1. Len(s) \in Nat
  BY LenProperties
<1>2. /\ Len(Append(s, pm)) = Len(s) + 1
      /\ \A i \in 1 .. Len(s) : Append(s, pm)[i] = s[i]
      /\ Append(s, pm)[Len(s) + 1] = pm
  BY AppendProperties
<1>3. \A c : CarriedAt(s, c) => CarriedAt(Append(s, pm), c)
  BY <1>1, <1>2 DEF CarriedAt
<1>4. CarriedAt(Append(s, pm), pm.currentPos)
  BY <1>1, <1>2 DEF CarriedAt
<1> QED BY <1>3, <1>4

\* The visited move is the only one a visit without a capture changes.
LEMMA UpdateCarried ==
  ASSUME TypeOK, Visiting, NEW pm \in Move
  PROVE  /\ \A c : c # Current.currentPos /\ CarriedAt(pendingMoves, c) => CarriedAt(Update(pm), c)
         /\ pm.active => CarriedAt(Update(pm), pm.currentPos)
<1>1. cursor \in 1 .. Len(pendingMoves)
  BY DEF Visiting
<1>2. /\ Len(Update(pm)) = Len(pendingMoves)
      /\ \A j \in 1 .. Len(pendingMoves) :
           Update(pm)[j] = IF j = cursor THEN pm ELSE pendingMoves[j]
  BY UpdateOK
<1>3. ASSUME NEW c, c # Current.currentPos, CarriedAt(pendingMoves, c)
      PROVE  CarriedAt(Update(pm), c)
  <2>1. PICK i \in 1 .. Len(pendingMoves) :
          pendingMoves[i].active /\ pendingMoves[i].currentPos = c
    BY <1>3 DEF CarriedAt
  <2>2. i # cursor
    BY <1>3, <2>1 DEF Current
  <2> QED BY <1>2, <2>1, <2>2 DEF CarriedAt
<1>4. pm.active => CarriedAt(Update(pm), pm.currentPos)
  BY <1>1, <1>2 DEF CarriedAt
<1> QED BY <1>3, <1>4

\* Nobody else stands where the mover does.
LEMMA OthersElsewhere ==
  ASSUME TypeOK, OnePiecePerSquare, VisitingPiece, NEW q \in DOMAIN board, q # Mover
  PROVE  board[q].pos # Current.currentPos
  BY MoverOK DEF OnePiecePerSquare

\* A visit ends or advances the move of the mover and of nobody else.
LEMMA ResolveMoveCarried ==
  ASSUME TypeOK, OnePiecePerSquare, MovingCarried, ~kingCaptured, ~kingCaptured', ResolveMove
  PROVE  AllCarried(board', pendingMoves')
<1>0. AllCarried(board, pendingMoves)
  BY DEF MovingCarried
<1>1. CASE SkipMove \/ EndMoves
  BY <1>0, <1>1 DEF SkipMove, EndMoves, arbiterVars
<1>2. CASE DropOrphanMove
  <2>1. Visiting /\ board' = board /\ ~Occupied(board, Current.currentPos)
        /\ pendingMoves' = Update(EndedOn(Current.currentPos))
    BY <1>2 DEF DropOrphanMove
  <2>2. EndedOn(Current.currentPos) \in Move
    BY <2>1, CurrentOK
  <2>3. \A q \in DOMAIN board : board[q].pos # Current.currentPos
    BY <2>1 DEF Occupied, At
  <2> QED BY <1>0, <2>1, <2>2, <2>3, UpdateCarried DEF AllCarried
<1>3. ASSUME VisitingPiece, NEW c \in Positions, pendingMoves' = Update(EndedOn(c)),
             \A q \in DOMAIN board' : board'[q].state = "Moving" =>
               q \in DOMAIN board /\ q # Mover /\ board'[q] = board[q]
      PROVE  AllCarried(board', pendingMoves')
  <2>1. Visiting /\ EndedOn(c) \in Move
    BY <1>3, CurrentOK DEF VisitingPiece
  <2> QED BY <1>0, <1>3, <2>1, OthersElsewhere, UpdateCarried DEF AllCarried
<1>4. CASE Blocked
  <2>1. VisitingPiece /\ board' = SetState(board, Mover, "Idle")
        /\ pendingMoves' = Update(EndedOn(Current.currentPos))
    BY <1>4 DEF Blocked
  <2>2. \A q \in DOMAIN board' : board'[q].state = "Moving" =>
          q \in DOMAIN board /\ q # Mover /\ board'[q] = board[q]
    BY <2>1 DEF SetState, TypeOK, BoardOK
  <2>3. Current.currentPos \in Positions
    BY <2>1, CurrentOK DEF VisitingPiece
  <2> QED BY <1>3, <2>1, <2>2, <2>3
<1>5. CASE CounterKill
  <2> DEFINE r == RemovePiece(board, Current.currentPos)
  <2>1. VisitingPiece /\ board' = SetState(r, TargetPiece, "ShortRest")
        /\ pendingMoves' = Update(EndedOn(Current.currentPos))
    BY <1>5 DEF CounterKill
  <2>2. \A q \in DOMAIN r : q \in DOMAIN board /\ q # Mover /\ r[q] = board[q]
    BY <2>1, MoverOK DEF RemovePiece, At
  <2>3. BoardOK(r)
    BY RemovePieceOK DEF TypeOK
  <2>4. \A q \in DOMAIN board' : board'[q].state = "Moving" => q \in DOMAIN r /\ board'[q] = r[q]
    <3> HIDE DEF r
    <3> QED BY <2>1, <2>3 DEF SetState, BoardOK
  <2>5. Current.currentPos \in Positions
    BY <2>1, CurrentOK DEF VisitingPiece
  <2> HIDE DEF r
  <2> QED BY <1>3, <2>1, <2>2, <2>4, <2>5
<1>6. CASE Arrive
  <2> DEFINE b == MovePiece(board, Current.currentPos, Target)
  <2>1. VisitingPiece /\ ~Occupied(board, Target) /\ ArriveOn(b, Mover)
        /\ pendingMoves' = Update(EndedOn(Target))
    BY <1>6 DEF Arrive, Enters
  <2>2. BoardOK(b) /\ DOMAIN b = DOMAIN board /\ Mover \in DOMAIN b /\ Target \in Positions
    BY <2>1, MoverOK, MovePieceOK DEF TypeOK
  <2>3. \A q \in DOMAIN board : q # Mover => b[q] = board[q]
    BY <2>1, OthersElsewhere DEF MovePiece
  <2>4. \A q \in DOMAIN board' : board'[q].state = "Moving" =>
          q \in DOMAIN b /\ q # Mover /\ board'[q] = b[q]
    <3> HIDE DEF b
    <3> QED BY <2>1, <2>2, ArriveOnMoving
  <2> HIDE DEF b
  <2> QED BY <1>3, <2>1, <2>2, <2>3, <2>4
<1>7. CASE Advance
  <2> DEFINE pm == [Current EXCEPT !.currentPos = Target, !.stepLeft = @ + MsPerCell]
             b == MovePiece(board, Current.currentPos, Target)
  <2>1. VisitingPiece /\ Visiting /\ ~Occupied(board, Target) /\ board' = b
        /\ pendingMoves' = Update(pm)
    BY <1>7 DEF Advance, Enters, VisitingPiece
  <2>2. pm \in Move /\ pm.active /\ pm.currentPos = Target
    BY <2>1, AdvancedOK, CurrentOK DEF VisitingPiece, Move
  <2>3. DOMAIN b = DOMAIN board /\ b[Mover].pos = Target
    BY <2>1, MoverOK DEF MovePiece, TypeOK, BoardOK
  <2>4. \A q \in DOMAIN board : q # Mover => b[q] = board[q]
    BY <2>1, OthersElsewhere DEF MovePiece
  <2>5. CarriedAt(pendingMoves', Target)
    <3> HIDE DEF pm
    <3> QED BY <2>1, <2>2, UpdateCarried
  <2>6. \A q \in DOMAIN board : q # Mover /\ board[q].state = "Moving"
          => CarriedAt(pendingMoves', board[q].pos)
    <3> HIDE DEF pm
    <3> QED BY <1>0, <2>1, <2>2, OthersElsewhere, UpdateCarried DEF AllCarried
  <2> HIDE DEF b
  <2> QED BY <2>1, <2>3, <2>4, <2>5, <2>6 DEF AllCarried
<1>8. CASE CaptureTarget
  <2> DEFINE r == RemovePiece(board, Target)
             b == MovePiece(r, Current.currentPos, Target)
  <2>1. /\ VisitingPiece /\ Visiting /\ TargetIsEnemy /\ Occupied(board, Target)
        /\ pendingMoves' = AfterCapture /\ ArriveOn(b, Mover)
    BY <1>8 DEF CaptureTarget, TargetIsEnemy, VisitingPiece
  <2>2. DOMAIN r = DOMAIN board \ At(board, Target) /\ BoardOK(r)
        /\ \A q \in DOMAIN r : r[q] = board[q] /\ board[q].pos # Target
    BY RemovePieceOK DEF RemovePiece, TypeOK, At
  <2>3. DOMAIN b = DOMAIN r /\ BoardOK(b) /\ Mover \in DOMAIN b
    <3>1. DOMAIN b = DOMAIN r /\ BoardOK(b)
      <4> HIDE DEF r
      <4> QED BY <2>1, <2>2, MoverOK, MovePieceOK
    <3> QED BY <2>1, <2>2, <3>1, MoverOK, MoverNotOnTarget DEF At
  <2>4. \A q \in DOMAIN b : q # Mover => b[q] = board[q] /\ board[q].pos # Target
    <3> HIDE DEF r
    <3> QED BY <2>1, <2>2, <2>3, OthersElsewhere DEF MovePiece
  <2>5. \A q \in DOMAIN board' : board'[q].state = "Moving" =>
          q \in DOMAIN b /\ q # Mover /\ board'[q] = b[q]
    <3> HIDE DEF b
    <3> QED BY <2>1, <2>3, ArriveOnMoving
  <2>6. ASSUME NEW c, c # Current.currentPos, c # Target, CarriedAt(pendingMoves, c)
        PROVE  CarriedAt(pendingMoves', c)
    <3>1. PICK i \in 1 .. Len(pendingMoves) :
            pendingMoves[i].active /\ pendingMoves[i].currentPos = c
      BY <2>6 DEF CarriedAt
    <3>2. i # cursor
      BY <2>6, <3>1 DEF Current
    <3>3. ~FirstMoveOn(i, Target)
      BY <2>6, <3>1 DEF FirstMoveOn, MovesOn
    <3>4. pendingMoves'[i] = pendingMoves[i] /\ Len(pendingMoves') = Len(pendingMoves)
      BY <2>1, <3>2, <3>3, AfterCaptureOK DEF AfterCapture
    <3> QED BY <3>1, <3>4 DEF CarriedAt
  <2>7. \A q \in DOMAIN b : q # Mover => q \in DOMAIN board /\ board[q].pos # Current.currentPos
    BY <2>1, <2>2, <2>3, OthersElsewhere
  <2> HIDE DEF b
  <2> QED BY <1>0, <2>4, <2>5, <2>6, <2>7 DEF AllCarried
<1> QED BY <1>1, <1>2, <1>4, <1>5, <1>6, <1>7, <1>8 DEF ResolveMove

\* Ending a rest sets a piece moving only together with its move.
LEMMA EndRestCarried ==
  ASSUME TypeOK, AllCarried(board, pendingMoves), NEW p \in PieceIds, NEW resting,
         EndRest(p, resting)
  PROVE  AllCarried(board', pendingMoves')
<1> DEFINE idle == SetState(board, p, "Idle")
           from == board[p].pos
           pm == NewMove(p, from, premoves[p])
<1>1. BoardOK(idle) /\ DOMAIN idle = DOMAIN board /\ AllCarried(idle, pendingMoves)
  BY SetStateOK, SetStateCarried DEF TypeOK, PieceStates
<1>2. \/ board' = board /\ pendingMoves' = pendingMoves
      \/ board' = idle /\ pendingMoves' = pendingMoves
      \/ /\ p \in DOMAIN board /\ p \in DOMAIN premoves
         /\ board' = SetState(idle, p, "Moving")
         /\ pendingMoves' = Append(pendingMoves, pm)
  BY DEF EndRest
<1>3. CASE /\ p \in DOMAIN board /\ p \in DOMAIN premoves
           /\ board' = SetState(idle, p, "Moving")
           /\ pendingMoves' = Append(pendingMoves, pm)
  <2>1. from \in Positions /\ premoves[p] \in Positions
    BY <1>3 DEF TypeOK, BoardOK
  <2>2. pm \in Move /\ pm.active /\ pm.currentPos = from
    BY <2>1, NewMoveOK
  <2>3. pendingMoves \in Seq(Move)
    BY DEF TypeOK
  <2>4. CarriedAt(pendingMoves', from) /\ \A c : CarriedAt(pendingMoves, c) => CarriedAt(pendingMoves', c)
    <3> HIDE DEF pm
    <3> QED BY <1>3, <2>2, <2>3, AppendCarried
  <2>5. AllCarried(idle, pendingMoves')
    <3> HIDE DEF idle
    <3> QED BY <1>1, <2>4 DEF AllCarried
  <2>6. idle[p].pos = from
    BY <1>3 DEF SetState, TypeOK, BoardOK
  <2> HIDE DEF idle, pm
  <2> QED BY <1>1, <1>3, <2>4, <2>5, <2>6, SetStateCarried
<1> HIDE DEF idle, pm
<1> QED BY <1>1, <1>2, <1>3

\* No step leaves a Moving piece without a move.
LEMMA MovingCarriedStep ==
  ASSUME TypeOK, OnePiecePerSquare, MovingCarried, [Next]_vars
  PROVE  MovingCarried'
<1> SUFFICES ASSUME ~kingCaptured' PROVE AllCarried(board', pendingMoves')
  BY DEF MovingCarried
<1>1. ~kingCaptured /\ AllCarried(board, pendingMoves) /\ BoardOK(board)
      /\ pendingMoves \in Seq(Move)
  BY KingStaysCaptured DEF MovingCarried, TypeOK
<1>2. CASE UNCHANGED <<board, pendingMoves>>
  BY <1>1, <1>2
<1>3. ASSUME NEW p, NEW s, s # "Moving", board' = SetState(board, p, s), pendingMoves' = pendingMoves
      PROVE  AllCarried(board', pendingMoves')
  BY <1>1, <1>3, SetStateCarried
<1>4. ASSUME NEW from \in Cells, NEW to \in Cells, RequestMove(from, to)
      PROVE  AllCarried(board', pendingMoves')
  <2> DEFINE p == Occupant(board, from)
             pm == NewMove(p, from, to)
  <2>1. /\ p \in DOMAIN board /\ p \in PieceIds /\ board[p].pos = from
        /\ pendingMoves' = Append(pendingMoves, pm) /\ board' = SetState(board, p, "Moving")
    BY <1>1, <1>4, OccupantAt DEF RequestMove, BoardOK
  <2>2. pm \in Move /\ pm.active /\ pm.currentPos = from
    BY <2>1, CellsArePositions, NewMoveOK
  <2>3. CarriedAt(pendingMoves', from) /\ \A c : CarriedAt(pendingMoves, c) => CarriedAt(pendingMoves', c)
    <3> HIDE DEF pm
    <3> QED BY <1>1, <2>1, <2>2, AppendCarried
  <2>4. AllCarried(board, pendingMoves')
    BY <1>1, <2>3 DEF AllCarried
  <2> HIDE DEF p
  <2> QED BY <1>1, <2>1, <2>3, <2>4, SetStateCarried
<1>5. CASE Tick
  <2>1. /\ Len(pendingMoves) \in Nat /\ \A i \in 1 .. Len(pendingMoves) : pendingMoves[i] \in Move
    BY <1>1, LenProperties, ElementOfSeq
  <2>2. board' = board /\ Len(pendingMoves') = Len(pendingMoves)
        /\ \A i \in 1 .. Len(pendingMoves) : pendingMoves'[i] = ElapseMove(pendingMoves[i])
    BY <1>5, <2>1 DEF Tick
  <2>3. \A i \in 1 .. Len(pendingMoves) :
          /\ pendingMoves'[i].active = pendingMoves[i].active
          /\ pendingMoves'[i].currentPos = pendingMoves[i].currentPos
    BY <2>1, <2>2, ElapseMoveOK
  <2> QED BY <1>1, <2>2, <2>3 DEF AllCarried, CarriedAt
<1>6. CASE ResolveMove
  BY <1>1, <1>6, ResolveMoveCarried
<1>7. CASE EraseMove
  <2>1. PICK i \in 1 .. Len(pendingMoves) :
          ~pendingMoves[i].active /\ pendingMoves' = Without(pendingMoves, i)
    BY <1>7 DEF EraseMove
  <2>2. \A j \in 1 .. Len(pendingMoves) : j # i =>
          \E k \in 1 .. Len(Without(pendingMoves, i)) : Without(pendingMoves, i)[k] = pendingMoves[j]
    BY <1>1, WithoutKeeps
  <2>3. \A c : CarriedAt(pendingMoves, c) => CarriedAt(pendingMoves', c)
    BY <2>1, <2>2 DEF CarriedAt
  <2> QED BY <1>1, <1>7, <2>3 DEF AllCarried, EraseMove
<1>8. CASE ExpireCooldown
  <2>1. PICK i \in 1 .. Len(cooldowns) : EndRest(cooldowns[i].pieceId, "Cooldown")
    BY <1>8 DEF ExpireCooldown
  <2>2. cooldowns[i].pieceId \in PieceIds
    BY WithoutEntry DEF TypeOK
  <2> QED BY <1>1, <2>1, <2>2, EndRestCarried
<1>9. CASE ExpireShortRest
  <2>1. PICK i \in 1 .. Len(shortRestEntries) : EndRest(shortRestEntries[i].pieceId, "ShortRest")
    BY <1>9 DEF ExpireShortRest
  <2>2. shortRestEntries[i].pieceId \in PieceIds
    BY WithoutEntry DEF TypeOK
  <2> QED BY <1>1, <2>1, <2>2, EndRestCarried
<1>10. CASE LandJump \/ \E cell \in Cells : TryJump(cell)
  BY <1>2, <1>3, <1>10 DEF LandJump, TryJump
<1>11. CASE Start \/ Stop \/ EndTick
            \/ \E from \in Cells, to \in PremoveTargets : QueuePremove(from, to)
  BY <1>2, <1>11 DEF Start, Stop, EndTick, QueuePremove, arbiterVars
<1>12. CASE WaitNoOp \/ UNCHANGED vars
  BY <1>2, <1>12 DEF WaitNoOp, vars, arbiterVars
<1> QED BY <1>4, <1>5, <1>6, <1>7, <1>8, <1>9, <1>10, <1>11, <1>12
        DEF Next, Requests, AdvanceTime, ResolveTimers

\* No piece hangs in Moving: as long as both kings stand, an active move on its square
\* carries it and has its arrival to come, knights and orphan moves notwithstanding.
THEOREM MovingPiecesAreCarried == Spec => []MovingHasPending
<1>1. Init => MovesInTime /\ MovingCarried
  <2> SUFFICES ASSUME Init PROVE MovesInTime /\ MovingCarried
    OBVIOUS
  <2>1. pendingMoves = <<>> /\ \A p \in DOMAIN board : board[p].state # "Moving"
    BY DEF Init, InitialBoard
  <2> QED BY <2>1 DEF MovesInTime, MovingCarried, AllCarried
<1>2. TypeOK /\ OnePiecePerSquare /\ MovesInTime /\ MovingCarried /\ [Next]_vars
        => MovesInTime' /\ MovingCarried'
  BY MovesInTimeStep, MovingCarriedStep
<1>3. TypeOK /\ MovesInTime /\ MovingCarried => MovingHasPending
  <2> SUFFICES ASSUME TypeOK, MovesInTime, AllCarried(board, pendingMoves), ~kingCaptured,
                      NEW p \in DOMAIN board, board[p].state = "Moving"
               PROVE  \E i \in 1 .. Len(pendingMoves) :
                        MovesOn(i, board[p].pos) /\ pendingMoves[i].arrivalLeft >= 0
    BY DEF MovingCarried, MovingHasPending
  <2>1. PICK i \in 1 .. Len(pendingMoves) : MovesOn(i, board[p].pos)
    BY DEF AllCarried, CarriedAt, MovesOn
  <2>2. pendingMoves[i].arrivalLeft \in Int
    <3>1. pendingMoves[i] \in Move
      BY ElementOfSeq DEF TypeOK
    <3> QED BY <3>1 DEF Move
  <2>3. pendingMoves[i].arrivalLeft >= 0
    BY <2>1, <2>2 DEF MovesInTime, MovesOn
  <2> QED BY <2>1, <2>3
<1> QED BY <1>1, <1>2, <1>3, TypeCorrect, SquaresAreExclusive, PTL DEF Spec

-----------------------------------------------------------------------------
(* Ends of rests and jumps are never missed *)

\* The fields of an entry.
LEMMA EntryFields ==
  ASSUME NEW s \in Seq(TimerEntry), NEW i \in 1 .. Len(s)
  PROVE  s[i].left \in Int /\ s[i].pieceId \in PieceIds
<1>1. s[i] \in TimerEntry
  BY ElementOfSeq
<1> QED BY <1>1 DEF TimerEntry

\* An entry joins in time.
LEMMA AppendEntryInTime ==
  ASSUME NEW s \in Seq(TimerEntry), EntriesInTime(s), NEW p \in PieceIds, NEW n \in Nat \ {0}
  PROVE  EntriesInTime(Append(s, [pieceId |-> p, left |-> n]))
<1> DEFINE e == [pieceId |-> p, left |-> n]
<1>1. Len(s) \in Nat
  BY LenProperties
<1>2. e \in TimerEntry /\ e.left = n
  BY DEF TimerEntry
<1>3. EntriesInTime(Append(s, e))
  <2> HIDE DEF e
  <2>1. /\ Len(Append(s, e)) = Len(s) + 1
        /\ \A i \in 1 .. Len(s) : Append(s, e)[i] = s[i]
        /\ Append(s, e)[Len(s) + 1] = e
    BY <1>2, AppendProperties
  <2> QED BY <1>1, <1>2, <2>1 DEF EntriesInTime
<1> QED BY <1>3

\* The entries that remain are as far off as they were.
LEMMA WithoutInTime ==
  ASSUME NEW s \in Seq(TimerEntry), EntriesInTime(s), NEW i \in 1 .. Len(s)
  PROVE  EntriesInTime(Without(s, i))
<1>1. \A k \in 1 .. Len(Without(s, i)) :
        \E j \in 1 .. Len(s) : j # i /\ Without(s, i)[k] = s[j]
  BY WithoutKeeps
<1> QED BY <1>1 DEF EntriesInTime

\* What was to come is at most due after a millisecond.
LEMMA ElapseInTime ==
  ASSUME NEW s \in Seq(TimerEntry), EntriesInTime(s), phase = "idle", phase' = "moves", NEW t,
         t = ElapseEntries(s)
  PROVE  \A i \in 1 .. Len(t) : t[i].left >= 0
<1>1. Len(t) = Len(s) /\ \A i \in 1 .. Len(s) : t[i].left = Elapse(s[i].left)
  BY ElapseEntriesOK
<1>2. \A i \in 1 .. Len(s) : s[i].left \in Int /\ s[i].left >= 1
  BY EntryFields DEF EntriesInTime
<1>3. ASSUME NEW i \in 1 .. Len(s) PROVE Elapse(s[i].left) >= 0
  <2>1. Elapse(s[i].left) = s[i].left - 1
    BY <1>2, ElapseOK
  <2> QED BY <1>2, <2>1
<1> QED BY <1>1, <1>3

\* Nothing due and nothing missed: everything is to come.
LEMMA NothingDueInTime ==
  ASSUME NEW s \in Seq(TimerEntry), phase # "idle", EntriesInTime(s), NothingDue(s)
  PROVE  \A i \in 1 .. Len(s) : s[i].left >= 1
<1>1. \A i \in 1 .. Len(s) : s[i].left \in Int
  BY EntryFields
<1> QED BY <1>1 DEF EntriesInTime, NothingDue

\* A game that goes on returns to idle only through EndTick.
LEMMA PhaseOutcome ==
  ASSUME TypeOK, Next, ~kingCaptured', phase' # phase
  PROVE  \/ Tick
         \/ phase = "moves" /\ phase' = "timers"
         \/ EndTick
<1>1. ASSUME NextMove \/ ReturnEarly, ~ReturnEarly, phase = "moves"
      PROVE  phase' = phase
  BY <1>1 DEF NextMove
<1>2. CASE Requests \/ WaitNoOp
  BY <1>2 DEF Requests, Start, Stop, QueuePremove, RequestMove, TryJump, WaitNoOp, vars
<1>3. CASE CounterKill \/ CaptureTarget
  BY <1>1, <1>3 DEF CounterKill, CaptureTarget, VisitingPiece, Visiting, NextMove
<1>4. CASE SkipMove \/ DropOrphanMove \/ Blocked \/ Arrive \/ Advance
  BY <1>4 DEF SkipMove, DropOrphanMove, Blocked, Arrive, Advance, Enters, VisitingPiece, Visiting,
              NextMove
<1>5. CASE EraseMove \/ ExpireCooldown \/ LandJump \/ ExpireShortRest
  BY <1>5 DEF EraseMove, ExpireCooldown, LandJump, ExpireShortRest
<1> QED BY <1>2, <1>3, <1>4, <1>5 DEF Next, AdvanceTime, ResolveMove, ResolveTimers, EndMoves

\* What a step does to a list of timers.
Prolongs(s, t, ms) ==
  \/ t = s
  \/ \E p \in PieceIds : t = Append(s, [pieceId |-> p, left |-> ms])
  \/ phase = "timers" /\ \E i \in 1 .. Len(s) : t = Without(s, i)
TimersProlonged ==
  /\ Prolongs(cooldowns, cooldowns', CooldownMs)
  /\ Prolongs(airborneEntries, airborneEntries', AirborneMs)
  /\ Prolongs(shortRestEntries, shortRestEntries', ShortRestMs)

\* Besides the clock, a step adds one entry to a list, or erases one, or leaves it.
LEMMA TimersOutcome ==
  ASSUME TypeOK, Next, ~Tick
  PROVE  TimersProlonged
<1>0. DOMAIN board \subseteq PieceIds
  BY DEF TypeOK, BoardOK
<1>1. CASE UNCHANGED <<cooldowns, airborneEntries, shortRestEntries>>
  BY <1>1 DEF TimersProlonged, Prolongs
<1>2. ASSUME NEW cell \in Cells, TryJump(cell)
      PROVE  TimersProlonged
  <2>1. Occupant(board, cell) \in PieceIds
    BY <1>0, <1>2, OccupantAt DEF TryJump
  <2> QED BY <1>2, <2>1 DEF TryJump, TimersProlonged, Prolongs
<1>3. CASE CounterKill
  <2>1. TargetPiece \in PieceIds
    BY <1>0, <1>3, MoverOK DEF CounterKill, MeetsAirborne, TargetIsEnemy
  <2> QED BY <1>3, <2>1 DEF CounterKill, TimersProlonged, Prolongs
<1>4. CASE CaptureTarget \/ Arrive
  <2>1. Mover \in PieceIds
    BY <1>4, MoverOK DEF CaptureTarget, Arrive, Enters
  <2>2. \A b : ArriveOn(b, Mover)
          => cooldowns' = Append(cooldowns, [pieceId |-> Mover, left |-> CooldownMs])
    BY DEF ArriveOn
  <2>3. cooldowns' = cooldowns
        \/ cooldowns' = Append(cooldowns, [pieceId |-> Mover, left |-> CooldownMs])
    BY <1>4, <2>2 DEF CaptureTarget, Arrive
  <2>4. UNCHANGED <<airborneEntries, shortRestEntries>>
    BY <1>4 DEF CaptureTarget, Arrive
  <2> QED BY <2>1, <2>3, <2>4 DEF TimersProlonged, Prolongs
<1>5. CASE ExpireCooldown
  BY <1>5 DEF ExpireCooldown, TimersProlonged, Prolongs
<1>6. CASE LandJump
  <2>1. PICK i \in 1 .. Len(airborneEntries) :
          /\ airborneEntries' = Without(airborneEntries, i)
          /\ \/ shortRestEntries' = shortRestEntries
             \/ shortRestEntries' = Append(shortRestEntries,
                   [pieceId |-> airborneEntries[i].pieceId, left |-> ShortRestMs])
    BY <1>6 DEF LandJump
  <2>2. airborneEntries[i].pieceId \in PieceIds
    BY EntryFields DEF TypeOK
  <2>3. phase = "timers" /\ cooldowns' = cooldowns
    BY <1>6 DEF LandJump
  <2> QED BY <2>1, <2>2, <2>3 DEF TimersProlonged, Prolongs
<1>7. CASE ExpireShortRest
  BY <1>7 DEF ExpireShortRest, TimersProlonged, Prolongs
<1>8. CASE Requests
  <2>1. CASE \E from \in Cells, to \in PremoveTargets : QueuePremove(from, to)
    BY <1>1, <2>1 DEF QueuePremove
  <2>2. CASE \E from, to \in Cells : RequestMove(from, to)
    BY <1>1, <2>2 DEF RequestMove
  <2>3. CASE Start \/ Stop
    BY <1>1, <2>3 DEF Start, Stop, arbiterVars
  <2> QED BY <1>2, <1>8, <2>1, <2>2, <2>3 DEF Requests
<1>9. CASE SkipMove \/ DropOrphanMove \/ Blocked \/ Advance \/ EndMoves \/ EraseMove \/ EndTick
  BY <1>1, <1>9 DEF SkipMove, DropOrphanMove, Blocked, Advance, EndMoves, EraseMove, EndTick, arbiterVars
<1>10. CASE WaitNoOp
  BY <1>1, <1>10 DEF WaitNoOp, vars, arbiterVars
<1> QED BY <1>3, <1>4, <1>5, <1>6, <1>7, <1>8, <1>9, <1>10
        DEF Next, AdvanceTime, ResolveMove, ResolveTimers

\* One list of timers stays in time, whatever a step does to it.
LEMMA ProlongedInTime ==
  ASSUME NEW s \in Seq(TimerEntry), EntriesInTime(s), NEW ms \in Nat \ {0}, NEW t,
         Prolongs(s, t, ms)
  PROVE  EntriesInTime(t)
  BY AppendEntryInTime, WithoutInTime DEF Prolongs

\* No step lets an entry pass its time.
LEMMA TimersInTimeStep ==
  ASSUME TypeOK, OnePiecePerSquare, TimersInTime, [Next]_vars
  PROVE  TimersInTime'
<1> SUFFICES ASSUME ~kingCaptured'
             PROVE  /\ EntriesInTime(cooldowns)' /\ EntriesInTime(airborneEntries)'
                    /\ EntriesInTime(shortRestEntries)'
  BY DEF TimersInTime
<1>1. /\ EntriesInTime(cooldowns) /\ EntriesInTime(airborneEntries)
      /\ EntriesInTime(shortRestEntries)
  BY KingStaysCaptured DEF TimersInTime
<1>2. /\ cooldowns \in Seq(TimerEntry) /\ airborneEntries \in Seq(TimerEntry)
      /\ shortRestEntries \in Seq(TimerEntry)
  BY DEF TypeOK
<1>3. CASE UNCHANGED vars
  BY <1>1, <1>3 DEF vars, arbiterVars, EntriesInTime
<1>4. CASE Tick
  <2>1. phase = "idle" /\ phase' = "moves"
        /\ cooldowns' = ElapseEntries(cooldowns)
        /\ airborneEntries' = ElapseEntries(airborneEntries)
        /\ shortRestEntries' = ElapseEntries(shortRestEntries)
    BY <1>4 DEF Tick
  <2>2. \A i \in 1 .. Len(cooldowns') : cooldowns'[i].left >= 0
    BY <1>1, <1>2, <2>1, ElapseInTime
  <2>3. \A i \in 1 .. Len(airborneEntries') : airborneEntries'[i].left >= 0
    BY <1>1, <1>2, <2>1, ElapseInTime
  <2>4. \A i \in 1 .. Len(shortRestEntries') : shortRestEntries'[i].left >= 0
    BY <1>1, <1>2, <2>1, ElapseInTime
  <2> QED BY <2>1, <2>2, <2>3, <2>4 DEF EntriesInTime
<1>5. CASE EndTick
  <2>1. /\ phase # "idle" /\ NothingDue(cooldowns) /\ NothingDue(airborneEntries)
        /\ NothingDue(shortRestEntries)
        /\ UNCHANGED <<cooldowns, airborneEntries, shortRestEntries>>
    BY <1>5 DEF EndTick, arbiterVars
  <2>2. /\ \A i \in 1 .. Len(cooldowns) : cooldowns[i].left >= 1
        /\ \A i \in 1 .. Len(airborneEntries) : airborneEntries[i].left >= 1
        /\ \A i \in 1 .. Len(shortRestEntries) : shortRestEntries[i].left >= 1
    BY <1>1, <1>2, <2>1, NothingDueInTime
  <2>3. phase' = "idle"
    BY <1>5 DEF EndTick
  <2> QED BY <2>1, <2>2, <2>3 DEF EntriesInTime
<1>6. CASE Next /\ ~Tick /\ ~EndTick
  <2>1. TimersProlonged /\ (phase' = "idle" <=> phase = "idle")
    BY <1>6, TimersOutcome, PhaseOutcome
  <2>2. CooldownMs \in Nat \ {0} /\ AirborneMs \in Nat \ {0} /\ ShortRestMs \in Nat \ {0}
    BY TimingAssumption DEF TimingAssumption
  <2>3. EntriesInTime(cooldowns') /\ EntriesInTime(airborneEntries')
        /\ EntriesInTime(shortRestEntries')
    BY <1>1, <1>2, <2>1, <2>2, ProlongedInTime DEF TimersProlonged
  <2> QED BY <2>1, <2>3 DEF EntriesInTime
<1> QED BY <1>3, <1>4, <1>5, <1>6

-----------------------------------------------------------------------------
(* Resting pieces have timers *)

Timed(entries, p) == \E i \in 1 .. Len(entries) : entries[i].pieceId = p
AllTimed(b, s, entries) == \A p \in DOMAIN b : b[p].state = s => Timed(entries, p)
RestTimed ==
  /\ AllTimed(board, "Cooldown", cooldowns)
  /\ AllTimed(board, "Airborne", airborneEntries)
  /\ AllTimed(board, "ShortRest", shortRestEntries)

\* Whoever enters a state needs a timer for it; the others keep theirs.
LEMMA SetStateTimed ==
  ASSUME NEW b, BoardOK(b), NEW p, NEW x, NEW s, NEW e, AllTimed(b, s, e),
         x = s /\ p \in DOMAIN b => Timed(e, p)
  PROVE  AllTimed(SetState(b, p, x), s, e)
<1>1. DOMAIN SetState(b, p, x) = DOMAIN b
      /\ \A q \in DOMAIN b : SetState(b, p, x)[q].state = IF q = p THEN x ELSE b[q].state
  BY DEF SetState, BoardOK
<1> QED BY <1>1 DEF AllTimed

\* Removing, moving and promoting pieces puts nobody into a rest.
LEMMA BoardChangesTimed ==
  ASSUME NEW b, BoardOK(b), NEW s, NEW e, AllTimed(b, s, e)
  PROVE  /\ \A c : AllTimed(RemovePiece(b, c), s, e)
         /\ \A from, to : AllTimed(MovePiece(b, from, to), s, e)
         /\ \A p : s # "Idle" => AllTimed(PromotePawn(b, p), s, e)
<1>1. \A c : AllTimed(RemovePiece(b, c), s, e)
  BY DEF RemovePiece, AllTimed
<1>2. ASSUME NEW from, NEW to PROVE AllTimed(MovePiece(b, from, to), s, e)
  <2>1. DOMAIN MovePiece(b, from, to) = DOMAIN b
        /\ \A q \in DOMAIN b : MovePiece(b, from, to)[q].state = b[q].state
    BY DEF MovePiece, BoardOK
  <2> QED BY <2>1 DEF AllTimed
<1>3. ASSUME NEW p, s # "Idle" PROVE AllTimed(PromotePawn(b, p), s, e)
  BY <1>3 DEF PromotePawn, AllTimed
<1> QED BY <1>1, <1>2, <1>3

\* A new entry times its piece, and takes nobody's timer.
LEMMA AppendTimed ==
  ASSUME NEW s \in Seq(TimerEntry), NEW p \in PieceIds, NEW n \in Int
  PROVE  /\ Timed(Append(s, [pieceId |-> p, left |-> n]), p)
         /\ \A q : Timed(s, q) => Timed(Append(s, [pieceId |-> p, left |-> n]), q)
<1> DEFINE e == [pieceId |-> p, left |-> n]
<1>1. Len(s) \in Nat /\ e \in TimerEntry /\ e.pieceId = p
  BY LenProperties DEF TimerEntry
<1>2. Timed(Append(s, e), p) /\ \A q : Timed(s, q) => Timed(Append(s, e), q)
  <2> HIDE DEF e
  <2>1. /\ Len(Append(s, e)) = Len(s) + 1
        /\ \A i \in 1 .. Len(s) : Append(s, e)[i] = s[i]
        /\ Append(s, e)[Len(s) + 1] = e
    BY <1>1, AppendProperties
  <2>2. Timed(Append(s, e), p)
    BY <1>1, <2>1 DEF Timed
  <2>3. \A q : Timed(s, q) => Timed(Append(s, e), q)
    BY <1>1, <2>1 DEF Timed
  <2> QED BY <2>2, <2>3
<1> QED BY <1>2

\* Erasing an entry takes the timer of its own piece only.
LEMMA WithoutTimed ==
  ASSUME NEW s \in Seq(TimerEntry), NEW i \in 1 .. Len(s), NEW q, q # s[i].pieceId, Timed(s, q)
  PROVE  Timed(Without(s, i), q)
<1>1. \A j \in 1 .. Len(s) : j # i =>
        \E k \in 1 .. Len(Without(s, i)) : Without(s, i)[k] = s[j]
  BY WithoutKeeps
<1> QED BY <1>1 DEF Timed

\* The clock takes nobody's timer.
LEMMA ElapseTimed ==
  ASSUME NEW s \in Seq(TimerEntry), NEW q, Timed(s, q)
  PROVE  Timed(ElapseEntries(s), q)
  BY ElapseEntriesOK DEF Timed

\* An arriving piece gets its cooldown, with its timer.
LEMMA ArriveOnTimed ==
  ASSUME TypeOK, NEW b, BoardOK(b), NEW p \in DOMAIN b, ArriveOn(b, p),
         AllTimed(b, "Cooldown", cooldowns), AllTimed(b, "Airborne", airborneEntries),
         AllTimed(b, "ShortRest", shortRestEntries)
  PROVE  /\ AllTimed(board', "Cooldown", cooldowns')
         /\ AllTimed(board', "Airborne", airborneEntries)
         /\ AllTimed(board', "ShortRest", shortRestEntries)
<1>1. p \in PieceIds /\ CooldownMs \in Int /\ cooldowns \in Seq(TimerEntry)
  BY TimingAssumption DEF TimingAssumption, BoardOK, TypeOK
<1>2. Timed(cooldowns', p) /\ \A q : Timed(cooldowns, q) => Timed(cooldowns', q)
  BY <1>1, AppendTimed DEF ArriveOn
<1>3. AllTimed(b, "Cooldown", cooldowns')
  BY <1>2 DEF AllTimed
<1>4. board' = PromotePawn(b, p) \/ board' = SetState(b, p, "Cooldown")
  BY DEF ArriveOn
<1> QED BY <1>2, <1>3, <1>4, SetStateTimed, BoardChangesTimed

\* The end of a rest takes the timer and the rest it is for.
LEMMA EndRestTimed ==
  ASSUME TypeOK, NEW p \in PieceIds, NEW resting, EndRest(p, resting),
         NEW s, s \notin {"Idle", "Moving"}, NEW e, AllTimed(board, s, e)
  PROVE  /\ AllTimed(board', s, e)
         /\ p \in DOMAIN board' => board'[p].state # resting \/ resting \in {"Idle", "Moving"}
<1> DEFINE idle == SetState(board, p, "Idle")
<1>1. BoardOK(idle) /\ AllTimed(idle, s, e) /\ DOMAIN idle = DOMAIN board
  BY SetStateOK, SetStateTimed DEF TypeOK, PieceStates
<1>2. \/ board' = board /\ ~(p \in DOMAIN board /\ board[p].state = resting)
      \/ p \in DOMAIN board /\ (board' = idle \/ board' = SetState(idle, p, "Moving"))
  BY DEF EndRest
<1>3. AllTimed(board', s, e)
  <2> HIDE DEF idle
  <2> QED BY <1>1, <1>2, SetStateTimed
<1>4. p \in DOMAIN board => /\ idle[p].state = "Idle"
                            /\ SetState(idle, p, "Moving")[p].state = "Moving"
  BY DEF SetState, TypeOK, BoardOK
<1> HIDE DEF idle
<1> QED BY <1>2, <1>3, <1>4

\* A list of timers without the entry of a piece that no longer waits for it.
LEMMA WithoutAllTimed ==
  ASSUME NEW b, NEW s, NEW e \in Seq(TimerEntry), AllTimed(b, s, e), NEW i \in 1 .. Len(e),
         e[i].pieceId \in DOMAIN b => b[e[i].pieceId].state # s
  PROVE  AllTimed(b, s, Without(e, i))
  BY WithoutTimed DEF AllTimed

\* No step leaves a resting or jumping piece without its timer.
LEMMA RestTimedStep ==
  ASSUME TypeOK, OnePiecePerSquare, RestTimed, [Next]_vars
  PROVE  RestTimed'
<1>1. /\ BoardOK(board) /\ cooldowns \in Seq(TimerEntry)
      /\ airborneEntries \in Seq(TimerEntry) /\ shortRestEntries \in Seq(TimerEntry)
      /\ DOMAIN board \subseteq PieceIds
      /\ AirborneMs \in Int /\ ShortRestMs \in Int
  BY TimingAssumption DEF TypeOK, BoardOK, TimingAssumption
<1>2. CASE UNCHANGED <<board, cooldowns, airborneEntries, shortRestEntries>>
  BY <1>2 DEF RestTimed
<1>3. ASSUME NEW p, NEW x \in {"Idle", "Moving"}, board' = SetState(board, p, x),
             UNCHANGED <<cooldowns, airborneEntries, shortRestEntries>>
      PROVE  RestTimed'
  BY <1>1, <1>3, SetStateTimed DEF RestTimed
<1>4. ASSUME NEW cell \in Cells, TryJump(cell)
      PROVE  RestTimed'
  <2> DEFINE p == Occupant(board, cell)
  <2>1. /\ p \in PieceIds /\ board' = SetState(board, p, "Airborne")
        /\ airborneEntries' = Append(airborneEntries, [pieceId |-> p, left |-> AirborneMs])
        /\ UNCHANGED <<cooldowns, shortRestEntries>>
    BY <1>1, <1>4, OccupantAt DEF TryJump
  <2> HIDE DEF p
  <2>2. Timed(airborneEntries', p)
        /\ \A q : Timed(airborneEntries, q) => Timed(airborneEntries', q)
    BY <1>1, <2>1, AppendTimed
  <2>3. AllTimed(board, "Airborne", airborneEntries')
    BY <2>2 DEF RestTimed, AllTimed
  <2> QED BY <1>1, <2>1, <2>2, <2>3, SetStateTimed DEF RestTimed
<1>5. CASE Tick
  <2>1. board' = board /\ cooldowns' = ElapseEntries(cooldowns)
        /\ airborneEntries' = ElapseEntries(airborneEntries)
        /\ shortRestEntries' = ElapseEntries(shortRestEntries)
    BY <1>5 DEF Tick
  <2> QED BY <1>1, <2>1, ElapseTimed DEF RestTimed, AllTimed
<1>6. CASE CounterKill
  <2> DEFINE r == RemovePiece(board, Current.currentPos)
  <2>1. /\ TargetPiece \in PieceIds /\ board' = SetState(r, TargetPiece, "ShortRest")
        /\ shortRestEntries' =
             Append(shortRestEntries, [pieceId |-> TargetPiece, left |-> ShortRestMs])
        /\ UNCHANGED <<cooldowns, airborneEntries>>
    BY <1>1, <1>6, MoverOK DEF CounterKill, MeetsAirborne, TargetIsEnemy
  <2>2. BoardOK(r) /\ AllTimed(r, "Cooldown", cooldowns)
        /\ AllTimed(r, "Airborne", airborneEntries) /\ AllTimed(r, "ShortRest", shortRestEntries)
    BY <1>1, RemovePieceOK, BoardChangesTimed DEF RestTimed
  <2> HIDE DEF r
  <2>3. Timed(shortRestEntries', TargetPiece)
        /\ \A q : Timed(shortRestEntries, q) => Timed(shortRestEntries', q)
    BY <1>1, <2>1, AppendTimed
  <2>4. AllTimed(r, "ShortRest", shortRestEntries')
    BY <2>2, <2>3 DEF AllTimed
  <2> QED BY <2>1, <2>2, <2>3, <2>4, SetStateTimed DEF RestTimed
<1>7. CASE CaptureTarget
  <2> DEFINE r == RemovePiece(board, Target)
             b == MovePiece(r, Current.currentPos, Target)
  <2>1. /\ VisitingPiece /\ TargetIsEnemy /\ Occupied(board, Target)
        /\ UNCHANGED <<airborneEntries, shortRestEntries>>
        /\ (board' = b /\ cooldowns' = cooldowns) \/ ArriveOn(b, Mover)
    BY <1>7 DEF CaptureTarget, TargetIsEnemy
  <2>2. BoardOK(r) /\ DOMAIN r = DOMAIN board \ At(board, Target)
        /\ AllTimed(r, "Cooldown", cooldowns)
        /\ AllTimed(r, "Airborne", airborneEntries) /\ AllTimed(r, "ShortRest", shortRestEntries)
    BY <1>1, RemovePieceOK, BoardChangesTimed DEF RestTimed
  <2>3. BoardOK(b) /\ DOMAIN b = DOMAIN r /\ AllTimed(b, "Cooldown", cooldowns)
        /\ AllTimed(b, "Airborne", airborneEntries) /\ AllTimed(b, "ShortRest", shortRestEntries)
    <3> HIDE DEF r
    <3> QED BY <2>1, <2>2, MoverOK, MovePieceOK, BoardChangesTimed
  <2>4. Mover \in DOMAIN b
    BY <2>1, <2>2, <2>3, MoverOK, MoverNotOnTarget DEF At
  <2> HIDE DEF b
  <2> QED BY <2>1, <2>3, <2>4, ArriveOnTimed DEF RestTimed
<1>8. CASE Arrive
  <2> DEFINE b == MovePiece(board, Current.currentPos, Target)
  <2>1. VisitingPiece /\ ArriveOn(b, Mover) /\ UNCHANGED <<airborneEntries, shortRestEntries>>
    BY <1>8 DEF Arrive, Enters
  <2>2. BoardOK(b) /\ Mover \in DOMAIN b /\ AllTimed(b, "Cooldown", cooldowns)
        /\ AllTimed(b, "Airborne", airborneEntries) /\ AllTimed(b, "ShortRest", shortRestEntries)
    BY <1>1, <2>1, MoverOK, MovePieceOK, BoardChangesTimed DEF RestTimed
  <2> HIDE DEF b
  <2> QED BY <2>1, <2>2, ArriveOnTimed DEF RestTimed
<1>9. CASE Advance
  BY <1>1, <1>9, BoardChangesTimed DEF Advance, RestTimed
<1>10. CASE ExpireCooldown
  <2>1. PICK i \in 1 .. Len(cooldowns) :
          cooldowns' = Without(cooldowns, i) /\ EndRest(cooldowns[i].pieceId, "Cooldown")
    BY <1>10 DEF ExpireCooldown
  <2>2. cooldowns[i].pieceId \in PieceIds
    BY <1>1, EntryFields
  <2>3. /\ AllTimed(board', "Cooldown", cooldowns)
        /\ AllTimed(board', "Airborne", airborneEntries)
        /\ AllTimed(board', "ShortRest", shortRestEntries)
        /\ cooldowns[i].pieceId \in DOMAIN board' => board'[cooldowns[i].pieceId].state # "Cooldown"
    BY <2>1, <2>2, EndRestTimed DEF RestTimed
  <2>4. AllTimed(board', "Cooldown", Without(cooldowns, i))
    BY <1>1, <2>3, WithoutAllTimed
  <2> QED BY <1>10, <2>1, <2>3, <2>4 DEF ExpireCooldown, RestTimed
<1>11. CASE ExpireShortRest
  <2>1. PICK i \in 1 .. Len(shortRestEntries) :
          /\ shortRestEntries' = Without(shortRestEntries, i)
          /\ EndRest(shortRestEntries[i].pieceId, "ShortRest")
    BY <1>11 DEF ExpireShortRest
  <2>2. shortRestEntries[i].pieceId \in PieceIds
    BY <1>1, EntryFields
  <2>3. /\ AllTimed(board', "Cooldown", cooldowns)
        /\ AllTimed(board', "Airborne", airborneEntries)
        /\ AllTimed(board', "ShortRest", shortRestEntries)
        /\ shortRestEntries[i].pieceId \in DOMAIN board'
             => board'[shortRestEntries[i].pieceId].state # "ShortRest"
    BY <2>1, <2>2, EndRestTimed DEF RestTimed
  <2>4. AllTimed(board', "ShortRest", Without(shortRestEntries, i))
    BY <1>1, <2>3, WithoutAllTimed
  <2> QED BY <1>11, <2>1, <2>3, <2>4 DEF ExpireShortRest, RestTimed
<1>12. CASE LandJump
  <2>1. PICK i \in 1 .. Len(airborneEntries) :
          LET p == airborneEntries[i].pieceId
          IN  /\ airborneEntries' = Without(airborneEntries, i)
              /\ IF p \in DOMAIN board /\ board[p].state = "Airborne"
                 THEN /\ board' = SetState(board, p, "ShortRest")
                      /\ shortRestEntries' =
                           Append(shortRestEntries, [pieceId |-> p, left |-> ShortRestMs])
                 ELSE UNCHANGED <<board, shortRestEntries>>
    BY <1>12 DEF LandJump
  <2> DEFINE p == airborneEntries[i].pieceId
  <2>2. p \in PieceIds /\ cooldowns' = cooldowns
    BY <1>1, <1>12, EntryFields DEF LandJump
  <2>3. CASE p \in DOMAIN board /\ board[p].state = "Airborne"
    <3>1. /\ board' = SetState(board, p, "ShortRest")
          /\ shortRestEntries' = Append(shortRestEntries, [pieceId |-> p, left |-> ShortRestMs])
      BY <2>1, <2>3
    <3>2. board'[p].state = "ShortRest"
      BY <1>1, <2>3, <3>1 DEF SetState, BoardOK
    <3>3. AllTimed(board', "Cooldown", cooldowns) /\ AllTimed(board', "Airborne", airborneEntries)
      BY <1>1, <3>1, SetStateTimed DEF RestTimed
    <3>4. AllTimed(board', "Airborne", airborneEntries')
      BY <1>1, <2>1, <3>2, <3>3, WithoutAllTimed
    <3>5. Timed(shortRestEntries', p)
          /\ \A q : Timed(shortRestEntries, q) => Timed(shortRestEntries', q)
      <4> HIDE DEF p
      <4> QED BY <1>1, <2>2, <3>1, AppendTimed
    <3>6. AllTimed(board, "ShortRest", shortRestEntries')
      BY <3>5 DEF RestTimed, AllTimed
    <3>7. AllTimed(board', "ShortRest", shortRestEntries')
      BY <1>1, <3>1, <3>5, <3>6, SetStateTimed
    <3> QED BY <2>2, <3>3, <3>4, <3>7 DEF RestTimed
  <2>4. CASE ~(p \in DOMAIN board /\ board[p].state = "Airborne")
    <3>1. airborneEntries' = Without(airborneEntries, i) /\ UNCHANGED <<board, shortRestEntries>>
      BY <2>1, <2>4
    <3>2. AllTimed(board, "Airborne", Without(airborneEntries, i))
      BY <1>1, <2>4, WithoutAllTimed DEF RestTimed
    <3> QED BY <2>2, <3>1, <3>2 DEF RestTimed
  <2> QED BY <2>3, <2>4
<1>13. CASE Blocked \/ \E from, to \in Cells : RequestMove(from, to)
  BY <1>3, <1>13 DEF Blocked, RequestMove
<1>14. CASE SkipMove \/ DropOrphanMove \/ EndMoves \/ EraseMove \/ EndTick
  BY <1>2, <1>14 DEF SkipMove, DropOrphanMove, EndMoves, EraseMove, EndTick, arbiterVars
<1>15. CASE Start \/ Stop \/ \E from \in Cells, to \in PremoveTargets : QueuePremove(from, to)
  BY <1>2, <1>15 DEF Start, Stop, QueuePremove, arbiterVars
<1>16. CASE WaitNoOp \/ UNCHANGED vars
  BY <1>2, <1>16 DEF WaitNoOp, vars, arbiterVars
<1> QED BY <1>4, <1>5, <1>6, <1>7, <1>8, <1>9, <1>10, <1>11, <1>12, <1>13, <1>14, <1>15, <1>16
        DEF Next, Requests, AdvanceTime, ResolveMove, ResolveTimers

\* No piece is frozen: as long as both kings stand, a resting or jumping piece has a timer
\* that is still to come, on every board and for all durations.
THEOREM RestingPiecesHaveTimers == Spec => []RestHasTimer
<1>1. Init => TimersInTime /\ RestTimed
  BY DEF Init, InitialBoard, TimersInTime, EntriesInTime, RestTimed, AllTimed
<1>2. TypeOK /\ OnePiecePerSquare /\ TimersInTime /\ RestTimed /\ [Next]_vars
        => TimersInTime' /\ RestTimed'
  BY TimersInTimeStep, RestTimedStep
<1>3. TypeOK /\ TimersInTime /\ RestTimed => RestHasTimer
  <2> SUFFICES ASSUME TypeOK, TimersInTime, RestTimed, ~kingCaptured PROVE RestHasTimer
    BY DEF RestHasTimer
  <2>1. ASSUME NEW e \in Seq(TimerEntry), EntriesInTime(e), NEW p, Timed(e, p)
        PROVE  HasEntry(e, p)
    <3>1. \A i \in 1 .. Len(e) : e[i].left \in Int
      BY EntryFields
    <3>2. \A i \in 1 .. Len(e) : e[i].left >= 0
      BY <2>1, <3>1 DEF EntriesInTime
    <3> QED BY <2>1, <3>2 DEF Timed, HasEntry
  <2>2. /\ cooldowns \in Seq(TimerEntry) /\ airborneEntries \in Seq(TimerEntry)
        /\ shortRestEntries \in Seq(TimerEntry)
    BY DEF TypeOK
  <2> QED BY <2>1, <2>2 DEF TimersInTime, RestTimed, AllTimed, RestHasTimer
<1> QED BY <1>1, <1>2, <1>3, TypeCorrect, SquaresAreExclusive, PTL DEF Spec
=============================================================================
