---------------------------- MODULE KungFuEngine ----------------------------
(***************************************************************************)
(* The game engine: GameEngine.cpp (requests, game state, score) over       *)
(* RealTimeArbiter.cpp (moves in flight, rests, jumps, premoves).           *)
(*                                                                         *)
(* advanceTime(1) is split at its loop iterations: Tick advances the clock, *)
(* then phase "moves" visits pendingMoves_ with the index cursor, and phase *)
(* "timers" erases finished moves and resolves the cooldowns, the airborne  *)
(* pieces and the short rests due now, in that order.  wait(n) is n such    *)
(* rounds; requests arrive between calls, hence only in phase "idle".       *)
(*                                                                         *)
(* Times are kept relative to currentTimeMs_: a field "left" is endTimeMs - *)
(* currentTimeMs_.  The code compares times with ==, so all that can be     *)
(* said of a deadline that has passed is that it was missed: Missed.        *)
(***************************************************************************)
EXTENDS ChessRules

CONSTANTS
  MsPerCell, CooldownMs, AirborneMs, ShortRestMs,   \* RealTimeArbiter's durations
  Restartable,    \* may callers start() or stop() a game whose king was captured?
  PremoveTargets  \* the squares premoves are requested to, legal or not

\* AirborneMs <= ShortRestMs is GameConfig's 700 <= 750.
ASSUME TimingAssumption ==
  /\ MsPerCell \in Nat \ {0} /\ CooldownMs \in Nat \ {0}
  /\ AirborneMs \in Nat \ {0} /\ ShortRestMs \in Nat \ {0}
  /\ AirborneMs <= ShortRestMs
  /\ Restartable \in BOOLEAN
  /\ PremoveTargets \subseteq Positions

VARIABLES
  board,             \* Board::pieces_
  pendingMoves,      \* pendingMoves_: sequence of Move records
  cooldowns,         \* cooldowns_, airborneEntries_, shortRestEntries_:
  airborneEntries,   \*   sequences of [pieceId, left]
  shortRestEntries,
  premoves,          \* premoves_: partial function from piece ids to positions
  kingCaptured,      \* kingCaptured_
  state,             \* GameEngine::state_
  score,             \* GameRecord: score of each colour
  winners,           \* winner of every GameEnded published so far
  phase, cursor      \* where advanceTime is

arbiterVars == <<pendingMoves, cooldowns, airborneEntries, shortRestEntries, premoves>>
resultVars == <<kingCaptured, state, score, winners>>
vars == <<board, arbiterVars, resultVars, phase, cursor>>

GameStates == {"NotStarted", "Running", "Paused", "Finished"}
Phases == {"idle", "moves", "timers"}
Missed == -1

Move == [pieceId : PieceIds, to : Positions, currentPos : Positions,
         arrivalLeft : Int, stepLeft : Int,
         step : (-1 .. 1) \X (-1 .. 1), active : BOOLEAN]
TimerEntry == [pieceId : PieceIds, left : Int]

Abs(n) == IF n < 0 THEN -n ELSE n
Sign(n) == IF n = 0 THEN 0 ELSE IF n > 0 THEN 1 ELSE -1
Distance(from, to) ==
  LET dr == Abs(to[1] - from[1])
      dc == Abs(to[2] - from[2])
  IN  IF dr > dc THEN dr ELSE dc

\* One millisecond less to go; a deadline left behind stays missed.
\* (mutant: the clock jumps two milliseconds at a time)
ElapseByTwo(left) == IF left > 1 THEN left - 2 ELSE Missed
Elapse(left) == IF left > 0 THEN left - 1 ELSE Missed
ElapseMove(pm) == [pm EXCEPT !.arrivalLeft = Elapse(@), !.stepLeft = Elapse(@)]
ElapseEntries(entries) ==
  [i \in 1 .. Len(entries) |-> [entries[i] EXCEPT !.left = Elapse(@)]]

Without(s, i) == [j \in 1 .. Len(s) - 1 |-> IF j < i THEN s[j] ELSE s[j + 1]]
FirstDue(i, entries) ==
  entries[i].left = 0 /\ \A j \in 1 .. i - 1 : entries[j].left # 0
NothingDue(entries) == \A i \in 1 .. Len(entries) : entries[i].left # 0

\* (mutant: the step is the whole way)
NewMoveInOneStep(p, from, to) ==
  [pieceId |-> p, to |-> to, currentPos |-> from,
   arrivalLeft |-> Distance(from, to) * MsPerCell, stepLeft |-> MsPerCell,
   step |-> <<to[1] - from[1], to[2] - from[2]>>, active |-> TRUE]
\* (mutant: the first square is entered one cell's time too late)
NewMoveSlow(p, from, to) ==
  [pieceId |-> p, to |-> to, currentPos |-> from,
   arrivalLeft |-> Distance(from, to) * MsPerCell, stepLeft |-> 2 * MsPerCell,
   step |-> <<Sign(to[1] - from[1]), Sign(to[2] - from[2])>>, active |-> TRUE]
NewMove(p, from, to) ==
  [pieceId |-> p, to |-> to, currentPos |-> from,
   arrivalLeft |-> Distance(from, to) * MsPerCell, stepLeft |-> MsPerCell,
   step |-> <<Sign(to[1] - from[1]), Sign(to[2] - from[2])>>, active |-> TRUE]

Init ==
  /\ board = InitialBoard
  /\ pendingMoves = <<>> /\ cooldowns = <<>>
  /\ airborneEntries = <<>> /\ shortRestEntries = <<>>
  /\ premoves = [p \in {} |-> <<0, 0>>]
  /\ kingCaptured = FALSE /\ state = "NotStarted"
  /\ score = [c \in Colors |-> 0] /\ winners = <<>>
  /\ phase = "idle" /\ cursor = 1

-----------------------------------------------------------------------------
(* Requests.  A request the code rejects changes nothing. *)

\* GameEngine::start and stop.
Start ==
  /\ phase = "idle" /\ state # "Running"
  /\ state = "Finished" => Restartable
  /\ state' = "Running"
  /\ UNCHANGED <<board, arbiterVars, kingCaptured, score, winners, phase, cursor>>

Stop ==
  /\ phase = "idle" /\ state # "Paused"
  /\ state = "Finished" => Restartable
  /\ state' = "Paused"
  /\ UNCHANGED <<board, arbiterVars, kingCaptured, score, winners, phase, cursor>>

\* requestMove on a resting piece: queued without validation, the last one wins.
QueuePremove(from, to) ==
  /\ phase = "idle" /\ state = "Running" /\ Occupied(board, from)
  /\ LET p == Occupant(board, from)
     IN  /\ board[p].state \in {"Cooldown", "ShortRest"}
         /\ premoves' = [q \in DOMAIN premoves \cup {p} |->
                           IF q = p THEN to ELSE premoves[q]]
  /\ UNCHANGED <<board, pendingMoves, cooldowns, airborneEntries, shortRestEntries,
                 resultVars, phase, cursor>>

\* requestMove on an idle piece.
RequestMove(from, to) ==
  /\ phase = "idle" /\ state = "Running" /\ Occupied(board, from)
  /\ LET p == Occupant(board, from)
     IN  /\ board[p].state = "Idle"
         /\ ValidateMove(board, from, to)
         /\ pendingMoves' = Append(pendingMoves, NewMove(p, from, to))
         /\ board' = SetState(board, p, "Moving")
  /\ UNCHANGED <<cooldowns, airborneEntries, shortRestEntries, premoves,
                 resultVars, phase, cursor>>

\* (mutant: a piece in cooldown may jump)
TryJumpWhileResting(cell) ==
  /\ phase = "idle" /\ state = "Running" /\ Occupied(board, cell)
  /\ LET p == Occupant(board, cell)
     IN  /\ board[p].state \in {"Idle", "Cooldown"}
         /\ board' = SetState(board, p, "Airborne")
         /\ airborneEntries' =
              Append(airborneEntries, [pieceId |-> p, left |-> AirborneMs])
  /\ UNCHANGED <<pendingMoves, cooldowns, shortRestEntries, premoves,
                 resultVars, phase, cursor>>
TryJump(cell) ==
  /\ phase = "idle" /\ state = "Running" /\ Occupied(board, cell)
  /\ LET p == Occupant(board, cell)
     IN  /\ board[p].state = "Idle"
         /\ board' = SetState(board, p, "Airborne")
         /\ airborneEntries' =
              Append(airborneEntries, [pieceId |-> p, left |-> AirborneMs])
  /\ UNCHANGED <<pendingMoves, cooldowns, shortRestEntries, premoves,
                 resultVars, phase, cursor>>

-----------------------------------------------------------------------------
(* advanceTime: the clock *)

Tick ==
  /\ phase = "idle" /\ state = "Running"
  /\ pendingMoves' = [i \in 1 .. Len(pendingMoves) |-> ElapseMove(pendingMoves[i])]
  /\ cooldowns' = ElapseEntries(cooldowns)
  /\ airborneEntries' = ElapseEntries(airborneEntries)
  /\ shortRestEntries' = ElapseEntries(shortRestEntries)
  /\ phase' = "moves" /\ cursor' = 1
  /\ UNCHANGED <<board, premoves, resultVars>>

(* advanceTime: the loop over pendingMoves_.  The piece a move acts on is the *)
(* one found on currentPos, whatever pieceId says.                           *)

NextMove == phase' = "moves" /\ cursor' = cursor + 1
\* (mutant: the loop goes on after a king is taken)
ReturnLate == NextMove
ReturnEarly == phase' = "idle" /\ cursor' = 1

Current == pendingMoves[cursor]
Visiting == phase = "moves" /\ cursor \in 1 .. Len(pendingMoves)
VisitingPiece == Visiting /\ Current.active /\ Occupied(board, Current.currentPos)
Mover == Occupant(board, Current.currentPos)
MoverIsKnight == TypeOf(Mover) = "Knight"
Lands == MoverIsKnight /\ Current.arrivalLeft = 0
Steps == ~MoverIsKnight /\ (Current.stepLeft = 0 \/ Current.arrivalLeft = 0)

\* The square the move enters now: a knight inspects only its landing square.
Target == IF MoverIsKnight THEN Current.to ELSE Shift(Current.currentPos, Current.step, 1)
TargetPiece == Occupant(board, Target)
TargetIsEnemy == Occupied(board, Target) /\ ColorOf(TargetPiece) # ColorOf(Mover)
FriendlyTarget == Occupied(board, Target) /\ ColorOf(TargetPiece) = ColorOf(Mover)

MovesOn(i, c) == pendingMoves[i].active /\ pendingMoves[i].currentPos = c
TargetInFlight == \E i \in 1 .. Len(pendingMoves) : MovesOn(i, Target)
EndedOn(c) == [Current EXCEPT !.active = FALSE, !.currentPos = c]
Update(pm) == [pendingMoves EXCEPT ![cursor] = pm]

\* recordCapture, as the subscriber GameEngine installs handles it.
\* (mutant: the colour that lost the piece is credited)
CaptureForVictim(color, victim) ==
  /\ score' = [score EXCEPT ![ColorOf(victim)] = @ + PieceValue(TypeOf(victim))]
  /\ IF TypeOf(victim) = "King"
     THEN state' = "Finished" /\ winners' = Append(winners, ColorOf(victim))
     ELSE UNCHANGED <<state, winners>>
Capture(color, victim) ==
  /\ score' = [score EXCEPT ![color] = @ + PieceValue(TypeOf(victim))]
  /\ IF TypeOf(victim) = "King"
     THEN state' = "Finished" /\ winners' = Append(winners, color)
     ELSE UNCHANGED <<state, winners>>

SkipMove ==
  /\ Visiting
  /\ ~Current.active \/ (VisitingPiece /\ ~Lands /\ ~Steps)
  /\ NextMove
  /\ UNCHANGED <<board, arbiterVars, resultVars>>

DropOrphanMove ==
  /\ Visiting /\ Current.active /\ ~Occupied(board, Current.currentPos)
  /\ pendingMoves' = Update(EndedOn(Current.currentPos))
  /\ NextMove
  /\ UNCHANGED <<board, cooldowns, airborneEntries, shortRestEntries, premoves, resultVars>>

\* A friend stands on the target: the mover stops where it is, with no cooldown.
\* (mutant: it is left in Moving)
BlockedKeepsMoving ==
  /\ VisitingPiece /\ (Lands \/ Steps) /\ FriendlyTarget
  /\ pendingMoves' = Update(EndedOn(Current.currentPos))
  /\ NextMove
  /\ UNCHANGED <<board, cooldowns, airborneEntries, shortRestEntries, premoves, resultVars>>
Blocked ==
  /\ VisitingPiece /\ (Lands \/ Steps) /\ FriendlyTarget
  /\ board' = SetState(board, Mover, "Idle")
  /\ pendingMoves' = Update(EndedOn(Current.currentPos))
  /\ NextMove
  /\ UNCHANGED <<cooldowns, airborneEntries, shortRestEntries, premoves, resultVars>>

\* resolveAirborneCounterKill: the airborne target survives, the mover is removed.
\* A stepping move gets here only if no active move stands on the target.
MeetsAirborne ==
  /\ TargetIsEnemy /\ board[TargetPiece].state = "Airborne"
  /\ Steps => ~TargetInFlight

CounterKill ==
  /\ VisitingPiece /\ (Lands \/ Steps) /\ MeetsAirborne
  /\ Capture(ColorOf(TargetPiece), Mover)
  /\ board' = SetState(RemovePiece(board, Current.currentPos), TargetPiece, "ShortRest")
  /\ pendingMoves' = Update(EndedOn(Current.currentPos))
  /\ shortRestEntries' =
       Append(shortRestEntries, [pieceId |-> TargetPiece, left |-> ShortRestMs])
  /\ kingCaptured' = (kingCaptured \/ TypeOf(Mover) = "King")
  /\ IF kingCaptured' THEN ReturnEarly ELSE NextMove
  /\ UNCHANGED <<cooldowns, airborneEntries, premoves>>

\* The mover ends its move on square c: cooldown, then promotion of a pawn.  The
\* cooldown entry names the pawn even when a queen has just replaced it.
ArriveOn(b, p) ==
  /\ cooldowns' = Append(cooldowns, [pieceId |-> p, left |-> CooldownMs])
  /\ board' = IF TypeOf(p) = "Pawn" /\ b[p].pos[1] = PromotionRow[ColorOf(p)]
              THEN PromotePawn(b, p)
              ELSE SetState(b, p, "Cooldown")

\* Capture by a knight landing: the victim's own move, if any, stays active.
\* Capture by a step: a move active on the captured square is stopped.
FirstMoveOn(i, c) == MovesOn(i, c) /\ \A j \in 1 .. i - 1 : ~MovesOn(j, c)
\* (mutant: the victim's move is never stopped)
AfterCaptureKeepsOther == Update(EndedOn(Target))
AfterCapture ==
  [i \in 1 .. Len(pendingMoves) |->
     IF i = cursor THEN EndedOn(Target)
     ELSE IF Steps /\ FirstMoveOn(i, Target)
     THEN [pendingMoves[i] EXCEPT !.active = FALSE]
     ELSE pendingMoves[i]]

CaptureTarget ==
  /\ VisitingPiece /\ (Lands \/ Steps) /\ TargetIsEnemy /\ ~MeetsAirborne
  /\ Capture(ColorOf(Mover), TargetPiece)
  /\ pendingMoves' = AfterCapture
  /\ LET b == MovePiece(RemovePiece(board, Target), Current.currentPos, Target)
     IN  IF TypeOf(TargetPiece) = "King"
         THEN /\ kingCaptured' = TRUE
              /\ board' = b
              /\ ReturnEarly
              /\ UNCHANGED cooldowns
         ELSE /\ ArriveOn(b, Mover)
              /\ NextMove
              /\ UNCHANGED kingCaptured
  /\ UNCHANGED <<airborneEntries, shortRestEntries, premoves>>

Enters == VisitingPiece /\ (Lands \/ Steps) /\ ~Occupied(board, Target)
MoveEnds == Lands \/ Target = Current.to \/ Current.arrivalLeft <= 0

Arrive ==
  /\ Enters /\ MoveEnds
  /\ pendingMoves' = Update(EndedOn(Target))
  /\ ArriveOn(MovePiece(board, Current.currentPos, Target), Mover)
  /\ NextMove
  /\ UNCHANGED <<airborneEntries, shortRestEntries, premoves, resultVars>>

Advance ==
  /\ Enters /\ ~MoveEnds
  /\ pendingMoves' = Update([Current EXCEPT !.currentPos = Target,
                                            !.stepLeft = @ + MsPerCell])
  /\ board' = MovePiece(board, Current.currentPos, Target)
  /\ NextMove
  /\ UNCHANGED <<cooldowns, airborneEntries, shortRestEntries, premoves, resultVars>>

EndMoves ==
  /\ phase = "moves" /\ cursor > Len(pendingMoves)
  /\ phase' = "timers" /\ cursor' = 1
  /\ UNCHANGED <<board, arbiterVars, resultVars>>

-----------------------------------------------------------------------------
(* advanceTime: what is due this millisecond *)

AllActive == \A i \in 1 .. Len(pendingMoves) : pendingMoves[i].active

EraseMove ==
  /\ phase = "timers"
  /\ \E i \in 1 .. Len(pendingMoves) :
       /\ ~pendingMoves[i].active
       /\ \A j \in 1 .. i - 1 : pendingMoves[j].active
       /\ pendingMoves' = Without(pendingMoves, i)
  /\ UNCHANGED <<board, cooldowns, airborneEntries, shortRestEntries, premoves,
                 resultVars, phase, cursor>>

\* resolveRestExpirations for one due entry: the piece becomes Idle again and
\* its premove, if it has one, is spent: started when still legal, else dropped.
Spent(p) == [q \in DOMAIN premoves \ {p} |-> premoves[q]]

EndRest(p, resting) ==
  IF p \in DOMAIN board /\ board[p].state = resting
  THEN LET idle  == SetState(board, p, "Idle")
           from  == board[p].pos
           fires == p \in DOMAIN premoves /\ ValidateMove(idle, from, premoves[p])
       IN  /\ premoves' = Spent(p)
           /\ board' = IF fires THEN SetState(idle, p, "Moving") ELSE idle
           /\ pendingMoves' = IF fires
                              THEN Append(pendingMoves, NewMove(p, from, premoves[p]))
                              ELSE pendingMoves
  ELSE UNCHANGED <<board, premoves, pendingMoves>>

ExpireCooldown ==
  /\ phase = "timers" /\ AllActive
  /\ \E i \in 1 .. Len(cooldowns) :
       /\ FirstDue(i, cooldowns)
       /\ cooldowns' = Without(cooldowns, i)
       /\ EndRest(cooldowns[i].pieceId, "Cooldown")
  /\ UNCHANGED <<airborneEntries, shortRestEntries, resultVars, phase, cursor>>

\* resolveAirborneExpirations for one due entry.
LandJump ==
  /\ phase = "timers" /\ AllActive /\ NothingDue(cooldowns)
  /\ \E i \in 1 .. Len(airborneEntries) :
       LET p == airborneEntries[i].pieceId
       IN  /\ FirstDue(i, airborneEntries)
           /\ airborneEntries' = Without(airborneEntries, i)
           /\ IF p \in DOMAIN board /\ board[p].state = "Airborne"
              THEN /\ board' = SetState(board, p, "ShortRest")
                   /\ shortRestEntries' =
                        Append(shortRestEntries, [pieceId |-> p, left |-> ShortRestMs])
              ELSE UNCHANGED <<board, shortRestEntries>>
  /\ UNCHANGED <<pendingMoves, cooldowns, premoves, resultVars, phase, cursor>>

ExpireShortRest ==
  /\ phase = "timers" /\ AllActive /\ NothingDue(cooldowns) /\ NothingDue(airborneEntries)
  /\ \E i \in 1 .. Len(shortRestEntries) :
       /\ FirstDue(i, shortRestEntries)
       /\ shortRestEntries' = Without(shortRestEntries, i)
       /\ EndRest(shortRestEntries[i].pieceId, "ShortRest")
  /\ UNCHANGED <<cooldowns, airborneEntries, resultVars, phase, cursor>>

EndTick ==
  /\ phase = "timers" /\ AllActive /\ NothingDue(cooldowns)
  /\ NothingDue(airborneEntries) /\ NothingDue(shortRestEntries)
  /\ phase' = "idle" /\ cursor' = 1
  /\ UNCHANGED <<board, arbiterVars, resultVars>>

-----------------------------------------------------------------------------
Requests ==
  \/ Start
  \/ Stop
  \/ \E from \in Cells, to \in PremoveTargets : QueuePremove(from, to)
  \/ \E from, to \in Cells : RequestMove(from, to)
  \/ \E cell \in Cells : TryJump(cell)

ResolveMove ==
  \/ SkipMove
  \/ DropOrphanMove
  \/ Blocked
  \/ CounterKill
  \/ CaptureTarget
  \/ Arrive
  \/ Advance
  \/ EndMoves

ResolveTimers ==
  \/ EraseMove
  \/ ExpireCooldown
  \/ LandJump
  \/ ExpireShortRest
  \/ EndTick

AdvanceTime == Tick \/ ResolveMove \/ ResolveTimers

\* wait() on a finished game does nothing.
WaitNoOp == phase = "idle" /\ state = "Finished" /\ UNCHANGED vars

Next == Requests \/ AdvanceTime \/ WaitNoOp

Spec == Init /\ [][Next]_vars

\* The server's tick thread calls wait() for ever; requests come as they may.
FairSpec == Spec /\ WF_vars(AdvanceTime)
-----------------------------------------------------------------------------
(* Properties *)

TypeOK ==
  /\ BoardOK(board)
  /\ pendingMoves \in Seq(Move)
  /\ cooldowns \in Seq(TimerEntry)
  /\ airborneEntries \in Seq(TimerEntry)
  /\ shortRestEntries \in Seq(TimerEntry)
  /\ DOMAIN premoves \subseteq PieceIds
  /\ premoves \in [DOMAIN premoves -> Positions]
  /\ kingCaptured \in BOOLEAN
  /\ state \in GameStates
  /\ score \in [Colors -> Nat]
  /\ winners \in Seq(Colors)
  /\ phase \in Phases
  /\ cursor \in Nat \ {0}

\* Two pieces never share a square, whatever moves cross on it and whoever is
\* promoted there: Board::pieceAt, which finds one piece, misses nobody.
OnePiecePerSquare ==
  \A p, q \in DOMAIN board : board[p].pos = board[q].pos => p = q

\* A piece that rests or is in the air has a timer still to come that will end
\* that state: since times are compared with ==, a piece without one is frozen.
HasEntry(entries, p) ==
  \E i \in 1 .. Len(entries) : entries[i].pieceId = p /\ entries[i].left >= 0
RestHasTimer ==
  ~kingCaptured => \A p \in DOMAIN board :
    /\ board[p].state = "Cooldown" => HasEntry(cooldowns, p)
    /\ board[p].state = "Airborne" => HasEntry(airborneEntries, p)
    /\ board[p].state = "ShortRest" => HasEntry(shortRestEntries, p)

\* A Moving piece is carried by an active move that stands on its square and has
\* its arrival still to come, so it cannot hang in Moving.
MovingHasPending ==
  ~kingCaptured => \A p \in DOMAIN board :
    board[p].state = "Moving" =>
      \E i \in 1 .. Len(pendingMoves) :
        MovesOn(i, board[p].pos) /\ pendingMoves[i].arrivalLeft >= 0

\* The game is Finished exactly when a king is gone, GameEnded has been published
\* once for it, and it named the colour that still has its king.
Kings == {p \in 1 .. NumPieces : TypeOf(p) = "King"}
GameOver ==
  /\ kingCaptured = (\E k \in Kings : k \notin DOMAIN board)
  /\ (state = "Finished") = kingCaptured
  /\ Len(winners) = IF kingCaptured THEN 1 ELSE 0
  /\ \A i \in 1 .. Len(winners), k \in Kings :
       ColorOf(k) = winners[i] => k \in DOMAIN board

\* Nothing on the board changes once the game is Finished.
FinishedIsFinal == [][state = "Finished" => UNCHANGED <<board, score, winners>>]_vars

\* Every piece that leaves the board is credited, once, to the other colour; a
\* pawn that becomes a queen is not a capture.
Left(c) == {p \in DOMAIN board \ DOMAIN board' :
              ColorOf(p) = Opponent(c) /\ QueenOf(p) \notin DOMAIN board'}
Ledger ==
  [][\A c \in Colors :
       \/ Left(c) = {} /\ score'[c] = score[c]
       \/ \E p \in Left(c) :
            Left(c) = {p} /\ score'[c] = score[c] + PieceValue(TypeOf(p))]_vars

-----------------------------------------------------------------------------
(* What holds on boards without knights: see "Knights" in the README.       *)

\* An active move belongs to the piece it was started for: that piece stands on
\* currentPos and is Moving, and no other active move carries it.
PendingOwned ==
  ~kingCaptured => \A i \in 1 .. Len(pendingMoves) : pendingMoves[i].active =>
    LET pm == pendingMoves[i]
    IN  /\ pm.pieceId \in DOMAIN board
        /\ board[pm.pieceId] = [pos |-> pm.currentPos, state |-> "Moving"]
        /\ \A j \in 1 .. Len(pendingMoves) : MovesOn(j, pm.currentPos) => j = i

\* Nothing is left over from an earlier rest, jump or premove that could cut short or
\* follow a later one: a piece has at most one entry of the kind its state waits for,
\* an idle or moving piece has none, and a queued premove is of a resting piece.
Entries(entries, p) == {i \in 1 .. Len(entries) : entries[i].pieceId = p}
NothingLeftOver ==
  ~kingCaptured => \A p \in DOMAIN board :
    /\ Entries(cooldowns, p) # {} =>
         board[p].state = "Cooldown" /\ \E i \in 1 .. Len(cooldowns) : Entries(cooldowns, p) = {i}
    /\ board[p].state = "Airborne" =>
         \E i \in 1 .. Len(airborneEntries) : Entries(airborneEntries, p) = {i}
    /\ board[p].state \in {"Idle", "Moving"} =>
         Entries(airborneEntries, p) \cup Entries(shortRestEntries, p) = {}
    /\ p \in DOMAIN premoves => board[p].state \in {"Cooldown", "ShortRest"}

\* Only a Moving piece changes its square.
OnlyMoversMove ==
  [][\A p \in DOMAIN board \cap DOMAIN board' :
       board'[p].pos # board[p].pos => board[p].state = "Moving"]_vars

\* PendingMove::active is "false once the move has ended (arrival, capture, or
\* block)": between ticks no active move is left of a piece that was captured.
\* It fails with knights.
NoMoveOutlivesItsPiece ==
  phase = "idle" /\ ~kingCaptured =>
    \A i \in 1 .. Len(pendingMoves) :
      pendingMoves[i].active => pendingMoves[i].pieceId \in DOMAIN board

-----------------------------------------------------------------------------
(* Liveness *)

\* As long as the game runs, every rest and every jump ends, or the piece is taken.
RestEnds ==
  \A p \in PieceIds :
    []<>(p \notin DOMAIN board \/ board[p].state \in {"Idle", "Moving"} \/ state # "Running")

\* As long as the game runs, every flight ends.
FlightEnds ==
  \A p \in PieceIds :
    []<>(p \notin DOMAIN board \/ board[p].state # "Moving" \/ state # "Running")

\* Times are compared with ==, and still nothing hangs: no piece rests, jumps or
\* flies for ever while the clock runs (advanceTime resolves every millisecond).
NothingHangs == RestEnds /\ FlightEnds
-----------------------------------------------------------------------------
(* Refinement *)

\* The engine implements the life of a match: a piece is alive while it, or the
\* queen it was promoted to, is on the board.
Lifecycle == INSTANCE GameLifecycle WITH
  Pieces <- 1 .. NumPieces,
  KingColor <- [k \in Kings |-> ColorOf(k)],
  alive <- {p \in 1 .. NumPieces : {p, QueenOf(p)} \cap DOMAIN board # {}}

LifecycleSpec == Lifecycle!Spec
=============================================================================
