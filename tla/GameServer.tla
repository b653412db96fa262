----------------------------- MODULE GameServer -----------------------------
(***************************************************************************)
(* One game server (shard): GameServer.cpp over RoomManager.cpp, Room.cpp   *)
(* and ConnectionSessions.cpp, with applyMatchResult of MatchResult.cpp.    *)
(*                                                                         *)
(* Every handler of a connection runs under registryMutex_ from beginning   *)
(* to end, and takes a room's lock inside it, so each is one action.  The   *)
(* tick thread takes registryMutex_ only to reap the waiters and to list    *)
(* the rooms (StartTick), then advances one room after the other, each      *)
(* under that room's lock (the actions on a room of sweep): handlers run in *)
(* between.                                                                *)
(*                                                                         *)
(* Of a room's engine all that matters here is its GameState and which     *)
(* kings are left: what GameLifecycle says of it, except that the server    *)
(* may start() and stop() an engine that is Finished.  Clicks change only   *)
(* the engine.  Deadlines are counted in ticks still to come.               *)
(***************************************************************************)
EXTENDS Integers, Sequences, FiniteSets

CONSTANTS
  Users,          \* usernames
  InRange,        \* the pairs of users whose ratings are within kEloMatchRangeElo
  NumConns,       \* bound: connections ever opened; a client that returns has a new one
  TypedKeys,      \* room names that clients type into JOIN
  GraceTicks,     \* kForfeitGraceMs, in ticks
  SearchTicks,    \* kQuickMatchTimeout, in ticks
  Repeats,        \* do clients JOIN again while they wait for an opponent?
  Reuse           \* do clients get into rooms whose match is over?

Colors == {"White", "Black"}
Opponent(c) == IF c = "White" THEN "Black" ELSE "White"
Connections == 1 .. NumConns
Keys == {"named", "quick"} \X Nat
NoSession == "none"
Pending == "pending"
NoForfeit == "none"

ASSUME ServerAssumption ==
  /\ Users \cap {NoSession, Pending} = {}
  /\ InRange \subseteq Users \X Users
  /\ NumConns \in Nat /\ TypedKeys \subseteq Keys
  /\ GraceTicks \in Nat \ {0} /\ SearchTicks \in Nat
  /\ Repeats \in BOOLEAN /\ Reuse \in BOOLEAN

VARIABLES
  session,     \* ConnectionSessions: none, pending, or the user who logged in
  routed,      \* connectionRoom_: partial function from connections to keys
  waiting,     \* quickMatchWaiting_
  rooms,       \* rooms_: partial function from keys to Room records
  results,     \* every result recorded: the match's room, its winner and its loser
  nextConn, nextNamed, nextQuick,   \* id counters
  sweep        \* the rooms the current tick has still to advance

registry == <<session, routed, waiting, nextConn, nextNamed, nextQuick>>
vars == <<registry, rooms, results, sweep>>

Seat == [user : Users, color : Colors]
GameStates == {"NotStarted", "Running", "Paused", "Finished"}
Waiter == [conn : Connections, user : Users, left : Nat]
Result == [room : Keys, winner : Users, loser : Users]

EmptySeats == [c \in {} |-> [user |-> CHOOSE u \in Users : TRUE, color |-> "White"]]
NewRoom == [seats |-> EmptySeats, spectators |-> {}, forfeit |-> NoForfeit, left |-> 0,
            game |-> "NotStarted", kings |-> Colors]

Without(f, c) == [d \in DOMAIN f \ {c} |-> f[d]]
Put(f, c, x) == [d \in DOMAIN f \cup {c} |-> IF d = c THEN x ELSE f[d]]

\* The elements of a sequence at the indices in I, in their order.
Kept(seq, I) ==
  [n \in 1 .. Cardinality(I) |-> seq[CHOOSE i \in I : Cardinality({j \in I : j <= i}) = n]]

\* getOrCreateRoom
RoomOf(key) == IF key \in DOMAIN rooms THEN rooms[key] ELSE NewRoom

Connected(c) == session[c] # NoSession
LoggedIn(c) == session[c] \in Users
\* isConnectionRouted and roomForConnection
IsRouted(c) == c \in DOMAIN routed
IsWaiting(c) == \E i \in 1 .. Len(waiting) : waiting[i].conn = c

Init ==
  /\ session = [c \in Connections |-> NoSession]
  /\ routed = [c \in {} |-> <<"named", 0>>]
  /\ waiting = <<>>
  /\ rooms = [k \in {} |-> NewRoom]
  /\ results = <<>>
  /\ nextConn = 1 /\ nextNamed = 0 /\ nextQuick = 0
  /\ sweep = {}

-----------------------------------------------------------------------------
(* Connections and sessions *)

Connect ==
  /\ nextConn \in Connections
  /\ session' = [session EXCEPT ![nextConn] = Pending]
  /\ nextConn' = nextConn + 1
  /\ UNCHANGED <<routed, waiting, rooms, results, nextNamed, nextQuick, sweep>>

\* A LOGIN that is refused leaves the connection pending.
Login(c, u) ==
  /\ session[c] = Pending
  /\ session' = [session EXCEPT ![c] = u]
  /\ UNCHANGED <<routed, waiting, rooms, results, nextConn, nextNamed, nextQuick, sweep>>

\* A player who drops out of a running game keeps the seat and starts the forfeit
\* countdown, whether or not one is running already.
StartForfeit(room, c) ==
  [room EXCEPT !.forfeit = room.seats[c].color, !.left = GraceTicks]
\* (mutant: the seat is given up in any case)
LeaveForGood(room, c) ==
  [room EXCEPT !.seats = Without(@, c), !.spectators = @ \ {c}]
LeaveRoom(room, c) ==
  IF c \in DOMAIN room.seats /\ room.game = "Running"
  THEN StartForfeit(room, c)
  ELSE [room EXCEPT !.seats = Without(@, c), !.spectators = @ \ {c}]

RemoveWaiter(c) ==
  waiting' = Kept(waiting, {i \in 1 .. Len(waiting) : waiting[i].conn # c})

\* (mutant: the queue keeps the connection)
DisconnectKeepsWaiter(c) ==
  /\ Connected(c)
  /\ rooms' = IF IsRouted(c)
              THEN [rooms EXCEPT ![routed[c]] = LeaveRoom(@, c)]
              ELSE rooms
  /\ routed' = Without(routed, c)
  /\ session' = [session EXCEPT ![c] = NoSession]
  /\ UNCHANGED <<waiting, results, nextConn, nextNamed, nextQuick, sweep>>
Disconnect(c) ==
  /\ Connected(c)
  /\ RemoveWaiter(c)
  /\ rooms' = IF IsRouted(c)
              THEN [rooms EXCEPT ![routed[c]] = LeaveRoom(@, c)]
              ELSE rooms
  /\ routed' = Without(routed, c)
  /\ session' = [session EXCEPT ![c] = NoSession]
  /\ UNCHANGED <<results, nextConn, nextNamed, nextQuick, sweep>>

-----------------------------------------------------------------------------
(* JOIN: handled for a connection that is logged in and not routed. *)

Joins(c) ==
  /\ LoggedIn(c) /\ ~IsRouted(c)
  /\ IsWaiting(c) => Repeats

\* The seats that user u left and whose forfeit is pending.
Reclaimable(u) ==
  {s \in (DOMAIN rooms) \X Connections :
     /\ s[2] \in DOMAIN rooms[s[1]].seats
     /\ rooms[s[1]].seats[s[2]] = [user |-> u, color |-> rooms[s[1]].forfeit]}

\* tryReconnect: whatever room the JOIN names.
\* (mutant: the countdown goes on)
ReseatOnly(room, d, c) ==
  [room EXCEPT !.seats = Put(Without(@, d), c, room.seats[d])]
Reseat(room, d, c) ==
  [room EXCEPT !.seats = Put(Without(@, d), c, room.seats[d]), !.forfeit = NoForfeit, !.left = 0]
Reconnect(c) ==
  /\ Joins(c)
  /\ \E s \in Reclaimable(session[c]) :
       /\ rooms' = [rooms EXCEPT ![s[1]] = Reseat(@, s[2], c)]
       /\ routed' = Put(routed, c, s[1])
  /\ UNCHANGED <<session, waiting, results, nextConn, nextNamed, nextQuick, sweep>>

\* The first waiter whose rating is in range.
Matches(i, u) ==
  /\ <<waiting[i].user, u>> \in InRange
  /\ \A j \in 1 .. i - 1 : <<waiting[j].user, u>> \notin InRange
\* (mutant: the waiter stays in the queue)
DequeueNobody(i) == waiting
Dequeue(i) == [j \in 1 .. Len(waiting) - 1 |-> IF j < i THEN waiting[j] ELSE waiting[j + 1]]

\* The waiter is seated as White, then the newcomer as Black.
QuickMatch(c) ==
  /\ Joins(c) /\ Reclaimable(session[c]) = {}
  /\ \E i \in 1 .. Len(waiting) :
       LET key  == <<"quick", nextQuick>>
           w    == waiting[i]
           room == RoomOf(key)
           seats == Put(Put(room.seats, w.conn, [user |-> w.user, color |-> "White"]),
                        c, [user |-> session[c], color |-> "Black"])
       IN  /\ Matches(i, session[c])
           /\ waiting' = Dequeue(i)
           /\ rooms' = Put(rooms, key, [room EXCEPT !.seats = seats, !.game = "Running"])
           /\ routed' = Put(Put(routed, w.conn, key), c, key)
  /\ nextQuick' = nextQuick + 1
  /\ UNCHANGED <<session, results, nextConn, nextNamed, sweep>>

AddWaiter(c) ==
  waiting' = Append(waiting, [conn |-> c, user |-> session[c], left |-> SearchTicks])

Wait(c) ==
  /\ Joins(c) /\ Reclaimable(session[c]) = {}
  /\ \A i \in 1 .. Len(waiting) : ~Matches(i, session[c])
  /\ AddWaiter(c)
  /\ UNCHANGED <<session, routed, rooms, results, nextConn, nextNamed, nextQuick, sweep>>

\* handleRoomJoin: a seat if one is free, and the second seat starts the game.
Seated(room, c, u) ==
  LET color == IF room.seats = EmptySeats THEN "White" ELSE "Black"
      seats == Put(room.seats, c, [user |-> u, color |-> color])
  IN  [room EXCEPT !.seats = seats,
                   !.game = IF Cardinality(DOMAIN seats) = 2 THEN "Running" ELSE @]
Enter(room, c, u) ==
  IF Cardinality(DOMAIN room.seats) < 2
  THEN Seated(room, c, u)
  ELSE [room EXCEPT !.spectators = @ \cup {c}]

EnterRoom(c, key) ==
  /\ Joins(c) /\ Reclaimable(session[c]) = {}
  /\ rooms' = Put(rooms, key, Enter(RoomOf(key), c, session[c]))
  /\ routed' = Put(routed, c, key)
  /\ UNCHANGED <<session, waiting, results, nextConn, nextQuick, sweep>>

IsOver(room) == room.game \in {"Paused", "Finished"}

JoinRoom(c, key) ==
  /\ IsOver(RoomOf(key)) => Reuse
  /\ EnterRoom(c, key)
  /\ UNCHANGED nextNamed

CreateRoom(c) ==
  /\ IsOver(RoomOf(<<"named", nextNamed>>)) => Reuse
  /\ EnterRoom(c, <<"named", nextNamed>>)
  /\ nextNamed' = nextNamed + 1

-----------------------------------------------------------------------------
(* The tick thread *)

\* reapExpiredWaiters, and the snapshot of the rooms.
\* (mutant: nobody is reaped)
ReapNobody == waiting
Reap == LET waits == Kept(waiting, {i \in 1 .. Len(waiting) : waiting[i].left > 0})
        IN  [i \in 1 .. Len(waits) |-> [waits[i] EXCEPT !.left = @ - 1]]
StartTick ==
  /\ sweep = {}
  /\ waiting' = Reap
  /\ sweep' = DOMAIN rooms
  /\ UNCHANGED <<session, routed, rooms, results, nextConn, nextNamed, nextQuick>>

\* applyMatchResult: nothing is recorded unless both colours have a player.  When two
\* seats have one colour, either may be taken for its player: seats are not ordered.
PlayersOf(seats, color) ==
  {u \in Users : \E d \in DOMAIN seats : seats[d] = [user |-> u, color |-> color]}
Record(key, seats, winner) ==
  IF \A color \in Colors : PlayersOf(seats, color) # {}
  THEN \E w \in PlayersOf(seats, winner), l \in PlayersOf(seats, Opponent(winner)) :
         results' = Append(results, [room |-> key, winner |-> w, loser |-> l])
  ELSE UNCHANGED results

Swept(key) == key \in sweep /\ sweep' = sweep \ {key} /\ UNCHANGED registry

\* (mutant: only a deadline that was missed is due)
ForfeitNeverDue(room) == room.forfeit # NoForfeit /\ room.left < 0
ForfeitDue(room) == room.forfeit # NoForfeit /\ room.left = 0

\* advanceRoom with a forfeit that is due: the match is recorded, the players become
\* spectators and the engine is stopped, so that its wait() does nothing.
\* (mutants: the players are dropped; the room is finalized before the result is recorded)
FinalizeDropsPlayers(room) ==
  [room EXCEPT !.seats = EmptySeats, !.forfeit = NoForfeit, !.game = "Paused"]
Finalize(room) ==
  [room EXCEPT !.spectators = @ \cup DOMAIN room.seats,
               !.seats = EmptySeats, !.forfeit = NoForfeit, !.game = "Paused"]
ForfeitRoomFinalizedFirst(key) ==
  /\ Swept(key) /\ ForfeitDue(rooms[key])
  /\ Record(key, EmptySeats, Opponent(rooms[key].forfeit))
  /\ rooms' = [rooms EXCEPT ![key] = Finalize(@)]
ForfeitRoom(key) ==
  /\ Swept(key) /\ ForfeitDue(rooms[key])
  /\ Record(key, rooms[key].seats, Opponent(rooms[key].forfeit))
  /\ rooms' = [rooms EXCEPT ![key] = Finalize(@)]

\* A tick closer to the forfeit, if one is pending.
Closer(room) == [room EXCEPT !.left = IF @ > 0 THEN @ - 1 ELSE @]

\* advanceRoom when wait() takes no king.
AdvanceRoom(key) ==
  /\ Swept(key) /\ ~ForfeitDue(rooms[key])
  /\ rooms' = [rooms EXCEPT ![key] = Closer(@)]
  /\ UNCHANGED results

\* advanceRoom when wait() takes the king of colour k: GameEnded, and with it the result,
\* is published inside wait().
KingTaken(room, k) == [Closer(room) EXCEPT !.game = "Finished", !.kings = @ \ {k}]
TakeKing(key, k) ==
  /\ Swept(key) /\ ~ForfeitDue(rooms[key])
  /\ rooms[key].game = "Running" /\ k \in rooms[key].kings
  /\ Record(key, rooms[key].seats, Opponent(k))
  /\ rooms' = [rooms EXCEPT ![key] = KingTaken(@, k)]

-----------------------------------------------------------------------------
Handlers ==
  \/ Connect
  \/ \E c \in Connections, u \in Users : Login(c, u)
  \/ \E c \in Connections : Disconnect(c)
  \/ \E c \in Connections : Reconnect(c)
  \/ \E c \in Connections : QuickMatch(c)
  \/ \E c \in Connections : Wait(c)
  \/ \E c \in Connections, key \in TypedKeys : JoinRoom(c, key)
  \/ \E c \in Connections : CreateRoom(c)

TickThread ==
  \/ StartTick
  \/ \E key \in DOMAIN rooms : ForfeitRoom(key)
  \/ \E key \in DOMAIN rooms : AdvanceRoom(key)
  \/ \E key \in DOMAIN rooms, k \in Colors : TakeKing(key, k)

Next == Handlers \/ TickThread

Spec == Init /\ [][Next]_vars

\* run() calls tick() for ever; nothing is assumed of the clients.
FairSpec == Spec /\ WF_vars(TickThread)

-----------------------------------------------------------------------------
(* Properties: whatever the clients do *)

Seats == UNION {[D -> Seat] : D \in SUBSET Connections}
Room == [seats : Seats, spectators : SUBSET Connections, forfeit : Colors \cup {NoForfeit},
         left : Nat, game : GameStates, kings : SUBSET Colors]

TypeOK ==
  /\ session \in [Connections -> Users \cup {NoSession, Pending}]
  /\ DOMAIN routed \subseteq Connections
  /\ routed \in [DOMAIN routed -> Keys]
  /\ waiting \in Seq(Waiter)
  /\ DOMAIN rooms \subseteq Keys
  /\ rooms \in [DOMAIN rooms -> Room]
  /\ results \in Seq(Result)
  /\ nextConn \in Nat /\ nextNamed \in Nat /\ nextQuick \in Nat
  /\ sweep \subseteq DOMAIN rooms

\* Every connection the server routes or queues is open and logged in, as the user the
\* queue names, and roomForConnection finds its room: a message never meets a stale entry.
NoStaleEntry ==
  /\ \A c \in DOMAIN routed : LoggedIn(c) /\ routed[c] \in DOMAIN rooms
  /\ \A i \in 1 .. Len(waiting) :
       LoggedIn(waiting[i].conn) /\ session[waiting[i].conn] = waiting[i].user

\* A pending forfeit names a seat that is there and whose player is gone: a player who is
\* back, or never left, does not lose by forfeit.
Absent(room, color) ==
  \E d \in DOMAIN room.seats : room.seats[d].color = color /\ ~Connected(d)
ForfeitOfTheAbsent ==
  \A key \in DOMAIN rooms :
    rooms[key].forfeit # NoForfeit => Absent(rooms[key], rooms[key].forfeit)

\* While a game runs nobody loses a seat or changes colour, through drops and reconnects.
SeatsOf(room) == {room.seats[d] : d \in DOMAIN room.seats}
SeatsKept ==
  [][\A key \in DOMAIN rooms :
       rooms[key].game = "Running" /\ rooms'[key].game = "Running"
         => SeatsOf(rooms[key]) \subseteq SeatsOf(rooms'[key])]_vars

-----------------------------------------------------------------------------
(* Properties of clients that JOIN once at a time *)

\* A connection is routed to the room it sits in or watches, to no other, and only there.
RoutedToItsRoom ==
  \A c \in Connections, key \in DOMAIN rooms :
    Connected(c) =>
      (c \in DOMAIN rooms[key].seats \cup rooms[key].spectators)
        = (c \in DOMAIN routed /\ routed[c] = key)

\* A queued connection sits nowhere: it is matched from the queue or leaves it.
WaitersAreFree == \A i \in 1 .. Len(waiting) : waiting[i].conn \notin DOMAIN routed

\* "A no-op until both players have joined" (advanceRoom): a running game has two seats.
RunningHasTwo ==
  \A key \in DOMAIN rooms :
    rooms[key].game = "Running" => Cardinality(DOMAIN rooms[key].seats) = 2

-----------------------------------------------------------------------------
(* Properties of rooms in which one match is played *)

\* No match that was decided goes unrated.
DecidedIsRated ==
  \A key \in DOMAIN rooms :
    IsOver(rooms[key]) => \E i \in 1 .. Len(results) : results[i].room = key

\* Once a king is taken the game stays Finished.
FinishedIsFinal ==
  [][\A key \in DOMAIN rooms :
       rooms[key].game = "Finished" => rooms'[key].game = "Finished"]_vars

\* A match is rated once.
ResultsOf(key) == SelectSeq(results, LAMBDA r : r.room = key)
RatedOnce == \A key \in DOMAIN rooms : Len(ResultsOf(key)) <= 1

\* A player who drops out of a running game has a forfeit pending, and with it the seat
\* to return to.
AbsenceIsPending ==
  \A key \in DOMAIN rooms, color \in Colors :
    rooms[key].game = "Running" /\ Absent(rooms[key], color) => rooms[key].forfeit = color

-----------------------------------------------------------------------------
(* Refinement *)

\* Each room implements one match: two players of different colours sit down, play in
\* their seats until it is decided, and are not replaced.
Stage(room) ==
  CASE room.game = "NotStarted" -> "open"
    [] room.game = "Running" -> "playing"
    [] OTHER -> "over"
MatchIn(key) == INSTANCE Match WITH
  stage <- Stage(RoomOf(key)), players <- SeatsOf(RoomOf(key))
MatchKeys == TypedKeys \cup ({"quick"} \X (0 .. NumConns))
MatchStep(key) == [MatchIn(key)!Next]_<<Stage(RoomOf(key)), SeatsOf(RoomOf(key))>>
MatchSpec ==
  /\ \A key \in MatchKeys : MatchIn(key)!Init
  /\ [][\A key \in MatchKeys : MatchStep(key)]_vars

-----------------------------------------------------------------------------
(* Liveness *)

\* Whoever waits is matched, or leaves the queue when the search times out.
SearchEnds == \A c \in Connections : IsWaiting(c) ~> ~IsWaiting(c)

\* A pending forfeit is resolved, by a reconnect or by its deadline.
ForfeitEnds ==
  \A key \in TypedKeys :
    (RoomOf(key).forfeit # NoForfeit) ~> (RoomOf(key).forfeit = NoForfeit)
=============================================================================
