# Kung-Fu Chess: specifications, model checks and proofs

Kung-Fu Chess is chess without turns: both players move whenever they like, a
piece travels in real time, rests after it has arrived, and the game ends when a
king is taken. This directory holds TLA+ specifications of the program, the TLC
configurations that check them on small instances, and theorems about them that
TLAPS checks for every instance. Paths below are relative to `src/`.

## 1. Inventory

| Component (sources) | State | Operations | Talks to |
|---|---|---|---|
| Board and pieces (`Logic/src/model`) | pieces with square and `PieceState` | place, remove, move, replace (promotion) | rules, arbiter |
| Move rules (`Logic/src/rules`) | none | `legalDestinations`, `validateMove` | board |
| Real-time arbiter (`Logic/src/realtime`) | pending moves, three lists of timers, premoves, clock, `kingCaptured_` | `startMove`, `setPremove`, `beginAirborne`, `advanceTime` | board, rules, `PieceCaptured` bus |
| Game engine (`Logic/src/engine`) | `GameState`, `GameRecord`, four event buses | `start`, `stop`, `requestMove`, `tryJump`, `wait` | arbiter; subscribers |
| Game record (`Logic/src/history`) | moves and score per colour | `recordMove`, `recordCapture` | engine |
| Controller (`Logic/src/input`) | the selected square | clicks, direct requests | engine |
| Click router (`Server/ClickRouter.cpp`) | none | a player's click, checked against the player's colour | controller |
| Rooms and game server (`Server/RoomManager.cpp`, `Room.cpp`, `GameServer.cpp`, `ConnectionSessions.cpp`) | rooms with seats, spectators and a pending forfeit; routing; waiting list; sessions | connect, LOGIN, JOIN, click, disconnect, tick | engine, accounts, outbox |
| Match results and accounts (`Server/MatchResult.cpp`, `*AccountRepository.cpp`) | ratings and match history in a database | login or register, record a result (Elo) | database |
| Outbox and transport (`Server/Outbox.cpp`, `Network/`) | queue of messages | enqueue, flush | sockets |
| Gateway (`Gateway/`) | per client: phase, shard leg, matchmaker leg, generations | relay, redirect with LOGIN replay, quick match | shards, matchmaker, room registry |
| Matchmaker (`Matchmaker/`) | waiting list in Redis, memberships | WAIT, disconnect, sweep | gateways |
| Text protocol (`Network/Protocol.cpp`, `WebClient/protocol.js`) | none | encode, decode | clients, server |
| Remote proxy (`Client/RemoteGameProxy.cpp`) | role, flags of login and search, warning, queue of events | `join`, `sendClick`, `handleMessage`, `pollEvents` | server, windows |
| Desktop windows (`main.cpp`, `UI/Windows/`) | the open window, the chosen mode | sign in, choose, play, back, close; polling of login and JOIN | proxy |
| Web client (`WebClient/app.js`, `network.js`) | page, buttons, status, pending JOIN, seat, banner | login, messages, leave, pointer, close events | server |
| REST gateway (`ApiGateway/`) | none | register, login, profile, leaderboard | database |
| Drawing, sound, deployment | - | - | not modelled |

What makes the code hard:

* **Real time.** `advanceTime` resolves every flight, rest and jump millisecond by
  millisecond, and compares times with `==`. What a flight meets on its way depends
  on when everybody else started. A `PendingMove` finds its piece by square, not by id.
* **Callbacks.** Score, end of game, broadcasting and rating run inside the capture
  that causes them.
* **Threads.** Callbacks of the transport and the tick thread share rooms under two
  kinds of locks; messages leave through an outbox that is flushed outside them.
* **Protocol.** Disconnects, grace periods, reconnects, repeated JOINs, rooms that
  outlive their match, redirects with timeouts, a waiting list that survives restarts.
* **Clients.** Flags are written on a network thread and polled by windows; a connection comes back by
  itself, a timeout races its answer, a replaced socket still has a close event to deliver.

What makes each component correct:

* *Board, rules*: no two pieces on one square; nothing leaves the board.
* *Arbiter*: each active move carries the piece it was started for; each resting,
  jumping or moving piece has a timer or a move still to come that releases it; no
  timer or premove outlives the rest it belongs to; captures are credited once.
* *Engine*: the game ends exactly once, when a king falls, and nothing happens after.
* *Controller and router*: a player acts on pieces of that player's colour only.
* *Server*: one seat per connection, two colours per match, a seat is kept through a
  disconnect and either resumed or forfeited, a match is rated once.
* *Gateway, matchmaker*: a client is in one room on one shard; a waiter is matched or
  told that there is no opponent, not both; both halves of a match arrive.
* *Accounts*: a name has one owner, a result is recorded whole.
* *Clients*: what the screen says is so at the server, no event is missed or shown out of order, a
  wait ends.

`PROJECT.json` lists the hazards at their lines with the properties that address them.

## 2. Plan

1. `ChessRules`: board and rules as operators. *(done)*
2. `KungFuEngine` with `GameLifecycle` as its abstract specification, `Snapshot`; `MCEngine`;
   `KungFuEngineProofs`, `KungFuFlightProofs`. *(done)*
3. `GameServer` with `Match` as its abstract specification: sessions, rooms, seats,
   forfeits, quick match, results, the engine abstracted to what `GameLifecycle` says. *(done)*
4. `ClickedGame`: `KungFuEngine` composed with the two controllers and the router. *(done)*
5. `Gateway` composed with `Matchmaker`: phases, redirects and their timeout, the
   waiting list that survives a restart. *(done)*
6. `Accounts`: the database under several servers and the REST gateway. *(done)*
7. `ServerThreads`: registry lock, room locks and the outbox at the grain of the threads. *(done)*
8. `WireProtocol`, `ServerLink`, `DesktopClient`, `WebClient` and their composition `Clients`. *(done)*
9. `AccountBook`, the abstract specification of the accounts. *(done)*
10. `GameHistory`: move log and events, premoves included.
11. The shard leg that is lost and reconnects, in `Gateway`.

Theorems: for the engine type correctness, `OnePiecePerSquare`, `MovingHasPending`,
`RestHasTimer`, `GameOver`, `FinishedIsFinal`, `Ledger` and the refinement of `GameLifecycle`
*(done)*; for the server the consistency of routing, seats and forfeits, and the refinement of
`Match` *(done)*; for the threads `NobodyWaitsInACircle`, from the order of the locks *(done)*; for
the accounts `BookIsKept` and `RatingsAreBooked` *(done)*; for boards without knights `PendingOwned`,
`OnlyMoversMove`, `NothingLeftOver` and `SnapshotIsTrue` *(done)*; for matchmaker and gateway `OneAnswer`,
`MatchedMeet`, `JoinFindsLogin`, `SeamlessSession` and `CodeIsRouted` *(done)*; for the clients
`ScreenIsTrue`, `AnswerIsDue` and `EventsInOrder` *(done)*. Items 10 and 11 are left.

## 3. The engine

`ChessRules` translates `Board.cpp`, `PieceRules.cpp` and `RuleEngine.cpp`. A board is
a function from the ids of the pieces on it to square and state. Piece ids are never
reused in the code; piece *p* of the starting position has id *p*, and the queen that
replaces pawn *p* gets the fresh id *p + NumPieces*, so that a timer which still names
the pawn finds nobody, as in the code.

`KungFuEngine` translates `GameEngine.cpp` and `RealTimeArbiter.cpp`:

| Code | Action |
|---|---|
| `start`, `stop` | `Start`, `Stop` |
| `requestMove` | `RequestMove`, `QueuePremove`; a refused request changes nothing |
| `tryJump` | `TryJump` |
| `advanceTime`, `currentTimeMs_++` | `Tick` |
| its loop over `pendingMoves_`, one visit each | `SkipMove`, `DropOrphanMove`, `Blocked`, `CounterKill`, `CaptureTarget`, `Arrive`, `Advance`, `EndMoves` |
| `erase(remove_if ...)`, `resolve...Expirations` | `EraseMove`, `ExpireCooldown`, `LandJump`, `ExpireShortRest`, `EndTick` |
| the early return when a king falls | `ReturnEarly` |

`wait(n)` is *n* rounds of these actions; since no request can arrive inside a call,
letting requests in between any two rounds covers every *n*. The two arrivals of the
code, a knight's and a step, share their actions and differ in what the code
differs in: a knight looks at its landing square only, at its arrival time only, and
does not stop a move of the piece it captures.

Absolute times grow for ever, so times are kept relative to the clock. The code
compares deadlines with `==`; all that can be said of one that has passed is that it was
missed, and `Elapse` says so. No property is lost and the state space is finite.

`GameLifecycle` is what a match promises its subscribers: pieces disappear one at a
time while it runs; losing a king ends it at once and for good, with the other
colour as the only winner announced. `LifecycleSpec` says that the engine implements it.

### Bounds

Positions are small boards with two or three pieces; every request is possible at
every millisecond. Durations are scaled down in the order of the code's (533 ms per
cell, 700 airborne, 750 short rest, 1500 cooldown): `lane` has 2, 3, 3, 4, so that two
flights meet in every phase of each other. `raid` has a cooldown
of 1, shorter than the longest flight, so that a move can outlive its piece and the
rest of the knight that took it. Premoves are requested to a few
squares, illegal ones for some piece among them. `Restartable = FALSE` says that nobody
calls `start()` or `stop()` on a finished game; the server does both, which is its model's matter.

### The picture

`Snapshot` adds `getRenderState`, which the server sends to everybody after each `wait`. It
draws a flight between its two ends by the clock alone, whereas the square on which the piece
can be taken moves on in steps, by another deadline. `SnapshotIsTrue` says that the two stay
less than a cell apart, that everything else is drawn on its square, and that exactly the
resting pieces show a rest. Coordinates are counted in halves of the way of a millisecond,
so that a knight, which stays on its square for the whole flight and is drawn up to two cells
away from it, has whole numbers too; the property is checked on the lane, where there is none.

### Runs

| Run | What it asks |
|---|---|
| `lane` | a king between two rooks on a lane of four: flights that meet, jump, rest and premove, none of them without an end (`NothingHangs`), and a picture that follows them (`SnapshotIsTrue`) |
| `raid` | a knight, and a king, among pieces in flight, and a pawn about to promote: one piece per square, and the game ends once, in spite of the knight's captures |
| `knightbug` | violated: a piece captured by a knight leaves its move active |

### Knights

`resolveKnightArrival` does not deactivate the move of the piece it captures, although
`resolveStepMove` does and `RealTimeArbiter.hpp` says that a move is inactive once it ended by
capture. The orphan move then carries whoever stands on its square: the knight itself,
out of its cooldown. `PendingOwned`, `NothingLeftOver`,
and `OnlyMoversMove` therefore hold on boards without knights
only, where they are checked and, for every such board, proved (section 9). `GameOver` and `FinishedIsFinal` hold in any case, which the
run `raid` checks, and so do `RestHasTimer` and `MovingHasPending`, which are proved (section 9). Why `RestHasTimer` and
`MovingHasPending` survive is not obvious: the orphan move can only end early, never late, and
leaves whom it carries in a state with a timer.

### Fairness

`FairSpec` assumes that time goes on: weak fairness of `AdvanceTime`, which the server's
tick thread gives by calling `wait` for ever. Nothing is assumed of the players.

### Clicks

`ClickedGame` puts the two `Controller`s and the colour check of `ClickRouter` on top of the engine. A
click is one action (it holds the room's lock, as all of `wait` does) and makes at most
one request of the engine. The router looks at the colour when a square is selected and
not again. The run `foreignclick` shows what can happen in between: the selected piece is taken, the
capturing piece now stands on the selected square, and the next click commands the
enemy's piece. `selected` is the state the engine does not know about; the actions that leave
it alone are the engine's own.

## 4. The server

`GameServer` translates `GameServer.cpp`, `RoomManager.cpp`, `Room.cpp`, `ConnectionSessions.cpp` and
the part of `MatchResult.cpp` that decides who is rated.

| Code | Action |
|---|---|
| `handleConnect`, `handleLogin` | `Connect`, `Login`; a refused LOGIN changes nothing |
| `handleDisconnect` | `Disconnect` |
| `tryReconnect`, whatever the JOIN asks for | `Reconnect` |
| `handleQuickMatch` | `QuickMatch`, `Wait` |
| `handleRoomJoin` | `JoinRoom`, `CreateRoom` |
| `tick` up to the snapshot of the rooms | `StartTick` |
| `advanceRoom`, one room of the snapshot | `ForfeitRoom`, `AdvanceRoom`, `TakeKing` |

A handler of a connection holds the registry lock from beginning to end and a room's lock
inside it, so it is one action. A click gives up the registry lock first, but
changes only the engine. The tick thread takes the locks one after the other: `sweep` is what is
left of its snapshot, and handlers run between its steps. Of the engine, a room keeps
the `GameState` and the kings; `TakeKing` stands for a tick in which a king falls, and the
result is recorded inside it because `GameEnded` is published inside `wait`.

`Match` is what a room promises: two players of different colours sit down, the same two
play, drops and reconnects notwithstanding, until the match is decided. `MatchSpec` says
that every room implements it, *if* clients JOIN once at a time and leave rooms alone
whose match is over. The constants `Repeats` and `Reuse` say whether they do; nothing in the
server enforces it.

| Run | What it asks |
|---|---|
| `any` | anything the clients can do: no stale entry, no forfeit of a player who is there, seats kept |
| `fair` | clients that JOIN once: routing, `Match`, every decided match rated; searches and grace periods end |
| `ratedtwice` | violated: a king falls in a grace period, and the match is rated again when it expires |

*Bounds.* Three connections of two users: two play and one reconnects, or watches, or
is the same user twice. Deadlines of one tick put every action on both sides
of every deadline. In `any` the two users' ratings are too far apart (`InRange` is
the parameter), so both can wait at once and a player meets only its own other connection; in
the other runs they are matched. One typed room name, besides the rooms made by CreateRoom and quick match.

*What does not hold.* With the constants of `MCGameServer_any.cfg` (and four connections for the first):

* `FinishedIsFinal` (`Reuse`): the second join starts the game whatever its state
  (`GameServer.cpp:258-261`), so when a seat of a finished match is taken again the finished
  game runs again, on the old board.
* `RunningHasTwo` (`Repeats`): a connection that waits for a quick match is not routed, so its
  next JOIN is handled as well, and two searches match it with itself (`GameServer.cpp:84-88`).
* `AbsenceIsPending`: the second drop overwrites the forfeit of the first (`RoomManager.cpp:117`),
  whose player can then neither return nor be forfeited.

With `Reuse`, moreover, once White has left a finished room
the next player is seated as a second Black; and CreateRoom hands out
a room that exists if a client has typed its number before (`RoomManager.cpp:24`).
`TypeOK` holds in `any`; it is not among what the run is there to show.

*Fairness.* `run()` calls `tick()` for ever: weak fairness of the tick thread, nothing of
the clients. A tick whose room is locked waits for a handler, which always ends.

## 5. The threads of the server

`GameServer` takes a handler for one action. `ServerThreads` asks whether that is so: it has
the threads of the transport, one per connection, and the tick thread, and each of them takes the
locks of `GameServer.cpp` and `Room.hpp` one step at a time. What a handler decides is
reduced to who is told and who is routed where, with a choice where the decision is `GameServer`'s.

| Code | Action |
|---|---|
| the callbacks Open, Message and Close of `WsServerTransport::start` | `Open`, `Receive`, `Lost` |
| `handleMessage` up to the release of the registry lock | `LockRegistry`, then `Login`, `Join`, `LookUp` or `Ignore` |
| `tryReconnect`, one room after the other | `LockRoom`, `NothingToReclaim`, `Reclaim` |
| `handleQuickMatch`, `handleRoomJoin` | `Wait`, `QuickMatch`, `JoinRoom`; then `LockRoom`, `Enter` |
| the click, under the room's lock alone | `LockRoom`, `Click` |
| `handleDisconnect` | `LockRegistry`, `Disconnect`, `LockRoom`, `LeaveRoom`, `Forgotten` |
| `tick` | `StartTick`, `Snapshot`, `LockRoom`, `AdvanceRoom` |
| `Outbox::flush` and `WsServerTransport::send` | `Flush`, `Send`, `SendCloses` |

The comment above `WsServerTransport::send` says what makes this hard: a write to a peer that has gone runs
the Close callback on the thread that writes. So `handleDisconnect` of one connection runs in
the middle of a flush of another, or of the tick, and flushes in its turn; each thread is a stack of calls,
and `SendCloses` pushes one. The mutexes of the outbox and of the transport are held
for one step in which no other is wanted, so `Enqueue`, `Flush` and the lookup of `send` are atomic.

The run `threads` shows that no circle of waiting threads arises (`NobodyWaitsInACircle`: nothing is sent under a
lock, and registry comes before room), that a connection whose Close callback has
ended leaves nothing behind although its own thread may still handle a message (`ClosedIsForgotten`), and that
a message of the outbox, any one, is with one thread only until it is sent (`InOnePlace`).

*Bounds.* Two connections, the tick thread and one room. Two connections suffice for a thread that
handles a message while the other closes its connection, and for a nested flush. A second room
adds the handlers that go from room to room; that instance was checked as well (3.7 million states,
nothing violated), and is not part of the run. Of the messages one is tracked, chosen at any point.
In what order messages arrive is not asked: two threads that flush, or a flush inside a flush, may send
a later message first, and nothing in the code prevents it. How long the socket a pointer
was copied of lives is up to the library, whose source is not in the repository.

## 6. Gateway and matchmaker

`Matchmaker` translates `Matchmaker.cpp` and `RedisWaitQueue.cpp`; `Gateway` extends it with
`WsGateway.cpp` and with as much of a shard as answers LOGIN and JOIN.

| Code | Action |
|---|---|
| `handleDownstreamConnect`, `-Message`, `-Disconnect` | `Connect`, `LogIn`, `AskForRoom` and, for a JOIN after the first, `AskAgain`; `Disconnect` |
| `redirectAndJoin`: first section, second section with the swap of the legs, timeout | `Redirect`, `Swap`, `TimerExpires` |
| `failRedirect` | `FailRedirect` |
| `attachUpstreamCallbacks`: Open, its second half, replies, the rest | `OnOpen`, `ReplayLogin`, `OnLoginReply`, `OnRoomReply`, `OnShardNoOpponent`, `Relay`, `EndRelay` |
| `attachMatchmakerCallbacks` | `OnMatchmakerOpen`, `OnMatched`, `OnNoOpponent` with its second half `Resolve`, `LoseMatchmakerLeg` |
| a shard: LOGIN; JOIN of a stranger or of who sits already, of a room, of quick match; its sweep | `ShardLogin`; `JoinIgnored`, `JoinRoom`, `ShardQuickMatch`; `ShardReaps` |
| `onWaitRequest`, `handleDisconnect` of the matchmaker | `OnWaitRequest`, `HandleDisconnect` |
| `sweepLoop`: the list, `waitingListMembers_`, the answers | `Reap`, `Unlist`, `NotifyExpired` |
| a restart of the matchmaker | `Restart`: Redis keeps the list, the process forgets |

A connection is kept alive by the map, by a redirect between its sections, by a callback, by the
thread of a timeout or by one about to fail a redirect; `Referenced` says which, and with the last reference
its legs are destroyed. Any shard may be the first of a client, since `pickShardUrl` goes round with all clients.

*Keys.* A room key is a string. The kinds of keys in the model (a number, a number with a shard's prefix, `quickmatch-k`,
any other name) are the forms a string can have, and equal strings are equal keys, whoever made them up: a client
may type `quickmatch-1` (`RoomNames` may hold it), and a shard that matches by itself counts its rooms `quickmatch-0`,
`quickmatch-1`, ... (`GameServer.cpp:211`) next to the matchmaker's, which start at 1.

*JOINs.* Clients wait for LOGIN_OK before they JOIN, as both clients of the repository do. The page opens a
connection for each JOIN. The desktop client JOINs again on the same connection (`again`): at once after NO_OPPONENT, otherwise
after 15 s without an answer, except that a search has no such timeout (`main.cpp:187-201`). A redirect
is over after 5 s (`kRedirectTimeout`), so none is under way then: a client is redirected once at most, for its first JOIN,
and a callback of an old generation finds nothing to do. A later JOIN is relayed as it is in the phases AwaitingRoomReply and Resolved
(`WsGateway.cpp:295-298`), quick match included, and the shard then searches with a list and a sweep of its own. NO_OPPONENT is
sent (`WsGateway.cpp:553`) before the phase becomes Resolved (`:554-557`); a JOIN that comes in between is dropped.

After a restart
the matchmaker counts connections from the start, so `Open` may give the id of a waiter that is still on the
list. The callbacks of a matchmaker leg run on one thread, and MATCHED redirects the client on that thread, so while
a redirect is between its sections the leg neither answers nor reconnects. That a leg to a shard is lost, and reconnects as a stranger, is not modelled.

| Run | What it asks |
|---|---|
| `cluster` | codes and matches lead to one room on one shard, redirects are invisible, JOIN never overtakes LOGIN, one answer of the matchmaker per search; a redirect is completed or the client let go, a search ends unless its leg was lost |

*Bounds.* Two clients and two shards, so that every room is here or elsewhere; two legs to the matchmaker per client
(one may be lost and replaced), one restart. `MaxAgain = 1`: a client JOINs twice, which is enough for a search on a shard, a second NO_OPPONENT,
a code that is relayed with its prefix and a JOIN that is dropped. `LaterKeys`: the second JOIN asks for quick match or
a code. `Codes` is one code, of a room that exists or not; `RoomNames` is `quickmatch-1`, the name that collides with the matchmaker's first room
and with the second that a shard makes.

*Fairness.* The threads of gateway and matchmaker go on, timeouts expire, and a leg that the gateway opens to the
matchmaker does open: the matchmaker can be reached, and is up again after a restart. Of shards, clients, legs
to shards and of how long the leg to the matchmaker lasts nothing is assumed.

*What is not promised.* `CodeIsRouted` says nothing of names: that a name typed at two shards
at once becomes two rooms is documented (`IRoomRegistry.hpp:23-26`). `MatchedMeet` is about clients that JOINed once.

*What does not hold.*

* `CodeIsAlwaysRouted` (in `cluster`): NO_OPPONENT leaves the connection Resolved (`WsGateway.cpp:552-562`), so its next
  JOIN goes to the shard as it is, with a prefix that the shard does not know. `WsGateway.cpp:372-376` assumes
  that quick match never reaches a shard this way; the desktop client offers it on the same connection.
* `MatchesAlone` (in `cluster`): in a room `quickmatch-k` sits somebody whom the matchmaker did not send there, because it
  typed the name, or was matched by the shard, which made a room of that name. Who comes third is a spectator of
  a match that should have been its own.
* A JOIN that comes between NO_OPPONENT and the end of that callback is dropped (`WsGateway.cpp:285-292`). If it asked for
  quick match the client waits for ever, since a search has no timeout.
* `SearchAlwaysEnds` (in `cluster`): a lost matchmaker leg reconnects by itself (`WsClientTransport.cpp:12`) but
  WAIT is not sent again, and the matchmaker took the waiter off its list with the old connection. The client waits
  for ever, since the search has no timeout of its own (`main.cpp:192`).
* `MatchedMeet` without its `restarts = 0` (needs three clients and a restart): the matchmaker counts connections from 1 again
  while the Redis list still holds waiters under old ids (`RedisWaitQueue.cpp:87-97`), and the MATCHED for an old waiter goes to
  whoever has its id now. That client sits in a match it was not paired for; that the room is on the shard of the match still holds.
  The run has two clients, so it does not get there; the attempt to prove the property did.
* `NeverJoinsItself` (in `cluster` with one leg and no restart): when the client goes while a callback of its
  shard leg runs, the callback holds the last reference; the destructor of the leg then joins the thread it
  runs on. `handleDownstreamDisconnect` (`WsGateway.cpp:493-500`) takes care of its own reference only.

## 7. Accounts

`Accounts` translates `PostgresAccountRepository.cpp` as game servers and the REST gateway use it, each a process of its own.
The mutex of a repository admits one call of its process; the database sees several. It is modelled
as the code uses it, READ COMMITTED with one action per statement:

| Code | Action |
|---|---|
| the SELECT of `login`, `registerAccount`, `loginStrict` | `Login`, `Register`, `LoginStrict` |
| `handleRequest` of the REST gateway: `handleRegister`, `handleLogin` | `HandleRequest`: `HandleRegister`, which refuses an empty password, `HandleLogin`, which does not |
| the INSERT of an account and its commit | `InsertAccount` |
| `recordResult`: two SELECTs, two UPDATEs, INSERT and commit | `RecordResult`, `ReadWinner`, `ReadLoser`, `UpdateWinner`, `UpdateLoser` |
| an exception nobody catches | `Dies`: the process ends and its transaction is undone |

Ratings are relative to 1200. `Gain` stands for the Elo formula: the run takes a table in which an underdog
wins more; what is checked depends only on the same amount being given and taken, and the proofs take any
`Gain` between 0 and K, which is what `lround` of K times one minus an expected score is.

`AccountBook` is what `IAccountRepository.hpp` promises, and what `SqliteAccountRepository.cpp` does as the one process
on its file, except that its table has no counts (`SqliteAccountRepository.cpp:121-126`): each call is one step. A name
belongs to who used it first, nobody is let in with another password, and a row of `matches` is written together with the
counts of wins and losses of both players, which only `PostgresAccountRepository.cpp` keeps. `BookIsKept` says that `Accounts` implements it: the
statements of a call, cut off by a crash, a deadlock or a violated UNIQUE, or interleaved with those of other
processes, look like one call or like none. The book keeps no ratings, because calls that overlap may lose an update of
them: what remains true of ratings is `RatingsAreBooked`.

The run `accounts` shows `BookIsKept`, that a rating is what the matches
say, except for users with two results recorded at the same time, and that a recording ends: two
results that lock the same two rows in opposite order wait for each other until Postgres aborts one.

*Bounds.* Two users, two passwords, one of them empty, two servers and one REST gateway; two matches, for a lost update takes two;
one process killed from outside. *Fairness.* Servers go on, Postgres detects deadlocks, and a row that is freed again and
again goes to each who waits for it.

*What does not hold.* `RatingIsConserved`: `PostgresAccountRepository.cpp:146-148` computes one delta
so that rating is "exactly conserved", but two servers that record results of one user read the same
rating and the second overwrites the first; and who plays itself gets the loser's rating. The comment at
`PostgresAccountRepository.cpp:193-197` calls a violation of UNIQUE unreachable in practice; with several processes it is not, and `login`,
unlike `registerAccount`, does not catch it.

## 8. Clients

`WireProtocol` translates `Protocol.cpp` and its copy `protocol.js`: a text is lines of words, a message a command
with arguments, and what a user typed is an argument that may hold a blank or nothing at all. `ServerLink` is one
client's connection: what is under way in both directions, and what `GameServer.cpp` does with this client, whose
opponents do as they please. `DesktopClient` and `WebClient` translate the two clients, and `Clients` puts either
of them on the link.

| Code | Action |
|---|---|
| `GameServer::handleMessage` | `HandleMessage` with `Login`, `Join` or `Ignore`; `Join` is `Reconnect`, `QuickMatch` or `EnterRoom` |
| what `tick` and the handlers of others send | `SearchTimesOut`, `OpponentComes`, `PlayOn`, `KingFalls`, `OpponentDrops`, `OpponentReturns`, `OpponentForfeits`, `SeatForfeited` |
| `LoginScreen` or, where no window can be made, the console; the wait in `establishConnection`; `LoginResultScreen` | `ShowLogin` with `PressSignIn` (an empty name is a no-op) or `PromptOnConsole` (it cancels); `PollLogin`; `Continue` |
| `RoomChoiceScreen` | `ShowRoomChoice` with `Choose`, `LogOut` |
| `PlayConfirmScreen` with `onPlay` and `pollJoin` | `Back`, `Play`, `SendJoin`, `PollJoin`, `JoinTimesOut` |
| `runGameSession` | `Frame`, `Click` |
| a window that is closed | `CancelLogin`, `CancelChoice`, `CancelPlay`, `CloseBoard` |
| the network thread: `onOpen`, `handleMessage`, IXWebSocket's reconnection | `Opens`, `Receive`, `Drop` |
| `startLogin`, its `trySend`, `handleMessage`, Leave, the pointer (`app.js`) | `StartLogin`, `TrySend`, `OnMessage`, `Leave`, `Pointer` |
| the events of a socket (`network.js`) | `SocketOpens`, `SocketFails`, and `StaleClose` of one that was replaced |

`join` resets the role under the mutex and sends after it, so `Play` and `SendJoin` are two steps. `trySend` polls a
status that the close event of the *previous* socket may have set. Names, ratings and the picture of the board are not
kept, for nothing is decided by them. A connection that is replaced is closed before the new one is opened. While the
user's seat is held, the match goes on as it does for the user: the seat is taken back (`Reconnect`) or forfeited
(`SeatForfeited`); that the king falls meanwhile, or the opponent drops too, is `GameServer`'s matter. The
15 s timeout may come at any time. `owed` and `late` are history: the events the user has not seen yet, and whether
the wait was cut off.

| Run | What it asks |
|---|---|
| `clients` | both clients: `WireFaithful`, `ScreenIsTrue`, `EventsInOrder`, `AnswerIsDue`, `WaitEnds` |
| `unresumed` | violated: a desktop client that reconnects by itself forfeits its seat |

*Bounds.* One user, whose name is free or taken with another password, and who may type no name, and a password with a blank or none.
`MaxEvents = 1` move, capture, snapshot or warning besides the messages every match has; `MaxBacklog = 2`: nothing new
happens in the room while two messages or more are on their way (an answer of four is sent whole); `MaxUnanswered = 2`: a JOIN may be sent
behind another one that is not handled; `MaxDrops = 1` lost connection; `MaxStale = 1`: one replaced socket whose close event is to come.
A click waits until nothing else is under way. Each hazard below needs one drop, one old JOIN or one old socket.

*Fairness.* One weak fairness for all that runs by itself (the server's threads, the network thread, the polling
loops and the page's timers): some step of them is taken if one can be. They are threads and timers of which none
waits for another. Nothing is assumed of the user, of the opponents and of the network: a connection may be lost, and
an attempt to open one need neither succeed (`Opens`, `SocketOpens`) nor fail (`SocketFails`).

*What `WaitEnds` says.* A wait ends when the user is asked again or the game is shown; giving up counts as an end, be it the 15 s
timeout or the page's "Could not reach the server.", which the close event of an old socket can bring about
while the new one is about to open (`StaleClose`). The wait for the login ends unless the connection
never opens (`NeverOpens`) or no password was typed; the wait for a JOIN, unless it is for an opponent and the connection was lost; the page's, unless
its socket neither opens nor fails, no password was typed, or the connection was lost after LOGIN had been sent. Each exception
is a wait without an end, below.

*What does not hold*, and what the properties therefore leave out:

* `OnlyTheGoneForfeit`: `onOpen` replays LOGIN after a reconnection and nobody replays JOIN
  (`RemoteGameProxy.cpp:10`), so the server sees a user without a room, and the seat is forfeited when the grace period
  ends; the board shows the last snapshot for ever. `docs/ARCHITECTURE_DIAGRAMS.md:266-272` has the client JOIN.
* A warning that stays: `join` resets the role but not `forfeitWarning_` (`RemoteGameProxy.cpp:17`); when a connection is lost
  with the warning shown, the warning is shown in the next room too.
* Waits without an end: a server that cannot be reached is waited for without a window or a timeout while the
  connection is tried again (`main.cpp:143`); the page polls a socket that neither opens nor fails
  (`app.js:95-104`); a quick match whose connection was lost has no timeout of the client, and Back is disabled
  (`main.cpp:192`); an empty password makes a LOGIN of two words that nobody answers (`LoginScreen.cpp:155`,
  `main.cpp:143`); on the page a connection lost between LOGIN and WELCOME changes the badge and leaves the buttons
  disabled (`app.js:95-104`).

## 9. Proofs

### Engine

These theorems hold for every board size, starting position and durations that meet
`BoardAssumption` and `TimingAssumption`.

| Theorem | States | Also needs |
|---|---|---|
| `TypeCorrect` | `[]TypeOK` | |
| `SquaresAreExclusive` | `[]OnePiecePerSquare` | |
| `FinishedForGood` | `FinishedIsFinal` | |
| `CapturesArePaid` | `Ledger` | |
| `MovingPiecesAreCarried` | `[]MovingHasPending` | |
| `RestingPiecesHaveTimers` | `[]RestHasTimer` | |
| `MovesAreOwned` | `[]PendingOwned` | `NoKnights` |
| `OnlyMoversAreMoved` | `OnlyMoversMove` | `NoKnights` |
| `NothingIsLeftOver` | `[]NothingLeftOver` | `NoKnights` |
| `SnapshotIsFaithful` | `[]SnapshotIsTrue` | `NoKnights` |
| `GameEndsWithTheKing` | `[]GameOver` | `~Restartable` |
| `EngineIsAMatch` | `LifecycleSpec` | `~Restartable` |
| `ClickedGameIsGame` | `ClickSpec => Spec` | `AllPremoves` |
| `ClickedGameIsSafe` | the invariants above of a game played by clicks | both |

`KungFuEngineProofs` has one lemma per operator of the model (what it does to a well-formed
board, or to a sequence of moves or timers) and shows `TypeOK` inductive, one step per action.

The same module shows `OnePiecePerSquare` inductive relative to `TypeOK`: a captured piece is
removed before the mover enters, `movePiece` refuses an occupied square, and a queen replaces its
pawn. Since a square then holds one piece, a capture removes exactly one, and `StepOutcome`
says all there is to know about a step's effect on the pieces: it starts or stops the game, or keeps
the pieces (`Keeps`, perhaps promoting one), or takes one (`Takes`). `GameOver`, `Ledger` and the
refinement of `GameLifecycle` follow from that by cases. They need two more
invariants: `Ongoing` (inside `advanceTime` the game runs, which is why the early return when a king
falls matters) and `QueensReplacePawns` (a queen and its pawn are never both on the board, so that
one capture is one loss).

Its last part splits the two "nothing hangs" invariants in half. `MovingHasPending` is not
inductive: an active move may be due now only if the loop has not visited it in this millisecond,
which is `MovesInTime`; that some active move stands on the square of each Moving piece is
`MovingCarried`. `RestHasTimer` likewise is `TimersInTime` (an entry is due at most while timers
are being resolved) with `RestTimed`. Neither needs that a move still belongs to the piece it was
started for, which fails with knights; this is why these two survive there.

`KungFuFlightProofs` is about starting positions without knights (`NoKnights`), like that of the run `lane`. With knights its four
statements do not hold: a knight lands on a square that another move is passing and takes the piece there, the move stays
active (the run `knightbug`), and its next visit picks up the knight. Everything rests on `Owned`: the piece of an active move is on the board,
Moving, on the square of the move, and no other active move is on that square. It stays true after a king has
fallen and the loop has returned early, so it needs nothing but the squares and `QueensReplacePawns`.

`NothingLeftOver` is not inductive. `TimersClean` keeps, for each piece, one timer of a kind at most, and says which timers a state may
have (`Suits`). A jump that is cut short by a counter-kill leaves its entry in `airborneEntries_` behind
until its time comes (`RealTimeArbiter.cpp:171-183`), and only because 700 <= 750, `AirborneMs <= ShortRestMs` in `TimingAssumption`, has that
entry run out when the short rest ends and the piece can jump again (`EndsFirst`). `QueensAreNew` keeps
timers and premoves of a pawn from reaching the queen that takes its place: none names a queen still to come.

For `SnapshotIsTrue` the proof also needs that a flight is a straight line: an active move has `n` squares to go, `n - 1` of them whole and
the rest of the next in `stepLeft` (`FlightsOnLine`), and a visit of the loop in the millisecond in which the
next square is due enters it. The piece is then drawn `MsPerCell - stepLeft` parts ahead of its square, which is less than a cell. `Owned` is what
makes "the last active move of the id" the only one, and `TimersClean` what makes "the first entry of the piece" the right
one; `RestsAreBounded` says the rest it shows is not longer than its total.

The strengthenings were model-checked on the positions of the runs before they were proved.

### Server

These hold for every number of connections, users, typed room names and deadlines that meet
`ServerAssumption`.

| Theorem | States | Also needs |
|---|---|---|
| `ServerTypes` | `[]TypeOK` | |
| `EntriesAreFresh` | `[]NoStaleEntry` | |
| `OnlyTheAbsentForfeit` | `[]ForfeitOfTheAbsent` | |
| `QueueIsFree` | `[]WaitersAreFree` | `~Repeats` |
| `PlayersKeepSeats` | `SeatsKept` | `~Repeats \/ NoQuickTyped` |
| `RoutesAreTrue` | `[]RoutedToItsRoom` | `OneMatch` |
| `MatchesAreRated` | `[]DecidedIsRated` | `OneMatch` |
| `RoomsImplementMatch` | `MatchSpec` | `OneMatch` |

`OneMatch` is `~Repeats /\ ~Reuse /\ NoQuickTyped`: clients JOIN once at a time, leave rooms alone whose match
is over, and nobody types the name of a quick-match room. The first two are the constants of the run
`fair`. The third is in both runs, whose typed names are those of rooms made by hand, and the proof is what
brought it up: a client that waits for an opponent and then JOINs the room of the next quick match by its
name is matched into the room it sits in, and changes colour.

`GameServerProofs` shows `ServerInv`, whatever the clients do. `NoStaleEntry` needs `TypeOK`, and `TypeOK` needs it (a
route leads to a room that exists). `ForfeitOfTheAbsent` is not inductive: a connection that opens would be
"there" if its id were found in an old seat; `Fresh` and `SeatsSeen` say that ids which are still to come are nowhere.

Its second half adds who is where. `EntryInv`: a seated player that is connected is routed
(`SeatedAreRouted`), nobody is queued twice or queued and routed. `MatchInv` adds `Phases`, what the seats are before, during
and after the match, without which neither the refinement (two players, two colours) nor
`DecidedIsRated` goes through: a result is rated because both players still sit when it is recorded, and they
sit because a drop in a running game keeps the seat for the forfeit. The refinement is proved room by room: each
action makes one step of `Match` in the room it is about (`MatchStep`) and stutters in the others.

### Threads

These hold for every number of connections and rooms that meets `ThreadsAssumption`.

| Theorem | States |
|---|---|
| `LocksFollowCalls` | `[]LocksAreHeld`: a mutex is held by exactly the thread whose innermost call works under it |
| `NoDeadlock` | `[]NobodyWaitsInACircle` |
| `ClosedForGood` | `[]ClosedIsForgotten` |
| `DeliveredOnce` | `[]InOnePlace` |

`ServerThreadsProofs` shows `ThreadsInv`. Its parts are the shape of the stacks (`StacksOK`: which call can be at
which step; `InnermostOnly`: whatever is below the innermost call is sending, so holds no lock), `RegistryOK` for the tables,
`LocksAreHeld`, `EntriesAreLoggedIn` (whoever is queued, routed or about to take a seat back is logged in) and
`SessionsAreServed` (a session without a client is about to be forgotten by some thread), and `TrackedOnce` (the
tracked message is in the outbox or in one batch of one call, not in two).

No circle: a thread that holds a room's lock is past all its waits. A thread that waits for a room waits
for one of those, so it is in no circle. The others wait for the registry, whose holder, by
`LocksAreHeld`, is not one of them: it waits for a room or for nothing. That needs that the innermost call is
the only one that can hold anything, which is the rule that nothing is sent under a lock.

### Gateway and matchmaker

These hold for every number of clients, shards, legs to the matchmaker, restarts and later JOINs, and every set of typed keys
that meets `GatewayAssumption`, names of matches among them.

| Theorem | States |
|---|---|
| `GatewayInvariant` | `[]GatewayInv`, the invariant below |
| `OneAnswerHolds` | `[]OneAnswer` |
| `MatchedMeetHolds` | `[]MatchedMeet` |
| `JoinFindsLoginHolds` | `[]JoinFindsLogin` |
| `SeamlessSessionHolds` | `[]SeamlessSession` |
| `CodeIsRoutedHolds` | `[]CodeIsRouted` |

`GatewayProofs` begins with the matchmaker. `MatchmakerInv` says that a connection is in one place (on its way, on the
list, being given up, or in one match), that one process gives an id once, that until a restart whoever waits
has had no answer, and that a MATCHED names a match, its shard and, until a restart, one of its two. The first three make
`OneAnswer`: the sweep takes its waiters off the list in the same step in which it makes sure of them, so a match finds them
no more, although they are told later.

For the gateway none of the four properties is inductive, since each relates what the client has heard to messages that are still
under way. `Flow` therefore says, for each phase of a client, in which situations its connection, the shard's side of it and what the
client has heard can be: LOGIN is under way once, then its reply, then the first JOIN with those relayed behind it, then one ROOM;
`Asked` ties that first JOIN, or the one
that a redirect keeps for later, to what the client asked for, and `RoomFor` and `Told` the seat and the code to it. Between the sections of a redirect
(`AtLeaving`), with the new leg connecting (`AtConnecting`), while its LOGIN is replayed (`AtRelogin`) and after a failed redirect
(`Cut`) the client has heard nothing but its first LOGIN_OK. `Meets` carries a match from the matchmaker to the seat, and `LegsToCome` keeps the
matchmaker's lists from naming a leg that is not open yet.

After a search in vain the client is on its own with the shard, which is `Afresh`: JOINs on their way, of which only the last can be
a search (`Asks`, since who searches does not JOIN again before NO_OPPONENT), on the shard's list, taken off it, or
seated. Meanwhile it has heard NO_OPPONENT only (`Vain`), and what it has heard and what may still come is not more than what it
asked (`Owed`); `HeardLate` says the same when nothing is to come. A seat taken from the shard in this way
is in no relation to the wish of the first JOIN, so `CodeIsRouted` leaves these clients out and `MatchedMeet` those that JOINed again; that the others are where
they asked to go needs that `Afresh` begins with a NO_OPPONENT that was heard.

A step of one client leaves the `Flow` of the others alone (the lemma `FlowOfOthers`), with one exception: a shard that pairs two waiters seats
both (`Pairing`). A step of the matchmaker adds a match at most.

### Accounts

These hold for every set of names, passwords and processes that meets `AccountsAssumption`, and every formula with
`GainIsBounded`: a gain is between 0 and K (`PostgresAccountRepository.cpp:149-151`).

| Theorem | States |
|---|---|
| `CallsAreSingleSteps` | `BookIsKept`, the refinement of `AccountBook` |
| `RatingsAddUp` | `[]RatingsAreBooked` |

`AccountsProofs` shows `AccountsInv`: types, what each call is about (`CallsOK`: players have accounts), and for
the ratings `OneResultEach` (a player who is not listed in `mixed` is in no other recording, nor its own opponent),
`RatingsAreFresh` (what was read of such a player is still what the table says) and `OnlyUsersAreBooked` (so that a new
account starts with nothing booked). The row locks play no part in either: they order the commits, which matters to who waits for whom
and to the ratings of users in `mixed`, of which nothing is claimed. `Booked` is a recursive function of the number of rows; that it
grows by the delta of the row that is appended (`OneMoreIsBooked`) is induction over the rows, by way of the least row
for which it fails (`LeastNumber`).
In the refinement the commits of an INSERT and of a result are steps of the book, and a SELECT that lets somebody in; every
other statement, a crash and an aborted transaction are none.

### Clients

These hold for whatever is typed, any number of lost connections, events and messages under way. All assume
`[]WireFaithful`: that a text is read as it was meant. That one is about letters of words, and to the provers
a string is no sequence; TLC checks it in the same run, `clients`, on all messages there are.

| Theorem | States |
|---|---|
| `ClientsInvariant` | `[]ClientsInv`, the invariant below |
| `ScreenIsTrueHolds` | `[]ScreenIsTrue` |
| `AnswerIsDueHolds` | `[]AnswerIsDue` |
| `EventsInOrderHolds` | `[]EventsInOrder` |

`ClientsInv` has a part for the connection and one for the program that runs. `LinkInv` is the connection and what the
server knows: without a socket nothing is under way and the client is a stranger; LOGIN goes out once for each
connection, and its replies agree with what the server makes of it (`LoginTrue`, by `Known` and `Refused`); a role under way is the
one that was given (`RolesTrue`); and unless the opponent is gone, every `FORFEIT_WARNING` under way is followed by what
ends it (`Settled`). A JOIN is in one of five stages: none (`Free`), on its way (`Asking`), `Searching`, `InVain`, or `InRoom`.

`DesktopStage` says which of them the open window allows. "Waiting" is the hard one: `join` sets the flags back before it sends, so
no answer of an earlier JOIN can be taken for one of this JOIN, *if* none is under way, which is why every
window before it must be `Free`. The page has no such windows: `WebStage` gives it any stage, but in the lobby it has been told
nothing yet, and a warning under way comes after a role (`Introduced`), so no banner is there when the board opens.

What a step of the server can do, as far as all this can tell, is `Serves`, eleven cases; `ServerServes` shows that every
action is one of them, and the rest of the proof knows no more of the server.

`EventsInOrder` adds that the proxy's queue is a sequence. `EventsIn` is recursive over the messages; as for the sums of the accounts, that the
function it stands for exists and is unique is shown with the least number for which it is not so, and that the events of
two sequences one after the other are theirs (`EventsJoined`) by writing that function down. With this a step of the
server appends to both sides, the network thread moves an event from the wire to the queue, a frame takes what
is before the wire and a lost connection what is behind the queue (`FrontAndBack`).

### Only model-checked

* Liveness: `NothingHangs`, `RecordingEnds`, `WaitEnds` and that of the other models, which this prover cannot do.
* `WireFaithful` of the clients: it is about letters of words, and to the provers a string is no sequence.
* What does not hold in general and is checked under the constants of a run, as sections 4, 6, 7 and 8 tell.

## 10. Not modelled

`resolveJump` and `handleArrivalAtAirbornCell` (hooks only unit tests call); notation and move log, of which it can be
said without a model that a premove, which fires through `startMove`, is never recorded nor published as `MoveStarted`
(`RealTimeArbiter.cpp:95`); `CollisionSystem` and `MovementSystem`, queries that live play does not call; the text of
boards and test scripts; drawing and sound; the configuration of processes and containers; of the database what is said in
section 7; of SQLite the statements that fail unnoticed; `broadcast`, `close` and `stop` of the transport, which the server
does not call while it runs. In the gateway, a shard leg that is lost and reconnects, and a second LOGIN after a refused one
(`WsGateway.cpp:303` names it a limitation). Items 10 and 11 of the plan are still to be modelled.
