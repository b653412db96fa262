---------------------------- MODULE ServerThreads ----------------------------
(***************************************************************************)
(* The threads of one game server, at the grain of its locks: one thread    *)
(* per connection (WsServerTransport.cpp), which runs the callbacks of      *)
(* GameServer.cpp for it, and the tick thread.  They share the registry     *)
(* under registryMutex_, each room under its roomMutex, and the Outbox.     *)
(*                                                                         *)
(* GameServer.tla says what the handlers decide; here they only get as far  *)
(* as who locks what, who is told, and who is routed where.  Sending to a   *)
(* peer that has gone runs the Close callback on the sending thread, in the *)
(* middle of its flush: a thread is a stack of calls.                       *)
(*                                                                         *)
(* The mutexes of the Outbox and of the transport are taken for one step,   *)
(* inside which no other is wanted, so these steps are atomic.  One message *)
(* of all, any one, is tracked.                                             *)
(***************************************************************************)
EXTENDS FiniteSets, Sequences, SequencesExt

CONSTANTS
  Conns,     \* connections, and the threads that serve them
  Rooms,     \* room names
  Ticker     \* the tick thread

Threads == Conns \cup {Ticker}
Nobody == "nobody"

ASSUME ThreadsAssumption == Ticker \notin Conns /\ Nobody \notin Threads

VARIABLES
  registryMutex, roomMutex,   \* who holds them
  stack,            \* the calls of each thread, the innermost last
  clients,          \* clients_ of the transport
  session,          \* ConnectionSessions
  connectionRoom,   \* partial function from connections to rooms
  waiting,          \* connections in quickMatchWaiting_
  members,          \* players and spectators; its domain: the rooms there are
  pending,          \* the Outbox
  fate              \* of the tracked message

registry == <<session, connectionRoom, waiting>>
vars == <<registryMutex, roomMutex, stack, clients, registry, members, pending, fate>>

Plain(c) == [to |-> c, tracked |-> FALSE]
Tracked(c) == [to |-> c, tracked |-> TRUE]

Call(op, c) == [op |-> op, conn |-> c, step |-> "start", todo |-> {}, room |-> Nobody,
                batch |-> {}]

Init ==
  /\ registryMutex = Nobody /\ roomMutex = [r \in Rooms |-> Nobody]
  /\ stack = [t \in Threads |-> <<>>]
  /\ clients = {} /\ session = [c \in Conns |-> "unborn"]
  /\ connectionRoom = [c \in {} |-> Nobody] /\ waiting = {}
  /\ members = [r \in {} |-> {}]
  /\ pending = {} /\ fate = "unborn"

-----------------------------------------------------------------------------
(* Calls of a thread, and what they do first and last *)

Top(t) == Last(stack[t])
At(t, op, step) == stack[t] # <<>> /\ Top(t).op = op /\ Top(t).step = step
AtStep(t, step) == stack[t] # <<>> /\ Top(t).step = step
Goes(t, call) == stack' = [stack EXCEPT ![t] = Append(Front(@), call)]
Goto(t, step) == Goes(t, [Top(t) EXCEPT !.step = step])
Push(t, call) == stack' = [stack EXCEPT ![t] = Append(@, call)]
Return(t) == stack' = [stack EXCEPT ![t] = Front(@)]

\* All calls end alike: what is left to do is to flush the Outbox.
GotoFlush(t) == Goes(t, [Call("flush", Nobody) EXCEPT !.step = "flush"])
\* A room less, and when it was the last one for a click or a tick, the flush.
GotoRooms(t) ==
  IF Top(t).todo = {} /\ Top(t).op \in {"click", "tick"}
  THEN GotoFlush(t)
  ELSE Goes(t, [Top(t) EXCEPT !.step = "rooms", !.room = Nobody])

\* enqueue, enqueueToRoom: one of the messages may be the tracked one.
Enqueue(recipients) ==
  \/ /\ pending' = pending \cup {Plain(c) : c \in recipients}
     /\ UNCHANGED fate
  \/ /\ fate = "unborn"
     /\ \E c \in recipients :
          pending' = pending \cup {Plain(d) : d \in recipients \ {c}} \cup {Tracked(c)}
     /\ fate' = "queued"

UnlockRegistry == registryMutex' = Nobody
UnlockRoom(t) == roomMutex' = [roomMutex EXCEPT ![Top(t).room] = Nobody]
UnlockBoth(t) == UnlockRegistry /\ UnlockRoom(t)

-----------------------------------------------------------------------------
(* What the transport and run() start *)

\* handleConnect; nothing can happen to the connection while it waits for the lock.
Open(c) ==
  /\ session[c] = "unborn" /\ registryMutex = Nobody
  /\ clients' = clients \cup {c}
  /\ session' = [session EXCEPT ![c] = "pending"]
  /\ UNCHANGED <<registryMutex, roomMutex, stack, connectionRoom, waiting, members, pending, fate>>

Receive(c) ==
  /\ c \in clients /\ stack[c] = <<>>
  /\ Push(c, Call("message", c))
  /\ UNCHANGED <<registryMutex, roomMutex, clients, registry, members, pending, fate>>

\* The Close callback, on the thread that notices.
Close(t, c) ==
  /\ clients' = clients \ {c}
  /\ Push(t, Call("disconnect", c))

Lost(c) ==
  /\ c \in clients /\ stack[c] = <<>>
  /\ Close(c, c)
  /\ UNCHANGED <<registryMutex, roomMutex, registry, members, pending, fate>>

\* run(): the tick thread is always in a tick, or waits for the lock to begin one.
StartTick ==
  /\ stack[Ticker] = <<>> /\ registryMutex = Nobody
  /\ registryMutex' = Ticker
  /\ Push(Ticker, [Call("tick", Ticker) EXCEPT !.step = "registry"])
  /\ UNCHANGED <<roomMutex, clients, registry, members, pending, fate>>

-----------------------------------------------------------------------------
(* Under registryMutex_ *)

LockRegistry(t) ==
  /\ AtStep(t, "start") /\ registryMutex = Nobody
  /\ registryMutex' = t
  /\ Goto(t, "registry")
  /\ UNCHANGED <<roomMutex, clients, registry, members, pending, fate>>

\* Mutant: a LOGIN is handled for whoever is not logged in.
LoginUnchecked(t) ==
  LET c == Top(t).conn IN
  /\ At(t, "message", "registry") /\ session[c] # "authenticated"
  /\ session' \in {session, [session EXCEPT ![c] = "authenticated"]}
  /\ Enqueue({c})
  /\ UnlockRegistry /\ GotoFlush(t)
  /\ UNCHANGED <<roomMutex, clients, connectionRoom, waiting, members>>

\* Mutant: the answer is sent under the lock.
LoginLocked(t) ==
  LET c == Top(t).conn IN
  /\ At(t, "message", "registry") /\ session[c] = "pending"
  /\ session' \in {session, [session EXCEPT ![c] = "authenticated"]}
  /\ Enqueue({c})
  /\ UNCHANGED registryMutex /\ GotoFlush(t)
  /\ UNCHANGED <<roomMutex, clients, connectionRoom, waiting, members>>

\* handleLogin; a refused LOGIN is answered as well.
Login(t) ==
  LET c == Top(t).conn IN
  /\ At(t, "message", "registry") /\ session[c] = "pending"
  /\ session' \in {session, [session EXCEPT ![c] = "authenticated"]}
  /\ Enqueue({c})
  /\ UnlockRegistry /\ GotoFlush(t)
  /\ UNCHANGED <<roomMutex, clients, connectionRoom, waiting, members>>

\* handleJoin: tryReconnect looks at one room after the other.
Join(t) ==
  LET c == Top(t).conn IN
  /\ At(t, "message", "registry")
  /\ session[c] = "authenticated" /\ c \notin DOMAIN connectionRoom
  /\ Goes(t, [Top(t) EXCEPT !.op = "reconnect", !.step = "rooms", !.todo = DOMAIN members])
  /\ UNCHANGED <<registryMutex, roomMutex, clients, registry, members, pending, fate>>

\* The room of a click is looked up here and used later.
LookUp(t) ==
  LET c == Top(t).conn IN
  /\ At(t, "message", "registry")
  /\ session[c] # "pending" /\ c \in DOMAIN connectionRoom
  /\ UnlockRegistry
  /\ Goes(t, [Top(t) EXCEPT !.op = "click", !.step = "rooms", !.todo = {connectionRoom[c]}])
  /\ UNCHANGED <<roomMutex, clients, registry, members, pending, fate>>

\* A message that means nothing now, or whose connection another thread has seen closed.
Ignore(t) ==
  /\ At(t, "message", "registry") /\ Top(t).conn \notin DOMAIN connectionRoom
  /\ UnlockRegistry /\ GotoFlush(t)
  /\ UNCHANGED <<roomMutex, clients, registry, members, pending, fate>>

Disconnect(t) ==
  LET c == Top(t).conn
      room == IF c \in DOMAIN connectionRoom THEN {connectionRoom[c]} ELSE {}
  IN
  /\ At(t, "disconnect", "registry")
  /\ Goes(t, [Top(t) EXCEPT !.step = "rooms", !.todo = room])
  /\ UNCHANGED <<registryMutex, roomMutex, clients, registry, members, pending, fate>>

\* reapExpiredWaiters, and the snapshot of the rooms.
Snapshot(t) ==
  /\ At(t, "tick", "registry")
  /\ \E expired \in SUBSET waiting : waiting' = waiting \ expired /\ Enqueue(expired)
  /\ UnlockRegistry
  /\ IF members = [r \in {} |-> {}] THEN GotoFlush(t)
     ELSE Goes(t, [Top(t) EXCEPT !.step = "rooms", !.todo = DOMAIN members])
  /\ UNCHANGED <<roomMutex, clients, session, connectionRoom, members>>

-----------------------------------------------------------------------------
(* Under a roomMutex: the calls that seat, scan or leave hold registryMutex_ too. *)

LockRoom(t) ==
  /\ AtStep(t, "rooms")
  /\ \E r \in Top(t).todo :
       /\ roomMutex[r] = Nobody
       /\ roomMutex' = [roomMutex EXCEPT ![r] = t]
       /\ Goes(t, [Top(t) EXCEPT !.step = "room", !.room = r, !.todo = @ \ {r}])
  /\ UNCHANGED <<registryMutex, clients, registry, members, pending, fate>>

InRoom(t, op) == At(t, op, "room")
ThisRoom(t) == Top(t).room

\* handleClick: a click that starts a move is told to the room.
Click(t) ==
  /\ InRoom(t, "click")
  /\ \E told \in {{}, members[ThisRoom(t)]} : Enqueue(told)
  /\ UnlockRoom(t) /\ GotoRooms(t)
  /\ UNCHANGED <<registryMutex, clients, registry, members>>

\* advanceRoom: the state goes to all, and finalizeForfeit keeps players as spectators.
AdvanceRoom(t) ==
  /\ InRoom(t, "tick")
  /\ Enqueue(members[ThisRoom(t)])
  /\ UnlockRoom(t) /\ GotoRooms(t)
  /\ UNCHANGED <<registryMutex, clients, registry, members>>

\* RoomManager::reconnect: the seat of a user who is gone may be this user's.
Reclaim(t) ==
  LET c == Top(t).conn
      r == ThisRoom(t)
  IN
  /\ InRoom(t, "reconnect")
  /\ \E d \in members[r] :
       /\ session[d] = "none"
       /\ members' = [members EXCEPT ![r] = (@ \ {d}) \cup {c}]
  /\ connectionRoom' = [d \in DOMAIN connectionRoom \cup {c} |->
                          IF d = c THEN r ELSE connectionRoom[d]]
  /\ Enqueue({c} \cup members'[r])
  /\ UnlockBoth(t) /\ GotoFlush(t)
  /\ UNCHANGED <<clients, session, waiting>>

NothingToReclaim(t) ==
  /\ InRoom(t, "reconnect")
  /\ UnlockRoom(t) /\ GotoRooms(t)
  /\ UNCHANGED <<registryMutex, clients, registry, members, pending, fate>>

\* Those routed to the room who are not in it yet.
Newcomers(r) == {d \in DOMAIN connectionRoom : connectionRoom[d] = r} \ members[r]

Enter(t) ==
  LET r == ThisRoom(t) IN
  /\ InRoom(t, "enter")
  /\ members' = [members EXCEPT ![r] = @ \cup Newcomers(r)]
  /\ \E told \in {Newcomers(r), members'[r]} : Enqueue(told)
  /\ UnlockBoth(t) /\ GotoFlush(t)
  /\ UNCHANGED <<clients, registry>>

\* A player of a running game keeps the seat, and the others are warned.
LeaveRoom(t) ==
  LET r == ThisRoom(t) IN
  /\ InRoom(t, "disconnect")
  /\ \/ Enqueue(members[r]) /\ UNCHANGED members
     \/ members' = [members EXCEPT ![r] = @ \ {Top(t).conn}] /\ UNCHANGED <<pending, fate>>
  /\ UnlockRoom(t) /\ GotoRooms(t)
  /\ UNCHANGED <<registryMutex, clients, registry>>

-----------------------------------------------------------------------------
(* After the rooms *)

AfterRooms(t, op) == At(t, op, "rooms") /\ Top(t).todo = {}

\* addWaiter
Wait(t) ==
  /\ AfterRooms(t, "reconnect")
  /\ waiting' = waiting \cup {Top(t).conn}
  /\ UnlockRegistry /\ GotoFlush(t)
  /\ UNCHANGED <<roomMutex, clients, session, connectionRoom, members, pending, fate>>

\* getOrCreateRoom and assignConnectionToRoom, for one or for a pair.
Route(t, r, conns) ==
  /\ connectionRoom' = [d \in DOMAIN connectionRoom \cup conns |->
                          IF d \in conns THEN r ELSE connectionRoom[d]]
  /\ members' = [q \in DOMAIN members \cup {r} |-> IF q \in DOMAIN members THEN members[q] ELSE {}]
  /\ Goes(t, [Top(t) EXCEPT !.op = "enter", !.todo = {r}])
  /\ UNCHANGED <<registryMutex, roomMutex, clients, session, pending, fate>>

JoinRoom(t) ==
  /\ AfterRooms(t, "reconnect")
  /\ \E r \in Rooms : Route(t, r, {Top(t).conn})
  /\ UNCHANGED waiting

QuickMatch(t) ==
  /\ AfterRooms(t, "reconnect")
  /\ \E d \in waiting, r \in Rooms \ DOMAIN members :
       /\ waiting' = waiting \ {d}
       /\ Route(t, r, {d, Top(t).conn})

Forget(c) ==
  /\ session' = [session EXCEPT ![c] = "none"]
  /\ connectionRoom' = [d \in DOMAIN connectionRoom \ {c} |-> connectionRoom[d]]
  /\ waiting' = waiting \ {c}

Forgotten(t) ==
  /\ AfterRooms(t, "disconnect")
  /\ Forget(Top(t).conn)
  /\ UnlockRegistry /\ GotoFlush(t)
  /\ UNCHANGED <<roomMutex, clients, members, pending, fate>>

-----------------------------------------------------------------------------
(* Outbox::flush and WsServerTransport::send *)

\* Mutant: the queue is cleared only by whoever has sent all of it.
FlushCopies(t) ==
  /\ AtStep(t, "flush")
  /\ IF pending = {} THEN Return(t) ELSE Goes(t, [Top(t) EXCEPT !.step = "send", !.batch = pending])
  /\ UNCHANGED <<registryMutex, roomMutex, clients, registry, members, pending, fate>>

Flush(t) ==
  /\ AtStep(t, "flush")
  /\ IF pending = {} THEN Return(t) ELSE Goes(t, [Top(t) EXCEPT !.step = "send", !.batch = pending])
  /\ pending' = {}
  /\ UNCHANGED <<registryMutex, roomMutex, clients, registry, members, fate>>

\* With the last message of the batch the call returns.
Sent(t, m, call) ==
  /\ fate' = IF m.tracked THEN "gone" ELSE fate
  /\ IF call.batch = {} THEN Return(t) ELSE Goes(t, call)

\* The connection may be closed by now: then there is no socket to send to.
Send(t) ==
  /\ AtStep(t, "send")
  /\ \E m \in Top(t).batch : Sent(t, m, [Top(t) EXCEPT !.batch = @ \ {m}])
  /\ UNCHANGED <<registryMutex, roomMutex, clients, registry, members, pending>>

\* The peer is gone, and this thread is the one that notices: handleDisconnect runs here.
SendCloses(t) ==
  /\ AtStep(t, "send")
  /\ \E m \in Top(t).batch :
       LET others == Top(t).batch \ {m}
           rest == IF others = {} THEN <<>> ELSE <<[Top(t) EXCEPT !.batch = others]>>
       IN  /\ m.to \in clients
           /\ clients' = clients \ {m.to}
           /\ fate' = IF m.tracked THEN "gone" ELSE fate
           /\ stack' = [stack EXCEPT ![t] = Front(@) \o Append(rest, Call("disconnect", m.to))]
  /\ UNCHANGED <<registryMutex, roomMutex, registry, members, pending>>

-----------------------------------------------------------------------------
UnderRegistry(t) ==
  \/ Login(t) \/ Join(t) \/ LookUp(t) \/ Ignore(t) \/ Disconnect(t) \/ Snapshot(t)
UnderRoom(t) ==
  \/ Click(t) \/ AdvanceRoom(t) \/ Reclaim(t) \/ NothingToReclaim(t) \/ Enter(t) \/ LeaveRoom(t)
Outside(t) ==
  \/ Wait(t) \/ JoinRoom(t) \/ QuickMatch(t) \/ Forgotten(t)
Sending(t) ==
  \/ Flush(t) \/ Send(t) \/ SendCloses(t)

Step(t) ==
  \/ LockRegistry(t) \/ UnderRegistry(t)
  \/ LockRoom(t) \/ UnderRoom(t) \/ Outside(t)
  \/ Sending(t)

Next ==
  \/ \E c \in Conns : Open(c) \/ Receive(c) \/ Lost(c)
  \/ StartTick
  \/ \E t \in Threads : Step(t)

Spec == Init /\ [][Next]_vars

-----------------------------------------------------------------------------
(* Properties *)

CallsOf(t) == {stack[t][i] : i \in 1 .. Len(stack[t])}
Calls == UNION {CallsOf(t) : t \in Threads}

WaitsFor(t, u) ==
  \/ AtStep(t, "start") /\ registryMutex = u
  \/ AtStep(t, "rooms") /\ \E r \in Top(t).todo : roomMutex[r] = u

\* No threads wait for one another in a circle, and none for itself: not when a Close
\* callback runs inside a flush, not when two calls use several rooms.
NobodyWaitsInACircle ==
  \A S \in (SUBSET Threads) \ {{}} : \E t \in S : \A u \in S : ~WaitsFor(t, u)

\* Once the Close callback of a connection has ended nothing is left of it in the registry,
\* although a message of it may be handled after that, by its own thread.
Closed(c) ==
  /\ session[c] # "unborn" /\ c \notin clients
  /\ \A call \in Calls : ~(call.op = "disconnect" /\ call.conn = c)
ClosedIsForgotten ==
  \A c \in Conns :
    Closed(c) => session[c] = "none" /\ c \notin DOMAIN connectionRoom /\ c \notin waiting

\* A message is in one place until it is sent, and it is sent once: threads may flush at
\* the same time, enqueue while another flushes, and flush inside a flush.
HasTracked(S) == \E m \in S : m.tracked
Holders ==
  {t \in Threads : \E call \in CallsOf(t) : HasTracked(call.batch)}
InOnePlace ==
  IF fate = "queued"
  THEN IF HasTracked(pending) THEN Holders = {} ELSE Cardinality(Holders) = 1
  ELSE Holders = {} /\ ~HasTracked(pending)
=============================================================================
