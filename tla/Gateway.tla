------------------------------ MODULE Gateway ------------------------------
(***************************************************************************)
(* The gateway: WsGateway.cpp and its room registry, composed with the      *)
(* Matchmaker and with what the shards answer to LOGIN and JOIN.            *)
(*                                                                         *)
(* A client talks to the gateway only.  The gateway holds one leg to a      *)
(* shard for it, swaps that leg silently when the client's room lives       *)
(* elsewhere (a redirect: new leg, LOGIN replayed, then the JOIN), and one  *)
(* leg to the matchmaker while it searches.  Each action is what one        *)
(* thread does between two points where another can step in; a redirect,   *)
(* the replay after onOpen and failRedirect are split where mutex_ is given *)
(* up.  Clients wait for the answer to LOGIN before they JOIN, as both      *)
(* clients of this repository do.  The desktop client may JOIN again on the *)
(* same connection: after NO_OPPONENT at once, else after 15 seconds        *)
(* without an answer.  By then no redirect is under way (kRedirectTimeout   *)
(* is 5 seconds), so a client is redirected at most once, for its first     *)
(* JOIN, and its old leg is idle when it is destroyed.                      *)
(***************************************************************************)
EXTENDS Matchmaker

CONSTANTS
  Clients,
  MaxLegs,      \* bound: connections to the matchmaker one client may use up
  MaxAgain,     \* bound: JOINs of a client after its first
  LaterKeys,    \* bound: what they may ask for
  Codes,        \* the codes that clients know
  RoomNames     \* the keys without a shard's prefix that clients type

\* All keys are strings: what is typed may be a number or quickmatch-k as well.
ASSUME GatewayAssumption ==
  /\ MaxLegs \in Nat \ {0} /\ MaxAgain \in Nat
  /\ Conns = Clients \X (1 .. MaxLegs)
  /\ Codes \subseteq [kind : {"code"}, shard : Shards, n : Nat]
  /\ RoomNames \subseteq [kind : {"room", "name", "match"}, shard : {0}, n : Nat]

VARIABLES
  conn,           \* upstreams_: the UpstreamConnection of each client
  registry,       \* roomRegistry_: freeform name -> shard
  toShard,        \* messages on the current leg to its shard
  fromShard,      \* and back
  session,        \* has the shard authenticated this leg?
  seat,           \* the room the shard routed this leg to
  rooms,          \* nextNamedRoomId_ of each shard
  quicks,         \* nextQuickMatchId_ of each shard
  lobby,          \* the clients on the quick-match list of the shard of their leg
  wish,           \* the key of the client's first JOIN
  again,          \* the keys of its later ones, in order
  failed,         \* searchFailed_: has it been sent NO_OPPONENT since its last JOIN?
  heard,          \* what the client has been sent, in order
  crashed         \* has the gateway's process been terminated?

gwVars == <<conn, registry, toShard, fromShard, session, seat,
            rooms, quicks, lobby, wish, again, failed, heard, crashed>>
vars == <<gwVars, mmVars>>

(***************************************************************************)
(* Room keys and messages.  A key is a string; its kind is the form it has: *)
(* equal strings are equal keys, whoever made them up.                      *)
(***************************************************************************)
Key(kind, shard, n) == [kind |-> kind, shard |-> shard, n |-> n]
NoKey == Key("none", 0, 0)
Create == Key("create", 0, 0)           \* JOIN CreateRoom
Quick == Key("quick", 0, 0)             \* JOIN QuickMatch
Room(n) == Key("room", 0, n)            \* a number, as a shard issues it
Code(s, n) == Key("code", s, n)         \* the same, prefixed by the gateway
Named(n) == Key("name", 0, n)           \* any other name
MatchRoom(k) == Key("match", 0, k)      \* quickmatch-k, as the matchmaker and shards issue it

Msg(type, key) == [type |-> type, key |-> key]
NoMsg == Msg("none", NoKey)
Login == Msg("LOGIN", NoKey)
LoginOk == Msg("LOGIN_OK", NoKey)
LoginFail == Msg("LOGIN_FAIL", NoKey)
Join(key) == Msg("JOIN", key)
RoomReply(key) == Msg("ROOM", key)
SearchFailed == Msg("NO_OPPONENT", NoKey)

NoShard == ShardCount
Seat(s, key) == [shard |-> s, key |-> key]
NoSeat == Seat(NoShard, NoKey)

Wishes == {Create, Quick} \cup Codes \cup RoomNames

(***************************************************************************)
(* UpstreamConnection, with who still refers to it: held (the map),         *)
(* target (a redirect between its two critical sections), inside (a         *)
(* callback of the leg), timer (the thread of a redirect's timeout),        *)
(* failing (the threads about to call failRedirect), mmLeg "told" (the      *)
(* callback that has passed NO_OPPONENT on).                                *)
(***************************************************************************)
NewConn ==
  [phase |-> "New", held |-> FALSE, shard |-> 0, leg |-> "none", open |-> FALSE,
   pending |-> <<>>, joinAfter |-> NoMsg, action |-> "AddShardPrefix", target |-> NoShard,
   inside |-> "no", timer |-> FALSE, failing |-> {},
   mm |-> 0, mmLeg |-> "none", mmPending |-> FALSE]

Referenced(k) ==
  \/ k.held \/ k.target # NoShard \/ k.inside # "no" \/ k.timer \/ k.failing # {}
  \/ k.mmLeg = "told"

\* The matchmaker legs client c has had; mm counts them, the last is the current one.
MmLegs(c) == {c} \X (1 .. MaxLegs)
MmLeg(c) == <<c, conn[c].mm>>

GatewayInit ==
  /\ conn = [c \in Clients |-> NewConn]
  /\ registry = [key \in RoomNames |-> NoShard]
  /\ toShard = [c \in Clients |-> <<>>] /\ fromShard = [c \in Clients |-> <<>>]
  /\ session = [c \in Clients |-> FALSE] /\ seat = [c \in Clients |-> NoSeat]
  /\ rooms = [s \in Shards |-> 0] /\ quicks = [s \in Shards |-> 0] /\ lobby = {}
  /\ wish = [c \in Clients |-> NoKey] /\ again = [c \in Clients |-> <<>>]
  /\ failed = [c \in Clients |-> FALSE] /\ heard = [c \in Clients |-> <<>>]
  /\ crashed = FALSE

Init == GatewayInit /\ MatchmakerInit

\* downstream_.send: nothing reaches a client that is gone.
Tell(c, msg) ==
  IF conn[c].held
  THEN /\ heard' = [heard EXCEPT ![c] = Append(@, msg)]
       /\ failed' = [failed EXCEPT ![c] = @ \/ msg = SearchFailed]
  ELSE UNCHANGED <<heard, failed>>

SendOrQueue(c, k, msg) ==
  IF k.open
  THEN /\ toShard' = [toShard EXCEPT ![c] = Append(@, msg)]
       /\ conn' = [conn EXCEPT ![c] = k]
  ELSE /\ conn' = [conn EXCEPT ![c] = [k EXCEPT !.pending = Append(@, msg)]]
       /\ UNCHANGED toShard

\* What a client that is gone asked for and heard does not matter any more.
Forget(c) ==
  /\ wish' = [wish EXCEPT ![c] = NoKey] /\ again' = [again EXCEPT ![c] = <<>>]
  /\ failed' = [failed EXCEPT ![c] = FALSE] /\ heard' = [heard EXCEPT ![c] = <<>>]

\* The leg to the shard is destroyed: the shard forgets the connection.
CloseShardLeg(c) ==
  /\ toShard' = [toShard EXCEPT ![c] = <<>>]
  /\ fromShard' = [fromShard EXCEPT ![c] = <<>>]
  /\ session' = [session EXCEPT ![c] = FALSE]
  /\ seat' = [seat EXCEPT ![c] = NoSeat]
  /\ lobby' = lobby \ {c}

\* A reference goes: with the last one the connection and its legs go.
Kept(k) == IF Referenced(k) THEN k ELSE [NewConn EXCEPT !.phase = "Gone"]

Release(c, k) ==
  /\ conn' = [conn EXCEPT ![c] = Kept(k)]
  /\ IF Referenced(k)
     THEN UNCHANGED <<toShard, fromShard, session, seat, lobby, mmVars>>
     ELSE
       /\ CloseShardLeg(c)
       /\ Close(MmLegs(c))
       /\ UNCHANGED <<queue, matches, members, nextShard, reaped, unlisted, waits, restarts, idVars>>

\* The last reference goes with a callback of the leg itself: the leg's destructor joins
\* the thread it runs on, which terminates the process.
Leave(c, k) ==
  /\ conn' = [conn EXCEPT ![c] = Kept(k)]
  /\ crashed' = (~Referenced(k) /\ k.leg # "none")

(***************************************************************************)
(* The downstream side: handleDownstreamConnect, -Message, -Disconnect      *)
(***************************************************************************)
\* pickShardUrl: nextShardIndex_ goes round with every client, not with these only, so the
\* next shard may be any.
Connect(c) ==
  /\ conn[c].phase = "New"
  /\ \E s \in Shards :
       conn' = [conn EXCEPT ![c] = [@ EXCEPT !.phase = "AwaitingLogin", !.held = TRUE,
                                             !.shard = s, !.leg = "connecting"]]
  /\ UNCHANGED <<registry, toShard, fromShard, session, seat, lobby, rooms, quicks, wish, again, failed,
                 heard, crashed, mmVars>>

LogIn(c) ==
  /\ conn[c].held /\ conn[c].phase = "AwaitingLogin"
  /\ SendOrQueue(c, [conn[c] EXCEPT !.phase = "AwaitingJoin"], Login)
  /\ UNCHANGED <<registry, fromShard, session, seat, lobby, rooms, quicks, wish, again,
                 failed, heard, crashed, mmVars>>

\* A client asks for a room once it is logged in.
MayJoin(c) ==
  conn[c].held /\ conn[c].phase = "AwaitingJoin" /\ heard[c] = <<LoginOk>> /\ wish[c] = NoKey

\* Mutant: the JOIN is queued like any other message for a leg that is not open yet.
RedirectQueuesJoin(c, k, s, msg) ==
  /\ conn' = [conn EXCEPT ![c] =
                [k EXCEPT !.pending = <<msg>>, !.phase = "AwaitingRoomReply", !.target = s]]
  /\ UNCHANGED toShard

\* The first critical section of redirectAndJoin; Swap is the second.
Redirect(c, k, s, msg) ==
  /\ conn' = [conn EXCEPT ![c] =
                [k EXCEPT !.joinAfter = msg, !.phase = "AwaitingJoin", !.target = s]]
  /\ UNCHANGED toShard

\* Mutant: every room is looked for on the shard of the login.
JoinHere(c, k, s, msg) == SendOrQueue(c, [k EXCEPT !.phase = "AwaitingRoomReply"], msg)

JoinAt(c, k, s, msg) ==
  IF s # k.shard THEN Redirect(c, k, s, msg)
  ELSE SendOrQueue(c, [k EXCEPT !.phase = "AwaitingRoomReply"], msg)

\* A prefix that is no shard of this gateway makes a name of the whole key.
ParsePrefixedKey(key) == key.kind = "code" /\ key.shard \in Shards

JoinByCode(c, key) ==
  /\ ParsePrefixedKey(key)
  /\ JoinAt(c, [conn[c] EXCEPT !.action = "AddShardPrefix"], key.shard, Join(Room(key.n)))

JoinByName(c, key) ==
  /\ key \in RoomNames
  /\ LET s == registry[key]
     IN JoinAt(c, [conn[c] EXCEPT !.action = "RegisterFreeform"],
               IF s = NoShard THEN conn[c].shard ELSE s, Join(key))

CreateRoom(c, key) ==
  key = Create /\ JoinAt(c, [conn[c] EXCEPT !.action = "AddShardPrefix"], conn[c].shard, Join(key))

\* The client's JOIN stays here; WAIT is queued until the new leg opens.
QuickMatch(c, key) ==
  /\ key = Quick
  /\ conn' = [conn EXCEPT ![c] = [@ EXCEPT !.phase = "AwaitingMatchmaker",
                                           !.mm = 1, !.mmLeg = "connecting", !.mmPending = TRUE]]
  /\ UNCHANGED toShard

AskForRoom(c, key) ==
  /\ MayJoin(c)
  /\ wish' = [wish EXCEPT ![c] = key]
  /\ JoinByCode(c, key) \/ JoinByName(c, key) \/ CreateRoom(c, key) \/ QuickMatch(c, key)
  /\ UNCHANGED <<registry, fromShard, session, seat, lobby, rooms, quicks, again, failed, heard,
                 crashed, mmVars>>

LastWish(c) == IF again[c] = <<>> THEN wish[c] ELSE Last(again[c])

\* "Try again": a search only after NO_OPPONENT, any other JOIN after 15 seconds.
MayJoinAgain(c) ==
  /\ conn[c].held /\ conn[c].phase \in {"AwaitingMatchmaker", "AwaitingRoomReply", "Resolved"}
  /\ wish[c] # NoKey /\ Len(again[c]) < MaxAgain
  /\ LastWish(c) = Quick => failed[c]

\* A later JOIN is relayed as it is, quick match included; or it is dropped, before the
\* gateway is done with NO_OPPONENT.
AskAgain(c, key) ==
  /\ MayJoinAgain(c) /\ key \in LaterKeys
  /\ again' = [again EXCEPT ![c] = Append(@, key)]
  /\ failed' = [failed EXCEPT ![c] = FALSE]
  /\ IF conn[c].phase = "AwaitingMatchmaker" THEN UNCHANGED <<conn, toShard>>
     ELSE SendOrQueue(c, conn[c], Join(key))
  /\ UNCHANGED <<registry, fromShard, session, seat, lobby, rooms, quicks, wish, heard, crashed,
                 mmVars>>

\* A client's own thread cannot handle its end while it redirects; the thread of
\* its matchmaker leg can be redirecting meanwhile.
Disconnect(c) ==
  /\ conn[c].held
  /\ conn[c].target = NoShard \/ wish[c] = Quick
  /\ Release(c, [conn[c] EXCEPT !.held = FALSE])
  /\ Forget(c)
  /\ UNCHANGED <<registry, rooms, quicks, crashed>>

(***************************************************************************)
(* Redirects                                                                *)
(***************************************************************************)
\* The second section, the start of the new leg, the end of the old one, and the end
\* of the matchmaker leg if it was the matchmaker who sent the client elsewhere.
Swap(c) ==
  /\ conn[c].target # NoShard
  /\ conn' = [conn EXCEPT ![c] =
       [@ EXCEPT !.shard = conn[c].target, !.leg = "connecting", !.open = FALSE,
                 !.target = NoShard, !.timer = TRUE, !.mmLeg = "none"]]
  /\ CloseShardLeg(c)
  /\ Close(MmLegs(c))
  /\ UNCHANGED <<registry, rooms, quicks, wish, again, failed, heard, crashed,
                 queue, matches, members, nextShard, reaped, unlisted, waits, restarts, idVars>>

\* Mutant: the timeout only ends.
TimerJustEnds(c) ==
  /\ conn[c].timer
  /\ Release(c, [conn[c] EXCEPT !.timer = FALSE])
  /\ UNCHANGED <<registry, rooms, quicks, wish, again, failed, heard, crashed>>

\* kRedirectTimeout is over: was the redirect done in time?
TimerExpires(c) ==
  /\ conn[c].timer
  /\ IF conn[c].phase \notin {"AwaitingRoomReply", "Resolved"}
     THEN /\ conn' = [conn EXCEPT ![c] =
               [conn[c] EXCEPT !.timer = FALSE, !.failing = @ \cup {"timer"}]]
          /\ UNCHANGED <<toShard, fromShard, session, seat, lobby, mmVars>>
     ELSE Release(c, [conn[c] EXCEPT !.timer = FALSE])
  /\ UNCHANGED <<registry, rooms, quicks, wish, again, failed, heard, crashed>>

FailRedirect(c, who) ==
  LET k == [conn[c] EXCEPT !.failing = @ \ {who}] IN
  /\ who \in conn[c].failing
  /\ \/ /\ k.held
        /\ conn' = [conn EXCEPT ![c] = Kept([k EXCEPT !.held = FALSE, !.leg = "none"])]
        /\ CloseShardLeg(c) /\ Forget(c)
        /\ UNCHANGED <<crashed, mmVars>>
     \/ ~k.held /\ who = "timer" /\ Release(c, k) /\ UNCHANGED <<wish, again, failed, heard, crashed>>
     \/ ~k.held /\ who = "callback" /\ Leave(c, k)
          /\ UNCHANGED <<toShard, fromShard, session, seat, lobby, wish, again, failed, heard, mmVars>>
  /\ UNCHANGED <<registry, rooms, quicks>>

(***************************************************************************)
(* The shard leg's callbacks.                                               *)
(***************************************************************************)
OnOpen(c) ==
  LET k == conn[c] IN
  /\ k.leg = "connecting" /\ k.inside = "no"
  /\ conn' = [conn EXCEPT ![c] =
       [k EXCEPT !.leg = "open", !.open = TRUE, !.pending = <<>>,
                 !.inside = IF k.phase = "AwaitingJoin" /\ k.joinAfter # NoMsg THEN "open" ELSE "no"]]
  /\ toShard' = [toShard EXCEPT ![c] = @ \o k.pending]
  /\ UNCHANGED <<registry, fromShard, session, seat, lobby, rooms, quicks, wish, again,
                 failed, heard, crashed, mmVars>>

\* Mutant: the phase is left as it is.
ReplayOpenly(c) ==
  /\ conn[c].inside = "open"
  /\ Leave(c, [conn[c] EXCEPT !.inside = "no"])
  /\ toShard' = IF conn[c].leg = "open" THEN [toShard EXCEPT ![c] = Append(@, Login)] ELSE toShard
  /\ UNCHANGED <<registry, fromShard, session, seat, lobby, rooms, quicks, wish, again,
                 failed, heard, mmVars>>

\* The rest of onOpen on the leg of a redirect.
ReplayLogin(c) ==
  /\ conn[c].inside = "open"
  /\ Leave(c, [conn[c] EXCEPT !.inside = "no", !.phase = "RedirectAwaitingLoginReply"])
  /\ toShard' = IF conn[c].leg = "open" THEN [toShard EXCEPT ![c] = Append(@, Login)] ELSE toShard
  /\ UNCHANGED <<registry, fromShard, session, seat, lobby, rooms, quicks, wish, again,
                 failed, heard, mmVars>>

OnLoginReply(c) ==
  LET k == conn[c]
      m == Head(fromShard[c])
      replayed == k.phase = "RedirectAwaitingLoginReply"
  IN
  /\ fromShard[c] # <<>> /\ m \in {LoginOk, LoginFail}
  /\ fromShard' = [fromShard EXCEPT ![c] = Tail(@)]
  /\ \/ /\ replayed /\ m = LoginOk
        /\ conn' = [conn EXCEPT ![c] = [@ EXCEPT !.phase = "AwaitingRoomReply", !.joinAfter = NoMsg]]
        /\ toShard' = [toShard EXCEPT ![c] = Append(@, k.joinAfter)]
        /\ UNCHANGED <<heard, failed>>
     \/ /\ replayed /\ m = LoginFail
        /\ conn' = [conn EXCEPT ![c] = [k EXCEPT !.failing = @ \cup {"callback"}]]
        /\ UNCHANGED <<toShard, heard, failed>>
     \/ ~replayed /\ Tell(c, m) /\ UNCHANGED <<conn, toShard>>
  /\ UNCHANGED <<registry, session, seat, lobby, rooms, quicks, wish, again, crashed, mmVars>>

OnRoomReply(c) ==
  LET k == conn[c]
      m == Head(fromShard[c])
  IN
  /\ fromShard[c] # <<>> /\ m.type = "ROOM"
  /\ fromShard' = [fromShard EXCEPT ![c] = Tail(@)]
  /\ IF k.phase # "AwaitingRoomReply"
     THEN Tell(c, m) /\ UNCHANGED <<conn, registry>>
     ELSE /\ conn' = [conn EXCEPT ![c] = [@ EXCEPT !.phase = "Resolved"]]
          /\ \/ k.action = "AddShardPrefix" /\ Tell(c, RoomReply(Code(k.shard, m.key.n)))
                /\ UNCHANGED registry
             \/ k.action = "RegisterFreeform" /\ Tell(c, m)
                /\ registry' = [registry EXCEPT ![m.key] = k.shard]
             \/ k.action = "Suppress" /\ UNCHANGED <<heard, failed, registry>>
  /\ UNCHANGED <<toShard, session, seat, lobby, rooms, quicks, wish, again, crashed, mmVars>>

\* The shard's own search was in vain: relayed in any phase.
OnShardNoOpponent(c) ==
  /\ fromShard[c] # <<>> /\ Head(fromShard[c]) = SearchFailed
  /\ fromShard' = [fromShard EXCEPT ![c] = Tail(@)]
  /\ Tell(c, SearchFailed)
  /\ UNCHANGED <<conn, registry, toShard, session, seat, lobby, rooms, quicks, wish, again,
                 crashed, mmVars>>

\* Any other message of a match, STATE 20 times a second among them: relayed.
Relay(c) ==
  /\ conn[c].leg = "open" /\ conn[c].inside = "no" /\ seat[c] # NoSeat
  /\ conn' = [conn EXCEPT ![c].inside = "message"]
  /\ UNCHANGED <<registry, toShard, fromShard, session, seat, lobby, rooms, quicks, wish,
                 again, failed, heard, crashed, mmVars>>

EndRelay(c) ==
  /\ conn[c].inside = "message"
  /\ Leave(c, [conn[c] EXCEPT !.inside = "no"])
  /\ UNCHANGED <<registry, toShard, fromShard, session, seat, lobby, rooms, quicks, wish,
                 again, failed, heard, mmVars>>

(***************************************************************************)
(* The matchmaker leg's callbacks, all on one thread, which redirects the   *)
(* client when it is matched.  The leg reconnects by itself.                *)
(***************************************************************************)
OnMatchmakerOpen(c) ==
  /\ conn[c].mmLeg = "connecting"
  /\ conn' = [conn EXCEPT ![c] = [@ EXCEPT !.mmLeg = "open", !.mmPending = FALSE]]
  /\ Open(MmLeg(c))
  /\ IF conn[c].mmPending THEN SendWait(MmLeg(c)) ELSE UNCHANGED waits
  /\ UNCHANGED <<registry, toShard, fromShard, session, seat, lobby, rooms, quicks, wish,
                 again, failed, heard, crashed,
                 queue, matches, members, nextShard, reaped, unlisted, closed, answers, restarts>>

LoseMatchmakerLeg(c) ==
  /\ conn[c].mmLeg = "open" /\ conn[c].mm < MaxLegs /\ conn[c].target = NoShard
  /\ conn' = [conn EXCEPT ![c] = [conn[c] EXCEPT !.mmLeg = "connecting", !.mm = @ + 1]]
  /\ Close({MmLeg(c)})
  /\ UNCHANGED <<registry, toShard, fromShard, session, seat, lobby, rooms, quicks, wish,
                 again, failed, heard, crashed,
                 queue, matches, members, nextShard, reaped, unlisted, waits, restarts, idVars>>

Answer(c) == Head(answers[MmLeg(c)])
Answered(c) ==
  conn[c].mmLeg = "open" /\ conn[c].target = NoShard /\ answers[MmLeg(c)] # <<>>

\* teardownMatchmakerLeg
TearDown(c) ==
  /\ Close({MmLeg(c)})
  /\ UNCHANGED <<queue, matches, members, nextShard, reaped, unlisted, waits, restarts, idVars>>

OnMatched(c) ==
  LET k == [conn[c] EXCEPT !.action = "Suppress"]
      join == Join(MatchRoom(Answer(c).key))
      s == Answer(c).shard
  IN
  /\ Answered(c) /\ Answer(c).type = "MATCHED"
  /\ IF s = k.shard
     THEN /\ SendOrQueue(c, [k EXCEPT !.phase = "AwaitingRoomReply", !.mmLeg = "none"], join)
          /\ TearDown(c)
     ELSE Redirect(c, k, s, join) /\ UNCHANGED mmVars
  /\ UNCHANGED <<registry, fromShard, session, seat, lobby, rooms, quicks, wish, again,
                 failed, heard, crashed>>

\* The client is told first; what it sends before Resolve is dropped.
OnNoOpponent(c) ==
  /\ Answered(c) /\ Answer(c).type = "NO_OPPONENT"
  /\ conn' = [conn EXCEPT ![c] = [@ EXCEPT !.mmLeg = "told"]]
  /\ Tell(c, SearchFailed)
  /\ UNCHANGED <<registry, toShard, fromShard, session, seat, lobby, rooms, quicks, wish,
                 again, crashed, mmVars>>

\* The rest of the callback, which may hold the last reference.
Resolve(c) ==
  LET k == [conn[c] EXCEPT !.phase = "Resolved", !.mmLeg = "none"] IN
  /\ conn[c].mmLeg = "told"
  /\ conn' = [conn EXCEPT ![c] = Kept(k)]
  /\ IF Referenced(k) THEN UNCHANGED <<toShard, fromShard, session, seat, lobby>>
     ELSE CloseShardLeg(c)
  /\ TearDown(c)
  /\ UNCHANGED <<registry, rooms, quicks, wish, again, failed, heard, crashed>>

(***************************************************************************)
(* What a shard does with LOGIN and JOIN, no forfeit being pending there.   *)
(***************************************************************************)
ShardLogin(c) ==
  /\ toShard[c] # <<>> /\ Head(toShard[c]) = Login
  /\ toShard' = [toShard EXCEPT ![c] = Tail(@)]
  /\ \E ok \in BOOLEAN :
       /\ session' = [session EXCEPT ![c] = ok]
       /\ fromShard' = [fromShard EXCEPT ![c] = Append(@, IF ok THEN LoginOk ELSE LoginFail)]
  /\ UNCHANGED <<conn, registry, seat, lobby, rooms, quicks, wish, again, failed, heard,
                 crashed, mmVars>>

JoinArrives(c) ==
  /\ toShard[c] # <<>> /\ Head(toShard[c]).type = "JOIN"
  /\ toShard' = [toShard EXCEPT ![c] = Tail(@)]
  /\ UNCHANGED <<conn, registry, session, wish, again, failed, heard, crashed, mmVars>>

\* Not logged in, or in a room already.
JoinIgnored(c) ==
  /\ JoinArrives(c)
  /\ ~session[c] \/ seat[c] # NoSeat
  /\ UNCHANGED <<fromShard, seat, rooms, quicks, lobby>>

JoinRoom(c) ==
  LET s == conn[c].shard
      key == Head(toShard[c]).key
      room == IF key = Create THEN Room(rooms[s]) ELSE key
  IN
  /\ JoinArrives(c) /\ session[c] /\ seat[c] = NoSeat /\ key # Quick
  /\ seat' = [seat EXCEPT ![c] = Seat(s, room)]
  /\ fromShard' = [fromShard EXCEPT ![c] = Append(@, RoomReply(room))]
  /\ rooms' = IF key = Create THEN [rooms EXCEPT ![s] = @ + 1] ELSE rooms
  /\ UNCHANGED <<quicks, lobby>>

\* matchWaiter; which of several waiters is the first does not matter here.
Waiters(c) ==
  {w \in lobby : conn[w].shard = conn[c].shard /\ <<<<w, 1>>, <<c, 1>>>> \in InRange}

\* handleQuickMatch: no ROOM is sent.
ShardQuickMatch(c) ==
  LET s == conn[c].shard
      room == Seat(s, MatchRoom(quicks[s]))
  IN
  /\ JoinArrives(c) /\ session[c] /\ seat[c] = NoSeat /\ Head(toShard[c]).key = Quick
  /\ \/ /\ Waiters(c) = {}
        /\ lobby' = lobby \cup {c}
        /\ UNCHANGED <<seat, quicks>>
     \/ \E w \in Waiters(c) :
          /\ lobby' = lobby \ {w}
          /\ seat' = [seat EXCEPT ![w] = room, ![c] = room]
          /\ quicks' = [quicks EXCEPT ![s] = @ + 1]
  /\ UNCHANGED <<fromShard, rooms>>

\* reapExpiredWaiters
ShardReaps(c) ==
  /\ c \in lobby
  /\ lobby' = lobby \ {c}
  /\ fromShard' = [fromShard EXCEPT ![c] = Append(@, SearchFailed)]
  /\ UNCHANGED <<conn, registry, toShard, session, seat, rooms, quicks, wish, again, failed,
                 heard, crashed, mmVars>>

(***************************************************************************)
ClientStep(c) ==
  \/ Connect(c) \/ LogIn(c) \/ Disconnect(c)
  \/ \E key \in Wishes : AskForRoom(c, key) \/ AskAgain(c, key)

GatewayStep(c) ==
  \/ Swap(c) \/ TimerExpires(c) \/ \E who \in {"timer", "callback"} : FailRedirect(c, who)
  \/ OnOpen(c) \/ ReplayLogin(c) \/ OnLoginReply(c) \/ OnRoomReply(c) \/ OnShardNoOpponent(c)
  \/ Relay(c) \/ EndRelay(c)
  \/ OnMatchmakerOpen(c) \/ LoseMatchmakerLeg(c) \/ OnMatched(c) \/ OnNoOpponent(c)
  \/ Resolve(c)

ShardStep(c) ==
  ShardLogin(c) \/ JoinIgnored(c) \/ JoinRoom(c) \/ ShardQuickMatch(c) \/ ShardReaps(c)

Next ==
  /\ ~crashed
  /\ \/ \E c \in Clients : ClientStep(c) \/ GatewayStep(c) \/ ShardStep(c)
     \/ MatchmakerNext /\ UNCHANGED gwVars

Spec == Init /\ [][Next]_vars

TimerThread(c) == TimerExpires(c) \/ FailRedirect(c, "timer")
MatchmakerLegThread(c) ==
  OnMatchmakerOpen(c) \/ OnMatched(c) \/ OnNoOpponent(c) \/ Resolve(c)

\* The threads of the gateway and of the matchmaker go on, time passes, and a leg that the
\* gateway opens to the matchmaker does open: the matchmaker is up again after a restart
\* and can be reached.  Of the shards, of the clients, of the legs to the shards and of
\* how long the leg to the matchmaker lasts nothing is assumed.
Fairness ==
  /\ \A c \in Clients :
       /\ WF_vars(Swap(c)) /\ WF_vars(TimerThread(c)) /\ WF_vars(MatchmakerLegThread(c))
       /\ WF_vars(FailRedirect(c, "callback")) /\ WF_vars(ReplayLogin(c) \/ EndRelay(c))
  /\ \A i \in Conns : WF_vars(OnWaitRequest(i) /\ UNCHANGED gwVars)
  /\ WF_vars((\E n \in 1 .. Len(queue) : Reap(n)) /\ UNCHANGED gwVars)
  /\ WF_vars((Unlist \/ NotifyExpired) /\ UNCHANGED gwVars)

FairSpec == Spec /\ Fairness

(***************************************************************************)
(* Properties                                                               *)
(***************************************************************************)
\* Has the client searched for an opponent in vain?
Searched(c) == \E n \in 1 .. Len(heard[c]) : heard[c][n] = SearchFailed

InItsRoom(c) ==
  /\ wish[c].kind = "code" => seat[c] = Seat(wish[c].shard, Room(wish[c].n))
  /\ \A n \in DOMAIN heard[c] :
       heard[c][n].key.kind = "code" =>
         seat[c] = Seat(heard[c][n].key.shard, Room(heard[c][n].key.n))

\* A client whose first JOIN names a code sits in that room of that shard, whatever it
\* asks for later; whom the gateway told a code sits there.  So a code leads all who know
\* it to one room, unless they searched for an opponent before.
CodeIsRouted == \A c \in Clients : seat[c] # NoSeat /\ ~Searched(c) => InItsRoom(c)

\* The same of every client.
CodeIsAlwaysRouted == \A c \in Clients : seat[c] # NoSeat => InItsRoom(c)

\* Client c sits where the matchmaker sent it.
InItsMatch(c) ==
  LET k == seat[c].key.n
  IN  /\ seat[c].key = MatchRoom(k) /\ k \in DOMAIN matches
      /\ matches[k].shard = seat[c].shard
      /\ restarts = 0 => \E i \in PairOf(k) : i[1] = c

\* Of the clients that JOINed once: who searched and is seated sits in the room of a match,
\* on the shard of the match, and was matched to it until a restart of the matchmaker; and
\* nobody else sits in a room with a match's name who has not typed it.  So both halves of
\* a match meet, although each is led there by itself.
MatchedMeet ==
  \A c \in Clients :
    /\ conn[c].held /\ again[c] = <<>> /\ seat[c] # NoSeat
    /\ wish[c] = Quick \/ (seat[c].key.kind = "match" /\ wish[c] # seat[c].key)
    => InItsMatch(c)

\* Nobody at all sits in a room with a match's name but whom the matchmaker sent there.
MatchesAlone == \A c \in Clients : seat[c].key.kind = "match" => InItsMatch(c)

\* What the client hears is what one shard would have said: one answer to LOGIN, no more
\* answers to JOINs than there were, NO_OPPONENT only to who searched first, and one ROOM
\* at the end, only to who asked for a room.  A redirect is invisible, and so is the JOIN
\* that the gateway makes up for a match.
SeamlessSession ==
  \A c \in Clients :
    \/ heard[c] \in {<<>>, <<LoginOk>>, <<LoginFail>>}
    \/ /\ heard[c][1] = LoginOk /\ Len(heard[c]) <= 2 + Len(again[c])
       /\ \A n \in 2 .. Len(heard[c]) :
            \/ heard[c][n] = SearchFailed /\ wish[c] = Quick
            \/ /\ heard[c][n].type = "ROOM" /\ n = Len(heard[c])
               /\ wish[c] # Quick \/ \E m \in DOMAIN again[c] : again[c][m] # Quick

\* A JOIN never overtakes its LOGIN: no shard drops it as coming from a stranger.
JoinFindsLogin ==
  \A c \in Clients :
    toShard[c] # <<>> /\ Head(toShard[c]).type = "JOIN" => session[c]

\* A redirect is completed or the client is disconnected, whatever the shard does.
RedirectEnds ==
  \A c \in Clients : []<>(conn[c].joinAfter = NoMsg \/ ~conn[c].held \/ crashed)

SearchOver(c) == conn[c].phase # "AwaitingMatchmaker" \/ ~conn[c].held \/ crashed

\* A search ends, unless the connection to the matchmaker was lost on the way.
SearchEnds ==
  \A c \in Clients : []<>(SearchOver(c) \/ conn[c].mm > 1 \/ restarts > 0)

\* A search ends in any case.
SearchAlwaysEnds == \A c \in Clients : []<>SearchOver(c)

\* No thread destroys the leg whose callback it runs.
NeverJoinsItself == ~crashed

=============================================================================
