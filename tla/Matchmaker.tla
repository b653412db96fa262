----------------------------- MODULE Matchmaker -----------------------------
(***************************************************************************)
(* The quick-match service: Matchmaker.cpp over RedisWaitQueue.cpp.         *)
(*                                                                         *)
(* A connection of a gateway sends one WAIT and gets one answer: MATCHED or *)
(* NO_OPPONENT.  The waiting list lives in Redis and survives a restart of  *)
(* the process; members (waitingListMembers_) does not.  Each operation on  *)
(* Redis is atomic by the mutex of RedisWaitQueue, but the sweep takes the  *)
(* matchmaker's own mutex_ only after it has emptied the list: Reap, Unlist *)
(* and NotifyExpired are steps of their own.                                *)
(*                                                                         *)
(* Deadlines are wall-clock times a constant later than arrival, so those   *)
(* that have passed belong to a prefix of the list: Reap takes any prefix.  *)
(***************************************************************************)
EXTENDS Naturals, Sequences, FiniteSets, SequencesExt

CONSTANTS
  Conns,        \* identities of connections; one is never used twice
  ShardCount,
  InRange,      \* the pairs of connections whose ratings differ by 100 at most
  MaxRestarts   \* bound: restarts of the process

ASSUME MatchmakerAssumption ==
  /\ ShardCount \in Nat \ {0}
  /\ MaxRestarts \in Nat
  /\ \A a, b \in Conns : <<a, b>> \in InRange => <<b, a>> \in InRange

VARIABLES
  queue,      \* matchmaker:queue in Redis, the connections that wait
  matches,    \* the matches made so far; match k has room key quickmatch-k
  members,    \* waitingListMembers_
  nextShard,  \* nextShardIndex_
  reaped,     \* the sweep's local list of expired waiters
  unlisted,   \* has the sweep erased them from members?
  live,       \* open connections
  closed,     \* closed connections whose onDisconnect has not run yet
  waits,      \* connections whose WAIT is on its way
  answers,    \* messages on their way to each connection
  restarts,
  served,     \* connections opened since the process started
  idOf        \* the ConnectionId each of them was given

idVars == <<served, idOf>>
mmVars == <<queue, matches, members, nextShard, reaped, unlisted, live, closed,
            waits, answers, restarts, idVars>>

Shards == 0 .. ShardCount - 1

Matched(k, s) == [type |-> "MATCHED", key |-> k, shard |-> s]
NoOpponent == [type |-> "NO_OPPONENT", key |-> 0, shard |-> 0]

MatchmakerInit ==
  /\ queue = <<>> /\ matches = <<>> /\ members = {}
  /\ nextShard = 0 /\ reaped = <<>> /\ unlisted = FALSE
  /\ live = {} /\ closed = {} /\ waits = {}
  /\ answers = [i \in Conns |-> <<>>]
  /\ restarts = 0
  /\ served = {} /\ idOf = [i \in Conns |-> i]

(***************************************************************************)
(* The connections, as the gateway drives them.                             *)
(***************************************************************************)
\* WsServerTransport::send: to the open connection with the id of i, if there is one.
Deliver(as, i, msg) ==
  [j \in Conns |-> IF j \in live /\ idOf[j] = idOf[i] THEN Append(as[j], msg) ELSE as[j]]

\* Ids are counted from the start of the process, so that one that is still on the list
\* from before a restart may be given again.
Open(i) ==
  /\ live' = live \cup {i}
  /\ served' = served \cup {i}
  /\ \E id \in {i} \cup {idOf[w] : w \in Range(queue)} :
       /\ \A j \in served : idOf[j] # id
       /\ idOf' = [idOf EXCEPT ![i] = id]

SendWait(i) == waits' = waits \cup {i}

\* The gateway destroys its leg; what was on the way back is lost.
Close(ids) ==
  /\ live' = live \ ids
  /\ closed' = closed \cup (ids \cap live)
  /\ answers' = [i \in Conns |-> IF i \in ids THEN <<>> ELSE answers[i]]

(***************************************************************************)
(* onWaitRequest: the first waiter in range, or the end of the list.        *)
(***************************************************************************)
FirstInRange(i) ==
  {n \in DOMAIN queue : /\ <<queue[n], i>> \in InRange
                        /\ \A m \in 1 .. n - 1 : <<queue[m], i>> \notin InRange}

\* Mutant: the shard is chosen anew for each of the two.
PairOnTwoShards(w, i) ==
  LET k == Len(matches) + 1
      other == (nextShard + 1) % ShardCount
  IN  /\ queue' = RemoveFirst(queue, w)
      /\ members' = {j \in members : idOf[j] # idOf[w]}
      /\ matches' = Append(matches, [shard |-> nextShard, pair |-> <<w, i>>])
      /\ nextShard' = (nextShard + 2) % ShardCount
      /\ answers' = Deliver(Deliver(answers, w, Matched(k, nextShard)), i, Matched(k, other))

\* Mutant: the waiter is found but not taken off the list.
PairKeepsWaiter(w, i) ==
  LET msg == Matched(Len(matches) + 1, nextShard)
  IN  /\ members' = {j \in members : idOf[j] # idOf[w]}
      /\ matches' = Append(matches, [shard |-> nextShard, pair |-> <<w, i>>])
      /\ nextShard' = (nextShard + 1) % ShardCount
      /\ answers' = Deliver(Deliver(answers, w, msg), i, msg)
      /\ UNCHANGED queue

Pair(w, i) ==
  LET msg == Matched(Len(matches) + 1, nextShard)
  IN  /\ queue' = RemoveFirst(queue, w)   \* lremOne
      /\ members' = {j \in members : idOf[j] # idOf[w]}
      /\ matches' = Append(matches, [shard |-> nextShard, pair |-> <<w, i>>])
      /\ nextShard' = (nextShard + 1) % ShardCount
      /\ answers' = Deliver(Deliver(answers, w, msg), i, msg)

Enlist(i) ==
  /\ queue' = Append(queue, i)
  /\ members' = members \cup {i}
  /\ UNCHANGED <<matches, nextShard, answers>>

OnWaitRequest(i) ==
  /\ i \in waits
  /\ waits' = waits \ {i}
  /\ IF FirstInRange(i) = {} THEN Enlist(i) ELSE \E n \in FirstInRange(i) : Pair(queue[n], i)
  /\ UNCHANGED <<reaped, unlisted, live, closed, restarts, idVars>>

\* Messages of a connection are delivered before its end, or lost with it.
HandleDisconnect(i) ==
  /\ i \in closed
  /\ closed' = closed \ {i}
  /\ waits' = waits \ {i}
  /\ IF i \in members THEN queue' = RemoveFirst(queue, i) ELSE UNCHANGED queue
  /\ members' = members \ {i}
  /\ UNCHANGED <<matches, nextShard, reaped, unlisted, live, answers, restarts, idVars>>

(***************************************************************************)
(* sweepLoop                                                                *)
(***************************************************************************)
\* Mutant: no waiter ever expires.
ReapNobody(n) ==
  /\ n = 0 /\ reaped' = <<>>
  /\ UNCHANGED <<queue, matches, members, nextShard, unlisted, live, closed, waits, answers, restarts, idVars>>

Reap(n) ==
  /\ reaped = <<>>
  /\ n \in 1 .. Len(queue)
  /\ reaped' = SubSeq(queue, 1, n)
  /\ queue' = SubSeq(queue, n + 1, Len(queue))
  /\ UNCHANGED <<matches, members, nextShard, unlisted, live, closed, waits, answers, restarts, idVars>>

Unlist ==
  /\ reaped # <<>> /\ ~unlisted
  /\ members' = {j \in members : \A w \in Range(reaped) : idOf[j] # idOf[w]}
  /\ unlisted' = TRUE
  /\ UNCHANGED <<queue, matches, nextShard, reaped, live, closed, waits, answers, restarts, idVars>>

NotifyExpired ==
  /\ unlisted
  /\ answers' = Deliver(answers, Head(reaped), NoOpponent)
  /\ reaped' = Tail(reaped)
  /\ unlisted' = (Len(reaped) > 1)
  /\ UNCHANGED <<queue, matches, members, nextShard, live, closed, waits, restarts, idVars>>

(***************************************************************************)
(* The process starts anew: Redis keeps the list and the counter of rooms,  *)
(* everything else is lost and every connection breaks.                     *)
(***************************************************************************)
Restart ==
  /\ restarts < MaxRestarts /\ live # {}
  /\ restarts' = restarts + 1
  /\ members' = {} /\ nextShard' = 0 /\ reaped' = <<>> /\ unlisted' = FALSE
  /\ live' = {} /\ closed' = {} /\ waits' = {}
  /\ answers' = [i \in Conns |-> <<>>]
  /\ served' = {}
  /\ UNCHANGED <<queue, matches, idOf>>

MatchmakerNext ==
  \/ \E i \in Conns : OnWaitRequest(i) \/ HandleDisconnect(i)
  \/ \E n \in 1 .. Len(queue) : Reap(n)
  \/ Unlist \/ NotifyExpired \/ Restart

(***************************************************************************)
(* Properties                                                               *)
(***************************************************************************)
\* The connections that wait or are being told that they waited in vain.
Waiting == Range(queue) \cup Range(reaped)
PairOf(k) == Range(matches[k].pair)

\* A connection is on the list once, is matched once, with somebody else, and not while
\* it is on the list or being given up; and, until a restart leaves the list to be read
\* with ids of another process, no answer is on its way to one that waits.  So nobody is
\* answered twice, nor matched after NO_OPPONENT, nor matched to itself.
OneAnswer ==
  /\ \A m, n \in DOMAIN queue : queue[m] = queue[n] => m = n
  /\ Range(queue) \cap Range(reaped) = {}
  /\ \A k \in DOMAIN matches : matches[k].pair[1] # matches[k].pair[2]
  /\ \A k, l \in DOMAIN matches : k # l => PairOf(k) \cap PairOf(l) = {}
  /\ \A k \in DOMAIN matches : PairOf(k) \cap Waiting = {}
  /\ restarts = 0 =>
       \A i \in Conns : Len(answers[i]) <= 1 /\ (answers[i] # <<>> => i \notin Waiting)

=============================================================================
