-------------------------- MODULE ServerThreadsProofs --------------------------
(* Theorems about the threads of a game server, for any number of them.     *)
EXTENDS ServerThreads, FiniteSetTheorems, SequenceTheorems, TLAPS

-----------------------------------------------------------------------------
(* The inductive invariant *)

Message == [to : Conns, tracked : BOOLEAN]
Ops == {"message", "disconnect", "click", "tick", "reconnect", "enter", "flush"}
Steps == {"start", "registry", "rooms", "room", "flush", "send"}
CallRecord ==
  [op : Ops, conn : Threads \cup {Nobody}, step : Steps, todo : SUBSET Rooms,
   room : Rooms \cup {Nobody}, batch : SUBSET Message]

\* How far each kind of call can be.
Stages ==
  ({"message", "disconnect"} \X {"start", "registry"}) \cup {<<"tick", "registry">>}
    \cup ({"click", "tick", "reconnect", "enter", "disconnect"} \X {"rooms", "room"})
    \cup ({"flush"} \X {"flush", "send"})

CallOK(call) ==
  /\ call \in CallRecord
  /\ <<call.op, call.step>> \in Stages
  /\ call.op \notin {"flush", "tick"} => call.conn \in Conns
  /\ call.todo \subseteq DOMAIN members
  /\ call.step = "room" => call.room \in DOMAIN members
  /\ call.step # "send" => call.batch = {}

StacksOK ==
  /\ stack \in [Threads -> Seq(CallRecord)]
  /\ \A t \in Threads : \A i \in 1 .. Len(stack[t]) : CallOK(stack[t][i])

\* A call that is not the innermost is one that sends.
InnermostOnly ==
  \A t \in Threads : \A i \in 1 .. Len(stack[t]) - 1 : stack[t][i].step = "send"

RegistryOK ==
  /\ registryMutex \in Threads \cup {Nobody}
  /\ roomMutex \in [Rooms -> Threads \cup {Nobody}]
  /\ clients \subseteq Conns
  /\ session \in [Conns -> {"unborn", "pending", "authenticated", "none"}]
  /\ DOMAIN connectionRoom \subseteq Conns
  /\ \A c \in DOMAIN connectionRoom : connectionRoom[c] \in DOMAIN members
  /\ waiting \subseteq Conns
  /\ DOMAIN members \subseteq Rooms
  /\ \A r \in DOMAIN members : members[r] \subseteq Conns
  /\ pending \subseteq Message
  /\ fate \in {"unborn", "queued", "gone"}

\* Which calls work under which lock.
NeedsRegistry(call) ==
  \/ call.step = "registry"
  \/ call.op \in {"reconnect", "enter", "disconnect"} /\ call.step \in {"rooms", "room"}
NeedsRoom(call, r) == call.step = "room" /\ call.room = r

LocksAreHeld ==
  \A t \in Threads :
    /\ registryMutex = t <=> stack[t] # <<>> /\ NeedsRegistry(Top(t))
    /\ \A r \in Rooms : roomMutex[r] = t <=> stack[t] # <<>> /\ NeedsRoom(Top(t), r)

\* Whoever is queued, routed or about to be is logged in.
EntriesAreLoggedIn ==
  /\ \A c \in waiting \cup DOMAIN connectionRoom : session[c] = "authenticated"
  /\ \A t \in Threads :
       stack[t] # <<>> /\ Top(t).op = "reconnect" => session[Top(t).conn] = "authenticated"

Closing(c) ==
  \E t \in Threads : \E i \in 1 .. Len(stack[t]) :
    stack[t][i].op = "disconnect" /\ stack[t][i].conn = c
SessionsAreServed ==
  \A c \in Conns :
    session[c] \in {"pending", "authenticated"} => c \in clients \/ Closing(c)

\* The places of the tracked message: the Outbox, or a batch.
Queued(m) == m \in pending /\ m.tracked
Carried(t, i, m) == i \in 1 .. Len(stack[t]) /\ m \in stack[t][i].batch /\ m.tracked
Somewhere ==
  \E m \in Message : Queued(m) \/ \E t \in Threads, i \in Nat : Carried(t, i, m)
OnceQueued ==
  \A m \in Message : Queued(m) =>
    /\ \A n \in Message : Queued(n) => n = m
    /\ \A n \in Message, t \in Threads, i \in Nat : ~Carried(t, i, n)
OnceCarried ==
  \A m \in Message, t \in Threads, i \in Nat : Carried(t, i, m) =>
    \A n \in Message, u \in Threads, j \in Nat : Carried(u, j, n) => n = m /\ u = t /\ j = i
TrackedOnce ==
  /\ fate = "queued" <=> Somewhere
  /\ OnceQueued /\ OnceCarried

ThreadsInv ==
  /\ StacksOK /\ InnermostOnly /\ RegistryOK
  /\ LocksAreHeld /\ EntriesAreLoggedIn /\ SessionsAreServed /\ TrackedOnce

-----------------------------------------------------------------------------
(* What a step does to the stack of its thread *)

\* The calls below the innermost one.
Depth(t) == IF stack[t] = <<>> THEN 0 ELSE Len(stack[t]) - 1
Keeps(t) ==
  /\ stack' \in [Threads -> Seq(CallRecord)]
  /\ \A u \in Threads : u # t => stack'[u] = stack[u]
  /\ \A i \in 1 .. Depth(t) : stack'[t][i] = stack[t][i]
Replaced(t, call) ==
  /\ Keeps(t)
  /\ Len(stack'[t]) = Depth(t) + 1 /\ stack'[t][Depth(t) + 1] = call
Returned(t) ==
  Keeps(t) /\ Len(stack'[t]) = Depth(t)
Nested(t, outer, inner) ==
  /\ Keeps(t)
  /\ Len(stack'[t]) = Depth(t) + 2
  /\ stack'[t][Depth(t) + 1] = outer /\ stack'[t][Depth(t) + 2] = inner

LEMMA FrontOfStack ==
  ASSUME NEW s \in Seq(CallRecord), s # <<>>
  PROVE  /\ Front(s) \in Seq(CallRecord)
         /\ Len(s) \in Nat \ {0} /\ Len(Front(s)) = Len(s) - 1
         /\ \A i \in 1 .. Len(s) - 1 : Front(s)[i] = s[i]
         /\ Last(s) \in CallRecord
<1>1. Len(s) \in Nat /\ Len(s) # 0
  BY EmptySeq
<1>2. \A i \in 1 .. Len(s) - 1 : s[i] \in CallRecord
  BY <1>1
<1>3. /\ SubSeq(s, 1, Len(s) - 1) \in Seq(CallRecord)
      /\ Len(SubSeq(s, 1, Len(s) - 1)) = IF 1 <= Len(s) - 1 THEN Len(s) - 1 - 1 + 1 ELSE 0
      /\ \A i \in 1 .. Len(s) - 1 - 1 + 1 : SubSeq(s, 1, Len(s) - 1)[i] = s[1 + i - 1]
  BY <1>1, <1>2, SubSeqProperties
<1>4. Len(SubSeq(s, 1, Len(s) - 1)) = Len(s) - 1
  <2> DEFINE k == Len(s)
             sub == Len(SubSeq(s, 1, Len(s) - 1))
  <2>1. k \in Nat /\ k # 0 /\ sub = IF 1 <= k - 1 THEN k - 1 - 1 + 1 ELSE 0
    BY <1>1, <1>3
  <2> HIDE DEF k, sub
  <2>2. sub = k - 1
    BY <2>1
  <2> QED BY <2>2 DEF k, sub
<1>5. ASSUME NEW i \in 1 .. Len(s) - 1 PROVE SubSeq(s, 1, Len(s) - 1)[i] = s[i]
  <2>1. i \in 1 .. Len(s) - 1 - 1 + 1 /\ 1 + i - 1 = i
    BY <1>1
  <2> QED BY <1>3, <2>1
<1>6. s[Len(s)] \in CallRecord
  BY <1>1
<1> QED BY <1>1, <1>3, <1>4, <1>5, <1>6 DEF Front, Last

LEMMA DepthType ==
  ASSUME StacksOK, NEW t \in Threads
  PROVE  /\ Depth(t) \in Nat
         /\ stack[t] # <<>> => Len(stack[t]) = Depth(t) + 1 /\ Top(t) = stack[t][Depth(t) + 1]
         /\ stack[t] = <<>> => Len(stack[t]) = 0
         /\ stack[t] # <<>> => CallOK(Top(t))
<1>1. stack[t] \in Seq(CallRecord)
  BY DEF StacksOK
<1>2. CASE stack[t] = <<>>
  BY <1>2 DEF Depth
<1>3. CASE stack[t] # <<>>
  <2>1. Len(stack[t]) \in Nat \ {0} /\ Depth(t) = Len(stack[t]) - 1
    BY <1>1, <1>3, FrontOfStack DEF Depth
  <2>2. Top(t) = stack[t][Len(stack[t])]
    BY DEF Top, Last
  <2>3. Len(stack[t]) = Depth(t) + 1 /\ Len(stack[t]) \in 1 .. Len(stack[t])
    BY <2>1
  <2>4. CallOK(stack[t][Len(stack[t])])
    BY <2>3 DEF StacksOK
  <2> QED BY <2>1, <2>2, <2>3, <2>4, <1>3
<1> QED BY <1>2, <1>3

LEMMA GoesReplaces ==
  ASSUME StacksOK, NEW t \in Threads, NEW call \in CallRecord, stack[t] # <<>>, Goes(t, call)
  PROVE  Replaced(t, call)
<1> DEFINE s == stack[t]
           n == Append(Front(s), call)
<1>1. s \in Seq(CallRecord)
  BY DEF StacksOK
<1>2. stack' = [stack EXCEPT ![t] = n]
  BY DEF Goes
<1>3. Depth(t) = Len(s) - 1
  BY DEF Depth
<1> HIDE DEF s
<1>4. Front(s) \in Seq(CallRecord) /\ Len(s) \in Nat /\ Len(Front(s)) = Len(s) - 1
  BY <1>1, FrontOfStack DEF s
<1>5. \A i \in 1 .. Len(s) - 1 : Front(s)[i] = s[i]
  BY <1>1, FrontOfStack DEF s
<1>6. /\ n \in Seq(CallRecord)
      /\ Len(n) = Len(s) - 1 + 1 /\ n[Len(s) - 1 + 1] = call
      /\ \A i \in 1 .. Len(s) - 1 : n[i] = Front(s)[i]
  BY <1>4, AppendProperties
<1> HIDE DEF n
<1>7. stack' \in [Threads -> Seq(CallRecord)] /\ stack'[t] = n
      /\ \A u \in Threads : u # t => stack'[u] = stack[u]
  BY <1>2, <1>6 DEF StacksOK
<1> QED BY <1>3, <1>5, <1>6, <1>7 DEF Replaced, Keeps, s

LEMMA PushReplaces ==
  ASSUME StacksOK, NEW t \in Threads, NEW call \in CallRecord, stack[t] = <<>>, Push(t, call)
  PROVE  Replaced(t, call)
<1>1. stack' = [stack EXCEPT ![t] = <<call>>]
  <2>1. Append(<<>>, call) = <<call>>
    OBVIOUS
  <2> QED BY <2>1 DEF Push
<1>2. <<call>> \in Seq(CallRecord) /\ Len(<<call>>) = 1 /\ <<call>>[1] = call
  OBVIOUS
<1>3. Depth(t) = 0
  BY DEF Depth
<1>4. stack' \in [Threads -> Seq(CallRecord)] /\ stack'[t] = <<call>>
      /\ \A u \in Threads : u # t => stack'[u] = stack[u]
  BY <1>1, <1>2 DEF StacksOK
<1> QED BY <1>2, <1>3, <1>4 DEF Replaced, Keeps

LEMMA ReturnReturns ==
  ASSUME StacksOK, NEW t \in Threads, stack[t] # <<>>, Return(t)
  PROVE  Returned(t)
<1>1. stack[t] \in Seq(CallRecord)
  BY DEF StacksOK
<1>2. /\ Front(stack[t]) \in Seq(CallRecord)
      /\ Len(Front(stack[t])) = Len(stack[t]) - 1
      /\ \A i \in 1 .. Len(stack[t]) - 1 : Front(stack[t])[i] = stack[t][i]
  BY <1>1, FrontOfStack
<1>3. stack' \in [Threads -> Seq(CallRecord)] /\ stack'[t] = Front(stack[t])
      /\ \A u \in Threads : u # t => stack'[u] = stack[u]
  BY <1>2 DEF StacksOK, Return
<1> QED BY <1>2, <1>3 DEF Returned, Keeps, Depth

LEMMA NestNests ==
  ASSUME StacksOK, NEW t \in Threads, NEW outer \in CallRecord, NEW inner \in CallRecord,
         stack[t] # <<>>,
         stack' = [stack EXCEPT ![t] = Front(@) \o Append(<<outer>>, inner)]
  PROVE  Nested(t, outer, inner)
<1> DEFINE s == stack[t]
           two == Append(<<outer>>, inner)
           n == Front(s) \o two
<1>1. s \in Seq(CallRecord) /\ Depth(t) = Len(s) - 1
  BY DEF StacksOK, Depth
<1>2. stack' = [stack EXCEPT ![t] = n]
  OBVIOUS
<1>3. two \in Seq(CallRecord) /\ Len(two) = 2 /\ two[1] = outer /\ two[2] = inner
  <2>1. <<outer>> \in Seq(CallRecord) /\ Len(<<outer>>) = 1 /\ <<outer>>[1] = outer
    OBVIOUS
  <2> QED BY <2>1, AppendProperties
<1> HIDE DEF s
<1>4. Front(s) \in Seq(CallRecord) /\ Len(s) \in Nat \ {0} /\ Len(Front(s)) = Len(s) - 1
      /\ \A i \in 1 .. Len(s) - 1 : Front(s)[i] = s[i]
  BY <1>1, FrontOfStack DEF s
<1> HIDE DEF two
<1>5. /\ n \in Seq(CallRecord)
      /\ Len(n) = Len(Front(s)) + Len(two)
      /\ \A i \in 1 .. Len(Front(s)) + Len(two) :
           n[i] = IF i <= Len(Front(s)) THEN Front(s)[i] ELSE two[i - Len(Front(s))]
  BY <1>3, <1>4, ConcatProperties
<1> HIDE DEF n
<1>6. Len(n) = Len(s) + 1
  BY <1>3, <1>4, <1>5
<1>7. ASSUME NEW i \in 1 .. Len(s) - 1 PROVE n[i] = s[i]
  <2>1. i \in 1 .. Len(Front(s)) + Len(two) /\ i <= Len(Front(s))
    BY <1>3, <1>4
  <2> QED BY <1>4, <1>5, <2>1
<1>8. n[Len(s)] = outer /\ n[Len(s) + 1] = inner
  <2>1. Len(s) \in 1 .. Len(Front(s)) + Len(two) /\ ~(Len(s) <= Len(Front(s)))
        /\ Len(s) - Len(Front(s)) = 1
    BY <1>3, <1>4
  <2>2. Len(s) + 1 \in 1 .. Len(Front(s)) + Len(two) /\ ~(Len(s) + 1 <= Len(Front(s)))
        /\ Len(s) + 1 - Len(Front(s)) = 2
    BY <1>3, <1>4
  <2>3. n[Len(s)] = two[Len(s) - Len(Front(s))]
    BY <2>1, <1>5
  <2>4. n[Len(s) + 1] = two[Len(s) + 1 - Len(Front(s))]
    BY <2>2, <1>5
  <2> QED BY <2>1, <2>2, <2>3, <2>4, <1>3
<1>9. stack' \in [Threads -> Seq(CallRecord)] /\ stack'[t] = n
      /\ \A u \in Threads : u # t => stack'[u] = stack[u]
  BY <1>2, <1>5 DEF StacksOK
<1>10. Depth(t) + 1 = Len(s) /\ Depth(t) + 2 = Len(s) + 1
  BY <1>1, <1>4
<1> QED BY <1>1, <1>6, <1>7, <1>8, <1>9, <1>10 DEF Nested, Keeps, s

LEMMA StacksReplaced ==
  ASSUME StacksOK, InnermostOnly, NEW t \in Threads, NEW call \in CallRecord,
         Replaced(t, call), CallOK(call)', DOMAIN members \subseteq DOMAIN members'
  PROVE  StacksOK' /\ InnermostOnly'
<1>1. Depth(t) \in Nat /\ stack'[t] \in Seq(CallRecord)
  BY DepthType DEF Replaced, Keeps
<1>2. \A c : CallOK(c) => CallOK(c)'
  BY DEF CallOK
<1>3. \A i \in 1 .. Depth(t) : i \in 1 .. Len(stack[t]) /\ i \in 1 .. Len(stack[t]) - 1
  <2>1. CASE stack[t] = <<>>
    BY <2>1 DEF Depth
  <2>2. CASE stack[t] # <<>>
    BY <2>2, <1>1, DepthType
  <2> QED BY <2>1, <2>2
<1>4. StacksOK'
  <2>1. stack' \in [Threads -> Seq(CallRecord)]
    BY DEF Replaced, Keeps
  <2>2. ASSUME NEW u \in Threads, NEW i \in 1 .. Len(stack'[u])
        PROVE  CallOK(stack[u][i])'
    <3>1. CASE u # t
      <4>1. stack'[u] = stack[u]
        BY <3>1 DEF Replaced, Keeps
      <4> QED BY <4>1, <1>2 DEF StacksOK
    <3>2. CASE u = t /\ i = Depth(t) + 1
      BY <3>2 DEF Replaced
    <3>3. CASE u = t /\ i # Depth(t) + 1
      <4>1. i \in 1 .. Depth(t)
        BY <3>3, <1>1 DEF Replaced
      <4>2. stack'[t][i] = stack[t][i]
        BY <4>1 DEF Replaced, Keeps
      <4>3. CallOK(stack[t][i])
        BY <4>1, <1>3 DEF StacksOK
      <4> QED BY <3>3, <4>2, <4>3, <1>2
    <3> QED BY <3>1, <3>2, <3>3
  <2> QED BY <2>1, <2>2 DEF StacksOK
<1>5. InnermostOnly'
  <2>1. ASSUME NEW u \in Threads, NEW i \in 1 .. Len(stack'[u]) - 1
        PROVE  stack'[u][i].step = "send"
    <3>1. CASE u # t
      BY <3>1 DEF Replaced, Keeps, InnermostOnly
    <3>2. CASE u = t
      <4>1. i \in 1 .. Depth(t)
        BY <3>2, <1>1 DEF Replaced
      <4> QED BY <3>2, <4>1, <1>3 DEF Replaced, Keeps, InnermostOnly
    <3> QED BY <3>1, <3>2
  <2> QED BY <2>1 DEF InnermostOnly
<1> QED BY <1>4, <1>5

LEMMA TopReplaced ==
  ASSUME StacksOK, NEW t \in Threads, NEW call, Replaced(t, call)
  PROVE  stack'[t] # <<>> /\ Top(t)' = call
<1>1. Depth(t) \in Nat /\ Len(stack'[t]) = Depth(t) + 1 /\ stack'[t][Depth(t) + 1] = call
  BY DepthType DEF Replaced
<1>2. stack'[t] # <<>>
  <2>1. Len(<<>>) = 0
    OBVIOUS
  <2>2. Depth(t) + 1 # 0
    BY <1>1
  <2> QED BY <1>1, <2>1, <2>2
<1>3. Top(t)' = stack'[t][Len(stack'[t])]
  BY DEF Top, Last
<1> QED BY <1>1, <1>2, <1>3

\* The locks change hands as the calls of their holders do.
LocksFollow(t, call) ==
  /\ registryMutex' = t <=> NeedsRegistry(call)
  /\ \A r \in Rooms : roomMutex'[r] = t <=> NeedsRoom(call, r)
  /\ \A u \in Threads : u # t =>
       /\ registryMutex' = u <=> registryMutex = u
       /\ \A r \in Rooms : roomMutex'[r] = u <=> roomMutex[r] = u

LEMMA LocksReplaced ==
  ASSUME StacksOK, LocksAreHeld, NEW t \in Threads, NEW call, Replaced(t, call),
         LocksFollow(t, call)
  PROVE  LocksAreHeld'
<1> SUFFICES ASSUME NEW u \in Threads
             PROVE  /\ registryMutex' = u <=> stack'[u] # <<>> /\ NeedsRegistry(Top(u)')
                    /\ \A r \in Rooms :
                         roomMutex'[r] = u <=> stack'[u] # <<>> /\ NeedsRoom(Top(u)', r)
  BY DEF LocksAreHeld, NeedsRegistry, NeedsRoom
<1>1. CASE u = t
  <2>1. stack'[t] # <<>> /\ Top(t)' = call
    BY TopReplaced
  <2> QED BY <1>1, <2>1 DEF LocksFollow
<1>2. CASE u # t
  <2>1. stack'[u] = stack[u] /\ Top(u)' = Top(u)
    BY <1>2 DEF Replaced, Keeps, Top
  <2> QED BY <1>2, <2>1 DEF LocksFollow, LocksAreHeld
<1> QED BY <1>1, <1>2

\* A lock has one holder: two calls that need it are one.
LEMMA OneHolder ==
  ASSUME LocksAreHeld, NEW t \in Threads, NEW u \in Threads,
         stack[t] # <<>>, NeedsRegistry(Top(t)), stack[u] # <<>>, NeedsRegistry(Top(u))
  PROVE  u = t
  BY DEF LocksAreHeld

\* A session may change if its connection is not logged in, or under the registry's lock.
LoginsKept(t) ==
  \A c \in Conns : session[c] = "authenticated" =>
    \/ session'[c] = "authenticated"
    \/ stack[t] # <<>> /\ NeedsRegistry(Top(t))

LEMMA EntriesReplaced ==
  ASSUME StacksOK, LocksAreHeld, EntriesAreLoggedIn,
         NEW t \in Threads, NEW call, Replaced(t, call), LoginsKept(t),
         \A c \in waiting' \cup DOMAIN connectionRoom' : session'[c] = "authenticated",
         call.op = "reconnect" => session'[call.conn] = "authenticated"
  PROVE  EntriesAreLoggedIn'
<1> SUFFICES ASSUME NEW u \in Threads, stack'[u] # <<>>, Top(u)'.op = "reconnect"
             PROVE  session'[Top(u)'.conn] = "authenticated"
  BY DEF EntriesAreLoggedIn
<1>1. CASE u = t
  BY <1>1, TopReplaced
<1>2. CASE u # t
  <2>1. stack'[u] = stack[u] /\ Top(u)' = Top(u)
    BY <1>2 DEF Replaced, Keeps, Top
  <2>2. CallOK(Top(u)) /\ stack[u] # <<>> /\ Top(u).op = "reconnect"
    BY <2>1, DepthType
  <2>3. Top(u).conn \in Conns /\ Top(u).step \in {"rooms", "room"}
    BY <2>2 DEF CallOK, Stages
  <2>4. NeedsRegistry(Top(u))
    BY <2>2, <2>3 DEF NeedsRegistry
  <2>5. session[Top(u).conn] = "authenticated"
    BY <2>2 DEF EntriesAreLoggedIn
  <2>6. ~(stack[t] # <<>> /\ NeedsRegistry(Top(t)))
    BY <2>2, <2>4, <1>2, OneHolder
  <2> QED BY <2>1, <2>3, <2>5, <2>6 DEF LoginsKept
<1> QED BY <1>1, <1>2

\* A connection that has a session is served after a step if it was before.
Serves(call, c) == call.op = "disconnect" /\ call.conn = c
StaysServed(t, call) ==
  \A c \in Conns : session'[c] \in {"pending", "authenticated"} =>
    \/ c \in clients' \/ Serves(call, c)
    \/ /\ session[c] \in {"pending", "authenticated"} /\ c \notin clients
       /\ stack[t] # <<>> => ~Serves(Top(t), c)

LEMMA ClosingKept ==
  ASSUME StacksOK, NEW t \in Threads, Keeps(t), NEW c, Closing(c),
         stack[t] # <<>> => ~Serves(Top(t), c), Len(stack'[t]) >= Depth(t),
         Len(stack'[t]) \in Nat
  PROVE  Closing(c)'
<1>0. PICK u \in Threads : \E i \in 1 .. Len(stack[u]) : Serves(stack[u][i], c)
  BY DEF Closing, Serves
<1>1. PICK i \in 1 .. Len(stack[u]) : Serves(stack[u][i], c)
  BY <1>0
<1>2. CASE u # t
  <2>1. stack'[u] = stack[u]
    BY <1>2 DEF Keeps
  <2> QED BY <1>1, <2>1 DEF Closing, Serves
<1>3. CASE u = t
  <2>1. stack[t] # <<>> /\ Depth(t) \in Nat
    BY <1>1, <1>3, DepthType
  <2>2. i # Depth(t) + 1
    BY <1>1, <1>3, <2>1, DepthType
  <2>3. i \in 1 .. Depth(t)
    BY <1>3, <2>1, <2>2, DepthType
  <2>4. i \in 1 .. Len(stack'[t]) /\ stack'[t][i] = stack[t][i]
    BY <2>1, <2>3 DEF Keeps
  <2> QED BY <1>1, <1>3, <2>4 DEF Closing, Serves
<1> QED BY <1>2, <1>3

LEMMA ServedReplaced ==
  ASSUME StacksOK, SessionsAreServed, NEW t \in Threads, NEW call, Replaced(t, call),
         StaysServed(t, call)
  PROVE  SessionsAreServed'
<1> SUFFICES ASSUME NEW c \in Conns, session'[c] \in {"pending", "authenticated"}, c \notin clients'
             PROVE  Closing(c)'
  BY DEF SessionsAreServed, Closing
<1>1. Depth(t) \in Nat /\ Len(stack'[t]) = Depth(t) + 1 /\ stack'[t][Depth(t) + 1] = call
  BY DepthType DEF Replaced
<1>2. CASE Serves(call, c)
  BY <1>1, <1>2 DEF Closing, Serves
<1>3. CASE ~Serves(call, c)
  <2>1. session[c] \in {"pending", "authenticated"} /\ c \notin clients
        /\ (stack[t] # <<>> => ~Serves(Top(t), c))
    BY <1>3 DEF StaysServed
  <2>2. Closing(c)
    BY <2>1 DEF SessionsAreServed
  <2>3. Len(stack'[t]) >= Depth(t) /\ Len(stack'[t]) \in Nat /\ Keeps(t)
    BY <1>1 DEF Replaced
  <2> QED BY <2>1, <2>2, <2>3, ClosingKept
<1> QED BY <1>2, <1>3

\* No batch changes: neither the call that ends nor the one that begins is sending.
SameBatches ==
  \A u \in Threads, i \in Nat, m \in Message : Carried(u, i, m)' <=> Carried(u, i, m)

LEMMA CarriedReplaced ==
  ASSUME StacksOK, NEW t \in Threads, NEW call, Replaced(t, call),
         NEW u \in Threads, NEW i \in Nat, NEW m \in Message
  PROVE  /\ u # t => (Carried(u, i, m)' <=> Carried(u, i, m))
         /\ u = t /\ i # Depth(t) + 1 => (Carried(u, i, m)' <=> Carried(u, i, m))
         /\ u = t /\ i = Depth(t) + 1 => (Carried(u, i, m)' <=> m \in call.batch /\ m.tracked)
<1>1. /\ Depth(t) \in Nat
      /\ Len(stack'[t]) = Depth(t) + 1 /\ stack'[t][Depth(t) + 1] = call
      /\ Len(stack[t]) = Depth(t) + 1 \/ (Len(stack[t]) = 0 /\ Depth(t) = 0)
  BY DepthType DEF Replaced, Depth
<1>2. CASE u # t
  BY <1>2 DEF Replaced, Keeps, Carried
<1>3. CASE u = t /\ i = Depth(t) + 1
  BY <1>1, <1>3 DEF Carried
<1>4. CASE u = t /\ i # Depth(t) + 1
  <2>1. i \in 1 .. Len(stack'[t]) <=> i \in 1 .. Depth(t)
    BY <1>1, <1>4
  <2>2. i \in 1 .. Len(stack[t]) <=> i \in 1 .. Depth(t)
    BY <1>1, <1>4
  <2>3. i \in 1 .. Depth(t) => stack'[t][i] = stack[t][i]
    BY DEF Replaced, Keeps
  <2> QED BY <2>1, <2>2, <2>3, <1>4 DEF Carried
<1> QED BY <1>2, <1>3, <1>4

\* What the innermost call carries.
LEMMA CarriedOnTop ==
  ASSUME StacksOK, NEW t \in Threads, NEW m \in Message
  PROVE  Carried(t, Depth(t) + 1, m) <=> stack[t] # <<>> /\ m \in Top(t).batch /\ m.tracked
<1>1. Depth(t) \in Nat
  BY DepthType
<1>2. CASE stack[t] = <<>>
  BY <1>1, <1>2, DepthType DEF Carried
<1>3. CASE stack[t] # <<>>
  <2>1. Len(stack[t]) = Depth(t) + 1 /\ Top(t) = stack[t][Depth(t) + 1]
    BY <1>3, DepthType
  <2> QED BY <1>1, <1>3, <2>1 DEF Carried
<1> QED BY <1>2, <1>3

LEMMA BatchesReplaced ==
  ASSUME StacksOK, NEW t \in Threads, NEW call, Replaced(t, call), call.batch = {},
         stack[t] # <<>> => Top(t).batch = {}
  PROVE  SameBatches
<1> SUFFICES ASSUME NEW u \in Threads, NEW i \in Nat, NEW m \in Message
             PROVE  Carried(u, i, m)' <=> Carried(u, i, m)
  BY DEF SameBatches
<1>1. CASE u = t /\ i = Depth(t) + 1
  <2>1. ~Carried(u, i, m)'
    BY <1>1, CarriedReplaced
  <2>2. ~Carried(u, i, m)
    BY <1>1, CarriedOnTop
  <2> QED BY <2>1, <2>2
<1>2. CASE ~(u = t /\ i = Depth(t) + 1)
  BY <1>2, CarriedReplaced
<1> QED BY <1>1, <1>2

LEMMA EnqueuedOnce ==
  ASSUME RegistryOK, TrackedOnce, SameBatches, NEW recipients \in SUBSET Conns, Enqueue(recipients)
  PROVE  TrackedOnce' /\ (pending \subseteq Message /\ fate \in {"unborn", "queued", "gone"})'
<1>1. \A c \in recipients : Plain(c) \in Message /\ ~Plain(c).tracked
      /\ Tracked(c) \in Message /\ Tracked(c).tracked
  BY DEF Plain, Tracked, Message
<1>2. CASE pending' = pending \cup {Plain(c) : c \in recipients} /\ UNCHANGED fate
  <2>1. \A m \in Message : Queued(m)' <=> Queued(m)
    BY <1>1, <1>2 DEF Queued
  <2>2. pending' \subseteq Message /\ fate' = fate
    BY <1>1, <1>2 DEF RegistryOK
  <2>3. Somewhere' <=> Somewhere
    BY <2>1 DEF Somewhere, SameBatches
  <2>4. OnceQueued'
    BY <2>1 DEF OnceQueued, TrackedOnce, SameBatches
  <2>5. OnceCarried'
    BY DEF OnceCarried, TrackedOnce, SameBatches
  <2> QED BY <2>2, <2>3, <2>4, <2>5 DEF TrackedOnce, RegistryOK
<1>3. CASE /\ fate = "unborn" /\ fate' = "queued"
           /\ \E c \in recipients :
                pending' = pending \cup {Plain(d) : d \in recipients \ {c}} \cup {Tracked(c)}
  <2>1. PICK c \in recipients :
          pending' = pending \cup {Plain(d) : d \in recipients \ {c}} \cup {Tracked(c)}
    BY <1>3
  <2>2. ~Somewhere
    BY <1>3 DEF TrackedOnce
  <2>3. \A m \in Message : Queued(m)' <=> m = Tracked(c)
    <3>1. \A m \in Message : ~Queued(m)
      BY <2>2 DEF Somewhere
    <3> QED BY <1>1, <2>1, <3>1 DEF Queued
  <2>4. \A m \in Message, t \in Threads, i \in Nat : ~Carried(t, i, m)'
    BY <2>2 DEF Somewhere, SameBatches
  <2>5. Somewhere'
    BY <1>1, <2>3 DEF Somewhere
  <2>6. OnceQueued' /\ OnceCarried'
    BY <2>3, <2>4 DEF OnceQueued, OnceCarried
  <2>7. pending' \subseteq Message
    BY <1>1, <2>1 DEF RegistryOK
  <2> QED BY <1>3, <2>5, <2>6, <2>7 DEF TrackedOnce
<1> QED BY <1>2, <1>3 DEF Enqueue

\* What a handler may tell: nobody, or some connections.
Tells == UNCHANGED <<pending, fate>> \/ \E recipients \in SUBSET Conns : Enqueue(recipients)

LEMMA ToldOnce ==
  ASSUME RegistryOK, TrackedOnce, SameBatches, Tells
  PROVE  TrackedOnce' /\ (pending \subseteq Message /\ fate \in {"unborn", "queued", "gone"})'
<1>1. CASE UNCHANGED <<pending, fate>>
  <2>1. \A m \in Message : Queued(m)' <=> Queued(m)
    BY <1>1 DEF Queued
  <2>2. Somewhere' <=> Somewhere
    BY <2>1 DEF Somewhere, SameBatches
  <2>3. OnceQueued'
    BY <2>1 DEF OnceQueued, TrackedOnce, SameBatches
  <2>4. OnceCarried'
    BY DEF OnceCarried, TrackedOnce, SameBatches
  <2> QED BY <1>1, <2>2, <2>3, <2>4 DEF TrackedOnce, RegistryOK
<1>2. CASE \E recipients \in SUBSET Conns : Enqueue(recipients)
  BY <1>2, EnqueuedOnce
<1> QED BY <1>1, <1>2 DEF Tells

-----------------------------------------------------------------------------
(* A step that replaces the innermost call by another, neither of them sending *)

\* The part of RegistryOK that handlers change.
TablesOK ==
  /\ registryMutex \in Threads \cup {Nobody}
  /\ roomMutex \in [Rooms -> Threads \cup {Nobody}]
  /\ clients \subseteq Conns
  /\ session \in [Conns -> {"unborn", "pending", "authenticated", "none"}]
  /\ DOMAIN connectionRoom \subseteq Conns
  /\ \A c \in DOMAIN connectionRoom : connectionRoom[c] \in DOMAIN members
  /\ waiting \subseteq Conns
  /\ DOMAIN members \subseteq Rooms
  /\ \A r \in DOMAIN members : members[r] \subseteq Conns

LEMMA Replacement ==
  ASSUME ThreadsInv, NEW t \in Threads, NEW call \in CallRecord, Replaced(t, call),
         CallOK(call)', call.batch = {}, stack[t] # <<>> => Top(t).batch = {},
         TablesOK', DOMAIN members \subseteq DOMAIN members',
         LocksFollow(t, call), LoginsKept(t),
         \A c \in waiting' \cup DOMAIN connectionRoom' : session'[c] = "authenticated",
         call.op = "reconnect" => session'[call.conn] = "authenticated",
         StaysServed(t, call), Tells
  PROVE  ThreadsInv'
<1>1. StacksOK' /\ InnermostOnly'
  BY StacksReplaced DEF ThreadsInv
<1>2. LocksAreHeld'
  BY LocksReplaced DEF ThreadsInv
<1>3. EntriesAreLoggedIn'
  BY EntriesReplaced DEF ThreadsInv
<1>4. SessionsAreServed'
  BY ServedReplaced DEF ThreadsInv
<1>5. TrackedOnce' /\ (pending \subseteq Message /\ fate \in {"unborn", "queued", "gone"})'
  BY BatchesReplaced, ToldOnce DEF ThreadsInv
<1>6. RegistryOK'
  BY <1>5 DEF TablesOK, RegistryOK
<1> QED BY <1>1, <1>2, <1>3, <1>4, <1>5, <1>6 DEF ThreadsInv

LEMMA AtTheTop ==
  ASSUME ThreadsInv, NEW t \in Threads, stack[t] # <<>>
  PROVE  /\ CallOK(Top(t))
         /\ registryMutex = t <=> NeedsRegistry(Top(t))
         /\ \A r \in Rooms : roomMutex[r] = t <=> NeedsRoom(Top(t), r)
         /\ t # Nobody
  BY DepthType, ThreadsAssumption DEF ThreadsInv, LocksAreHeld

\* What changes neither who is served nor the registry.
LEMMA QuietRegistry ==
  ASSUME ThreadsInv, NEW t \in Threads, UNCHANGED registry
  PROVE  /\ LoginsKept(t)
         /\ \A c \in waiting' \cup DOMAIN connectionRoom' : session'[c] = "authenticated"
  BY DEF ThreadsInv, EntriesAreLoggedIn, LoginsKept, registry

LEMMA CallIn ==
  ASSUME NEW op \in Ops, NEW conn \in Threads \cup {Nobody}, NEW step \in Steps,
         NEW todo \in SUBSET Rooms, NEW room \in Rooms \cup {Nobody}, NEW batch \in SUBSET Message
  PROVE  [op |-> op, conn |-> conn, step |-> step, todo |-> todo, room |-> room, batch |-> batch]
           \in CallRecord
  BY DEF CallRecord

FlushCall == [Call("flush", Nobody) EXCEPT !.step = "flush"]

LEMMA FlushCallOK ==
  /\ FlushCall \in CallRecord /\ CallOK(FlushCall)' /\ FlushCall.batch = {}
  /\ ~NeedsRegistry(FlushCall) /\ \A r : ~NeedsRoom(FlushCall, r)
  /\ FlushCall.op = "flush"
<1>1. FlushCall = [op |-> "flush", conn |-> Nobody, step |-> "flush", todo |-> {},
                   room |-> Nobody, batch |-> {}]
  BY DEF FlushCall, Call
<1>2. FlushCall \in CallRecord
  <2>1. {} \in SUBSET Rooms /\ {} \in SUBSET Message /\ "flush" \in Ops /\ "flush" \in Steps
        /\ Nobody \in Threads \cup {Nobody} /\ Nobody \in Rooms \cup {Nobody}
    BY DEF Ops, Steps
  <2> QED BY <1>1, <2>1, CallIn
<1>3. <<FlushCall.op, FlushCall.step>> \in Stages
  BY <1>1 DEF Stages
<1> QED BY <1>1, <1>2, <1>3 DEF CallOK, NeedsRegistry, NeedsRoom

\* The end of a handler: what it held is released, and the Outbox is flushed.
LEMMA Flushing ==
  ASSUME ThreadsInv, NEW t \in Threads, stack[t] # <<>>, Top(t).step # "send", GotoFlush(t),
         TablesOK', DOMAIN members \subseteq DOMAIN members',
         registryMutex' # t, \A r \in Rooms : roomMutex'[r] # t,
         \A u \in Threads : u # t =>
           /\ registryMutex' = u <=> registryMutex = u
           /\ \A r \in Rooms : roomMutex'[r] = u <=> roomMutex[r] = u,
         LoginsKept(t),
         \A c \in waiting' \cup DOMAIN connectionRoom' : session'[c] = "authenticated",
         StaysServed(t, FlushCall), Tells
  PROVE  ThreadsInv'
<1>1. Replaced(t, FlushCall)
  BY FlushCallOK, GoesReplaces DEF GotoFlush, FlushCall, ThreadsInv
<1>2. Top(t).batch = {}
  BY AtTheTop DEF CallOK
<1>3. LocksFollow(t, FlushCall)
  BY FlushCallOK DEF LocksFollow
<1>4. FlushCall.op # "reconnect"
  BY FlushCallOK
<1> HIDE DEF FlushCall
<1> QED BY <1>1, <1>2, <1>3, <1>4, FlushCallOK, Replacement

\* A call goes on to another step.
GoesOn(top, op, step, room, todo, call) ==
  /\ call = [top EXCEPT !.op = op, !.step = step, !.room = room, !.todo = todo]
  /\ call.op = op /\ call.conn = top.conn /\ call.step = step
  /\ call.room = room /\ call.todo = todo /\ call.batch = top.batch

LEMMA Onward ==
  ASSUME NEW top \in CallRecord,
         NEW op \in Ops, NEW step \in Steps, NEW room \in Rooms \cup {Nobody},
         NEW todo \in SUBSET Rooms
  PROVE  \E call \in CallRecord : GoesOn(top, op, step, room, todo, call)
<1> DEFINE call == [top EXCEPT !.op = op, !.step = step, !.room = room, !.todo = todo]
<1>1. call \in CallRecord
  BY DEF CallRecord
<1>2. /\ call.op = op /\ call.conn = top.conn /\ call.step = step
      /\ call.room = room /\ call.todo = todo /\ call.batch = top.batch
  BY DEF CallRecord
<1> HIDE DEF call
<1>3. \E x \in CallRecord :
        /\ x = call
        /\ x.op = op /\ x.conn = top.conn /\ x.step = step
        /\ x.room = room /\ x.todo = todo /\ x.batch = top.batch
  BY <1>1, <1>2
<1> QED BY <1>3 DEF call, GoesOn

\* The end of a use of a room.
LEMMA NextRoom ==
  ASSUME ThreadsInv, NEW t \in Threads, stack[t] # <<>>, Top(t).step = "room", GotoRooms(t),
         UNCHANGED <<registryMutex, clients, registry>>, UnlockRoom(t),
         TablesOK', DOMAIN members \subseteq DOMAIN members', Tells
  PROVE  ThreadsInv'
<1>1. /\ CallOK(Top(t))
      /\ registryMutex = t <=> NeedsRegistry(Top(t))
      /\ \A r \in Rooms : roomMutex[r] = t <=> NeedsRoom(Top(t), r)
      /\ t # Nobody
  BY AtTheTop
<1>2. Top(t).room \in Rooms /\ Top(t).batch = {}
  BY <1>1 DEF CallOK, ThreadsInv, RegistryOK
<1>3. \A r \in Rooms : roomMutex'[r] # t
  BY <1>1, <1>2 DEF UnlockRoom, NeedsRoom, ThreadsInv, RegistryOK
<1>4. \A u \in Threads : u # t => \A r \in Rooms : roomMutex'[r] = u <=> roomMutex[r] = u
  BY <1>1, <1>2, ThreadsAssumption DEF UnlockRoom, NeedsRoom, ThreadsInv, RegistryOK
<1>5. /\ LoginsKept(t)
      /\ \A c \in waiting' \cup DOMAIN connectionRoom' : session'[c] = "authenticated"
  BY QuietRegistry DEF registry
<1>6. CASE Top(t).todo = {} /\ Top(t).op \in {"click", "tick"}
  <2>1. GotoFlush(t)
    BY <1>6 DEF GotoRooms
  <2>2. registryMutex' # t
    BY <1>1, <1>6 DEF NeedsRegistry
  <2>3. StaysServed(t, FlushCall)
    BY <1>6 DEF StaysServed, Serves, ThreadsInv, SessionsAreServed, registry
  <2> QED BY <1>3, <1>4, <1>5, <2>1, <2>2, <2>3, Flushing
<1>7. CASE ~(Top(t).todo = {} /\ Top(t).op \in {"click", "tick"})
  <2>0. /\ Top(t) \in CallRecord /\ Top(t).op \in Ops /\ Top(t).todo \in SUBSET Rooms
        /\ "rooms" \in Steps /\ Nobody \in Rooms \cup {Nobody}
    BY <1>1 DEF CallOK, CallRecord, Steps
  <2> DEFINE next == [Top(t) EXCEPT !.step = "rooms", !.room = Nobody]
  <2>9. Goes(t, next)
    BY <1>7 DEF GotoRooms
  <2>8. [Top(t) EXCEPT !.op = Top(t).op, !.step = "rooms", !.room = Nobody,
                       !.todo = Top(t).todo] = next
    BY <2>0 DEF CallRecord
  <2> HIDE DEF next
  <2>11. PICK call \in CallRecord :
           GoesOn(Top(t), Top(t).op, "rooms", Nobody, Top(t).todo, call)
    BY <2>0, Onward
  <2>2. /\ call = [Top(t) EXCEPT !.op = Top(t).op, !.step = "rooms", !.room = Nobody,
                                 !.todo = Top(t).todo]
        /\ call.op = Top(t).op /\ call.conn = Top(t).conn /\ call.step = "rooms"
        /\ call.room = Nobody /\ call.todo = Top(t).todo /\ call.batch = Top(t).batch
    BY <2>11 DEF GoesOn
  <2>1. Goes(t, call) /\ call.batch = {}
    BY <1>2, <2>2, <2>8, <2>9
  <2>3. <<call.op, call.step>> \in Stages
    BY <1>1, <2>2 DEF CallOK, Stages
  <2>4. CallOK(call)'
    BY <1>1, <2>1, <2>2, <2>3 DEF CallOK
  <2>5. Replaced(t, call)
    BY <2>1, <2>2, GoesReplaces DEF ThreadsInv
  <2>6. LocksFollow(t, call)
    BY <1>1, <1>3, <1>4, <2>2 DEF LocksFollow, NeedsRegistry, NeedsRoom
  <2>7. StaysServed(t, call)
    BY <2>2 DEF StaysServed, Serves, ThreadsInv, SessionsAreServed, registry
  <2>10. call.op = "reconnect" => session'[call.conn] = "authenticated"
    BY <2>2 DEF ThreadsInv, EntriesAreLoggedIn, registry
  <2> QED BY <1>2, <1>5, <2>1, <2>2, <2>4, <2>5, <2>6, <2>7, <2>10, Replacement
<1> QED BY <1>6, <1>7

GoesTo(t, op, step, room, todo) ==
  Goes(t, [Top(t) EXCEPT !.op = op, !.step = step, !.room = room, !.todo = todo])
WentTo(t, op, step, room, todo, call) ==
  /\ Replaced(t, call)
  /\ call.op = op /\ call.conn = Top(t).conn /\ call.step = step
  /\ call.room = room /\ call.todo = todo /\ call.batch = Top(t).batch

LEMMA GoesOnward ==
  ASSUME ThreadsInv, NEW t \in Threads, stack[t] # <<>>,
         NEW op \in Ops, NEW step \in Steps, NEW room \in Rooms \cup {Nobody},
         NEW todo \in SUBSET Rooms, GoesTo(t, op, step, room, todo)
  PROVE  \E call \in CallRecord : WentTo(t, op, step, room, todo, call)
<1>1. Top(t) \in CallRecord
  BY AtTheTop DEF CallOK
<1>2. PICK call \in CallRecord : GoesOn(Top(t), op, step, room, todo, call)
  BY <1>1, Onward
<1>3. Goes(t, call)
  BY <1>2 DEF GoesOn, GoesTo
<1>4. Replaced(t, call)
  BY <1>3, GoesReplaces DEF ThreadsInv
<1> QED BY <1>2, <1>4 DEF GoesOn, WentTo

-----------------------------------------------------------------------------
(* The actions, one by one *)

LEMMA NewCall ==
  ASSUME NEW op \in Ops, NEW c \in Threads \cup {Nobody}, NEW step \in Steps
  PROVE  /\ Call(op, c) \in CallRecord
         /\ Call(op, c).op = op /\ Call(op, c).conn = c /\ Call(op, c).step = "start"
         /\ Call(op, c).todo = {} /\ Call(op, c).room = Nobody /\ Call(op, c).batch = {}
<1>1. {} \in SUBSET Rooms /\ {} \in SUBSET Message /\ "start" \in Steps /\ Nobody \in Rooms \cup {Nobody}
  BY DEF Steps
<1> QED BY <1>1, CallIn DEF Call

\* A call begins on an idle thread.
LEMMA Beginning ==
  ASSUME ThreadsInv, NEW t \in Threads, stack[t] = <<>>,
         NEW op \in {"message", "disconnect"}, NEW c \in Conns, Push(t, Call(op, c)),
         UNCHANGED <<registryMutex, roomMutex, registry, members, pending, fate>>,
         clients' \subseteq clients,
         \A d \in Conns : d \in clients => d \in clients' \/ (op = "disconnect" /\ d = c)
  PROVE  ThreadsInv'
<1>1. op \in Ops /\ c \in Threads \cup {Nobody} /\ "start" \in Steps
  BY DEF Ops, Steps, Threads
<1>2. PICK call \in CallRecord : call = Call(op, c)
  BY <1>1, NewCall
<1>3. call.op = op /\ call.conn = c /\ call.step = "start" /\ call.todo = {} /\ call.batch = {}
  BY <1>1, <1>2, NewCall
<1>4. Replaced(t, call)
  BY <1>2, PushReplaces DEF ThreadsInv
<1>5. CallOK(call)'
  <2>1. <<call.op, call.step>> \in Stages
    BY <1>3 DEF Stages
  <2> QED BY <1>3, <2>1 DEF CallOK
<1>6. LocksFollow(t, call)
  BY <1>3 DEF LocksFollow, NeedsRegistry, NeedsRoom, ThreadsInv, LocksAreHeld
<1>7. StaysServed(t, call)
  BY <1>3 DEF StaysServed, Serves, registry, ThreadsInv, SessionsAreServed
<1>8. TablesOK' /\ Tells
  BY DEF TablesOK, Tells, ThreadsInv, RegistryOK, registry
<1>9. /\ LoginsKept(t)
      /\ \A d \in waiting' \cup DOMAIN connectionRoom' : session'[d] = "authenticated"
  BY QuietRegistry
<1> QED BY <1>3, <1>4, <1>5, <1>6, <1>7, <1>8, <1>9, Replacement

LEMMA ReceiveStep ==
  ASSUME ThreadsInv, NEW c \in Conns, Receive(c)
  PROVE  ThreadsInv'
  BY Beginning DEF Receive, Threads

LEMMA LostStep ==
  ASSUME ThreadsInv, NEW c \in Conns, Lost(c)
  PROVE  ThreadsInv'
  BY Beginning DEF Lost, Close, Threads

LEMMA OpenStep ==
  ASSUME ThreadsInv, NEW c \in Conns, Open(c)
  PROVE  ThreadsInv'
<1>1. \A d : CallOK(d) => CallOK(d)'
  BY DEF CallOK, Open
<1>2. StacksOK' /\ InnermostOnly' /\ LocksAreHeld'
  BY <1>1 DEF ThreadsInv, StacksOK, InnermostOnly, LocksAreHeld, Open, Top
<1>3. RegistryOK'
  BY DEF ThreadsInv, RegistryOK, Open
<1>4. EntriesAreLoggedIn'
  <2>1. \A d \in Conns : session[d] = "authenticated" => session'[d] = "authenticated"
    BY DEF Open, ThreadsInv, RegistryOK
  <2>2. \A t \in Threads : stack[t] # <<>> /\ Top(t).op = "reconnect" => Top(t).conn \in Conns
    BY AtTheTop DEF CallOK
  <2>3. \A t \in Threads : Top(t)' = Top(t)
    BY DEF Top, Open
  <2> QED BY <2>1, <2>2, <2>3 DEF ThreadsInv, EntriesAreLoggedIn, RegistryOK, Open
<1>5. SessionsAreServed'
  BY DEF ThreadsInv, SessionsAreServed, Closing, RegistryOK, Open
<1>6. TrackedOnce'
  BY DEF ThreadsInv, TrackedOnce, Somewhere, OnceQueued, OnceCarried, Queued, Carried, Open
<1> QED BY <1>2, <1>3, <1>4, <1>5, <1>6 DEF ThreadsInv

LEMMA StartTickStep ==
  ASSUME ThreadsInv, StartTick
  PROVE  ThreadsInv'
<1> DEFINE t == Ticker
           next == [Call("tick", Ticker) EXCEPT !.step = "registry"]
<1>1. t \in Threads /\ t \in Threads \cup {Nobody} /\ "tick" \in Ops /\ "registry" \in Steps
  BY DEF Threads, Ops, Steps
<1>2. next = [op |-> "tick", conn |-> Ticker, step |-> "registry", todo |-> {},
              room |-> Nobody, batch |-> {}]
  BY DEF Call
<1>3. next \in CallRecord
  <2>1. {} \in SUBSET Rooms /\ {} \in SUBSET Message /\ Nobody \in Rooms \cup {Nobody}
    OBVIOUS
  <2> QED BY <1>1, <1>2, <2>1, CallIn
<1>4. Replaced(t, next)
  BY <1>1, <1>3, PushReplaces DEF StartTick, ThreadsInv
<1>5. <<next.op, next.step>> \in Stages
  BY <1>2 DEF Stages
<1>6. /\ next.op = "tick" /\ next.step = "registry" /\ next.todo = {} /\ next.batch = {}
  BY <1>2
<1> HIDE DEF next
<1>7. CallOK(next)'
  BY <1>3, <1>5, <1>6 DEF CallOK
<1>8. LocksFollow(t, next)
  BY <1>1, <1>6, ThreadsAssumption
  DEF LocksFollow, NeedsRegistry, NeedsRoom, ThreadsInv, LocksAreHeld, StartTick, Nobody
<1>9. StaysServed(t, next)
  BY <1>6 DEF StaysServed, Serves, registry, ThreadsInv, SessionsAreServed, StartTick
<1>10. TablesOK' /\ Tells /\ DOMAIN members \subseteq DOMAIN members' /\ UNCHANGED registry
  BY <1>1 DEF TablesOK, Tells, ThreadsInv, RegistryOK, registry, StartTick
<1>11. /\ LoginsKept(t)
       /\ \A d \in waiting' \cup DOMAIN connectionRoom' : session'[d] = "authenticated"
  BY <1>1, <1>10, QuietRegistry
<1>12. stack[t] = <<>>
  BY DEF StartTick
<1> QED BY <1>1, <1>3, <1>4, <1>6, <1>7, <1>8, <1>9, <1>10, <1>11, <1>12, Replacement

LEMMA LockRegistryStep ==
  ASSUME ThreadsInv, NEW t \in Threads, LockRegistry(t)
  PROVE  ThreadsInv'
<1>1. /\ stack[t] # <<>> /\ Top(t).step = "start" /\ CallOK(Top(t)) /\ registryMutex = Nobody
      /\ registryMutex' = t
      /\ UNCHANGED <<roomMutex, clients, registry, members, pending, fate>>
  BY AtTheTop DEF LockRegistry, AtStep
<1> DEFINE next == [Top(t) EXCEPT !.step = "registry"]
<1>2. /\ Top(t).op \in Ops /\ Top(t).room \in Rooms \cup {Nobody} /\ Top(t).todo \in SUBSET Rooms
      /\ "registry" \in Steps
  BY <1>1 DEF CallOK, CallRecord, Steps
<1>3. next = [Top(t) EXCEPT !.op = Top(t).op, !.step = "registry", !.room = Top(t).room,
                            !.todo = Top(t).todo]
  BY <1>1 DEF CallOK, CallRecord
<1> HIDE DEF next
<1>4. GoesTo(t, Top(t).op, "registry", Top(t).room, Top(t).todo)
  BY <1>3 DEF LockRegistry, Goto, GoesTo, next
<1>12. PICK call \in CallRecord :
         WentTo(t, Top(t).op, "registry", Top(t).room, Top(t).todo, call)
  BY <1>1, <1>2, <1>4, GoesOnward
<1>5. /\ Replaced(t, call)
      /\ call.op = Top(t).op /\ call.conn = Top(t).conn /\ call.step = "registry"
      /\ call.room = Top(t).room /\ call.todo = Top(t).todo /\ call.batch = Top(t).batch
  BY <1>12 DEF WentTo
<1>6. CallOK(call)' /\ Top(t).batch = {}
  <2>1. <<call.op, call.step>> \in Stages
    BY <1>1, <1>5 DEF CallOK, Stages
  <2> QED BY <1>1, <1>5, <2>1 DEF CallOK
<1>7. LocksFollow(t, call)
  BY <1>1, <1>5, ThreadsAssumption
  DEF LocksFollow, NeedsRegistry, NeedsRoom, ThreadsInv, LocksAreHeld
<1>8. StaysServed(t, call)
  BY <1>1, <1>5 DEF StaysServed, Serves, registry, ThreadsInv, SessionsAreServed
<1>9. TablesOK' /\ Tells /\ UNCHANGED registry
  BY <1>1 DEF TablesOK, Tells, ThreadsInv, RegistryOK, registry
<1>10. /\ LoginsKept(t)
       /\ \A d \in waiting' \cup DOMAIN connectionRoom' : session'[d] = "authenticated"
  BY <1>9, QuietRegistry
<1>11. call.op # "reconnect"
  BY <1>1, <1>5 DEF CallOK, Stages
<1> QED BY <1>1, <1>5, <1>6, <1>7, <1>8, <1>9, <1>10, <1>11, Replacement

\* Under the registry's lock alone.
LEMMA InRegistry ==
  ASSUME ThreadsInv, NEW t \in Threads, stack[t] # <<>>, Top(t).step = "registry"
  PROVE  /\ CallOK(Top(t)) /\ Top(t).batch = {}
         /\ Top(t).op \in {"message", "disconnect", "tick"}
         /\ Top(t).op # "tick" => Top(t).conn \in Conns
         /\ registryMutex = t /\ \A r \in Rooms : roomMutex[r] # t
         /\ NeedsRegistry(Top(t))
         /\ \A u \in Threads : u # t => registryMutex # u
         /\ t # Nobody
  BY AtTheTop DEF CallOK, Stages, NeedsRegistry, NeedsRoom

\* A handler that lets go of the registry and flushes.
LEMMA LeavesRegistry ==
  ASSUME ThreadsInv, NEW t \in Threads, stack[t] # <<>>, Top(t).step = "registry",
         UnlockRegistry, GotoFlush(t), UNCHANGED <<roomMutex, clients, members>>,
         TablesOK',
         \A c \in waiting' \cup DOMAIN connectionRoom' : session'[c] = "authenticated",
         StaysServed(t, FlushCall), Tells
  PROVE  ThreadsInv'
<1>1. /\ Top(t).step # "send"
      /\ registryMutex' # t /\ \A r \in Rooms : roomMutex'[r] # t
      /\ \A u \in Threads : u # t =>
           /\ registryMutex' = u <=> registryMutex = u
           /\ \A r \in Rooms : roomMutex'[r] = u <=> roomMutex[r] = u
      /\ LoginsKept(t)
  BY InRegistry, ThreadsAssumption DEF UnlockRegistry, LoginsKept
<1> QED BY <1>1, Flushing

LEMMA LoginStep ==
  ASSUME ThreadsInv, NEW t \in Threads, Login(t)
  PROVE  ThreadsInv'
<1> DEFINE c == Top(t).conn
<1>1. /\ stack[t] # <<>> /\ Top(t).op = "message" /\ Top(t).step = "registry"
      /\ session[c] = "pending" /\ session' \in {session, [session EXCEPT ![c] = "authenticated"]}
      /\ Enqueue({c}) /\ UnlockRegistry /\ GotoFlush(t)
      /\ UNCHANGED <<roomMutex, clients, connectionRoom, waiting, members>>
  BY DEF Login, At
<1>2. c \in Conns /\ t # Nobody
  BY <1>1, InRegistry
<1> HIDE DEF c
<1>3. TablesOK'
  BY <1>1, <1>2 DEF TablesOK, ThreadsInv, RegistryOK, UnlockRegistry
<1>4. \A d \in waiting' \cup DOMAIN connectionRoom' : session'[d] = "authenticated"
  BY <1>1, <1>2 DEF ThreadsInv, EntriesAreLoggedIn, RegistryOK
<1>5. StaysServed(t, FlushCall)
  BY <1>1, <1>2 DEF StaysServed, Serves, ThreadsInv, RegistryOK, SessionsAreServed
<1>6. Tells
  BY <1>1, <1>2 DEF Tells
<1> QED BY <1>1, <1>3, <1>4, <1>5, <1>6, LeavesRegistry

LEMMA IgnoreStep ==
  ASSUME ThreadsInv, NEW t \in Threads, Ignore(t)
  PROVE  ThreadsInv'
<1>1. /\ stack[t] # <<>> /\ Top(t).op = "message" /\ Top(t).step = "registry"
      /\ UnlockRegistry /\ GotoFlush(t)
      /\ UNCHANGED <<roomMutex, clients, registry, members, pending, fate>>
  BY DEF Ignore, At
<1>2. TablesOK' /\ Tells
  BY <1>1 DEF TablesOK, Tells, ThreadsInv, RegistryOK, UnlockRegistry, registry
<1>3. \A d \in waiting' \cup DOMAIN connectionRoom' : session'[d] = "authenticated"
  BY <1>1, QuietRegistry
<1>4. StaysServed(t, FlushCall)
  BY <1>1 DEF StaysServed, Serves, ThreadsInv, SessionsAreServed, registry
<1> QED BY <1>1, <1>2, <1>3, <1>4, LeavesRegistry

\* A handler that goes from the registry to the rooms, and keeps its lock or lets it go.
LEMMA ToRooms ==
  ASSUME ThreadsInv, NEW t \in Threads, stack[t] # <<>>, Top(t).step = "registry",
         NEW op \in {"click", "tick", "reconnect", "disconnect"}, NEW todo \in SUBSET Rooms,
         GoesTo(t, op, "rooms", Top(t).room, todo),
         todo \subseteq DOMAIN members,
         op \in {"reconnect", "disconnect"} => UNCHANGED registryMutex,
         op \in {"click", "tick"} => UnlockRegistry,
         op = "tick" \/ Top(t).conn \in Conns,
         op = Top(t).op \/ Top(t).op = "message",
         op = "reconnect" => session[Top(t).conn] = "authenticated",
         waiting' \subseteq waiting, Tells,
         UNCHANGED <<roomMutex, clients, session, connectionRoom, members>>
  PROVE  ThreadsInv'
<1>1. /\ CallOK(Top(t)) /\ Top(t).batch = {}
      /\ registryMutex = t /\ \A r \in Rooms : roomMutex[r] # t
      /\ \A u \in Threads : u # t => registryMutex # u
      /\ NeedsRegistry(Top(t)) /\ t # Nobody
  BY InRegistry
<1>2. op \in Ops /\ "rooms" \in Steps /\ Top(t).room \in Rooms \cup {Nobody}
  BY <1>1 DEF CallOK, CallRecord, Ops, Steps
<1>9. PICK call \in CallRecord : WentTo(t, op, "rooms", Top(t).room, todo, call)
  BY <1>2, GoesOnward
<1>3. /\ Replaced(t, call)
      /\ call.op = op /\ call.conn = Top(t).conn /\ call.step = "rooms"
      /\ call.room = Top(t).room /\ call.todo = todo /\ call.batch = Top(t).batch
  BY <1>9 DEF WentTo
<1>4. CallOK(call)'
  <2>1. <<call.op, call.step>> \in Stages
    BY <1>3 DEF Stages
  <2> QED BY <1>1, <1>3, <2>1 DEF CallOK
<1>5. LocksFollow(t, call)
  BY <1>1, <1>3, ThreadsAssumption DEF LocksFollow, NeedsRegistry, NeedsRoom, UnlockRegistry
<1>6. StaysServed(t, call)
  BY <1>3 DEF StaysServed, Serves, ThreadsInv, SessionsAreServed
<1>7. TablesOK'
  BY <1>1 DEF TablesOK, ThreadsInv, RegistryOK, UnlockRegistry
<1>8. /\ LoginsKept(t)
      /\ \A d \in waiting' \cup DOMAIN connectionRoom' : session'[d] = "authenticated"
  BY DEF LoginsKept, ThreadsInv, EntriesAreLoggedIn
<1> QED BY <1>1, <1>3, <1>4, <1>5, <1>6, <1>7, <1>8, Replacement

LEMMA JoinStep ==
  ASSUME ThreadsInv, NEW t \in Threads, Join(t)
  PROVE  ThreadsInv'
<1> DEFINE next == [Top(t) EXCEPT !.op = "reconnect", !.step = "rooms", !.todo = DOMAIN members]
<1>1. /\ stack[t] # <<>> /\ Top(t).op = "message" /\ Top(t).step = "registry"
      /\ session[Top(t).conn] = "authenticated" /\ Goes(t, next)
      /\ UNCHANGED <<registryMutex, roomMutex, clients, registry, members, pending, fate>>
  BY DEF Join, At
<1>2. CallOK(Top(t)) /\ Top(t).conn \in Conns
  BY <1>1, InRegistry
<1>3. next = [Top(t) EXCEPT !.op = "reconnect", !.step = "rooms", !.room = Top(t).room,
                            !.todo = DOMAIN members]
  BY <1>2 DEF CallOK, CallRecord
<1> HIDE DEF next
<1>6. GoesTo(t, "reconnect", "rooms", Top(t).room, DOMAIN members)
  BY <1>1, <1>3 DEF GoesTo
<1>4. DOMAIN members \in SUBSET Rooms
  BY DEF ThreadsInv, RegistryOK
<1>5. Tells /\ waiting' \subseteq waiting /\ UNCHANGED <<session, connectionRoom>>
  BY <1>1 DEF Tells, registry
<1> QED BY <1>1, <1>2, <1>4, <1>5, <1>6, ToRooms

LEMMA LookUpStep ==
  ASSUME ThreadsInv, NEW t \in Threads, LookUp(t)
  PROVE  ThreadsInv'
<1> DEFINE todo == {connectionRoom[Top(t).conn]}
           next == [Top(t) EXCEPT !.op = "click", !.step = "rooms", !.todo = todo]
<1>1. /\ stack[t] # <<>> /\ Top(t).op = "message" /\ Top(t).step = "registry"
      /\ Top(t).conn \in DOMAIN connectionRoom /\ UnlockRegistry /\ Goes(t, next)
      /\ UNCHANGED <<roomMutex, clients, registry, members, pending, fate>>
  BY DEF LookUp, At
<1>2. CallOK(Top(t)) /\ Top(t).conn \in Conns
  BY <1>1, InRegistry
<1>3. next = [Top(t) EXCEPT !.op = "click", !.step = "rooms", !.room = Top(t).room, !.todo = todo]
  BY <1>2 DEF CallOK, CallRecord
<1> HIDE DEF next
<1>6. GoesTo(t, "click", "rooms", Top(t).room, todo)
  BY <1>1, <1>3 DEF GoesTo
<1>4. todo \in SUBSET Rooms /\ todo \subseteq DOMAIN members
  BY <1>1 DEF ThreadsInv, RegistryOK
<1> HIDE DEF todo
<1>5. Tells /\ waiting' \subseteq waiting /\ UNCHANGED <<session, connectionRoom>>
  BY <1>1 DEF Tells, registry
<1> QED BY <1>1, <1>2, <1>4, <1>5, <1>6, ToRooms

LEMMA DisconnectStep ==
  ASSUME ThreadsInv, NEW t \in Threads, Disconnect(t)
  PROVE  ThreadsInv'
<1> DEFINE c == Top(t).conn
           todo == IF c \in DOMAIN connectionRoom THEN {connectionRoom[c]} ELSE {}
           next == [Top(t) EXCEPT !.step = "rooms", !.todo = todo]
<1>1. /\ stack[t] # <<>> /\ Top(t).op = "disconnect" /\ Top(t).step = "registry" /\ Goes(t, next)
      /\ UNCHANGED <<registryMutex, roomMutex, clients, registry, members, pending, fate>>
  BY DEF Disconnect, At
<1>2. CallOK(Top(t)) /\ Top(t).conn \in Conns
  BY <1>1, InRegistry
<1>3. next = [Top(t) EXCEPT !.op = "disconnect", !.step = "rooms", !.room = Top(t).room,
                            !.todo = todo]
  <2> HIDE DEF todo
  <2> QED BY <1>1, <1>2 DEF CallOK, CallRecord
<1> HIDE DEF next
<1>6. GoesTo(t, "disconnect", "rooms", Top(t).room, todo)
  BY <1>1, <1>3 DEF GoesTo
<1>4. todo \in SUBSET Rooms /\ todo \subseteq DOMAIN members
  BY <1>1 DEF ThreadsInv, RegistryOK
<1> HIDE DEF todo
<1>5. Tells /\ waiting' \subseteq waiting /\ UNCHANGED <<session, connectionRoom>>
  BY <1>1 DEF Tells, registry
<1> QED BY <1>1, <1>2, <1>4, <1>5, <1>6, ToRooms

LEMMA SnapshotStep ==
  ASSUME ThreadsInv, NEW t \in Threads, Snapshot(t)
  PROVE  ThreadsInv'
<1> DEFINE next == [Top(t) EXCEPT !.step = "rooms", !.todo = DOMAIN members]
<1>1. /\ stack[t] # <<>> /\ Top(t).op = "tick" /\ Top(t).step = "registry" /\ UnlockRegistry
      /\ GotoFlush(t) \/ Goes(t, next)
      /\ UNCHANGED <<roomMutex, clients, session, connectionRoom, members>>
  BY DEF Snapshot, At
<1>2. PICK expired \in SUBSET waiting : waiting' = waiting \ expired /\ Enqueue(expired)
  BY DEF Snapshot
<1>3. waiting' \subseteq waiting /\ Tells
  BY <1>2 DEF Tells, ThreadsInv, RegistryOK
<1>4. CASE GotoFlush(t)
  <2>1. TablesOK'
    BY <1>1, <1>3 DEF TablesOK, ThreadsInv, RegistryOK, UnlockRegistry
  <2>2. \A d \in waiting' \cup DOMAIN connectionRoom' : session'[d] = "authenticated"
    BY <1>1, <1>3 DEF ThreadsInv, EntriesAreLoggedIn
  <2>3. StaysServed(t, FlushCall)
    BY <1>1 DEF StaysServed, Serves, ThreadsInv, SessionsAreServed
  <2> QED BY <1>1, <1>3, <1>4, <2>1, <2>2, <2>3, LeavesRegistry
<1>5. CASE Goes(t, next)
  <2>1. CallOK(Top(t))
    BY <1>1, InRegistry
  <2>2. next = [Top(t) EXCEPT !.op = "tick", !.step = "rooms", !.room = Top(t).room,
                              !.todo = DOMAIN members]
    BY <1>1, <2>1 DEF CallOK, CallRecord
  <2> HIDE DEF next
  <2>4. GoesTo(t, "tick", "rooms", Top(t).room, DOMAIN members)
    BY <1>5, <2>2 DEF GoesTo
  <2>3. DOMAIN members \in SUBSET Rooms
    BY DEF ThreadsInv, RegistryOK
  <2> QED BY <1>1, <1>3, <2>3, <2>4, ToRooms
<1> QED BY <1>1, <1>4, <1>5

LEMMA LockRoomStep ==
  ASSUME ThreadsInv, NEW t \in Threads, LockRoom(t)
  PROVE  ThreadsInv'
<1>1. /\ stack[t] # <<>> /\ Top(t).step = "rooms"
      /\ UNCHANGED <<registryMutex, clients, registry, members, pending, fate>>
  BY DEF LockRoom, AtStep
<1>2. PICK r \in Top(t).todo :
        /\ roomMutex[r] = Nobody /\ roomMutex' = [roomMutex EXCEPT ![r] = t]
        /\ Goes(t, [Top(t) EXCEPT !.step = "room", !.room = r, !.todo = @ \ {r}])
  BY DEF LockRoom
<1>3. /\ CallOK(Top(t)) /\ t # Nobody
      /\ registryMutex = t <=> NeedsRegistry(Top(t))
      /\ \A q \in Rooms : roomMutex[q] = t <=> NeedsRoom(Top(t), q)
  BY <1>1, AtTheTop
<1> DEFINE next == [Top(t) EXCEPT !.step = "room", !.room = r, !.todo = Top(t).todo \ {r}]
<1>4. /\ Top(t).op \in Ops /\ "room" \in Steps /\ r \in Rooms \cup {Nobody} /\ r \in Rooms
      /\ Top(t).todo \ {r} \in SUBSET Rooms /\ Top(t).todo \subseteq DOMAIN members
      /\ Top(t).batch = {}
  BY <1>1, <1>2, <1>3 DEF CallOK, CallRecord, Steps
<1>5. next = [Top(t) EXCEPT !.op = Top(t).op, !.step = "room", !.room = r,
                            !.todo = Top(t).todo \ {r}]
  BY <1>3 DEF CallOK, CallRecord
<1>6. Goes(t, next)
  BY <1>2
<1> HIDE DEF next
<1>7. GoesTo(t, Top(t).op, "room", r, Top(t).todo \ {r})
  BY <1>5, <1>6 DEF GoesTo
<1>8. PICK call \in CallRecord : WentTo(t, Top(t).op, "room", r, Top(t).todo \ {r}, call)
  BY <1>1, <1>4, <1>7, GoesOnward
<1>9. /\ Replaced(t, call)
      /\ call.op = Top(t).op /\ call.conn = Top(t).conn /\ call.step = "room"
      /\ call.room = r /\ call.todo = Top(t).todo \ {r} /\ call.batch = {}
  BY <1>4, <1>8 DEF WentTo
<1>10. CallOK(call)'
  <2>1. <<call.op, call.step>> \in Stages
    BY <1>1, <1>3, <1>9 DEF CallOK, Stages
  <2> QED BY <1>1, <1>3, <1>4, <1>9, <2>1, <1>2 DEF CallOK
<1>11. LocksFollow(t, call)
  <2>1. registryMutex' = t <=> NeedsRegistry(call)
    BY <1>1, <1>3, <1>9 DEF NeedsRegistry
  <2>2. \A q \in Rooms : roomMutex'[q] = IF q = r THEN t ELSE roomMutex[q]
    BY <1>2, <1>4 DEF ThreadsInv, RegistryOK
  <2>3. \A q \in Rooms : q # r => roomMutex[q] # t
    BY <1>1, <1>3 DEF NeedsRoom
  <2>4. \A q \in Rooms : roomMutex'[q] = t <=> NeedsRoom(call, q)
    BY <2>2, <2>3, <1>9 DEF NeedsRoom
  <2>5. \A u \in Threads : u # t => \A q \in Rooms : roomMutex'[q] = u <=> roomMutex[q] = u
    BY <2>2, <1>2, ThreadsAssumption
  <2> QED BY <1>1, <2>1, <2>4, <2>5 DEF LocksFollow
<1>12. StaysServed(t, call)
  BY <1>1, <1>9 DEF StaysServed, Serves, registry, ThreadsInv, SessionsAreServed
<1>13. TablesOK' /\ Tells /\ UNCHANGED registry
  BY <1>1, <1>2, <1>4 DEF TablesOK, Tells, ThreadsInv, RegistryOK, registry
<1>14. /\ LoginsKept(t)
       /\ \A d \in waiting' \cup DOMAIN connectionRoom' : session'[d] = "authenticated"
  BY <1>13, QuietRegistry
<1>15. call.op = "reconnect" => session'[call.conn] = "authenticated"
  BY <1>1, <1>9 DEF ThreadsInv, EntriesAreLoggedIn, registry
<1> QED BY <1>1, <1>4, <1>9, <1>10, <1>11, <1>12, <1>13, <1>14, <1>15, Replacement

\* In a room: it is there, its mutex is held, and its members are connections.
LEMMA InARoom ==
  ASSUME ThreadsInv, NEW t \in Threads, stack[t] # <<>>, Top(t).step = "room"
  PROVE  /\ CallOK(Top(t)) /\ Top(t).batch = {} /\ t # Nobody
         /\ Top(t).room \in Rooms /\ Top(t).room \in DOMAIN members
         /\ members[Top(t).room] \subseteq Conns
         /\ roomMutex[Top(t).room] = t
         /\ \A r \in Rooms : r # Top(t).room => roomMutex[r] # t
         /\ Top(t).op \in {"reconnect", "enter", "disconnect"} => registryMutex = t
<1>1. /\ CallOK(Top(t)) /\ t # Nobody
      /\ registryMutex = t <=> NeedsRegistry(Top(t))
      /\ \A r \in Rooms : roomMutex[r] = t <=> NeedsRoom(Top(t), r)
  BY AtTheTop
<1>2. Top(t).room \in Rooms /\ Top(t).room \in DOMAIN members
      /\ members[Top(t).room] \subseteq Conns /\ Top(t).batch = {}
  BY <1>1 DEF CallOK, ThreadsInv, RegistryOK
<1> QED BY <1>1, <1>2 DEF NeedsRoom, NeedsRegistry

LEMMA ClickStep ==
  ASSUME ThreadsInv, NEW t \in Threads, Click(t)
  PROVE  ThreadsInv'
<1>1. /\ stack[t] # <<>> /\ Top(t).step = "room" /\ UnlockRoom(t) /\ GotoRooms(t)
      /\ UNCHANGED <<registryMutex, clients, registry, members>>
  BY DEF Click, InRoom, At
<1>2. Tells
  <2>1. PICK told \in {{}, members[ThisRoom(t)]} : Enqueue(told)
    BY DEF Click
  <2>2. told \in SUBSET Conns
    BY <1>1, InARoom DEF ThisRoom
  <2> QED BY <2>1, <2>2 DEF Tells
<1>3. TablesOK'
  BY <1>1, InARoom DEF TablesOK, ThreadsInv, RegistryOK, registry, UnlockRoom
<1> QED BY <1>1, <1>2, <1>3, NextRoom

LEMMA AdvanceRoomStep ==
  ASSUME ThreadsInv, NEW t \in Threads, AdvanceRoom(t)
  PROVE  ThreadsInv'
<1>1. /\ stack[t] # <<>> /\ Top(t).step = "room" /\ UnlockRoom(t) /\ GotoRooms(t)
      /\ UNCHANGED <<registryMutex, clients, registry, members>>
  BY DEF AdvanceRoom, InRoom, At
<1>2. Tells
  BY <1>1, InARoom DEF AdvanceRoom, Tells, ThisRoom
<1>3. TablesOK'
  BY <1>1, InARoom DEF TablesOK, ThreadsInv, RegistryOK, registry, UnlockRoom
<1> QED BY <1>1, <1>2, <1>3, NextRoom

LEMMA NothingToReclaimStep ==
  ASSUME ThreadsInv, NEW t \in Threads, NothingToReclaim(t)
  PROVE  ThreadsInv'
<1>1. /\ stack[t] # <<>> /\ Top(t).step = "room" /\ UnlockRoom(t) /\ GotoRooms(t)
      /\ UNCHANGED <<registryMutex, clients, registry, members, pending, fate>>
  BY DEF NothingToReclaim, InRoom, At
<1>2. TablesOK' /\ Tells
  BY <1>1, InARoom DEF TablesOK, Tells, ThreadsInv, RegistryOK, registry, UnlockRoom
<1> QED BY <1>1, <1>2, NextRoom

LEMMA LeaveRoomStep ==
  ASSUME ThreadsInv, NEW t \in Threads, LeaveRoom(t)
  PROVE  ThreadsInv'
<1> DEFINE r == Top(t).room
<1>1. /\ stack[t] # <<>> /\ Top(t).step = "room" /\ UnlockRoom(t) /\ GotoRooms(t)
      /\ UNCHANGED <<registryMutex, clients, registry>>
      /\ \/ Enqueue(members[r]) /\ UNCHANGED members
         \/ members' = [members EXCEPT ![r] = @ \ {Top(t).conn}] /\ UNCHANGED <<pending, fate>>
  BY DEF LeaveRoom, InRoom, At, ThisRoom
<1>2. r \in Rooms /\ r \in DOMAIN members /\ members[r] \subseteq Conns
  BY <1>1, InARoom
<1> HIDE DEF r
<1>3. DOMAIN members' = DOMAIN members /\ \A q \in DOMAIN members : members'[q] \subseteq members[q]
  BY <1>1, <1>2
<1>4. Tells
  BY <1>1, <1>2 DEF Tells
<1>5. TablesOK'
  <2>1. roomMutex' \in [Rooms -> Threads \cup {Nobody}]
    BY <1>1, InARoom DEF ThreadsInv, RegistryOK, UnlockRoom
  <2> QED BY <1>1, <1>3, <2>1 DEF TablesOK, ThreadsInv, RegistryOK, registry
<1> QED BY <1>1, <1>3, <1>4, <1>5, NextRoom

\* A handler that lets go of both locks and flushes.
LEMMA LeavesBoth ==
  ASSUME ThreadsInv, NEW t \in Threads, stack[t] # <<>>, Top(t).step = "room",
         Top(t).op \in {"reconnect", "enter"},
         UnlockBoth(t), GotoFlush(t), UNCHANGED <<clients, session, waiting>>,
         DOMAIN connectionRoom' \subseteq Conns,
         \A c \in DOMAIN connectionRoom' :
           session[c] = "authenticated" /\ connectionRoom'[c] \in DOMAIN members,
         DOMAIN members' = DOMAIN members,
         \A r \in DOMAIN members : members'[r] \subseteq Conns, Tells
  PROVE  ThreadsInv'
<1>1. /\ registryMutex = t /\ roomMutex[Top(t).room] = t /\ t # Nobody /\ Top(t).room \in Rooms
      /\ \A r \in Rooms : r # Top(t).room => roomMutex[r] # t
  BY InARoom
<1>2. /\ registryMutex' = Nobody
      /\ roomMutex' \in [Rooms -> Threads \cup {Nobody}]
      /\ \A r \in Rooms : roomMutex'[r] = IF r = Top(t).room THEN Nobody ELSE roomMutex[r]
  BY <1>1 DEF UnlockBoth, UnlockRegistry, UnlockRoom, ThreadsInv, RegistryOK
<1>3. /\ registryMutex' # t /\ \A r \in Rooms : roomMutex'[r] # t
      /\ \A u \in Threads : u # t =>
           /\ registryMutex' = u <=> registryMutex = u
           /\ \A r \in Rooms : roomMutex'[r] = u <=> roomMutex[r] = u
  BY <1>1, <1>2, ThreadsAssumption
<1>4. TablesOK'
  BY <1>2 DEF TablesOK, ThreadsInv, RegistryOK
<1>5. \A c \in waiting' \cup DOMAIN connectionRoom' : session'[c] = "authenticated"
  BY DEF ThreadsInv, EntriesAreLoggedIn
<1>6. LoginsKept(t)
  BY DEF LoginsKept
<1>7. StaysServed(t, FlushCall)
  BY DEF StaysServed, Serves, ThreadsInv, SessionsAreServed
<1> QED BY <1>3, <1>4, <1>5, <1>6, <1>7, Flushing

LEMMA ReclaimStep ==
  ASSUME ThreadsInv, NEW t \in Threads, Reclaim(t)
  PROVE  ThreadsInv'
<1> DEFINE c == Top(t).conn
           r == Top(t).room
<1>1. /\ stack[t] # <<>> /\ Top(t).op = "reconnect" /\ Top(t).step = "room"
      /\ connectionRoom' = [d \in DOMAIN connectionRoom \cup {c} |->
                              IF d = c THEN r ELSE connectionRoom[d]]
      /\ Enqueue({c} \cup members'[r])
      /\ UnlockBoth(t) /\ GotoFlush(t)
      /\ UNCHANGED <<clients, session, waiting>>
  BY DEF Reclaim, InRoom, At, ThisRoom
<1>2. PICK e \in members[r] : members' = [members EXCEPT ![r] = (@ \ {e}) \cup {c}]
  BY DEF Reclaim, ThisRoom
<1>3. CallOK(Top(t)) /\ r \in Rooms /\ r \in DOMAIN members /\ members[r] \subseteq Conns
  BY <1>1, InARoom
<1>4. c \in Conns /\ session[c] = "authenticated"
  BY <1>1, <1>3 DEF CallOK, ThreadsInv, EntriesAreLoggedIn
<1> HIDE DEF c, r
<1>5. DOMAIN members' = DOMAIN members /\ \A q \in DOMAIN members : members'[q] \subseteq Conns
  BY <1>2, <1>3, <1>4 DEF ThreadsInv, RegistryOK
<1>6. Tells
  BY <1>1, <1>3, <1>4, <1>5 DEF Tells
<1>7. /\ DOMAIN connectionRoom' \subseteq Conns
      /\ \A d \in DOMAIN connectionRoom' :
           session[d] = "authenticated" /\ connectionRoom'[d] \in DOMAIN members
  BY <1>1, <1>3, <1>4 DEF ThreadsInv, RegistryOK, EntriesAreLoggedIn
<1> QED BY <1>1, <1>5, <1>6, <1>7, LeavesBoth

LEMMA EnterStep ==
  ASSUME ThreadsInv, NEW t \in Threads, Enter(t)
  PROVE  ThreadsInv'
<1> DEFINE r == Top(t).room
<1>1. /\ stack[t] # <<>> /\ Top(t).op = "enter" /\ Top(t).step = "room"
      /\ members' = [members EXCEPT ![r] = @ \cup Newcomers(r)]
      /\ \E told \in {Newcomers(r), members'[r]} : Enqueue(told)
      /\ UnlockBoth(t) /\ GotoFlush(t)
      /\ UNCHANGED <<clients, registry>>
  BY DEF Enter, InRoom, At, ThisRoom
<1>2. CallOK(Top(t)) /\ r \in Rooms /\ r \in DOMAIN members /\ members[r] \subseteq Conns
  BY <1>1, InARoom
<1> HIDE DEF r
<1>3. Newcomers(r) \subseteq Conns
  BY DEF Newcomers, ThreadsInv, RegistryOK
<1>4. DOMAIN members' = DOMAIN members /\ \A q \in DOMAIN members : members'[q] \subseteq Conns
  BY <1>1, <1>2, <1>3 DEF ThreadsInv, RegistryOK
<1>5. Tells
  BY <1>1, <1>2, <1>3, <1>4 DEF Tells
<1>6. /\ DOMAIN connectionRoom' \subseteq Conns /\ UNCHANGED <<clients, session, waiting>>
      /\ \A d \in DOMAIN connectionRoom' :
           session[d] = "authenticated" /\ connectionRoom'[d] \in DOMAIN members
  BY <1>1 DEF ThreadsInv, RegistryOK, EntriesAreLoggedIn, registry
<1> QED BY <1>1, <1>4, <1>5, <1>6, LeavesBoth

\* Between the rooms of a call that seats, scans or leaves, the registry is held and no room.
LEMMA BetweenRooms ==
  ASSUME ThreadsInv, NEW t \in Threads, stack[t] # <<>>, Top(t).step = "rooms",
         Top(t).op \in {"reconnect", "disconnect"}
  PROVE  /\ CallOK(Top(t)) /\ Top(t).batch = {} /\ t # Nobody /\ Top(t).conn \in Conns
         /\ NeedsRegistry(Top(t)) /\ registryMutex = t /\ \A r \in Rooms : roomMutex[r] # t
         /\ Top(t).op = "reconnect" => session[Top(t).conn] = "authenticated"
<1>1. /\ CallOK(Top(t)) /\ t # Nobody
      /\ registryMutex = t <=> NeedsRegistry(Top(t))
      /\ \A r \in Rooms : roomMutex[r] = t <=> NeedsRoom(Top(t), r)
  BY AtTheTop
<1> QED BY <1>1 DEF NeedsRoom, NeedsRegistry, CallOK, ThreadsInv, EntriesAreLoggedIn

LEMMA WaitStep ==
  ASSUME ThreadsInv, NEW t \in Threads, Wait(t)
  PROVE  ThreadsInv'
<1> DEFINE c == Top(t).conn
<1>1. /\ stack[t] # <<>> /\ Top(t).op = "reconnect" /\ Top(t).step = "rooms"
      /\ waiting' = waiting \cup {c} /\ UnlockRegistry /\ GotoFlush(t)
      /\ UNCHANGED <<roomMutex, clients, session, connectionRoom, members, pending, fate>>
  BY DEF Wait, AfterRooms, At
<1>2. /\ c \in Conns /\ session[c] = "authenticated" /\ registryMutex = t /\ t # Nobody
      /\ \A r \in Rooms : roomMutex[r] # t
  BY <1>1, BetweenRooms
<1> HIDE DEF c
<1>3. TablesOK' /\ Tells /\ LoginsKept(t)
  BY <1>1, <1>2 DEF TablesOK, Tells, LoginsKept, ThreadsInv, RegistryOK, UnlockRegistry
<1>4. \A d \in waiting' \cup DOMAIN connectionRoom' : session'[d] = "authenticated"
  BY <1>1, <1>2 DEF ThreadsInv, EntriesAreLoggedIn
<1>5. /\ registryMutex' # t /\ \A r \in Rooms : roomMutex'[r] # t
      /\ \A u \in Threads : u # t =>
           /\ registryMutex' = u <=> registryMutex = u
           /\ \A r \in Rooms : roomMutex'[r] = u <=> roomMutex[r] = u
  BY <1>1, <1>2, ThreadsAssumption DEF UnlockRegistry
<1>6. StaysServed(t, FlushCall)
  BY <1>1 DEF StaysServed, Serves, ThreadsInv, SessionsAreServed
<1> QED BY <1>1, <1>3, <1>4, <1>5, <1>6, Flushing

LEMMA ForgottenStep ==
  ASSUME ThreadsInv, NEW t \in Threads, Forgotten(t)
  PROVE  ThreadsInv'
<1> DEFINE c == Top(t).conn
<1>1. /\ stack[t] # <<>> /\ Top(t).op = "disconnect" /\ Top(t).step = "rooms"
      /\ session' = [session EXCEPT ![c] = "none"]
      /\ connectionRoom' = [d \in DOMAIN connectionRoom \ {c} |-> connectionRoom[d]]
      /\ waiting' = waiting \ {c} /\ UnlockRegistry /\ GotoFlush(t)
      /\ UNCHANGED <<roomMutex, clients, members, pending, fate>>
  BY DEF Forgotten, AfterRooms, At, Forget
<1>2. /\ c \in Conns /\ registryMutex = t /\ t # Nobody /\ NeedsRegistry(Top(t))
      /\ \A r \in Rooms : roomMutex[r] # t
  BY <1>1, BetweenRooms
<1>3. StaysServed(t, FlushCall)
  BY <1>1, <1>2 DEF StaysServed, Serves, ThreadsInv, SessionsAreServed, RegistryOK
<1> HIDE DEF c
<1>4. TablesOK' /\ Tells /\ LoginsKept(t)
  BY <1>1, <1>2 DEF TablesOK, Tells, LoginsKept, ThreadsInv, RegistryOK, UnlockRegistry
<1>5. \A d \in waiting' \cup DOMAIN connectionRoom' : session'[d] = "authenticated"
  BY <1>1, <1>2 DEF ThreadsInv, EntriesAreLoggedIn, RegistryOK
<1>6. /\ registryMutex' # t /\ \A r \in Rooms : roomMutex'[r] # t
      /\ \A u \in Threads : u # t =>
           /\ registryMutex' = u <=> registryMutex = u
           /\ \A r \in Rooms : roomMutex'[r] = u <=> roomMutex[r] = u
  BY <1>1, <1>2, ThreadsAssumption DEF UnlockRegistry
<1> QED BY <1>1, <1>3, <1>4, <1>5, <1>6, Flushing

LEMMA RouteStep ==
  ASSUME ThreadsInv, NEW t \in Threads, AfterRooms(t, "reconnect"), NEW r \in Rooms,
         NEW conns \in SUBSET Conns, \A d \in conns : session[d] = "authenticated",
         Route(t, r, conns), waiting' \subseteq waiting
  PROVE  ThreadsInv'
<1>1. /\ stack[t] # <<>> /\ Top(t).op = "reconnect" /\ Top(t).step = "rooms"
      /\ connectionRoom' = [d \in DOMAIN connectionRoom \cup conns |->
                              IF d \in conns THEN r ELSE connectionRoom[d]]
      /\ members' = [q \in DOMAIN members \cup {r} |->
                       IF q \in DOMAIN members THEN members[q] ELSE {}]
      /\ Goes(t, [Top(t) EXCEPT !.op = "enter", !.todo = {r}])
      /\ UNCHANGED <<registryMutex, roomMutex, clients, session, pending, fate>>
  BY DEF AfterRooms, At, Route
<1> DEFINE next == [Top(t) EXCEPT !.op = "enter", !.todo = {r}]
<1>2. /\ CallOK(Top(t)) /\ Top(t).conn \in Conns /\ Top(t).batch = {} /\ t # Nobody
      /\ NeedsRegistry(Top(t)) /\ registryMutex = t /\ \A q \in Rooms : roomMutex[q] # t
  BY <1>1, BetweenRooms
<1>3. /\ "enter" \in Ops /\ "rooms" \in Steps /\ {r} \in SUBSET Rooms
      /\ Top(t).room \in Rooms \cup {Nobody}
  BY <1>2 DEF CallOK, CallRecord, Ops, Steps
<1>4. next = [Top(t) EXCEPT !.op = "enter", !.step = "rooms", !.room = Top(t).room, !.todo = {r}]
  BY <1>1, <1>2 DEF CallOK, CallRecord
<1>5. Goes(t, next)
  BY <1>1
<1> HIDE DEF next
<1>6. GoesTo(t, "enter", "rooms", Top(t).room, {r})
  BY <1>4, <1>5 DEF GoesTo
<1>7. PICK call \in CallRecord : WentTo(t, "enter", "rooms", Top(t).room, {r}, call)
  BY <1>1, <1>3, <1>6, GoesOnward
<1>8. /\ Replaced(t, call)
      /\ call.op = "enter" /\ call.conn = Top(t).conn /\ call.step = "rooms"
      /\ call.todo = {r} /\ call.batch = {}
  BY <1>2, <1>7 DEF WentTo
<1>9. DOMAIN members' = DOMAIN members \cup {r} /\ DOMAIN connectionRoom' = DOMAIN connectionRoom \cup conns
  BY <1>1
<1>10. CallOK(call)'
  <2>1. <<call.op, call.step>> \in Stages
    BY <1>8 DEF Stages
  <2> QED BY <1>2, <1>8, <1>9, <2>1 DEF CallOK
<1>11. LocksFollow(t, call)
  BY <1>1, <1>2, <1>8 DEF LocksFollow, NeedsRegistry, NeedsRoom
<1>12. StaysServed(t, call)
  BY <1>1, <1>8 DEF StaysServed, Serves, ThreadsInv, SessionsAreServed
<1>13. \A q \in DOMAIN members' : members'[q] \subseteq Conns
  BY <1>1 DEF ThreadsInv, RegistryOK
<1>14. \A d \in DOMAIN connectionRoom' : connectionRoom'[d] \in DOMAIN members'
  BY <1>1, <1>9 DEF ThreadsInv, RegistryOK
<1>15. TablesOK' /\ Tells /\ LoginsKept(t)
  BY <1>1, <1>9, <1>13, <1>14 DEF TablesOK, Tells, LoginsKept, ThreadsInv, RegistryOK
<1>16. \A d \in waiting' \cup DOMAIN connectionRoom' : session'[d] = "authenticated"
  BY <1>1, <1>9 DEF ThreadsInv, EntriesAreLoggedIn
<1>17. call.op # "reconnect"
  BY <1>8
<1> QED BY <1>1, <1>2, <1>8, <1>9, <1>10, <1>11, <1>12, <1>15, <1>16, <1>17, Replacement

LEMMA JoinRoomStep ==
  ASSUME ThreadsInv, NEW t \in Threads, JoinRoom(t)
  PROVE  ThreadsInv'
<1>1. PICK r \in Rooms : Route(t, r, {Top(t).conn})
  BY DEF JoinRoom
<1>2. AfterRooms(t, "reconnect") /\ waiting' \subseteq waiting
  BY DEF JoinRoom
<1>3. Top(t).conn \in Conns /\ session[Top(t).conn] = "authenticated"
  BY <1>2, BetweenRooms DEF AfterRooms, At
<1>4. {Top(t).conn} \in SUBSET Conns /\ \A d \in {Top(t).conn} : session[d] = "authenticated"
  BY <1>3
<1> QED BY <1>1, <1>2, <1>4, RouteStep

LEMMA QuickMatchStep ==
  ASSUME ThreadsInv, NEW t \in Threads, QuickMatch(t)
  PROVE  ThreadsInv'
<1>1. PICK d \in waiting, r \in Rooms \ DOMAIN members :
        waiting' = waiting \ {d} /\ Route(t, r, {d, Top(t).conn})
  BY DEF QuickMatch
<1>2. AfterRooms(t, "reconnect") /\ waiting' \subseteq waiting
  BY <1>1 DEF QuickMatch
<1>3. Top(t).conn \in Conns /\ session[Top(t).conn] = "authenticated"
  BY <1>2, BetweenRooms DEF AfterRooms, At
<1>4. /\ {d, Top(t).conn} \in SUBSET Conns
      /\ \A e \in {d, Top(t).conn} : session[e] = "authenticated"
  BY <1>3 DEF ThreadsInv, EntriesAreLoggedIn, RegistryOK
<1> QED BY <1>1, <1>2, <1>4, RouteStep

-----------------------------------------------------------------------------
(* Sending *)

\* A thread that flushes or sends holds no lock, of those that are kept over several steps.
LEMMA SendingHoldsNothing ==
  ASSUME ThreadsInv, NEW t \in Threads, stack[t] # <<>>, Top(t).op = "flush"
  PROVE  /\ CallOK(Top(t)) /\ Top(t).step \in {"flush", "send"}
         /\ registryMutex # t /\ \A r \in Rooms : roomMutex[r] # t
         /\ \A c : ~Serves(Top(t), c)
  BY AtTheTop DEF CallOK, Stages, NeedsRegistry, NeedsRoom, Serves

\* The calls below are flushes that were interrupted.
LEMMA BelowIsSending ==
  ASSUME ThreadsInv, NEW t \in Threads, NEW i \in 1 .. Depth(t)
  PROVE  /\ i \in 1 .. Len(stack[t]) /\ CallOK(stack[t][i])
         /\ stack[t][i].step = "send" /\ stack[t][i].op = "flush"
<1>1. Depth(t) \in Nat
  BY DepthType DEF ThreadsInv
<1>2. i \in 1 .. Len(stack[t]) /\ i \in 1 .. Len(stack[t]) - 1
  <2>1. CASE stack[t] = <<>>
    BY <2>1 DEF Depth
  <2>2. CASE stack[t] # <<>>
    BY <2>2, <1>1, DepthType DEF ThreadsInv
  <2> QED BY <2>1, <2>2
<1>3. CallOK(stack[t][i]) /\ stack[t][i].step = "send"
  BY <1>2 DEF ThreadsInv, StacksOK, InnermostOnly
<1> QED BY <1>2, <1>3 DEF CallOK, Stages

\* What a step of a flush leaves alone, however the stack changes.
Unlocked ==
  UNCHANGED <<registryMutex, roomMutex, registry, members>>

\* All of the invariant but the tracked message.
ExceptTracked ==
  /\ StacksOK /\ InnermostOnly /\ LocksAreHeld /\ EntriesAreLoggedIn /\ SessionsAreServed

LEMMA UnlockedCalls ==
  ASSUME Unlocked, NEW call, CallOK(call)
  PROVE  CallOK(call)'
  BY DEF Unlocked, CallOK

LEMMA FlushReturns ==
  ASSUME ThreadsInv, NEW t \in Threads, stack[t] # <<>>, Top(t).op = "flush",
         Returned(t), Unlocked, UNCHANGED clients
  PROVE  /\ ExceptTracked'
         /\ \A u \in Threads, i \in Nat, m \in Message :
              Carried(u, i, m)' <=> Carried(u, i, m) /\ ~(u = t /\ i = Depth(t) + 1)
<1>1. /\ Depth(t) \in Nat /\ Len(stack[t]) = Depth(t) + 1 /\ Len(stack'[t]) = Depth(t)
      /\ stack' \in [Threads -> Seq(CallRecord)]
      /\ \A u \in Threads : u # t => stack'[u] = stack[u] /\ Top(u)' = Top(u)
      /\ \A i \in 1 .. Depth(t) : stack'[t][i] = stack[t][i]
  BY DepthType DEF Returned, Keeps, ThreadsInv, Top
<1>2. StacksOK'
  <2>1. ASSUME NEW u \in Threads, NEW i \in 1 .. Len(stack'[u]) PROVE CallOK(stack[u][i])'
    <3>1. CASE u # t
      <4>1. CallOK(stack[u][i]) /\ stack'[u][i] = stack[u][i]
        BY <1>1, <3>1 DEF ThreadsInv, StacksOK
      <4> QED BY <4>1, UnlockedCalls DEF CallOK, Unlocked
    <3>2. CASE u = t
      <4>1. CallOK(stack[t][i]) /\ stack'[t][i] = stack[t][i]
        BY <1>1, <3>2, BelowIsSending
      <4> QED BY <3>2, <4>1 DEF CallOK, Unlocked
    <3> QED BY <3>1, <3>2
  <2> QED BY <1>1, <2>1 DEF StacksOK
<1>3. InnermostOnly'
  <2>1. ASSUME NEW u \in Threads, NEW i \in 1 .. Len(stack'[u]) - 1
        PROVE  stack'[u][i].step = "send"
    <3>1. CASE u # t
      BY <1>1, <3>1 DEF ThreadsInv, InnermostOnly
    <3>2. CASE u = t
      <4>1. i \in 1 .. Depth(t)
        BY <1>1, <3>2
      <4> QED BY <1>1, <3>2, <4>1, BelowIsSending
    <3> QED BY <3>1, <3>2
  <2> QED BY <2>1 DEF InnermostOnly
<1>4. stack'[t] # <<>> => Top(t)'.op = "flush" /\ Top(t)'.step = "send"
  <2> SUFFICES ASSUME stack'[t] # <<>> PROVE Top(t)'.op = "flush" /\ Top(t)'.step = "send"
    OBVIOUS
  <2>1. Len(stack'[t]) # 0
    BY <1>1, EmptySeq
  <2>2. Depth(t) \in 1 .. Depth(t) /\ Top(t)' = stack'[t][Depth(t)]
    BY <1>1, <2>1 DEF Top, Last
  <2> QED BY <1>1, <2>2, BelowIsSending
<1>5. LocksAreHeld'
  <2>1. ASSUME NEW u \in Threads
        PROVE  /\ registryMutex' = u <=> stack'[u] # <<>> /\ NeedsRegistry(Top(u)')
               /\ \A r \in Rooms :
                    roomMutex'[r] = u <=> stack'[u] # <<>> /\ NeedsRoom(Top(u)', r)
    <3>1. CASE u # t
      BY <1>1, <3>1 DEF Unlocked, ThreadsInv, LocksAreHeld
    <3>2. CASE u = t
      BY <1>4, <3>2, SendingHoldsNothing DEF Unlocked, NeedsRegistry, NeedsRoom
    <3> QED BY <3>1, <3>2
  <2> QED BY <2>1 DEF LocksAreHeld, NeedsRegistry, NeedsRoom
<1>6. EntriesAreLoggedIn'
  BY <1>1, <1>4 DEF ThreadsInv, EntriesAreLoggedIn, Unlocked, registry
<1>7. SessionsAreServed'
  <2> SUFFICES ASSUME NEW c \in Conns, session'[c] \in {"pending", "authenticated"}, c \notin clients'
               PROVE  Closing(c)'
    BY DEF SessionsAreServed, Closing
  <2>1. Closing(c)
    BY DEF ThreadsInv, SessionsAreServed, Unlocked, registry
  <2>2. Keeps(t) /\ Len(stack'[t]) >= Depth(t) /\ Len(stack'[t]) \in Nat /\ ~Serves(Top(t), c)
    BY <1>1, SendingHoldsNothing DEF Returned
  <2> QED BY <2>1, <2>2, ClosingKept DEF ThreadsInv
<1>8. ASSUME NEW u \in Threads, NEW i \in Nat, NEW m \in Message
      PROVE  Carried(u, i, m)' <=> Carried(u, i, m) /\ ~(u = t /\ i = Depth(t) + 1)
  <2>1. CASE u # t
    BY <1>1, <2>1 DEF Carried
  <2>2. CASE u = t
    <3>1. i \in 1 .. Len(stack'[t]) <=> i \in 1 .. Len(stack[t]) /\ i # Depth(t) + 1
      BY <1>1
    <3>2. i \in 1 .. Len(stack'[t]) => stack'[t][i] = stack[t][i]
      BY <1>1
    <3> QED BY <2>2, <3>1, <3>2 DEF Carried
  <2> QED BY <2>1, <2>2
<1> QED BY <1>2, <1>3, <1>5, <1>6, <1>7, <1>8 DEF ExceptTracked

\* The flush goes on, or a Close callback takes the place of its last message.
LEMMA FlushGoesOn ==
  ASSUME ThreadsInv, NEW t \in Threads, stack[t] # <<>>, Top(t).op = "flush",
         NEW call \in CallRecord, Replaced(t, call), CallOK(call), Unlocked,
         call.op = "flush" \/ call.step = "start",
         clients' \subseteq clients,
         \A c \in Conns : c \in clients => c \in clients' \/ Serves(call, c)
  PROVE  /\ ExceptTracked'
         /\ \A u \in Threads, i \in Nat, m \in Message :
              Carried(u, i, m)' <=> IF u = t /\ i = Depth(t) + 1
                                    THEN m \in call.batch /\ m.tracked
                                    ELSE Carried(u, i, m)
<1>1. CallOK(call)' /\ DOMAIN members \subseteq DOMAIN members'
  BY DEF Unlocked, CallOK
<1>2. StacksOK' /\ InnermostOnly'
  BY <1>1, StacksReplaced DEF ThreadsInv
<1>3. LocksFollow(t, call)
  <2>1. ~NeedsRegistry(call) /\ \A r : ~NeedsRoom(call, r)
    BY DEF NeedsRegistry, NeedsRoom, CallOK, Stages
  <2> QED BY <2>1, SendingHoldsNothing DEF LocksFollow, Unlocked
<1>4. LocksAreHeld'
  BY <1>3, LocksReplaced DEF ThreadsInv
<1>5. EntriesAreLoggedIn'
  <2>1. UNCHANGED registry /\ call.op # "reconnect"
    BY DEF Unlocked, CallOK, Stages
  <2> QED BY <2>1, QuietRegistry, EntriesReplaced DEF ThreadsInv
<1>6. SessionsAreServed'
  <2>1. StaysServed(t, call)
    BY SendingHoldsNothing DEF StaysServed, ThreadsInv, SessionsAreServed, Unlocked, registry
  <2> QED BY <2>1, ServedReplaced DEF ThreadsInv
<1>7. ASSUME NEW u \in Threads, NEW i \in Nat, NEW m \in Message
      PROVE  Carried(u, i, m)' <=> IF u = t /\ i = Depth(t) + 1
                                    THEN m \in call.batch /\ m.tracked
                                    ELSE Carried(u, i, m)
  BY CarriedReplaced DEF ThreadsInv
<1> QED BY <1>2, <1>4, <1>5, <1>6, <1>7 DEF ExceptTracked

\* The Close callback runs inside the flush, which has more to send.
LEMMA FlushNests ==
  ASSUME ThreadsInv, NEW t \in Threads, stack[t] # <<>>, Top(t).op = "flush",
         NEW outer \in CallRecord, NEW inner \in CallRecord, Nested(t, outer, inner),
         CallOK(outer), CallOK(inner), outer.step = "send", inner.step = "start",
         inner.batch = {}, Unlocked,
         \A c \in Conns : c \in clients => c \in clients' \/ Serves(inner, c)
  PROVE  /\ ExceptTracked'
         /\ \A u \in Threads, i \in Nat, m \in Message :
              Carried(u, i, m)' <=> IF u = t /\ i = Depth(t) + 1
                                    THEN m \in outer.batch /\ m.tracked
                                    ELSE Carried(u, i, m)
<1>1. /\ Depth(t) \in Nat /\ Len(stack[t]) = Depth(t) + 1 /\ Len(stack'[t]) = Depth(t) + 2
      /\ stack'[t][Depth(t) + 1] = outer /\ stack'[t][Depth(t) + 2] = inner
      /\ stack' \in [Threads -> Seq(CallRecord)]
      /\ \A u \in Threads : u # t => stack'[u] = stack[u] /\ Top(u)' = Top(u)
      /\ \A i \in 1 .. Depth(t) : stack'[t][i] = stack[t][i]
  BY DepthType DEF Nested, Keeps, ThreadsInv, Top
<1>2. StacksOK'
  <2>1. ASSUME NEW u \in Threads, NEW i \in 1 .. Len(stack'[u]) PROVE CallOK(stack[u][i])'
    <3>1. CASE u # t
      <4>1. CallOK(stack[u][i]) /\ stack'[u][i] = stack[u][i]
        BY <1>1, <3>1 DEF ThreadsInv, StacksOK
      <4> QED BY <4>1 DEF CallOK, Unlocked
    <3>2. CASE u = t
      <4>1. i \in 1 .. Depth(t) \/ i = Depth(t) + 1 \/ i = Depth(t) + 2
        BY <1>1, <3>2
      <4>2. CallOK(stack'[t][i])
        BY <1>1, <4>1, BelowIsSending
      <4> QED BY <3>2, <4>2 DEF CallOK, Unlocked
    <3> QED BY <3>1, <3>2
  <2> QED BY <1>1, <2>1 DEF StacksOK
<1>3. InnermostOnly'
  <2>1. ASSUME NEW u \in Threads, NEW i \in 1 .. Len(stack'[u]) - 1
        PROVE  stack'[u][i].step = "send"
    <3>1. CASE u # t
      BY <1>1, <3>1 DEF ThreadsInv, InnermostOnly
    <3>2. CASE u = t
      <4>1. i \in 1 .. Depth(t) \/ i = Depth(t) + 1
        BY <1>1, <3>2
      <4>2. CASE i \in 1 .. Depth(t)
        BY <1>1, <3>2, <4>2, BelowIsSending
      <4>3. CASE i = Depth(t) + 1
        BY <1>1, <3>2, <4>3
      <4> QED BY <4>1, <4>2, <4>3
    <3> QED BY <3>1, <3>2
  <2> QED BY <2>1 DEF InnermostOnly
<1>4. stack'[t] # <<>> /\ Top(t)' = inner
  <2>1. stack'[t] # <<>>
    <3>1. Len(<<>>) = 0
      OBVIOUS
    <3>2. Depth(t) + 2 # 0
      BY <1>1
    <3> QED BY <1>1, <3>1, <3>2
  <2>2. Top(t)' = stack'[t][Len(stack'[t])]
    BY DEF Top, Last
  <2> QED BY <1>1, <2>1, <2>2
<1>5. LocksAreHeld'
  <2>1. ASSUME NEW u \in Threads
        PROVE  /\ registryMutex' = u <=> stack'[u] # <<>> /\ NeedsRegistry(Top(u)')
               /\ \A r \in Rooms :
                    roomMutex'[r] = u <=> stack'[u] # <<>> /\ NeedsRoom(Top(u)', r)
    <3>1. CASE u # t
      BY <1>1, <3>1 DEF Unlocked, ThreadsInv, LocksAreHeld
    <3>2. CASE u = t
      BY <1>4, <3>2, SendingHoldsNothing DEF Unlocked, NeedsRegistry, NeedsRoom
    <3> QED BY <3>1, <3>2
  <2> QED BY <2>1 DEF LocksAreHeld, NeedsRegistry, NeedsRoom
<1>6. EntriesAreLoggedIn'
  <2>1. inner.op # "reconnect"
    BY DEF CallOK, Stages
  <2> QED BY <1>1, <1>4, <2>1 DEF ThreadsInv, EntriesAreLoggedIn, Unlocked, registry
<1>7. SessionsAreServed'
  <2> SUFFICES ASSUME NEW c \in Conns, session'[c] \in {"pending", "authenticated"}, c \notin clients'
               PROVE  Closing(c)'
    BY DEF SessionsAreServed, Closing
  <2>1. CASE Serves(inner, c)
    <3>1. Depth(t) + 2 \in 1 .. Len(stack'[t])
      BY <1>1
    <3> QED BY <1>1, <2>1, <3>1 DEF Closing, Serves
  <2>2. CASE ~Serves(inner, c)
    <3>1. Closing(c)
      BY <2>2 DEF ThreadsInv, SessionsAreServed, Unlocked, registry
    <3>2. Keeps(t) /\ Len(stack'[t]) >= Depth(t) /\ Len(stack'[t]) \in Nat /\ ~Serves(Top(t), c)
      BY <1>1, SendingHoldsNothing DEF Nested
    <3> QED BY <3>1, <3>2, ClosingKept DEF ThreadsInv
  <2> QED BY <2>1, <2>2
<1>8. ASSUME NEW u \in Threads, NEW i \in Nat, NEW m \in Message
      PROVE  Carried(u, i, m)' <=> IF u = t /\ i = Depth(t) + 1
                                    THEN m \in outer.batch /\ m.tracked
                                    ELSE Carried(u, i, m)
  <2>1. CASE u # t
    BY <1>1, <2>1 DEF Carried
  <2>2. CASE u = t /\ i = Depth(t) + 1
    BY <1>1, <2>2 DEF Carried
  <2>3. CASE u = t /\ i # Depth(t) + 1
    <3>1. i \in 1 .. Len(stack'[t]) <=> i \in 1 .. Depth(t) \/ i = Depth(t) + 2
      BY <1>1, <2>3
    <3>2. i \in 1 .. Len(stack[t]) <=> i \in 1 .. Depth(t)
      BY <1>1, <2>3
    <3>3. i \in 1 .. Depth(t) => i # Depth(t) + 2
      BY <1>1
    <3>4. ~(m \in inner.batch)
      OBVIOUS
    <3> QED BY <1>1, <2>3, <3>1, <3>2, <3>3, <3>4 DEF Carried
  <2> QED BY <2>1, <2>2, <2>3
<1> QED BY <1>2, <1>3, <1>5, <1>6, <1>7, <1>8 DEF ExceptTracked

\* A message less in the innermost batch, which is sent or lost with its connection.
LEMMA SentOnce ==
  ASSUME ThreadsInv, NEW t \in Threads, stack[t] # <<>>, NEW m \in Top(t).batch, m \in Message,
         \A u \in Threads, i \in Nat, n \in Message :
           Carried(u, i, n)' <=> IF u = t /\ i = Depth(t) + 1
                                 THEN n \in Top(t).batch \ {m} /\ n.tracked
                                 ELSE Carried(u, i, n),
         UNCHANGED pending, fate' = IF m.tracked THEN "gone" ELSE fate
  PROVE  TrackedOnce'
<1> DEFINE d == Depth(t) + 1
<1>1. d \in Nat
  BY DepthType DEF ThreadsInv
<1>2. \A n \in Message : Carried(t, d, n) <=> n \in Top(t).batch /\ n.tracked
  BY CarriedOnTop DEF ThreadsInv
<1> HIDE DEF d
<1>3. \A u \in Threads, i \in Nat, n \in Message :
        Carried(u, i, n)' <=> Carried(u, i, n) /\ ~(u = t /\ i = d /\ n = m)
  BY <1>1, <1>2 DEF d
<1>4. \A n \in Message : Queued(n)' <=> Queued(n)
  BY DEF Queued
<1>5. OnceQueued /\ OnceCarried /\ (fate = "queued" <=> Somewhere)
  BY DEF ThreadsInv, TrackedOnce
<1>6. OnceQueued'
  BY <1>3, <1>4, <1>5 DEF OnceQueued
<1>7. OnceCarried'
  BY <1>3, <1>5 DEF OnceCarried
<1>8. fate' = "queued" <=> Somewhere'
  <2>1. CASE m.tracked
    <3>1. Carried(t, d, m)
      BY <1>2, <2>1
    <3>2. \A n \in Message : ~Queued(n)
      BY <1>1, <1>5, <3>1 DEF OnceQueued
    <3>3. \A u \in Threads, i \in Nat, n \in Message : ~Carried(u, i, n)'
      BY <1>1, <1>3, <1>5, <3>1 DEF OnceCarried
    <3>4. ~Somewhere'
      BY <1>4, <3>2, <3>3 DEF Somewhere
    <3> QED BY <2>1, <3>4
  <2>2. CASE ~m.tracked
    <3>1. \A u \in Threads, i \in Nat, n \in Message : Carried(u, i, n)' <=> Carried(u, i, n)
      BY <1>2, <1>3, <2>2
    <3> QED BY <1>4, <1>5, <2>2, <3>1 DEF Somewhere
  <2> QED BY <2>1, <2>2
<1> QED BY <1>6, <1>7, <1>8 DEF TrackedOnce

\* A call of this thread is at "flush" or "send" only in a flush.
LEMMA AtFlush ==
  ASSUME ThreadsInv, NEW t \in Threads, AtStep(t, "flush") \/ AtStep(t, "send")
  PROVE  /\ stack[t] # <<>> /\ CallOK(Top(t)) /\ Top(t).op = "flush"
         /\ Top(t).batch \subseteq Message
         /\ Top(t).step = "flush" => Top(t).batch = {}
  BY AtTheTop DEF AtStep, CallOK, Stages, CallRecord

\* The same call, with another batch.
LEMMA WithBatch ==
  ASSUME NEW top \in CallRecord, NEW batch \in SUBSET Message
  PROVE  \E call \in CallRecord :
           /\ call = [top EXCEPT !.step = "send", !.batch = batch]
           /\ call.op = top.op /\ call.conn = top.conn /\ call.step = "send"
           /\ call.room = top.room /\ call.todo = top.todo /\ call.batch = batch
<1> DEFINE call == [top EXCEPT !.step = "send", !.batch = batch]
<1>1. call \in CallRecord
  BY DEF CallRecord, Steps
<1>2. /\ call.op = top.op /\ call.conn = top.conn /\ call.step = "send"
      /\ call.room = top.room /\ call.todo = top.todo /\ call.batch = batch
  BY DEF CallRecord
<1> HIDE DEF call
<1>3. \E x \in CallRecord :
        /\ x = call
        /\ x.op = top.op /\ x.conn = top.conn /\ x.step = "send"
        /\ x.room = top.room /\ x.todo = top.todo /\ x.batch = batch
  BY <1>1, <1>2
<1> QED BY <1>3 DEF call

LEMMA WithBatchOK ==
  ASSUME ThreadsInv, NEW t \in Threads, AtStep(t, "flush") \/ AtStep(t, "send"),
         NEW batch \in SUBSET Message
  PROVE  \E call \in CallRecord :
           /\ call = [Top(t) EXCEPT !.step = "send", !.batch = batch]
           /\ call.op = "flush" /\ call.step = "send" /\ call.batch = batch
           /\ CallOK(call)
<1>1. CallOK(Top(t)) /\ Top(t).op = "flush" /\ Top(t) \in CallRecord
  BY AtFlush DEF CallOK
<1>2. PICK top \in CallRecord : top = Top(t)
  BY <1>1
<1>3. PICK call \in CallRecord :
        /\ call = [top EXCEPT !.step = "send", !.batch = batch]
        /\ call.op = top.op /\ call.conn = top.conn /\ call.step = "send"
        /\ call.room = top.room /\ call.todo = top.todo /\ call.batch = batch
  BY WithBatch
<1>4. <<call.op, call.step>> \in Stages /\ call.op = "flush"
  BY <1>1, <1>2, <1>3 DEF Stages
<1>5. CallOK(call)
  BY <1>1, <1>2, <1>3, <1>4 DEF CallOK
<1>6. call = [Top(t) EXCEPT !.step = "send", !.batch = batch]
  BY <1>2, <1>3
<1> QED BY <1>3, <1>4, <1>5, <1>6

LEMMA FlushStep ==
  ASSUME ThreadsInv, NEW t \in Threads, Flush(t)
  PROVE  ThreadsInv'
<1>1. /\ AtStep(t, "flush") /\ stack[t] # <<>> /\ Top(t).op = "flush" /\ Top(t).batch = {}
      /\ CallOK(Top(t)) /\ Top(t).step = "flush"
  BY AtFlush DEF Flush, AtStep
<1>2. Unlocked /\ UNCHANGED <<clients, fate>> /\ pending' = {}
  BY DEF Flush, Unlocked
<1>3. pending \in SUBSET Message
  BY DEF ThreadsInv, RegistryOK
<1>4. \A n \in Message : ~Carried(t, Depth(t) + 1, n)
  BY <1>1, CarriedOnTop DEF ThreadsInv
<1>5. OnceQueued /\ OnceCarried /\ (fate = "queued" <=> Somewhere)
  BY DEF ThreadsInv, TrackedOnce
<1>6. \A n \in Message : ~Queued(n)'
  BY <1>2 DEF Queued
<1>7. ExceptTracked' /\ TrackedOnce'
  <2>1. CASE pending = {}
    <3>1. Returned(t)
      BY <1>1, <2>1, ReturnReturns DEF Flush, ThreadsInv
    <3>2. /\ ExceptTracked'
          /\ \A u \in Threads, i \in Nat, m \in Message :
               Carried(u, i, m)' <=> Carried(u, i, m) /\ ~(u = t /\ i = Depth(t) + 1)
      BY <1>1, <1>2, <3>1, FlushReturns
    <3>3. SameBatches
      BY <1>4, <3>2 DEF SameBatches
    <3>4. Tells
      BY <1>2, <2>1 DEF Tells
    <3> QED BY <3>2, <3>3, <3>4, ToldOnce DEF ThreadsInv
  <2>2. CASE pending # {}
    <3>1. PICK call \in CallRecord :
            /\ call = [Top(t) EXCEPT !.step = "send", !.batch = pending]
            /\ call.op = "flush" /\ call.step = "send" /\ call.batch = pending
            /\ CallOK(call)
      BY <1>1, <1>3, WithBatchOK
    <3>2. Goes(t, call)
      BY <2>2, <3>1 DEF Flush
    <3>3. Replaced(t, call)
      BY <1>1, <3>2, GoesReplaces DEF ThreadsInv
    <3>4. /\ ExceptTracked'
          /\ \A u \in Threads, i \in Nat, m \in Message :
               Carried(u, i, m)' <=> IF u = t /\ i = Depth(t) + 1
                                     THEN m \in call.batch /\ m.tracked
                                     ELSE Carried(u, i, m)
      BY <1>1, <1>2, <3>1, <3>3, FlushGoesOn
    <3>10. Depth(t) + 1 \in Nat
      BY DepthType DEF ThreadsInv
    <3>5. PICK d \in Nat : d = Depth(t) + 1
      BY <3>10
    <3>6. \A u \in Threads, i \in Nat, m \in Message :
            Carried(u, i, m)' <=> IF u = t /\ i = d THEN Queued(m) ELSE Carried(u, i, m)
      BY <3>1, <3>4, <3>5 DEF Queued
    <3>7. OnceQueued'
      BY <1>6 DEF OnceQueued
    <3>8. OnceCarried'
      <4> SUFFICES ASSUME NEW m \in Message, NEW u \in Threads, NEW i \in Nat, Carried(u, i, m)',
                          NEW n \in Message, NEW v \in Threads, NEW j \in Nat, Carried(v, j, n)'
                   PROVE  n = m /\ v = u /\ j = i
        BY DEF OnceCarried
      <4>1. \A x \in Message : ~Carried(t, d, x)
        BY <1>4, <3>5
      <4>2. CASE u = t /\ i = d
        <5>1. Queued(m)
          BY <3>6, <4>2
        <5>2. v = t /\ j = d /\ Queued(n)
          BY <1>5, <3>6, <5>1 DEF OnceQueued
        <5> QED BY <1>5, <4>2, <5>1, <5>2 DEF OnceQueued
      <4>3. CASE ~(u = t /\ i = d)
        <5>1. Carried(u, i, m)
          BY <3>6, <4>3
        <5>2. ~(v = t /\ j = d)
          BY <1>5, <3>6, <5>1 DEF OnceQueued
        <5>3. Carried(v, j, n)
          BY <3>6, <5>2
        <5> QED BY <1>5, <5>1, <5>3 DEF OnceCarried
      <4> QED BY <4>2, <4>3
    <3>9. Somewhere' <=> Somewhere
      <4>1. ASSUME Somewhere PROVE Somewhere'
        <5>1. PICK m \in Message : Queued(m) \/ \E u \in Threads, i \in Nat : Carried(u, i, m)
          BY <4>1 DEF Somewhere
        <5>2. CASE Queued(m)
          <6>1. Carried(t, d, m)'
            BY <3>5, <3>6, <5>2
          <6> QED BY <3>5, <6>1 DEF Somewhere
        <5>3. CASE \E u \in Threads, i \in Nat : Carried(u, i, m)
          <6>1. PICK u \in Threads, i \in Nat : Carried(u, i, m)
            BY <5>3
          <6>2. ~(u = t /\ i = d)
            BY <1>4, <3>5, <6>1
          <6>3. Carried(u, i, m)'
            BY <3>6, <6>1, <6>2
          <6> QED BY <6>3 DEF Somewhere
        <5> QED BY <5>1, <5>2, <5>3
      <4>2. ASSUME Somewhere' PROVE Somewhere
        <5>1. PICK m \in Message : \E u \in Threads, i \in Nat : Carried(u, i, m)'
          BY <1>6, <4>2 DEF Somewhere
        <5>2. PICK u \in Threads, i \in Nat : Carried(u, i, m)'
          BY <5>1
        <5>3. Queued(m) \/ Carried(u, i, m)
          BY <3>6, <5>2
        <5> QED BY <5>3 DEF Somewhere
      <4> QED BY <4>1, <4>2
    <3> QED BY <1>2, <1>5, <3>4, <3>7, <3>8, <3>9 DEF TrackedOnce
  <2> QED BY <2>1, <2>2
<1>8. RegistryOK'
  BY <1>2 DEF RegistryOK, ThreadsInv, Unlocked, registry
<1> QED BY <1>7, <1>8 DEF ExceptTracked, ThreadsInv

LEMMA SendStep ==
  ASSUME ThreadsInv, NEW t \in Threads, Send(t)
  PROVE  ThreadsInv'
<1> DEFINE next(m) == [Top(t) EXCEPT !.batch = Top(t).batch \ {m}]
<1>1. /\ AtStep(t, "send") /\ stack[t] # <<>> /\ Top(t).op = "flush" /\ CallOK(Top(t))
      /\ Top(t).step = "send" /\ Top(t).batch \subseteq Message /\ Top(t) \in CallRecord
  BY AtFlush DEF Send, AtStep, CallOK
<1>2. Unlocked /\ UNCHANGED <<clients, pending>>
  BY DEF Send, Unlocked
<1>3. PICK m \in Top(t).batch : Sent(t, m, next(m))
  BY DEF Send
<1>4. fate' = IF m.tracked THEN "gone" ELSE fate
  BY <1>3 DEF Sent
<1>5. PICK left \in SUBSET Message : left = Top(t).batch \ {m}
  BY <1>1
<1>6. /\ next(m).batch = Top(t).batch \ {m}
      /\ next(m) = [Top(t) EXCEPT !.step = "send", !.batch = Top(t).batch \ {m}]
  BY <1>1 DEF CallRecord
<1>7. IF Top(t).batch \ {m} = {} THEN Return(t) ELSE Goes(t, next(m))
  BY <1>3, <1>6 DEF Sent
<1> HIDE DEF next
<1>8. /\ ExceptTracked'
      /\ \A u \in Threads, i \in Nat, n \in Message :
           Carried(u, i, n)' <=> IF u = t /\ i = Depth(t) + 1
                                 THEN n \in Top(t).batch \ {m} /\ n.tracked
                                 ELSE Carried(u, i, n)
  <2>1. CASE Top(t).batch \ {m} = {}
    <3>1. Returned(t)
      BY <1>1, <1>7, <2>1, ReturnReturns DEF ThreadsInv
    <3> QED BY <1>1, <1>2, <2>1, <3>1, FlushReturns
  <2>2. CASE Top(t).batch \ {m} # {}
    <3>1. PICK call \in CallRecord :
            /\ call = [Top(t) EXCEPT !.step = "send", !.batch = left]
            /\ call.op = "flush" /\ call.step = "send" /\ call.batch = left
            /\ CallOK(call)
      BY <1>1, WithBatchOK
    <3>2. Replaced(t, call)
      BY <1>1, <1>5, <1>6, <1>7, <2>2, <3>1, GoesReplaces DEF ThreadsInv
    <3>3. /\ ExceptTracked'
          /\ \A u \in Threads, i \in Nat, n \in Message :
               Carried(u, i, n)' <=> IF u = t /\ i = Depth(t) + 1
                                     THEN n \in call.batch /\ n.tracked
                                     ELSE Carried(u, i, n)
      BY <1>1, <1>2, <3>1, <3>2, FlushGoesOn
    <3> QED BY <1>5, <3>1, <3>3
  <2> QED BY <2>1, <2>2
<1>9. TrackedOnce'
  BY <1>1, <1>2, <1>4, <1>8, SentOnce
<1>10. RegistryOK'
  BY <1>2, <1>4 DEF RegistryOK, ThreadsInv, Unlocked, registry
<1> QED BY <1>8, <1>9, <1>10 DEF ExceptTracked, ThreadsInv

LEMMA SendClosesStep ==
  ASSUME ThreadsInv, NEW t \in Threads, SendCloses(t)
  PROVE  ThreadsInv'
<1> DEFINE others(m) == Top(t).batch \ {m}
           outer(m) == [Top(t) EXCEPT !.batch = others(m)]
           rest(m) == IF others(m) = {} THEN <<>> ELSE <<outer(m)>>
<1>1. /\ AtStep(t, "send") /\ stack[t] # <<>> /\ Top(t).op = "flush" /\ CallOK(Top(t))
      /\ Top(t).step = "send" /\ Top(t).batch \subseteq Message /\ Top(t) \in CallRecord
  BY AtFlush DEF SendCloses, AtStep, CallOK
<1>2. Unlocked /\ UNCHANGED pending
  BY DEF SendCloses, Unlocked
<1>3. PICK m \in Top(t).batch :
        /\ clients' = clients \ {m.to}
        /\ fate' = IF m.tracked THEN "gone" ELSE fate
        /\ stack' = [stack EXCEPT ![t] = Front(@) \o Append(rest(m), Call("disconnect", m.to))]
  BY DEF SendCloses
<1>4. m.to \in Conns /\ m \in Message /\ others(m) \in SUBSET Message
  BY <1>1 DEF Message
<1>5. outer(m) = [Top(t) EXCEPT !.step = "send", !.batch = others(m)]
  BY <1>1 DEF CallRecord
<1>6. PICK inner \in CallRecord : inner = Call("disconnect", m.to)
  <2>1. "disconnect" \in Ops /\ m.to \in Threads \cup {Nobody} /\ "start" \in Steps
    BY <1>4 DEF Ops, Steps, Threads
  <2> QED BY <2>1, NewCall
<1>7. /\ inner.op = "disconnect" /\ inner.conn = m.to /\ inner.step = "start"
      /\ inner.todo = {} /\ inner.batch = {}
  BY <1>6 DEF Call
<1>8. CallOK(inner)
  <2>1. <<inner.op, inner.step>> \in Stages
    BY <1>7 DEF Stages
  <2> QED BY <1>4, <1>7, <2>1 DEF CallOK
<1>9. \A c \in Conns : c \in clients => c \in clients' \/ Serves(inner, c)
  BY <1>3, <1>7 DEF Serves
<1> HIDE DEF others, outer
<1>10. /\ ExceptTracked'
       /\ \A u \in Threads, i \in Nat, n \in Message :
            Carried(u, i, n)' <=> IF u = t /\ i = Depth(t) + 1
                                  THEN n \in others(m) /\ n.tracked
                                  ELSE Carried(u, i, n)
  <2>1. CASE others(m) = {}
    <3>1. Append(rest(m), inner) = <<inner>>
      <4>1. rest(m) = <<>>
        BY <2>1
      <4>2. Append(<<>>, inner) = <<inner>>
        OBVIOUS
      <4> HIDE DEF rest
      <4> QED BY <4>1, <4>2
    <3>2. stack' = [stack EXCEPT ![t] = Front(stack[t]) \o <<inner>>]
      BY <1>3, <1>6, <3>1
    <3>3. Front(stack[t]) \o <<inner>> = Append(Front(stack[t]), inner)
      <4>1. Front(stack[t]) \in Seq(CallRecord)
        BY <1>1, FrontOfStack DEF ThreadsInv, StacksOK
      <4> QED BY <4>1, AppendIsConcat
    <3>4. Goes(t, inner)
      BY <3>2, <3>3 DEF Goes
    <3>5. Replaced(t, inner)
      BY <1>1, <3>4, GoesReplaces DEF ThreadsInv
    <3>6. /\ ExceptTracked'
          /\ \A u \in Threads, i \in Nat, n \in Message :
               Carried(u, i, n)' <=> IF u = t /\ i = Depth(t) + 1
                                     THEN n \in inner.batch /\ n.tracked
                                     ELSE Carried(u, i, n)
      BY <1>1, <1>2, <1>3, <1>7, <1>8, <1>9, <3>5, FlushGoesOn
    <3> QED BY <1>7, <2>1, <3>6
  <2>2. CASE others(m) # {}
    <3>1. PICK call \in CallRecord :
            /\ call = [Top(t) EXCEPT !.step = "send", !.batch = others(m)]
            /\ call.op = "flush" /\ call.step = "send" /\ call.batch = others(m)
            /\ CallOK(call)
      BY <1>1, <1>4, WithBatchOK
    <3>2. rest(m) = <<call>>
      BY <1>5, <2>2, <3>1
    <3>3. stack' = [stack EXCEPT ![t] = Front(@) \o Append(<<call>>, inner)]
      BY <1>3, <1>6, <3>2
    <3>4. Nested(t, call, inner)
      BY <1>1, <3>3, NestNests DEF ThreadsInv
    <3>5. /\ ExceptTracked'
          /\ \A u \in Threads, i \in Nat, n \in Message :
               Carried(u, i, n)' <=> IF u = t /\ i = Depth(t) + 1
                                     THEN n \in call.batch /\ n.tracked
                                     ELSE Carried(u, i, n)
      <4>1. stack[t] # <<>> /\ Top(t).op = "flush"
        BY <1>1
      <4>2. CallOK(call) /\ CallOK(inner) /\ call.step = "send" /\ inner.step = "start"
            /\ inner.batch = {}
        BY <1>7, <1>8, <3>1
      <4> HIDE DEF rest
      <4> QED BY <1>2, <1>9, <3>4, <4>1, <4>2, FlushNests
    <3> QED BY <3>1, <3>5
  <2> QED BY <2>1, <2>2
<1>11. TrackedOnce'
  BY <1>1, <1>2, <1>3, <1>4, <1>10, SentOnce DEF others
<1>12. RegistryOK'
  BY <1>2, <1>3 DEF RegistryOK, ThreadsInv, Unlocked, registry
<1> QED BY <1>10, <1>11, <1>12 DEF ExceptTracked, ThreadsInv

-----------------------------------------------------------------------------
(* Every step *)

LEMMA ThreadsInit == Init => ThreadsInv
<1> SUFFICES ASSUME Init PROVE ThreadsInv
  OBVIOUS
<1>1. \A t \in Threads : stack[t] = <<>> /\ Len(stack[t]) = 0
  BY DEF Init
<1>2. StacksOK
  <2>1. <<>> \in Seq(CallRecord)
    OBVIOUS
  <2>2. stack \in [Threads -> Seq(CallRecord)]
    BY <2>1 DEF Init
  <2> QED BY <1>1, <2>2 DEF StacksOK
<1>3. InnermostOnly
  BY <1>1 DEF InnermostOnly
<1>4. RegistryOK
  BY DEF Init, RegistryOK
<1>5. LocksAreHeld
  BY <1>1, ThreadsAssumption DEF LocksAreHeld, Init
<1>6. EntriesAreLoggedIn
  BY <1>1 DEF EntriesAreLoggedIn, Init
<1>7. SessionsAreServed
  BY DEF SessionsAreServed, Init
<1>8. TrackedOnce
  <2>1. \A m \in Message : ~Queued(m)
    BY DEF Queued, Init
  <2>2. \A m \in Message, t \in Threads, i \in Nat : ~Carried(t, i, m)
    BY <1>1 DEF Carried
  <2>3. fate # "queued"
    BY DEF Init
  <2> QED BY <2>1, <2>2, <2>3 DEF TrackedOnce, Somewhere, OnceQueued, OnceCarried
<1> QED BY <1>2, <1>3, <1>4, <1>5, <1>6, <1>7, <1>8 DEF ThreadsInv

LEMMA ThreadsStutter ==
  ASSUME ThreadsInv, UNCHANGED vars
  PROVE  ThreadsInv'
<1>1. StacksOK' /\ InnermostOnly' /\ LocksAreHeld' /\ EntriesAreLoggedIn'
  BY DEF vars, registry, ThreadsInv, StacksOK, CallOK, InnermostOnly, LocksAreHeld,
         EntriesAreLoggedIn, Top, NeedsRegistry, NeedsRoom
<1>2. RegistryOK' /\ SessionsAreServed'
  BY DEF vars, registry, ThreadsInv, RegistryOK, SessionsAreServed, Closing
<1>3. TrackedOnce'
  BY DEF vars, ThreadsInv, TrackedOnce, Somewhere, OnceQueued, OnceCarried, Queued, Carried
<1> QED BY <1>1, <1>2, <1>3 DEF ThreadsInv

LEMMA ThreadsNext == ThreadsInv /\ [Next]_vars => ThreadsInv'
<1> SUFFICES ASSUME ThreadsInv, [Next]_vars PROVE ThreadsInv'
  OBVIOUS
<1>1. ASSUME NEW c \in Conns, Open(c) \/ Receive(c) \/ Lost(c) PROVE ThreadsInv'
  BY <1>1, OpenStep, ReceiveStep, LostStep
<1>2. CASE StartTick
  BY <1>2, StartTickStep
<1>3. ASSUME NEW t \in Threads, Step(t) PROVE ThreadsInv'
  <2>1. CASE LockRegistry(t) \/ LockRoom(t)
    BY <2>1, LockRegistryStep, LockRoomStep
  <2>2. CASE UnderRegistry(t)
    BY <2>2, LoginStep, JoinStep, LookUpStep, IgnoreStep, DisconnectStep, SnapshotStep
    DEF UnderRegistry
  <2>3. CASE UnderRoom(t)
    BY <2>3, ClickStep, AdvanceRoomStep, ReclaimStep, NothingToReclaimStep, EnterStep,
       LeaveRoomStep DEF UnderRoom
  <2>4. CASE Outside(t)
    BY <2>4, WaitStep, JoinRoomStep, QuickMatchStep, ForgottenStep DEF Outside
  <2>5. CASE Sending(t)
    BY <2>5, FlushStep, SendStep, SendClosesStep DEF Sending
  <2> QED BY <1>3, <2>1, <2>2, <2>3, <2>4, <2>5 DEF Step
<1>4. CASE UNCHANGED vars
  BY <1>4, ThreadsStutter
<1> QED BY <1>1, <1>2, <1>3, <1>4 DEF Next

-----------------------------------------------------------------------------
(* The theorems *)

\* Locks, registry, sessions and the Outbox of the server's threads stay in order.
THEOREM ThreadsInvariant == Spec => []ThreadsInv
  BY ThreadsInit, ThreadsNext, PTL DEF Spec

\* A mutex is held exactly by the thread whose innermost call works under it: run()'s tick,
\* the handlers and a Close callback in the middle of a flush never leave one locked.
THEOREM LocksFollowCalls == Spec => []LocksAreHeld
  BY ThreadsInvariant, PTL DEF ThreadsInv

LEMMA NoCircle ==
  ASSUME ThreadsInv
  PROVE  NobodyWaitsInACircle
<1> SUFFICES ASSUME NEW S \in (SUBSET Threads) \ {{}}
             PROVE  \E t \in S : \A u \in S : ~WaitsFor(t, u)
  BY DEF NobodyWaitsInACircle
<1>1. ASSUME NEW t \in Threads, NEW u \in Threads, WaitsFor(t, u)
      PROVE  /\ stack[t] # <<>> /\ Top(t).step \in {"start", "rooms"}
             /\ stack[u] # <<>>
             /\ Top(t).step = "start" => Top(u).step # "start"
             /\ Top(t).step = "rooms" => Top(u).step = "room"
  <2>1. CASE AtStep(t, "start") /\ registryMutex = u
    <3>1. stack[u] # <<>> /\ NeedsRegistry(Top(u))
      BY <2>1 DEF ThreadsInv, LocksAreHeld
    <3>2. Top(u).step # "start" /\ Top(t).step = "start" /\ stack[t] # <<>>
      BY <2>1, <3>1 DEF NeedsRegistry, AtStep
    <3> QED BY <3>1, <3>2
  <2>2. CASE AtStep(t, "rooms") /\ \E r \in Top(t).todo : roomMutex[r] = u
    <3>1. stack[t] # <<>> /\ Top(t).step = "rooms"
      BY <2>2 DEF AtStep
    <3>2. Top(t).todo \subseteq Rooms
      BY <3>1, AtTheTop DEF CallOK, CallRecord
    <3>3. PICK r \in Rooms : roomMutex[r] = u
      BY <2>2, <3>2
    <3>4. stack[u] # <<>> /\ NeedsRoom(Top(u), r)
      BY <3>3 DEF ThreadsInv, LocksAreHeld
    <3> QED BY <3>1, <3>4 DEF NeedsRoom
  <2> QED BY <1>1, <2>1, <2>2 DEF WaitsFor
<1>2. CASE \E t \in S : Top(t).step \notin {"start", "rooms"}
  BY <1>1, <1>2
<1>3. CASE \A t \in S : Top(t).step \in {"start", "rooms"}
  <2>1. CASE \E t \in S : Top(t).step = "rooms"
    <3>1. PICK t \in S : Top(t).step = "rooms"
      BY <2>1
    <3>2. \A u \in S : WaitsFor(t, u) => Top(u).step = "room"
      BY <1>1, <3>1
    <3> QED BY <1>3, <3>2
  <2>2. CASE \A t \in S : Top(t).step = "start"
    <3>1. \A t, u \in S : WaitsFor(t, u) => Top(u).step # "start"
      BY <1>1, <2>2
    <3>2. PICK t \in S : TRUE
      OBVIOUS
    <3> QED BY <2>2, <3>1, <3>2
  <2> QED BY <1>3, <2>1, <2>2
<1> QED BY <1>2, <1>3

\* However many connections and rooms there are, no threads wait for one another in a
\* circle: a thread asks for the registry with no room in its hands, and holds one room at a
\* time (Room.hpp's "the registry mutex is always acquired first").
THEOREM NoDeadlock == Spec => []NobodyWaitsInACircle
  BY ThreadsInvariant, NoCircle, PTL

\* Once the Close callback of a connection has ended neither ConnectionSessions nor the queue
\* nor connectionRoom_ knows it, whatever its own thread does late.
THEOREM ClosedForGood == Spec => []ClosedIsForgotten
<1>1. ASSUME ThreadsInv PROVE ClosedIsForgotten
  <2> SUFFICES ASSUME NEW c \in Conns, Closed(c)
               PROVE  session[c] = "none" /\ c \notin DOMAIN connectionRoom /\ c \notin waiting
    BY DEF ClosedIsForgotten
  <2>1. ~Closing(c)
    BY DEF Closed, Closing, Calls, CallsOf
  <2>2. session[c] = "none"
    BY <1>1, <2>1 DEF ThreadsInv, SessionsAreServed, RegistryOK, Closed
  <2> QED BY <1>1, <2>2 DEF ThreadsInv, EntriesAreLoggedIn
<1> QED BY <1>1, ThreadsInvariant, PTL

\* A message is in the Outbox or in one batch of one thread until it is sent, and it is sent
\* once: whoever flushes at the same time, or inside another flush.
THEOREM DeliveredOnce == Spec => []InOnePlace
<1>1. ASSUME ThreadsInv PROVE InOnePlace
  <2>1. \A t \in Threads : t \in Holders <=> \E m \in Message, i \in Nat : Carried(t, i, m)
    <3> SUFFICES ASSUME NEW t \in Threads
                 PROVE  t \in Holders <=> \E m \in Message, i \in Nat : Carried(t, i, m)
      OBVIOUS
    <3>1. ASSUME t \in Holders PROVE \E m \in Message, i \in Nat : Carried(t, i, m)
      <4>1. PICK i \in 1 .. Len(stack[t]) : HasTracked(stack[t][i].batch)
        BY <3>1 DEF Holders, CallsOf
      <4>2. PICK m \in stack[t][i].batch : m.tracked
        BY <4>1 DEF HasTracked
      <4>3. stack[t][i] \in CallRecord
        BY <1>1 DEF ThreadsInv, StacksOK, CallOK
      <4>4. m \in Message /\ i \in Nat
        BY <4>2, <4>3 DEF CallRecord
      <4> QED BY <4>2, <4>4 DEF Carried
    <3>2. ASSUME NEW m \in Message, NEW i \in Nat, Carried(t, i, m) PROVE t \in Holders
      BY <3>2 DEF Carried, Holders, CallsOf, HasTracked
    <3> QED BY <3>1, <3>2
  <2>2. HasTracked(pending) <=> \E m \in Message : Queued(m)
    BY <1>1 DEF HasTracked, Queued, ThreadsInv, RegistryOK
  <2>3. Holders \subseteq Threads
    BY DEF Holders
  <2>4. OnceQueued /\ OnceCarried /\ (fate = "queued" <=> Somewhere)
    BY <1>1 DEF ThreadsInv, TrackedOnce
  <2>5. CASE fate # "queued"
    <3>1. Holders = {} /\ ~HasTracked(pending)
      BY <2>1, <2>2, <2>3, <2>4, <2>5 DEF Somewhere
    <3> QED BY <2>5, <3>1 DEF InOnePlace
  <2>6. CASE fate = "queued" /\ HasTracked(pending)
    <3>1. Holders = {}
      BY <2>1, <2>2, <2>3, <2>4, <2>6 DEF OnceQueued
    <3> QED BY <2>6, <3>1 DEF InOnePlace
  <2>7. CASE fate = "queued" /\ ~HasTracked(pending)
    <3>1. PICK m \in Message, t \in Threads, i \in Nat : Carried(t, i, m)
      BY <2>2, <2>4, <2>7 DEF Somewhere
    <3>2. Holders = {t}
      BY <2>1, <2>3, <2>4, <3>1 DEF OnceCarried
    <3>3. Cardinality(Holders) = 1
      BY <3>2, FS_Singleton
    <3> QED BY <2>7, <3>3 DEF InOnePlace
  <2> QED BY <2>5, <2>6, <2>7
<1> QED BY <1>1, ThreadsInvariant, PTL
===============================================================================
