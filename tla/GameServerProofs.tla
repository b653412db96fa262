--------------------------- MODULE GameServerProofs ---------------------------
(* Theorems about one game server, whatever its clients do. *)
EXTENDS GameServer, FiniteSetTheorems, SequenceTheorems, TLAPS

-----------------------------------------------------------------------------
(* Subsequences *)

\* Sets of indices are finite.
LEMMA IndicesFinite ==
  ASSUME NEW n \in Nat, NEW I \in SUBSET (1 .. n)
  PROVE  IsFiniteSet(I) /\ Cardinality(I) \in Nat
<1>1. IsFiniteSet(1 .. n)
  BY FS_Interval
<1> QED BY <1>1, FS_Subset, FS_CardinalityType

\* How many of the indices in I come up to i: their order number.
Rank(I, i) == Cardinality({j \in I : j <= i})

LEMMA RankGrows ==
  ASSUME NEW n \in Nat, NEW I \in SUBSET (1 .. n), NEW i \in I, NEW j \in I, i < j
  PROVE  Rank(I, i) < Rank(I, j)
<1> DEFINE low  == {k \in I : k <= i}
           high == {k \in I : k <= j}
<1>1. IsFiniteSet(I)
  BY IndicesFinite
<1>2. IsFiniteSet(high) /\ low \in SUBSET high /\ low # high
  <2>1. high \in SUBSET I
    OBVIOUS
  <2>2. IsFiniteSet(high)
    BY <1>1, <2>1, FS_Subset
  <2>3. low \in SUBSET high
    <3>1. \A k \in I : k \in Nat /\ (k <= i => k <= j)
      OBVIOUS
    <3> QED BY <3>1
  <2>4. j \in high /\ j \notin low
    OBVIOUS
  <2> HIDE DEF low, high
  <2> QED BY <2>2, <2>3, <2>4
<1>3. Cardinality(low) <= Cardinality(high) /\ Cardinality(low) # Cardinality(high)
  <2> HIDE DEF low, high
  <2> QED BY <1>2, FS_Subset
<1>4. Cardinality(low) \in Nat /\ Cardinality(high) \in Nat
  <2> HIDE DEF low, high
  <2> QED BY <1>2, FS_Subset, FS_CardinalityType
<1> QED BY <1>3, <1>4 DEF Rank

\* Every order number belongs to an index.
LEMMA RankOnto ==
  ASSUME NEW n \in Nat, NEW I \in SUBSET (1 .. n), NEW r \in 1 .. Cardinality(I)
  PROVE  \E i \in I : Rank(I, i) = r
<1> DEFINE c == Cardinality(I)
           f == [i \in I |-> Rank(I, i)]
<1>1. IsFiniteSet(I) /\ c \in Nat
  BY IndicesFinite
<1>2. \A i \in I : Rank(I, i) \in 1 .. c
  <2> SUFFICES ASSUME NEW i \in I PROVE Rank(I, i) \in 1 .. c
    OBVIOUS
  <2> DEFINE low == {k \in I : k <= i}
  <2>1. low \in SUBSET I /\ i \in low
    OBVIOUS
  <2>2. IsFiniteSet(low) /\ Cardinality(low) <= c /\ Cardinality(low) \in Nat
    <3> HIDE DEF low
    <3> QED BY <1>1, <2>1, FS_Subset, FS_CardinalityType
  <2>3. Cardinality(low) # 0
    <3> HIDE DEF low
    <3> QED BY <2>1, <2>2, FS_EmptySet
  <2> QED BY <1>1, <2>2, <2>3 DEF Rank
<1>3. f \in Injection(I, 1 .. c)
  <2>1. \A i, j \in I : i # j => f[i] # f[j]
    <3> SUFFICES ASSUME NEW i \in I, NEW j \in I, i < j PROVE f[i] # f[j]
      OBVIOUS
    <3> QED BY RankGrows, <1>2
  <2>2. f \in [I -> 1 .. c]
    BY <1>2
  <2> HIDE DEF f
  <2> QED BY <2>1, <2>2 DEF Injection, IsInjective
<1>4. IsFiniteSet(1 .. c) /\ Cardinality(1 .. c) = c
  BY <1>1, FS_Interval
<1>5. f \in Surjection(I, 1 .. c)
  <2> HIDE DEF f
  <2> QED BY <1>3, <1>4, FS_Injection
<1>6. \E i \in I : f[i] = r
  <2> HIDE DEF f
  <2> QED BY <1>5 DEF Surjection
<1> QED BY <1>6

\* What is kept are elements of the sequence at indices in I, each index at most once.
LEMMA KeptElements ==
  ASSUME NEW S, NEW seq \in Seq(S), NEW I \in SUBSET (1 .. Len(seq))
  PROVE  /\ Kept(seq, I) \in Seq(S)
         /\ \E g \in [1 .. Len(Kept(seq, I)) -> I] :
              /\ \A m \in 1 .. Len(Kept(seq, I)) : Kept(seq, I)[m] = seq[g[m]]
              /\ \A l, m \in 1 .. Len(Kept(seq, I)) : l # m => g[l] # g[m]
<1> DEFINE c == Cardinality(I)
           g == [m \in 1 .. c |-> CHOOSE i \in I : Rank(I, i) = m]
           k == Kept(seq, I)
<1>1. Len(seq) \in Nat
  OBVIOUS
<1>2. c \in Nat
  BY <1>1, IndicesFinite
<1>3. \A m \in 1 .. c : g[m] \in I /\ Rank(I, g[m]) = m
  <2> SUFFICES ASSUME NEW m \in 1 .. c PROVE g[m] \in I /\ Rank(I, g[m]) = m
    OBVIOUS
  <2>1. \E i \in I : Rank(I, i) = m
    BY <1>1, RankOnto
  <2>2. g[m] = CHOOSE i \in I : Rank(I, i) = m
    OBVIOUS
  <2> HIDE DEF g
  <2> QED BY <2>1, <2>2
<1>4. k = [m \in 1 .. c |-> seq[g[m]]]
  BY DEF Kept, Rank
<1>5. g \in [1 .. c -> I]
  BY <1>3
<1>6. \A m \in 1 .. c : seq[g[m]] \in S
  <2> HIDE DEF g
  <2> QED BY <1>3, ElementOfSeq
<1> HIDE DEF g, k
<1>7. k \in Seq(S) /\ Len(k) = c
  BY <1>2, <1>4, <1>6
<1>8. \A l, m \in 1 .. c : l # m => g[l] # g[m]
  BY <1>3
<1>9. \A m \in 1 .. c : k[m] = seq[g[m]]
  BY <1>4
<1>10. Len(k) = c => \E h \in [1 .. Len(k) -> I] :
        /\ \A m \in 1 .. Len(k) : k[m] = seq[h[m]]
        /\ \A l, m \in 1 .. Len(k) : l # m => h[l] # h[m]
  <2> HIDE DEF c
  <2> QED BY <1>5, <1>8, <1>9
<1> QED BY <1>7, <1>10 DEF k

-----------------------------------------------------------------------------
(* Rooms *)

\* Seats are a partial function from connections.
LEMMA SeatsType ==
  ASSUME NEW f
  PROVE  f \in Seats <=> DOMAIN f \in SUBSET Connections /\ f \in [DOMAIN f -> Seat]
  BY DEF Seats

LEMMA WithoutSeats ==
  ASSUME NEW f \in Seats, NEW c
  PROVE  /\ Without(f, c) \in Seats
         /\ DOMAIN Without(f, c) = DOMAIN f \ {c}
         /\ \A d \in DOMAIN f \ {c} : Without(f, c)[d] = f[d]
<1> DEFINE w == Without(f, c)
<1>1. DOMAIN w = DOMAIN f \ {c} /\ w \in [DOMAIN w -> Seat]
  BY SeatsType DEF Without
<1>2. \A d \in DOMAIN f \ {c} : w[d] = f[d]
  BY DEF Without
<1> HIDE DEF w
<1>3. w \in Seats
  BY <1>1, SeatsType
<1> QED BY <1>1, <1>2, <1>3 DEF w

LEMMA PutSeats ==
  ASSUME NEW f \in Seats, NEW c \in Connections, NEW x \in Seat
  PROVE  LET p == Put(f, c, x) IN
         /\ p \in Seats /\ DOMAIN p = DOMAIN f \cup {c}
         /\ p[c] = x
         /\ \A d \in DOMAIN f : d # c => p[d] = f[d]
<1> DEFINE p == Put(f, c, x)
<1>1. DOMAIN p = DOMAIN f \cup {c} /\ p \in [DOMAIN p -> Seat]
  BY SeatsType DEF Put
<1>2. p[c] = x /\ \A d \in DOMAIN f : d # c => p[d] = f[d]
  BY DEF Put
<1> HIDE DEF p
<1>3. p \in Seats
  BY <1>1, SeatsType
<1> QED BY <1>1, <1>2, <1>3 DEF p

LEMMA EmptySeatsType ==
  /\ EmptySeats \in Seats /\ DOMAIN EmptySeats = {}
  /\ \A f \in Seats : DOMAIN f = {} => f = EmptySeats
<1>1. DOMAIN EmptySeats = {} /\ EmptySeats \in [{} -> Seat]
  BY DEF EmptySeats
<1>2. EmptySeats \in Seats
  BY <1>1, SeatsType
<1>3. ASSUME NEW f \in Seats, DOMAIN f = {} PROVE f = EmptySeats
  <2>1. f \in [{} -> Seat]
    BY <1>3, SeatsType
  <2> QED BY <2>1, <1>1
<1> QED BY <1>1, <1>2, <1>3

LEMMA NewRoomType ==
  /\ NewRoom \in Room
  /\ DOMAIN NewRoom.seats = {} /\ NewRoom.forfeit = NoForfeit /\ NewRoom.game = "NotStarted"
  /\ NewRoom.seats = EmptySeats /\ NewRoom.spectators = {}
  BY EmptySeatsType DEF NewRoom, Room, GameStates

LEMMA LeaveRoomType ==
  ASSUME NEW room \in Room, NEW c
  PROVE  LET left == LeaveRoom(room, c) IN
         /\ left \in Room
         /\ left.game = room.game
         /\ c \in DOMAIN room.seats /\ room.game = "Running" =>
              /\ left.seats = room.seats /\ left.spectators = room.spectators
              /\ left.forfeit = room.seats[c].color
         /\ ~(c \in DOMAIN room.seats /\ room.game = "Running") =>
              /\ left.seats = Without(room.seats, c) /\ left.spectators = room.spectators \ {c}
              /\ left.forfeit = room.forfeit
<1>1. room.seats \in Seats /\ Without(room.seats, c) \in Seats
  BY WithoutSeats DEF Room
<1>2. c \in DOMAIN room.seats => room.seats[c].color \in Colors
  BY <1>1, SeatsType DEF Seat
<1> HIDE DEF Seats
<1>3. CASE c \in DOMAIN room.seats /\ room.game = "Running"
  BY <1>1, <1>2, <1>3, ServerAssumption DEF LeaveRoom, StartForfeit, Room
<1>4. CASE ~(c \in DOMAIN room.seats /\ room.game = "Running")
  BY <1>1, <1>4 DEF LeaveRoom, Room
<1> QED BY <1>3, <1>4

LEMMA ReseatType ==
  ASSUME NEW room \in Room, NEW d \in DOMAIN room.seats, NEW c \in Connections
  PROVE  LET back == Reseat(room, d, c) IN
         /\ back \in Room
         /\ back.seats = Put(Without(room.seats, d), c, room.seats[d])
         /\ back.forfeit = NoForfeit /\ back.game = room.game
         /\ back.spectators = room.spectators
<1>1. room.seats \in Seats /\ room.seats[d] \in Seat
  BY SeatsType DEF Room
<1>2. Put(Without(room.seats, d), c, room.seats[d]) \in Seats
  BY <1>1, WithoutSeats, PutSeats
<1> HIDE DEF Seats
<1> QED BY <1>1, <1>2 DEF Reseat, Room

LEMMA EnterType ==
  ASSUME NEW room \in Room, NEW c \in Connections, NEW u \in Users
  PROVE  LET in == Enter(room, c, u)
             two == Cardinality(DOMAIN room.seats) < 2
             color == IF room.seats = EmptySeats THEN "White" ELSE "Black"
         IN
         /\ in \in Room
         /\ in.forfeit = room.forfeit
         /\ two => /\ in.seats = Put(room.seats, c, [user |-> u, color |-> color])
                    /\ in.spectators = room.spectators
                    /\ in.game = IF Cardinality(DOMAIN in.seats) = 2 THEN "Running" ELSE room.game
         /\ ~two => /\ in.seats = room.seats /\ in.game = room.game
                     /\ in.spectators = room.spectators \cup {c}
<1> DEFINE color == IF room.seats = EmptySeats THEN "White" ELSE "Black"
           seats == Put(room.seats, c, [user |-> u, color |-> color])
           two == Cardinality(DOMAIN room.seats) < 2
<1>1. room.seats \in Seats /\ [user |-> u, color |-> color] \in Seat
  BY DEF Room, Seat, Colors
<1>2. seats \in Seats
  <2> HIDE DEF color
  <2> QED BY <1>1, PutSeats
<1> HIDE DEF color
<1>3. CASE two
  <2>1. Enter(room, c, u) =
          [room EXCEPT !.seats = seats,
                       !.game = IF Cardinality(DOMAIN seats) = 2 THEN "Running" ELSE @]
    BY <1>3 DEF Enter, Seated, color
  <2> DEFINE in == Enter(room, c, u)
  <2> HIDE DEF seats
  <2>2. /\ in.seats = seats /\ in.spectators = room.spectators /\ in.forfeit = room.forfeit
        /\ in.game = IF Cardinality(DOMAIN seats) = 2 THEN "Running" ELSE room.game
    BY <1>2, <2>1 DEF Room
  <2>3. in \in Room
    BY <1>2, <2>1 DEF Room, GameStates
  <2> HIDE DEF in
  <2>4. /\ in.game = IF Cardinality(DOMAIN in.seats) = 2 THEN "Running" ELSE room.game
        /\ in.seats = Put(room.seats, c, [user |-> u, color |-> IF room.seats = EmptySeats THEN "White" ELSE "Black"])
    BY <2>2 DEF seats, color
  <2> QED BY <1>3, <2>2, <2>3, <2>4 DEF in
<1>4. CASE ~two
  BY <1>4 DEF Enter, Room
<1> QED BY <1>3, <1>4

LEMMA FinalizeType ==
  ASSUME NEW room \in Room
  PROVE  LET over == Finalize(room) IN
         /\ over \in Room
         /\ over.seats = EmptySeats /\ over.spectators = room.spectators \cup DOMAIN room.seats
         /\ over.forfeit = NoForfeit /\ over.game = "Paused"
<1>1. EmptySeats \in Seats /\ DOMAIN room.seats \in SUBSET Connections
  BY EmptySeatsType, SeatsType DEF Room
<1> QED BY <1>1 DEF Finalize, Room, GameStates

\* A tick leaves all but the time that is left.
LEMMA CloserType ==
  ASSUME NEW room \in Room
  PROVE  LET later == Closer(room) IN
         /\ later \in Room
         /\ later.seats = room.seats /\ later.spectators = room.spectators
         /\ later.forfeit = room.forfeit /\ later.game = room.game
         /\ later.kings = room.kings
<1> HIDE DEF Seats
<1>1. room.left \in Nat => (IF room.left > 0 THEN room.left - 1 ELSE room.left) \in Nat
  OBVIOUS
<1> QED BY <1>1 DEF Closer, Room

LEMMA KingTakenType ==
  ASSUME NEW room \in Room, NEW k \in Colors
  PROVE  LET over == KingTaken(room, k) IN
         /\ over \in Room
         /\ over.seats = room.seats /\ over.spectators = room.spectators
         /\ over.forfeit = room.forfeit /\ over.game = "Finished"
<1> DEFINE later == Closer(room)
<1>1. /\ later \in Room
      /\ later.seats = room.seats /\ later.spectators = room.spectators
      /\ later.forfeit = room.forfeit
  BY CloserType
<1>2. KingTaken(room, k) = [later EXCEPT !.game = "Finished", !.kings = later.kings \ {k}]
  BY <1>1 DEF KingTaken, Room
<1> HIDE DEF later, Seats
<1> QED BY <1>1, <1>2 DEF Room, GameStates

-----------------------------------------------------------------------------
(* What is routed, and the queue *)

LEMMA PutRouted ==
  ASSUME TypeOK, NEW c \in Connections, NEW key \in Keys
  PROVE  LET f == Put(routed, c, key) IN
         /\ DOMAIN f = DOMAIN routed \cup {c} /\ f \in [DOMAIN f -> Keys]
         /\ \A d \in DOMAIN f : f[d] = IF d = c THEN key ELSE routed[d]
  BY DEF Put, TypeOK

LEMMA WithoutRouted ==
  ASSUME TypeOK, NEW c
  PROVE  LET f == Without(routed, c) IN
         /\ DOMAIN f = DOMAIN routed \ {c} /\ f \in [DOMAIN f -> Keys]
         /\ \A d \in DOMAIN f : f[d] = routed[d]
  BY DEF Without, TypeOK

LEMMA PutRoom ==
  ASSUME TypeOK, NEW key \in Keys, NEW room \in Room
  PROVE  LET f == Put(rooms, key, room) IN
         /\ DOMAIN f = DOMAIN rooms \cup {key} /\ f \in [DOMAIN f -> Room]
         /\ \A k \in DOMAIN f : f[k] = IF k = key THEN room ELSE rooms[k]
  BY DEF Put, TypeOK

LEMMA RoomOfType ==
  ASSUME TypeOK, NEW key
  PROVE  RoomOf(key) \in Room
  BY NewRoomType DEF RoomOf, TypeOK

\* Everybody in the queue after a step was in it before, and nobody moved up twice.
StillWaiting(q) ==
  \E g \in [1 .. Len(q) -> 1 .. Len(waiting)] :
    /\ \A m \in 1 .. Len(q) : q[m].conn = waiting[g[m]].conn /\ q[m].user = waiting[g[m]].user
    /\ \A l, m \in 1 .. Len(q) : l # m => g[l] # g[m]

LEMMA RemoveWaiterQueue ==
  ASSUME TypeOK, NEW c, RemoveWaiter(c)
  PROVE  /\ waiting' \in Seq(Waiter)
         /\ StillWaiting(waiting')
         /\ \A m \in 1 .. Len(waiting') : waiting'[m].conn # c
<1> DEFINE I == {i \in 1 .. Len(waiting) : waiting[i].conn # c}
           k == Kept(waiting, I)
<1>1. waiting \in Seq(Waiter) /\ I \in SUBSET (1 .. Len(waiting))
  BY DEF TypeOK
<1>2. waiting' = k
  BY DEF RemoveWaiter
<1>3. \A i \in I : i \in 1 .. Len(waiting) /\ waiting[i].conn # c
  OBVIOUS
<1> HIDE DEF I, k
<1>4. PICK g \in [1 .. Len(k) -> I] :
        /\ \A m \in 1 .. Len(k) : k[m] = waiting[g[m]]
        /\ \A l, m \in 1 .. Len(k) : l # m => g[l] # g[m]
  BY <1>1, KeptElements DEF k
<1>5. k \in Seq(Waiter)
  BY <1>1, KeptElements DEF k
<1>6. g \in [1 .. Len(k) -> 1 .. Len(waiting)]
  BY <1>3
<1> QED BY <1>2, <1>3, <1>4, <1>5, <1>6 DEF StillWaiting

LEMMA ReapQueue ==
  ASSUME TypeOK, waiting' = Reap
  PROVE  waiting' \in Seq(Waiter) /\ StillWaiting(waiting')
<1> DEFINE I == {i \in 1 .. Len(waiting) : waiting[i].left > 0}
           k == Kept(waiting, I)
<1>1. waiting \in Seq(Waiter) /\ I \in SUBSET (1 .. Len(waiting))
  BY DEF TypeOK
<1>2. waiting' = [i \in 1 .. Len(k) |-> [k[i] EXCEPT !.left = @ - 1]]
  BY DEF Reap
<1>3. \A i \in I : i \in 1 .. Len(waiting) /\ waiting[i].left > 0
  OBVIOUS
<1> HIDE DEF I, k
<1>4. PICK g \in [1 .. Len(k) -> I] :
        /\ \A m \in 1 .. Len(k) : k[m] = waiting[g[m]]
        /\ \A l, m \in 1 .. Len(k) : l # m => g[l] # g[m]
  BY <1>1, KeptElements DEF k
<1>5. k \in Seq(Waiter)
  BY <1>1, KeptElements DEF k
<1>6. g \in [1 .. Len(k) -> 1 .. Len(waiting)]
  BY <1>3
<1>7. \A i \in 1 .. Len(k) : k[i].left > 0 /\ k[i] \in Waiter
  BY <1>3, <1>4, <1>5, ElementOfSeq
<1>8. \A i \in 1 .. Len(k) : [k[i] EXCEPT !.left = @ - 1] \in Waiter
  BY <1>7 DEF Waiter
<1>9. waiting' \in Seq(Waiter) /\ Len(waiting') = Len(k)
  BY <1>2, <1>5, <1>8
<1>10. \A m \in 1 .. Len(k) : waiting'[m].conn = k[m].conn /\ waiting'[m].user = k[m].user
  BY <1>2, <1>7 DEF Waiter
<1>11. \A m \in 1 .. Len(k) :
         waiting'[m].conn = waiting[g[m]].conn /\ waiting'[m].user = waiting[g[m]].user
  BY <1>4, <1>10
<1> QED BY <1>4, <1>6, <1>9, <1>11 DEF StillWaiting

LEMMA DequeueQueue ==
  ASSUME TypeOK, NEW i \in 1 .. Len(waiting)
  PROVE  /\ Dequeue(i) \in Seq(Waiter)
         /\ StillWaiting(Dequeue(i))
         /\ Len(Dequeue(i)) = Len(waiting) - 1
         /\ \A m \in 1 .. Len(waiting) - 1 :
              Dequeue(i)[m] = waiting[IF m < i THEN m ELSE m + 1]
<1> DEFINE n == Len(waiting) - 1
           g == [m \in 1 .. n |-> IF m < i THEN m ELSE m + 1]
           q == Dequeue(i)
<1>1. waiting \in Seq(Waiter) /\ Len(waiting) \in Nat /\ n \in Nat
  BY DEF TypeOK
<1>2. g \in [1 .. n -> 1 .. Len(waiting)]
  BY <1>1
<1>3. q = [m \in 1 .. n |-> waiting[g[m]]]
  BY DEF Dequeue
<1>4. \A m \in 1 .. n : g[m] = IF m < i THEN m ELSE m + 1
  OBVIOUS
<1>5. \A l, m \in 1 .. n : l # m => g[l] # g[m]
  BY <1>4, <1>1
<1> HIDE DEF g, q
<1>6. \A m \in 1 .. n : waiting[g[m]] \in Waiter
  BY <1>1, <1>2, ElementOfSeq
<1> HIDE DEF n
<1>7. q \in Seq(Waiter) /\ Len(q) = n
  BY <1>1, <1>3, <1>6
<1>8. \A m \in 1 .. n : q[m] = waiting[g[m]]
  BY <1>3
<1>9. StillWaiting(q)
  BY <1>2, <1>5, <1>7, <1>8 DEF StillWaiting
<1> QED BY <1>4, <1>7, <1>8, <1>9 DEF q, n

LEMMA AppendQueue ==
  ASSUME TypeOK, NEW w \in Waiter
  PROVE  LET q == Append(waiting, w) IN
         /\ q \in Seq(Waiter)
         /\ Len(q) = Len(waiting) + 1
         /\ \A m \in 1 .. Len(q) : q[m] = IF m <= Len(waiting) THEN waiting[m] ELSE w
  BY AppendProperties DEF TypeOK

LEMMA WaiterType ==
  ASSUME TypeOK, NEW i \in 1 .. Len(waiting)
  PROVE  waiting[i].conn \in Connections /\ waiting[i].user \in Users
<1>1. waiting[i] \in Waiter
  BY ElementOfSeq DEF TypeOK
<1> QED BY <1>1 DEF Waiter

-----------------------------------------------------------------------------
(* Types *)

LEMMA TypeInit == Init => TypeOK
<1> SUFFICES ASSUME Init PROVE TypeOK
  OBVIOUS
<1>1. rooms \in [DOMAIN rooms -> Room] /\ DOMAIN rooms = {}
  BY DEF Init
<1>2. DOMAIN routed = {} /\ routed \in [DOMAIN routed -> Keys]
  BY DEF Init
<1> QED BY <1>1, <1>2 DEF Init, TypeOK

\* A room that changes keeps the table's type.
LEMMA RoomsExcept ==
  ASSUME TypeOK, NEW key \in DOMAIN rooms, NEW room \in Room,
         rooms' = [rooms EXCEPT ![key] = room]
  PROVE  /\ DOMAIN rooms' = DOMAIN rooms /\ rooms' \in [DOMAIN rooms' -> Room]
         /\ rooms'[key] = room
         /\ \A k \in DOMAIN rooms : k # key => rooms'[k] = rooms[k]
  BY DEF TypeOK

LEMMA RecordType ==
  ASSUME TypeOK, NEW key \in Keys, NEW seats, NEW winner, Record(key, seats, winner)
  PROVE  /\ results' \in Seq(Result)
         /\ Len(results') \in Nat /\ Len(results) \in Nat /\ Len(results) <= Len(results')
         /\ \A i \in 1 .. Len(results) : results'[i] = results[i]
<1>1. results \in Seq(Result)
  BY DEF TypeOK
<1>2. CASE results' = results
  BY <1>1, <1>2
<1>3. CASE \E w \in PlayersOf(seats, winner), l \in PlayersOf(seats, Opponent(winner)) :
             results' = Append(results, [room |-> key, winner |-> w, loser |-> l])
  <2>1. PICK x \in Result : results' = Append(results, x)
    BY <1>3 DEF PlayersOf, Result
  <2> QED BY <1>1, <2>1, AppendProperties
<1> QED BY <1>2, <1>3 DEF Record

\* What a room of the sweep goes through.
LEMMA SweptRoom ==
  ASSUME TypeOK, NEW key \in DOMAIN rooms
  PROVE  rooms[key] \in Room /\ key \in Keys
  BY DEF TypeOK

LEMMA JoinerType ==
  ASSUME TypeOK, NEW c \in Connections, Joins(c)
  PROVE  session[c] \in Users
  BY DEF Joins, LoggedIn

\* A disconnect: what becomes of its room.
LEMMA DisconnectRooms ==
  ASSUME TypeOK, NEW c \in Connections, IsRouted(c) => routed[c] \in DOMAIN rooms,
         Disconnect(c)
  PROVE  /\ DOMAIN rooms' = DOMAIN rooms /\ rooms' \in [DOMAIN rooms' -> Room]
         /\ \A k \in DOMAIN rooms :
              rooms'[k] = IF IsRouted(c) /\ k = routed[c] THEN LeaveRoom(rooms[k], c) ELSE rooms[k]
<1>1. CASE IsRouted(c)
  <2>1. LeaveRoom(rooms[routed[c]], c) \in Room
    BY <1>1, LeaveRoomType, SweptRoom
  <2>2. rooms' = [rooms EXCEPT ![routed[c]] = LeaveRoom(rooms[routed[c]], c)]
    BY <1>1 DEF Disconnect
  <2> QED BY <1>1, <2>1, <2>2, RoomsExcept
<1>2. CASE ~IsRouted(c)
  BY <1>2 DEF Disconnect, TypeOK
<1> QED BY <1>1, <1>2

\* A reconnect: the seat of s changes hands.
LEMMA ReconnectRooms ==
  ASSUME TypeOK, NEW c \in Connections, Reconnect(c)
  PROVE  \E s \in Reclaimable(session[c]) :
           /\ s[1] \in DOMAIN rooms /\ s[2] \in DOMAIN rooms[s[1]].seats
           /\ rooms[s[1]].seats[s[2]] = [user |-> session[c], color |-> rooms[s[1]].forfeit]
           /\ DOMAIN rooms' = DOMAIN rooms /\ rooms' \in [DOMAIN rooms' -> Room]
           /\ rooms'[s[1]] = Reseat(rooms[s[1]], s[2], c)
           /\ \A k \in DOMAIN rooms : k # s[1] => rooms'[k] = rooms[k]
           /\ routed' = Put(routed, c, s[1])
<1>1. PICK s \in Reclaimable(session[c]) :
        /\ rooms' = [rooms EXCEPT ![s[1]] = Reseat(rooms[s[1]], s[2], c)]
        /\ routed' = Put(routed, c, s[1])
  BY DEF Reconnect
<1>2. /\ s[1] \in DOMAIN rooms /\ s[2] \in DOMAIN rooms[s[1]].seats
      /\ rooms[s[1]].seats[s[2]] = [user |-> session[c], color |-> rooms[s[1]].forfeit]
  BY DEF Reclaimable
<1>3. Reseat(rooms[s[1]], s[2], c) \in Room
  BY <1>2, ReseatType, SweptRoom
<1> QED BY <1>1, <1>2, <1>3, RoomsExcept

\* A quick match: what becomes of the new room, with waiter i.
Paired(i, c) ==
  LET room == RoomOf(<<"quick", nextQuick>>)
      w == waiting[i]
  IN  [room EXCEPT !.seats = Put(Put(room.seats, w.conn, [user |-> w.user, color |-> "White"]),
                                 c, [user |-> session[c], color |-> "Black"]),
                   !.game = "Running"]

LEMMA PairedType ==
  ASSUME TypeOK, NEW c \in Connections, Joins(c), NEW i \in 1 .. Len(waiting)
  PROVE  LET room == RoomOf(<<"quick", nextQuick>>)
             w == waiting[i]
             new == Paired(i, c)
         IN /\ new \in Room
            /\ DOMAIN new.seats = DOMAIN room.seats \cup {w.conn, c}
            /\ new.seats[c] = [user |-> session[c], color |-> "Black"]
            /\ w.conn # c => new.seats[w.conn] = [user |-> w.user, color |-> "White"]
            /\ \A d \in DOMAIN room.seats :
                 d \notin {w.conn, c} => new.seats[d] = room.seats[d]
            /\ new.forfeit = room.forfeit /\ new.spectators = room.spectators
            /\ new.game = "Running"
<1> DEFINE room == RoomOf(<<"quick", nextQuick>>)
           w == waiting[i]
           white == [user |-> w.user, color |-> "White"]
           black == [user |-> session[c], color |-> "Black"]
           first == Put(room.seats, w.conn, white)
           both == Put(first, c, black)
<1>1. room \in Room /\ w.conn \in Connections /\ white \in Seat /\ black \in Seat
  BY RoomOfType, WaiterType, JoinerType DEF Seat, Colors
<1> HIDE DEF white, black, room, w
<1>2. room.seats \in Seats
  BY <1>1 DEF Room
<1>3. /\ first \in Seats /\ DOMAIN first = DOMAIN room.seats \cup {w.conn}
      /\ first[w.conn] = white
      /\ \A d \in DOMAIN room.seats : d # w.conn => first[d] = room.seats[d]
  BY <1>1, <1>2, PutSeats
<1> HIDE DEF first
<1>4. /\ both \in Seats /\ DOMAIN both = DOMAIN first \cup {c}
      /\ both[c] = black
      /\ \A d \in DOMAIN first : d # c => both[d] = first[d]
  BY <1>1, <1>3, PutSeats
<1> HIDE DEF both
<1>5. Paired(i, c) = [room EXCEPT !.seats = both, !.game = "Running"]
  BY DEF Paired, both, first, white, black, room, w
<1>6. /\ Paired(i, c) \in Room /\ Paired(i, c).seats = both
      /\ Paired(i, c).forfeit = room.forfeit /\ Paired(i, c).spectators = room.spectators
      /\ Paired(i, c).game = "Running"
  BY <1>1, <1>4, <1>5 DEF Room, GameStates
<1> QED BY <1>3, <1>4, <1>6 DEF white, black, room, w

LEMMA QuickMatchRooms ==
  ASSUME TypeOK, NEW c \in Connections, QuickMatch(c)
  PROVE  LET key == <<"quick", nextQuick>> IN
         /\ key \in Keys
         /\ \E i \in 1 .. Len(waiting) :
              /\ waiting' = Dequeue(i)
              /\ DOMAIN rooms' = DOMAIN rooms \cup {key} /\ rooms' \in [DOMAIN rooms' -> Room]
              /\ rooms'[key] = Paired(i, c)
              /\ \A k \in DOMAIN rooms : k # key => rooms'[k] = rooms[k]
              /\ DOMAIN routed' = DOMAIN routed \cup {waiting[i].conn, c}
              /\ routed' \in [DOMAIN routed' -> Keys]
              /\ \A d \in DOMAIN routed' :
                   routed'[d] = IF d \in {waiting[i].conn, c} THEN key ELSE routed[d]
<1> DEFINE key == <<"quick", nextQuick>>
<1>1. key \in Keys
  BY DEF Keys, TypeOK
<1> HIDE DEF key
<1>2. PICK i \in 1 .. Len(waiting) :
        /\ waiting' = Dequeue(i) /\ rooms' = Put(rooms, key, Paired(i, c))
        /\ routed' = Put(Put(routed, waiting[i].conn, key), c, key)
  BY DEF QuickMatch, Paired, key
<1>3. Paired(i, c) \in Room
  BY PairedType DEF QuickMatch
<1>4. /\ DOMAIN rooms' = DOMAIN rooms \cup {key} /\ rooms' \in [DOMAIN rooms' -> Room]
      /\ rooms'[key] = Paired(i, c)
      /\ \A k \in DOMAIN rooms : k # key => rooms'[k] = rooms[k]
  <2> DEFINE f == Put(rooms, key, Paired(i, c))
  <2>1. /\ DOMAIN f = DOMAIN rooms \cup {key} /\ f \in [DOMAIN f -> Room]
        /\ \A k \in DOMAIN f : f[k] = IF k = key THEN Paired(i, c) ELSE rooms[k]
    BY <1>1, <1>3, PutRoom
  <2> HIDE DEF f
  <2> QED BY <1>2, <2>1 DEF f
<1>5. waiting[i].conn \in Connections
  BY WaiterType
<1>6. /\ DOMAIN routed' = DOMAIN routed \cup {waiting[i].conn, c}
      /\ routed' \in [DOMAIN routed' -> Keys]
      /\ \A d \in DOMAIN routed' :
           routed'[d] = IF d \in {waiting[i].conn, c} THEN key ELSE routed[d]
  BY <1>1, <1>2, <1>5 DEF Put, TypeOK
<1> QED BY <1>1, <1>2, <1>4, <1>6 DEF key

LEMMA EnterRooms ==
  ASSUME TypeOK, NEW c \in Connections, NEW key \in Keys, EnterRoom(c, key)
  PROVE  /\ RoomOf(key) \in Room /\ session[c] \in Users
         /\ DOMAIN rooms' = DOMAIN rooms \cup {key} /\ rooms' \in [DOMAIN rooms' -> Room]
         /\ rooms'[key] = Enter(RoomOf(key), c, session[c])
         /\ \A k \in DOMAIN rooms : k # key => rooms'[k] = rooms[k]
         /\ DOMAIN routed' = DOMAIN routed \cup {c} /\ routed' \in [DOMAIN routed' -> Keys]
         /\ \A d \in DOMAIN routed' : routed'[d] = IF d = c THEN key ELSE routed[d]
<1> DEFINE in == Enter(RoomOf(key), c, session[c])
           f == Put(rooms, key, in)
           g == Put(routed, c, key)
<1>1. RoomOf(key) \in Room /\ session[c] \in Users
  BY RoomOfType, JoinerType DEF EnterRoom
<1>2. in \in Room
  BY <1>1, EnterType
<1>3. rooms' = f /\ routed' = g
  BY DEF EnterRoom
<1> HIDE DEF in
<1>4. /\ DOMAIN f = DOMAIN rooms \cup {key} /\ f \in [DOMAIN f -> Room]
      /\ \A k \in DOMAIN f : f[k] = IF k = key THEN in ELSE rooms[k]
  BY <1>2, PutRoom
<1>5. /\ DOMAIN g = DOMAIN routed \cup {c} /\ g \in [DOMAIN g -> Keys]
      /\ \A d \in DOMAIN g : g[d] = IF d = c THEN key ELSE routed[d]
  BY PutRouted
<1> HIDE DEF f, g
<1> QED BY <1>1, <1>3, <1>4, <1>5 DEF in

\* The sweep: one room changes, and nothing of the registry.
LEMMA SweepRooms ==
  ASSUME TypeOK, NEW key \in DOMAIN rooms,
         \/ ForfeitRoom(key) \/ AdvanceRoom(key) \/ \E k \in Colors : TakeKing(key, k)
  PROVE  /\ UNCHANGED registry /\ sweep' \subseteq sweep
         /\ DOMAIN rooms' = DOMAIN rooms /\ rooms' \in [DOMAIN rooms' -> Room]
         /\ \A k \in DOMAIN rooms : k # key => rooms'[k] = rooms[k]
         /\ results' \in Seq(Result)
         /\ Len(results') \in Nat /\ Len(results) \in Nat /\ Len(results) <= Len(results')
         /\ \A i \in 1 .. Len(results) : results'[i] = results[i]
         /\ \/ ForfeitRoom(key) /\ rooms'[key] = Finalize(rooms[key])
            \/ /\ rooms'[key].seats = rooms[key].seats
               /\ rooms'[key].spectators = rooms[key].spectators
               /\ rooms'[key].forfeit = rooms[key].forfeit
               /\ \/ AdvanceRoom(key) /\ rooms'[key].game = rooms[key].game
                  \/ /\ \E k \in Colors : TakeKing(key, k)
                     /\ rooms[key].game = "Running" /\ rooms'[key].game = "Finished"
<1> DEFINE room == rooms[key]
<1>1. room \in Room /\ key \in Keys
  BY SweptRoom
<1>2. UNCHANGED registry /\ sweep' \subseteq sweep
  BY DEF ForfeitRoom, AdvanceRoom, TakeKing, Swept
<1>3. Len(results) \in Nat /\ results \in Seq(Result)
  BY DEF TypeOK
<1>4. CASE ForfeitRoom(key)
  <2>1. rooms' = [rooms EXCEPT ![key] = Finalize(room)] /\ Finalize(room) \in Room
    BY <1>1, <1>4, FinalizeType DEF ForfeitRoom
  <2>2. Record(key, room.seats, Opponent(room.forfeit))
    BY <1>4 DEF ForfeitRoom
  <2> HIDE DEF room
  <2>3. /\ DOMAIN rooms' = DOMAIN rooms /\ rooms' \in [DOMAIN rooms' -> Room]
        /\ rooms'[key] = Finalize(room)
        /\ \A k \in DOMAIN rooms : k # key => rooms'[k] = rooms[k]
    BY <2>1, RoomsExcept
  <2> QED BY <1>1, <1>2, <1>4, <2>2, <2>3, RecordType DEF room
<1>5. CASE AdvanceRoom(key)
  <2>1. rooms' = [rooms EXCEPT ![key] = Closer(room)] /\ results' = results
    BY <1>5 DEF AdvanceRoom
  <2>2. /\ Closer(room) \in Room
        /\ Closer(room).seats = room.seats /\ Closer(room).spectators = room.spectators
        /\ Closer(room).forfeit = room.forfeit /\ Closer(room).game = room.game
    BY <1>1, CloserType
  <2> HIDE DEF room
  <2>3. /\ DOMAIN rooms' = DOMAIN rooms /\ rooms' \in [DOMAIN rooms' -> Room]
        /\ rooms'[key] = Closer(room)
        /\ \A k \in DOMAIN rooms : k # key => rooms'[k] = rooms[k]
    BY <2>1, <2>2, RoomsExcept
  <2> QED BY <1>2, <1>3, <1>5, <2>1, <2>2, <2>3 DEF room
<1>6. CASE \E k \in Colors : TakeKing(key, k)
  <2>1. PICK k \in Colors : TakeKing(key, k)
    BY <1>6
  <2> DEFINE over == KingTaken(room, k)
  <2>2. rooms' = [rooms EXCEPT ![key] = over] /\ room.game = "Running"
    BY <2>1 DEF TakeKing
  <2>3. Record(key, room.seats, Opponent(k))
    BY <2>1 DEF TakeKing
  <2>4. /\ over \in Room
        /\ over.seats = room.seats /\ over.spectators = room.spectators
        /\ over.forfeit = room.forfeit /\ over.game = "Finished"
    BY <1>1, KingTakenType
  <2> HIDE DEF room, over
  <2>5. /\ DOMAIN rooms' = DOMAIN rooms /\ rooms' \in [DOMAIN rooms' -> Room]
        /\ rooms'[key] = over
        /\ \A j \in DOMAIN rooms : j # key => rooms'[j] = rooms[j]
    BY <2>2, <2>4, RoomsExcept
  <2> QED BY <1>1, <1>2, <1>6, <2>2, <2>3, <2>4, <2>5, RecordType DEF room
<1> QED BY <1>4, <1>5, <1>6

-----------------------------------------------------------------------------
(* Whatever the clients do *)

\* Connections are numbered as they open: one that is still to come has no session and
\* sits nowhere.
Fresh == \A c \in Connections : c >= nextConn => session[c] = NoSession
SeatsSeen == \A key \in DOMAIN rooms : \A d \in DOMAIN rooms[key].seats : d < nextConn

ServerInv == TypeOK /\ Fresh /\ SeatsSeen /\ NoStaleEntry /\ ForfeitOfTheAbsent

LEMMA TypeStep == TypeOK /\ NoStaleEntry /\ [Next]_vars => TypeOK'
<1> SUFFICES ASSUME TypeOK, NoStaleEntry, [Next]_vars PROVE TypeOK'
  OBVIOUS
<1> USE DEF registry
<1>1. CASE Connect
  BY <1>1 DEF TypeOK, Connect, Connections
<1>2. ASSUME NEW c \in Connections, NEW u \in Users, Login(c, u) PROVE TypeOK'
  BY <1>2 DEF TypeOK, Login
<1>3. ASSUME NEW c \in Connections, Disconnect(c) PROVE TypeOK'
  <2>1. IsRouted(c) => routed[c] \in DOMAIN rooms
    BY DEF NoStaleEntry, IsRouted
  <2>2. waiting' \in Seq(Waiter)
    BY <1>3, RemoveWaiterQueue DEF Disconnect
  <2>3. DOMAIN rooms' = DOMAIN rooms /\ rooms' \in [DOMAIN rooms' -> Room]
    BY <1>3, <2>1, DisconnectRooms
  <2>4. DOMAIN routed' = DOMAIN routed \ {c} /\ routed' \in [DOMAIN routed' -> Keys]
    BY <1>3, WithoutRouted DEF Disconnect
  <2> QED BY <1>3, <2>2, <2>3, <2>4 DEF Disconnect, TypeOK
<1>4. ASSUME NEW c \in Connections, Reconnect(c) PROVE TypeOK'
  <2>1. PICK s \in Reclaimable(session[c]) :
          /\ s[1] \in DOMAIN rooms
          /\ DOMAIN rooms' = DOMAIN rooms /\ rooms' \in [DOMAIN rooms' -> Room]
          /\ routed' = Put(routed, c, s[1])
    BY <1>4, ReconnectRooms
  <2>2. s[1] \in Keys
    BY <2>1 DEF TypeOK
  <2>3. DOMAIN routed' = DOMAIN routed \cup {c} /\ routed' \in [DOMAIN routed' -> Keys]
    BY <2>1, <2>2, PutRouted
  <2> QED BY <1>4, <2>1, <2>3 DEF Reconnect, TypeOK
<1>5. ASSUME NEW c \in Connections, QuickMatch(c) PROVE TypeOK'
  <2>1. PICK i \in 1 .. Len(waiting) :
          /\ waiting' = Dequeue(i)
          /\ DOMAIN rooms' = DOMAIN rooms \cup {<<"quick", nextQuick>>}
          /\ rooms' \in [DOMAIN rooms' -> Room]
          /\ DOMAIN routed' = DOMAIN routed \cup {waiting[i].conn, c}
          /\ routed' \in [DOMAIN routed' -> Keys]
    BY <1>5, QuickMatchRooms
  <2>2. waiting' \in Seq(Waiter) /\ waiting[i].conn \in Connections
    BY <2>1, DequeueQueue, WaiterType
  <2>3. <<"quick", nextQuick>> \in Keys
    BY DEF Keys, TypeOK
  <2>4. nextQuick' \in Nat /\ UNCHANGED <<session, results, nextConn, nextNamed, sweep>>
    BY <1>5 DEF QuickMatch, TypeOK
  <2> QED BY <2>1, <2>2, <2>3, <2>4 DEF TypeOK
<1>6. ASSUME NEW c \in Connections, Wait(c) PROVE TypeOK'
  <2>1. [conn |-> c, user |-> session[c], left |-> SearchTicks] \in Waiter
    BY <1>6, JoinerType, ServerAssumption DEF Wait, Waiter
  <2>2. waiting' \in Seq(Waiter)
    BY <1>6, <2>1, AppendQueue DEF Wait, AddWaiter
  <2> QED BY <1>6, <2>2 DEF Wait, TypeOK
<1>7. ASSUME NEW c \in Connections, NEW key \in Keys, EnterRoom(c, key), nextNamed' \in Nat
      PROVE  TypeOK'
  <2>1. /\ DOMAIN rooms' = DOMAIN rooms \cup {key} /\ rooms' \in [DOMAIN rooms' -> Room]
        /\ DOMAIN routed' = DOMAIN routed \cup {c} /\ routed' \in [DOMAIN routed' -> Keys]
    BY <1>7, EnterRooms
  <2> QED BY <1>7, <2>1 DEF EnterRoom, TypeOK
<1>8. ASSUME NEW c \in Connections, NEW key \in TypedKeys, JoinRoom(c, key) PROVE TypeOK'
  <2>1. key \in Keys /\ nextNamed' \in Nat
    BY <1>8, ServerAssumption DEF JoinRoom, TypeOK
  <2> QED BY <1>7, <1>8, <2>1 DEF JoinRoom
<1>9. ASSUME NEW c \in Connections, CreateRoom(c) PROVE TypeOK'
  <2>1. <<"named", nextNamed>> \in Keys /\ nextNamed' \in Nat
    BY <1>9 DEF CreateRoom, TypeOK, Keys
  <2> QED BY <1>7, <1>9, <2>1 DEF CreateRoom
<1>10. CASE StartTick
  <2>1. waiting' \in Seq(Waiter)
    BY <1>10, ReapQueue DEF StartTick
  <2> QED BY <1>10, <2>1 DEF StartTick, TypeOK
<1>11. ASSUME NEW key \in DOMAIN rooms,
              \/ ForfeitRoom(key) \/ AdvanceRoom(key) \/ \E k \in Colors : TakeKing(key, k)
       PROVE  TypeOK'
  BY <1>11, SweepRooms DEF TypeOK
<1>12. CASE UNCHANGED vars
  BY <1>12 DEF TypeOK, vars
<1> QED
  BY <1>1, <1>2, <1>3, <1>4, <1>5, <1>6, <1>8, <1>9, <1>10, <1>11, <1>12
  DEF Next, Handlers, TickThread

\* Who is logged in stays so until the connection closes.
LEMMA SessionStep ==
  ASSUME TypeOK, Fresh, [Next]_vars
  PROVE  /\ Fresh' /\ nextConn' \in Nat /\ nextConn <= nextConn'
         /\ \A d \in Connections :
              /\ LoggedIn(d) /\ ~Disconnect(d) => session'[d] = session[d]
              /\ d < nextConn /\ ~Connected(d) => ~Connected(d)'
         /\ \A d \in Connections : Connected(d) => d < nextConn
<1> USE DEF registry
<1>1. nextConn \in Nat /\ NumConns \in Nat /\ DOMAIN session = Connections
  BY ServerAssumption DEF TypeOK
<1>2. \A d \in Connections : d \in Nat /\ (Connected(d) => d < nextConn)
  BY <1>1 DEF Fresh, Connected, Connections
<1>3. CASE Connect
  <2>1. /\ nextConn' = nextConn + 1
        /\ session'[nextConn] = Pending /\ session[nextConn] = NoSession
        /\ \A d \in Connections : d # nextConn => session'[d] = session[d]
    BY <1>1, <1>3 DEF Connect, Fresh
  <2>2. \A d \in Connections : LoggedIn(d) => d # nextConn
    BY <2>1, ServerAssumption DEF LoggedIn
  <2>3. \A d \in Connections :
          /\ d >= nextConn' => d >= nextConn /\ d # nextConn
          /\ d < nextConn => d # nextConn
    BY <1>1, <1>2, <2>1
  <2>4. Fresh' /\ nextConn' \in Nat /\ nextConn <= nextConn'
    BY <1>1, <2>1, <2>3 DEF Fresh
  <2>5. \A d \in Connections : d < nextConn /\ ~Connected(d) => ~Connected(d)'
    BY <2>1, <2>3 DEF Connected
  <2> QED BY <1>2, <2>1, <2>2, <2>4, <2>5
<1>4. ASSUME NEW c \in Connections, NEW u \in Users, Login(c, u)
      PROVE  /\ session[c] = Pending /\ nextConn' = nextConn
             /\ \A d \in Connections : d # c => session'[d] = session[d]
  BY <1>1, <1>4 DEF Login
<1>5. ASSUME NEW c \in Connections, Disconnect(c)
      PROVE  /\ session'[c] = NoSession /\ nextConn' = nextConn
             /\ \A d \in Connections : d # c => session'[d] = session[d]
  BY <1>1, <1>5 DEF Disconnect
<1>6. CASE \E c \in Connections, u \in Users : Login(c, u)
  <2>1. PICK c \in Connections, u \in Users : Login(c, u)
    BY <1>6
  <2>2. ~LoggedIn(c) /\ c < nextConn
    <3>1. session[c] = Pending
      BY <1>4, <2>1
    <3>2. Connected(c)
      BY <3>1 DEF Connected, Pending, NoSession
    <3> QED BY <1>2, <3>1, <3>2, ServerAssumption DEF LoggedIn
  <2>3. /\ nextConn' = nextConn /\ Connected(c)
        /\ \A d \in Connections : d # c => session'[d] = session[d]
    BY <1>4, <2>1 DEF Connected, Pending, NoSession
  <2>4. Fresh' /\ nextConn' \in Nat /\ nextConn <= nextConn'
    BY <1>1, <1>2, <2>2, <2>3 DEF Fresh
  <2>5. \A d \in Connections : d < nextConn /\ ~Connected(d) => ~Connected(d)'
    BY <2>3 DEF Connected
  <2> QED BY <1>2, <2>2, <2>3, <2>4, <2>5
<1>7. CASE \E c \in Connections : Disconnect(c)
  BY <1>1, <1>2, <1>5, <1>7 DEF Fresh, Connected
<1>8. CASE UNCHANGED <<session, nextConn>>
  BY <1>1, <1>2, <1>8 DEF Fresh, Connected
<1>9. ASSUME ~Connect, ~ \E c \in Connections, u \in Users : Login(c, u),
             ~ \E c \in Connections : Disconnect(c)
      PROVE  UNCHANGED <<session, nextConn>>
  <2>1. CASE \E c \in Connections : Reconnect(c) \/ QuickMatch(c) \/ Wait(c) \/ CreateRoom(c)
    BY <2>1 DEF Reconnect, QuickMatch, Wait, CreateRoom, EnterRoom
  <2>2. CASE \E c \in Connections, key \in TypedKeys : JoinRoom(c, key)
    BY <2>2 DEF JoinRoom, EnterRoom
  <2>3. CASE TickThread
    BY <2>3 DEF TickThread, StartTick, ForfeitRoom, AdvanceRoom, TakeKing, Swept
  <2>4. CASE UNCHANGED vars
    BY <2>4 DEF vars
  <2> QED BY <1>9, <2>1, <2>2, <2>3, <2>4 DEF Next, Handlers
<1> QED BY <1>3, <1>6, <1>7, <1>8, <1>9

\* What a step does to a room.
RoomLeft(key) ==
  \E c \in Connections :
    Disconnect(c) /\ IsRouted(c) /\ routed[c] = key /\ rooms'[key] = LeaveRoom(RoomOf(key), c)
RoomReseated(key) ==
  \E c \in Connections : \E d \in DOMAIN RoomOf(key).seats :
    /\ Reconnect(c)
    /\ RoomOf(key).seats[d] = [user |-> session[c], color |-> RoomOf(key).forfeit]
    /\ rooms'[key] = Reseat(RoomOf(key), d, c)
RoomPaired(key) ==
  \E c \in Connections, i \in 1 .. Len(waiting) :
    QuickMatch(c) /\ key = <<"quick", nextQuick>> /\ rooms'[key] = Paired(i, c)
RoomEntered(key) ==
  \E c \in Connections :
    /\ EnterRoom(c, key) /\ key \in TypedKeys \cup {<<"named", nextNamed>>}
    /\ IsOver(RoomOf(key)) => Reuse
    /\ rooms'[key] = Enter(RoomOf(key), c, session[c])
RoomForfeited(key) == ForfeitRoom(key) /\ rooms'[key] = Finalize(RoomOf(key))
SameSeats(key) ==
  /\ rooms'[key].seats = RoomOf(key).seats /\ rooms'[key].forfeit = RoomOf(key).forfeit
  /\ rooms'[key].spectators = RoomOf(key).spectators
RoomAdvanced(key) ==
  AdvanceRoom(key) /\ SameSeats(key) /\ rooms'[key].game = RoomOf(key).game
RoomWon(key) ==
  /\ \E k \in Colors : TakeKing(key, k)
  /\ SameSeats(key) /\ RoomOf(key).game = "Running" /\ rooms'[key].game = "Finished"
RoomKept(key) == key \in DOMAIN rooms /\ rooms'[key] = rooms[key]

LEMMA RoomStep ==
  ASSUME TypeOK, NoStaleEntry, [Next]_vars
  PROVE  /\ DOMAIN rooms \subseteq DOMAIN rooms'
         /\ \A key \in DOMAIN rooms' :
              /\ key \in Keys /\ RoomOf(key) \in Room /\ rooms'[key] \in Room
              /\ \/ RoomKept(key) \/ RoomLeft(key) \/ RoomReseated(key) \/ RoomPaired(key)
                 \/ RoomEntered(key) \/ RoomForfeited(key) \/ RoomAdvanced(key) \/ RoomWon(key)
<1> DEFINE Steps(key) ==
             \/ RoomKept(key) \/ RoomLeft(key) \/ RoomReseated(key) \/ RoomPaired(key)
             \/ RoomEntered(key) \/ RoomForfeited(key) \/ RoomAdvanced(key) \/ RoomWon(key)
           Goal == DOMAIN rooms \subseteq DOMAIN rooms' /\ \A key \in DOMAIN rooms' : Steps(key)
<1> USE DEF registry
<1>1. \A key \in DOMAIN rooms : RoomOf(key) = rooms[key]
  BY DEF RoomOf
<1>2. ASSUME UNCHANGED rooms PROVE Goal
  BY <1>2 DEF RoomKept
<1>3. ASSUME NEW c \in Connections, Disconnect(c) PROVE Goal
  <2>1. /\ DOMAIN rooms' = DOMAIN rooms
        /\ \A k \in DOMAIN rooms :
             rooms'[k] = IF IsRouted(c) /\ k = routed[c] THEN LeaveRoom(rooms[k], c) ELSE rooms[k]
    BY <1>3, DisconnectRooms DEF NoStaleEntry, IsRouted
  <2> QED BY <1>1, <1>3, <2>1 DEF RoomKept, RoomLeft
<1>4. ASSUME NEW c \in Connections, Reconnect(c) PROVE Goal
  <2>1. PICK s \in Reclaimable(session[c]) :
          /\ s[1] \in DOMAIN rooms /\ s[2] \in DOMAIN rooms[s[1]].seats
          /\ rooms[s[1]].seats[s[2]] = [user |-> session[c], color |-> rooms[s[1]].forfeit]
          /\ DOMAIN rooms' = DOMAIN rooms
          /\ rooms'[s[1]] = Reseat(rooms[s[1]], s[2], c)
          /\ \A k \in DOMAIN rooms : k # s[1] => rooms'[k] = rooms[k]
    BY <1>4, ReconnectRooms
  <2> DEFINE key == s[1]
             d == s[2]
  <2>2. /\ key \in DOMAIN rooms /\ d \in DOMAIN RoomOf(key).seats
        /\ RoomOf(key).seats[d] = [user |-> session[c], color |-> RoomOf(key).forfeit]
        /\ rooms'[key] = Reseat(RoomOf(key), d, c)
    BY <1>1, <2>1
  <2>3. \A k \in DOMAIN rooms' : k = key \/ RoomKept(k)
    BY <2>1 DEF RoomKept
  <2> HIDE DEF key, d
  <2>4. RoomReseated(key)
    BY <1>4, <2>2 DEF RoomReseated
  <2> QED BY <2>1, <2>3, <2>4
<1>5. ASSUME NEW c \in Connections, QuickMatch(c) PROVE Goal
  <2>1. PICK i \in 1 .. Len(waiting) :
          /\ DOMAIN rooms' = DOMAIN rooms \cup {<<"quick", nextQuick>>}
          /\ rooms'[<<"quick", nextQuick>>] = Paired(i, c)
          /\ \A k \in DOMAIN rooms : k # <<"quick", nextQuick>> => rooms'[k] = rooms[k]
    BY <1>5, QuickMatchRooms
  <2> DEFINE key == <<"quick", nextQuick>>
  <2>2. RoomPaired(key)
    BY <1>5, <2>1 DEF RoomPaired
  <2> HIDE DEF key
  <2>3. \A k \in DOMAIN rooms' : k = key \/ RoomKept(k)
    BY <2>1 DEF RoomKept, key
  <2> QED BY <2>1, <2>2, <2>3 DEF key
<1>6. ASSUME NEW c \in Connections, NEW key \in TypedKeys \cup {<<"named", nextNamed>>},
             EnterRoom(c, key), IsOver(RoomOf(key)) => Reuse
      PROVE  Goal
  <2>1. key \in Keys
    BY ServerAssumption DEF Keys, TypeOK
  <2>2. /\ DOMAIN rooms' = DOMAIN rooms \cup {key}
        /\ rooms'[key] = Enter(RoomOf(key), c, session[c])
        /\ \A k \in DOMAIN rooms : k # key => rooms'[k] = rooms[k]
    BY <1>6, <2>1, EnterRooms
  <2> QED BY <1>6, <2>2 DEF RoomKept, RoomEntered
<1>7. ASSUME NEW key \in DOMAIN rooms,
             \/ ForfeitRoom(key) \/ AdvanceRoom(key) \/ \E k \in Colors : TakeKing(key, k)
      PROVE  Goal
  <2>1. /\ DOMAIN rooms' = DOMAIN rooms
        /\ \A k \in DOMAIN rooms : k # key => rooms'[k] = rooms[k]
    BY <1>7, SweepRooms
  <2>2. RoomForfeited(key) \/ RoomAdvanced(key) \/ RoomWon(key)
    BY <1>1, <1>7, SweepRooms DEF RoomForfeited, RoomAdvanced, RoomWon, SameSeats
  <2> QED BY <2>1, <2>2 DEF RoomKept
<1>8. Goal
  <2>1. CASE Connect \/ StartTick \/ UNCHANGED vars
    BY <1>2, <2>1 DEF Connect, StartTick, vars
  <2>2. CASE \E c \in Connections, u \in Users : Login(c, u)
    BY <1>2, <2>2 DEF Login
  <2>3. CASE \E c \in Connections : Wait(c)
    BY <1>2, <2>3 DEF Wait
  <2>4. CASE \E c \in Connections, key \in TypedKeys : JoinRoom(c, key)
    BY <1>6, <2>4 DEF JoinRoom
  <2>5. CASE \E c \in Connections : CreateRoom(c)
    BY <1>6, <2>5 DEF CreateRoom
  <2> HIDE DEF Goal
  <2> QED BY <1>3, <1>4, <1>5, <1>7, <2>1, <2>2, <2>3, <2>4, <2>5
          DEF Next, Handlers, TickThread
<1>9. \A key \in DOMAIN rooms' : key \in Keys /\ rooms'[key] \in Room /\ RoomOf(key) \in Room
  BY TypeStep, RoomOfType DEF TypeOK
<1> HIDE DEF Steps
<1> QED BY <1>8, <1>9 DEF Steps

\* Who takes a seat is open.  A seat is given up by a player who leaves, moves to the new
\* connection of the player it is kept for, goes to somebody else who joins, or is emptied
\* by a forfeit.
LEMMA SeatsStep ==
  ASSUME TypeOK, NoStaleEntry, [Next]_vars, NEW key \in DOMAIN rooms'
  PROVE  LET old == RoomOf(key).seats
             new == rooms'[key].seats
         IN
         /\ \A d \in DOMAIN new : d \in DOMAIN old \/ LoggedIn(d)
         /\ \A d \in DOMAIN old :
              \/ ForfeitRoom(key) \/ LoggedIn(d) \/ RoomReseated(key)
              \/ d \in DOMAIN new /\ new[d] = old[d]
<1> DEFINE old == RoomOf(key).seats
           new == rooms'[key].seats
           Kind == /\ \A d \in DOMAIN new : d \in DOMAIN old \/ LoggedIn(d)
                   /\ \A d \in DOMAIN old :
                        \/ ForfeitRoom(key) \/ LoggedIn(d) \/ RoomReseated(key)
                        \/ d \in DOMAIN new /\ new[d] = old[d]
<1>1. RoomOf(key) \in Room /\ old \in Seats
  BY RoomStep DEF Room
<1>2. CASE RoomKept(key)
  BY <1>2 DEF RoomKept, RoomOf
<1>3. ASSUME NEW c \in Connections, Disconnect(c), IsRouted(c),
             rooms'[key] = LeaveRoom(RoomOf(key), c)
      PROVE  Kind
  <2>1. LoggedIn(c)
    BY <1>3 DEF NoStaleEntry, IsRouted
  <2>2. new = old \/ new = Without(old, c)
    BY <1>1, <1>3, LeaveRoomType
  <2>3. /\ DOMAIN Without(old, c) = DOMAIN old \ {c}
        /\ \A d \in DOMAIN old \ {c} : Without(old, c)[d] = old[d]
    BY <1>1, WithoutSeats
  <2> HIDE DEF old, new
  <2> QED BY <2>1, <2>2, <2>3
<1>4. ASSUME NEW c \in Connections, NEW d \in DOMAIN old, Reconnect(c),
             rooms'[key] = Reseat(RoomOf(key), d, c), RoomReseated(key)
      PROVE  Kind
  <2>1. LoggedIn(c)
    BY <1>4 DEF Reconnect, Joins
  <2>2. new = Put(Without(old, d), c, old[d])
    BY <1>1, <1>4, ReseatType
  <2>3. Without(old, d) \in Seats /\ DOMAIN Without(old, d) = DOMAIN old \ {d} /\ old[d] \in Seat
    BY <1>1, WithoutSeats, SeatsType
  <2> DEFINE left == Without(old, d)
             seat == old[d]
  <2> HIDE DEF left, seat
  <2>4. DOMAIN Put(left, c, seat) = DOMAIN left \cup {c}
    BY <2>3, PutSeats DEF left, seat
  <2> HIDE DEF old, new
  <2>5. DOMAIN new = (DOMAIN old \ {d}) \cup {c}
    BY <2>2, <2>3, <2>4 DEF left, seat
  <2> QED BY <1>4, <2>1, <2>5
<1>5. ASSUME NEW c \in Connections, NEW i \in 1 .. Len(waiting), QuickMatch(c),
             key = <<"quick", nextQuick>>, rooms'[key] = Paired(i, c)
      PROVE  Kind
  <2>1. LoggedIn(c) /\ LoggedIn(waiting[i].conn)
    BY <1>5 DEF QuickMatch, Joins, NoStaleEntry
  <2>2. Joins(c)
    BY <1>5 DEF QuickMatch
  <2> DEFINE room == RoomOf(<<"quick", nextQuick>>)
             paired == Paired(i, c)
  <2>3. /\ DOMAIN paired.seats = DOMAIN room.seats \cup {waiting[i].conn, c}
        /\ \A d \in DOMAIN room.seats :
             d \notin {waiting[i].conn, c} => paired.seats[d] = room.seats[d]
    BY <2>2, PairedType
  <2>4. old = room.seats /\ new = paired.seats
    BY <1>5
  <2> HIDE DEF old, new, room, paired
  <2> QED BY <2>1, <2>3, <2>4
<1>6. ASSUME NEW c \in Connections, EnterRoom(c, key),
             rooms'[key] = Enter(RoomOf(key), c, session[c])
      PROVE  Kind
  <2>1. LoggedIn(c) /\ session[c] \in Users
    BY <1>6 DEF EnterRoom, Joins, LoggedIn
  <2> DEFINE seat == [user |-> session[c],
                      color |-> IF RoomOf(key).seats = EmptySeats THEN "White" ELSE "Black"]
  <2>2. new = old \/ new = Put(old, c, seat)
    BY <1>1, <1>6, <2>1, EnterType
  <2>3. seat \in Seat
    BY <2>1 DEF Seat, Colors
  <2> HIDE DEF seat
  <2>4. /\ DOMAIN Put(old, c, seat) = DOMAIN old \cup {c}
        /\ \A d \in DOMAIN old : d # c => Put(old, c, seat)[d] = old[d]
    BY <1>1, <2>3, PutSeats
  <2> HIDE DEF old, new
  <2> QED BY <2>1, <2>2, <2>4
<1>7. CASE RoomForfeited(key)
  <2>1. DOMAIN new = {} /\ ForfeitRoom(key)
    BY <1>1, <1>7, FinalizeType, EmptySeatsType DEF RoomForfeited
  <2> QED BY <2>1
<1>8. CASE RoomAdvanced(key) \/ RoomWon(key)
  BY <1>8 DEF RoomAdvanced, RoomWon, SameSeats
<1> HIDE DEF old, new, Kind
<1>9. Kind
  <2>1. CASE RoomLeft(key)
    BY <1>3, <2>1 DEF RoomLeft
  <2>2. CASE RoomReseated(key)
    BY <1>4, <2>2 DEF RoomReseated, old
  <2>3. CASE RoomPaired(key)
    BY <1>5, <2>3 DEF RoomPaired
  <2>4. CASE RoomEntered(key)
    BY <1>6, <2>4 DEF RoomEntered
  <2> QED BY <1>2, <1>7, <1>8, <2>1, <2>2, <2>3, <2>4, RoomStep DEF Kind, old, new
<1> QED BY <1>9 DEF Kind, old, new

LEMMA SeenStep == ServerInv /\ [Next]_vars => SeatsSeen'
<1> SUFFICES ASSUME ServerInv, [Next]_vars, NEW key \in DOMAIN rooms',
                    NEW d \in DOMAIN rooms'[key].seats
             PROVE  d < nextConn'
  BY DEF SeatsSeen
<1>1. nextConn \in Nat /\ nextConn' \in Nat /\ nextConn <= nextConn'
  BY SessionStep DEF ServerInv, TypeOK
<1>2. d \in Connections
  <2>1. rooms'[key].seats \in Seats
    BY RoomStep DEF ServerInv, Room
  <2> QED BY <2>1, SeatsType
<1>3. CASE LoggedIn(d)
  <2>1. Connected(d)
    BY <1>3, ServerAssumption DEF LoggedIn, Connected
  <2>2. d < nextConn
    BY <1>2, <2>1, SessionStep DEF ServerInv
  <2> QED BY <1>1, <1>2, <2>2 DEF Connections
<1>4. CASE d \in DOMAIN RoomOf(key).seats
  <2>1. d < nextConn
    BY <1>4, NewRoomType DEF RoomOf, ServerInv, SeatsSeen
  <2> QED BY <1>1, <1>2, <2>1 DEF Connections
<1> QED BY <1>3, <1>4, SeatsStep DEF ServerInv

\* A forfeit appears when a player drops out, and names that player's colour.
LEMMA ForfeitStep ==
  ASSUME TypeOK, NoStaleEntry, [Next]_vars, NEW key \in DOMAIN rooms'
  PROVE  \/ rooms'[key].forfeit \in {RoomOf(key).forfeit, NoForfeit}
         \/ \E c \in Connections :
              /\ Disconnect(c) /\ c \in DOMAIN rooms'[key].seats
              /\ rooms'[key].forfeit = rooms'[key].seats[c].color
<1>1. RoomOf(key) \in Room
  BY RoomStep
<1>2. CASE RoomLeft(key)
  BY <1>1, <1>2, LeaveRoomType DEF RoomLeft
<1>3. CASE RoomReseated(key)
  BY <1>1, <1>3, ReseatType DEF RoomReseated
<1>4. CASE RoomPaired(key)
  <2>1. PICK c \in Connections, i \in 1 .. Len(waiting) :
          Joins(c) /\ key = <<"quick", nextQuick>> /\ rooms'[key] = Paired(i, c)
    BY <1>4 DEF RoomPaired, QuickMatch
  <2>2. Paired(i, c).forfeit = RoomOf(<<"quick", nextQuick>>).forfeit
    BY <2>1, PairedType
  <2>3. RoomOf(<<"quick", nextQuick>>) = RoomOf(key)
    BY <2>1
  <2>4. rooms'[key].forfeit = RoomOf(key).forfeit
    BY <2>1, <2>2, <2>3
  <2> QED BY <2>4
<1>5. CASE RoomEntered(key)
  <2>1. PICK c \in Connections :
          session[c] \in Users /\ rooms'[key] = Enter(RoomOf(key), c, session[c])
    BY <1>5 DEF RoomEntered, EnterRoom, Joins, LoggedIn
  <2> DEFINE in == Enter(RoomOf(key), c, session[c])
  <2>2. in.forfeit = RoomOf(key).forfeit
    BY <1>1, <2>1, EnterType
  <2> HIDE DEF in
  <2>3. rooms'[key].forfeit = RoomOf(key).forfeit
    BY <2>1, <2>2 DEF in
  <2> QED BY <2>3
<1>6. CASE RoomForfeited(key)
  BY <1>1, <1>6, FinalizeType DEF RoomForfeited
<1>7. CASE RoomAdvanced(key) \/ RoomWon(key) \/ RoomKept(key)
  BY <1>7 DEF RoomAdvanced, RoomWon, SameSeats, RoomKept, RoomOf
<1> QED BY <1>2, <1>3, <1>4, <1>5, <1>6, <1>7, RoomStep

LEMMA AbsentStep == ServerInv /\ [Next]_vars => ForfeitOfTheAbsent'
<1> SUFFICES ASSUME ServerInv, [Next]_vars, NEW key \in DOMAIN rooms',
                    rooms'[key].forfeit # NoForfeit
             PROVE  \E d \in DOMAIN rooms'[key].seats :
                      rooms'[key].seats[d].color = rooms'[key].forfeit /\ ~Connected(d)'
  BY DEF ForfeitOfTheAbsent, Absent
<1>1. TypeOK /\ NoStaleEntry /\ Fresh
  BY DEF ServerInv
<1>2. ASSUME NEW c \in Connections, Disconnect(c) PROVE ~Connected(c)'
  BY <1>1, <1>2 DEF Disconnect, Connected, TypeOK
<1>3. CASE rooms'[key].forfeit = RoomOf(key).forfeit
  <2>1. key \in DOMAIN rooms /\ RoomOf(key) = rooms[key]
    BY <1>3, NewRoomType DEF RoomOf
  <2>2. PICK d \in DOMAIN rooms[key].seats :
          rooms[key].seats[d].color = rooms[key].forfeit /\ ~Connected(d)
    BY <1>3, <2>1 DEF ServerInv, ForfeitOfTheAbsent, Absent
  <2>3. d < nextConn /\ d \in Connections
    <3>1. rooms[key].seats \in Seats
      BY <1>1, <2>1, SweptRoom DEF Room
    <3> QED BY <2>1, <3>1, SeatsType DEF ServerInv, SeatsSeen
  <2>4. ~Connected(d)' /\ ~LoggedIn(d)
    BY <1>1, <2>2, <2>3, SessionStep, ServerAssumption DEF Connected, LoggedIn
  <2>5. ~ForfeitRoom(key) /\ ~RoomReseated(key)
    <3>1. RoomOf(key) \in Room
      BY <1>1, RoomStep
    <3>2. ASSUME RoomReseated(key) PROVE FALSE
      BY <3>1, <3>2, ReseatType DEF RoomReseated
    <3>3. ASSUME ForfeitRoom(key) PROVE FALSE
      <4>1. rooms'[key] = Finalize(rooms[key])
        BY <2>1, <3>3, <1>1 DEF ForfeitRoom, TypeOK
      <4> QED BY <2>1, <3>1, <4>1, FinalizeType
    <3> QED BY <3>2, <3>3
  <2>6. d \in DOMAIN rooms'[key].seats /\ rooms'[key].seats[d] = rooms[key].seats[d]
    BY <1>1, <2>1, <2>2, <2>4, <2>5, SeatsStep
  <2> QED BY <1>3, <2>1, <2>2, <2>4, <2>6
<1> QED BY <1>1, <1>2, <1>3, ForfeitStep

\* An entry for connection d survives the step, as d's session does.
Stays(d) == LoggedIn(d) /\ session'[d] = session[d]

LEMMA QueueStays ==
  ASSUME TypeOK, NoStaleEntry, StillWaiting(waiting'),
         \A i \in 1 .. Len(waiting') : session'[waiting'[i].conn] = session[waiting'[i].conn]
  PROVE  \A i \in 1 .. Len(waiting') :
           Stays(waiting'[i].conn) /\ session'[waiting'[i].conn] = waiting'[i].user
  BY DEF StillWaiting, NoStaleEntry, Stays

LEMMA EntryStep ==
  ASSUME TypeOK, Fresh, NoStaleEntry, [Next]_vars
  PROVE  /\ \A d \in DOMAIN routed' : Stays(d) /\ routed'[d] \in DOMAIN rooms'
         /\ \A i \in 1 .. Len(waiting') :
              Stays(waiting'[i].conn) /\ session'[waiting'[i].conn] = waiting'[i].user
<1> DEFINE Routed == \A d \in DOMAIN routed' : Stays(d) /\ routed'[d] \in DOMAIN rooms'
           Queued == \A i \in 1 .. Len(waiting') :
                       Stays(waiting'[i].conn) /\ session'[waiting'[i].conn] = waiting'[i].user
<1> USE DEF registry
<1>1. /\ DOMAIN rooms \subseteq DOMAIN rooms' /\ DOMAIN session = Connections
      /\ DOMAIN routed \subseteq Connections
      /\ \A d \in DOMAIN routed : LoggedIn(d) /\ routed[d] \in DOMAIN rooms
      /\ \A i \in 1 .. Len(waiting) : waiting[i].conn \in Connections
      /\ \A i \in 1 .. Len(waiting) :
           LoggedIn(waiting[i].conn) /\ session[waiting[i].conn] = waiting[i].user
  BY RoomStep, WaiterType DEF NoStaleEntry, TypeOK
<1>2. ASSUME UNCHANGED <<routed, waiting>>,
             \A d \in Connections : LoggedIn(d) => session'[d] = session[d]
      PROVE  Routed /\ Queued
  BY <1>1, <1>2 DEF Stays
<1>3. CASE Connect
  <2>1. session[nextConn] = NoSession /\ session' = [session EXCEPT ![nextConn] = Pending]
    BY <1>3 DEF Connect, Fresh, TypeOK
  <2>2. \A d \in Connections : LoggedIn(d) => session'[d] = session[d]
    BY <1>1, <2>1, ServerAssumption DEF LoggedIn
  <2>3. UNCHANGED <<routed, waiting>>
    BY <1>3 DEF Connect
  <2> QED BY <1>2, <2>2, <2>3
<1>4. CASE \E c \in Connections, u \in Users : Login(c, u)
  <2>1. PICK c \in Connections, u \in Users : Login(c, u)
    BY <1>4
  <2>2. \A d \in Connections : LoggedIn(d) => session'[d] = session[d]
    BY <1>1, <2>1, ServerAssumption DEF LoggedIn, Login
  <2>3. UNCHANGED <<routed, waiting>>
    BY <2>1 DEF Login
  <2> QED BY <1>2, <2>2, <2>3
<1>5. CASE \E c \in Connections : Disconnect(c)
  <2>1. PICK c \in Connections : Disconnect(c)
    BY <1>5
  <2>2. \A d \in Connections : d # c => session'[d] = session[d]
    BY <1>1, <2>1 DEF Disconnect
  <2>3. /\ DOMAIN routed' = DOMAIN routed \ {c}
        /\ \A d \in DOMAIN routed' : routed'[d] = routed[d]
    BY <2>1, WithoutRouted DEF Disconnect
  <2>4. Routed
    BY <1>1, <2>2, <2>3 DEF Stays
  <2>5. StillWaiting(waiting') /\ \A i \in 1 .. Len(waiting') : waiting'[i].conn # c
    BY <2>1, RemoveWaiterQueue DEF Disconnect
  <2>6. \A i \in 1 .. Len(waiting') : waiting'[i].conn \in Connections
    BY <1>1, <2>5 DEF StillWaiting
  <2>7. Queued
    BY <2>2, <2>5, <2>6, QueueStays
  <2> QED BY <2>4, <2>7
<1>6. CASE \E c \in Connections : Reconnect(c)
  <2>1. PICK c \in Connections : Reconnect(c)
    BY <1>6
  <2>2. UNCHANGED <<session, waiting>> /\ LoggedIn(c)
    BY <2>1 DEF Reconnect, Joins
  <2>3. PICK s \in Reclaimable(session[c]) : s[1] \in DOMAIN rooms /\ routed' = Put(routed, c, s[1])
    BY <2>1, ReconnectRooms
  <2> DEFINE key == s[1]
  <2>4. key \in DOMAIN rooms /\ key \in Keys /\ routed' = Put(routed, c, key)
    BY <2>3 DEF TypeOK
  <2> HIDE DEF key
  <2>5. /\ DOMAIN routed' = DOMAIN routed \cup {c}
        /\ \A d \in DOMAIN routed' : routed'[d] = IF d = c THEN key ELSE routed[d]
    <3>1. PICK to : to = Put(routed, c, key)
      OBVIOUS
    <3>2. /\ DOMAIN to = DOMAIN routed \cup {c}
          /\ \A d \in DOMAIN to : to[d] = IF d = c THEN key ELSE routed[d]
      BY <3>1 DEF Put
    <3>3. routed' = to
      BY <2>4, <3>1
    <3> QED BY <3>2, <3>3
  <2> QED BY <1>1, <2>2, <2>4, <2>5 DEF Stays
<1>7. CASE \E c \in Connections : QuickMatch(c)
  <2>1. PICK c \in Connections : QuickMatch(c)
    BY <1>7
  <2>2. session' = session /\ LoggedIn(c)
    BY <2>1 DEF QuickMatch, Joins
  <2> DEFINE key == <<"quick", nextQuick>>
  <2> HIDE DEF key
  <2>3. PICK i \in 1 .. Len(waiting) :
          /\ waiting' = Dequeue(i) /\ DOMAIN rooms' = DOMAIN rooms \cup {key}
          /\ DOMAIN routed' = DOMAIN routed \cup {waiting[i].conn, c}
          /\ \A d \in DOMAIN routed' :
               routed'[d] = IF d \in {waiting[i].conn, c} THEN key ELSE routed[d]
    BY <2>1, QuickMatchRooms DEF key
  <2>4. Routed
    BY <1>1, <2>2, <2>3 DEF Stays
  <2>5. Queued
    BY <2>2, <2>3, DequeueQueue, QueueStays
  <2> QED BY <2>4, <2>5
<1>8. CASE \E c \in Connections : Wait(c)
  <2>1. PICK c \in Connections : Wait(c)
    BY <1>8
  <2>2. UNCHANGED <<session, routed>> /\ LoggedIn(c) /\ session[c] \in Users
    BY <2>1 DEF Wait, Joins, LoggedIn
  <2> DEFINE w == [conn |-> c, user |-> session[c], left |-> SearchTicks]
  <2>3. w \in Waiter /\ waiting' = Append(waiting, w)
    BY <2>1, <2>2, ServerAssumption DEF Waiter, Wait, AddWaiter
  <2>4. w.conn = c /\ w.user = session[c]
    OBVIOUS
  <2> HIDE DEF w
  <2>5. /\ Len(waiting') = Len(waiting) + 1
        /\ \A m \in 1 .. Len(waiting') : waiting'[m] = IF m <= Len(waiting) THEN waiting[m] ELSE w
    BY <2>3, AppendQueue
  <2>6. Len(waiting) \in Nat
    BY DEF TypeOK
  <2>7. \A m \in 1 .. Len(waiting') : waiting'[m] = w \/ \E i \in 1 .. Len(waiting) : waiting'[m] = waiting[i]
    BY <2>5, <2>6
  <2> QED BY <1>1, <2>2, <2>4, <2>7 DEF Stays
<1>9. ASSUME NEW c \in Connections, NEW key \in Keys, EnterRoom(c, key)
      PROVE  Routed /\ Queued
  <2>1. UNCHANGED <<session, waiting>> /\ LoggedIn(c)
    BY <1>9 DEF EnterRoom, Joins
  <2>2. DOMAIN rooms' = DOMAIN rooms \cup {key} /\ DOMAIN routed' = DOMAIN routed \cup {c}
    BY <1>9, EnterRooms
  <2>3. \A d \in DOMAIN routed' : routed'[d] = IF d = c THEN key ELSE routed[d]
    BY <1>9, EnterRooms
  <2> QED BY <1>1, <2>1, <2>2, <2>3 DEF Stays
<1>10. CASE (\E c \in Connections, key \in TypedKeys : JoinRoom(c, key))
            \/ \E c \in Connections : CreateRoom(c)
  <2>1. PICK c \in Connections, key \in TypedKeys \cup {<<"named", nextNamed>>} : EnterRoom(c, key)
    BY <1>10 DEF JoinRoom, CreateRoom
  <2>2. key \in Keys
    BY ServerAssumption DEF Keys, TypeOK
  <2> QED BY <1>9, <2>1, <2>2
<1>11. CASE StartTick
  <2>1. StillWaiting(waiting') /\ UNCHANGED <<session, routed, rooms>>
    BY <1>11, ReapQueue DEF StartTick
  <2> QED BY <1>1, <2>1, QueueStays DEF Stays
<1>12. CASE \E key \in DOMAIN rooms :
              \/ ForfeitRoom(key) \/ AdvanceRoom(key) \/ \E k \in Colors : TakeKing(key, k)
  BY <1>2, <1>12, SweepRooms
<1>13. CASE UNCHANGED vars
  BY <1>2, <1>13 DEF vars
<1> QED
  BY <1>3, <1>4, <1>5, <1>6, <1>7, <1>8, <1>10, <1>11, <1>12, <1>13
  DEF Next, Handlers, TickThread

LEMMA ServerInit == Init => ServerInv
  BY TypeInit DEF Init, ServerInv, Fresh, SeatsSeen, NoStaleEntry, ForfeitOfTheAbsent

LEMMA ServerStep == ServerInv /\ [Next]_vars => ServerInv'
<1> SUFFICES ASSUME ServerInv, [Next]_vars PROVE ServerInv'
  OBVIOUS
<1>1. TypeOK' /\ Fresh' /\ SeatsSeen' /\ ForfeitOfTheAbsent'
  BY TypeStep, SessionStep, SeenStep, AbsentStep DEF ServerInv
<1>2. \A d \in DOMAIN routed' : Stays(d) /\ routed'[d] \in DOMAIN rooms'
  BY EntryStep DEF ServerInv
<1>3. \A i \in 1 .. Len(waiting') :
        Stays(waiting'[i].conn) /\ session'[waiting'[i].conn] = waiting'[i].user
  BY EntryStep DEF ServerInv
<1>4. NoStaleEntry'
  BY <1>2, <1>3 DEF NoStaleEntry, Stays, LoggedIn
<1> QED BY <1>1, <1>4 DEF ServerInv

\* The invariant of the server, whatever its clients type.
THEOREM ServerInvariant == Spec => []ServerInv
  BY ServerInit, ServerStep, PTL DEF Spec

\* The server's state stays within its types.
THEOREM ServerTypes == Spec => []TypeOK
  BY ServerInvariant, PTL DEF ServerInv

\* handleMessage and the quick match never meet an entry of connectionRoom_ or of the queue
\* whose connection is gone or whose room is not there: disconnects, reconnects, the reaping
\* of waiters and JOINs in any order keep the tables in step with the sessions.
THEOREM EntriesAreFresh == Spec => []NoStaleEntry
  BY ServerInvariant, PTL DEF ServerInv

\* A pending forfeit names the colour of a seat whose player's connection is closed:
\* advanceRoom never decides a match against a player who is there.
THEOREM OnlyTheAbsentForfeit == Spec => []ForfeitOfTheAbsent
  BY ServerInvariant, PTL DEF ServerInv

-----------------------------------------------------------------------------
(***************************************************************************)
(* The matches of a game server: who sits where, and that a room implements *)
(* one match, when clients JOIN once at a time, stay out of rooms whose     *)
(* match is over, and type no name of a quick-match room.                   *)
(***************************************************************************)

(* Seats and routes *)

\* A player who is there is routed: a JOIN, which is taken from connections that are not
\* routed, never comes from somebody who sits in a room.
SeatedAreRouted ==
  \A key \in DOMAIN rooms : \A d \in DOMAIN rooms[key].seats : Connected(d) => IsRouted(d)

\* Without typed names of quick-match rooms, the room of the next match is new.
NoQuickTyped == TypedKeys \subseteq {"named"} \X Nat
QuickSeen == NoQuickTyped => \A n \in Nat : <<"quick", n>> \in DOMAIN rooms => n < nextQuick

\* When clients JOIN once at a time, nobody is queued twice or queued and routed.
QueuedOnce ==
  ~Repeats => \A i, j \in 1 .. Len(waiting) : waiting[i].conn = waiting[j].conn => i = j
QueuedAreFree == ~Repeats => WaitersAreFree

EntryInv == ServerInv /\ SeatedAreRouted /\ QuickSeen /\ QueuedOnce /\ QueuedAreFree

\* A route is kept until the connection closes.
LEMMA RouteKept ==
  ASSUME TypeOK, NoStaleEntry, [Next]_vars, NEW d \in DOMAIN routed
  PROVE  Disconnect(d) \/ d \in DOMAIN routed'
<1> USE DEF registry
<1>1. ASSUME NEW c \in Connections, Disconnect(c) PROVE c = d \/ d \in DOMAIN routed'
  BY <1>1, WithoutRouted DEF Disconnect
<1>2. ASSUME NEW c \in Connections, Reconnect(c) PROVE d \in DOMAIN routed'
  <2>1. PICK s \in Reclaimable(session[c]) : s[1] \in DOMAIN rooms /\ routed' = Put(routed, c, s[1])
    BY <1>2, ReconnectRooms
  <2>2. PICK k \in Keys : routed' = Put(routed, c, k)
    BY <2>1 DEF TypeOK
  <2>3. DOMAIN routed' = DOMAIN routed \cup {c}
    BY <2>2, PutRouted
  <2> QED BY <2>3
<1>3. ASSUME NEW c \in Connections, QuickMatch(c) PROVE d \in DOMAIN routed'
  <2>1. \E i \in 1 .. Len(waiting) : DOMAIN routed' = DOMAIN routed \cup {waiting[i].conn, c}
    BY <1>3, QuickMatchRooms
  <2> QED BY <2>1
<1>4. ASSUME NEW c \in Connections, NEW key \in TypedKeys \cup {<<"named", nextNamed>>},
             EnterRoom(c, key)
      PROVE  d \in DOMAIN routed'
  <2>1. key \in Keys
    BY ServerAssumption DEF Keys, TypeOK
  <2> QED BY <1>4, <2>1, EnterRooms
<1>5. CASE \E key \in DOMAIN rooms :
             \/ ForfeitRoom(key) \/ AdvanceRoom(key) \/ \E k \in Colors : TakeKing(key, k)
  BY <1>5, SweepRooms
<1>6. CASE UNCHANGED routed
  BY <1>6
<1>7. CASE Handlers
  BY <1>1, <1>2, <1>3, <1>4, <1>6, <1>7
  DEF Handlers, Connect, Login, Wait, JoinRoom, CreateRoom
<1>8. CASE StartTick \/ UNCHANGED vars
  BY <1>6, <1>8 DEF StartTick, vars
<1> QED BY <1>5, <1>7, <1>8 DEF Next, TickThread

\* Who takes a seat is routed.
LEMMA SeatedRouted ==
  ASSUME TypeOK, NoStaleEntry, [Next]_vars, NEW key \in DOMAIN rooms',
         NEW d \in DOMAIN rooms'[key].seats
  PROVE  d \in DOMAIN RoomOf(key).seats \/ d \in DOMAIN routed'
<1> DEFINE old == RoomOf(key).seats
           new == rooms'[key].seats
<1>1. RoomOf(key) \in Room /\ old \in Seats
  BY RoomStep DEF Room
<1>2. CASE RoomLeft(key)
  <2>1. PICK c \in Connections : rooms'[key] = LeaveRoom(RoomOf(key), c)
    BY <1>2 DEF RoomLeft
  <2>2. new = old \/ new = Without(old, c)
    BY <1>1, <2>1, LeaveRoomType
  <2>3. DOMAIN Without(old, c) \subseteq DOMAIN old
    BY <1>1, WithoutSeats
  <2> HIDE DEF old
  <2> QED BY <2>2, <2>3 DEF old
<1>3. CASE RoomReseated(key)
  <2>1. PICK c \in Connections, e \in DOMAIN old :
          Reconnect(c) /\ rooms'[key] = Reseat(RoomOf(key), e, c)
    BY <1>3 DEF RoomReseated
  <2>2. new = Put(Without(old, e), c, old[e])
    BY <1>1, <2>1, ReseatType
  <2>3. Without(old, e) \in Seats /\ DOMAIN Without(old, e) \subseteq DOMAIN old /\ old[e] \in Seat
    BY <1>1, WithoutSeats, SeatsType
  <2> DEFINE left == Without(old, e)
             seat == old[e]
  <2> HIDE DEF left, seat
  <2>4. DOMAIN Put(left, c, seat) = DOMAIN left \cup {c}
    BY <2>3, PutSeats DEF left, seat
  <2>5. c \in DOMAIN routed'
    <3>1. PICK k \in Keys : routed' = Put(routed, c, k)
      BY <2>1, ReconnectRooms DEF TypeOK
    <3>2. DOMAIN routed' = DOMAIN routed \cup {c}
      BY <3>1, PutRouted
    <3> QED BY <3>2
  <2> HIDE DEF old, new
  <2>6. DOMAIN new \subseteq DOMAIN old \cup {c}
    BY <2>2, <2>3, <2>4 DEF left, seat
  <2> QED BY <2>5, <2>6 DEF old, new
<1>4. CASE RoomPaired(key)
  <2>1. PICK c \in Connections, i \in 1 .. Len(waiting) :
          QuickMatch(c) /\ key = <<"quick", nextQuick>> /\ rooms'[key] = Paired(i, c)
    BY <1>4 DEF RoomPaired
  <2> DEFINE k == <<"quick", nextQuick>>
  <2>2. PICK j \in 1 .. Len(waiting) :
          /\ waiting' = Dequeue(j) /\ rooms'[k] = Paired(j, c)
          /\ DOMAIN routed' = DOMAIN routed \cup {waiting[j].conn, c}
    BY <2>1, QuickMatchRooms
  <2>3. Joins(c)
    BY <2>1 DEF QuickMatch
  <2>4. DOMAIN Paired(j, c).seats = DOMAIN RoomOf(k).seats \cup {waiting[j].conn, c}
    BY <2>3, PairedType
  <2> HIDE DEF k
  <2>5. key = k
    BY <2>1 DEF k
  <2> QED BY <2>2, <2>4, <2>5
<1>5. CASE RoomEntered(key)
  <2>1. PICK c \in Connections :
          EnterRoom(c, key) /\ rooms'[key] = Enter(RoomOf(key), c, session[c])
    BY <1>5 DEF RoomEntered
  <2>2. c \in DOMAIN routed' /\ session[c] \in Users
    <3>1. key \in Keys
      BY RoomStep
    <3>2. DOMAIN routed' = DOMAIN routed \cup {c} /\ session[c] \in Users
      BY <2>1, <3>1, EnterRooms
    <3> QED BY <3>2
  <2> DEFINE seat == [user |-> session[c],
                      color |-> IF RoomOf(key).seats = EmptySeats THEN "White" ELSE "Black"]
  <2>3. new = old \/ new = Put(old, c, seat)
    BY <1>1, <2>1, <2>2, EnterType
  <2>4. seat \in Seat
    BY <2>2 DEF Seat, Colors
  <2> HIDE DEF seat
  <2>5. DOMAIN Put(old, c, seat) = DOMAIN old \cup {c}
    BY <1>1, <2>4, PutSeats
  <2> HIDE DEF old, new
  <2>6. DOMAIN new \subseteq DOMAIN old \cup {c}
    BY <2>3, <2>5
  <2> QED BY <2>2, <2>6 DEF old, new
<1>6. CASE RoomForfeited(key)
  BY <1>1, <1>6, FinalizeType, EmptySeatsType DEF RoomForfeited
<1>7. CASE RoomAdvanced(key) \/ RoomWon(key) \/ RoomKept(key)
  BY <1>7 DEF RoomAdvanced, RoomWon, SameSeats, RoomKept, RoomOf
<1> QED BY <1>2, <1>3, <1>4, <1>5, <1>6, <1>7, RoomStep

LEMMA SeatedStep == ServerInv /\ SeatedAreRouted /\ [Next]_vars => SeatedAreRouted'
<1> SUFFICES ASSUME ServerInv, SeatedAreRouted, [Next]_vars, NEW key \in DOMAIN rooms',
                    NEW d \in DOMAIN rooms'[key].seats, Connected(d)'
             PROVE  d \in DOMAIN routed'
  BY DEF SeatedAreRouted, IsRouted
<1>1. TypeOK /\ NoStaleEntry /\ Fresh
  BY DEF ServerInv
<1>2. CASE d \in DOMAIN RoomOf(key).seats
  <2>1. key \in DOMAIN rooms /\ d \in DOMAIN rooms[key].seats
    BY <1>2, NewRoomType DEF RoomOf
  <2>2. d < nextConn /\ d \in Connections
    <3>1. rooms[key].seats \in Seats
      BY <1>1, <2>1, SweptRoom DEF Room
    <3> QED BY <2>1, <3>1, SeatsType DEF ServerInv, SeatsSeen
  <2>3. Connected(d)
    BY <1>1, <2>2, SessionStep
  <2>4. d \in DOMAIN routed
    BY <2>1, <2>3 DEF SeatedAreRouted, IsRouted
  <2>5. ~Disconnect(d)
    BY <1>1, <2>2 DEF Disconnect, Connected, TypeOK
  <2> QED BY <1>1, <2>4, <2>5, RouteKept
<1> QED BY <1>1, <1>2, SeatedRouted

\* A new room is a match's or is named in a JOIN.
LEMMA NewRooms ==
  ASSUME TypeOK, NoStaleEntry, [Next]_vars, NEW key \in DOMAIN rooms', key \notin DOMAIN rooms
  PROVE  RoomPaired(key) \/ RoomEntered(key)
<1>1. ~RoomKept(key) /\ ~RoomLeft(key)
  BY DEF RoomKept, RoomLeft, NoStaleEntry, IsRouted
<1>2. ~RoomReseated(key)
  BY NewRoomType DEF RoomReseated, RoomOf
<1>3. ~RoomForfeited(key) /\ ~RoomAdvanced(key) /\ ~RoomWon(key)
  BY DEF RoomForfeited, RoomAdvanced, RoomWon, ForfeitRoom, AdvanceRoom, TakeKing, Swept, TypeOK
<1> QED BY <1>1, <1>2, <1>3, RoomStep

LEMMA NextQuickStep ==
  ASSUME TypeOK, [Next]_vars
  PROVE  /\ nextQuick \in Nat
         /\ nextQuick' = IF \E c \in Connections : QuickMatch(c) THEN nextQuick + 1 ELSE nextQuick
<1>1. nextQuick \in Nat
  BY DEF TypeOK
<1>2. CASE \E c \in Connections : QuickMatch(c)
  BY <1>1, <1>2 DEF QuickMatch
<1>3. ASSUME ~ \E c \in Connections : QuickMatch(c) PROVE nextQuick' = nextQuick
  <2> USE DEF registry
  <2>1. CASE Handlers
    BY <1>3, <2>1
    DEF Handlers, Connect, Login, Disconnect, Reconnect, Wait, JoinRoom, CreateRoom, EnterRoom
  <2>2. CASE TickThread
    BY <2>2 DEF TickThread, StartTick, ForfeitRoom, AdvanceRoom, TakeKing, Swept
  <2>3. CASE UNCHANGED vars
    BY <2>3 DEF vars
  <2> QED BY <2>1, <2>2, <2>3 DEF Next
<1> QED BY <1>1, <1>2, <1>3

LEMMA QuickStep == ServerInv /\ QuickSeen /\ [Next]_vars => QuickSeen'
<1> SUFFICES ASSUME ServerInv, QuickSeen, [Next]_vars, NoQuickTyped, NEW n \in Nat,
                    <<"quick", n>> \in DOMAIN rooms'
             PROVE  n < nextQuick'
  BY DEF QuickSeen
<1> DEFINE key == <<"quick", n>>
<1>1. TypeOK /\ NoStaleEntry
  BY DEF ServerInv
<1>2. /\ nextQuick \in Nat
      /\ nextQuick' = IF \E c \in Connections : QuickMatch(c) THEN nextQuick + 1 ELSE nextQuick
  BY <1>1, NextQuickStep
<1>3. CASE key \in DOMAIN rooms
  BY <1>2, <1>3 DEF QuickSeen
<1>4. CASE RoomPaired(key)
  BY <1>2, <1>4 DEF RoomPaired
<1>5. ~RoomEntered(key)
  <2>1. key \notin {"named"} \X Nat
    OBVIOUS
  <2>2. <<"named", nextNamed>> \in {"named"} \X Nat
    BY <1>1 DEF TypeOK
  <2> HIDE DEF key
  <2> QED BY <2>1, <2>2 DEF RoomEntered, NoQuickTyped
<1> HIDE DEF key
<1>6. key \in DOMAIN rooms \/ RoomPaired(key)
  BY <1>1, <1>5, NewRooms DEF key
<1> QED BY <1>3, <1>4, <1>6

\* Nobody enters the queue but a connection that JOINs.
LEMMA QueueStep ==
  ASSUME TypeOK, [Next]_vars
  PROVE  StillWaiting(waiting') \/ \E c \in Connections : Wait(c)
<1> USE DEF registry
<1>1. ASSUME UNCHANGED waiting PROVE StillWaiting(waiting')
  <2> DEFINE g == [m \in 1 .. Len(waiting) |-> m]
  <2>1. /\ g \in [1 .. Len(waiting') -> 1 .. Len(waiting)]
        /\ \A m \in 1 .. Len(waiting') : g[m] = m
    BY <1>1
  <2> HIDE DEF g
  <2> QED BY <1>1, <2>1 DEF StillWaiting
<1>2. CASE \E c \in Connections : Disconnect(c)
  BY <1>2, RemoveWaiterQueue DEF Disconnect
<1>3. CASE \E c \in Connections : QuickMatch(c)
  <2>1. PICK i \in 1 .. Len(waiting) : waiting' = Dequeue(i)
    BY <1>3, QuickMatchRooms
  <2> QED BY <2>1, DequeueQueue
<1>4. CASE StartTick
  BY <1>4, ReapQueue DEF StartTick
<1>5. CASE \E key \in DOMAIN rooms :
             \/ ForfeitRoom(key) \/ AdvanceRoom(key) \/ \E k \in Colors : TakeKing(key, k)
  BY <1>1, <1>5, SweepRooms
<1>6. CASE UNCHANGED vars
  BY <1>1, <1>6 DEF vars
<1>7. CASE Handlers
  BY <1>1, <1>2, <1>3, <1>7
  DEF Handlers, Connect, Login, Reconnect, JoinRoom, CreateRoom, EnterRoom
<1> QED BY <1>4, <1>5, <1>6, <1>7 DEF Next, TickThread

LEMMA WaitQueue ==
  ASSUME TypeOK, NEW c \in Connections, Wait(c)
  PROVE  /\ Len(waiting) \in Nat /\ Len(waiting') = Len(waiting) + 1
         /\ \A m \in 1 .. Len(waiting') :
              waiting'[m].conn = IF m <= Len(waiting) THEN waiting[m].conn ELSE c
<1> DEFINE w == [conn |-> c, user |-> session[c], left |-> SearchTicks]
<1>1. w \in Waiter /\ w.conn = c /\ waiting' = Append(waiting, w)
  BY JoinerType, ServerAssumption DEF Wait, AddWaiter, Waiter
<1> HIDE DEF w
<1>2. /\ Len(waiting') = Len(waiting) + 1
      /\ \A m \in 1 .. Len(waiting') : waiting'[m] = IF m <= Len(waiting) THEN waiting[m] ELSE w
  BY <1>1, AppendQueue
<1> QED BY <1>1, <1>2 DEF TypeOK

LEMMA OnceStep == TypeOK /\ QueuedOnce /\ [Next]_vars => QueuedOnce'
<1> SUFFICES ASSUME TypeOK, QueuedOnce, [Next]_vars, ~Repeats,
                    NEW i \in 1 .. Len(waiting'), NEW j \in 1 .. Len(waiting'),
                    waiting'[i].conn = waiting'[j].conn
             PROVE  i = j
  BY DEF QueuedOnce
<1>1. CASE StillWaiting(waiting')
  <2>1. PICK g \in [1 .. Len(waiting') -> 1 .. Len(waiting)] :
          /\ \A m \in 1 .. Len(waiting') : waiting'[m].conn = waiting[g[m]].conn
          /\ \A l, m \in 1 .. Len(waiting') : l # m => g[l] # g[m]
    BY <1>1 DEF StillWaiting
  <2>2. g[i] = g[j]
    <3>1. g[i] \in 1 .. Len(waiting) /\ g[j] \in 1 .. Len(waiting)
      BY <2>1
    <3>2. waiting[g[i]].conn = waiting[g[j]].conn
      BY <2>1
    <3> QED BY <3>1, <3>2 DEF QueuedOnce
  <2> QED BY <2>1, <2>2
<1>2. ASSUME NEW c \in Connections, Wait(c) PROVE i = j
  <2>1. \A m \in 1 .. Len(waiting) : waiting[m].conn # c
    BY <1>2 DEF Wait, Joins, IsWaiting
  <2>2. /\ Len(waiting) \in Nat /\ Len(waiting') = Len(waiting) + 1
        /\ \A m \in 1 .. Len(waiting') :
             waiting'[m].conn = IF m <= Len(waiting) THEN waiting[m].conn ELSE c
    BY <1>2, WaitQueue
  <2>3. CASE i <= Len(waiting) /\ j <= Len(waiting)
    BY <2>2, <2>3 DEF QueuedOnce
  <2>4. CASE ~(i <= Len(waiting) /\ j <= Len(waiting))
    BY <2>1, <2>2, <2>4
  <2> QED BY <2>3, <2>4
<1> QED BY <1>1, <1>2, QueueStep

LEMMA FreeStep ==
  TypeOK /\ NoStaleEntry /\ QueuedOnce /\ QueuedAreFree /\ [Next]_vars => QueuedAreFree'
<1> SUFFICES ASSUME TypeOK, NoStaleEntry, QueuedOnce, QueuedAreFree, [Next]_vars, ~Repeats,
                    NEW i \in 1 .. Len(waiting')
             PROVE  waiting'[i].conn \notin DOMAIN routed'
  BY DEF QueuedAreFree, WaitersAreFree
<1> USE DEF registry
<1>1. \A m \in 1 .. Len(waiting) : waiting[m].conn \notin DOMAIN routed
  BY DEF QueuedAreFree, WaitersAreFree
<1>2. ASSUME NEW c \in Connections, Joins(c) 
      PROVE  \A m \in 1 .. Len(waiting) : waiting[m].conn # c
  BY <1>2 DEF Joins, IsWaiting
<1>3. CASE StillWaiting(waiting') /\ DOMAIN routed' \subseteq DOMAIN routed
  BY <1>1, <1>3 DEF StillWaiting
<1>4. ASSUME NEW c \in Connections, Disconnect(c) PROVE DOMAIN routed' \subseteq DOMAIN routed
  BY <1>4, WithoutRouted DEF Disconnect
<1>5. ASSUME NEW c \in Connections, Joins(c), waiting' = waiting,
             DOMAIN routed' = DOMAIN routed \cup {c}
      PROVE  waiting'[i].conn \notin DOMAIN routed'
  BY <1>1, <1>2, <1>5
<1>6. ASSUME NEW c \in Connections, Reconnect(c) PROVE waiting'[i].conn \notin DOMAIN routed'
  <2>1. PICK k \in Keys : routed' = Put(routed, c, k)
    BY <1>6, ReconnectRooms DEF TypeOK
  <2>2. DOMAIN routed' = DOMAIN routed \cup {c}
    BY <2>1, PutRouted
  <2> QED BY <1>5, <1>6, <2>2 DEF Reconnect
<1>7. ASSUME NEW c \in Connections, QuickMatch(c) PROVE waiting'[i].conn \notin DOMAIN routed'
  <2>1. PICK n \in 1 .. Len(waiting) :
          waiting' = Dequeue(n) /\ DOMAIN routed' = DOMAIN routed \cup {waiting[n].conn, c}
    BY <1>7, QuickMatchRooms
  <2>2. /\ Len(waiting') = Len(waiting) - 1 /\ Len(waiting) \in Nat
        /\ \A m \in 1 .. Len(waiting) - 1 : waiting'[m] = waiting[IF m < n THEN m ELSE m + 1]
    BY <2>1, DequeueQueue DEF TypeOK
  <2>3. PICK m \in 1 .. Len(waiting) : m # n /\ waiting'[i] = waiting[m]
    BY <2>2
  <2>4. waiting[m].conn # waiting[n].conn
    BY <2>3 DEF QueuedOnce
  <2> QED BY <1>1, <1>2, <1>7, <2>1, <2>3, <2>4 DEF QuickMatch
<1>8. ASSUME NEW c \in Connections, NEW key \in TypedKeys \cup {<<"named", nextNamed>>},
             EnterRoom(c, key)
      PROVE  waiting'[i].conn \notin DOMAIN routed'
  <2>1. key \in Keys
    BY ServerAssumption DEF Keys, TypeOK
  <2>2. DOMAIN routed' = DOMAIN routed \cup {c}
    BY <1>8, <2>1, EnterRooms
  <2> QED BY <1>5, <1>8, <2>2 DEF EnterRoom
<1>9. ASSUME NEW c \in Connections, Wait(c) PROVE waiting'[i].conn \notin DOMAIN routed'
  <2>1. routed' = routed /\ c \notin DOMAIN routed
    BY <1>9 DEF Wait, Joins, IsRouted
  <2>2. /\ Len(waiting) \in Nat /\ Len(waiting') = Len(waiting) + 1
        /\ waiting'[i].conn = IF i <= Len(waiting) THEN waiting[i].conn ELSE c
    BY <1>9, WaitQueue
  <2> QED BY <1>1, <2>1, <2>2
<1>10. CASE Handlers
  <2>1. CASE \E c \in Connections : Disconnect(c)
    BY <1>3, <1>4, <2>1, RemoveWaiterQueue DEF Disconnect
  <2>2. CASE Connect \/ \E c \in Connections, u \in Users : Login(c, u)
    BY <1>1, <2>2 DEF Connect, Login
  <2> QED BY <1>6, <1>7, <1>8, <1>9, <1>10, <2>1, <2>2 DEF Handlers, JoinRoom, CreateRoom
<1>11. CASE StartTick
  BY <1>3, <1>11, ReapQueue DEF StartTick
<1>12. CASE \E key \in DOMAIN rooms :
              \/ ForfeitRoom(key) \/ AdvanceRoom(key) \/ \E k \in Colors : TakeKing(key, k)
  BY <1>1, <1>12, SweepRooms
<1>13. CASE UNCHANGED vars
  BY <1>1, <1>13 DEF vars
<1> QED BY <1>10, <1>11, <1>12, <1>13 DEF Next, TickThread

LEMMA EntryInit == Init => EntryInv
  BY ServerInit
  DEF Init, EntryInv, SeatedAreRouted, QuickSeen, QueuedOnce, QueuedAreFree, WaitersAreFree

LEMMA EntryInvStep == EntryInv /\ [Next]_vars => EntryInv'
  BY ServerStep, SeatedStep, QuickStep, OnceStep, FreeStep DEF EntryInv, ServerInv

\* When clients JOIN once at a time, a queued connection has no room: whoever is matched
\* from the queue is not playing or watching elsewhere.
THEOREM QueueIsFree == Spec /\ ~Repeats => []WaitersAreFree
<1>1. Init /\ ~Repeats => EntryInv /\ ~Repeats
  BY EntryInit
<1>2. EntryInv /\ ~Repeats /\ [Next]_vars => (EntryInv /\ ~Repeats)'
  BY EntryInvStep
<1>3. EntryInv /\ ~Repeats => WaitersAreFree
  BY DEF EntryInv, QueuedAreFree
<1> QED BY <1>1, <1>2, <1>3, PTL DEF Spec

-----------------------------------------------------------------------------
(* No seat is lost while a game runs. *)

\* The next room of a quick match is new, or nobody who is matched sits in it.
SeatsKeptIf == ~Repeats \/ NoQuickTyped

LEMMA KeptStep ==
  ASSUME EntryInv, SeatsKeptIf, [Next]_vars, NEW key \in DOMAIN rooms,
         rooms[key].game = "Running", rooms'[key].game = "Running",
         NEW d \in DOMAIN rooms[key].seats
  PROVE  \E e \in DOMAIN rooms'[key].seats : rooms'[key].seats[e] = rooms[key].seats[d]
<1> DEFINE old == rooms[key].seats
           new == rooms'[key].seats
<1>1. TypeOK /\ NoStaleEntry /\ RoomOf(key) = rooms[key]
  BY DEF EntryInv, ServerInv, RoomOf
<1>2. rooms[key] \in Room /\ old \in Seats /\ key \in DOMAIN rooms' /\ d \in Connections /\ old[d] \in Seat
  <2>1. rooms[key] \in Room /\ key \in DOMAIN rooms'
    BY <1>1, RoomStep
  <2>2. old \in Seats
    BY <2>1 DEF Room
  <2> QED BY <2>1, <2>2, SeatsType
\* Nobody who JOINs sits in the room.
<1>3. ASSUME NEW c \in Connections, Joins(c) PROVE c \notin DOMAIN old
  <2>1. Connected(c) /\ ~IsRouted(c)
    BY <1>3, ServerAssumption DEF Joins, LoggedIn, Connected
  <2> QED BY <2>1 DEF EntryInv, SeatedAreRouted
<1>4. CASE RoomLeft(key)
  <2>1. PICK c \in Connections : rooms'[key] = LeaveRoom(rooms[key], c)
    BY <1>1, <1>4 DEF RoomLeft
  <2>2. \/ new = old
        \/ c \notin DOMAIN old /\ new = Without(old, c)
    BY <1>2, <2>1, LeaveRoomType
  <2>3. /\ DOMAIN Without(old, c) = DOMAIN old \ {c}
        /\ \A f \in DOMAIN old \ {c} : Without(old, c)[f] = old[f]
    BY <1>2, WithoutSeats
  <2> HIDE DEF old, new
  <2>4. d \in DOMAIN new /\ new[d] = old[d]
    BY <2>2, <2>3 DEF old
  <2> QED BY <2>4 DEF old, new
<1>5. CASE RoomReseated(key)
  <2>1. PICK c \in Connections, e \in DOMAIN old :
          Reconnect(c) /\ rooms'[key] = Reseat(rooms[key], e, c)
    BY <1>1, <1>5 DEF RoomReseated
  <2> DEFINE left == Without(old, e)
             seat == old[e]
  <2>2. new = Put(left, c, seat) /\ seat \in Seat /\ left \in Seats
    <3>1. left \in Seats
      BY <1>2, WithoutSeats
    <3>2. seat \in Seat
      BY <1>2, SeatsType
    <3>3. new = Put(left, c, seat)
      BY <1>2, <2>1, ReseatType
    <3> QED BY <3>1, <3>2, <3>3
  <2>3. DOMAIN left = DOMAIN old \ {e} /\ \A f \in DOMAIN old \ {e} : left[f] = old[f]
    BY <1>2, WithoutSeats
  <2>4. c \notin DOMAIN old
    BY <1>3, <2>1 DEF Reconnect
  <2> HIDE DEF left, seat, old, new
  <2>5. /\ DOMAIN new = DOMAIN left \cup {c} /\ new[c] = seat
        /\ \A f \in DOMAIN left : f # c => new[f] = left[f]
    BY <2>2, PutSeats
  <2>6. CASE d = e
    BY <2>5, <2>6 DEF seat, old, new
  <2>7. CASE d # e
    <3>1. d \in DOMAIN left /\ d # c
      BY <2>3, <2>4, <2>7 DEF old
    <3>2. d \in DOMAIN new /\ new[d] = old[d]
      BY <2>3, <2>5, <2>7, <3>1
    <3> QED BY <3>2 DEF old, new
  <2> QED BY <2>6, <2>7
<1>6. CASE RoomPaired(key)
  <2>1. PICK c \in Connections, i \in 1 .. Len(waiting) :
          QuickMatch(c) /\ key = <<"quick", nextQuick>> /\ rooms'[key] = Paired(i, c)
    BY <1>6 DEF RoomPaired
  <2>2. Joins(c)
    BY <2>1 DEF QuickMatch
  <2>3. ~NoQuickTyped
    BY <1>1, <2>1 DEF EntryInv, QuickSeen, TypeOK
  <2>4. waiting[i].conn \notin DOMAIN old
    <3>1. ~Repeats /\ ~IsRouted(waiting[i].conn) /\ Connected(waiting[i].conn)
      BY <1>1, <2>3, ServerAssumption
      DEF SeatsKeptIf, EntryInv, QueuedAreFree, WaitersAreFree, IsRouted, NoStaleEntry,
          LoggedIn, Connected
    <3> QED BY <3>1 DEF EntryInv, SeatedAreRouted
  <2> DEFINE paired == Paired(i, c)
             room == RoomOf(<<"quick", nextQuick>>)
  <2>5. /\ DOMAIN paired.seats = DOMAIN room.seats \cup {waiting[i].conn, c}
        /\ \A f \in DOMAIN room.seats :
             f \notin {waiting[i].conn, c} => paired.seats[f] = room.seats[f]
    BY <1>1, <2>2, PairedType
  <2>6. room.seats = old /\ paired.seats = new
    BY <1>1, <2>1
  <2>7. c \notin DOMAIN old
    BY <1>3, <2>2
  <2> HIDE DEF old, new, room, paired
  <2>8. d \in DOMAIN new /\ new[d] = old[d]
    BY <2>4, <2>5, <2>6, <2>7 DEF old
  <2> QED BY <2>8 DEF old, new
<1>7. CASE RoomEntered(key)
  <2>1. PICK c \in Connections : EnterRoom(c, key) /\ rooms'[key] = Enter(rooms[key], c, session[c])
    BY <1>1, <1>7 DEF RoomEntered
  <2>2. Joins(c) /\ session[c] \in Users
    BY <2>1 DEF EnterRoom, Joins, LoggedIn
  <2> DEFINE seat == [user |-> session[c],
                      color |-> IF rooms[key].seats = EmptySeats THEN "White" ELSE "Black"]
  <2>3. new = old \/ new = Put(old, c, seat)
    BY <1>2, <2>1, <2>2, EnterType
  <2>4. seat \in Seat
    BY <2>2 DEF Seat, Colors
  <2>5. c \notin DOMAIN old
    BY <1>3, <2>2
  <2> HIDE DEF seat
  <2>6. /\ DOMAIN Put(old, c, seat) = DOMAIN old \cup {c}
        /\ \A f \in DOMAIN old : f # c => Put(old, c, seat)[f] = old[f]
    BY <1>2, <2>4, PutSeats
  <2> HIDE DEF old, new
  <2>7. d \in DOMAIN new /\ new[d] = old[d]
    BY <2>3, <2>5, <2>6 DEF old
  <2> QED BY <2>7 DEF old, new
<1>8. ~RoomForfeited(key)
  BY <1>1, <1>2, FinalizeType DEF RoomForfeited
<1>9. CASE RoomAdvanced(key) \/ RoomWon(key) \/ RoomKept(key)
  BY <1>1, <1>9 DEF RoomAdvanced, RoomWon, SameSeats, RoomKept
<1> QED BY <1>1, <1>2, <1>4, <1>5, <1>6, <1>7, <1>8, <1>9, RoomStep

\* Drops, reconnects and JOINs in any order take no seat and no colour from a player while
\* a game runs, if clients JOIN once at a time or type no name of a quick-match room.  (A
\* client that, while it waits, JOINs the room of the next quick match by its name can be
\* matched into that room and change colour.)
THEOREM PlayersKeepSeats == Spec /\ SeatsKeptIf => SeatsKept
<1>1. Init => EntryInv
  BY EntryInit
<1>2. EntryInv /\ [Next]_vars => EntryInv'
  BY EntryInvStep
<1>3. EntryInv /\ SeatsKeptIf /\ [Next]_vars =>
        [\A key \in DOMAIN rooms :
           rooms[key].game = "Running" /\ rooms'[key].game = "Running"
             => SeatsOf(rooms[key]) \subseteq SeatsOf(rooms'[key])]_vars
  BY KeptStep DEF SeatsOf
<1>4. SeatsKeptIf => SeatsKeptIf'
  OBVIOUS
<1> QED BY <1>1, <1>2, <1>3, <1>4, PTL DEF Spec, SeatsKept

-----------------------------------------------------------------------------
(* Rooms in which one match is played *)

OneMatch == ~Repeats /\ ~Reuse /\ NoQuickTyped

\* At most one player, White, before the match; White and Black while it runs; nobody twice
\* a colour after it.
OnePerColor(seats) ==
  \A d, e \in DOMAIN seats : seats[d].color = seats[e].color => d = e
TwoPlayers(seats) ==
  \E a, b \in DOMAIN seats :
    /\ DOMAIN seats = {a, b}
    /\ seats[a].color = "White" /\ seats[b].color = "Black"
Phase(room) ==
  CASE room.game = "NotStarted" ->
         /\ room.forfeit = NoForfeit
         /\ \A d \in DOMAIN room.seats : DOMAIN room.seats = {d} /\ room.seats[d].color = "White"
    [] room.game = "Running" -> TwoPlayers(room.seats)
    [] OTHER -> OnePerColor(room.seats)
Phases == \A key \in DOMAIN rooms : Phase(rooms[key])

WatchersSeen == \A key \in DOMAIN rooms : \A d \in rooms[key].spectators : d < nextConn

MatchInv == /\ OneMatch /\ EntryInv /\ WatchersSeen /\ Phases
            /\ RoutedToItsRoom /\ DecidedIsRated

LEMMA CountPair ==
  ASSUME NEW S, NEW a, NEW b, a # b, S = {a, b}
  PROVE  Cardinality(S) = 2
<1>1. IsFiniteSet({a}) /\ Cardinality({a}) = 1 /\ b \notin {a}
  BY FS_Singleton
<1>2. Cardinality({a} \cup {b}) = 2
  BY <1>1, FS_AddElement
<1>3. {a} \cup {b} = {a, b}
  OBVIOUS
<1> QED BY <1>2, <1>3, Zenon

LEMMA CountOne ==
  ASSUME NEW S, NEW a, S = {a}
  PROVE  Cardinality(S) = 1
  BY FS_Singleton

LEMMA PhaseNew == Phase(NewRoom)
  BY NewRoomType DEF Phase

LEMMA PhaseLeave ==
  ASSUME NEW room \in Room, NEW c, Phase(room)
  PROVE  Phase(LeaveRoom(room, c))
<1> DEFINE left == LeaveRoom(room, c)
           seats == room.seats
           rest == Without(seats, c)
<1>1. /\ left.game = room.game
      /\ \/ left.seats = seats /\ room.game = "Running"
         \/ /\ ~(c \in DOMAIN seats /\ room.game = "Running")
            /\ left.seats = rest /\ left.forfeit = room.forfeit
  BY LeaveRoomType
<1>2. DOMAIN rest = DOMAIN seats \ {c} /\ \A d \in DOMAIN seats \ {c} : rest[d] = seats[d]
  BY WithoutSeats DEF Room
<1> HIDE DEF left, rest
<1>3. CASE room.game = "Running"
  <2>1. TwoPlayers(seats)
    BY <1>3 DEF Phase
  <2>2. TwoPlayers(left.seats)
    <3>1. CASE left.seats = seats
      BY <2>1, <3>1
    <3>2. CASE c \notin DOMAIN seats /\ left.seats = rest
      BY <1>2, <2>1, <3>2 DEF TwoPlayers
    <3> QED BY <1>1, <1>3, <3>1, <3>2
  <2> QED BY <1>1, <1>3, <2>2 DEF Phase, left
<1>4. CASE room.game = "NotStarted"
  <2>1. \A d \in DOMAIN seats : DOMAIN seats = {d} /\ seats[d].color = "White"
    BY <1>4 DEF Phase
  <2>2. \A d \in DOMAIN rest : DOMAIN rest = {d} /\ rest[d].color = "White"
    BY <1>2, <2>1
  <2>3. left.seats = rest /\ left.forfeit = NoForfeit
    BY <1>1, <1>4 DEF Phase
  <2> QED BY <1>1, <1>4, <2>2, <2>3 DEF Phase, left
<1>5. CASE room.game \notin {"NotStarted", "Running"}
  <2>1. OnePerColor(seats) /\ left.seats = rest
    BY <1>1, <1>5 DEF Phase
  <2>2. OnePerColor(rest)
    BY <1>2, <2>1 DEF OnePerColor
  <2> QED BY <1>1, <1>5, <2>1, <2>2 DEF Phase, left
<1> QED BY <1>3, <1>4, <1>5

LEMMA PhaseReseat ==
  ASSUME NEW room \in Room, NEW d \in DOMAIN room.seats, NEW c \in Connections,
         c \notin DOMAIN room.seats, Phase(room), room.seats[d].color = room.forfeit
  PROVE  Phase(Reseat(room, d, c))
<1> DEFINE back == Reseat(room, d, c)
           seats == room.seats
           left == Without(seats, d)
           seat == seats[d]
           new == Put(left, c, seat)
<1>1. back.game = room.game /\ back.seats = new
  BY ReseatType
<1>2. seats \in Seats /\ seat \in Seat /\ seat.color = room.forfeit
  BY SeatsType DEF Room
<1>3. left \in Seats /\ DOMAIN left = DOMAIN seats \ {d} /\ \A e \in DOMAIN seats \ {d} : left[e] = seats[e]
  BY <1>2, WithoutSeats
<1> HIDE DEF back, left, seat
<1>4. /\ DOMAIN new = DOMAIN left \cup {c} /\ new[c] = seat
      /\ \A e \in DOMAIN left : e # c => new[e] = left[e]
  BY <1>2, <1>3, PutSeats
<1> HIDE DEF new, seats
<1>5. \A e \in DOMAIN seats \ {d} : e \in DOMAIN new /\ e # c /\ new[e] = seats[e]
  BY <1>3, <1>4 DEF seats
<1>6. DOMAIN new = (DOMAIN seats \ {d}) \cup {c} /\ new[c] = seats[d]
  BY <1>3, <1>4 DEF seat
<1>7. room.game # "NotStarted"
  <2>1. room.forfeit # NoForfeit
    BY <1>2 DEF Seat, Colors, NoForfeit
  <2> QED BY <2>1 DEF Phase
<1>8. CASE room.game = "Running"
  <2>1. PICK a, b \in DOMAIN seats : /\ DOMAIN seats = {a, b}
                                     /\ seats[a].color = "White" /\ seats[b].color = "Black"
    BY <1>8 DEF Phase, TwoPlayers, seats
  <2>2. a # b
    BY <2>1
  <2>3. TwoPlayers(new)
    <3>1. CASE d = a
      BY <1>5, <1>6, <2>1, <2>2, <3>1 DEF TwoPlayers
    <3>2. CASE d = b
      BY <1>5, <1>6, <2>1, <2>2, <3>2 DEF TwoPlayers
    <3> QED BY <2>1, <3>1, <3>2 DEF seats
  <2> QED BY <1>1, <1>8, <2>3 DEF Phase, back
<1>9. CASE room.game # "Running"
  <2>1. OnePerColor(seats)
    BY <1>7, <1>9 DEF Phase, seats
  <2>2. OnePerColor(new)
    BY <1>5, <1>6, <2>1 DEF OnePerColor, seats
  <2> QED BY <1>1, <1>7, <1>9, <2>2 DEF Phase, back
<1> QED BY <1>8, <1>9

LEMMA PhaseEnter ==
  ASSUME NEW room \in Room, NEW c \in Connections, NEW u \in Users,
         c \notin DOMAIN room.seats, ~IsOver(room), Phase(room)
  PROVE  Phase(Enter(room, c, u))
<1> DEFINE in == Enter(room, c, u)
           seats == room.seats
           seat == [user |-> u, color |-> IF room.seats = EmptySeats THEN "White" ELSE "Black"]
           new == Put(seats, c, seat)
<1>1. seats \in Seats /\ room.game \in {"NotStarted", "Running"}
  BY DEF Room, GameStates, IsOver
<1>2. CASE room.game = "Running"
  <2>1. TwoPlayers(seats)
    BY <1>2 DEF Phase
  <2>2. ~(Cardinality(DOMAIN seats) < 2)
    <3>1. PICK a, b \in DOMAIN seats : a # b /\ DOMAIN seats = {a, b}
      BY <2>1 DEF TwoPlayers
    <3> DEFINE D == DOMAIN seats
    <3>2. a # b /\ D = {a, b}
      BY <3>1
    <3> HIDE DEF D
    <3>3. Cardinality(D) = 2
      BY <3>2, CountPair
    <3> QED BY <3>3 DEF D
  <2>3. in.seats = seats /\ in.game = room.game
    BY <2>2, EnterType
  <2> QED BY <1>2, <2>1, <2>3 DEF Phase
<1>3. CASE room.game = "NotStarted"
  <2>1. room.forfeit = NoForfeit /\ \A d \in DOMAIN seats : DOMAIN seats = {d} /\ seats[d].color = "White"
    BY <1>3 DEF Phase
  <2>2. Cardinality(DOMAIN seats) < 2
    <3>1. CASE DOMAIN seats = {}
      BY <3>1, FS_EmptySet
    <3>2. ASSUME NEW d \in DOMAIN seats PROVE Cardinality(DOMAIN seats) < 2
      <4> DEFINE D == DOMAIN seats
      <4>1. D = {d}
        BY <2>1
      <4> HIDE DEF D
      <4>2. Cardinality(D) = 1
        BY <4>1, CountOne
      <4> QED BY <4>2 DEF D
    <3> QED BY <3>1, <3>2
  <2>3. /\ in.forfeit = NoForfeit /\ in.seats = new
        /\ in.game = IF Cardinality(DOMAIN new) = 2 THEN "Running" ELSE "NotStarted"
    BY <1>3, <2>1, <2>2, EnterType
  <2>4. seat \in Seat
    BY DEF Seat, Colors
  <2>5. seat.color = IF seats = EmptySeats THEN "White" ELSE "Black"
    OBVIOUS
  <2> HIDE DEF seat
  <2>6. /\ DOMAIN new = DOMAIN seats \cup {c} /\ new[c] = seat
        /\ \A d \in DOMAIN seats : d # c => new[d] = seats[d]
    BY <1>1, <2>4, PutSeats
  <2> HIDE DEF new, in
  <2>7. CASE DOMAIN seats = {}
    <3>1. seats = EmptySeats
      BY <1>1, <2>7, EmptySeatsType
    <3>2. DOMAIN new = {c} /\ new[c].color = "White"
      BY <2>5, <2>6, <2>7, <3>1
    <3>3. Cardinality(DOMAIN new) = 1
      BY <3>2, FS_Singleton
    <3> QED BY <2>3, <3>2, <3>3 DEF Phase, in
  <2>8. ASSUME NEW d \in DOMAIN seats PROVE Phase(in)
    <3>1. DOMAIN seats = {d} /\ seats[d].color = "White" /\ d # c
      BY <2>1, <2>8
    <3>2. seats # EmptySeats
      BY <3>1, EmptySeatsType
    <3>3. DOMAIN new = {d, c} /\ new[d].color = "White" /\ new[c].color = "Black"
      BY <2>5, <2>6, <3>1, <3>2
    <3>4. Cardinality(DOMAIN new) = 2
      <4> DEFINE D == DOMAIN new
      <4>1. d # c /\ D = {d, c}
        BY <3>1, <3>3
      <4> HIDE DEF D
      <4>2. Cardinality(D) = 2
        BY <4>1, CountPair
      <4> QED BY <4>2 DEF D
    <3>5. TwoPlayers(new)
      BY <3>3 DEF TwoPlayers
    <3> QED BY <2>3, <3>4, <3>5 DEF Phase
  <2> QED BY <2>7, <2>8 DEF in
<1> QED BY <1>1, <1>2, <1>3

\* Nobody who JOINs sits in a room.
LEMMA JoinerSitsNowhere ==
  ASSUME EntryInv, NEW c \in Connections, Joins(c), NEW key
  PROVE  c \notin DOMAIN RoomOf(key).seats
<1>1. Connected(c) /\ ~IsRouted(c)
  BY ServerAssumption DEF Joins, LoggedIn, Connected
<1> QED BY <1>1, NewRoomType DEF EntryInv, SeatedAreRouted, RoomOf

\* The room of a quick match is new, and its two players are distinct.
LEMMA PairedNew ==
  ASSUME OneMatch, EntryInv, NEW c \in Connections, QuickMatch(c), NEW i \in 1 .. Len(waiting)
  PROVE  LET new == Paired(i, c)
             w == waiting[i]
         IN /\ RoomOf(<<"quick", nextQuick>>) = NewRoom
            /\ w.conn # c /\ DOMAIN new.seats = {w.conn, c} /\ new.spectators = {}
            /\ new.seats[c] = [user |-> session[c], color |-> "Black"]
            /\ new.seats[w.conn] = [user |-> w.user, color |-> "White"]
            /\ new.forfeit = NoForfeit /\ new.game = "Running"
            /\ session[c] \in Users /\ w.user \in Users
<1> DEFINE room == RoomOf(<<"quick", nextQuick>>)
           new == Paired(i, c)
           w == waiting[i]
<1>1. TypeOK /\ Joins(c)
  BY DEF EntryInv, ServerInv, QuickMatch
<1>2. room = NewRoom
  BY <1>1 DEF OneMatch, EntryInv, QuickSeen, TypeOK, RoomOf
<1>3. w.conn # c
  BY <1>1 DEF OneMatch, Joins, IsWaiting
<1>4. session[c] \in Users /\ w.user \in Users
  BY <1>1, JoinerType, WaiterType
<1>5. /\ DOMAIN new.seats = DOMAIN room.seats \cup {w.conn, c}
      /\ new.seats[c] = [user |-> session[c], color |-> "Black"]
      /\ w.conn # c => new.seats[w.conn] = [user |-> w.user, color |-> "White"]
      /\ new.forfeit = room.forfeit /\ new.spectators = room.spectators
      /\ new.game = "Running"
  BY <1>1, PairedType
<1> HIDE DEF room, new, w
<1>6. /\ DOMAIN room.seats = {} /\ room.forfeit = NoForfeit /\ room.spectators = {}
  BY <1>2, NewRoomType
<1> QED BY <1>2, <1>3, <1>4, <1>5, <1>6 DEF room, new, w

LEMMA PhaseStep ==
  ASSUME OneMatch, EntryInv, Phases, [Next]_vars, NEW key \in DOMAIN rooms'
  PROVE  Phase(rooms'[key])
<1> DEFINE room == RoomOf(key)
<1>1. TypeOK /\ NoStaleEntry
  BY DEF EntryInv, ServerInv
<1>2. room \in Room /\ Phase(room)
  BY <1>1, RoomStep, PhaseNew DEF Phases, RoomOf
<1>3. CASE RoomLeft(key)
  BY <1>2, <1>3, PhaseLeave DEF RoomLeft
<1>4. CASE RoomReseated(key)
  <2>1. PICK c \in Connections, d \in DOMAIN room.seats :
          /\ Joins(c) /\ room.seats[d] = [user |-> session[c], color |-> room.forfeit]
          /\ rooms'[key] = Reseat(room, d, c)
    BY <1>4 DEF RoomReseated, Reconnect
  <2>2. c \notin DOMAIN room.seats /\ room.seats[d].color = room.forfeit
    BY <2>1, JoinerSitsNowhere
  <2> HIDE DEF room
  <2> QED BY <1>2, <2>1, <2>2, PhaseReseat
<1>5. CASE RoomPaired(key)
  <2>1. PICK c \in Connections, i \in 1 .. Len(waiting) :
          QuickMatch(c) /\ rooms'[key] = Paired(i, c)
    BY <1>5 DEF RoomPaired
  <2> DEFINE new == Paired(i, c)
             w == waiting[i]
  <2>2. /\ DOMAIN new.seats = {w.conn, c} /\ new.game = "Running"
        /\ new.seats[c] = [user |-> session[c], color |-> "Black"]
        /\ new.seats[w.conn] = [user |-> w.user, color |-> "White"]
    BY <2>1, PairedNew
  <2>3. new.seats[c].color = "Black" /\ new.seats[w.conn].color = "White"
    BY <2>2
  <2> HIDE DEF new, w
  <2>4. Phase(new)
    BY <2>2, <2>3 DEF Phase, TwoPlayers
  <2> QED BY <2>1, <2>4 DEF new
<1>6. CASE RoomEntered(key)
  <2>1. PICK c \in Connections :
          Joins(c) /\ (IsOver(room) => Reuse) /\ rooms'[key] = Enter(room, c, session[c])
    BY <1>6 DEF RoomEntered, EnterRoom
  <2>2. c \notin DOMAIN room.seats /\ session[c] \in Users /\ ~IsOver(room)
    BY <2>1, JoinerSitsNowhere DEF Joins, LoggedIn, OneMatch
  <2> HIDE DEF room
  <2> QED BY <1>2, <2>1, <2>2, PhaseEnter
<1>7. CASE RoomForfeited(key)
  <2>1. rooms'[key].game = "Paused" /\ DOMAIN rooms'[key].seats = {}
    BY <1>2, <1>7, FinalizeType, EmptySeatsType DEF RoomForfeited
  <2> QED BY <2>1 DEF Phase, OnePerColor
<1>8. CASE RoomAdvanced(key)
  BY <1>2, <1>8 DEF RoomAdvanced, SameSeats, Phase
<1>9. CASE RoomWon(key)
  <2>1. TwoPlayers(room.seats) /\ rooms'[key].seats = room.seats /\ rooms'[key].game = "Finished"
    BY <1>2, <1>9 DEF RoomWon, SameSeats, Phase
  <2>2. OnePerColor(room.seats)
    BY <2>1 DEF TwoPlayers, OnePerColor
  <2> QED BY <2>1, <2>2 DEF Phase
<1>10. CASE RoomKept(key)
  BY <1>2, <1>10 DEF RoomKept, RoomOf
<1> QED BY <1>1, <1>3, <1>4, <1>5, <1>6, <1>7, <1>8, <1>9, <1>10, RoomStep

-----------------------------------------------------------------------------
(* Who sits in or watches a room *)

Members(room) == DOMAIN room.seats \cup room.spectators

LEMMA MembersLeave ==
  ASSUME NEW room \in Room, NEW c, NEW e, e # c
  PROVE  e \in Members(LeaveRoom(room, c)) <=> e \in Members(room)
<1> DEFINE left == LeaveRoom(room, c)
           rest == Without(room.seats, c)
<1>1. \/ left.seats = room.seats /\ left.spectators = room.spectators
      \/ left.seats = rest /\ left.spectators = room.spectators \ {c}
  BY LeaveRoomType
<1>2. DOMAIN rest = DOMAIN room.seats \ {c}
  BY WithoutSeats DEF Room
<1> HIDE DEF left, rest
<1>3. CASE left.seats = room.seats /\ left.spectators = room.spectators
  BY <1>3 DEF Members, left
<1>4. CASE left.seats = rest /\ left.spectators = room.spectators \ {c}
  <2>1. e \in DOMAIN rest <=> e \in DOMAIN room.seats
    BY <1>2
  <2> QED BY <1>4, <2>1 DEF Members, left
<1> QED BY <1>1, <1>3, <1>4

LEMMA MembersReseat ==
  ASSUME NEW room \in Room, NEW d \in DOMAIN room.seats, NEW c \in Connections
  PROVE  Members(Reseat(room, d, c)) = (DOMAIN room.seats \ {d}) \cup {c} \cup room.spectators
<1> DEFINE back == Reseat(room, d, c)
           left == Without(room.seats, d)
           seat == room.seats[d]
           new == Put(left, c, seat)
<1>1. back.seats = new /\ back.spectators = room.spectators
  BY ReseatType
<1>2. room.seats \in Seats /\ seat \in Seat
  BY SeatsType DEF Room
<1>3. left \in Seats /\ DOMAIN left = DOMAIN room.seats \ {d}
  BY <1>2, WithoutSeats
<1> HIDE DEF back, left, seat
<1>4. DOMAIN new = DOMAIN left \cup {c}
  BY <1>2, <1>3, PutSeats
<1> HIDE DEF new
<1> QED BY <1>1, <1>3, <1>4 DEF Members, back

LEMMA MembersEnter ==
  ASSUME NEW room \in Room, NEW c \in Connections, NEW u \in Users
  PROVE  Members(Enter(room, c, u)) = Members(room) \cup {c}
<1> DEFINE in == Enter(room, c, u)
           seat == [user |-> u, color |-> IF room.seats = EmptySeats THEN "White" ELSE "Black"]
           new == Put(room.seats, c, seat)
<1>1. \/ in.seats = new /\ in.spectators = room.spectators
      \/ in.seats = room.seats /\ in.spectators = room.spectators \cup {c}
  BY EnterType
<1>2. seat \in Seat /\ room.seats \in Seats
  BY DEF Seat, Colors, Room
<1> HIDE DEF seat, in
<1>3. DOMAIN new = DOMAIN room.seats \cup {c}
  BY <1>2, PutSeats
<1> HIDE DEF new
<1> QED BY <1>1, <1>3 DEF Members, in

LEMMA MembersFinalize ==
  ASSUME NEW room \in Room
  PROVE  Members(Finalize(room)) = Members(room)
<1> DEFINE over == Finalize(room)
<1>1. DOMAIN over.seats = {} /\ over.spectators = room.spectators \cup DOMAIN room.seats
  BY FinalizeType, EmptySeatsType
<1> HIDE DEF over
<1> QED BY <1>1 DEF Members, over

\* A spectator is a connection that has been opened.
LEMMA WatchersStep == EntryInv /\ WatchersSeen /\ [Next]_vars => WatchersSeen'
<1> SUFFICES ASSUME EntryInv, WatchersSeen, [Next]_vars, NEW key \in DOMAIN rooms',
                    NEW e \in rooms'[key].spectators
             PROVE  e < nextConn'
  BY DEF WatchersSeen
<1>1. TypeOK /\ NoStaleEntry /\ Fresh /\ SeatsSeen
  BY DEF EntryInv, ServerInv
<1>2. nextConn \in Nat /\ nextConn' \in Nat /\ nextConn <= nextConn'
  BY <1>1, SessionStep DEF TypeOK
<1>3. RoomOf(key) \in Room /\ rooms'[key] \in Room
  BY <1>1, RoomStep
<1>4. e \in Nat
  BY <1>3 DEF Room, Connections
<1>5. CASE e \in Members(RoomOf(key))
  <2>1. e < nextConn
    BY <1>1, <1>5, NewRoomType DEF Members, RoomOf, SeatsSeen, WatchersSeen
  <2> QED BY <1>2, <1>4, <2>1
<1>6. ASSUME NEW c \in Connections, Joins(c), e = c PROVE e < nextConn'
  <2>1. Connected(c)
    BY <1>6, ServerAssumption DEF Joins, LoggedIn, Connected
  <2>2. c < nextConn
    BY <1>1, <2>1, SessionStep
  <2> QED BY <1>2, <1>4, <1>6, <2>2
<1>7. e \in Members(rooms'[key])
  BY DEF Members
<1>8. CASE RoomLeft(key)
  <2>1. PICK c \in Connections : rooms'[key] = LeaveRoom(RoomOf(key), c)
    BY <1>8 DEF RoomLeft
  <2>2. rooms'[key].spectators \subseteq RoomOf(key).spectators
    BY <1>3, <2>1, LeaveRoomType
  <2> QED BY <1>5, <2>2 DEF Members
<1>9. CASE RoomReseated(key)
  BY <1>3, <1>5, <1>9, ReseatType DEF RoomReseated, Members
<1>10. CASE RoomPaired(key)
  <2>1. PICK c \in Connections, i \in 1 .. Len(waiting) :
          Joins(c) /\ key = <<"quick", nextQuick>> /\ rooms'[key] = Paired(i, c)
    BY <1>10 DEF RoomPaired, QuickMatch
  <2>2. Paired(i, c).spectators = RoomOf(<<"quick", nextQuick>>).spectators
    BY <1>1, <2>1, PairedType
  <2>3. RoomOf(<<"quick", nextQuick>>) = RoomOf(key)
    BY <2>1
  <2>4. rooms'[key].spectators = RoomOf(key).spectators
    BY <2>1, <2>2, <2>3
  <2> QED BY <1>5, <2>4 DEF Members
<1>11. CASE RoomEntered(key)
  <2>1. PICK c \in Connections : Joins(c) /\ rooms'[key] = Enter(RoomOf(key), c, session[c])
    BY <1>11 DEF RoomEntered, EnterRoom
  <2>2. session[c] \in Users
    BY <2>1 DEF Joins, LoggedIn
  <2>3. Members(rooms'[key]) = Members(RoomOf(key)) \cup {c}
    BY <1>3, <2>1, <2>2, MembersEnter
  <2> QED BY <1>5, <1>6, <1>7, <2>1, <2>3
<1>12. CASE RoomForfeited(key)
  BY <1>3, <1>5, <1>7, <1>12, MembersFinalize DEF RoomForfeited
<1>13. CASE RoomAdvanced(key) \/ RoomWon(key) \/ RoomKept(key)
  BY <1>5, <1>13 DEF RoomAdvanced, RoomWon, SameSeats, RoomKept, RoomOf, Members
<1> QED BY <1>1, <1>8, <1>9, <1>10, <1>11, <1>12, <1>13, RoomStep

\* The seat that a player returns to is the one that was left.
LEMMA ReclaimedIsAbsent ==
  ASSUME EntryInv, Phases, NEW key \in DOMAIN rooms, NEW d \in DOMAIN rooms[key].seats,
         rooms[key].seats[d].color = rooms[key].forfeit
  PROVE  ~Connected(d) /\ OnePerColor(rooms[key].seats) /\ rooms[key].forfeit # NoForfeit
<1> DEFINE seats == rooms[key].seats
<1>1. rooms[key] \in Room /\ seats[d] \in Seat
  <2>1. rooms[key] \in Room
    BY SweptRoom DEF EntryInv, ServerInv
  <2> QED BY <2>1, SeatsType DEF Room
<1>2. rooms[key].forfeit # NoForfeit
  BY <1>1 DEF Seat, Colors, NoForfeit
<1>3. OnePerColor(seats)
  <2>1. Phase(rooms[key]) /\ rooms[key].game # "NotStarted"
    BY <1>2 DEF Phases, Phase
  <2>2. CASE rooms[key].game = "Running"
    BY <2>1, <2>2 DEF Phase, TwoPlayers, OnePerColor
  <2>3. CASE rooms[key].game # "Running"
    BY <2>1, <2>3 DEF Phase
  <2> QED BY <2>2, <2>3
<1>4. PICK e \in DOMAIN seats : seats[e].color = rooms[key].forfeit /\ ~Connected(e)
  BY <1>2 DEF EntryInv, ServerInv, ForfeitOfTheAbsent, Absent
<1> QED BY <1>2, <1>3, <1>4 DEF OnePerColor

LEMMA RoutedStep ==
  ASSUME MatchInv, [Next]_vars, NEW key \in DOMAIN rooms', NEW e \in Connections, Connected(e)'
  PROVE  e \in Members(rooms'[key]) <=> e \in DOMAIN routed' /\ routed'[e] = key
<1> DEFINE Routed(k) == e \in DOMAIN routed /\ routed[e] = k
           Goal == e \in Members(rooms'[key]) <=> e \in DOMAIN routed' /\ routed'[e] = key
<1> USE DEF registry
<1>1. TypeOK /\ NoStaleEntry /\ Fresh /\ SeatsSeen /\ WatchersSeen /\ EntryInv /\ Phases /\ OneMatch
  BY DEF MatchInv, EntryInv, ServerInv
<1>2. \A k : e \in Members(RoomOf(k)) <=> Routed(k)
  <2> TAKE k
  <2>1. CASE k \notin DOMAIN rooms
    BY <1>1, <2>1, NewRoomType DEF Members, RoomOf, NoStaleEntry
  <2>2. CASE k \in DOMAIN rooms /\ Connected(e)
    BY <2>2 DEF MatchInv, RoutedToItsRoom, Members, RoomOf
  <2>3. CASE k \in DOMAIN rooms /\ ~Connected(e)
    <3>1. ~(e < nextConn)
      BY <1>1, <2>3, SessionStep
    <3>2. e \notin Members(rooms[k])
      BY <1>1, <2>3, <3>1 DEF SeatsSeen, WatchersSeen, Members
    <3>3. ~LoggedIn(e)
      BY <2>3, ServerAssumption DEF Connected, LoggedIn
    <3> QED BY <1>1, <2>3, <3>2, <3>3 DEF NoStaleEntry, RoomOf
  <2> QED BY <2>1, <2>2, <2>3
<1>3. RoomOf(key) \in Room /\ \A k \in DOMAIN rooms : RoomOf(k) = rooms[k]
  BY <1>1, RoomStep DEF RoomOf
<1>4. ASSUME UNCHANGED routed, Members(rooms'[key]) = Members(RoomOf(key)) PROVE Goal
  BY <1>2, <1>4
<1>5. ASSUME UNCHANGED <<rooms, routed>> PROVE Goal
  BY <1>2, <1>3, <1>5
<1>6. ASSUME NEW c \in Connections, Disconnect(c) PROVE Goal
  <2>1. e # c
    BY <1>1, <1>6 DEF Disconnect, Connected, TypeOK
  <2>2. /\ DOMAIN rooms' = DOMAIN rooms
        /\ \A k \in DOMAIN rooms :
             rooms'[k] = IF IsRouted(c) /\ k = routed[c] THEN LeaveRoom(rooms[k], c) ELSE rooms[k]
    BY <1>1, <1>6, DisconnectRooms DEF NoStaleEntry, IsRouted
  <2>3. /\ DOMAIN routed' = DOMAIN routed \ {c}
        /\ \A d \in DOMAIN routed' : routed'[d] = routed[d]
    BY <1>1, <1>6, WithoutRouted DEF Disconnect
  <2>4. e \in Members(rooms'[key]) <=> e \in Members(RoomOf(key))
    BY <1>3, <2>1, <2>2, MembersLeave
  <2>5. Routed(key) <=> e \in DOMAIN routed' /\ routed'[e] = key
    BY <2>1, <2>3
  <2> QED BY <1>2, <2>4, <2>5
<1>7. ASSUME NEW c \in Connections, Joins(c), e = c PROVE \A k : ~Routed(k)
  BY <1>7 DEF Joins, IsRouted
<1>8. ASSUME NEW c \in Connections, Reconnect(c) PROVE Goal
  <2>1. PICK s \in Reclaimable(session[c]) :
          /\ s[1] \in DOMAIN rooms /\ s[2] \in DOMAIN rooms[s[1]].seats
          /\ rooms[s[1]].seats[s[2]] = [user |-> session[c], color |-> rooms[s[1]].forfeit]
          /\ DOMAIN rooms' = DOMAIN rooms
          /\ rooms'[s[1]] = Reseat(rooms[s[1]], s[2], c)
          /\ \A k \in DOMAIN rooms : k # s[1] => rooms'[k] = rooms[k]
          /\ routed' = Put(routed, c, s[1])
    BY <1>1, <1>8, ReconnectRooms
  <2> DEFINE k == s[1]
             d == s[2]
  <2>2. /\ k \in DOMAIN rooms /\ d \in DOMAIN rooms[k].seats
        /\ rooms[k].seats[d].color = rooms[k].forfeit
        /\ DOMAIN rooms' = DOMAIN rooms
        /\ rooms'[k] = Reseat(rooms[k], d, c)
        /\ \A j \in DOMAIN rooms : j # k => rooms'[j] = rooms[j]
        /\ routed' = Put(routed, c, k)
    BY <2>1
  <2> HIDE DEF k, d
  <2>3. rooms[k] \in Room /\ k \in Keys
    BY <1>1, <2>2, SweptRoom
  <2>4. e # d
    <3>1. ~Connected(d)
      BY <1>1, <2>2, ReclaimedIsAbsent
    <3> QED BY <1>8, <3>1 DEF Reconnect, Connected
  <2>5. /\ DOMAIN routed' = DOMAIN routed \cup {c}
        /\ \A f \in DOMAIN routed' : routed'[f] = IF f = c THEN k ELSE routed[f]
    <3>1. PICK to : to = Put(routed, c, k)
      OBVIOUS
    <3>2. /\ DOMAIN to = DOMAIN routed \cup {c}
          /\ \A f \in DOMAIN to : to[f] = IF f = c THEN k ELSE routed[f]
      BY <3>1 DEF Put
    <3>3. routed' = to
      BY <2>2, <3>1
    <3> QED BY <3>2, <3>3
  <2>6. Members(rooms'[k]) = (DOMAIN rooms[k].seats \ {d}) \cup {c} \cup rooms[k].spectators
    BY <2>2, <2>3, MembersReseat
  <2>7. Joins(c)
    BY <1>8 DEF Reconnect
  <2>8. CASE e = c
    <3>1. \A j : e \notin Members(RoomOf(j))
      BY <1>2, <1>7, <2>7, <2>8
    <3>2. e \in DOMAIN routed' /\ routed'[e] = k /\ e \in Members(rooms'[k])
      BY <2>5, <2>6, <2>8
    <3>3. key # k => e \notin Members(rooms'[key])
      BY <1>3, <2>2, <3>1
    <3> QED BY <3>2, <3>3
  <2>9. CASE e # c
    <3>1. e \in Members(rooms'[k]) <=> e \in Members(rooms[k])
      BY <2>4, <2>6, <2>9 DEF Members
    <3>2. e \in Members(rooms'[key]) <=> e \in Members(RoomOf(key))
      BY <1>3, <2>2, <3>1
    <3>3. Routed(key) <=> e \in DOMAIN routed' /\ routed'[e] = key
      BY <2>5, <2>9
    <3> QED BY <1>2, <3>2, <3>3
  <2> QED BY <2>8, <2>9
<1>9. ASSUME NEW c \in Connections, QuickMatch(c) PROVE Goal
  <2> DEFINE k == <<"quick", nextQuick>>
  <2>1. PICK i \in 1 .. Len(waiting) :
          /\ DOMAIN rooms' = DOMAIN rooms \cup {k} /\ rooms'[k] = Paired(i, c)
          /\ \A j \in DOMAIN rooms : j # k => rooms'[j] = rooms[j]
          /\ DOMAIN routed' = DOMAIN routed \cup {waiting[i].conn, c}
          /\ \A d \in DOMAIN routed' :
               routed'[d] = IF d \in {waiting[i].conn, c} THEN k ELSE routed[d]
    BY <1>1, <1>9, QuickMatchRooms
  <2> DEFINE two == {waiting[i].conn, c}
  <2>2. RoomOf(k) = NewRoom /\ Members(rooms'[k]) = two
    <3>1. /\ RoomOf(k) = NewRoom
          /\ DOMAIN Paired(i, c).seats = two /\ Paired(i, c).spectators = {}
      BY <1>1, <1>9, PairedNew
    <3> QED BY <2>1, <3>1 DEF Members
  <2>3. e \in two => \A j : ~Routed(j)
    <3>1. waiting[i].conn \notin DOMAIN routed
      BY <1>1 DEF OneMatch, EntryInv, QueuedAreFree, WaitersAreFree
    <3>2. c \notin DOMAIN routed
      BY <1>9 DEF QuickMatch, Joins, IsRouted
    <3> QED BY <3>1, <3>2
  <2>4. Members(NewRoom) = {}
    BY NewRoomType DEF Members
  <2>5. /\ DOMAIN routed' = DOMAIN routed \cup two
        /\ \A d \in DOMAIN routed' : routed'[d] = IF d \in two THEN k ELSE routed[d]
    BY <2>1
  <2>6. /\ DOMAIN rooms' = DOMAIN rooms \cup {k}
        /\ \A j \in DOMAIN rooms : j # k => rooms'[j] = rooms[j]
    BY <2>1
  <2> HIDE DEF k, two
  <2>7. CASE key = k
    BY <1>2, <2>2, <2>4, <2>5, <2>7
  <2>8. CASE key # k
    <3>1. rooms'[key] = RoomOf(key)
      BY <1>3, <2>6, <2>8
    <3>2. e \in two => e \notin Members(RoomOf(key))
      BY <1>2, <2>3
    <3> QED BY <1>2, <2>5, <2>8, <3>1, <3>2
  <2> QED BY <2>7, <2>8
<1>10. ASSUME NEW c \in Connections, NEW k \in TypedKeys \cup {<<"named", nextNamed>>},
              EnterRoom(c, k)
       PROVE  Goal
  <2>1. k \in Keys
    BY <1>1, ServerAssumption DEF Keys, TypeOK
  <2>2. /\ RoomOf(k) \in Room /\ session[c] \in Users
        /\ DOMAIN rooms' = DOMAIN rooms \cup {k}
        /\ rooms'[k] = Enter(RoomOf(k), c, session[c])
        /\ \A j \in DOMAIN rooms : j # k => rooms'[j] = rooms[j]
    BY <1>1, <1>10, <2>1, EnterRooms
  <2>3. /\ DOMAIN routed' = DOMAIN routed \cup {c}
        /\ \A d \in DOMAIN routed' : routed'[d] = IF d = c THEN k ELSE routed[d]
    BY <1>1, <1>10, <2>1, EnterRooms
  <2>4. Members(rooms'[k]) = Members(RoomOf(k)) \cup {c}
    BY <2>2, MembersEnter
  <2>5. Joins(c)
    BY <1>10 DEF EnterRoom
  <2>6. key # k => rooms'[key] = RoomOf(key)
    BY <1>3, <2>2
  <2>7. CASE e = c
    <3>1. \A j : e \notin Members(RoomOf(j))
      BY <1>2, <1>7, <2>5, <2>7
    <3> QED BY <2>3, <2>4, <2>6, <2>7, <3>1
  <2>8. CASE e # c
    <3>1. e \in Members(rooms'[key]) <=> e \in Members(RoomOf(key))
      BY <2>4, <2>6, <2>8
    <3>2. Routed(key) <=> e \in DOMAIN routed' /\ routed'[e] = key
      BY <2>3, <2>8
    <3> QED BY <1>2, <3>1, <3>2
  <2> QED BY <2>7, <2>8
<1>11. ASSUME NEW k \in DOMAIN rooms,
              \/ ForfeitRoom(k) \/ AdvanceRoom(k) \/ \E color \in Colors : TakeKing(k, color)
       PROVE  Goal
  <2>1. /\ routed' = routed /\ DOMAIN rooms' = DOMAIN rooms
        /\ \A j \in DOMAIN rooms : j # k => rooms'[j] = rooms[j]
    BY <1>1, <1>11, SweepRooms
  <2>2. \/ rooms'[k] = Finalize(rooms[k])
        \/ rooms'[k].seats = rooms[k].seats /\ rooms'[k].spectators = rooms[k].spectators
    BY <1>1, <1>11, SweepRooms
  <2>3. Members(rooms'[k]) = Members(rooms[k])
    BY <1>1, <2>2, SweptRoom, MembersFinalize DEF Members
  <2>4. Members(rooms'[key]) = Members(RoomOf(key))
    BY <1>3, <2>1, <2>3
  <2> QED BY <1>4, <2>1, <2>4
<1> HIDE DEF Goal
<1>12. ASSUME Handlers PROVE Goal
  <2>1. CASE \E c \in Connections : \/ Disconnect(c) \/ Reconnect(c) \/ QuickMatch(c) \/ CreateRoom(c)
                                    \/ \E k \in TypedKeys : JoinRoom(c, k)
    BY <1>6, <1>8, <1>9, <1>10, <2>1 DEF JoinRoom, CreateRoom
  <2>2. CASE Connect \/ \E c \in Connections : Wait(c) \/ \E u \in Users : Login(c, u)
    BY <1>5, <2>2 DEF Connect, Login, Wait
  <2> QED BY <1>12, <2>1, <2>2 DEF Handlers
<1>13. ASSUME StartTick \/ UNCHANGED vars PROVE Goal
  BY <1>5, <1>13 DEF StartTick, vars
<1>14. Goal
  BY <1>11, <1>12, <1>13 DEF Next, TickThread
<1> QED BY <1>14 DEF Goal

-----------------------------------------------------------------------------
(* What is decided is rated *)

LEMMA RecordBothColors ==
  ASSUME TypeOK, NEW key \in Keys, NEW seats \in Seats, TwoPlayers(seats), NEW winner \in Colors,
         Record(key, seats, winner)
  PROVE  \E i \in 1 .. Len(results') : results'[i].room = key
<1>1. \A color \in Colors : PlayersOf(seats, color) # {}
  <2>1. PICK a, b \in DOMAIN seats : seats[a].color = "White" /\ seats[b].color = "Black"
    BY DEF TwoPlayers
  <2>2. seats[a] \in Seat /\ seats[b] \in Seat
    BY SeatsType
  <2>3. /\ seats[a].user \in Users /\ seats[a] = [user |-> seats[a].user, color |-> "White"]
        /\ seats[b].user \in Users /\ seats[b] = [user |-> seats[b].user, color |-> "Black"]
    BY <2>1, <2>2 DEF Seat
  <2>4. seats[a].user \in PlayersOf(seats, "White") /\ seats[b].user \in PlayersOf(seats, "Black")
    BY <2>3 DEF PlayersOf
  <2> QED BY <2>4 DEF Colors
<1>2. PICK x \in Result : x.room = key /\ results' = Append(results, x)
  BY <1>1 DEF Record, PlayersOf, Result
<1>3. results \in Seq(Result)
  BY DEF TypeOK
<1>4. /\ Len(results') = Len(results) + 1 /\ Len(results) \in Nat
      /\ results'[Len(results) + 1] = x
  BY <1>2, <1>3, AppendProperties
<1> QED BY <1>2, <1>4

\* Results are kept.
LEMMA ResultsStep ==
  ASSUME TypeOK, [Next]_vars
  PROVE  /\ Len(results') \in Nat /\ Len(results) \in Nat /\ Len(results) <= Len(results')
         /\ \A i \in 1 .. Len(results) : results'[i] = results[i]
<1>1. Len(results) \in Nat
  BY DEF TypeOK
<1>2. CASE UNCHANGED results
  BY <1>1, <1>2
<1>3. CASE \E key \in DOMAIN rooms :
             \/ ForfeitRoom(key) \/ AdvanceRoom(key) \/ \E k \in Colors : TakeKing(key, k)
  BY <1>3, SweepRooms
<1>4. CASE Handlers
  BY <1>2, <1>4
  DEF Handlers, Connect, Login, Disconnect, Reconnect, QuickMatch, Wait, JoinRoom, CreateRoom, EnterRoom
<1>5. CASE StartTick \/ UNCHANGED vars
  BY <1>2, <1>5 DEF StartTick, vars
<1> QED BY <1>3, <1>4, <1>5 DEF Next, TickThread

LEMMA RatedStep == MatchInv /\ [Next]_vars => DecidedIsRated'
<1> SUFFICES ASSUME MatchInv, [Next]_vars, NEW key \in DOMAIN rooms', IsOver(rooms'[key])
             PROVE  \E i \in 1 .. Len(results') : results'[i].room = key
  BY DEF DecidedIsRated, IsOver
<1>1. TypeOK /\ NoStaleEntry /\ EntryInv /\ Phases /\ OneMatch
  BY DEF MatchInv, EntryInv, ServerInv
<1>2. CASE key \in DOMAIN rooms /\ IsOver(rooms[key])
  <2>1. PICK i \in 1 .. Len(results) : results[i].room = key
    BY <1>2 DEF MatchInv, DecidedIsRated
  <2> QED BY <1>1, <2>1, ResultsStep
<1> DEFINE room == RoomOf(key)
<1>3. room \in Room /\ rooms'[key] \in Room /\ key \in Keys
  BY <1>1, RoomStep
<1>4. ASSUME key \in DOMAIN rooms, room.game = "Running"
      PROVE  room = rooms[key] /\ room.seats \in Seats /\ TwoPlayers(room.seats)
  BY <1>1, <1>3, <1>4 DEF Phases, Phase, RoomOf, Room
<1>5. CASE RoomForfeited(key)
  <2>1. key \in DOMAIN rooms /\ room = rooms[key] /\ ForfeitRoom(key)
    BY <1>1, <1>5 DEF RoomForfeited, ForfeitRoom, Swept, TypeOK, RoomOf
  <2>2. room.forfeit # NoForfeit /\ Record(key, room.seats, Opponent(room.forfeit))
    BY <2>1 DEF ForfeitRoom, ForfeitDue
  <2>3. CASE room.game = "Running"
    <3>1. Opponent(room.forfeit) \in Colors
      BY DEF Opponent, Colors
    <3> QED BY <1>1, <1>3, <1>4, <2>1, <2>2, <2>3, <3>1, RecordBothColors
  <2>4. CASE room.game # "Running"
    <3>1. room.game # "NotStarted"
      BY <1>1, <2>1, <2>2 DEF Phases, Phase
    <3>2. IsOver(rooms[key])
      BY <1>3, <2>1, <2>4, <3>1 DEF IsOver, Room, GameStates
    <3> QED BY <1>2, <2>1, <3>2
  <2> QED BY <2>3, <2>4
<1>6. CASE RoomWon(key)
  <2>1. PICK k \in Colors : TakeKing(key, k)
    BY <1>6 DEF RoomWon
  <2>2. key \in DOMAIN rooms /\ room.game = "Running" /\ Record(key, room.seats, Opponent(k))
    BY <1>1, <1>6, <2>1 DEF RoomWon, TakeKing, Swept, TypeOK, RoomOf
  <2>3. Opponent(k) \in Colors
    BY DEF Opponent, Colors
  <2> QED BY <1>1, <1>3, <1>4, <2>2, <2>3, RecordBothColors
<1>7. ASSUME rooms'[key].game = room.game PROVE key \in DOMAIN rooms /\ IsOver(rooms[key])
  BY <1>7, NewRoomType DEF IsOver, RoomOf
<1>8. CASE RoomLeft(key)
  <2>1. rooms'[key].game = room.game
    BY <1>3, <1>8, LeaveRoomType DEF RoomLeft
  <2> QED BY <1>2, <1>7, <2>1
<1>9. CASE RoomReseated(key)
  <2>1. rooms'[key].game = room.game
    BY <1>3, <1>9, ReseatType DEF RoomReseated
  <2> QED BY <1>2, <1>7, <2>1
<1>10. CASE RoomAdvanced(key)
  BY <1>2, <1>7, <1>10 DEF RoomAdvanced
<1>11. CASE RoomKept(key)
  BY <1>2, <1>11 DEF RoomKept
<1>12. ~RoomPaired(key)
  <2>1. ASSUME NEW c \in Connections, NEW i \in 1 .. Len(waiting), QuickMatch(c),
               rooms'[key] = Paired(i, c)
        PROVE  FALSE
    <3>1. Paired(i, c).game = "Running"
      BY <1>1, <2>1, PairedNew
    <3> QED BY <2>1, <3>1 DEF IsOver
  <2> QED BY <2>1 DEF RoomPaired
<1>13. ~RoomEntered(key)
  <2>1. ASSUME NEW c \in Connections, EnterRoom(c, key), IsOver(room) => Reuse,
               rooms'[key] = Enter(room, c, session[c])
        PROVE  FALSE
    <3>1. session[c] \in Users /\ ~IsOver(room)
      BY <1>1, <2>1 DEF EnterRoom, Joins, LoggedIn, OneMatch
    <3> DEFINE in == Enter(room, c, session[c])
    <3>2. in.game \in {"Running", room.game}
      BY <1>3, <3>1, EnterType
    <3> HIDE DEF in
    <3> QED BY <2>1, <3>1, <3>2 DEF IsOver, in
  <2> QED BY <2>1 DEF RoomEntered
<1> HIDE DEF room
<1> QED BY <1>1, <1>5, <1>6, <1>8, <1>9, <1>10, <1>11, <1>12, <1>13, RoomStep

LEMMA MatchInit == Init /\ OneMatch => MatchInv
  BY EntryInit
  DEF Init, MatchInv, WatchersSeen, Phases, RoutedToItsRoom, DecidedIsRated, Connected

LEMMA MatchInvStep == MatchInv /\ [Next]_vars => MatchInv'
<1> SUFFICES ASSUME MatchInv, [Next]_vars PROVE MatchInv'
  OBVIOUS
<1>1. EntryInv' /\ WatchersSeen' /\ DecidedIsRated' /\ OneMatch'
  BY EntryInvStep, WatchersStep, RatedStep DEF MatchInv, OneMatch, NoQuickTyped
<1>2. Phases'
  BY PhaseStep DEF MatchInv, Phases, Phase, TwoPlayers, OnePerColor
<1>3. RoutedToItsRoom'
  BY RoutedStep DEF RoutedToItsRoom, Members
<1> QED BY <1>1, <1>2, <1>3 DEF MatchInv

\* Every connection is routed to the room it sits in or watches, to no other, and only there:
\* a click or a snapshot goes to the game its sender is in, through every order of drops,
\* reconnects, quick matches and JOINs.
THEOREM RoutesAreTrue == Spec /\ OneMatch => []RoutedToItsRoom
<1>1. MatchInv => RoutedToItsRoom
  BY DEF MatchInv
<1> QED BY <1>1, MatchInit, MatchInvStep, PTL DEF Spec

\* No match that is decided, by a king or by a forfeit, goes unrated: when its result is
\* recorded, both players still sit in the room.
THEOREM MatchesAreRated == Spec /\ OneMatch => []DecidedIsRated
<1>1. MatchInv => DecidedIsRated
  BY DEF MatchInv
<1> QED BY <1>1, MatchInit, MatchInvStep, PTL DEF Spec

-----------------------------------------------------------------------------
(* A room implements one match. *)

LEMMA StageOf ==
  ASSUME NEW room \in Room
  PROVE  /\ Stage(room) = "open" <=> room.game = "NotStarted"
         /\ Stage(room) = "playing" <=> room.game = "Running"
         /\ Stage(room) = "over" <=> IsOver(room)
  BY DEF Stage, Room, GameStates, IsOver

\* A player who joins is White, and waits, or Black, and the game starts.
LEMMA EnterSeats ==
  ASSUME NEW room \in Room, NEW c \in Connections, NEW u \in Users,
         c \notin DOMAIN room.seats, ~IsOver(room), Phase(room)
  PROVE  LET in == Enter(room, c, u) IN
         \/ room.game = "Running" /\ in.game = "Running" /\ in.seats = room.seats
         \/ /\ room.game = "NotStarted" /\ SeatsOf(room) = {}
            /\ in.game = "NotStarted" /\ SeatsOf(in) = {[user |-> u, color |-> "White"]}
         \/ /\ room.game = "NotStarted" /\ in.game = "Running"
            /\ \E p \in Seat : /\ p.color = "White" /\ SeatsOf(room) = {p}
                               /\ SeatsOf(in) = {p, [user |-> u, color |-> "Black"]}
<1> DEFINE in == Enter(room, c, u)
           seats == room.seats
           color == IF seats = EmptySeats THEN "White" ELSE "Black"
           seat == [user |-> u, color |-> color]
           new == Put(seats, c, seat)
<1>1. seats \in Seats /\ room.game \in {"NotStarted", "Running"}
  BY DEF Room, GameStates, IsOver
<1>2. CASE room.game = "Running"
  <2>1. TwoPlayers(seats)
    BY <1>2 DEF Phase
  <2>2. ~(Cardinality(DOMAIN seats) < 2)
    <3> DEFINE D == DOMAIN seats
    <3>1. PICK a, b \in DOMAIN seats : a # b /\ D = {a, b}
      BY <2>1 DEF TwoPlayers
    <3> HIDE DEF D
    <3>2. Cardinality(D) = 2
      BY <3>1, CountPair
    <3> QED BY <3>2 DEF D
  <2>3. in.seats = seats /\ in.game = room.game
    BY <2>2, EnterType
  <2> QED BY <1>2, <2>3
<1>3. CASE room.game = "NotStarted"
  <2>1. \A d \in DOMAIN seats : DOMAIN seats = {d} /\ seats[d].color = "White"
    BY <1>3 DEF Phase
  <2>2. seat \in Seat
    BY DEF Seat, Colors
  <2> HIDE DEF seat
  <2>3. /\ DOMAIN new = DOMAIN seats \cup {c} /\ new[c] = seat
        /\ \A d \in DOMAIN seats : d # c => new[d] = seats[d]
    BY <1>1, <2>2, PutSeats
  <2>4. CASE DOMAIN seats = {}
    <3>1. color = "White"
      BY <1>1, <2>4, EmptySeatsType
    <3>2. Cardinality(DOMAIN seats) < 2
      BY <2>4, FS_EmptySet
    <3>3. in.seats = new /\ in.game = IF Cardinality(DOMAIN new) = 2 THEN "Running" ELSE room.game
      BY <3>2, EnterType DEF seat
    <3> DEFINE D == DOMAIN new
    <3>4. D = {c}
      BY <2>3, <2>4
    <3> HIDE DEF D
    <3>5. Cardinality(D) = 1
      BY <3>4, CountOne
    <3>6. in.game = "NotStarted"
      BY <1>3, <3>3, <3>5 DEF D
    <3>7. SeatsOf(room) = {}
      BY <2>4 DEF SeatsOf
    <3> HIDE DEF in, new, color
    <3>8. SeatsOf(in) = {seat}
      BY <2>3, <2>4, <3>3 DEF SeatsOf
    <3>9. seat = [user |-> u, color |-> "White"]
      BY <3>1 DEF seat
    <3> QED BY <1>3, <3>6, <3>7, <3>8, <3>9 DEF in
  <2>5. ASSUME NEW d \in DOMAIN seats
        PROVE  /\ in.game = "Running"
               /\ \E p \in Seat : /\ p.color = "White" /\ SeatsOf(room) = {p}
                                  /\ SeatsOf(in) = {p, [user |-> u, color |-> "Black"]}
    <3>1. DOMAIN seats = {d} /\ seats[d].color = "White" /\ d # c /\ seats[d] \in Seat
      BY <1>1, <2>1, SeatsType
    <3>2. color = "Black"
      BY <3>1, EmptySeatsType
    <3>3. Cardinality(DOMAIN seats) < 2
      <4> DEFINE D == DOMAIN seats
      <4>1. D = {d}
        BY <3>1
      <4> HIDE DEF D
      <4>2. Cardinality(D) = 1
        BY <4>1, CountOne
      <4> QED BY <4>2 DEF D
    <3>4. in.seats = new /\ in.game = IF Cardinality(DOMAIN new) = 2 THEN "Running" ELSE room.game
      BY <3>3, EnterType DEF seat
    <3> DEFINE D == DOMAIN new
    <3>5. D = {d, c} /\ d # c
      BY <2>3, <3>1
    <3> HIDE DEF D
    <3>6. Cardinality(D) = 2
      BY <3>5, CountPair
    <3>7. in.game = "Running"
      BY <3>4, <3>6 DEF D
    <3> DEFINE p == seats[d]
    <3>8. SeatsOf(room) = {p}
      BY <3>1 DEF SeatsOf
    <3>9. new[d] = p /\ new[c] = seat
      BY <2>3, <3>1
    <3> HIDE DEF in, new, color
    <3>10. SeatsOf(in) = {p, seat}
      BY <3>4, <3>5, <3>9 DEF SeatsOf, D
    <3>11. seat = [user |-> u, color |-> "Black"]
      BY <3>2 DEF seat
    <3> QED BY <3>1, <3>7, <3>8, <3>10, <3>11
  <2> QED BY <1>3, <2>4, <2>5
<1> QED BY <1>1, <1>2, <1>3

OnePlayer(players) == \E p \in Seat : players = {p}

\* The player who leaves gets up, and the one who returns has the seat that was kept.
LEMMA LeaveSeats ==
  ASSUME NEW room \in Room, NEW c, Phase(room)
  PROVE  LET left == LeaveRoom(room, c) IN
         /\ left.game = room.game /\ SeatsOf(left) \subseteq SeatsOf(room)
         /\ room.game = "Running" => SeatsOf(left) = SeatsOf(room)
         /\ \/ room.game # "NotStarted" \/ SeatsOf(left) = SeatsOf(room)
            \/ SeatsOf(left) = {} /\ OnePlayer(SeatsOf(room))
<1> DEFINE left == LeaveRoom(room, c)
           seats == room.seats
           rest == Without(seats, c)
<1>1. /\ left.game = room.game
      /\ \/ left.seats = seats
         \/ ~(c \in DOMAIN seats /\ room.game = "Running") /\ left.seats = rest
  BY LeaveRoomType
<1>2. DOMAIN rest = DOMAIN seats \ {c} /\ \A d \in DOMAIN seats \ {c} : rest[d] = seats[d]
  BY WithoutSeats DEF Room
<1>3. \A d \in DOMAIN seats : seats[d] \in Seat
  BY SeatsType DEF Room
<1> HIDE DEF left, rest
<1>4. CASE left.seats = seats
  BY <1>1, <1>4 DEF SeatsOf, left
<1>5. CASE c \notin DOMAIN seats /\ left.seats = rest
  <2>1. SeatsOf(left) = SeatsOf(room)
    BY <1>2, <1>5 DEF SeatsOf
  <2> QED BY <1>1, <2>1 DEF left
<1>6. CASE c \in DOMAIN seats /\ room.game # "Running" /\ left.seats = rest
  <2>1. SeatsOf(left) \subseteq SeatsOf(room)
    BY <1>2, <1>6 DEF SeatsOf
  <2>2. ASSUME room.game = "NotStarted" PROVE SeatsOf(left) = {} /\ SeatsOf(room) = {seats[c]}
    <3>1. DOMAIN seats = {c}
      BY <1>6, <2>2 DEF Phase
    <3> QED BY <1>2, <1>6, <3>1 DEF SeatsOf
  <2> QED BY <1>1, <1>3, <1>6, <2>1, <2>2 DEF left, OnePlayer
<1> QED BY <1>1, <1>4, <1>5, <1>6

LEMMA ReseatSeats ==
  ASSUME NEW room \in Room, NEW d \in DOMAIN room.seats, NEW c \in Connections,
         c \notin DOMAIN room.seats
  PROVE  SeatsOf(Reseat(room, d, c)) = SeatsOf(room)
<1> DEFINE back == Reseat(room, d, c)
           seats == room.seats
           left == Without(seats, d)
           seat == seats[d]
           new == Put(left, c, seat)
<1>1. back.seats = new
  BY ReseatType
<1>2. seats \in Seats /\ seat \in Seat
  BY SeatsType DEF Room
<1>3. left \in Seats /\ DOMAIN left = DOMAIN seats \ {d} /\ \A e \in DOMAIN seats \ {d} : left[e] = seats[e]
  BY <1>2, WithoutSeats
<1> HIDE DEF back, left, seat
<1>4. /\ DOMAIN new = DOMAIN left \cup {c} /\ new[c] = seat
      /\ \A e \in DOMAIN left : e # c => new[e] = left[e]
  BY <1>2, <1>3, PutSeats
<1> HIDE DEF new
<1>5. \A e \in DOMAIN seats \ {d} : e \in DOMAIN new /\ new[e] = seats[e]
  BY <1>3, <1>4
<1>6. DOMAIN new = (DOMAIN seats \ {d}) \cup {c} /\ new[c] = seats[d]
  BY <1>3, <1>4 DEF seat
<1> QED BY <1>1, <1>5, <1>6 DEF SeatsOf, back

LEMMA MatchRefines ==
  ASSUME MatchInv, [Next]_vars, NEW key
  PROVE  MatchStep(key)
<1> DEFINE room == RoomOf(key)
           next == rooms'[key]
           stage == Stage(RoomOf(key))
           players == SeatsOf(RoomOf(key))
<1>1. TypeOK /\ NoStaleEntry /\ EntryInv /\ Phases /\ OneMatch
  BY DEF MatchInv, EntryInv, ServerInv
<1>2. CASE key \notin DOMAIN rooms'
  <2>1. key \notin DOMAIN rooms
    BY <1>1, <1>2, RoomStep
  <2>2. RoomOf(key)' = RoomOf(key)
    BY <1>2, <2>1 DEF RoomOf, NewRoom, EmptySeats
  <2> QED BY <2>2 DEF MatchStep, Stage, SeatsOf
<1>3. SUFFICES ASSUME key \in DOMAIN rooms' PROVE MatchStep(key)
  BY <1>2
<1>4. room \in Room /\ next \in Room /\ Phase(room)
  BY <1>1, <1>3, RoomStep, PhaseNew DEF Phases, RoomOf
<1>5. stage' = Stage(next) /\ players' = SeatsOf(next)
  BY <1>3 DEF RoomOf, Stage, SeatsOf
<1>6. /\ stage = "open" <=> room.game = "NotStarted"
      /\ stage = "playing" <=> room.game = "Running"
      /\ stage = "over" <=> IsOver(room)
      /\ Stage(next) = "open" <=> next.game = "NotStarted"
      /\ Stage(next) = "playing" <=> next.game = "Running"
      /\ Stage(next) = "over" <=> IsOver(next)
  BY <1>4, StageOf
<1>7. MatchIn(key)!Player = Seat
  BY DEF MatchIn!Player, Seat, Colors
<1>8. room.game \in GameStates
  BY <1>4 DEF Room
<1> HIDE DEF room, next
\* A step in which the seats and the stage stay.
<1>9. ASSUME next.game = room.game, SeatsOf(next) = SeatsOf(room) PROVE MatchStep(key)
  BY <1>5, <1>9 DEF MatchStep, Stage, room
<1>10. CASE RoomLeft(key)
  <2> DEFINE now == SeatsOf(room)
             then == SeatsOf(next)
  <2>1. /\ next.game = room.game /\ then \subseteq now
        /\ room.game = "Running" => then = now
        /\ room.game = "NotStarted" => then = now \/ (then = {} /\ OnePlayer(now))
    <3>1. PICK c \in Connections : next = LeaveRoom(room, c)
      BY <1>10 DEF RoomLeft, room, next
    <3> DEFINE left == LeaveRoom(room, c)
    <3>2. left.game = room.game /\ SeatsOf(left) \subseteq SeatsOf(room)
      BY <1>4, LeaveSeats
    <3>3. room.game = "Running" => SeatsOf(left) = SeatsOf(room)
      BY <1>4, LeaveSeats
    <3>4. \/ room.game # "NotStarted" \/ SeatsOf(left) = SeatsOf(room)
          \/ SeatsOf(left) = {} /\ OnePlayer(SeatsOf(room))
      BY <1>4, LeaveSeats
    <3>5. next.game = left.game /\ then = SeatsOf(left)
      BY <3>1
    <3> HIDE DEF left, then
    <3> QED BY <3>2, <3>3, <3>4, <3>5
  <2>2. players = now /\ players' = then
    BY <1>5 DEF room
  <2>3. then = now => MatchStep(key)
    BY <1>9, <2>1
  <2> HIDE DEF now, then, players, stage
  <2>4. CASE room.game = "NotStarted" /\ then # now
    <3>1. PICK p \in Seat : now = {p} /\ then = {}
      BY <2>1, <2>4 DEF OnePlayer
    <3>2. players = {p} /\ players' = {} /\ stage = "open" /\ stage' = "open"
      BY <1>5, <1>6, <2>1, <2>2, <2>4, <3>1
    <3>3. MatchIn(key)!GetUp(p)
      BY <3>2 DEF MatchIn!GetUp, players, stage
    <3> QED BY <1>7, <3>3 DEF MatchStep, MatchIn!Next
  <2>5. CASE room.game \in {"Paused", "Finished"}
    <3>1. players' \in SUBSET players /\ stage = "over" /\ stage' = "over"
      BY <1>5, <1>6, <2>1, <2>2, <2>5 DEF IsOver
    <3>2. MatchIn(key)!Depart
      BY <3>1 DEF MatchIn!Depart, players, stage
    <3> QED BY <3>2 DEF MatchStep, MatchIn!Next
  <2> QED BY <1>8, <2>1, <2>3, <2>4, <2>5 DEF GameStates
<1>11. CASE RoomReseated(key)
  <2>1. PICK c \in Connections, d \in DOMAIN room.seats :
          Joins(c) /\ next = Reseat(room, d, c)
    BY <1>11 DEF RoomReseated, Reconnect, room, next
  <2>2. c \notin DOMAIN room.seats
    BY <1>1, <2>1, JoinerSitsNowhere DEF room
  <2>3. next.game = room.game /\ SeatsOf(next) = SeatsOf(room)
    BY <1>4, <2>1, <2>2, ReseatType, ReseatSeats
  <2> QED BY <1>9, <2>3
<1>12. CASE RoomPaired(key)
  <2>1. PICK c \in Connections, i \in 1 .. Len(waiting) :
          QuickMatch(c) /\ key = <<"quick", nextQuick>> /\ next = Paired(i, c)
    BY <1>12 DEF RoomPaired, next
  <2> DEFINE new == Paired(i, c)
             w == waiting[i]
             p == [user |-> w.user, color |-> "White"]
             q == [user |-> session[c], color |-> "Black"]
  <2>2. /\ RoomOf(<<"quick", nextQuick>>) = NewRoom
        /\ DOMAIN new.seats = {w.conn, c} /\ new.seats[c] = q /\ new.seats[w.conn] = p
        /\ new.game = "Running" /\ session[c] \in Users /\ w.user \in Users
    BY <1>1, <2>1, PairedNew
  <2>3. room = NewRoom
    BY <2>1, <2>2 DEF room
  <2>4. p \in Seat /\ q \in Seat /\ p.color # q.color
    BY <2>2 DEF Seat, Colors
  <2> HIDE DEF new, p, q
  <2>5. SeatsOf(new) = {p, q}
    BY <2>2 DEF SeatsOf
  <2>6. stage = "open" /\ players = {} /\ stage' = "playing" /\ players' = {p, q}
    <3>1. SeatsOf(NewRoom) = {} /\ NewRoom.game = "NotStarted"
      BY NewRoomType DEF SeatsOf
    <3> QED BY <1>5, <1>6, <2>1, <2>2, <2>3, <2>5, <3>1 DEF room, new
  <2>7. MatchIn(key)!Pair(p, q)
    BY <2>4, <2>6 DEF MatchIn!Pair
  <2> QED BY <1>7, <2>4, <2>7 DEF MatchStep, MatchIn!Next
<1>13. CASE RoomEntered(key)
  <2>1. PICK c \in Connections :
          Joins(c) /\ (IsOver(room) => Reuse) /\ next = Enter(room, c, session[c])
    BY <1>13 DEF RoomEntered, EnterRoom, room, next
  <2>2. c \notin DOMAIN room.seats /\ session[c] \in Users /\ ~IsOver(room)
    BY <1>1, <2>1, JoinerSitsNowhere DEF Joins, LoggedIn, OneMatch, room
  <2> DEFINE white == [user |-> session[c], color |-> "White"]
             black == [user |-> session[c], color |-> "Black"]
  <2>3. \/ room.game = "Running" /\ next.game = "Running" /\ next.seats = room.seats
        \/ /\ room.game = "NotStarted" /\ SeatsOf(room) = {}
           /\ next.game = "NotStarted" /\ SeatsOf(next) = {white}
        \/ /\ room.game = "NotStarted" /\ next.game = "Running"
           /\ \E p \in Seat : /\ p.color = "White" /\ SeatsOf(room) = {p}
                              /\ SeatsOf(next) = {p, black}
    BY <1>4, <2>1, <2>2, EnterSeats
  <2>4. /\ white \in Seat /\ white.color = "White"
        /\ black \in Seat /\ black.color = "Black"
    BY <2>2 DEF Seat, Colors
  <2>5. players = SeatsOf(room)
    BY DEF room
  <2> HIDE DEF white, black
  <2>6. CASE room.game = "Running" /\ next.game = "Running" /\ next.seats = room.seats
    BY <1>9, <2>6 DEF SeatsOf
  <2>7. CASE /\ room.game = "NotStarted" /\ SeatsOf(room) = {}
             /\ next.game = "NotStarted" /\ SeatsOf(next) = {white}
    <3>1. stage = "open" /\ players = {} /\ stage' = "open" /\ players' = {white}
      BY <1>5, <1>6, <2>5, <2>7
    <3>2. MatchIn(key)!SitDown(white)
      BY <3>1 DEF MatchIn!SitDown, MatchIn!Free
    <3> QED BY <1>7, <2>4, <3>2 DEF MatchStep, MatchIn!Next
  <2>8. CASE /\ room.game = "NotStarted" /\ next.game = "Running"
             /\ \E p \in Seat : /\ p.color = "White" /\ SeatsOf(room) = {p}
                                /\ SeatsOf(next) = {p, black}
    <3>1. PICK p \in Seat : p.color = "White" /\ SeatsOf(room) = {p} /\ SeatsOf(next) = {p, black}
      BY <2>8
    <3>2. stage = "open" /\ players = {p} /\ stage' = "playing" /\ players' = {p, black}
      BY <1>5, <1>6, <2>5, <2>8, <3>1
    <3>3. MatchIn(key)!SitDown(black)
      BY <2>4, <3>1, <3>2 DEF MatchIn!SitDown, MatchIn!Free
    <3> QED BY <1>7, <2>4, <3>3 DEF MatchStep, MatchIn!Next
  <2> QED BY <2>3, <2>6, <2>7, <2>8
<1>14. CASE RoomForfeited(key)
  <2>1. SeatsOf(next) = {} /\ next.game = "Paused"
    <3>1. DOMAIN next.seats = {} /\ next.game = "Paused"
      BY <1>4, <1>14, FinalizeType, EmptySeatsType DEF RoomForfeited, room, next
    <3> QED BY <3>1 DEF SeatsOf
  <2>2. room.forfeit # NoForfeit
    BY <1>1, <1>14 DEF RoomForfeited, ForfeitRoom, ForfeitDue, Swept, TypeOK, RoomOf, room
  <2>3. stage' = "over" /\ players' = {}
    BY <1>5, <1>6, <2>1 DEF IsOver
  <2>4. CASE room.game = "Running"
    <3>1. MatchIn(key)!Decide
      BY <1>6, <2>3, <2>4 DEF MatchIn!Decide
    <3> QED BY <3>1 DEF MatchStep, MatchIn!Next
  <2>5. CASE room.game # "Running"
    <3>1. stage = "over"
      BY <1>4, <1>6, <1>8, <2>2, <2>5 DEF Phase, GameStates, IsOver
    <3>2. MatchIn(key)!Depart
      BY <2>3, <3>1 DEF MatchIn!Depart
    <3> QED BY <3>2 DEF MatchStep, MatchIn!Next
  <2> QED BY <2>4, <2>5
<1>15. CASE RoomWon(key)
  <2>1. room.game = "Running" /\ next.game = "Finished" /\ next.seats = room.seats
    BY <1>15 DEF RoomWon, SameSeats, room, next
  <2>2. stage = "playing" /\ stage' = "over" /\ players' = players
    BY <1>5, <1>6, <2>1 DEF IsOver, SeatsOf, room
  <2>3. MatchIn(key)!Decide
    BY <2>2 DEF MatchIn!Decide
  <2> QED BY <2>3 DEF MatchStep, MatchIn!Next
<1>16. CASE RoomAdvanced(key)
  <2>1. next.game = room.game /\ next.seats = room.seats
    BY <1>16 DEF RoomAdvanced, SameSeats, room, next
  <2> QED BY <1>9, <2>1 DEF SeatsOf
<1>17. CASE RoomKept(key)
  <2>1. next = room
    BY <1>17 DEF RoomKept, RoomOf, room, next
  <2> QED BY <1>9, <2>1
<1> QED BY <1>1, <1>3, <1>10, <1>11, <1>12, <1>13, <1>14, <1>15, <1>16, <1>17, RoomStep

\* Every room implements one match: players of different colours sit down until there are
\* two, the same two play, drops and reconnects notwithstanding, until a king or a forfeit
\* decides, and then they leave.
THEOREM RoomsImplementMatch == Spec /\ OneMatch => MatchSpec
<1>1. Init => \A key \in MatchKeys : MatchIn(key)!Init
  <2> SUFFICES ASSUME Init, NEW key PROVE MatchIn(key)!Init
    OBVIOUS
  <2>1. RoomOf(key) = NewRoom
    BY DEF Init, RoomOf
  <2>2. Stage(RoomOf(key)) = "open" /\ SeatsOf(RoomOf(key)) = {}
    BY <2>1, NewRoomType DEF Stage, SeatsOf
  <2> QED BY <2>2 DEF MatchIn!Init
<1>2. MatchInv /\ [Next]_vars => [\A key \in MatchKeys : MatchStep(key)]_vars
  BY MatchRefines
<1> QED BY <1>1, <1>2, MatchInit, MatchInvStep, PTL DEF Spec, MatchSpec

===============================================================================
