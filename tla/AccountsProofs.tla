---------------------------- MODULE AccountsProofs ----------------------------
(***************************************************************************)
(* Theorems about Accounts: the processes implement the book of accounts    *)
(* (AccountBook), and the ratings of who has one result recorded at a time  *)
(* are the sums of what the table of matches books.                         *)
(*                                                                         *)
(* What a sum of rows is is induction over data, done here by hand: the     *)
(* least number of rows for which two functions of sums differ, or for      *)
(* which there is none, is not zero and not the successor of another.       *)
(***************************************************************************)
EXTENDS Accounts, WellFoundedInduction, TLAPS

(***************************************************************************)
(* Sums of booked deltas.                                                   *)
(***************************************************************************)
LessThan == {pair \in Nat \X Nat : pair[1] < pair[2]}

\* A nonempty set of naturals has a least member: what induction over the rows needs.
LEMMA LeastNumber ==
  ASSUME NEW T \in SUBSET Nat, T # {}
  PROVE  \E k \in T : \A j \in T : k <= j
<1>1. IsWellFoundedOn(LessThan, Nat)
  BY NatLessThanWellFounded, Zenon DEF OpToRel, LessThan
<1>2. PICK k \in T : \A j \in T : ~ <<j, k>> \in LessThan
  BY <1>1, WFMin
<1>3. ASSUME NEW j \in T PROVE k <= j
  <2>1. ~(j < k)
    BY <1>2 DEF LessThan
  <2>. QED BY <2>1
<1>. QED BY <1>3

\* f[k] is the sum of the first k deltas of n in the rows ms.
Sums(ms, n, f) ==
  f = [k \in 0 .. Len(ms) |-> IF k = 0 THEN 0 ELSE f[k - 1] + DeltaOf(ms[k], n)]

MatchRows == [white : Users, black : Users, winner : Users, whiteDelta : Int, blackDelta : Int]

LEMMA DeltaIsInt ==
  ASSUME NEW m \in MatchRows, NEW n
  PROVE  DeltaOf(m, n) \in Int
BY DEF MatchRows, DeltaOf

\* The definition of Booked picks such a function.
LEMMA BookedIsChosen ==
  ASSUME NEW ms, NEW n
  PROVE  Booked(ms, n) = (CHOOSE f : Sums(ms, n, f))[Len(ms)]
BY DEF Booked, Sums

\* Booked is the value of any function of sums.
LEMMA BookedIsTheSum ==
  ASSUME NEW ms \in Seq(MatchRows), NEW n, NEW f, Sums(ms, n, f)
  PROVE  Booked(ms, n) = f[Len(ms)]
<1>1. PICK g : g = (CHOOSE h : Sums(ms, n, h))
  OBVIOUS
<1>2. Sums(ms, n, g)
  BY <1>1
<1>3. Len(ms) \in Nat
  OBVIOUS
<1>4. Booked(ms, n) = g[Len(ms)]
  BY <1>1, BookedIsChosen
<1> DEFINE T == {k \in 0 .. Len(ms) : f[k] # g[k]}
<1>5. T = {}
  <2> SUFFICES ASSUME T # {} PROVE FALSE
    OBVIOUS
  <2>a. T \in SUBSET Nat
    BY <1>3
  <2>1. PICK k \in T : \A j \in T : k <= j
    <3> HIDE DEF T
    <3>. QED BY <2>a, LeastNumber
  <2>2. k \in Nat /\ k <= Len(ms) /\ f[k] # g[k]
    BY <1>3, <2>1
  <2>3. k # 0
    BY <1>2, <1>3, <2>2 DEF Sums
  <2>4. k - 1 \in 0 .. Len(ms) /\ k - 1 \notin T
    BY <1>3, <2>1, <2>2, <2>3
  <2>5. f[k - 1] = g[k - 1]
    BY <2>4
  <2>6. f[k] = f[k - 1] + DeltaOf(ms[k], n)
    BY <1>3, <2>2, <2>3 DEF Sums
  <2>7. g[k] = g[k - 1] + DeltaOf(ms[k], n)
    BY <1>2, <1>3, <2>2, <2>3 DEF Sums
  <2>. QED BY <2>2, <2>5, <2>6, <2>7
<1>6. Len(ms) \in 0 .. Len(ms)
  BY <1>3
<1>. QED BY <1>4, <1>5, <1>6

\* Every sequence of rows has a function of sums.
LEMMA SumsExist ==
  ASSUME NEW ms \in Seq(MatchRows), NEW n
  PROVE  \E f : Sums(ms, n, f) /\ f[Len(ms)] \in Int
<1> DEFINE Prefix(f, k) ==
             /\ f = [j \in 0 .. k |-> IF j = 0 THEN 0 ELSE f[j - 1] + DeltaOf(ms[j], n)]
             /\ f[k] \in Int
           T == {k \in 0 .. Len(ms) : ~ \E f : Prefix(f, k)}
<1>1. Len(ms) \in Nat /\ \A k \in 1 .. Len(ms) : ms[k] \in MatchRows
  OBVIOUS
<1>2. T = {}
  <2> SUFFICES ASSUME T # {} PROVE FALSE
    OBVIOUS
  <2>a. T \in SUBSET Nat
    BY <1>1
  <2>1. PICK k \in T : \A j \in T : k <= j
    <3> HIDE DEF T
    <3>. QED BY <2>a, LeastNumber
  <2>2. k \in Nat /\ k <= Len(ms)
    BY <1>1
  <2>3. ASSUME k = 0 PROVE FALSE
    <3>1. Prefix([j \in 0 .. 0 |-> 0], 0)
      OBVIOUS
    <3>. QED BY <2>3, <3>1
  <2>4. k - 1 \in 0 .. Len(ms) /\ k - 1 \notin T
    <3>1. k - 1 \in 0 .. Len(ms) /\ ~(k <= k - 1)
      BY <1>1, <2>2, <2>3
    <3> HIDE DEF T
    <3>. QED BY <3>1, <2>1
  <2>5. PICK f : Prefix(f, k - 1)
    BY <2>4
  <2> DEFINE g == [j \in 0 .. k |-> IF j = k THEN f[k - 1] + DeltaOf(ms[k], n) ELSE f[j]]
  <2>6. DeltaOf(ms[k], n) \in Int
    BY <1>1, <2>2, <2>3, DeltaIsInt
  <2>7. g[k] \in Int
    BY <2>2, <2>5, <2>6
  <2>8. ASSUME NEW j \in 0 .. k
        PROVE  g[j] = IF j = 0 THEN 0 ELSE g[j - 1] + DeltaOf(ms[j], n)
    <3>1. j \in Nat /\ j <= k
      BY <2>2
    <3>2. CASE j = k
      <4>1. g[j] = f[k - 1] + DeltaOf(ms[k], n)
        BY <3>1, <3>2
      <4>2. g[j - 1] = f[k - 1]
        BY <3>1, <3>2, <2>3
      <4>. QED BY <4>1, <4>2, <3>2, <2>3
    <3>3. CASE j # k
      <4>1. j \in 0 .. k - 1
        BY <3>1, <3>3, <2>2
      <4>2. g[j] = f[j]
        BY <3>3
      <4>3. j # 0 => j - 1 \in 0 .. k /\ g[j - 1] = f[j - 1]
        BY <3>1, <3>3, <2>2
      <4>4. f[j] = IF j = 0 THEN 0 ELSE f[j - 1] + DeltaOf(ms[j], n)
        BY <2>5, <4>1
      <4>. QED BY <4>2, <4>3, <4>4
    <3>. QED BY <3>2, <3>3
  <2>9. g = [j \in 0 .. k |-> IF j = 0 THEN 0 ELSE g[j - 1] + DeltaOf(ms[j], n)]
    <3> DEFINE h == [j \in 0 .. k |-> IF j = 0 THEN 0 ELSE g[j - 1] + DeltaOf(ms[j], n)]
    <3>1. \A j \in 0 .. k : g[j] = h[j]
      BY <2>8
    <3>2. g = [j \in 0 .. k |-> g[j]] /\ h = [j \in 0 .. k |-> h[j]]
      OBVIOUS
    <3> HIDE DEF g, h
    <3>3. g = h
      BY <3>1, <3>2
    <3>. QED BY <3>3 DEF h
  <2>10. Prefix(g, k)
    BY <2>7, <2>9
  <2>. QED BY <2>10, <2>1
<1>3. \E f : Prefix(f, Len(ms))
  BY <1>1, <1>2
<1>. QED BY <1>3 DEF Sums

LEMMA BookedIsInt ==
  ASSUME NEW ms \in Seq(MatchRows), NEW n
  PROVE  Booked(ms, n) \in Int
BY SumsExist, BookedIsTheSum

\* Nothing is booked before the first match.
LEMMA NothingBooked == \A n : Booked(<<>>, n) = 0
<1> SUFFICES ASSUME NEW n PROVE Booked(<<>>, n) = 0
  OBVIOUS
<1>1. <<>> \in Seq(MatchRows) /\ Len(<<>>) = 0
  OBVIOUS
<1>2. PICK f : Sums(<<>>, n, f)
  BY <1>1, SumsExist
<1>3. f[0] = 0
  BY <1>1, <1>2 DEF Sums
<1>. QED BY <1>1, <1>2, <1>3, BookedIsTheSum

\* A match books its delta.
LEMMA OneMoreIsBooked ==
  ASSUME NEW ms \in Seq(MatchRows), NEW m \in MatchRows, NEW n
  PROVE  Booked(Append(ms, m), n) = Booked(ms, n) + DeltaOf(m, n)
<1>1. PICK more : more = Append(ms, m)
  OBVIOUS
<1>2. /\ more \in Seq(MatchRows) /\ Len(ms) \in Nat /\ Len(more) = Len(ms) + 1
      /\ more[Len(more)] = m
      /\ \A k \in 1 .. Len(ms) : more[k] = ms[k]
  BY <1>1
<1>3. PICK g : Sums(more, n, g)
  BY <1>2, SumsExist
<1> DEFINE f == [k \in 0 .. Len(ms) |-> g[k]]
<1>4. Sums(ms, n, f)
  <2>1. ASSUME NEW k \in 0 .. Len(ms)
        PROVE  f[k] = IF k = 0 THEN 0 ELSE f[k - 1] + DeltaOf(ms[k], n)
    <3>1. k \in Nat /\ k \in 0 .. Len(more) /\ f[k] = g[k]
      BY <1>2
    <3>2. g[k] = IF k = 0 THEN 0 ELSE g[k - 1] + DeltaOf(more[k], n)
      BY <1>3, <3>1 DEF Sums
    <3>3. k # 0 => f[k - 1] = g[k - 1] /\ more[k] = ms[k]
      BY <1>2, <3>1
    <3>. QED BY <3>1, <3>2, <3>3
  <2> DEFINE h == [k \in 0 .. Len(ms) |-> IF k = 0 THEN 0 ELSE f[k - 1] + DeltaOf(ms[k], n)]
  <2>2. \A k \in 0 .. Len(ms) : f[k] = h[k]
    BY <2>1
  <2>3. f = [k \in 0 .. Len(ms) |-> f[k]] /\ h = [k \in 0 .. Len(ms) |-> h[k]]
    OBVIOUS
  <2> HIDE DEF f, h
  <2>4. f = h
    BY <2>2, <2>3
  <2>. QED BY <2>4 DEF h, Sums
<1>5. Booked(ms, n) = g[Len(ms)]
  <2>1. Len(ms) \in 0 .. Len(ms) /\ f[Len(ms)] = g[Len(ms)]
    BY <1>2
  <2> HIDE DEF f
  <2>. QED BY <1>4, <2>1, BookedIsTheSum
<1>6. Booked(more, n) = g[Len(more)]
  BY <1>2, <1>3, BookedIsTheSum
<1>7. Len(more) \in 0 .. Len(more) /\ Len(more) # 0 /\ Len(more) - 1 = Len(ms)
  BY <1>2
<1>8. g[Len(more)] = g[Len(ms)] + DeltaOf(m, n)
  BY <1>2, <1>3, <1>7 DEF Sums
<1>. QED BY <1>1, <1>5, <1>6, <1>8

(***************************************************************************)
(* The inductive invariant.                                                 *)
(***************************************************************************)
Names == Users \cup {""}
Steps == {"none", "insert", "readWinner", "readLoser", "updateWinner", "updateLoser"}
Rows == [password : Passwords, rating : Int, wins : Nat, losses : Nat]
Calls == [call : {"none", "login", "registerAccount", "loginStrict", "recordResult"},
          step : Steps, name : Names, password : Passwords \cup {""},
          white : Names, black : Names, winner : Names,
          winnerRating : Int, loserRating : Int]

\* The tables and the calls have their types.
TablesOK ==
  /\ DOMAIN users \subseteq Users /\ users \in [DOMAIN users -> Rows]
  /\ matches \in Seq(MatchRows)
  /\ tx \in [Processes -> Calls]

\* What a call is about: a name that can have an account, two players who have one.
CallsOK ==
  \A p \in Processes :
    /\ tx[p].step = "insert" =>
         /\ tx[p].call \in {"login", "registerAccount"}
         /\ tx[p].name \in Users /\ tx[p].password \in Passwords
    /\ Recording(p) <=> tx[p].step \in Steps \ {"none", "insert"}
    /\ Recording(p) =>
         /\ p \in Servers
         /\ tx[p].white \in DOMAIN users /\ tx[p].black \in DOMAIN users
         /\ tx[p].winner \in {tx[p].white, tx[p].black}

\* A player of a match that is recorded is another than its opponent and than the players of
\* every other match that is recorded, or is listed in mixed.
OneResultEach ==
  \A p \in Servers : \A n \in Players(p) \ mixed :
    /\ tx[p].white # tx[p].black
    /\ \A q \in Servers \ {p} : n \notin Players(q)

\* The ratings read for such players are still the ones in the table.
RatingsAreFresh ==
  \A p \in Servers :
    LET t == tx[p] IN
    /\ t.step \in {"readLoser", "updateWinner", "updateLoser"} /\ t.winner \notin mixed =>
         t.winnerRating = users[t.winner].rating
    /\ t.step \in {"updateWinner", "updateLoser"} /\ Loser(t) \notin mixed =>
         t.loserRating = users[Loser(t)].rating

\* Nothing is booked for a name without an account.
OnlyUsersAreBooked == \A n \in Users \ DOMAIN users : Booked(matches, n) = 0

AccountsInv ==
  TablesOK /\ CallsOK /\ OneResultEach /\ RatingsAreFresh /\ OnlyUsersAreBooked
    /\ RatingsAreBooked

\* The code's formula: a rating rises by K times one minus the winner's expected score, rounded.
GainIsBounded == \A w, l \in Int : Gain(w, l) \in 0 .. KFactor

LEMMA GainIsInt ==
  ASSUME GainIsBounded, NEW w \in Int, NEW l \in Int
  PROVE  Gain(w, l) \in Int
<1>1. KFactor \in Nat
  BY AccountsAssumption
<1>. QED BY <1>1 DEF GainIsBounded

LEMMA IdleIsACall == Idle \in Calls
BY DEF Idle, Calls, Steps, Names

LEMMA InvInit == Init => AccountsInv
<1> SUFFICES ASSUME Init PROVE AccountsInv
  OBVIOUS
<1> USE DEF Init
<1>1. TablesOK
  <2>1. DOMAIN users = {}
    OBVIOUS
  <2>. QED BY <2>1, IdleIsACall DEF TablesOK
<1>2. \A p \in Processes : tx[p] = Idle
  OBVIOUS
<1>3. Processes = Servers \cup Apis
  BY DEF Processes
<1>4. CallsOK
  BY <1>2 DEF CallsOK, Recording, Idle, Steps
<1>5. OneResultEach
  BY <1>2, <1>3 DEF OneResultEach, Players, Recording, Idle
<1>6. RatingsAreFresh
  BY <1>2, <1>3 DEF RatingsAreFresh, Idle
<1>7. OnlyUsersAreBooked
  BY NothingBooked DEF OnlyUsersAreBooked
<1>8. RatingsAreBooked
  BY DEF RatingsAreBooked
<1>. QED BY <1>1, <1>4, <1>5, <1>6, <1>7, <1>8 DEF AccountsInv

\* A call that ends, however it ends, leaves nothing behind but what is in the tables.
LEMMA CallEnds ==
  ASSUME AccountsInv, NEW p \in Processes, Ends(p), UNCHANGED <<users, matches, mixed>>
  PROVE  AccountsInv'
<1> USE DEF Ends
<1>1. TablesOK'
  BY IdleIsACall DEF AccountsInv, TablesOK
<1>2. /\ tx'[p] = Idle
      /\ \A q \in Processes \ {p} : tx'[q] = tx[q]
  BY DEF AccountsInv, TablesOK
<1>3. Idle.step = "none" /\ Idle.call = "none"
  BY DEF Idle
<1>4. Servers \subseteq Processes
  BY DEF Processes
<1>5. CallsOK'
  BY <1>2, <1>3, <1>4 DEF AccountsInv, CallsOK, Recording, Steps
<1>6. \A q \in Servers : Players(q)' \subseteq Players(q) /\ (q = p => Players(q)' = {})
  BY <1>2, <1>3, <1>4 DEF Players, Recording
<1>7. OneResultEach'
  BY <1>2, <1>4, <1>6 DEF AccountsInv, OneResultEach
<1>8. RatingsAreFresh'
  BY <1>2, <1>3, <1>4 DEF AccountsInv, RatingsAreFresh, Loser
<1>9. OnlyUsersAreBooked' /\ RatingsAreBooked'
  BY DEF AccountsInv, OnlyUsersAreBooked, RatingsAreBooked
<1>. QED BY <1>1, <1>5, <1>7, <1>8, <1>9 DEF AccountsInv

\* A call that goes on leaves the tables and what it is about as they are.
LEMMA CallGoesOn ==
  ASSUME AccountsInv, NEW p \in Servers, NEW t \in Calls,
         Recording(p), tx' = [tx EXCEPT ![p] = t],
         t.call = tx[p].call, t.white = tx[p].white, t.black = tx[p].black,
         t.winner = tx[p].winner,
         t.step \in {"readLoser", "updateWinner", "updateLoser"},
         t.winner \notin mixed => t.winnerRating = users[t.winner].rating,
         t.step \in {"updateWinner", "updateLoser"} /\ Loser(t) \notin mixed =>
           t.loserRating = users[Loser(t)].rating,
         UNCHANGED <<users, matches, mixed>>
  PROVE  AccountsInv'
<1>1. Servers \subseteq Processes
  BY DEF Processes
<1>2. TablesOK'
  BY <1>1 DEF AccountsInv, TablesOK
<1>3. /\ tx'[p] = t
      /\ \A q \in Processes \ {p} : tx'[q] = tx[q]
  BY <1>1 DEF AccountsInv, TablesOK
<1>4. CallsOK'
  BY <1>1, <1>3 DEF AccountsInv, CallsOK, Recording, Steps
<1>5. \A q \in Servers : Players(q)' = Players(q)
  BY <1>1, <1>3 DEF Players, Recording
<1>6. OneResultEach'
  BY <1>1, <1>3, <1>5 DEF AccountsInv, OneResultEach
<1>7. RatingsAreFresh'
  BY <1>1, <1>3 DEF AccountsInv, RatingsAreFresh, Loser
<1>8. OnlyUsersAreBooked' /\ RatingsAreBooked'
  BY DEF AccountsInv, OnlyUsersAreBooked, RatingsAreBooked
<1>. QED BY <1>2, <1>4, <1>6, <1>7, <1>8 DEF AccountsInv

LEMMA LookUpStep ==
  ASSUME AccountsInv, NEW p \in Processes, NEW call \in {"login", "registerAccount", "loginStrict"},
         NEW n \in Users, NEW pw \in Passwords, LookUp(p, call, n, pw)
  PROVE  AccountsInv'
<1>1. UNCHANGED <<users, matches, mixed>>
  BY DEF LookUp
<1>2. CASE UNCHANGED tx
  BY <1>1, <1>2 DEF AccountsInv, TablesOK, CallsOK, OneResultEach, RatingsAreFresh,
     OnlyUsersAreBooked, RatingsAreBooked, Recording, Players, Loser
<1>3. CASE ~ UNCHANGED tx
  <2>1. PICK t : t = [Idle EXCEPT !.call = call, !.step = "insert", !.name = n, !.password = pw]
    OBVIOUS
  <2>2. /\ tx[p] = Idle /\ call \in {"login", "registerAccount"}
        /\ tx' = [tx EXCEPT ![p] = t]
    BY <1>3, <2>1 DEF LookUp
  <2>3. t \in Calls
    BY <2>1, IdleIsACall DEF Calls, Steps, Names
  <2>4. t.call = call /\ t.step = "insert" /\ t.name = n /\ t.password = pw
    BY <2>1 DEF Idle
  <2>5. /\ tx'[p] = t
        /\ \A q \in Processes \ {p} : tx'[q] = tx[q]
    BY <2>2 DEF AccountsInv, TablesOK
  <2>6. Servers \subseteq Processes
    BY DEF Processes
  <2>7. TablesOK'
    BY <1>1, <2>2, <2>3 DEF AccountsInv, TablesOK
  <2>8. CallsOK'
    BY <1>1, <2>2, <2>4, <2>5 DEF AccountsInv, CallsOK, Recording, Steps
  <2>9. \A q \in Servers : Players(q)' = Players(q)
    <3>1. tx[p].call # "recordResult" /\ t.call # "recordResult"
      <4>1. Idle.call = "none"
        BY DEF Idle
      <4>. QED BY <2>2, <2>4, <4>1
    <3>. QED BY <2>5, <2>6, <3>1 DEF Players, Recording
  <2>10. OneResultEach'
    <3>1. Players(p)' = {}
      BY <2>2, <2>4, <2>5 DEF Players, Recording
    <3>. QED BY <1>1, <2>5, <2>6, <2>9, <3>1 DEF AccountsInv, OneResultEach
  <2>11. RatingsAreFresh'
    BY <1>1, <2>4, <2>5, <2>6 DEF AccountsInv, RatingsAreFresh, Loser
  <2>12. OnlyUsersAreBooked' /\ RatingsAreBooked'
    BY <1>1 DEF AccountsInv, OnlyUsersAreBooked, RatingsAreBooked
  <2>. QED BY <2>7, <2>8, <2>10, <2>11, <2>12 DEF AccountsInv
<1>. QED BY <1>2, <1>3

\* A new account has the starting rating, and nothing booked.
LEMMA InsertStep ==
  ASSUME AccountsInv, NEW p \in Processes, InsertAccount(p)
  PROVE  AccountsInv'
<1>1. Ends(p) /\ UNCHANGED <<matches, mixed>>
  BY DEF InsertAccount, Dies
<1>2. CASE UNCHANGED users
  BY <1>1, <1>2, CallEnds
<1>3. CASE tx[p].name \notin DOMAIN users /\ Insert(tx[p].name, tx[p].password)
  <2>1. PICK n, pw : n = tx[p].name /\ pw = tx[p].password
    OBVIOUS
  <2>2. n \in Users /\ pw \in Passwords /\ n \notin DOMAIN users
    BY <1>3, <2>1 DEF AccountsInv, CallsOK, InsertAccount
  <2>3. users' = [m \in DOMAIN users \cup {n} |-> IF m = n THEN Account(pw) ELSE users[m]]
    BY <1>3, <2>1 DEF Insert
  <2>4. /\ DOMAIN users' = DOMAIN users \cup {n}
        /\ users'[n] = Account(pw)
        /\ \A m \in DOMAIN users : users'[m] = users[m]
    BY <2>2, <2>3
  <2>5. Account(pw) \in Rows /\ Account(pw).rating = StartingRating
    BY <2>2 DEF Account, Rows, StartingRating
  <2>6. TablesOK'
    <3>1. users' \in [DOMAIN users' -> Rows]
      BY <2>2, <2>3, <2>5 DEF AccountsInv, TablesOK
    <3>. QED BY <1>1, <2>2, <2>4, <3>1, IdleIsACall DEF AccountsInv, TablesOK, Ends
  <2>7. /\ tx'[p] = Idle
        /\ \A q \in Processes \ {p} : tx'[q] = tx[q]
    BY <1>1 DEF AccountsInv, TablesOK, Ends
  <2>8. Idle.step = "none" /\ Idle.call = "none"
    BY DEF Idle
  <2>9. Servers \subseteq Processes
    BY DEF Processes
  <2>10. CallsOK'
    BY <2>4, <2>7, <2>8, <2>9 DEF AccountsInv, CallsOK, Recording, Steps
  <2>11. \A q \in Servers : Players(q)' \subseteq Players(q) /\ (q = p => Players(q)' = {})
    BY <2>7, <2>8, <2>9 DEF Players, Recording
  <2>12. OneResultEach'
    BY <1>1, <2>7, <2>9, <2>11 DEF AccountsInv, OneResultEach
  <2>13. RatingsAreFresh'
    <3> SUFFICES ASSUME NEW q \in Servers, q # p
                 PROVE  LET t == tx[q] IN
                        /\ t.step \in {"readLoser", "updateWinner", "updateLoser"}
                             /\ t.winner \notin mixed =>
                             t.winnerRating = users'[t.winner].rating
                        /\ t.step \in {"updateWinner", "updateLoser"} /\ Loser(t) \notin mixed =>
                             t.loserRating = users'[Loser(t)].rating
      BY <1>1, <2>7, <2>8, <2>9 DEF RatingsAreFresh, Loser
    <3>1. tx[q].step \in {"readLoser", "updateWinner", "updateLoser"} =>
            tx[q].winner \in DOMAIN users /\ Loser(tx[q]) \in DOMAIN users
      BY <2>9 DEF AccountsInv, CallsOK, Steps, Loser
    <3>. QED BY <2>4, <3>1 DEF AccountsInv, RatingsAreFresh
  <2>14. OnlyUsersAreBooked'
    BY <1>1, <2>4 DEF AccountsInv, OnlyUsersAreBooked
  <2>15. RatingsAreBooked'
    <3>1. Booked(matches, n) = 0
      BY <2>2 DEF AccountsInv, OnlyUsersAreBooked
    <3>2. Account(pw).rating = StartingRating + Booked(matches, n)
      BY <2>5, <3>1 DEF StartingRating
    <3>3. \A m \in DOMAIN users \ mixed : users[m].rating = StartingRating + Booked(matches, m)
      BY DEF AccountsInv, RatingsAreBooked
    <3>4. \A m \in DOMAIN users' \ mixed : users'[m].rating = StartingRating + Booked(matches, m)
      BY <2>4, <3>2, <3>3
    <3>. QED BY <1>1, <3>4 DEF RatingsAreBooked
  <2>. QED BY <2>6, <2>10, <2>12, <2>13, <2>14, <2>15 DEF AccountsInv
<1>. QED BY <1>2, <1>3 DEF InsertAccount

\* Whoever has a result recorded already is listed in mixed as the next one begins.
LEMMA RecordStep ==
  ASSUME AccountsInv, NEW p \in Processes, NEW white \in DOMAIN users, NEW black \in DOMAIN users,
         NEW winner \in {white, black}, RecordResult(p, white, black, winner)
  PROVE  AccountsInv'
<1>1. PICK t : t = [Idle EXCEPT !.call = "recordResult", !.step = "readWinner",
                                !.white = white, !.black = black, !.winner = winner]
  OBVIOUS
<1>2. /\ tx[p] = Idle /\ p \in Servers /\ tx' = [tx EXCEPT ![p] = t]
      /\ UNCHANGED <<users, matches>>
  BY <1>1 DEF RecordResult
<1>3. /\ t.call = "recordResult" /\ t.step = "readWinner"
      /\ t.white = white /\ t.black = black /\ t.winner = winner
  BY <1>1 DEF Idle
<1>4. DOMAIN users \subseteq Users
  BY DEF AccountsInv, TablesOK
<1>5. t \in Calls
  BY <1>1, <1>4, IdleIsACall DEF Calls, Steps, Names
<1>6. /\ tx'[p] = t
      /\ \A q \in Processes \ {p} : tx'[q] = tx[q]
  BY <1>2 DEF AccountsInv, TablesOK
<1>7. Servers \subseteq Processes
  BY DEF Processes
<1>8. TablesOK'
  BY <1>2, <1>5 DEF AccountsInv, TablesOK
<1>9. CallsOK'
  BY <1>2, <1>3, <1>6 DEF AccountsInv, CallsOK, Recording, Steps
<1>10. /\ Players(p)' = {white, black}
       /\ \A q \in Servers \ {p} : Players(q)' = Players(q)
  BY <1>3, <1>6, <1>7 DEF Players, Recording
<1>11. /\ mixed \subseteq mixed'
       /\ white = black => white \in mixed'
       /\ \A q \in Servers \ {p} : {white, black} \cap Players(q) \subseteq mixed'
  BY DEF RecordResult
<1>12. OneResultEach'
  BY <1>3, <1>6, <1>7, <1>10, <1>11 DEF AccountsInv, OneResultEach
<1>13. RatingsAreFresh'
  BY <1>2, <1>3, <1>6, <1>7, <1>11 DEF AccountsInv, RatingsAreFresh, Loser
<1>14. OnlyUsersAreBooked' /\ RatingsAreBooked'
  BY <1>2, <1>11 DEF AccountsInv, OnlyUsersAreBooked, RatingsAreBooked
<1>. QED BY <1>8, <1>9, <1>12, <1>13, <1>14 DEF AccountsInv

LEMMA ReadWinnerStep ==
  ASSUME AccountsInv, NEW p \in Processes, ReadWinner(p)
  PROVE  AccountsInv'
<1>1. PICK t : t = [tx[p] EXCEPT !.step = "readLoser", !.winnerRating = users[tx[p].winner].rating]
  OBVIOUS
<1>2. /\ Recording(p) /\ p \in Servers /\ tx[p] \in Calls
      /\ tx[p].winner \in DOMAIN users
  BY DEF AccountsInv, TablesOK, CallsOK, ReadWinner, Steps
<1>3. users[tx[p].winner].rating \in Int
  BY <1>2 DEF AccountsInv, TablesOK, Rows
<1>4. tx' = [tx EXCEPT ![p] = t] /\ UNCHANGED <<users, matches, mixed>>
  BY <1>1 DEF ReadWinner, AccountsInv, TablesOK
<1>5. t \in Calls
  BY <1>1, <1>2, <1>3 DEF Calls, Steps
<1>6. /\ t.call = tx[p].call /\ t.white = tx[p].white /\ t.black = tx[p].black
      /\ t.winner = tx[p].winner /\ t.step = "readLoser"
      /\ t.winnerRating = users[t.winner].rating
  BY <1>1, <1>2 DEF Calls
<1>. QED BY <1>2, <1>4, <1>5, <1>6, CallGoesOn

LEMMA ReadLoserStep ==
  ASSUME AccountsInv, NEW p \in Processes, ReadLoser(p)
  PROVE  AccountsInv'
<1>1. PICK t : t = [tx[p] EXCEPT !.step = "updateWinner",
                                 !.loserRating = users[Loser(tx[p])].rating]
  OBVIOUS
<1>2. /\ Recording(p) /\ p \in Servers /\ tx[p] \in Calls
      /\ Loser(tx[p]) \in DOMAIN users
  BY DEF AccountsInv, TablesOK, CallsOK, ReadLoser, Steps, Loser
<1>3. users[Loser(tx[p])].rating \in Int
  BY <1>2 DEF AccountsInv, TablesOK, Rows
<1>4. tx' = [tx EXCEPT ![p] = t] /\ UNCHANGED <<users, matches, mixed>>
  BY <1>1 DEF ReadLoser, AccountsInv, TablesOK
<1>5. t \in Calls
  BY <1>1, <1>2, <1>3 DEF Calls, Steps
<1>6. /\ t.call = tx[p].call /\ t.white = tx[p].white /\ t.black = tx[p].black
      /\ t.winner = tx[p].winner /\ t.step = "updateWinner"
      /\ t.winnerRating = tx[p].winnerRating
      /\ t.loserRating = users[Loser(tx[p])].rating
  BY <1>1, <1>2 DEF Calls
<1>7. Loser(t) = Loser(tx[p])
  BY <1>6 DEF Loser
<1>8. t.winner \notin mixed => t.winnerRating = users[t.winner].rating
  BY <1>2, <1>6 DEF AccountsInv, RatingsAreFresh, ReadLoser
<1>. QED BY <1>2, <1>4, <1>5, <1>6, <1>7, <1>8, CallGoesOn

LEMMA UpdateWinnerStep ==
  ASSUME AccountsInv, NEW p \in Processes, UpdateWinner(p)
  PROVE  AccountsInv'
<1>1. PICK t : t = [tx[p] EXCEPT !.step = "updateLoser"]
  OBVIOUS
<1>2. Recording(p) /\ p \in Servers /\ tx[p] \in Calls
  BY DEF AccountsInv, TablesOK, CallsOK, UpdateWinner, Steps
<1>3. tx' = [tx EXCEPT ![p] = t] /\ UNCHANGED <<users, matches, mixed>>
  BY <1>1 DEF UpdateWinner, AccountsInv, TablesOK
<1>4. t \in Calls
  BY <1>1, <1>2 DEF Calls, Steps
<1>5. /\ t.call = tx[p].call /\ t.white = tx[p].white /\ t.black = tx[p].black
      /\ t.winner = tx[p].winner /\ t.step = "updateLoser"
      /\ t.winnerRating = tx[p].winnerRating /\ t.loserRating = tx[p].loserRating
  BY <1>1, <1>2 DEF Calls
<1>6. Loser(t) = Loser(tx[p])
  BY <1>5 DEF Loser
<1>7. /\ t.winner \notin mixed => t.winnerRating = users[t.winner].rating
      /\ Loser(t) \notin mixed => t.loserRating = users[Loser(t)].rating
  BY <1>2, <1>5, <1>6 DEF AccountsInv, RatingsAreFresh, UpdateWinner
<1>. QED BY <1>2, <1>3, <1>4, <1>5, <1>7, CallGoesOn

(***************************************************************************)
(* The commit of a result.                                                  *)
(***************************************************************************)
\* What the commit does to the rows: both counts, and the ratings the call has read.
Result(p, winner, loser, gain) ==
  /\ DOMAIN users' = DOMAIN users /\ users' \in [DOMAIN users -> Rows]
  /\ \A n \in DOMAIN users :
       /\ users'[n].password = users[n].password
       /\ users'[n].wins = users[n].wins + (IF n = winner THEN 1 ELSE 0)
       /\ users'[n].losses = users[n].losses + (IF n = loser THEN 1 ELSE 0)
       /\ users'[n].rating = IF n = loser THEN tx[p].loserRating - gain
                             ELSE IF n = winner THEN tx[p].winnerRating + gain
                             ELSE users[n].rating

LEMMA WonAndLost ==
  ASSUME NEW row \in Rows, NEW rating \in Int
  PROVE  /\ Won(row, rating) \in Rows /\ Won(row, rating).password = row.password
         /\ Won(row, rating).wins = row.wins + 1 /\ Won(row, rating).losses = row.losses
         /\ Won(row, rating).rating = rating
         /\ Lost(row, rating) \in Rows /\ Lost(row, rating).password = row.password
         /\ Lost(row, rating).wins = row.wins /\ Lost(row, rating).losses = row.losses + 1
         /\ Lost(row, rating).rating = rating
<1>1. row.wins \in Nat /\ row.losses \in Nat
  BY DEF Rows
<1>2. PICK w, l : w = row.wins + 1 /\ l = row.losses + 1
  OBVIOUS
<1>3. w \in Nat /\ l \in Nat
  BY <1>1, <1>2
<1>4. /\ Won(row, rating) = [row EXCEPT !.rating = rating, !.wins = w]
      /\ Lost(row, rating) = [row EXCEPT !.rating = rating, !.losses = l]
  <2>1. Won(row, rating) = [row EXCEPT !.rating = rating, !.wins = w]
    BY <1>2 DEF Won, Rows
  <2>2. Lost(row, rating) = [row EXCEPT !.rating = rating, !.losses = l]
    BY <1>2 DEF Lost, Rows
  <2>. QED BY <2>1, <2>2
<1>5. Won(row, rating) \in Rows
  BY <1>3, <1>4 DEF Rows
<1>6. Lost(row, rating) \in Rows
  BY <1>3, <1>4 DEF Rows
<1>7. /\ Won(row, rating).password = row.password /\ Won(row, rating).wins = w
      /\ Won(row, rating).losses = row.losses /\ Won(row, rating).rating = rating
  BY <1>4 DEF Rows
<1>8. /\ Lost(row, rating).password = row.password /\ Lost(row, rating).wins = row.wins
      /\ Lost(row, rating).losses = l /\ Lost(row, rating).rating = rating
  BY <1>4 DEF Rows
<1>. QED BY <1>2, <1>5, <1>6, <1>7, <1>8

LEMMA CommitUsers ==
  ASSUME AccountsInv, GainIsBounded, NEW p \in Processes, UpdateLoser(p)
  PROVE  LET t == tx[p]
             gain == Gain(t.winnerRating, t.loserRating)
         IN  /\ p \in Servers /\ Recording(p) /\ gain \in 0 .. KFactor /\ gain \in Int
             /\ t.white \in DOMAIN users /\ t.black \in DOMAIN users
             /\ t.winner \in {t.white, t.black} /\ Loser(t) \in {t.white, t.black}
             /\ t.winnerRating \in Int /\ t.loserRating \in Int
             /\ Result(p, t.winner, Loser(t), gain)
<1>1. PICK t : t = tx[p]
  OBVIOUS
<1>2. PICK winner, loser, gain :
        winner = t.winner /\ loser = Loser(t) /\ gain = Gain(t.winnerRating, t.loserRating)
  OBVIOUS
<1>3. /\ p \in Servers /\ Recording(p) /\ t \in Calls
      /\ t.white \in DOMAIN users /\ t.black \in DOMAIN users
      /\ winner \in {t.white, t.black} /\ loser \in {t.white, t.black}
  BY <1>1, <1>2 DEF UpdateLoser, AccountsInv, TablesOK, CallsOK, Steps, Loser
<1>4. t.winnerRating \in Int /\ t.loserRating \in Int
  BY <1>3 DEF Calls
<1>5. gain \in 0 .. KFactor /\ gain \in Int
  BY <1>2, <1>4, GainIsInt DEF GainIsBounded
<1>6. winner \in DOMAIN users /\ loser \in DOMAIN users
  BY <1>3
<1>7. PICK up, down : up = t.winnerRating + gain /\ down = t.loserRating - gain
  OBVIOUS
<1>8. up \in Int /\ down \in Int
  BY <1>4, <1>5, <1>7
<1>9. NewRatings(t).winner = up /\ NewRatings(t).loser = down
  BY <1>2, <1>7 DEF NewRatings
<1>10. PICK won : won = [users EXCEPT ![winner] = Won(@, up)]
  OBVIOUS
<1>11. users' = [won EXCEPT ![loser] = Lost(@, down)]
  BY <1>1, <1>2, <1>9, <1>10 DEF UpdateLoser
<1>12. users \in [DOMAIN users -> Rows]
  BY DEF AccountsInv, TablesOK
<1>13. /\ DOMAIN won = DOMAIN users
       /\ \A n \in DOMAIN users : won[n] = IF n = winner THEN Won(users[n], up) ELSE users[n]
  BY <1>10, <1>12
<1>14. /\ DOMAIN users' = DOMAIN users
       /\ \A n \in DOMAIN users : users'[n] = IF n = loser THEN Lost(won[n], down) ELSE won[n]
       /\ users' = [n \in DOMAIN users |-> users'[n]]
  BY <1>11, <1>13
<1>15. ASSUME NEW n \in DOMAIN users
       PROVE  /\ won[n] \in Rows /\ won[n].password = users[n].password
              /\ won[n].wins = users[n].wins + (IF n = winner THEN 1 ELSE 0)
              /\ won[n].losses = users[n].losses
              /\ won[n].rating = IF n = winner THEN up ELSE users[n].rating
  <2>1. users[n] \in Rows
    BY <1>12
  <2>2. users[n].wins \in Nat
    BY <2>1 DEF Rows
  <2>3. CASE n = winner
    <3>1. won[n] = Won(users[n], up)
      BY <1>13, <2>3
    <3>. QED BY <1>8, <2>1, <2>3, <3>1, WonAndLost
  <2>4. CASE n # winner
    BY <1>13, <2>1, <2>2, <2>4
  <2>. QED BY <2>3, <2>4
<1>16. ASSUME NEW n \in DOMAIN users
       PROVE  /\ users'[n] \in Rows /\ users'[n].password = users[n].password
              /\ users'[n].wins = users[n].wins + (IF n = winner THEN 1 ELSE 0)
              /\ users'[n].losses = users[n].losses + (IF n = loser THEN 1 ELSE 0)
              /\ users'[n].rating = IF n = loser THEN down
                                    ELSE IF n = winner THEN up ELSE users[n].rating
  <2>1. users[n].losses \in Nat
    BY <1>12 DEF Rows
  <2>2. users'[n] = IF n = loser THEN Lost(won[n], down) ELSE won[n]
    BY <1>14
  <2>3. CASE n = loser
    <3>1. users'[n] = Lost(won[n], down)
      BY <2>2, <2>3
    <3>2. PICK row \in Rows : row = won[n]
      BY <1>15
    <3>3. /\ users'[n] \in Rows /\ users'[n].password = row.password
          /\ users'[n].wins = row.wins /\ users'[n].losses = row.losses + 1
          /\ users'[n].rating = down
      <4>1. /\ Lost(row, down) \in Rows /\ Lost(row, down).password = row.password
            /\ Lost(row, down).wins = row.wins /\ Lost(row, down).losses = row.losses + 1
            /\ Lost(row, down).rating = down
        BY <1>8, WonAndLost
      <4>. QED BY <3>1, <3>2, <4>1
    <3>4. /\ row.password = users[n].password /\ row.losses = users[n].losses
          /\ row.wins = users[n].wins + (IF n = winner THEN 1 ELSE 0)
      BY <1>15, <3>2
    <3>. QED BY <2>3, <3>3, <3>4
  <2>4. CASE n # loser
    BY <1>15, <2>1, <2>2, <2>4
  <2>. QED BY <2>3, <2>4
<1>17. users' \in [DOMAIN users -> Rows]
  BY <1>14, <1>16
<1>18. Result(p, winner, loser, gain)
  BY <1>1, <1>7, <1>14, <1>16, <1>17 DEF Result
<1>. QED BY <1>1, <1>2, <1>3, <1>4, <1>5, <1>18

\* The row of the match books, for each player, what its rating changes by.
LEMMA MatchIsBooked ==
  ASSUME NEW t \in Calls, Gain(t.winnerRating, t.loserRating) \in Int,
         t.white \in Users, t.black \in Users, t.winner \in {t.white, t.black}
  PROVE  LET gain == Gain(t.winnerRating, t.loserRating) IN
         /\ Match(t) \in MatchRows
         /\ \A n : n \notin {t.white, t.black} => DeltaOf(Match(t), n) = 0
         /\ t.white # t.black => /\ DeltaOf(Match(t), t.winner) = gain
                                 /\ DeltaOf(Match(t), Loser(t)) = 0 - gain
<1>1. PICK gain \in Int : gain = Gain(t.winnerRating, t.loserRating)
  OBVIOUS
<1>2. PICK m : m = Match(t)
  OBVIOUS
<1>3. /\ m = [white |-> t.white, black |-> t.black, winner |-> t.winner,
              whiteDelta |-> IF t.winner = t.white THEN gain ELSE -gain,
              blackDelta |-> IF t.winner = t.white THEN -gain ELSE gain]
  BY <1>1, <1>2 DEF Match
<1>4. -gain \in Int /\ -gain = 0 - gain
  OBVIOUS
<1>5. m \in MatchRows
  BY <1>3, <1>4 DEF MatchRows
<1>6. /\ m.white = t.white /\ m.black = t.black
      /\ m.whiteDelta = IF t.winner = t.white THEN gain ELSE -gain
      /\ m.blackDelta = IF t.winner = t.white THEN -gain ELSE gain
  BY <1>3
<1>7. \A n : n \notin {t.white, t.black} => DeltaOf(m, n) = 0
  BY <1>6 DEF DeltaOf
<1>8. t.white # t.black => DeltaOf(m, t.winner) = gain /\ DeltaOf(m, Loser(t)) = 0 - gain
  BY <1>4, <1>6 DEF DeltaOf, Loser
<1>. QED BY <1>1, <1>2, <1>5, <1>7, <1>8

\* Whoever is not listed in mixed is written once, over the rating that was read.
LEMMA UpdateLoserStep ==
  ASSUME AccountsInv, GainIsBounded, NEW p \in Processes, UpdateLoser(p)
  PROVE  AccountsInv'
<1>1. PICK t : t = tx[p]
  OBVIOUS
<1>2. PICK winner, loser, gain :
        winner = t.winner /\ loser = Loser(t) /\ gain = Gain(t.winnerRating, t.loserRating)
  OBVIOUS
<1>3. /\ p \in Servers /\ Recording(p) /\ gain \in Int
      /\ t.white \in DOMAIN users /\ t.black \in DOMAIN users
      /\ winner \in {t.white, t.black} /\ loser \in {t.white, t.black}
      /\ t.winnerRating \in Int /\ t.loserRating \in Int
      /\ Result(p, winner, loser, gain)
  BY <1>1, <1>2, CommitUsers
<1>4. t \in Calls /\ DOMAIN users \subseteq Users
  BY <1>1 DEF AccountsInv, TablesOK
<1>5. PICK m : m = Match(t)
  OBVIOUS
<1>6. /\ m \in MatchRows
      /\ \A n : n \notin {t.white, t.black} => DeltaOf(m, n) = 0
      /\ t.white # t.black => DeltaOf(m, winner) = gain /\ DeltaOf(m, loser) = 0 - gain
  BY <1>2, <1>3, <1>4, <1>5, MatchIsBooked
<1>7. Ends(p) /\ matches' = Append(matches, m) /\ UNCHANGED mixed
  BY <1>1, <1>5 DEF UpdateLoser
<1>8. matches \in Seq(MatchRows)
  BY DEF AccountsInv, TablesOK
<1>9. \A n : /\ Booked(matches', n) = Booked(matches, n) + DeltaOf(m, n)
            /\ Booked(matches, n) \in Int /\ DeltaOf(m, n) \in Int
  BY <1>6, <1>7, <1>8, OneMoreIsBooked, BookedIsInt, DeltaIsInt
<1>10. TablesOK'
  <2>1. matches' \in Seq(MatchRows)
    BY <1>6, <1>7, <1>8
  <2>2. tx' \in [Processes -> Calls]
    BY <1>7, IdleIsACall DEF Ends, AccountsInv, TablesOK
  <2>. QED BY <1>3, <1>4, <2>1, <2>2 DEF TablesOK, Result
<1>11. /\ tx'[p] = Idle
       /\ \A q \in Processes \ {p} : tx'[q] = tx[q]
  BY <1>7 DEF AccountsInv, TablesOK, Ends
<1>12. Idle.step = "none" /\ Idle.call = "none"
  BY DEF Idle
<1>13. Servers \subseteq Processes
  BY DEF Processes
<1>14. DOMAIN users' = DOMAIN users
  BY <1>3 DEF Result
<1>15. CallsOK'
  BY <1>11, <1>12, <1>13, <1>14 DEF AccountsInv, CallsOK, Recording, Steps
<1>16. \A q \in Servers : Players(q)' \subseteq Players(q) /\ (q = p => Players(q)' = {})
  BY <1>11, <1>12, <1>13 DEF Players, Recording
<1>17. OneResultEach'
  BY <1>7, <1>11, <1>13, <1>16 DEF AccountsInv, OneResultEach
<1>18. Players(p) = {t.white, t.black}
  BY <1>1, <1>3 DEF Players
<1>19. \A n \in Players(p) \ mixed : t.white # t.black /\ \A q \in Servers \ {p} : n \notin Players(q)
  BY <1>1, <1>3 DEF AccountsInv, OneResultEach
<1>20. \A n \in DOMAIN users \ Players(p) : users'[n].rating = users[n].rating
  BY <1>3, <1>18 DEF Result
<1>21. RatingsAreFresh'
  <2> SUFFICES ASSUME NEW q \in Servers, q # p
               PROVE  LET c == tx[q] IN
                      /\ c.step \in {"readLoser", "updateWinner", "updateLoser"}
                           /\ c.winner \notin mixed =>
                           c.winnerRating = users'[c.winner].rating
                      /\ c.step \in {"updateWinner", "updateLoser"} /\ Loser(c) \notin mixed =>
                           c.loserRating = users'[Loser(c)].rating
    BY <1>7, <1>11, <1>12, <1>13 DEF RatingsAreFresh, Loser
  <2>1. tx[q].step \in {"readLoser", "updateWinner", "updateLoser"} =>
          /\ tx[q].winner \in DOMAIN users /\ Loser(tx[q]) \in DOMAIN users
          /\ tx[q].winner \in Players(q) /\ Loser(tx[q]) \in Players(q)
    BY <1>13 DEF AccountsInv, CallsOK, Steps, Loser, Players
  <2>2. \A n \in Players(q) \ mixed : n \notin Players(p)
    BY <1>19
  <2>. QED BY <1>20, <2>1, <2>2 DEF AccountsInv, RatingsAreFresh
<1>22. OnlyUsersAreBooked'
  BY <1>3, <1>6, <1>9, <1>14 DEF AccountsInv, OnlyUsersAreBooked
<1>23. RatingsAreBooked'
  <2> SUFFICES ASSUME NEW n \in DOMAIN users, n \notin mixed
               PROVE  users'[n].rating = Booked(matches', n)
    BY <1>7, <1>9, <1>14 DEF RatingsAreBooked, StartingRating
  <2>1. users[n].rating = Booked(matches, n)
    BY <1>9 DEF AccountsInv, RatingsAreBooked, StartingRating
  <2>2. CASE n \notin Players(p)
    BY <1>6, <1>9, <1>18, <1>20, <2>1, <2>2
  <2>3. CASE n \in Players(p)
    <3>1. t.white # t.black /\ winner # loser /\ n \in {winner, loser}
      BY <1>2, <1>3, <1>18, <1>19, <2>3 DEF Loser
    <3>2. t.step = "updateLoser"
      BY <1>1 DEF UpdateLoser
    <3>3. CASE n = winner
      <4>1. t.winnerRating = users[n].rating
        BY <1>1, <1>2, <1>3, <3>2, <3>3 DEF AccountsInv, RatingsAreFresh
      <4>2. users'[n].rating = t.winnerRating + gain
        BY <1>1, <1>3, <3>1, <3>3 DEF Result
      <4>. QED BY <1>6, <1>9, <2>1, <3>1, <3>3, <4>1, <4>2
    <3>4. CASE n = loser
      <4>1. t.loserRating = users[n].rating
        BY <1>1, <1>2, <1>3, <3>2, <3>4 DEF AccountsInv, RatingsAreFresh
      <4>2. users'[n].rating = t.loserRating - gain
        BY <1>1, <1>3, <3>1, <3>4 DEF Result
      <4>3. Booked(matches, n) \in Int /\ Booked(matches', n) = Booked(matches, n) + (0 - gain)
        BY <1>6, <1>9, <3>1, <3>4
      <4>. QED BY <1>3, <2>1, <4>1, <4>2, <4>3
    <3>. QED BY <3>1, <3>3, <3>4
  <2>. QED BY <2>2, <2>3
<1>. QED BY <1>10, <1>15, <1>17, <1>21, <1>22, <1>23 DEF AccountsInv

LEMMA InvStutter == AccountsInv /\ UNCHANGED vars => AccountsInv'
BY DEF AccountsInv, vars, TablesOK, CallsOK, OneResultEach, RatingsAreFresh, OnlyUsersAreBooked,
   RatingsAreBooked, Recording, Players, Loser

LEMMA InvNext ==
  ASSUME AccountsInv, GainIsBounded, Next
  PROVE  AccountsInv'
<1>1. PICK p \in Processes :
        \/ \E n \in Users, pw \in Passwords : Login(p, n, pw) \/ HandleRequest(p, n, pw)
        \/ \E white, black \in DOMAIN users : \E winner \in {white, black} :
             RecordResult(p, white, black, winner)
        \/ InsertAccount(p) \/ Read(p) \/ Update(p) \/ DeadlockDetected(p) \/ Crash(p)
  BY DEF Next
<1>2. CASE \E n \in Users, pw \in Passwords : Login(p, n, pw) \/ HandleRequest(p, n, pw)
  <2>1. PICK n \in Users, pw \in Passwords : Login(p, n, pw) \/ HandleRequest(p, n, pw)
    BY <1>2
  <2>2. \E call \in {"login", "registerAccount", "loginStrict"} : LookUp(p, call, n, pw)
    BY <2>1 DEF Login, HandleRequest, HandleRegister, HandleLogin, Register, LoginStrict
  <2>. QED BY <2>2, LookUpStep
<1>3. CASE \E white, black \in DOMAIN users : \E winner \in {white, black} :
             RecordResult(p, white, black, winner)
  BY <1>3, RecordStep
<1>4. CASE InsertAccount(p)
  BY <1>4, InsertStep
<1>5. CASE Read(p)
  BY <1>5, ReadWinnerStep, ReadLoserStep DEF Read
<1>6. CASE Update(p)
  BY <1>6, UpdateWinnerStep, UpdateLoserStep DEF Update
<1>7. CASE DeadlockDetected(p) \/ Crash(p)
  BY <1>7, CallEnds DEF DeadlockDetected, Crash, Dies
<1>. QED BY <1>1, <1>2, <1>3, <1>4, <1>5, <1>6, <1>7

\* In every reachable state the invariant holds, whatever the formula for a gain of at most K.
THEOREM AccountsInvariant == GainIsBounded /\ Spec => []AccountsInv
<1>1. Init => AccountsInv
  BY InvInit
<1>2. GainIsBounded /\ AccountsInv /\ [Next]_vars => (GainIsBounded /\ AccountsInv)'
  <2>1. GainIsBounded => GainIsBounded'
    BY DEF GainIsBounded
  <2>. QED BY <2>1, InvNext, InvStutter
<1>. QED BY <1>1, <1>2, PTL DEF Spec

\* The rating of a user who never had two results recorded at once is the start plus the deltas
\* in the table of matches, whatever other processes record, commit or lose meanwhile.
THEOREM RatingsAddUp == GainIsBounded /\ Spec => []RatingsAreBooked
<1>1. AccountsInv => RatingsAreBooked
  BY DEF AccountsInv
<1>. QED BY <1>1, AccountsInvariant, PTL

(***************************************************************************)
(* The book of accounts.                                                    *)
(***************************************************************************)
BookAccounts ==
  [n \in DOMAIN users |->
    [password |-> users[n].password, wins |-> users[n].wins, losses |-> users[n].losses]]

LEMMA BookInit == Init => Book!Init
<1> SUFFICES ASSUME Init PROVE Book!Init
  OBVIOUS
<1>1. DOMAIN users = {} /\ matches = <<>> /\ logins = {}
  BY DEF Init
<1>2. [n \in {} |-> [password |-> users[n].password, wins |-> users[n].wins,
                     losses |-> users[n].losses]]
        = [n \in {} |-> Book!NewAccount("")]
  OBVIOUS
<1>. QED BY <1>1, <1>2 DEF Book!Init

\* A call that looks a name up lets in who has it, with its password, or changes no table.
LEMMA BookLookUp ==
  ASSUME NEW p \in Processes, NEW call, NEW n \in Users, NEW pw \in Passwords,
         LookUp(p, call, n, pw)
  PROVE  [Book!Next]_(Book!vars)
<1>1. UNCHANGED <<users, matches>>
  BY DEF LookUp
<1>2. UNCHANGED logins \/ (n \in DOMAIN users /\ users[n].password = pw /\ LetIn(n, pw))
  BY DEF LookUp
<1>3. CASE UNCHANGED logins
  BY <1>1, <1>3 DEF Book!vars
<1>4. CASE n \in DOMAIN users /\ users[n].password = pw /\ LetIn(n, pw)
  <2>1. Book!Login(n, pw)
    BY <1>1, <1>4 DEF Book!Login, Book!LetIn, LetIn
  <2>. QED BY <2>1 DEF Book!Next
<1>. QED BY <1>2, <1>3, <1>4

\* The commit of an INSERT opens the account, for a name that has none at that moment.
LEMMA BookInsert ==
  ASSUME AccountsInv, NEW p \in Processes, InsertAccount(p)
  PROVE  [Book!Next]_(Book!vars)
<1>1. PICK n, pw : n = tx[p].name /\ pw = tx[p].password
  OBVIOUS
<1>2. n \in Users /\ pw \in Passwords
  BY <1>1 DEF AccountsInv, CallsOK, InsertAccount
<1>3. UNCHANGED matches
  BY DEF InsertAccount
<1>4. CASE UNCHANGED <<users, logins>>
  BY <1>3, <1>4 DEF Book!vars
<1>5. CASE n \notin DOMAIN users /\ Insert(n, pw) /\ LetIn(n, pw)
  <2>1. users' = [m \in DOMAIN users \cup {n} |-> IF m = n THEN Account(pw) ELSE users[m]]
    BY <1>5 DEF Insert
  <2>2. /\ DOMAIN users' = DOMAIN users \cup {n}
        /\ users'[n] = Account(pw) /\ \A m \in DOMAIN users : users'[m] = users[m]
    BY <1>5, <2>1
  <2>3. /\ Account(pw).password = pw /\ Account(pw).wins = 0 /\ Account(pw).losses = 0
    BY DEF Account
  <2>4. BookAccounts'
          = [m \in DOMAIN users \cup {n} |-> IF m = n THEN Book!NewAccount(pw) ELSE BookAccounts[m]]
    <3>1. \A m \in DOMAIN users \cup {n} :
            [password |-> users'[m].password, wins |-> users'[m].wins, losses |-> users'[m].losses]
              = IF m = n THEN Book!NewAccount(pw)
                ELSE [password |-> users[m].password, wins |-> users[m].wins,
                      losses |-> users[m].losses]
      BY <2>2, <2>3 DEF Book!NewAccount
    <3>. QED BY <2>2, <3>1 DEF BookAccounts
  <2>5. n \notin DOMAIN BookAccounts /\ DOMAIN BookAccounts = DOMAIN users
    BY <1>5 DEF BookAccounts
  <2>6. Book!OpenAccount(n, pw)
    BY <1>3, <1>5, <2>4, <2>5 DEF Book!OpenAccount, Book!LetIn, LetIn, BookAccounts
  <2>. QED BY <1>2, <2>6 DEF Book!Next
<1>. QED BY <1>1, <1>4, <1>5 DEF InsertAccount

\* The commit of a result records it whole.
LEMMA BookUpdateLoser ==
  ASSUME AccountsInv, GainIsBounded, NEW p \in Processes, UpdateLoser(p)
  PROVE  [Book!Next]_(Book!vars)
<1>1. PICK t : t = tx[p]
  OBVIOUS
<1>2. PICK white, black, winner, loser, gain :
        /\ white = t.white /\ black = t.black /\ winner = t.winner /\ loser = Loser(t)
        /\ gain = Gain(t.winnerRating, t.loserRating)
  OBVIOUS
<1>3. /\ gain \in 0 .. KFactor /\ white \in DOMAIN users /\ black \in DOMAIN users
      /\ winner \in {white, black} /\ loser \in {white, black}
      /\ Result(p, winner, loser, gain)
  BY <1>1, <1>2, CommitUsers
<1>4. loser = IF winner = white THEN black ELSE white
  BY <1>2 DEF Loser
<1>5. matches' = Append(matches, Match(t)) /\ UNCHANGED logins
  BY <1>1 DEF UpdateLoser
<1>6. Match(t) = Book!MatchRow(white, black, winner, gain)
  BY <1>2 DEF Match, Book!MatchRow
<1>7. DOMAIN BookAccounts = DOMAIN users
  BY DEF BookAccounts
<1>8. PICK credited : credited = [BookAccounts EXCEPT ![winner].wins = @ + 1]
  OBVIOUS
<1>9. PICK both : both = [credited EXCEPT ![loser].losses = @ + 1]
  OBVIOUS
<1>10. BookAccounts' = both
  <2>1. ASSUME NEW n \in DOMAIN users
        PROVE  both[n] = [password |-> users[n].password,
                          wins |-> users[n].wins + (IF n = winner THEN 1 ELSE 0),
                          losses |-> users[n].losses + (IF n = loser THEN 1 ELSE 0)]
    <3>1. users[n].wins \in Nat /\ users[n].losses \in Nat
      BY DEF AccountsInv, TablesOK, Rows
    <3>2. credited[n] = [password |-> users[n].password,
                         wins |-> users[n].wins + (IF n = winner THEN 1 ELSE 0),
                         losses |-> users[n].losses]
      <4>1. BookAccounts[n] = [password |-> users[n].password, wins |-> users[n].wins,
                               losses |-> users[n].losses]
        BY DEF BookAccounts
      <4>2. CASE n = winner
        <5>1. credited[n] = [BookAccounts[n] EXCEPT !.wins = @ + 1]
          BY <1>7, <1>8, <4>2
        <5>. QED BY <4>1, <4>2, <5>1
      <4>3. CASE n # winner
        BY <1>7, <1>8, <3>1, <4>1, <4>3
      <4>. QED BY <4>2, <4>3
    <3>3. DOMAIN credited = DOMAIN users
      BY <1>7, <1>8
    <3>4. CASE n = loser
      <4>1. both[n] = [credited[n] EXCEPT !.losses = @ + 1]
        BY <1>9, <3>3, <3>4
      <4>. QED BY <3>2, <3>4, <4>1
    <3>5. CASE n # loser
      BY <1>9, <3>1, <3>2, <3>3, <3>5
    <3>. QED BY <3>4, <3>5
  <2>2. /\ DOMAIN users' = DOMAIN users
        /\ \A n \in DOMAIN users :
             /\ users'[n].password = users[n].password
             /\ users'[n].wins = users[n].wins + (IF n = winner THEN 1 ELSE 0)
             /\ users'[n].losses = users[n].losses + (IF n = loser THEN 1 ELSE 0)
    BY <1>3 DEF Result
  <2>3. /\ DOMAIN BookAccounts' = DOMAIN users
        /\ \A n \in DOMAIN users : BookAccounts'[n] = both[n]
    BY <2>1, <2>2 DEF BookAccounts
  <2>4. DOMAIN both = DOMAIN users /\ both = [n \in DOMAIN users |-> both[n]]
    BY <1>7, <1>8, <1>9
  <2>5. BookAccounts' = [n \in DOMAIN users |-> BookAccounts'[n]]
    BY <2>2 DEF BookAccounts
  <2>. QED BY <2>3, <2>4, <2>5
<1>11. Book!RecordResult(white, black, winner, gain)
  BY <1>4, <1>5, <1>6, <1>8, <1>9, <1>10 DEF Book!RecordResult, BookAccounts
<1>12. Book!Next
  BY <1>3, <1>7, <1>11 DEF Book!Next, BookAccounts
<1>. QED BY <1>12

\* Each statement is one step of the book, the commits that change a table, or none.
LEMMA BookNext ==
  ASSUME AccountsInv, GainIsBounded, Next
  PROVE  [Book!Next]_(Book!vars)
<1>1. PICK p \in Processes :
        \/ \E n \in Users, pw \in Passwords : Login(p, n, pw) \/ HandleRequest(p, n, pw)
        \/ \E white, black \in DOMAIN users : \E winner \in {white, black} :
             RecordResult(p, white, black, winner)
        \/ InsertAccount(p) \/ Read(p) \/ Update(p) \/ DeadlockDetected(p) \/ Crash(p)
  BY DEF Next
<1>2. CASE \E n \in Users, pw \in Passwords : Login(p, n, pw) \/ HandleRequest(p, n, pw)
  <2>1. PICK n \in Users, pw \in Passwords : Login(p, n, pw) \/ HandleRequest(p, n, pw)
    BY <1>2
  <2>2. \E call : LookUp(p, call, n, pw)
    BY <2>1 DEF Login, HandleRequest, HandleRegister, HandleLogin, Register, LoginStrict
  <2>. QED BY <2>2, BookLookUp
<1>3. CASE InsertAccount(p)
  BY <1>3, BookInsert
<1>4. CASE UpdateLoser(p)
  BY <1>4, BookUpdateLoser
<1>5. CASE \/ \E white, black \in DOMAIN users : \E winner \in {white, black} :
                RecordResult(p, white, black, winner)
           \/ Read(p) \/ UpdateWinner(p) \/ DeadlockDetected(p) \/ Crash(p)
  <2>1. UNCHANGED <<users, matches, logins>>
    BY <1>5 DEF RecordResult, Read, ReadWinner, ReadLoser, UpdateWinner, DeadlockDetected, Crash
  <2>. QED BY <2>1 DEF Book!vars
<1>. QED BY <1>1, <1>2, <1>3, <1>4, <1>5 DEF Update

\* The processes, statement by statement, implement the book whose calls are one step each.
THEOREM CallsAreSingleSteps == GainIsBounded /\ Spec => BookIsKept
<1>1. Init => Book!Init
  BY BookInit
<1>2. GainIsBounded /\ AccountsInv /\ [Next]_vars => [Book!Next]_(Book!vars)
  BY BookNext DEF vars, Book!vars
<1>3. GainIsBounded /\ Spec => []GainIsBounded
  <2>1. GainIsBounded => GainIsBounded'
    BY DEF GainIsBounded
  <2>. QED BY <2>1, PTL DEF Spec
<1>. QED BY <1>1, <1>2, <1>3, AccountsInvariant, PTL DEF Spec, Book!Spec, BookIsKept
===============================================================================
