------------------------------- MODULE Accounts -------------------------------
(***************************************************************************)
(* Accounts and ratings: PostgresAccountRepository.cpp, used by the game    *)
(* servers (LOGIN, the result of a match) and by the REST gateway           *)
(* (ApiGateway.cpp: register, login), each a process with one repository.   *)
(*                                                                         *)
(* A repository's mutex admits one transaction of its process at a time;    *)
(* the processes share the database.  Postgres is modelled as the code      *)
(* uses it, READ COMMITTED with one action per statement: a SELECT sees     *)
(* what is committed, an UPDATE keeps the row from others until the end,    *)
(* and waits for it.  Statements that can neither wait nor be seen before   *)
(* the commit are part of the action that commits.                          *)
(*                                                                         *)
(* An exception the code does not catch terminates the process, and its     *)
(* transaction is rolled back: the process that continues is a new one.     *)
(***************************************************************************)
EXTENDS Integers, Sequences, FiniteSets, FiniteSetsExt

CONSTANTS
  Users,        \* names
  Passwords,
  Servers,      \* game servers
  Apis,         \* REST gateways
  Gain(_, _),   \* what a winner of one rating wins from a loser of another
  KFactor,
  MaxMatches,   \* bound: matches that are recorded
  MaxCrashes    \* bound: processes killed from outside

Processes == Servers \cup Apis

ASSUME AccountsAssumption ==
  /\ Servers \cap Apis = {}
  /\ KFactor \in Nat /\ MaxMatches \in Nat /\ MaxCrashes \in Nat

VARIABLES
  users,     \* the table: a row for each name that has an account
  matches,   \* the table, in the order of commits
  tx,        \* the call each process's repository is in
  logins,    \* the names and passwords with which somebody was let in
  crashes,
  mixed      \* users with two results recorded at once, or against themselves

vars == <<users, matches, tx, logins, crashes, mixed>>

StartingRating == 0     \* 1200; ratings are relative to it
Account(pw) == [password |-> pw, rating |-> StartingRating, wins |-> 0, losses |-> 0]

Idle == [call |-> "none", step |-> "none", name |-> "", password |-> "",
         white |-> "", black |-> "", winner |-> "", winnerRating |-> 0, loserRating |-> 0]

Loser(t) == IF t.winner = t.white THEN t.black ELSE t.white
Recording(p) == tx[p].call = "recordResult"
Players(p) == IF Recording(p) THEN {tx[p].white, tx[p].black} ELSE {}

Init ==
  /\ users = [n \in {} |-> Account("")] /\ matches = <<>>
  /\ tx = [p \in Processes |-> Idle]
  /\ logins = {} /\ crashes = 0 /\ mixed = {}

(***************************************************************************)
(* login, registerAccount, loginStrict                                      *)
(***************************************************************************)
LetIn(n, pw) == logins' = logins \cup {[name |-> n, password |-> pw]}
Insert(n, pw) ==
  users' = [m \in DOMAIN users \cup {n} |-> IF m = n THEN Account(pw) ELSE users[m]]

Ends(p) == tx' = [tx EXCEPT ![p] = Idle]

\* Mutant: the exception is caught and the transaction left as it is.
LeavesOpen(p) == UNCHANGED tx

\* The process is terminated; what its transaction did is undone.
Dies(p) == Ends(p)

\* The SELECT of all three: with an account the call ends here.
LookUp(p, call, n, pw) ==
  /\ tx[p] = Idle
  /\ IF n \in DOMAIN users
     THEN /\ IF call # "registerAccount" /\ users[n].password = pw THEN LetIn(n, pw) ELSE UNCHANGED logins
          /\ UNCHANGED tx
     ELSE /\ call # "loginStrict"
          /\ tx' = [tx EXCEPT ![p] = [Idle EXCEPT !.call = call, !.step = "insert",
                                                  !.name = n, !.password = pw]]
          /\ UNCHANGED logins
  /\ UNCHANGED <<users, matches, crashes, mixed>>

Login(p, n, pw) == p \in Servers /\ LookUp(p, "login", n, pw)
Register(p, n, pw) == LookUp(p, "registerAccount", n, pw)
LoginStrict(p, n, pw) == LookUp(p, "loginStrict", n, pw)

\* The REST gateway: a registration without a password is refused before the repository is
\* asked, a login is not, and a game server lets an empty password make an account.
HandleRegister(p, n, pw) == pw # "" /\ Register(p, n, pw)
HandleLogin(p, n, pw) == LoginStrict(p, n, pw)
HandleRequest(p, n, pw) == p \in Apis /\ (HandleRegister(p, n, pw) \/ HandleLogin(p, n, pw))

\* The INSERT and its commit.  registerAccount catches the violation of UNIQUE, login does not.
InsertAccount(p) ==
  LET t == tx[p] IN
  /\ t.step = "insert"
  /\ \/ t.name \notin DOMAIN users
          /\ Insert(t.name, t.password) /\ LetIn(t.name, t.password) /\ Ends(p)
     \/ t.name \in DOMAIN users /\ t.call = "registerAccount" /\ Ends(p)
          /\ UNCHANGED <<users, logins>>
     \/ t.name \in DOMAIN users /\ t.call = "login" /\ Dies(p)
          /\ UNCHANGED <<users, logins>>
  /\ UNCHANGED <<matches, crashes, mixed>>

(***************************************************************************)
(* recordResult                                                             *)
(***************************************************************************)
Underway == {p \in Servers : Recording(p)}

\* GameServer lets one user play two matches, or both sides of one.
RecordResult(p, white, black, winner) ==
  /\ tx[p] = Idle /\ p \in Servers
  /\ Len(matches) + Cardinality(Underway) < MaxMatches
  /\ tx' = [tx EXCEPT ![p] =
       [Idle EXCEPT !.call = "recordResult", !.step = "readWinner",
                    !.white = white, !.black = black, !.winner = winner]]
  /\ LET others == UNION {Players(q) : q \in Servers}
     IN  mixed' = mixed \cup (IF white = black THEN {white} ELSE {})
                        \cup ({white, black} \cap others)
  /\ UNCHANGED <<users, matches, logins, crashes>>

ReadWinner(p) ==
  /\ tx[p].step = "readWinner"
  /\ tx' = [tx EXCEPT ![p].step = "readLoser", ![p].winnerRating = users[tx[p].winner].rating]
  /\ UNCHANGED <<users, matches, logins, crashes, mixed>>

ReadLoser(p) ==
  /\ tx[p].step = "readLoser"
  /\ tx' = [tx EXCEPT ![p].step = "updateWinner", ![p].loserRating = users[Loser(tx[p])].rating]
  /\ UNCHANGED <<users, matches, logins, crashes, mixed>>

\* The row of the winner is the only one held between two statements.
Holds(q, n) == tx[q].step = "updateLoser" /\ tx[q].winner = n
Free(p, n) == \A q \in Servers \ {p} : ~Holds(q, n)

UpdateWinner(p) ==
  /\ tx[p].step = "updateWinner" /\ Free(p, tx[p].winner)
  /\ tx' = [tx EXCEPT ![p].step = "updateLoser"]
  /\ UNCHANGED <<users, matches, logins, crashes, mixed>>

NewRatings(t) ==
  LET gain == Gain(t.winnerRating, t.loserRating)
  IN  [winner |-> t.winnerRating + gain, loser |-> t.loserRating - gain]

\* wins = wins + 1, losses = losses + 1: the increments are Postgres's, the ratings the code's.
Won(row, rating) == [row EXCEPT !.rating = rating, !.wins = @ + 1]
Lost(row, rating) == [row EXCEPT !.rating = rating, !.losses = @ + 1]

Match(t) ==
  LET gain == Gain(t.winnerRating, t.loserRating)
      white == t.winner = t.white
  IN  [white |-> t.white, black |-> t.black, winner |-> t.winner,
       whiteDelta |-> IF white THEN gain ELSE -gain, blackDelta |-> IF white THEN -gain ELSE gain]

\* Mutant: the winner's change is committed, the loser's is not.
FinishHalf(p) ==
  LET t == tx[p] IN
  /\ t.step = "updateLoser" /\ Free(p, Loser(t))
  /\ users' = [users EXCEPT ![t.winner] = Won(@, NewRatings(t).winner)]
  /\ matches' = Append(matches, Match(t))
  /\ Ends(p)
  /\ UNCHANGED <<logins, crashes, mixed>>

\* Mutant: what the loser loses is computed from the loser's side.
FinishUneven(p) ==
  LET t == tx[p]
      lost == t.loserRating - Gain(t.loserRating, t.winnerRating)
      won == [users EXCEPT ![t.winner] = Won(@, NewRatings(t).winner)]
  IN
  /\ t.step = "updateLoser" /\ Free(p, Loser(t))
  /\ users' = [won EXCEPT ![Loser(t)] = Lost(@, lost)]
  /\ matches' = Append(matches, Match(t))
  /\ Ends(p)
  /\ UNCHANGED <<logins, crashes, mixed>>

\* The UPDATE of the loser, the INSERT of the match and the commit.
UpdateLoser(p) ==
  LET t == tx[p]
      won == [users EXCEPT ![t.winner] = Won(@, NewRatings(t).winner)]
  IN
  /\ t.step = "updateLoser" /\ Free(p, Loser(t))
  /\ users' = [won EXCEPT ![Loser(t)] = Lost(@, NewRatings(t).loser)]
  /\ matches' = Append(matches, Match(t))
  /\ Ends(p)
  /\ UNCHANGED <<logins, crashes, mixed>>

(***************************************************************************)
(* Waiting in a circle, and being killed.                                   *)
(***************************************************************************)
\* Who holds the row that p waits for.
Wanted(p) == IF tx[p].step = "updateLoser" THEN Loser(tx[p]) ELSE tx[p].winner
WaitsFor(p) ==
  {q \in Servers \ {p} : tx[p].step \in {"updateWinner", "updateLoser"} /\ Holds(q, Wanted(p))}

\* Each waits for one at most, so a set that waits for itself is made of circles.
InCircle(p) == \E S \in SUBSET Servers : p \in S /\ UNION {WaitsFor(q) : q \in S} = S

\* Postgres aborts one of the waiting transactions, and nobody catches that.
DeadlockDetected(p) ==
  /\ InCircle(p)
  /\ Dies(p)
  /\ UNCHANGED <<users, matches, logins, crashes, mixed>>

Crash(p) ==
  /\ tx[p] # Idle /\ crashes < MaxCrashes
  /\ crashes' = crashes + 1
  /\ Ends(p)
  /\ UNCHANGED <<users, matches, logins, mixed>>

Read(p) == ReadWinner(p) \/ ReadLoser(p)
Update(p) == UpdateWinner(p) \/ UpdateLoser(p)

Next ==
  \E p \in Processes :
    \/ \E n \in Users, pw \in Passwords : Login(p, n, pw) \/ HandleRequest(p, n, pw)
    \/ \E white, black \in DOMAIN users : \E winner \in {white, black} :
         RecordResult(p, white, black, winner)
    \/ InsertAccount(p) \/ Read(p) \/ Update(p) \/ DeadlockDetected(p) \/ Crash(p)

Spec == Init /\ [][Next]_vars

\* The servers go on, Postgres looks for deadlocks, and a row that becomes free again and
\* again goes to each who waits for it at some time.
FairSpec ==
  Spec /\ \A p \in Servers : WF_vars(Read(p)) /\ SF_vars(Update(p)) /\ WF_vars(DeadlockDetected(p))

(***************************************************************************)
(* Properties                                                               *)
(***************************************************************************)
\* Statements of several processes, races for a name, deadlocks and crashes in the middle of a
\* transaction look, from outside, like calls that are one step each: nobody is let in with
\* another's password, and a result is recorded whole, with both players' counts, or not at all.
Book == INSTANCE AccountBook WITH
  accounts <- [n \in DOMAIN users |->
    [password |-> users[n].password, wins |-> users[n].wins, losses |-> users[n].losses]]
BookIsKept == Book!Spec

DeltaOf(m, n) == IF m.white = n THEN m.whiteDelta ELSE IF m.black = n THEN m.blackDelta ELSE 0
\* What the rows ms book for n: the sum of its deltas.
Booked(ms, n) ==
  LET sum[k \in 0 .. Len(ms)] == IF k = 0 THEN 0 ELSE sum[k - 1] + DeltaOf(ms[k], n)
  IN  sum[Len(ms)]

\* A rating is the start plus the booked deltas, of every user who never had two results
\* recorded at once: what others do at the same time, an opponent's lost update included,
\* does not touch it.
RatingsAreBooked ==
  \A n \in DOMAIN users \ mixed : users[n].rating = StartingRating + Booked(matches, n)

\* A recording ends.
RecordingEnds == \A p \in Servers : Recording(p) ~> ~Recording(p)

\* What "exactly conserved" in the comment of recordResult says of the whole table.
RatingIsConserved ==
  FoldSet(LAMBDA n, sum : sum + users[n].rating, 0, DOMAIN users)
    = StartingRating * Cardinality(DOMAIN users)

=============================================================================
