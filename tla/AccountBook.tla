------------------------------ MODULE AccountBook ------------------------------
(***************************************************************************)
(* What a repository of accounts promises (IAccountRepository.hpp), and    *)
(* what SqliteAccountRepository.cpp does as one process on its own file:   *)
(* each call is one step.  A name belongs to who used it first, and a      *)
(* result is a row of matches together with what both players won and lost,*)
(* two counts that only PostgresAccountRepository.cpp keeps.               *)
(* Ratings are left out: calls that overlap may lose an update of them.    *)
(***************************************************************************)
EXTENDS Integers, Sequences

CONSTANTS Users, Passwords, KFactor

VARIABLES
  accounts,  \* the table: a row for each name that has an account
  matches,   \* the table, in order
  logins     \* the names and passwords with which somebody was let in

vars == <<accounts, matches, logins>>

NewAccount(pw) == [password |-> pw, wins |-> 0, losses |-> 0]

Init == accounts = [n \in {} |-> NewAccount("")] /\ matches = <<>> /\ logins = {}

LetIn(n, pw) == logins' = logins \cup {[name |-> n, password |-> pw]}

\* login of a name nobody has, and registerAccount.
OpenAccount(n, pw) ==
  /\ n \notin DOMAIN accounts
  /\ accounts' = [m \in DOMAIN accounts \cup {n} |-> IF m = n THEN NewAccount(pw) ELSE accounts[m]]
  /\ LetIn(n, pw)
  /\ UNCHANGED matches

\* login and loginStrict of a name somebody has: nobody is let in with another password.
Login(n, pw) ==
  /\ n \in DOMAIN accounts /\ accounts[n].password = pw
  /\ LetIn(n, pw)
  /\ UNCHANGED <<accounts, matches>>

\* The row of a match: what the winner gains the loser loses, and neither more than K.
MatchRow(white, black, winner, gain) ==
  [white |-> white, black |-> black, winner |-> winner,
   whiteDelta |-> IF winner = white THEN gain ELSE -gain,
   blackDelta |-> IF winner = white THEN -gain ELSE gain]

\* recordResult: the row and both players' counts, all in one.
RecordResult(white, black, winner, gain) ==
  LET loser == IF winner = white THEN black ELSE white
      credited == [accounts EXCEPT ![winner].wins = @ + 1]
  IN
  /\ matches' = Append(matches, MatchRow(white, black, winner, gain))
  /\ accounts' = [credited EXCEPT ![loser].losses = @ + 1]
  /\ UNCHANGED logins

Next ==
  \/ \E n \in Users, pw \in Passwords : OpenAccount(n, pw) \/ Login(n, pw)
  \/ \E white, black \in DOMAIN accounts, gain \in 0..KFactor :
       \E winner \in {white, black} : RecordResult(white, black, winner, gain)

Spec == Init /\ [][Next]_vars
=============================================================================
