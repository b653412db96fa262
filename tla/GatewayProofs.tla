----------------------------- MODULE GatewayProofs -----------------------------
(***************************************************************************)
(* Theorems about the gateway with its matchmaker, for any number of        *)
(* clients, legs, shards and restarts of the matchmaker.                    *)
(***************************************************************************)
EXTENDS Gateway, SequenceTheorems, TLAPS

-----------------------------------------------------------------------------
(* Sequences of connections *)

Once(s) == \A m, n \in DOMAIN s : s[m] = s[n] => m = n

LEMMA SubSequence ==
  ASSUME NEW s \in Seq(Conns), NEW d \in Nat, NEW k \in Nat,
         NEW m, NEW n, m = d + 1, n = d + k, n <= Len(s)
  PROVE  /\ SubSeq(s, m, n) \in Seq(Conns)
         /\ DOMAIN SubSeq(s, m, n) = 1 .. k /\ Len(SubSeq(s, m, n)) = k
         /\ \A i \in 1 .. k : SubSeq(s, m, n)[i] = s[i + d]
<1> DEFINE t == SubSeq(s, m, n)
           length == Len(t)
<1>1. Len(s) \in Nat /\ \A i \in 1 .. Len(s) : s[i] \in Conns
  BY LenProperties, ElementOfSeq
<1>2. m \in Int /\ n \in Int /\ \A i \in m .. n : s[i] \in Conns
  BY <1>1
<1>3. /\ t \in Seq(Conns)
      /\ length = IF m <= n THEN n - m + 1 ELSE 0
      /\ \A i \in 1 .. n - m + 1 : t[i] = s[m + i - 1]
  BY <1>2, SubSeqProperties
<1> HIDE DEF t, length
<1>4. length = k
  BY <1>3
<1>5. ASSUME NEW i \in 1 .. k PROVE t[i] = s[i + d]
  <2>1. i \in 1 .. n - m + 1 /\ m + i - 1 = i + d
    OBVIOUS
  <2>2. t[i] = s[m + i - 1]
    BY <1>3, <2>1
  <2> QED BY <2>1, <2>2
<1>6. DOMAIN t = 1 .. length
  BY <1>3, LenProperties DEF length
<1>7. DOMAIN t = 1 .. k
  BY <1>4, <1>6
<1> QED BY <1>3, <1>4, <1>5, <1>7 DEF t, length

LEMMA OnceRemoved ==
  ASSUME NEW s \in Seq(Conns), Once(s), NEW e
  PROVE  /\ RemoveFirst(s, e) \in Seq(Conns) /\ Once(RemoveFirst(s, e))
         /\ Range(RemoveFirst(s, e)) \subseteq Range(s) \ {e}
<1> DEFINE r == RemoveFirst(s, e)
<1>1. /\ Len(s) \in Nat /\ DOMAIN s = 1 .. Len(s)
      /\ \A n \in 1 .. Len(s) : s[n] \in Conns
  BY LenProperties, ElementOfSeq
<1>2. CASE \A n \in 1 .. Len(s) : s[n] # e
  <2>1. r = s
    BY <1>2 DEF RemoveFirst
  <2> QED BY <1>1, <1>2, <2>1 DEF Range
<1>3. ASSUME NEW n \in 1 .. Len(s), s[n] = e
      PROVE  /\ r \in Seq(Conns) /\ Once(r)
             /\ Range(r) \subseteq Range(s) \ {e}
  <2> DEFINE I == {m \in 1 .. Len(s) : s[m] = e}
             a == SubSeq(s, 1, n - 1)
             b == SubSeq(s, n + 1, Len(s))
  <2>1. I = {n}
    BY <1>1, <1>3 DEF Once
  <2>2. Min(I) = n
    BY <1>1, <2>1 DEF Min
  <2>3. r = a \o b
    BY <1>3, <2>1, <2>2 DEF RemoveFirst, RemoveAt, SelectInSeq
  <2> DEFINE k == Len(s) - n
  <2>4. k \in Nat /\ Len(s) = n + k
    BY <1>1
  <2> HIDE DEF k
  <2>5. /\ a \in Seq(Conns) /\ Len(a) = n - 1
        /\ \A m \in 1 .. n - 1 : a[m] = s[m + 0]
    <3>1. n - 1 \in Nat /\ 1 = 0 + 1 /\ n - 1 = 0 + (n - 1) /\ n - 1 <= Len(s)
      BY <1>1
    <3> QED BY <1>1, <3>1, SubSequence
  <2>6. /\ b \in Seq(Conns) /\ Len(b) = k
        /\ \A m \in 1 .. k : b[m] = s[m + n]
    <3>1. n \in Nat /\ Len(s) <= Len(s)
      BY <1>1
    <3> QED BY <1>1, <2>4, <3>1, SubSequence
  <2> HIDE DEF a, b, r
  <2>7. /\ r \in Seq(Conns) /\ Len(r) = n - 1 + k
        /\ \A m \in 1 .. n - 1 + k : r[m] = s[IF m < n THEN m ELSE m + 1]
    <3>1. /\ a \o b \in Seq(Conns) /\ Len(a \o b) = n - 1 + k
          /\ \A m \in 1 .. n - 1 + k :
               (a \o b)[m] = IF m <= n - 1 THEN a[m] ELSE b[m - (n - 1)]
      <4>1. /\ a \o b \in Seq(Conns) /\ Len(a \o b) = Len(a) + Len(b)
            /\ \A m \in 1 .. Len(a) + Len(b) :
                 (a \o b)[m] = IF m <= Len(a) THEN a[m] ELSE b[m - Len(a)]
        BY <2>5, <2>6, ConcatProperties
      <4> QED BY <2>5, <2>6, <4>1
    <3>2. ASSUME NEW m \in 1 .. n - 1 + k PROVE r[m] = s[IF m < n THEN m ELSE m + 1]
      <4>1. CASE m < n
        <5>1. m \in 1 .. n - 1 /\ m + 0 = m
          BY <1>1, <4>1
        <5> QED BY <2>3, <2>5, <3>1, <4>1, <5>1
      <4>2. CASE ~(m < n)
        <5>1. ~(m <= n - 1) /\ m - (n - 1) \in 1 .. k /\ m - (n - 1) + n = m + 1
          BY <1>1, <2>4, <4>2
        <5> QED BY <2>3, <2>6, <3>1, <4>2, <5>1
      <4> QED BY <4>1, <4>2
    <3> QED BY <2>3, <3>1, <3>2
  <2>8. DOMAIN r = 1 .. n - 1 + k /\ DOMAIN s = 1 .. n + k
    BY <1>1, <2>4, <2>7, LenProperties
  <2>9. \A m \in DOMAIN r :
          /\ m \in Nat /\ (IF m < n THEN m ELSE m + 1) \in DOMAIN s \ {n}
          /\ r[m] = s[IF m < n THEN m ELSE m + 1]
    BY <1>1, <2>4, <2>7, <2>8
  <2>10. Once(r)
    <3> SUFFICES ASSUME NEW m1 \in DOMAIN r, NEW m2 \in DOMAIN r, r[m1] = r[m2]
                 PROVE  m1 = m2
      BY DEF Once
    <3>1. (IF m1 < n THEN m1 ELSE m1 + 1) = (IF m2 < n THEN m2 ELSE m2 + 1)
      BY <2>9 DEF Once
    <3> QED BY <2>9, <3>1
  <2>11. \A m \in DOMAIN r : r[m] \in Range(s) /\ r[m] # e
    BY <1>1, <1>3, <2>9 DEF Once, Range
  <2> QED BY <2>7, <2>10, <2>11 DEF Range
<1> QED BY <1>2, <1>3

LEMMA Appended ==
  ASSUME NEW S, NEW s \in Seq(S), NEW e \in S
  PROVE  /\ Append(s, e) \in Seq(S)
         /\ Len(s) \in Nat /\ Len(Append(s, e)) = Len(s) + 1
         /\ DOMAIN s = 1 .. Len(s) /\ Len(s) + 1 \notin DOMAIN s
         /\ DOMAIN Append(s, e) = DOMAIN s \cup {Len(s) + 1}
         /\ \A n \in DOMAIN s : Append(s, e)[n] = s[n]
         /\ Append(s, e)[Len(s) + 1] = e
<1> DEFINE t == Append(s, e)
<1>1. Len(s) \in Nat /\ DOMAIN s = 1 .. Len(s)
  BY LenProperties
<1>2. /\ t \in Seq(S) /\ Len(t) = Len(s) + 1
      /\ \A n \in 1 .. Len(s) : t[n] = s[n]
      /\ t[Len(s) + 1] = e
  BY AppendProperties
<1>3. DOMAIN t = 1 .. Len(s) + 1
  BY <1>2, LenProperties
<1> HIDE DEF t
<1>4. 1 .. Len(s) + 1 = 1 .. Len(s) \cup {Len(s) + 1} /\ Len(s) + 1 \notin 1 .. Len(s)
  BY <1>1
<1> QED BY <1>1, <1>2, <1>3, <1>4 DEF t

LEMMA OnceAppended ==
  ASSUME NEW s \in Seq(Conns), Once(s), NEW e \in Conns, e \notin Range(s)
  PROVE  /\ Append(s, e) \in Seq(Conns) /\ Once(Append(s, e))
         /\ Range(Append(s, e)) = Range(s) \cup {e}
<1> DEFINE t == Append(s, e)
           l == Len(s) + 1
<1>1. /\ t \in Seq(Conns) /\ DOMAIN t = DOMAIN s \cup {l}
      /\ \A n \in DOMAIN s : t[n] = s[n]
      /\ t[l] = e
  BY Appended
<1> HIDE DEF t, l
<1>2. \A n \in DOMAIN s : s[n] # e
  BY DEF Range
<1>3. Once(t)
  BY <1>1, <1>2 DEF Once
<1>4. Range(t) = Range(s) \cup {e}
  BY <1>1 DEF Range
<1> QED BY <1>1, <1>3, <1>4 DEF t

LEMMA OnceSplit ==
  ASSUME NEW s \in Seq(Conns), Once(s), NEW n \in 1 .. Len(s)
  PROVE  LET a == SubSeq(s, 1, n)
             b == SubSeq(s, n + 1, Len(s))
         IN  /\ a \in Seq(Conns) /\ b \in Seq(Conns) /\ Once(a) /\ Once(b)
             /\ Range(a) \subseteq Range(s) /\ Range(b) \subseteq Range(s)
             /\ Range(a) \cap Range(b) = {}
<1> DEFINE a == SubSeq(s, 1, n)
           b == SubSeq(s, n + 1, Len(s))
<1>1. /\ Len(s) \in Nat /\ DOMAIN s = 1 .. Len(s)
      /\ \A m \in 1 .. Len(s) : s[m] \in Conns
  BY LenProperties, ElementOfSeq
<1> DEFINE k == Len(s) - n
<1>2. k \in Nat /\ Len(s) = n + k
  BY <1>1
<1> HIDE DEF k
<1>3. /\ a \in Seq(Conns) /\ DOMAIN a = 1 .. n
      /\ \A m \in 1 .. n : a[m] = s[m + 0]
  <2>1. n \in Nat /\ 1 = 0 + 1 /\ n = 0 + n /\ n <= Len(s)
    BY <1>1
  <2> QED BY <1>1, <2>1, SubSequence
<1>4. /\ b \in Seq(Conns) /\ DOMAIN b = 1 .. k
      /\ \A m \in 1 .. k : b[m] = s[m + n]
  <2>1. n \in Nat /\ Len(s) <= Len(s)
    BY <1>1
  <2> QED BY <1>1, <1>2, <2>1, SubSequence
<1> HIDE DEF a, b
<1>5. \A m \in DOMAIN a : m \in 1 .. n /\ m \in DOMAIN s /\ a[m] = s[m]
  <2>1. \A m \in 1 .. n : m + 0 = m /\ m \in 1 .. Len(s)
    BY <1>1, <1>2
  <2> QED BY <1>1, <1>3, <2>1
<1>6. \A m \in DOMAIN b : m \in 1 .. k /\ m + n \in DOMAIN s /\ b[m] = s[m + n]
  BY <1>1, <1>2, <1>4
<1>7. Once(a)
  BY <1>5 DEF Once
<1>8. Once(b)
  BY <1>1, <1>6 DEF Once
<1>9. ASSUME NEW m \in DOMAIN a, NEW l \in DOMAIN b PROVE a[m] # b[l]
  <2>1. m # l + n
    BY <1>1, <1>5, <1>6
  <2> QED BY <1>5, <1>6, <2>1 DEF Once
<1>10. /\ Range(a) \subseteq Range(s) /\ Range(b) \subseteq Range(s)
       /\ Range(a) \cap Range(b) = {}
  BY <1>5, <1>6, <1>9 DEF Range
<1> QED BY <1>3, <1>4, <1>7, <1>8, <1>10 DEF a, b

LEMMA FirstOf ==
  ASSUME NEW S, NEW s \in Seq(S), s # <<>>
  PROVE  1 \in DOMAIN s /\ Head(s) = s[1] /\ Head(s) \in S
<1>1. Len(s) \in Nat /\ Len(s) # 0
  BY EmptySeq
<1>2. PICK n \in Nat \ {0} : n = Len(s)
  BY <1>1
<1>3. DOMAIN s = 1 .. n
  BY <1>2
<1>4. 1 \in DOMAIN s
  BY <1>3
<1> QED BY <1>4

LEMMA OnceTail ==
  ASSUME NEW s \in Seq(Conns), Once(s), s # <<>>
  PROVE  /\ Tail(s) \in Seq(Conns) /\ Once(Tail(s))
         /\ Head(s) \in Range(s) /\ Range(Tail(s)) \subseteq Range(s) \ {Head(s)}
         /\ Tail(s) = <<>> <=> ~(Len(s) > 1)
<1> DEFINE t == Tail(s)
<1>1. Len(s) \in Nat \ {0} /\ DOMAIN s = 1 .. Len(s)
  BY LenProperties, EmptySeq
<1>2. /\ t \in Seq(Conns) /\ Len(t) = Len(s) - 1
      /\ \A n \in 1 .. Len(t) : t[n] = s[n + 1]
  BY HeadTailProperties
<1>3. DOMAIN t = 1 .. Len(s) - 1
  BY <1>2, LenProperties
<1>4. Head(s) = s[1]
  BY <1>1
<1>5. t = <<>> <=> Len(t) = 0
  BY <1>2, EmptySeq
<1> HIDE DEF t
<1>6. \A n \in DOMAIN t : n \in Nat \ {0} /\ n + 1 \in DOMAIN s /\ t[n] = s[n + 1]
  BY <1>1, <1>2, <1>3
<1>7. Once(t)
  BY <1>6 DEF Once
<1>8. \A n \in DOMAIN t : t[n] \in Range(s) /\ t[n] # s[1]
  BY <1>1, <1>6 DEF Once, Range
<1>9. Head(s) \in Range(s)
  BY <1>1, <1>4 DEF Range
<1>10. Range(t) \subseteq Range(s) \ {Head(s)}
  BY <1>4, <1>8 DEF Range
<1>11. t = <<>> <=> ~(Len(s) > 1)
  BY <1>1, <1>2, <1>5
<1> QED BY <1>2, <1>7, <1>9, <1>10, <1>11 DEF t

LEMMA EmptyOnce ==
  <<>> \in Seq(Conns) /\ Once(<<>>) /\ Range(<<>>) = {}
<1>1. <<>> \in Seq(Conns) /\ Len(<<>>) = 0
  BY EmptySeq
<1>2. DOMAIN <<>> = 1 .. 0
  BY <1>1, LenProperties
<1>3. 1 .. 0 = {}
  OBVIOUS
<1> QED BY <1>1, <1>2, <1>3 DEF Once, Range

-----------------------------------------------------------------------------
(* The matchmaker: the inductive invariant *)

MatchRecord == [shard : Shards, pair : Conns \X Conns]
AnswerMsg == [type : {"MATCHED", "NO_OPPONENT"}, key : Nat, shard : Shards]

MatchmakerTypeOK ==
  /\ queue \in Seq(Conns) /\ reaped \in Seq(Conns)
  /\ matches \in Seq(MatchRecord)
  /\ nextShard \in Shards
  /\ waits \subseteq Conns /\ live \subseteq Conns
  /\ served \subseteq Conns /\ DOMAIN idOf = Conns
  /\ answers \in [Conns -> Seq(AnswerMsg)]
  /\ restarts \in Nat
  /\ unlisted => reaped # <<>>

\* A connection is in one place: on its way, on the list, being given up, or matched.
ListedOnce ==
  /\ Once(queue) /\ Once(reaped)
  /\ Range(queue) \cap Range(reaped) = {}
  /\ Waiting \cap waits = {}
MatchedOnce ==
  /\ \A k \in DOMAIN matches : matches[k].pair[1] # matches[k].pair[2]
  /\ \A k, l \in DOMAIN matches : k # l => PairOf(k) \cap PairOf(l) = {}
  /\ \A k \in DOMAIN matches : PairOf(k) \cap (Waiting \cup waits) = {}

\* One process gives an id once.
IdsDiffer ==
  /\ live \subseteq served
  /\ \A i, j \in served : idOf[i] = idOf[j] => i = j

\* Until a restart who waits was given its id by this process, and has no answer yet.
FirstProcess ==
  restarts = 0 =>
    /\ Waiting \cup waits \subseteq served
    /\ \A i \in Conns :
         answers[i] # <<>> => Len(answers[i]) = 1 /\ i \notin Waiting \cup waits

\* A MATCHED names a match and its shard and, until a restart, goes to one of its pair.
IsTrue(i, a) ==
  a.type = "MATCHED" =>
    /\ a.key \in DOMAIN matches /\ matches[a.key].shard = a.shard
    /\ restarts = 0 => i \in PairOf(a.key)
AnswersAreTrue == \A i \in Conns : \A n \in DOMAIN answers[i] : IsTrue(i, answers[i][n])

MatchmakerInv ==
  MatchmakerTypeOK /\ ListedOnce /\ MatchedOnce /\ IdsDiffer /\ FirstProcess /\ AnswersAreTrue

\* The answers ds are as with msg for some connections that have the id of i.
Tells(ds, as, i, msg) ==
  \A j \in Conns :
    \/ ds[j] = as[j]
    \/ /\ j \in live /\ idOf[j] = idOf[i]
       /\ as[j] = <<>> => Len(ds[j]) = 1
       /\ \A n \in DOMAIN ds[j] : \/ n \in DOMAIN as[j] /\ ds[j][n] = as[j][n]
                                 \/ ds[j][n] = msg

LEMMA Delivered ==
  ASSUME NEW as \in [Conns -> Seq(AnswerMsg)], NEW i, NEW msg \in AnswerMsg
  PROVE  /\ Deliver(as, i, msg) \in [Conns -> Seq(AnswerMsg)]
         /\ Tells(Deliver(as, i, msg), as, i, msg)
<1> DEFINE ds == Deliver(as, i, msg)
<1>1. ASSUME NEW j \in Conns
      PROVE  LET t == Append(as[j], msg) IN
             /\ t \in Seq(AnswerMsg) /\ (as[j] = <<>> => Len(t) = 1)
             /\ \A n \in DOMAIN t : \/ n \in DOMAIN as[j] /\ t[n] = as[j][n]
                                    \/ t[n] = msg
  <2>1. PICK s \in Seq(AnswerMsg) : s = as[j]
    OBVIOUS
  <2>2. /\ Append(s, msg) \in Seq(AnswerMsg) /\ Len(Append(s, msg)) = Len(s) + 1
        /\ DOMAIN Append(s, msg) = DOMAIN s \cup {Len(s) + 1}
        /\ \A n \in DOMAIN s : Append(s, msg)[n] = s[n]
        /\ Append(s, msg)[Len(s) + 1] = msg
    BY Appended
  <2>3. s = <<>> => Len(Append(s, msg)) = 1
    BY EmptySeq, <2>2
  <2> QED BY <2>1, <2>2, <2>3
<1>2. \A j \in Conns :
        ds[j] = IF j \in live /\ idOf[j] = idOf[i] THEN Append(as[j], msg) ELSE as[j]
  BY DEF Deliver
<1>3. ds \in [Conns -> Seq(AnswerMsg)]
  BY <1>1 DEF Deliver
<1> HIDE DEF ds
<1>4. ASSUME NEW j \in Conns, ~(j \in live /\ idOf[j] = idOf[i]) PROVE ds[j] = as[j]
  BY <1>2, <1>4
<1>5. ASSUME NEW j \in Conns, j \in live, idOf[j] = idOf[i]
      PROVE  /\ as[j] = <<>> => Len(ds[j]) = 1
             /\ \A n \in DOMAIN ds[j] : \/ n \in DOMAIN as[j] /\ ds[j][n] = as[j][n]
                                        \/ ds[j][n] = msg
  <2>1. ds[j] = Append(as[j], msg)
    BY <1>2, <1>5
  <2> QED BY <1>1, <2>1
<1>6. Tells(ds, as, i, msg)
  BY <1>4, <1>5 DEF Tells
<1> QED BY <1>3, <1>6 DEF ds

LEMMA PairHasTwo ==
  ASSUME NEW p \in Conns \X Conns
  PROVE  Range(p) = {p[1], p[2]}
<1>1. DOMAIN p = {1, 2}
  OBVIOUS
<1> QED BY <1>1 DEF Range

LEMMA MatchAdded ==
  ASSUME MatchmakerTypeOK, NEW s \in Shards, NEW w \in Conns, NEW i \in Conns,
         matches' = Append(matches, [shard |-> s, pair |-> <<w, i>>])
  PROVE  /\ matches' \in Seq(MatchRecord)
         /\ Len(matches) \in Nat
         /\ DOMAIN matches = 1 .. Len(matches)
         /\ DOMAIN matches' = DOMAIN matches \cup {Len(matches) + 1}
         /\ Len(matches) + 1 \notin DOMAIN matches
         /\ \A k \in DOMAIN matches : matches'[k] = matches[k] /\ PairOf(k)' = PairOf(k)
         /\ matches'[Len(matches) + 1] = [shard |-> s, pair |-> <<w, i>>]
         /\ \A k : k = Len(matches) + 1 => PairOf(k)' = {w, i}
<1> DEFINE m == [shard |-> s, pair |-> <<w, i>>]
<1>1. m \in MatchRecord /\ m.pair = <<w, i>> /\ <<w, i>> \in Conns \X Conns
  BY DEF MatchRecord
<1>2. matches \in Seq(MatchRecord)
  BY DEF MatchmakerTypeOK
<1>3. /\ matches' \in Seq(MatchRecord)
      /\ Len(matches) \in Nat /\ DOMAIN matches = 1 .. Len(matches)
      /\ Len(matches) + 1 \notin DOMAIN matches
      /\ DOMAIN matches' = DOMAIN matches \cup {Len(matches) + 1}
      /\ \A k \in DOMAIN matches : matches'[k] = matches[k]
      /\ matches'[Len(matches) + 1] = m
  BY <1>1, <1>2, Appended
<1>4. \A k \in DOMAIN matches : PairOf(k)' = PairOf(k)
  BY <1>3 DEF PairOf
<1>5. Range(<<w, i>>) = {w, i}
  BY <1>1, PairHasTwo
<1>6. ASSUME NEW k, k = Len(matches) + 1 PROVE PairOf(k)' = {w, i}
  <2>1. matches'[k] = m
    BY <1>3, <1>6
  <2>2. matches'[k].pair = <<w, i>>
    BY <1>1, <2>1
  <2> QED BY <1>5, <2>2 DEF PairOf
<1> QED BY <1>3, <1>4, <1>6

-----------------------------------------------------------------------------
(* The matchmaker: its steps *)

\* A step that only takes connections out of places and loses answers.
LEMMA MatchmakerForgets ==
  ASSUME MatchmakerInv,
         queue' \in Seq(Conns), reaped' \in Seq(Conns), Once(queue'), Once(reaped'),
         Range(queue') \cap Range(reaped') = {},
         Range(queue') \cup Range(reaped') \subseteq Waiting,
         waits' \subseteq waits, live' \subseteq live,
         unlisted' => reaped' # <<>>,
         answers' \in [Conns -> Seq(AnswerMsg)],
         \A i \in Conns : answers'[i] = answers[i] \/ answers'[i] = <<>>,
         UNCHANGED <<matches, nextShard, served, idOf, restarts>>
  PROVE  MatchmakerInv'
<1>1. MatchmakerTypeOK'
  BY DEF MatchmakerInv, MatchmakerTypeOK
<1>2. ListedOnce'
  BY DEF MatchmakerInv, ListedOnce, Waiting
<1>3. MatchedOnce'
  BY DEF MatchmakerInv, MatchedOnce, Waiting, PairOf
<1>4. IdsDiffer'
  BY DEF MatchmakerInv, IdsDiffer
<1>5. DOMAIN <<>> = {}
  <2>1. DOMAIN <<>> = 1 .. 0
    BY EmptySeq, EmptyOnce, LenProperties
  <2> QED BY <2>1
<1>6. FirstProcess'
  BY <1>5 DEF MatchmakerInv, FirstProcess, Waiting
<1>7. AnswersAreTrue'
  BY <1>5 DEF MatchmakerInv, AnswersAreTrue, IsTrue, PairOf
<1> QED BY <1>1, <1>2, <1>3, <1>4, <1>6, <1>7 DEF MatchmakerInv

LEMMA Closed ==
  ASSUME MatchmakerInv, NEW ids, Close(ids),
         UNCHANGED <<queue, matches, members, nextShard, reaped, unlisted, waits, restarts, idVars>>
  PROVE  MatchmakerInv'
<1> USE DEF MatchmakerInv, MatchmakerTypeOK, ListedOnce
<1>1. <<>> \in Seq(AnswerMsg)
  BY EmptySeq
<1>2. answers' = [i \in Conns |-> IF i \in ids THEN <<>> ELSE answers[i]]
  BY DEF Close
<1>3. /\ answers' \in [Conns -> Seq(AnswerMsg)]
      /\ \A i \in Conns : answers'[i] = answers[i] \/ answers'[i] = <<>>
  BY <1>1, <1>2
<1>4. live' \subseteq live
  BY DEF Close
<1>5. /\ UNCHANGED <<queue, reaped, waits, unlisted>>
      /\ UNCHANGED <<matches, nextShard, served, idOf, restarts>>
  BY DEF idVars
<1> QED BY <1>3, <1>4, <1>5, MatchmakerForgets DEF Waiting

LEMMA HandleDisconnectKeeps ==
  ASSUME MatchmakerInv, NEW i \in Conns, HandleDisconnect(i)
  PROVE  MatchmakerInv'
<1> USE DEF MatchmakerInv, MatchmakerTypeOK, ListedOnce
<1>1. /\ queue' \in Seq(Conns) /\ Once(queue') /\ Range(queue') \subseteq Range(queue)
  BY OnceRemoved DEF HandleDisconnect
<1>2. /\ UNCHANGED <<reaped, unlisted, live, answers>>
      /\ UNCHANGED <<matches, nextShard, served, idOf, restarts>>
      /\ waits' \subseteq waits
  BY DEF HandleDisconnect, idVars
<1> QED BY <1>1, <1>2, MatchmakerForgets DEF Waiting

LEMMA ReapKeeps ==
  ASSUME MatchmakerInv, NEW n \in 1 .. Len(queue), Reap(n)
  PROVE  MatchmakerInv'
<1> USE DEF MatchmakerInv, MatchmakerTypeOK, ListedOnce
<1>1. /\ queue' \in Seq(Conns) /\ reaped' \in Seq(Conns) /\ Once(queue') /\ Once(reaped')
      /\ Range(queue') \cap Range(reaped') = {}
      /\ Range(queue') \subseteq Range(queue) /\ Range(reaped') \subseteq Range(queue)
  BY OnceSplit DEF Reap
<1>2. /\ UNCHANGED <<waits, live, answers>>
      /\ UNCHANGED <<matches, nextShard, served, idOf, restarts>>
      /\ ~unlisted /\ ~unlisted'
  BY DEF Reap, idVars
<1> QED BY <1>1, <1>2, MatchmakerForgets DEF Waiting

LEMMA UnlistKeeps ==
  ASSUME MatchmakerInv, Unlist
  PROVE  MatchmakerInv'
<1> USE DEF MatchmakerInv, MatchmakerTypeOK, ListedOnce
<1>1. /\ UNCHANGED <<queue, reaped, waits, live, answers>>
      /\ UNCHANGED <<matches, nextShard, served, idOf, restarts>>
      /\ reaped' # <<>>
  BY DEF Unlist, idVars
<1> QED BY <1>1, MatchmakerForgets DEF Waiting

LEMMA RestartKeeps ==
  ASSUME MatchmakerInv, Restart
  PROVE  MatchmakerInv'
<1> USE DEF MatchmakerInv
<1>1. /\ <<>> \in Seq(AnswerMsg) /\ DOMAIN <<>> = {}
      /\ <<>> \in Seq(Conns) /\ Once(<<>>) /\ Range(<<>>) = {}
  <2>1. DOMAIN <<>> = 1 .. 0
    BY EmptySeq, EmptyOnce, LenProperties
  <2> QED BY <2>1, EmptySeq, EmptyOnce
<1>2. restarts' \in Nat /\ restarts' # 0
  BY DEF Restart, MatchmakerTypeOK
<1>3. 0 \in Shards
  BY MatchmakerAssumption DEF Shards
<1>4. MatchmakerTypeOK'
  BY <1>1, <1>2, <1>3 DEF Restart, MatchmakerTypeOK
<1>5. ListedOnce'
  BY <1>1 DEF Restart, ListedOnce, Waiting
<1>6. MatchedOnce'
  BY <1>1 DEF Restart, MatchedOnce, Waiting, PairOf
<1>7. IdsDiffer' /\ FirstProcess'
  BY <1>2 DEF Restart, IdsDiffer, FirstProcess
<1>8. AnswersAreTrue'
  BY <1>1 DEF Restart, AnswersAreTrue
<1> QED BY <1>4, <1>5, <1>6, <1>7, <1>8

\* What the delivery of an answer does: each connection with the id of i is told, and
\* nobody but i has it among those that this process serves.
LEMMA AnswerReaches ==
  ASSUME IdsDiffer, NEW as \in [Conns -> Seq(AnswerMsg)], NEW i, NEW msg \in AnswerMsg,
         NEW j \in Conns, i \in served, j # i
  PROVE  Deliver(as, i, msg)[j] = as[j]
<1>1. ~(j \in live /\ idOf[j] = idOf[i])
  BY DEF IdsDiffer
<1> QED BY <1>1 DEF Deliver

LEMMA NotifyExpiredKeeps ==
  ASSUME MatchmakerInv, NotifyExpired
  PROVE  MatchmakerInv'
<1> USE DEF MatchmakerInv
<1> DEFINE h == Head(reaped)
           as == Deliver(answers, h, NoOpponent)
<1>1. /\ reaped # <<>> /\ reaped \in Seq(Conns) /\ Once(reaped)
      /\ answers \in [Conns -> Seq(AnswerMsg)]
  BY DEF NotifyExpired, MatchmakerTypeOK, ListedOnce
<1>2. /\ Tail(reaped) \in Seq(Conns) /\ Once(Tail(reaped))
      /\ h \in Range(reaped) /\ Range(Tail(reaped)) \subseteq Range(reaped) \ {h}
      /\ Tail(reaped) = <<>> <=> ~(Len(reaped) > 1)
  BY <1>1, OnceTail
<1> HIDE DEF h
<1>3. NoOpponent \in AnswerMsg /\ NoOpponent.type # "MATCHED"
  <2>1. 0 \in Shards
    BY MatchmakerAssumption DEF Shards
  <2> QED BY <2>1 DEF NoOpponent, AnswerMsg
<1>4. /\ as \in [Conns -> Seq(AnswerMsg)]
      /\ Tells(as, answers, h, NoOpponent)
  BY <1>1, <1>3, Delivered
<1>5. h \in served => \A j \in Conns : j # h => as[j] = answers[j]
  BY <1>1, <1>3, AnswerReaches
<1> HIDE DEF as
<1>6. /\ answers' = as /\ reaped' = Tail(reaped) /\ (unlisted' <=> Len(reaped) > 1)
      /\ UNCHANGED <<queue, waits, live, matches, nextShard, served, idOf, restarts>>
  BY DEF NotifyExpired, idVars, as, h
<1>7. Waiting' \subseteq Waiting \ {h} /\ h \in Waiting
  BY <1>2, <1>6 DEF Waiting, ListedOnce
<1>8. MatchmakerTypeOK'
  BY <1>2, <1>4, <1>6 DEF MatchmakerTypeOK
<1>9. ListedOnce'
  <2>1. Once(queue)' /\ Once(reaped)'
    BY <1>2, <1>6 DEF ListedOnce
  <2>2. Range(queue') \cap Range(reaped') = {}
    BY <1>2, <1>6 DEF ListedOnce
  <2>3. Waiting' \cap waits' = {}
    BY <1>6, <1>7 DEF ListedOnce
  <2> QED BY <2>1, <2>2, <2>3 DEF ListedOnce
<1>10. MatchedOnce'
  <2>1. \A k : PairOf(k)' = PairOf(k)
    BY <1>6 DEF PairOf
  <2> QED BY <1>6, <1>7, <2>1 DEF MatchedOnce
<1>11. IdsDiffer'
  BY <1>6 DEF IdsDiffer
<1>12. FirstProcess'
  <2> SUFFICES ASSUME restarts = 0 PROVE
        /\ Waiting' \cup waits' \subseteq served'
        /\ \A i \in Conns : answers'[i] # <<>> => Len(answers'[i]) = 1 /\ i \notin Waiting' \cup waits'
    BY <1>6 DEF FirstProcess
  <2>1. h \in served /\ h \in Conns
    BY <1>7 DEF FirstProcess, MatchmakerTypeOK
  <2>2. h \notin Waiting' \cup waits'
    BY <1>6, <1>7 DEF ListedOnce
  <2>3. answers[h] = <<>>
    BY <1>7, <2>1 DEF FirstProcess
  <2>4. as[h] # <<>> => Len(as[h]) = 1
    BY <1>4, <2>1, <2>3 DEF Tells
  <2>5. ASSUME NEW i \in Conns, i # h
        PROVE  as[i] # <<>> => Len(as[i]) = 1 /\ i \notin Waiting' \cup waits'
    BY <1>5, <1>6, <1>7, <2>1, <2>5 DEF FirstProcess
  <2> QED BY <1>6, <1>7, <2>2, <2>4, <2>5 DEF FirstProcess
<1>13. AnswersAreTrue'
  <2> SUFFICES ASSUME NEW j \in Conns, NEW n \in DOMAIN answers'[j]
               PROVE  IsTrue(j, answers[j][n])'
    BY DEF AnswersAreTrue
  <2>1. CASE n \in DOMAIN answers[j] /\ answers'[j][n] = answers[j][n]
    BY <1>6, <2>1 DEF AnswersAreTrue, IsTrue, PairOf
  <2>2. CASE answers'[j][n] = NoOpponent
    BY <1>3, <2>2 DEF IsTrue
  <2>3. \/ n \in DOMAIN answers[j] /\ answers'[j][n] = answers[j][n]
        \/ answers'[j][n] = NoOpponent
    BY <1>4, <1>6 DEF Tells
  <2> QED BY <2>1, <2>2, <2>3
<1> QED BY <1>8, <1>9, <1>10, <1>11, <1>12, <1>13

LEMMA EnlistKeeps ==
  ASSUME MatchmakerInv, NEW i \in Conns, i \in waits, waits' = waits \ {i}, Enlist(i),
         UNCHANGED <<reaped, unlisted, live, closed, restarts, idVars>>
  PROVE  MatchmakerInv'
<1> USE DEF MatchmakerInv
<1>1. /\ UNCHANGED <<reaped, unlisted, live, restarts, served, idOf>>
      /\ UNCHANGED <<matches, nextShard, answers>>
      /\ queue' = Append(queue, i)
  BY DEF Enlist, idVars
<1>2. i \notin Waiting /\ queue \in Seq(Conns) /\ Once(queue)
  BY DEF ListedOnce, MatchmakerTypeOK
<1>3. /\ queue' \in Seq(Conns) /\ Once(queue')
      /\ Range(queue') = Range(queue) \cup {i}
  BY <1>1, <1>2, OnceAppended DEF Waiting
<1>4. Waiting' = Waiting \cup {i}
  BY <1>1, <1>3 DEF Waiting
<1>5. MatchmakerTypeOK'
  BY <1>1, <1>3 DEF MatchmakerTypeOK
<1>6. ListedOnce'
  <2>1. Range(queue') \cap Range(reaped') = {}
    BY <1>1, <1>2, <1>3 DEF ListedOnce, Waiting
  <2>2. Waiting' \cap waits' = {}
    BY <1>4 DEF ListedOnce
  <2>3. Once(queue') /\ Once(reaped')
    BY <1>1, <1>3 DEF ListedOnce
  <2> QED BY <2>1, <2>2, <2>3 DEF ListedOnce
<1>7. MatchedOnce'
  <2>1. \A k : PairOf(k)' = PairOf(k)
    BY <1>1 DEF PairOf
  <2> QED BY <1>1, <1>4, <2>1 DEF MatchedOnce
<1>8. IdsDiffer' /\ FirstProcess'
  BY <1>1, <1>4 DEF IdsDiffer, FirstProcess
<1>9. AnswersAreTrue'
  BY <1>1 DEF AnswersAreTrue, IsTrue, PairOf
<1> QED BY <1>5, <1>6, <1>7, <1>8, <1>9

LEMMA PairKeeps ==
  ASSUME MatchmakerInv, NEW i \in Conns, i \in waits, waits' = waits \ {i},
         NEW w \in Range(queue), Pair(w, i),
         UNCHANGED <<reaped, unlisted, live, closed, restarts, idVars>>
  PROVE  MatchmakerInv'
<1> USE DEF MatchmakerInv
<1> DEFINE k == Len(matches) + 1
           msg == Matched(k, nextShard)
           bs == Deliver(answers, w, msg)
           as == Deliver(bs, i, msg)
<1>1. /\ w \in Conns /\ i # w /\ w \notin Range(reaped) /\ w \notin waits
      /\ i \notin Waiting /\ w \in Waiting
      /\ queue \in Seq(Conns) /\ Once(queue) /\ nextShard \in Shards
      /\ answers \in [Conns -> Seq(AnswerMsg)]
  <2>1. Range(queue) \subseteq Conns
    BY RangeOfSeq DEF MatchmakerTypeOK
  <2> QED BY <2>1 DEF ListedOnce, Waiting, MatchmakerTypeOK
<1>2. /\ UNCHANGED <<reaped, unlisted, live, restarts, served, idOf>>
      /\ queue' = RemoveFirst(queue, w)
      /\ matches' = Append(matches, [shard |-> nextShard, pair |-> <<w, i>>])
      /\ nextShard' = (nextShard + 1) % ShardCount
      /\ answers' = as
  BY DEF Pair, idVars
<1>3. /\ queue' \in Seq(Conns) /\ Once(queue')
      /\ Range(queue') \subseteq Range(queue) \ {w}
  BY <1>1, <1>2, OnceRemoved
<1>4. /\ matches' \in Seq(MatchRecord) /\ Len(matches) \in Nat
      /\ DOMAIN matches' = DOMAIN matches \cup {k} /\ k \notin DOMAIN matches
      /\ \A l \in DOMAIN matches : matches'[l] = matches[l] /\ PairOf(l)' = PairOf(l)
      /\ matches'[k] = [shard |-> nextShard, pair |-> <<w, i>>]
      /\ \A l : l = k => PairOf(l)' = {w, i}
  BY <1>1, <1>2, MatchAdded
<1>5. msg \in AnswerMsg /\ msg.key = k /\ msg.shard = nextShard
  <2>1. k \in Nat
    BY <1>4
  <2> QED BY <1>1, <2>1 DEF Matched, AnswerMsg
<1> HIDE DEF k, msg
<1>6. /\ bs \in [Conns -> Seq(AnswerMsg)]
      /\ Tells(bs, answers, w, msg)
  BY <1>1, <1>5, Delivered
<1>7. w \in served => \A j \in Conns : j # w => bs[j] = answers[j]
  <2>1. answers \in [Conns -> Seq(AnswerMsg)] /\ msg \in AnswerMsg
    BY <1>1, <1>5
  <2> QED BY <2>1, AnswerReaches
<1> HIDE DEF bs
<1>8. /\ as \in [Conns -> Seq(AnswerMsg)]
      /\ Tells(as, bs, i, msg)
  BY <1>5, <1>6, Delivered
<1>9. i \in served => \A j \in Conns : j # i => as[j] = bs[j]
  BY <1>5, <1>6, AnswerReaches
<1> HIDE DEF as
<1>10. Waiting' \subseteq Waiting \ {w}
  BY <1>1, <1>2, <1>3 DEF Waiting
<1>11. MatchmakerTypeOK'
  <2>1. nextShard' \in Shards
    BY <1>1, <1>2, MatchmakerAssumption DEF Shards
  <2>2. /\ UNCHANGED <<reaped, unlisted, live, restarts, served, idOf>>
        /\ waits' \subseteq waits /\ answers' \in [Conns -> Seq(AnswerMsg)]
    BY <1>2, <1>8
  <2> QED BY <1>3, <1>4, <2>1, <2>2 DEF MatchmakerTypeOK
<1>12. ListedOnce'
  <2>1. Range(queue') \cap Range(reaped') = {}
    BY <1>2, <1>3 DEF ListedOnce
  <2>2. Waiting' \cap waits' = {}
    BY <1>10 DEF ListedOnce
  <2>3. Once(queue') /\ Once(reaped')
    BY <1>2, <1>3 DEF ListedOnce
  <2> QED BY <2>1, <2>2, <2>3 DEF ListedOnce
<1>13. MatchedOnce'
  <2>1. \A l \in DOMAIN matches : w \notin PairOf(l) /\ i \notin PairOf(l)
    BY <1>1 DEF MatchedOnce
  <2>2. \A l \in DOMAIN matches' : matches'[l].pair[1] # matches'[l].pair[2]
    BY <1>1, <1>4 DEF MatchedOnce
  <2>3. \A l, m \in DOMAIN matches' : l # m => PairOf(l)' \cap PairOf(m)' = {}
    BY <1>4, <2>1 DEF MatchedOnce
  <2>4. \A l \in DOMAIN matches' : PairOf(l)' \cap (Waiting' \cup waits') = {}
    BY <1>1, <1>4, <1>10 DEF MatchedOnce
  <2> QED BY <2>2, <2>3, <2>4 DEF MatchedOnce
<1>14. IdsDiffer'
  BY <1>2 DEF IdsDiffer
<1>15. FirstProcess'
  <2> SUFFICES ASSUME restarts = 0 PROVE
        /\ Waiting' \cup waits' \subseteq served'
        /\ \A j \in Conns : answers'[j] # <<>> => Len(answers'[j]) = 1 /\ j \notin Waiting' \cup waits'
    BY <1>2 DEF FirstProcess
  <2>1. w \in served /\ i \in served
    BY <1>1 DEF FirstProcess
  <2>2. answers[w] = <<>> /\ answers[i] = <<>>
    BY <1>1 DEF FirstProcess
  <2>3. as[i] # <<>> => Len(as[i]) = 1
    <3>1. bs[i] = <<>>
      BY <1>1, <1>7, <2>1, <2>2
    <3> QED BY <1>8, <3>1 DEF Tells
  <2>4. as[w] # <<>> => Len(as[w]) = 1
    <3>1. bs[w] = <<>> \/ Len(bs[w]) = 1
      BY <1>1, <1>6, <2>2 DEF Tells
    <3>2. as[w] = bs[w]
      BY <1>1, <1>9, <2>1
    <3> QED BY <3>1, <3>2
  <2>5. i \notin Waiting' \cup waits' /\ w \notin Waiting' \cup waits'
    BY <1>1, <1>10
  <2>6. ASSUME NEW j \in Conns, j # i, j # w
        PROVE  as[j] # <<>> => Len(as[j]) = 1 /\ j \notin Waiting' \cup waits'
    BY <1>7, <1>9, <1>10, <2>1, <2>6 DEF FirstProcess
  <2> QED BY <1>2, <1>10, <2>3, <2>4, <2>5, <2>6 DEF FirstProcess
<1>16. AnswersAreTrue'
  <2> SUFFICES ASSUME NEW j \in Conns, NEW n \in DOMAIN answers'[j]
               PROVE  IsTrue(j, answers[j][n])'
    BY DEF AnswersAreTrue
  <2>1. CASE n \in DOMAIN answers[j] /\ answers'[j][n] = answers[j][n]
    <3>1. IsTrue(j, answers[j][n])
      BY <2>1 DEF AnswersAreTrue
    <3> QED BY <1>2, <1>4, <2>1, <3>1 DEF IsTrue
  <2>2. CASE answers'[j][n] = msg /\ (restarts = 0 => j \in {w, i})
    <3>1. /\ answers'[j][n].key = k /\ answers'[j][n].shard = nextShard
          /\ restarts' = restarts
      BY <1>2, <1>5, <2>2
    <3>2. k \in DOMAIN matches' /\ matches'[k].shard = nextShard
      BY <1>4
    <3>3. restarts = 0 => \A l : l = answers'[j][n].key => j \in PairOf(l)'
      BY <1>4, <2>2, <3>1
    <3> QED BY <3>1, <3>2, <3>3 DEF IsTrue
  <2>3. CASE j \notin {w, i} /\ restarts = 0
    <3>1. w \in served /\ i \in served
      BY <1>1, <2>3 DEF FirstProcess
    <3>2. answers'[j] = answers[j]
      BY <1>2, <1>7, <1>9, <2>3, <3>1
    <3> QED BY <2>1, <3>2
  <2>4. \/ n \in DOMAIN answers[j] /\ answers'[j][n] = answers[j][n]
        \/ answers'[j][n] = msg
    BY <1>2, <1>6, <1>8 DEF Tells
  <2> QED BY <2>1, <2>2, <2>3, <2>4
<1> QED BY <1>11, <1>12, <1>13, <1>14, <1>15, <1>16

\* A leg opens and, unless it is a new one after a loss, sends its WAIT.
LEMMA OpenKeeps ==
  ASSUME MatchmakerInv, NEW i \in Conns, Open(i),
         i \notin Waiting, answers[i] = <<>>, \A k \in DOMAIN matches : i \notin PairOf(k),
         SendWait(i) \/ UNCHANGED waits,
         UNCHANGED <<queue, matches, members, nextShard, reaped, unlisted, closed, answers, restarts>>
  PROVE  MatchmakerInv'
<1> USE DEF MatchmakerInv
<1>1. /\ waits' \subseteq waits \cup {i}
      /\ live' = live \cup {i} /\ served' = served \cup {i}
      /\ UNCHANGED <<queue, matches, nextShard, reaped, unlisted, answers, restarts>>
  BY DEF Open, SendWait
<1>2. PICK id : (\A j \in served : idOf[j] # id) /\ idOf' = [idOf EXCEPT ![i] = id]
  BY DEF Open
<1>3. MatchmakerTypeOK'
  BY <1>1, <1>2 DEF MatchmakerTypeOK
<1>4. ListedOnce' /\ MatchedOnce'
  BY <1>1 DEF ListedOnce, MatchedOnce, Waiting, PairOf
<1>5. IdsDiffer'
  <2> SUFFICES ASSUME NEW j \in served', NEW l \in served', idOf'[j] = idOf'[l]
               PROVE  j = l
    BY <1>1 DEF IdsDiffer
  <2>1. DOMAIN idOf = Conns /\ served \subseteq Conns
    BY DEF MatchmakerTypeOK
  <2>2. /\ idOf'[i] = id
        /\ \A m \in served : m # i => idOf'[m] = idOf[m]
    BY <1>2, <2>1
  <2> QED BY <1>1, <1>2, <2>2 DEF IdsDiffer
<1>6. FirstProcess'
  BY <1>1 DEF FirstProcess, Waiting
<1>7. AnswersAreTrue'
  BY <1>1 DEF AnswersAreTrue, IsTrue, PairOf
<1> QED BY <1>3, <1>4, <1>5, <1>6, <1>7

LEMMA MatchmakerKeeps ==
  ASSUME MatchmakerInv, MatchmakerNext
  PROVE  MatchmakerInv'
<1>1. ASSUME NEW i \in Conns, OnWaitRequest(i) PROVE MatchmakerInv'
  <2>1. /\ i \in waits /\ waits' = waits \ {i}
        /\ UNCHANGED <<reaped, unlisted, live, closed, restarts, idVars>>
    BY <1>1 DEF OnWaitRequest
  <2>2. CASE FirstInRange(i) = {}
    BY <1>1, <2>1, <2>2, EnlistKeeps DEF OnWaitRequest
  <2>3. CASE FirstInRange(i) # {}
    <3>1. PICK n \in FirstInRange(i) : Pair(queue[n], i)
      BY <1>1, <2>3 DEF OnWaitRequest
    <3>2. queue[n] \in Range(queue)
      BY DEF FirstInRange, Range
    <3> QED BY <2>1, <3>1, <3>2, PairKeeps
  <2> QED BY <2>2, <2>3
<1>2. ASSUME NEW i \in Conns, HandleDisconnect(i) PROVE MatchmakerInv'
  BY <1>2, HandleDisconnectKeeps
<1>3. ASSUME NEW n \in 1 .. Len(queue), Reap(n) PROVE MatchmakerInv'
  BY <1>3, ReapKeeps
<1> QED BY <1>1, <1>2, <1>3, UnlistKeeps, NotifyExpiredKeeps, RestartKeeps DEF MatchmakerNext

-----------------------------------------------------------------------------
(* The gateway: the inductive invariant *)

ConnFields == {"phase", "held", "shard", "leg", "open", "pending", "joinAfter", "action",
               "target", "inside", "timer", "failing", "mm", "mmLeg", "mmPending"}

GatewayTypeOK ==
  /\ DOMAIN conn = Clients /\ DOMAIN wish = Clients /\ DOMAIN again = Clients
  /\ DOMAIN failed = Clients /\ DOMAIN heard = Clients
  /\ DOMAIN toShard = Clients /\ DOMAIN fromShard = Clients
  /\ DOMAIN session = Clients /\ DOMAIN seat = Clients /\ lobby \subseteq Clients
  /\ DOMAIN registry = RoomNames
  /\ \A key \in RoomNames : registry[key] \in Shards \cup {NoShard}

Keys ==
  [kind : {"create", "quick", "room", "code", "name", "match"}, shard : Nat, n : Nat]
JoinMsg == [type : {"JOIN"}, key : Keys]

(* What goes on between the leg of c and its shard. *)
LegIdle(c) ==
  toShard[c] = <<>> /\ fromShard[c] = <<>> /\ ~session[c] /\ seat[c] = NoSeat /\ c \notin lobby
LoginRuns(c) ==
  /\ seat[c] = NoSeat /\ c \notin lobby
  /\ \/ toShard[c] = <<Login>> /\ fromShard[c] = <<>> /\ ~session[c]
     \/ toShard[c] = <<>> /\ fromShard[c] = <<LoginOk>> /\ session[c]
     \/ toShard[c] = <<>> /\ fromShard[c] = <<LoginFail>> /\ ~session[c]
JoinsRun(c) ==
  /\ toShard[c] \in Seq(JoinMsg) /\ fromShard[c] = <<>> /\ session[c] /\ seat[c] = NoSeat
  /\ c \notin lobby
LoggedIn(c) ==
  /\ toShard[c] = <<>> /\ fromShard[c] = <<>> /\ session[c] /\ seat[c] = NoSeat
  /\ c \notin lobby
InLobby(c) ==
  /\ toShard[c] = <<>> /\ fromShard[c] = <<>> /\ session[c] /\ seat[c] = NoSeat
  /\ c \in lobby
Reaped(c) ==
  /\ toShard[c] = <<>> /\ fromShard[c] = <<SearchFailed>> /\ session[c] /\ seat[c] = NoSeat
  /\ c \notin lobby
Seated(c) ==
  /\ toShard[c] \in Seq(JoinMsg) /\ session[c] /\ c \notin lobby
  /\ seat[c] = Seat(conn[c].shard, seat[c].key)
SeatNews(c) == Seated(c) /\ fromShard[c] = <<RoomReply(seat[c].key)>>
SeatKnown(c) == Seated(c) /\ fromShard[c] = <<>>

\* Client c was matched to this room of shard s.
Meets(c, s, key) ==
  /\ key.n \in DOMAIN matches /\ matches[key.n].shard = s
  /\ restarts = 0 => \E i \in PairOf(key.n) : i[1] = c

\* The room of shard s that wish w of c leads to, and what is done with the shard's answer;
\* and the key of the JOIN on the way there.
RoomFor(c, w, action, s, room) ==
  \/ w.kind = "code" /\ w.shard = s /\ room = Room(w.n) /\ action = "AddShardPrefix"
  \/ w \in RoomNames /\ room = w /\ action = "RegisterFreeform"
  \/ w = Create /\ room.kind = "room" /\ room = Room(room.n) /\ action = "AddShardPrefix"
  \/ w = Quick /\ room = MatchRoom(room.n) /\ action = "Suppress" /\ Meets(c, s, room)
JoinFor(c, w, action, s, key) ==
  \/ w = Create /\ key = Create /\ action = "AddShardPrefix"
  \/ w # Create /\ RoomFor(c, w, action, s, key)

\* m is the JOIN that takes c where it asked to go first, and c has heard no answer.
Asked(c, s, m) ==
  /\ m \in JoinMsg /\ m.key # Quick
  /\ conn[c].held => JoinFor(c, wish[c], conn[c].action, s, m.key) /\ heard[c] = <<LoginOk>>

\* Nothing but the map of connections refers to c's.
Alone(k) == k.held /\ k.target = NoShard /\ k.inside = "no" /\ ~k.timer /\ k.failing = {}

\* The client was disconnected by a failed redirect while its connection is still in use.
Cut(c) == conn[c].leg = "none" /\ ~conn[c].held /\ LegIdle(c)

(* Where c can be in each phase. *)
AtNew(c) == conn[c] = NewConn /\ LegIdle(c)
AtGone(c) ==
  /\ conn[c] = [NewConn EXCEPT !.phase = "Gone"]
  /\ ~crashed => LegIdle(c)
  /\ toShard[c] # <<>> /\ Head(toShard[c]).type = "JOIN" => session[c]

BeforeSearch(c) ==
  /\ Alone(conn[c]) /\ conn[c].mmLeg = "none" /\ conn[c].mm = 0 /\ conn[c].joinAfter = NoMsg
  /\ wish[c] = NoKey
AtAwaitingLogin(c) ==
  /\ BeforeSearch(c)
  /\ conn[c].leg # "none" /\ conn[c].pending = <<>> /\ LegIdle(c) /\ heard[c] = <<>>
AtFirstLogin(c) ==
  /\ BeforeSearch(c)
  /\ \/ conn[c].leg = "connecting" /\ conn[c].pending = <<Login>> /\ LegIdle(c) /\ heard[c] = <<>>
     \/ conn[c].leg = "open" /\ conn[c].pending = <<>> /\ LoginRuns(c) /\ heard[c] = <<>>
     \/ conn[c].leg = "open" /\ conn[c].pending = <<>> /\ LoggedIn(c) /\ heard[c] = <<LoginOk>>
     \/ conn[c].leg = "open" /\ conn[c].pending = <<>> /\ LegIdle(c) /\ heard[c] = <<LoginFail>>

\* Between the two critical sections of a redirect.
AtLeaving(c) ==
  /\ Asked(c, conn[c].target, conn[c].joinAfter)
  /\ conn[c].target \in Shards /\ conn[c].leg = "open" /\ LoggedIn(c) /\ conn[c].pending = <<>>
  /\ conn[c].inside = "no" /\ ~conn[c].timer /\ conn[c].failing = {}
  /\ conn[c].mmLeg \in {"none", "open"}
Redirected(c) ==
  /\ Asked(c, conn[c].shard, conn[c].joinAfter)
  /\ conn[c].target = NoShard /\ conn[c].mmLeg = "none" /\ conn[c].pending = <<>>
AtConnecting(c) ==
  /\ Redirected(c) /\ "callback" \notin conn[c].failing
  /\ \/ conn[c].leg = "connecting" /\ conn[c].inside = "no" /\ LegIdle(c)
     \/ conn[c].leg = "open" /\ conn[c].inside = "open" /\ LegIdle(c)
     \/ Cut(c)
AtRelogin(c) ==
  /\ Redirected(c) /\ conn[c].inside = "no"
  /\ \/ conn[c].leg = "open" /\ LoginRuns(c) /\ "callback" \notin conn[c].failing
     \/ conn[c].leg = "open" /\ LegIdle(c) /\ (conn[c].held => "callback" \in conn[c].failing)
     \/ Cut(c)

\* The matchmaker searches for c; or it did so in vain, and c has been told.
InVain == <<LoginOk, SearchFailed>>
AtSearch(c) ==
  /\ conn[c].leg = "open" /\ conn[c].pending = <<>> /\ LoggedIn(c) /\ conn[c].joinAfter = NoMsg
  /\ conn[c].mm \in 1 .. MaxLegs
  /\ conn[c].target = NoShard /\ conn[c].inside = "no" /\ ~conn[c].timer /\ conn[c].failing = {}
  /\ \/ /\ conn[c].mmLeg \in {"connecting", "open"} /\ conn[c].held
        /\ wish[c] = Quick /\ heard[c] = <<LoginOk>>
     \/ conn[c].mmLeg = "told" /\ (conn[c].held => wish[c] = Quick /\ heard[c] = InVain)

Joined(c) ==
  /\ conn[c].joinAfter = NoMsg /\ conn[c].target = NoShard /\ conn[c].mmLeg = "none"
  /\ conn[c].pending = <<>> /\ conn[c].inside # "open" /\ "callback" \notin conn[c].failing
Came(c) == conn[c].held => RoomFor(c, wish[c], conn[c].action, conn[c].shard, seat[c].key)
AtRoom(c) ==
  /\ Joined(c)
  /\ \/ /\ conn[c].leg = "open" /\ conn[c].inside = "no"
        /\ toShard[c] # <<>> /\ JoinsRun(c)
        /\ Asked(c, conn[c].shard, Head(toShard[c]))
     \/ conn[c].leg = "open" /\ SeatNews(c) /\ Came(c) /\ (conn[c].held => heard[c] = <<LoginOk>>)
     \/ Cut(c)

\* What c was told of its room: nothing if it was matched, else the number or name.
Told(c) ==
  \/ conn[c].action = "Suppress" /\ heard[c] = <<LoginOk>>
  \/ conn[c].action = "RegisterFreeform" /\ heard[c] = <<LoginOk, RoomReply(wish[c])>>
  \/ /\ conn[c].action = "AddShardPrefix"
     /\ heard[c] = <<LoginOk, RoomReply(Code(conn[c].shard, seat[c].key.n))>>

(* After a search in vain the shard handles c's later JOINs by itself. *)
\* c searches again and has heard nothing since.
Unanswered(c) == ~failed[c] /\ LastWish(c) = Quick
Vain(h) ==
  /\ h \in Seq({LoginOk, SearchFailed}) /\ Len(h) >= 2 /\ h[1] = LoginOk
  /\ \A n \in 2 .. Len(h) : h[n] = SearchFailed
\* At most so many answers may come yet.
Owed(c, n) == Vain(heard[c]) /\ Len(heard[c]) + n <= 2 + Len(again[c])
NamedRoom(c) == \E m \in DOMAIN again[c] : again[c][m] # Quick
\* The JOINs on their way.
Asks(c) ==
  \A n \in 1 .. Len(toShard[c]) :
    /\ \E m \in DOMAIN again[c] : toShard[c][n] = Join(again[c][m])
    /\ toShard[c][n].key = Quick => n = Len(toShard[c]) /\ Unanswered(c)
\* What c has heard in the end.
HeardLate(c) ==
  /\ 2 <= Len(heard[c]) /\ Len(heard[c]) <= 2 + Len(again[c])
  /\ heard[c][1] = LoginOk /\ heard[c][2] = SearchFailed
  /\ \A n \in 2 .. Len(heard[c]) :
       \/ heard[c][n] = SearchFailed
       \/ heard[c][n].type = "ROOM" /\ n = Len(heard[c]) /\ NamedRoom(c)

Afresh(c) ==
  \/ Alone(conn[c]) /\ JoinsRun(c) /\ Asks(c) /\ Owed(c, Len(toShard[c]))
  \/ Alone(conn[c]) /\ InLobby(c) /\ Unanswered(c) /\ again[c] # <<>> /\ Owed(c, 1)
  \/ Alone(conn[c]) /\ Reaped(c) /\ Unanswered(c) /\ Owed(c, 1)
  \/ SeatNews(c) /\ (conn[c].held => NamedRoom(c) /\ Owed(c, 1))
  \/ SeatKnown(c) /\ (conn[c].held => again[c] # <<>> /\ HeardLate(c))

AtResolved(c) ==
  /\ Joined(c)
  /\ \/ conn[c].leg = "open" /\ SeatKnown(c) /\ Came(c) /\ (conn[c].held => Told(c))
     \/ conn[c].leg = "open" /\ Afresh(c) /\ (conn[c].held => wish[c] = Quick)
     \/ Cut(c)

Forgotten(c) == wish[c] = NoKey /\ again[c] = <<>> /\ ~failed[c] /\ heard[c] = <<>>

ConnOK(c) ==
  /\ DOMAIN conn[c] = ConnFields
  /\ conn[c].shard \in Shards /\ conn[c].mm \in Nat
  /\ conn[c].leg \in {"none", "connecting", "open"}
  /\ conn[c].leg # "none" => (conn[c].open <=> conn[c].leg = "open")
  /\ wish[c] \in Wishes \cup {NoKey} /\ again[c] \in Seq(Wishes)
  /\ ~conn[c].held => Forgotten(c)
  /\ wish[c] = NoKey => again[c] = <<>> /\ ~failed[c]
  /\ wish[c] = Quick /\ heard[c] = <<LoginOk>> => again[c] = <<>> /\ ~failed[c]

Flow(c) ==
  /\ ConnOK(c)
  /\ \/ conn[c].phase = "New" /\ AtNew(c)
     \/ conn[c].phase = "Gone" /\ AtGone(c)
     \/ conn[c].phase = "AwaitingLogin" /\ AtAwaitingLogin(c)
     \/ conn[c].phase = "AwaitingJoin" /\ AtFirstLogin(c)
     \/ conn[c].phase = "AwaitingJoin" /\ AtLeaving(c)
     \/ conn[c].phase = "AwaitingJoin" /\ AtConnecting(c)
     \/ conn[c].phase = "RedirectAwaitingLoginReply" /\ AtRelogin(c)
     \/ conn[c].phase = "AwaitingRoomReply" /\ AtRoom(c)
     \/ conn[c].phase = "Resolved" /\ AtResolved(c)
     \/ conn[c].phase = "AwaitingMatchmaker" /\ AtSearch(c)

\* The legs to the matchmaker that c has yet to open.
Untouched(i) ==
  /\ i \notin live \cup waits \cup Waiting /\ answers[i] = <<>>
  /\ \A k \in DOMAIN matches : i \notin PairOf(k)
ToCome(c) ==
  {n \in 1 .. MaxLegs : n > conn[c].mm \/ (n = conn[c].mm /\ conn[c].mmLeg = "connecting")}
LegsToCome ==
  \A c \in Clients : conn[c].phase # "Gone" => \A n \in ToCome(c) : Untouched(<<c, n>>)

GatewayInv ==
  GatewayTypeOK /\ MatchmakerInv /\ LegsToCome /\ \A c \in Clients : Flow(c)

-----------------------------------------------------------------------------
(* The gateway: lemmas *)

LEMMA Queues ==
  ASSUME NEW x, NEW y
  PROVE  /\ Append(<<>>, x) = <<x>> /\ <<>> \o <<x>> = <<x>> /\ <<>> \o <<>> = <<>>
         /\ Append(<<x>>, y) = <<x, y>>
         /\ <<x>> # <<>> /\ Head(<<x>>) = x /\ Tail(<<x>>) = <<>>
<1>1. Append(<<>>, x) = <<x>> /\ <<>> \o <<>> = <<>>
  OBVIOUS
<1>2. <<>> \o <<x>> = <<x>>
  <2>1. <<x>> \in Seq({x})
    OBVIOUS
  <2> QED BY <2>1, ConcatEmptySeq
<1>3. Append(<<x>>, y) = <<x, y>>
  <2> DEFINE S == {x, y}
             t == Append(<<x>>, y)
             u == <<x, y>>
  <2>1. <<x>> \in Seq(S) /\ y \in S /\ u \in Seq(S) /\ Len(<<x>>) = 1 /\ <<x>>[1] = x
    OBVIOUS
  <2>2. /\ t \in Seq(S) /\ Len(t) = Len(<<x>>) + 1
        /\ \A i \in 1 .. Len(<<x>>) : t[i] = <<x>>[i]
        /\ t[Len(<<x>>) + 1] = y
    BY <2>1, AppendProperties
  <2>3. Len(t) = 2 /\ t[1] = x /\ t[2] = y
    BY <2>1, <2>2
  <2>4. Len(u) = 2 /\ u[1] = x /\ u[2] = y
    OBVIOUS
  <2> HIDE DEF t, u, S
  <2>5. Len(t) = Len(u) /\ \A i \in 1 .. Len(t) : t[i] = u[i]
    BY <2>3, <2>4
  <2>6. t = u
    BY <2>1, <2>2, <2>5, SeqEqual
  <2> QED BY <2>6 DEF t, u
<1>4. <<x>> # <<>> /\ Head(<<x>>) = x /\ Tail(<<x>>) = <<>>
  OBVIOUS
<1> QED BY <1>1, <1>2, <1>3, <1>4

LEMMA ThirdMessage ==
  ASSUME NEW x, NEW y, NEW z
  PROVE  Append(<<x, y>>, z) = <<x, y, z>>
<1> DEFINE S == {x, y, z}
           s == <<x, y>>
           t == Append(s, z)
           u == <<x, y, z>>
<1>1. s \in Seq(S) /\ z \in S /\ u \in Seq(S) /\ Len(s) = 2 /\ s[1] = x /\ s[2] = y
  OBVIOUS
<1>2. /\ t \in Seq(S) /\ Len(t) = Len(s) + 1
      /\ \A i \in 1 .. Len(s) : t[i] = s[i]
      /\ t[Len(s) + 1] = z
  BY <1>1, AppendProperties
<1>3. Len(t) = 3 /\ t[1] = x /\ t[2] = y /\ t[3] = z
  BY <1>1, <1>2
<1>4. Len(u) = 3 /\ u[1] = x /\ u[2] = y /\ u[3] = z
  OBVIOUS
<1> HIDE DEF t, u, s, S
<1>5. Len(t) = Len(u) /\ \A i \in 1 .. Len(t) : t[i] = u[i]
  BY <1>3, <1>4
<1>6. t = u
  BY <1>1, <1>2, <1>5, SeqEqual
<1> QED BY <1>6 DEF s, t, u

LEMMA Messages ==
  /\ Login.type = "LOGIN" /\ LoginOk.type = "LOGIN_OK" /\ LoginFail.type = "LOGIN_FAIL"
  /\ LoginOk # LoginFail /\ SearchFailed # LoginOk /\ SearchFailed # LoginFail
  /\ SearchFailed.type = "NO_OPPONENT" /\ NoMsg.type = "none"
  /\ LoginOk.key = NoKey /\ SearchFailed.key = NoKey /\ LoginFail.key = NoKey
  /\ \A key : /\ Join(key).type = "JOIN" /\ Join(key).key = key /\ Join(key) # NoMsg
              /\ Join(key) # Login
              /\ RoomReply(key).type = "ROOM" /\ RoomReply(key).key = key
              /\ RoomReply(key) # SearchFailed
              /\ RoomReply(key) # LoginOk /\ RoomReply(key) # LoginFail
BY DEF Msg, Login, LoginOk, LoginFail, SearchFailed, NoMsg, Join, RoomReply, NoKey, Key

LEMMA RoomKeys ==
  /\ NoKey.kind = "none" /\ Create.kind = "create" /\ Quick.kind = "quick"
  /\ NoKey # Create /\ NoKey # Quick /\ Create # Quick
  /\ NoSeat.key = NoKey /\ NoSeat.shard = NoShard
  /\ \A n : /\ Room(n).kind = "room" /\ Room(n).n = n
            /\ Named(n).kind = "name" /\ Named(n).n = n
            /\ MatchRoom(n).kind = "match" /\ MatchRoom(n).n = n
  /\ \A s, n : Code(s, n).kind = "code" /\ Code(s, n).shard = s /\ Code(s, n).n = n
  /\ \A s, key : Seat(s, key).shard = s /\ Seat(s, key).key = key
  /\ \A s, key : s \in Shards => Seat(s, key) # NoSeat
  /\ NoKey \notin Wishes /\ NoShard \notin Shards
  /\ \A w \in Codes : w.kind = "code" /\ w.shard \in Shards /\ w.n \in Nat
  /\ \A w \in RoomNames : w.kind \in {"room", "name", "match"} /\ w # Create /\ w # Quick
  /\ Wishes \subseteq Keys
  /\ \A n \in Nat : Room(n) \in Keys /\ MatchRoom(n) \in Keys
<1>1. NoShard \notin Shards
  BY MatchmakerAssumption DEF NoShard, Shards
<1> USE DEF NoKey, Create, Quick, Room, Code, Named, MatchRoom, Key, NoSeat, Seat
<1>2. /\ \A w \in Codes : w.kind = "code" /\ w.shard \in Shards /\ w.n \in Nat
      /\ \A w \in RoomNames : w.kind \in {"room", "name", "match"} /\ w # Create /\ w # Quick
  BY GatewayAssumption
<1>3. NoKey \notin Wishes
  BY <1>2 DEF Wishes
<1>5. Wishes \subseteq Keys /\ \A n \in Nat : Room(n) \in Keys /\ MatchRoom(n) \in Keys
  <2>1. Shards \subseteq Nat
    BY MatchmakerAssumption DEF Shards
  <2>2. Codes \subseteq Keys
    BY <2>1, GatewayAssumption DEF Keys
  <2>3. RoomNames \subseteq Keys
    BY GatewayAssumption DEF Keys
  <2>4. Create \in Keys /\ Quick \in Keys
    BY DEF Keys
  <2>5. \A n \in Nat : Room(n) \in Keys /\ MatchRoom(n) \in Keys
    BY DEF Keys
  <2> QED BY <2>2, <2>3, <2>4, <2>5 DEF Wishes
<1>4. \A s, key : s \in Shards => Seat(s, key) # NoSeat
  <2> SUFFICES ASSUME NEW s \in Shards, NEW key PROVE Seat(s, key).shard # NoSeat.shard
    OBVIOUS
  <2> QED BY <1>1
<1> QED BY <1>1, <1>2, <1>3, <1>4, <1>5

LEMMA NewFields ==
  /\ DOMAIN NewConn = ConnFields /\ DOMAIN [NewConn EXCEPT !.phase = "Gone"] = ConnFields
  /\ LET k == [NewConn EXCEPT !.phase = "Gone"]
     IN  /\ k.phase = "Gone" /\ ~k.held /\ k.shard = 0 /\ k.mm = 0 /\ k.leg = "none"
         /\ k.mmLeg = "none" /\ k.target = NoShard
  /\ NewConn.phase = "New" /\ ~NewConn.held /\ NewConn.shard = 0 /\ NewConn.mm = 0
  /\ NewConn.leg = "none"
BY DEF NewConn, ConnFields

\* The client has neither asked nor heard anything new.
SaidSame(c) ==
  wish'[c] = wish[c] /\ again'[c] = again[c] /\ failed'[c] = failed[c] /\ heard'[c] = heard[c]
\* And nothing new goes on on its leg.
LegSame(c) ==
  /\ toShard'[c] = toShard[c] /\ fromShard'[c] = fromShard[c]
  /\ session'[c] = session[c] /\ seat'[c] = seat[c] /\ (c \in lobby' <=> c \in lobby)

\* What stays true of a client when a step is about another.
Unchanged(d) == conn'[d] = conn[d] /\ LegSame(d) /\ SaidSame(d)
MatchesKept ==
  /\ \A k \in DOMAIN matches : k \in DOMAIN matches' /\ matches'[k] = matches[k]
  /\ restarts' = 0 => restarts = 0

LEMMA MeetsKept ==
  ASSUME MatchesKept
  PROVE  /\ \A c, s, key : Meets(c, s, key) => Meets(c, s, key)'
         /\ \A c, w, a, s, key : RoomFor(c, w, a, s, key) => RoomFor(c, w, a, s, key)'
         /\ \A c, w, a, s, key : JoinFor(c, w, a, s, key) => JoinFor(c, w, a, s, key)'
<1>1. \A c, s, key : Meets(c, s, key) => Meets(c, s, key)'
  BY DEF MatchesKept, Meets, PairOf
<1>2. \A c, w, a, s, key : RoomFor(c, w, a, s, key) => RoomFor(c, w, a, s, key)'
  BY <1>1 DEF RoomFor
<1>3. \A c, w, a, s, key : JoinFor(c, w, a, s, key) => JoinFor(c, w, a, s, key)'
  BY <1>2 DEF JoinFor
<1> QED BY <1>1, <1>2, <1>3

LEMMA AskedKept ==
  ASSUME MatchesKept, NEW c,
         conn'[c].held => /\ conn[c].held /\ conn'[c].action = conn[c].action
                          /\ wish'[c] = wish[c] /\ heard'[c] = heard[c]
  PROVE  \A s, m : Asked(c, s, m) => Asked(c, s, m)'
BY MeetsKept DEF Asked

LEMMA LegKept ==
  ASSUME NEW c, LegSame(c)
  PROVE  /\ LegIdle(c) => LegIdle(c)'
         /\ LoginRuns(c) => LoginRuns(c)'
         /\ LoggedIn(c) => LoggedIn(c)'
         /\ JoinsRun(c) => JoinsRun(c)'
         /\ InLobby(c) => InLobby(c)'
         /\ Reaped(c) => Reaped(c)'
         /\ conn'[c].shard = conn[c].shard =>
              (SeatNews(c) => SeatNews(c)') /\ (SeatKnown(c) => SeatKnown(c)')
<1> USE DEF LegSame
<1>1. /\ LegIdle(c) => LegIdle(c)'
      /\ LoginRuns(c) => LoginRuns(c)'
      /\ LoggedIn(c) => LoggedIn(c)'
  BY DEF LegIdle, LoginRuns, LoggedIn
<1>2. /\ JoinsRun(c) => JoinsRun(c)'
      /\ InLobby(c) => InLobby(c)'
      /\ Reaped(c) => Reaped(c)'
  BY DEF JoinsRun, InLobby, Reaped
<1>3. ASSUME conn'[c].shard = conn[c].shard
      PROVE  (SeatNews(c) => SeatNews(c)') /\ (SeatKnown(c) => SeatKnown(c)')
  BY <1>3 DEF SeatNews, SeatKnown, Seated
<1> QED BY <1>1, <1>2, <1>3

\* What c has asked and heard after a search in vain, and the messages on its leg.
LEMMA SaidKept ==
  ASSUME NEW c, SaidSame(c), toShard'[c] = toShard[c]
  PROVE  /\ Unanswered(c) => Unanswered(c)'
         /\ Asks(c) => Asks(c)'
         /\ \A n : Owed(c, n) => Owed(c, n)'
         /\ Owed(c, Len(toShard[c])) => Owed(c, Len(toShard[c]))'
         /\ NamedRoom(c) => NamedRoom(c)'
         /\ HeardLate(c) => HeardLate(c)'
<1> USE DEF SaidSame
<1>1. Unanswered(c) => Unanswered(c)'
  BY DEF Unanswered, LastWish
<1>2. Asks(c) => Asks(c)'
  BY <1>1 DEF Asks
<1>3. /\ \A n : Owed(c, n) => Owed(c, n)'
      /\ Owed(c, Len(toShard[c])) => Owed(c, Len(toShard[c]))'
  BY DEF Owed, Vain
<1>4. NamedRoom(c) => NamedRoom(c)'
  BY DEF NamedRoom
<1>5. HeardLate(c) => HeardLate(c)'
  BY <1>4 DEF HeardLate
<1> QED BY <1>1, <1>2, <1>3, <1>4, <1>5

LEMMA FlowOfOthers ==
  ASSUME crashed => crashed', NEW d, Flow(d), Unchanged(d), MatchesKept
  PROVE  Flow(d)'
<1>0. conn'[d] = conn[d] /\ LegSame(d) /\ SaidSame(d)
  BY DEF Unchanged
<1>1. ConnOK(d)'
  BY <1>0 DEF Flow, ConnOK, Forgotten, SaidSame
<1>2. \A s, m : Asked(d, s, m) => Asked(d, s, m)'
  BY <1>0, AskedKept DEF SaidSame
<1>3. BeforeSearch(d) => BeforeSearch(d)'
  BY <1>0 DEF BeforeSearch, SaidSame
<1>4. /\ AtNew(d) => AtNew(d)'
      /\ AtGone(d) => AtGone(d)'
      /\ AtAwaitingLogin(d) => AtAwaitingLogin(d)'
      /\ AtFirstLogin(d) => AtFirstLogin(d)'
  <2>1. AtNew(d) => AtNew(d)'
    BY <1>0, LegKept DEF AtNew
  <2>2. AtGone(d) => AtGone(d)'
    BY <1>0, LegKept DEF AtGone, LegSame
  <2>3. AtAwaitingLogin(d) => AtAwaitingLogin(d)'
    BY <1>0, <1>3, LegKept DEF AtAwaitingLogin, SaidSame
  <2>4. AtFirstLogin(d) => AtFirstLogin(d)'
    BY <1>0, <1>3, LegKept DEF AtFirstLogin, SaidSame
  <2> QED BY <2>1, <2>2, <2>3, <2>4
<1>5. Redirected(d) => Redirected(d)'
  BY <1>0, <1>2 DEF Redirected
<1>6. Cut(d) => Cut(d)'
  BY <1>0, LegKept DEF Cut
<1>7. /\ AtLeaving(d) => AtLeaving(d)'
      /\ AtConnecting(d) => AtConnecting(d)'
      /\ AtRelogin(d) => AtRelogin(d)'
      /\ AtSearch(d) => AtSearch(d)'
  <2>1. AtLeaving(d) => AtLeaving(d)'
    BY <1>0, <1>2, LegKept DEF AtLeaving
  <2>2. AtConnecting(d) => AtConnecting(d)'
    BY <1>0, <1>5, <1>6, LegKept DEF AtConnecting
  <2>3. AtRelogin(d) => AtRelogin(d)'
    BY <1>0, <1>5, <1>6, LegKept DEF AtRelogin
  <2>4. AtSearch(d) => AtSearch(d)'
    BY <1>0, LegKept DEF AtSearch, SaidSame
  <2> QED BY <2>1, <2>2, <2>3, <2>4
<1>8. /\ Joined(d) => Joined(d)'
      /\ Came(d) => Came(d)'
      /\ Told(d) => Told(d)'
  <2>1. (Joined(d) => Joined(d)') /\ (Told(d) => Told(d)')
    BY <1>0 DEF Joined, Told, SaidSame, LegSame
  <2>2. Came(d) => Came(d)'
    BY <1>0, MeetsKept DEF Came, SaidSame, LegSame
  <2> QED BY <2>1, <2>2
<1>9. AtRoom(d) => AtRoom(d)'
  <2>1. CASE Cut(d)
    BY <1>6, <1>8, <2>1 DEF AtRoom
  <2>2. CASE ~Cut(d)
    BY <1>0, <1>2, <1>8, <2>2, LegKept DEF AtRoom, SaidSame, LegSame
  <2> QED BY <2>1, <2>2
<1>10. Afresh(d) => Afresh(d)'
  BY <1>0, LegKept, SaidKept DEF Afresh, LegSame, SaidSame
<1>11. AtResolved(d) => AtResolved(d)'
  BY <1>0, <1>6, <1>8, <1>10, LegKept DEF AtResolved, SaidSame
<1> QED BY <1>0, <1>1, <1>4, <1>7, <1>9, <1>11 DEF Flow

-----------------------------------------------------------------------------
(* The gateway: its steps *)

StepOf(c) ==
  GatewayTypeOK' /\ Flow(c)' /\ MatchesKept /\ \A d \in Clients \ {c} : Unchanged(d)

LEMMA SameMatches ==
  ASSUME UNCHANGED <<matches, restarts>>
  PROVE  MatchesKept
BY DEF MatchesKept

LEMMA ConnectKeeps ==
  ASSUME GatewayTypeOK, ~crashed, NEW c \in Clients, Flow(c), Connect(c)
  PROVE  StepOf(c)
<1>1. AtNew(c)
  BY DEF Connect, Flow
<1>2. PICK s \in Shards :
        conn'[c] = [NewConn EXCEPT !.phase = "AwaitingLogin", !.held = TRUE,
                                   !.shard = s, !.leg = "connecting"]
  <2>1. PICK s \in Shards :
          conn' = [conn EXCEPT ![c] = [conn[c] EXCEPT !.phase = "AwaitingLogin", !.held = TRUE,
                                                      !.shard = s, !.leg = "connecting"]]
    BY Zenon DEF Connect
  <2>2. conn[c] = NewConn /\ c \in DOMAIN conn
    BY <1>1 DEF GatewayTypeOK, AtNew
  <2> DEFINE k == [conn[c] EXCEPT !.phase = "AwaitingLogin", !.held = TRUE,
                                  !.shard = s, !.leg = "connecting"]
  <2>3. conn' = [conn EXCEPT ![c] = k]
    BY <2>1, Zenon
  <2> HIDE DEF k
  <2>4. conn'[c] = k
    BY <2>2, <2>3
  <2>5. k = [NewConn EXCEPT !.phase = "AwaitingLogin", !.held = TRUE,
                            !.shard = s, !.leg = "connecting"]
    BY <2>2 DEF k
  <2> QED BY <2>4, <2>5, Zenon
<1>3. /\ UNCHANGED <<toShard, fromShard, session, seat, lobby, wish, again, failed, heard, registry>>
      /\ UNCHANGED <<matches, restarts>>
      /\ DOMAIN conn' = Clients /\ \A d \in Clients \ {c} : conn'[d] = conn[d]
  BY DEF Connect, GatewayTypeOK, mmVars
<1>4. MatchesKept
  BY <1>3, SameMatches
<1>5. GatewayTypeOK' /\ \A d \in Clients \ {c} : Unchanged(d)
  BY <1>3 DEF GatewayTypeOK, Unchanged, LegSame, SaidSame
<1>6. DOMAIN NewConn = ConnFields
  BY NewFields
<1>7. /\ DOMAIN conn'[c] = ConnFields
      /\ conn'[c].phase = "AwaitingLogin" /\ conn'[c].held /\ conn'[c].shard = s
      /\ conn'[c].leg = "connecting" /\ ~conn'[c].open /\ conn'[c].pending = <<>>
      /\ conn'[c].joinAfter = NoMsg /\ conn'[c].target = NoShard /\ conn'[c].inside = "no"
      /\ ~conn'[c].timer /\ conn'[c].failing = {} /\ conn'[c].mm = 0 /\ conn'[c].mmLeg = "none"
  BY <1>2, <1>6 DEF ConnFields, NewConn
<1>8. Forgotten(c) /\ LegIdle(c)
  BY <1>1, NewFields DEF Flow, ConnOK, AtNew
<1>9. LegIdle(c)'
  BY <1>3, <1>8, LegKept DEF LegSame
<1>10. AtAwaitingLogin(c)'
  BY <1>3, <1>7, <1>8, <1>9 DEF AtAwaitingLogin, BeforeSearch, Alone, Forgotten
<1>11. ConnOK(c)'
  BY <1>3, <1>7, <1>8, RoomKeys DEF ConnOK, Forgotten
<1> QED BY <1>4, <1>5, <1>7, <1>10, <1>11 DEF StepOf, Flow

LEMMA LogInKeeps ==
  ASSUME GatewayTypeOK, ~crashed, NEW c \in Clients, Flow(c), LogIn(c)
  PROVE  StepOf(c)
<1> DEFINE k == [conn[c] EXCEPT !.phase = "AwaitingJoin"]
<1>1. AtAwaitingLogin(c) /\ ConnOK(c)
  BY DEF LogIn, Flow
<1>2. /\ DOMAIN k = ConnFields /\ k.phase = "AwaitingJoin"
      /\ k.held = conn[c].held /\ k.shard = conn[c].shard /\ k.leg = conn[c].leg
      /\ k.open = conn[c].open /\ k.pending = conn[c].pending
      /\ k.joinAfter = conn[c].joinAfter /\ k.target = conn[c].target
      /\ k.inside = conn[c].inside /\ k.timer = conn[c].timer /\ k.failing = conn[c].failing
      /\ k.mm = conn[c].mm /\ k.mmLeg = conn[c].mmLeg
  BY <1>1 DEF ConnOK, ConnFields
<1> HIDE DEF k
<1>3. SendOrQueue(c, k, Login)
  BY DEF LogIn, k
<1>4. /\ UNCHANGED <<fromShard, session, seat, lobby, wish, again, failed, heard, registry>>
      /\ UNCHANGED <<matches, restarts>>
  BY DEF LogIn, mmVars
<1>5. MatchesKept
  BY <1>4, SameMatches
<1>6. GatewayTypeOK' /\ \A d \in Clients \ {c} : Unchanged(d)
  BY <1>3, <1>4 DEF GatewayTypeOK, Unchanged, LegSame, SaidSame, SendOrQueue
<1>7. CASE k.open
  <2>1. conn'[c] = k /\ toShard'[c] = Append(toShard[c], Login)
    BY <1>3, <1>7 DEF SendOrQueue, GatewayTypeOK
  <2>2. toShard'[c] = <<Login>>
    BY <1>1, <2>1, Queues DEF AtAwaitingLogin, LegIdle
  <2>3. LoginRuns(c)'
    BY <1>1, <1>4, <2>2 DEF AtAwaitingLogin, LegIdle, LoginRuns
  <2>4. AtFirstLogin(c)'
    BY <1>1, <1>2, <1>4, <1>7, <2>1, <2>3
    DEF AtAwaitingLogin, AtFirstLogin, BeforeSearch, Alone, ConnOK
  <2>5. ConnOK(c)'
    BY <1>1, <1>2, <1>4, <2>1 DEF ConnOK, Forgotten
  <2> QED BY <1>2, <1>5, <1>6, <2>1, <2>4, <2>5 DEF StepOf, Flow
<1>8. CASE ~k.open
  <2>1. conn'[c] = [k EXCEPT !.pending = Append(k.pending, Login)] /\ toShard' = toShard
    BY <1>3, <1>8 DEF SendOrQueue, GatewayTypeOK
  <2>2. Append(k.pending, Login) = <<Login>>
    BY <1>1, <1>2, Queues DEF AtAwaitingLogin
  <2>3. /\ DOMAIN conn'[c] = ConnFields /\ conn'[c].phase = "AwaitingJoin"
        /\ conn'[c].held = conn[c].held /\ conn'[c].shard = conn[c].shard
        /\ conn'[c].leg = conn[c].leg /\ conn'[c].open = conn[c].open
        /\ conn'[c].pending = <<Login>>
        /\ conn'[c].joinAfter = conn[c].joinAfter /\ conn'[c].target = conn[c].target
        /\ conn'[c].inside = conn[c].inside /\ conn'[c].timer = conn[c].timer
        /\ conn'[c].failing = conn[c].failing
        /\ conn'[c].mm = conn[c].mm /\ conn'[c].mmLeg = conn[c].mmLeg
    BY <1>2, <2>1, <2>2 DEF ConnFields
  <2>4. LegIdle(c)'
    BY <1>1, <1>4, <2>1, LegKept DEF AtAwaitingLogin, LegSame
  <2>5. AtFirstLogin(c)'
    BY <1>1, <1>2, <1>4, <1>8, <2>3, <2>4
    DEF AtAwaitingLogin, AtFirstLogin, BeforeSearch, Alone, ConnOK
  <2>6. ConnOK(c)'
    BY <1>1, <1>4, <2>3 DEF ConnOK, Forgotten
  <2> QED BY <1>5, <1>6, <2>3, <2>5, <2>6 DEF StepOf, Flow
<1> QED BY <1>7, <1>8

\* The connections k and l differ in these fields at most.
Agree(k, l, fields) ==
  DOMAIN k = ConnFields /\ DOMAIN l = ConnFields /\ \A f \in ConnFields \ fields : k[f] = l[f]

\* Where a client is that may JOIN.
LEMMA MayJoinFrom ==
  ASSUME NEW c, Flow(c), MayJoin(c)
  PROVE  /\ BeforeSearch(c) /\ conn[c].leg = "open" /\ conn[c].open /\ conn[c].pending = <<>>
         /\ LoggedIn(c)
<1> USE DEF MayJoin
<1>1. ~AtLeaving(c) /\ ~AtConnecting(c)
  <2>1. NoKey \notin RoomNames /\ NoKey.kind = "none" /\ NoKey # Create /\ NoKey # Quick
    BY RoomKeys DEF Wishes
  <2>2. \A s, key : ~JoinFor(c, NoKey, conn[c].action, s, key)
    BY <2>1 DEF JoinFor, RoomFor
  <2> QED BY <2>2 DEF AtLeaving, AtConnecting, Redirected, Asked
<1>2. AtFirstLogin(c)
  BY <1>1 DEF Flow
<1>3. <<LoginOk>> # <<LoginFail>> /\ <<LoginOk>> # <<>>
  <2>1. <<LoginOk>>[1] = LoginOk /\ <<LoginFail>>[1] = LoginFail
    OBVIOUS
  <2> QED BY <2>1, Messages
<1> QED BY <1>2, <1>3 DEF AtFirstLogin, Flow, ConnOK

LEMMA JoinAtKeeps ==
  ASSUME GatewayTypeOK, NEW c \in Clients, Flow(c), MayJoin(c), MatchesKept,
         NEW k, Agree(k, conn[c], {"action"}), NEW s \in Shards, NEW key \in Keys,
         JoinAt(c, k, s, Join(key)), key # Quick,
         NEW w \in Wishes, w # Quick, wish' = [wish EXCEPT ![c] = w],
         JoinFor(c, w, k.action, s, key),
         UNCHANGED <<fromShard, session, seat, lobby, again, failed, heard, registry>>
  PROVE  StepOf(c)
<1>1. /\ BeforeSearch(c) /\ conn[c].leg = "open" /\ conn[c].open /\ conn[c].pending = <<>>
      /\ LoggedIn(c) /\ ConnOK(c) /\ conn[c].held /\ heard[c] = <<LoginOk>>
  BY MayJoinFrom DEF Flow, MayJoin
<1>2. /\ wish'[c] = w /\ \A d \in Clients \ {c} : wish'[d] = wish[d]
      /\ again'[c] = <<>> /\ ~failed'[c] /\ again'[c] \in Seq(Wishes)
  BY <1>1 DEF GatewayTypeOK, BeforeSearch, ConnOK
<1>3. GatewayTypeOK' /\ \A d \in Clients \ {c} : Unchanged(d)
  BY <1>2 DEF GatewayTypeOK, Unchanged, LegSame, SaidSame, JoinAt, Redirect, SendOrQueue
<1>4. JoinFor(c, w, k.action, s, key)'
  <2>1. \A a : JoinFor(c, w, a, s, key) => JoinFor(c, w, a, s, key)'
    BY MeetsKept
  <2> QED BY <2>1
<1>5. Join(key).key = key /\ Join(key) \in JoinMsg
  BY Messages DEF JoinMsg, Join, Msg
<1>6. CASE s # k.shard
  <2>1. /\ conn'[c] = [k EXCEPT !.joinAfter = Join(key), !.phase = "AwaitingJoin", !.target = s]
        /\ toShard' = toShard
    BY <1>6 DEF JoinAt, Redirect, GatewayTypeOK
  <2>2. /\ Agree(conn'[c], conn[c], {"action", "joinAfter", "phase", "target"})
        /\ conn'[c].joinAfter = Join(key) /\ conn'[c].phase = "AwaitingJoin"
        /\ conn'[c].target = s /\ conn'[c].action = k.action
    BY <2>1 DEF Agree, ConnFields
  <2>3. ConnOK(c)'
    BY <1>1, <1>2, <2>2 DEF ConnOK, Agree, ConnFields
  <2>4. Asked(c, conn[c].target, conn[c].joinAfter)'
    BY <1>1, <1>2, <1>4, <1>5, <2>2 DEF Asked
  <2>5. LoggedIn(c)'
    BY <1>1, <2>1, LegKept DEF LegSame
  <2>6. AtLeaving(c)'
    BY <1>1, <2>2, <2>4, <2>5 DEF AtLeaving, BeforeSearch, Alone, Agree, ConnFields
  <2> QED BY <1>3, <2>2, <2>3, <2>6 DEF StepOf, Flow
<1>7. CASE s = k.shard
  <2>1. /\ conn'[c] = [k EXCEPT !.phase = "AwaitingRoomReply"]
        /\ toShard'[c] = Append(toShard[c], Join(key))
    <3>1. k.open
      BY <1>1 DEF Agree, ConnFields
    <3>2. [k EXCEPT !.phase = "AwaitingRoomReply"].open
      BY <3>1 DEF Agree, ConnFields
    <3> QED BY <1>7, <3>2 DEF JoinAt, SendOrQueue, GatewayTypeOK
  <2>2. /\ Agree(conn'[c], conn[c], {"action", "phase"})
        /\ conn'[c].phase = "AwaitingRoomReply" /\ conn'[c].action = k.action
    BY <2>1 DEF Agree, ConnFields
  <2>3. ConnOK(c)'
    BY <1>1, <1>2, <2>2 DEF ConnOK, Agree, ConnFields
  <2>4. toShard'[c] = <<Join(key)>>
    BY <1>1, <2>1, Queues DEF LoggedIn
  <2>5. toShard'[c] # <<>> /\ Head(toShard'[c]) = Join(key) /\ toShard'[c] \in Seq(JoinMsg)
    BY <1>5, <2>4, Queues
  <2>6. JoinsRun(c)'
    BY <1>1, <2>5 DEF LoggedIn, JoinsRun
  <2>7. conn'[c].shard = s
    BY <1>7, <2>2 DEF Agree, ConnFields
  <2>8. Asked(c, conn[c].shard, Head(toShard[c]))'
    BY <1>1, <1>2, <1>4, <1>5, <2>2, <2>5, <2>7 DEF Asked
  <2>9. AtRoom(c)'
    BY <1>1, <2>2, <2>5, <2>6, <2>8
    DEF AtRoom, Joined, BeforeSearch, Alone, Agree, ConnFields
  <2> QED BY <1>3, <2>2, <2>3, <2>9 DEF StepOf, Flow
<1> QED BY <1>6, <1>7

LEMMA AskForRoomKeeps ==
  ASSUME GatewayTypeOK, ~crashed, NEW c \in Clients, Flow(c), NEW w \in Wishes, AskForRoom(c, w)
  PROVE  StepOf(c)
<1>1. /\ MayJoin(c) /\ wish' = [wish EXCEPT ![c] = w]
      /\ UNCHANGED <<fromShard, session, seat, lobby, again, failed, heard, registry>>
      /\ UNCHANGED <<matches, restarts>>
  BY DEF AskForRoom, mmVars
<1>2. MatchesKept
  BY <1>1, SameMatches
<1>3. /\ DOMAIN conn[c] = ConnFields /\ conn[c].shard \in Shards
  BY DEF Flow, ConnOK
<1>4. \A a : /\ Agree([conn[c] EXCEPT !.action = a], conn[c], {"action"})
             /\ [conn[c] EXCEPT !.action = a].action = a
  BY <1>3 DEF Agree, ConnFields
<1>5. CASE JoinByCode(c, w)
  <2>1. w.kind = "code" /\ w.shard \in Shards
    BY <1>5 DEF JoinByCode, ParsePrefixedKey
  <2>2. w # Create /\ w # Quick /\ w \in Codes /\ w.n \in Nat
    BY <2>1, RoomKeys DEF Wishes
  <2>3. JoinFor(c, w, "AddShardPrefix", w.shard, Room(w.n))
    BY <2>1, <2>2 DEF JoinFor, RoomFor
  <2> DEFINE k == [conn[c] EXCEPT !.action = "AddShardPrefix"]
  <2>4. Agree(k, conn[c], {"action"}) /\ k.action = "AddShardPrefix"
    BY <1>4
  <2>5. JoinAt(c, k, w.shard, Join(Room(w.n)))
    BY <1>5 DEF JoinByCode
  <2> HIDE DEF k
  <2>6. JoinFor(c, w, k.action, w.shard, Room(w.n)) /\ Room(w.n) # Quick /\ Room(w.n) \in Keys
    BY <2>2, <2>3, <2>4, RoomKeys
  <2> QED BY <1>1, <1>2, <2>1, <2>2, <2>4, <2>5, <2>6, JoinAtKeeps
<1>6. CASE JoinByName(c, w)
  <2> DEFINE s == IF registry[w] = NoShard THEN conn[c].shard ELSE registry[w]
  <2>1. w \in RoomNames /\ w # Create /\ w # Quick /\ w \in Keys
    BY <1>6, RoomKeys DEF JoinByName, Wishes
  <2>2. s \in Shards
    BY <1>3, <2>1 DEF GatewayTypeOK
  <2>3. JoinAt(c, [conn[c] EXCEPT !.action = "RegisterFreeform"], s, Join(w))
    BY <1>6 DEF JoinByName
  <2> HIDE DEF s
  <2>4. JoinFor(c, w, "RegisterFreeform", s, w)
    BY <2>1 DEF JoinFor, RoomFor
  <2> QED BY <1>1, <1>2, <1>4, <2>1, <2>2, <2>3, <2>4, JoinAtKeeps
<1>7. CASE CreateRoom(c, w)
  <2>1. w = Create /\ w # Quick /\ w \in Keys
    BY <1>7, RoomKeys DEF CreateRoom
  <2>2. JoinFor(c, w, "AddShardPrefix", conn[c].shard, w)
    BY <2>1 DEF JoinFor
  <2> DEFINE k == [conn[c] EXCEPT !.action = "AddShardPrefix"]
  <2>3. Agree(k, conn[c], {"action"}) /\ k.action = "AddShardPrefix"
    BY <1>4
  <2>4. JoinAt(c, k, conn[c].shard, Join(w))
    BY <1>7 DEF CreateRoom
  <2> HIDE DEF k
  <2>5. JoinFor(c, w, k.action, conn[c].shard, w)
    BY <2>2, <2>3
  <2> QED BY <1>1, <1>2, <1>3, <2>1, <2>3, <2>4, <2>5, JoinAtKeeps
<1>8. CASE QuickMatch(c, w)
  <2>1. /\ w = Quick /\ toShard' = toShard
        /\ conn'[c] = [conn[c] EXCEPT !.phase = "AwaitingMatchmaker",
                                      !.mm = 1, !.mmLeg = "connecting", !.mmPending = TRUE]
        /\ wish'[c] = Quick
    BY <1>1, <1>8 DEF QuickMatch, GatewayTypeOK
  <2>2. GatewayTypeOK' /\ \A d \in Clients \ {c} : Unchanged(d)
    BY <1>1, <1>8 DEF GatewayTypeOK, Unchanged, LegSame, SaidSame, QuickMatch
  <2>3. /\ Agree(conn'[c], conn[c], {"phase", "mm", "mmLeg", "mmPending"})
        /\ conn'[c].phase = "AwaitingMatchmaker" /\ conn'[c].mm = 1
        /\ conn'[c].mmLeg = "connecting"
    BY <1>3, <2>1 DEF Agree, ConnFields
  <2>4. /\ BeforeSearch(c) /\ conn[c].leg = "open" /\ conn[c].open /\ conn[c].pending = <<>>
        /\ LoggedIn(c) /\ ConnOK(c) /\ conn[c].held /\ heard[c] = <<LoginOk>>
    BY <1>1, MayJoinFrom DEF Flow, MayJoin
  <2>5. ConnOK(c)'
    <3>1. again'[c] = <<>> /\ ~failed'[c] /\ again'[c] \in Seq(Wishes)
      BY <1>1, <2>4 DEF BeforeSearch, ConnOK
    <3>2. wish'[c] \in Wishes /\ wish'[c] # NoKey
      BY <2>1, RoomKeys
    <3>3. conn'[c].held
      BY <2>3, <2>4 DEF Agree, ConnFields
    <3> QED BY <2>3, <2>4, <3>1, <3>2, <3>3 DEF ConnOK, Agree, ConnFields
  <2>6. LoggedIn(c)'
    BY <1>1, <2>1, <2>4, LegKept DEF LegSame
  <2>7. AtSearch(c)'
    <3>1. 1 \in 1 .. MaxLegs
      BY GatewayAssumption
    <3> QED BY <1>1, <2>1, <2>3, <2>4, <2>6, <3>1
            DEF AtSearch, BeforeSearch, Alone, Agree, ConnFields
  <2> QED BY <1>2, <2>2, <2>3, <2>5, <2>7 DEF StepOf, Flow
<1> QED BY <1>5, <1>6, <1>7, <1>8 DEF AskForRoom

\* A JOIN that is not the first follows an answer, NO_OPPONENT if it was a search.
LEMMA AskedAgain ==
  ASSUME NEW c, NEW key \in Wishes, again[c] \in Seq(Wishes),
         again'[c] = Append(again[c], key), ~failed'[c],
         wish'[c] = wish[c], heard'[c] = heard[c], LastWish(c) = Quick => failed[c]
  PROVE  /\ ~Unanswered(c) /\ (Unanswered(c)' <=> key = Quick)
         /\ again'[c] # <<>> /\ again'[c] \in Seq(Wishes)
         /\ Len(again[c]) \in Nat /\ Len(again'[c]) = Len(again[c]) + 1
         /\ \A m \in DOMAIN again[c] : m \in DOMAIN again'[c] /\ again'[c][m] = again[c][m]
         /\ \E m \in DOMAIN again'[c] : again'[c][m] = key
         /\ NamedRoom(c) => NamedRoom(c)'
         /\ HeardLate(c) => HeardLate(c)'
         /\ \A n \in Nat : Owed(c, n) => Owed(c, n)' /\ Owed(c, n + 1)'
<1>1. /\ again'[c] \in Seq(Wishes)
      /\ Len(again[c]) \in Nat /\ Len(again'[c]) = Len(again[c]) + 1
      /\ DOMAIN again'[c] = DOMAIN again[c] \cup {Len(again[c]) + 1}
      /\ \A m \in DOMAIN again[c] : again'[c][m] = again[c][m]
      /\ again'[c][Len(again[c]) + 1] = key
  BY Appended
<1>2. again'[c] # <<>>
  BY AppendProperties
<1>3. LastWish(c)' = key
  BY <1>1, <1>2 DEF LastWish, Last
<1>4. NamedRoom(c) => NamedRoom(c)'
  BY <1>1 DEF NamedRoom
<1>5. Len(heard[c]) \in Nat => (HeardLate(c) => HeardLate(c)')
  BY <1>1, <1>4 DEF HeardLate
<1>6. ASSUME NEW n \in Nat, Owed(c, n) PROVE Owed(c, n)' /\ Owed(c, n + 1)'
  <2>1. Vain(heard[c]) /\ Len(heard[c]) \in Nat /\ Len(heard[c]) + n <= 2 + Len(again[c])
    <3>1. Vain(heard[c]) /\ Len(heard[c]) + n <= 2 + Len(again[c])
      BY <1>6 DEF Owed
    <3>2. Len(heard[c]) \in Nat
      BY <3>1, LenProperties DEF Vain
    <3> QED BY <3>1, <3>2
  <2>2. Len(heard[c]) + (n + 1) <= 2 + Len(again'[c]) /\ Len(heard[c]) + n <= 2 + Len(again'[c])
    <3>1. PICK h \in Nat : h = Len(heard[c])
      BY <2>1
    <3>2. PICK a \in Nat : a = Len(again[c])
      BY <1>1
    <3>3. h + n <= 2 + a /\ Len(again'[c]) = a + 1
      BY <1>1, <2>1, <3>1, <3>2
    <3>4. h + (n + 1) <= 2 + (a + 1) /\ h + n <= 2 + (a + 1)
      BY <3>3
    <3> QED BY <3>1, <3>3, <3>4
  <2>3. Vain(heard[c])'
    BY <2>1
  <2> QED BY <2>2, <2>3 DEF Owed
<1>7. Unanswered(c)' <=> key = Quick
  BY <1>3 DEF Unanswered
<1>8. ~Unanswered(c)
  BY DEF Unanswered
<1>9. HeardLate(c) => HeardLate(c)'
  BY <1>1, <1>4 DEF HeardLate
<1> QED BY <1>1, <1>2, <1>4, <1>6, <1>7, <1>8, <1>9

\* Its key is relayed after the others.
LEMMA AsksOneMore ==
  ASSUME NEW c, NEW key \in Wishes, again[c] \in Seq(Wishes), toShard[c] \in Seq(JoinMsg),
         again'[c] = Append(again[c], key), ~failed'[c],
         wish'[c] = wish[c], heard'[c] = heard[c], LastWish(c) = Quick => failed[c],
         toShard'[c] = Append(toShard[c], Join(key))
  PROVE  /\ toShard'[c] \in Seq(JoinMsg) /\ toShard'[c] # <<>>
         /\ toShard[c] # <<>> => Head(toShard'[c]) = Head(toShard[c])
         /\ Len(toShard[c]) \in Nat /\ Len(toShard'[c]) = Len(toShard[c]) + 1
         /\ Asks(c) => Asks(c)'
<1>1. Join(key) \in JoinMsg /\ Join(key).key = key
  BY RoomKeys, Messages DEF JoinMsg, Join, Msg
<1>2. /\ toShard'[c] \in Seq(JoinMsg)
      /\ Len(toShard[c]) \in Nat /\ Len(toShard'[c]) = Len(toShard[c]) + 1
      /\ \A n \in 1 .. Len(toShard[c]) : toShard'[c][n] = toShard[c][n]
      /\ toShard'[c][Len(toShard[c]) + 1] = Join(key)
  BY <1>1, AppendProperties
<1>3. toShard'[c] # <<>>
  BY <1>1, AppendProperties
<1>4. toShard[c] # <<>> => Head(toShard'[c]) = Head(toShard[c])
  <2>1. Head(toShard'[c]) = toShard'[c][1]
    BY <1>2, <1>3, FirstOf
  <2>2. ASSUME toShard[c] # <<>>
        PROVE  1 \in 1 .. Len(toShard[c]) /\ Head(toShard[c]) = toShard[c][1]
    BY <2>2, FirstOf, LenProperties
  <2> QED BY <1>2, <2>1, <2>2
<1>5. /\ ~Unanswered(c) /\ (Unanswered(c)' <=> key = Quick)
      /\ \A m \in DOMAIN again[c] : m \in DOMAIN again'[c] /\ again'[c][m] = again[c][m]
      /\ \E m \in DOMAIN again'[c] : again'[c][m] = key
  BY AskedAgain
<1>6. ASSUME Asks(c), NEW n \in 1 .. Len(toShard'[c])
      PROVE  /\ \E m \in DOMAIN again'[c] : toShard'[c][n] = Join(again'[c][m])
             /\ toShard'[c][n].key = Quick => n = Len(toShard'[c]) /\ Unanswered(c)'
  <2>1. CASE n \in 1 .. Len(toShard[c])
    BY <1>2, <1>5, <1>6, <2>1 DEF Asks
  <2>2. CASE n = Len(toShard[c]) + 1
    <3>1. toShard'[c][n] = Join(key) /\ n = Len(toShard'[c])
      BY <1>2, <2>2
    <3> QED BY <1>1, <1>5, <3>1
  <2>3. PICK l \in Nat : l = Len(toShard[c])
    BY <1>2
  <2>4. n \in 1 .. l + 1
    BY <1>2, <2>3
  <2>5. n \in 1 .. l \/ n = l + 1
    BY <2>4
  <2> QED BY <2>1, <2>2, <2>3, <2>5
<1>7. Asks(c) => Asks(c)'
  BY <1>6 DEF Asks
<1> QED BY <1>2, <1>3, <1>4, <1>7

LEMMA AskAgainKeeps ==
  ASSUME GatewayTypeOK, ~crashed, NEW c \in Clients, Flow(c), NEW key \in Wishes,
         AskAgain(c, key)
  PROVE  StepOf(c)
<1>1. /\ conn[c].held /\ wish[c] # NoKey /\ (LastWish(c) = Quick => failed[c]) /\ ConnOK(c)
      /\ conn[c].phase \in {"AwaitingMatchmaker", "AwaitingRoomReply", "Resolved"}
      /\ UNCHANGED <<registry, fromShard, session, seat, lobby, wish, heard>>
      /\ UNCHANGED <<matches, restarts>>
      /\ again' = [again EXCEPT ![c] = Append(again[c], key)]
      /\ failed' = [failed EXCEPT ![c] = FALSE]
      /\ again'[c] = Append(again[c], key) /\ ~failed'[c]
      /\ again[c] \in Seq(Wishes)
  BY DEF AskAgain, MayJoinAgain, GatewayTypeOK, Flow, ConnOK, mmVars
<1>2. MatchesKept
  BY <1>1, SameMatches
<1>3. /\ ~Unanswered(c) /\ again'[c] # <<>> /\ again'[c] \in Seq(Wishes)
      /\ NamedRoom(c) => NamedRoom(c)'
      /\ HeardLate(c) => HeardLate(c)'
      /\ \A n \in Nat : Owed(c, n) => Owed(c, n)' /\ Owed(c, n + 1)'
  BY <1>1, AskedAgain
<1>4. ~(wish[c] = Quick /\ heard[c] = <<LoginOk>>)
  BY <1>1 DEF ConnOK, LastWish
<1>5. conn'[c] = conn[c] => ConnOK(c)'
  BY <1>1, <1>3, <1>4 DEF ConnOK
<1>6. CASE conn[c].phase = "AwaitingMatchmaker"
  <2>1. UNCHANGED <<conn, toShard>>
    BY <1>6 DEF AskAgain
  <2>2. GatewayTypeOK' /\ \A d \in Clients \ {c} : Unchanged(d)
    BY <1>1, <2>1 DEF GatewayTypeOK, Unchanged, LegSame, SaidSame
  <2>3. AtSearch(c)
    BY <1>6 DEF Flow
  <2>4. LoggedIn(c)'
    BY <1>1, <2>1, <2>3 DEF AtSearch, LoggedIn
  <2>5. AtSearch(c)'
    BY <1>1, <1>4, <2>1, <2>3, <2>4 DEF AtSearch
  <2> QED BY <1>2, <1>5, <1>6, <2>1, <2>2, <2>5 DEF StepOf, Flow
<1>7. CASE conn[c].phase # "AwaitingMatchmaker"
  <2>1. SendOrQueue(c, conn[c], Join(key))
    BY <1>7 DEF AskAgain
  <2>2. \/ AtRoom(c) /\ conn[c].phase = "AwaitingRoomReply"
        \/ AtResolved(c) /\ conn[c].phase = "Resolved"
    BY <1>1, <1>7 DEF Flow
  <2>3. conn[c].leg = "open" /\ conn[c].open
    BY <1>1, <2>2 DEF AtRoom, AtResolved, Cut, ConnOK
  <2>4. /\ DOMAIN conn' = Clients /\ conn'[c] = conn[c]
        /\ \A d \in Clients \ {c} : conn'[d] = conn[d] /\ toShard'[d] = toShard[d]
        /\ DOMAIN toShard' = Clients /\ toShard'[c] = Append(toShard[c], Join(key))
    BY <2>1, <2>3 DEF SendOrQueue, GatewayTypeOK
  <2>5. GatewayTypeOK' /\ \A d \in Clients \ {c} : Unchanged(d)
    BY <1>1, <2>4 DEF GatewayTypeOK, Unchanged, LegSame, SaidSame
  <2>6. ASSUME toShard[c] \in Seq(JoinMsg)
        PROVE  /\ toShard'[c] \in Seq(JoinMsg) /\ toShard'[c] # <<>>
               /\ toShard[c] # <<>> => Head(toShard'[c]) = Head(toShard[c])
               /\ Len(toShard[c]) \in Nat /\ Len(toShard'[c]) = Len(toShard[c]) + 1
               /\ Asks(c) => Asks(c)'
    BY <1>1, <2>4, <2>6, AsksOneMore
  <2>7. JoinsRun(c) => JoinsRun(c)'
    BY <1>1, <2>6 DEF JoinsRun
  <2>8. (SeatNews(c) => SeatNews(c)') /\ (SeatKnown(c) => SeatKnown(c)')
    BY <1>1, <2>4, <2>6 DEF SeatNews, SeatKnown, Seated
  <2>9. Joined(c) => Joined(c)'
    BY <2>4 DEF Joined
  <2>10. (Came(c) => Came(c)') /\ \A s, m : Asked(c, s, m) => Asked(c, s, m)'
    BY <1>1, <1>2, <2>4, MeetsKept, AskedKept DEF Came
  <2>11. CASE AtRoom(c) /\ conn[c].phase = "AwaitingRoomReply"
    <3>1. Joined(c)'
      BY <2>9, <2>11 DEF AtRoom
    <3>2. CASE toShard[c] # <<>> /\ JoinsRun(c) /\ Asked(c, conn[c].shard, Head(toShard[c]))
               /\ conn[c].inside = "no"
      <4>1. toShard'[c] # <<>> /\ Head(toShard'[c]) = Head(toShard[c])
        BY <2>6, <3>2 DEF JoinsRun
      <4>2. Asked(c, conn[c].shard, Head(toShard[c]))'
        BY <2>4, <2>10, <3>2, <4>1
      <4>3. AtRoom(c)'
        BY <2>3, <2>4, <2>7, <3>1, <3>2, <4>1, <4>2 DEF AtRoom
      <4> QED BY <1>2, <1>5, <2>4, <2>5, <2>11, <4>3 DEF StepOf, Flow
    <3>3. CASE SeatNews(c) /\ Came(c) /\ heard[c] = <<LoginOk>>
      <4>1. AtRoom(c)'
        BY <1>1, <2>3, <2>4, <2>8, <2>10, <3>1, <3>3 DEF AtRoom
      <4> QED BY <1>2, <1>5, <2>4, <2>5, <2>11, <4>1 DEF StepOf, Flow
    <3> QED BY <1>1, <2>11, <3>2, <3>3 DEF AtRoom, Cut
  <2>12. CASE AtResolved(c) /\ conn[c].phase = "Resolved"
    <3>1. Joined(c)'
      BY <2>9, <2>12 DEF AtResolved
    <3>2. CASE SeatKnown(c) /\ Came(c) /\ Told(c)
      <4>1. Told(c)'
        BY <1>1, <2>4, <3>2 DEF Told
      <4>2. AtResolved(c)'
        BY <2>3, <2>4, <2>8, <2>10, <3>1, <3>2, <4>1 DEF AtResolved
      <4> QED BY <1>2, <1>5, <2>4, <2>5, <2>12, <4>2 DEF StepOf, Flow
    <3>3. CASE Afresh(c) /\ wish[c] = Quick
      <4>1. ASSUME Alone(conn[c]), JoinsRun(c), Asks(c), Owed(c, Len(toShard[c]))
            PROVE  Afresh(c)'
        <5>1. /\ Asks(c)' /\ JoinsRun(c)' /\ Len(toShard[c]) \in Nat
              /\ Len(toShard'[c]) = Len(toShard[c]) + 1
          BY <2>6, <2>7, <4>1 DEF JoinsRun
        <5>2. PICK n \in Nat : n = Len(toShard[c])
          BY <5>1
        <5>3. Owed(c, n + 1)'
          BY <1>3, <4>1, <5>2
        <5>4. Owed(c, Len(toShard[c]))'
          BY <5>1, <5>2, <5>3
        <5> QED BY <2>4, <4>1, <5>1, <5>4 DEF Afresh
      <4>2. ASSUME SeatNews(c), NamedRoom(c), Owed(c, 1) PROVE Afresh(c)'
        BY <1>3, <2>8, <4>2 DEF Afresh
      <4>3. ASSUME SeatKnown(c), HeardLate(c) PROVE Afresh(c)'
        BY <1>3, <2>8, <4>3 DEF Afresh
      <4>4. Afresh(c)'
        BY <1>1, <1>3, <3>3, <4>1, <4>2, <4>3 DEF Afresh
      <4>5. AtResolved(c)'
        BY <1>1, <2>3, <2>4, <3>1, <3>3, <4>4 DEF AtResolved
      <4> QED BY <1>2, <1>5, <2>4, <2>5, <2>12, <4>5 DEF StepOf, Flow
    <3> QED BY <1>1, <2>12, <3>2, <3>3 DEF AtResolved, Cut
  <2> QED BY <2>2, <2>11, <2>12
<1> QED BY <1>6, <1>7

\* The connection is destroyed.
LEMMA Freed ==
  ASSUME NEW c, conn'[c] = [NewConn EXCEPT !.phase = "Gone"], Forgotten(c)',
         ~crashed' => LegIdle(c)',
         toShard'[c] # <<>> /\ Head(toShard'[c]).type = "JOIN" => session'[c]
  PROVE  Flow(c)'
<1>1. 0 \in Shards
  BY MatchmakerAssumption DEF Shards
<1>2. AtGone(c)'
  BY DEF AtGone
<1>3. ConnOK(c)' /\ conn'[c].phase = "Gone"
  BY <1>1, NewFields, RoomKeys DEF ConnOK, Forgotten
<1> QED BY <1>2, <1>3 DEF Flow

\* A connection that was redirected, or whose client sits in a room, may lose its client,
\* its timer, a thread that fails its redirect, or enter and leave a callback.
LEMMA FlagsKeep ==
  ASSUME NEW c, Flow(c), MatchesKept,
         Agree(conn'[c], conn[c], {"held", "timer", "failing", "inside"}),
         LegSame(c),
         \/ conn'[c].held = conn[c].held /\ SaidSame(c)
         \/ ~conn'[c].held /\ Forgotten(c)',
         conn'[c].timer => conn[c].timer,
         conn'[c].failing \subseteq conn[c].failing \cup (IF conn[c].timer THEN {"timer"} ELSE {}),
         conn'[c].held /\ "callback" \in conn[c].failing => "callback" \in conn'[c].failing,
         \/ conn'[c].inside = conn[c].inside
         \/ conn[c].inside = "message" /\ conn'[c].inside = "no"
         \/ conn[c].inside = "no" /\ conn'[c].inside = "message" /\ seat[c] # NoSeat,
         conn[c].phase \in {"AwaitingJoin", "RedirectAwaitingLoginReply",
                            "AwaitingRoomReply", "Resolved"},
         ~Alone(conn[c]) \/ seat[c] # NoSeat
  PROVE  Flow(c)'
<1>1. /\ conn'[c].phase = conn[c].phase /\ conn'[c].shard = conn[c].shard
      /\ conn'[c].leg = conn[c].leg /\ conn'[c].open = conn[c].open
      /\ conn'[c].pending = conn[c].pending /\ conn'[c].joinAfter = conn[c].joinAfter
      /\ conn'[c].action = conn[c].action /\ conn'[c].target = conn[c].target
      /\ conn'[c].mm = conn[c].mm /\ conn'[c].mmLeg = conn[c].mmLeg
      /\ DOMAIN conn'[c] = ConnFields
  BY DEF Agree, ConnFields
<1>2. "callback" \notin conn[c].failing => "callback" \notin conn'[c].failing
  OBVIOUS
<1>3. conn'[c].held => conn[c].held /\ SaidSame(c)
  OBVIOUS
<1>4. \A s, m : Asked(c, s, m) => Asked(c, s, m)'
  BY <1>1, <1>3, AskedKept DEF SaidSame
<1>5. /\ LegIdle(c) => LegIdle(c)'
      /\ LoginRuns(c) => LoginRuns(c)'
      /\ LoggedIn(c) => LoggedIn(c)'
      /\ JoinsRun(c) => JoinsRun(c)'
      /\ SeatNews(c) => SeatNews(c)'
      /\ SeatKnown(c) => SeatKnown(c)'
  BY <1>1, LegKept
<1>6. ConnOK(c)'
  <2>1. ConnOK(c)
    BY DEF Flow
  <2>2. CASE conn'[c].held = conn[c].held /\ SaidSame(c)
    BY <1>1, <2>1, <2>2 DEF ConnOK, SaidSame, Forgotten
  <2>3. CASE ~conn'[c].held /\ Forgotten(c)'
    BY <1>1, <2>1, <2>3, RoomKeys DEF ConnOK, Forgotten
  <2> QED BY <2>2, <2>3
<1>7. Redirected(c) => Redirected(c)'
  BY <1>1, <1>4 DEF Redirected
<1>8. Cut(c) => Cut(c)'
  BY <1>1, <1>3, <1>5 DEF Cut
<1>9. /\ LegIdle(c) => seat[c] = NoSeat
      /\ LoginRuns(c) => seat[c] = NoSeat
      /\ LoggedIn(c) => seat[c] = NoSeat
      /\ JoinsRun(c) => seat[c] = NoSeat
      /\ InLobby(c) \/ Reaped(c) => seat[c] = NoSeat
  BY DEF LegIdle, LoginRuns, LoggedIn, JoinsRun, InLobby, Reaped
<1>10. ASSUME AtLeaving(c) PROVE AtLeaving(c)'
  BY <1>1, <1>4, <1>5, <1>9, <1>10 DEF AtLeaving
<1>11. ASSUME AtConnecting(c) PROVE AtConnecting(c)'
  BY <1>1, <1>2, <1>5, <1>7, <1>8, <1>9, <1>11 DEF AtConnecting
<1>12. ASSUME AtRelogin(c) PROVE AtRelogin(c)'
  BY <1>1, <1>2, <1>3, <1>5, <1>7, <1>8, <1>9, <1>12 DEF AtRelogin, Cut
<1>13. Joined(c) => Joined(c)'
  BY <1>1, <1>2 DEF Joined
<1>14. Came(c) => Came(c)'
  BY <1>1, <1>3, MeetsKept DEF Came, SaidSame, LegSame
<1>15. ASSUME AtRoom(c) PROVE AtRoom(c)'
  <2>1. CASE Cut(c)
    BY <1>8, <1>13, <1>15, <2>1 DEF AtRoom
  <2>2. CASE JoinsRun(c) /\ conn[c].inside = "no"
    <3>1. conn'[c].inside = "no"
      BY <1>9, <2>2
    <3> QED BY <1>1, <1>4, <1>5, <1>8, <1>13, <1>15, <2>2, <3>1 DEF AtRoom, LegSame, SeatNews, JoinsRun
  <2>3. CASE conn[c].leg = "open" /\ SeatNews(c) /\ Came(c) /\ (conn[c].held => heard[c] = <<LoginOk>>)
    BY <1>1, <1>3, <1>5, <1>13, <1>14, <1>15, <2>3 DEF AtRoom, SaidSame
  <2> QED BY <1>15, <2>1, <2>2, <2>3 DEF AtRoom
<1>16. ASSUME AtResolved(c) PROVE AtResolved(c)'
  <2>1. conn'[c].held /\ Told(c) => Told(c)'
    BY <1>1, <1>3 DEF Told, SaidSame, LegSame
  <2>2. Joined(c)'
    BY <1>13, <1>16 DEF AtResolved
  <2>3. CASE conn[c].leg = "open" /\ SeatKnown(c) /\ Came(c) /\ (conn[c].held => Told(c))
    BY <1>1, <1>3, <1>5, <1>14, <2>1, <2>2, <2>3 DEF AtResolved
  <2>4. CASE conn[c].leg = "open" /\ Afresh(c) /\ (conn[c].held => wish[c] = Quick)
    <3>1. conn'[c].held => /\ (NamedRoom(c) => NamedRoom(c)')
                           /\ (Owed(c, 1) => Owed(c, 1)')
                           /\ (HeardLate(c) => HeardLate(c)')
                           /\ again'[c] = again[c] /\ wish'[c] = wish[c]
      BY <1>3, SaidKept DEF LegSame, SaidSame
    <3>2. \/ SeatNews(c) /\ (conn[c].held => NamedRoom(c) /\ Owed(c, 1))
          \/ SeatKnown(c) /\ (conn[c].held => again[c] # <<>> /\ HeardLate(c))
      BY <1>9, <2>4 DEF Afresh
    <3>3. Afresh(c)'
      BY <1>1, <1>3, <1>5, <3>1, <3>2 DEF Afresh
    <3> QED BY <1>1, <1>3, <2>2, <2>4, <3>1, <3>3 DEF AtResolved
  <2>5. CASE Cut(c)
    BY <1>8, <2>2, <2>5 DEF AtResolved
  <2> QED BY <1>16, <2>3, <2>4, <2>5 DEF AtResolved
<1>17. AtFirstLogin(c) => Alone(conn[c]) /\ seat[c] = NoSeat
  BY <1>9 DEF AtFirstLogin, BeforeSearch
<1> QED BY <1>1, <1>6, <1>10, <1>11, <1>12, <1>15, <1>16, <1>17 DEF Flow

Gone == [NewConn EXCEPT !.phase = "Gone"]

\* Whom a redirect's timer or a failing redirect refers to is on its way or seated.
LEMMA MoreThanAlone ==
  ASSUME NEW c, Flow(c), ~Alone(conn[c]), conn[c].held \/ conn[c].timer \/ conn[c].failing # {}
                                          \/ conn[c].inside # "no"
  PROVE  conn[c].phase \in {"AwaitingJoin", "RedirectAwaitingLoginReply",
                            "AwaitingRoomReply", "Resolved"}
<1>1. /\ ~NewConn.held /\ ~NewConn.timer /\ NewConn.failing = {} /\ NewConn.inside = "no"
      /\ LET k == Gone
         IN  ~k.held /\ ~k.timer /\ k.failing = {} /\ k.inside = "no"
  BY DEF NewConn, Gone
<1>2. ~AtNew(c) /\ ~AtGone(c)
  BY <1>1 DEF AtNew, AtGone, Gone
<1>3. ~AtAwaitingLogin(c) /\ ~AtSearch(c)
  BY DEF AtAwaitingLogin, BeforeSearch, AtSearch, Alone
<1> QED BY <1>2, <1>3 DEF Flow

\* A reference to the connection of c goes, and perhaps the connection with it.
LEMMA Released ==
  ASSUME GatewayTypeOK, NEW c \in Clients, NEW k, Release(c, k),
         UNCHANGED registry, DOMAIN wish' = Clients, DOMAIN again' = Clients,
         DOMAIN failed' = Clients, DOMAIN heard' = Clients,
         \A d \in Clients \ {c} : SaidSame(d)
  PROVE  /\ GatewayTypeOK' /\ MatchesKept /\ \A d \in Clients \ {c} : Unchanged(d)
         /\ Referenced(k) => /\ conn'[c] = k
                             /\ UNCHANGED <<toShard, fromShard, session, seat, lobby>>
         /\ ~Referenced(k) => conn'[c] = Gone /\ LegIdle(c)'
<1>1. UNCHANGED <<matches, restarts>>
  BY DEF Release, mmVars
<1>2. MatchesKept
  BY <1>1, SameMatches
<1>3. GatewayTypeOK' /\ \A d \in Clients \ {c} : Unchanged(d)
  BY DEF GatewayTypeOK, Unchanged, LegSame, Release, CloseShardLeg
<1>4. ASSUME Referenced(k)
      PROVE  conn'[c] = k /\ UNCHANGED <<toShard, fromShard, session, seat, lobby>>
  BY <1>4 DEF Release, Kept, GatewayTypeOK
<1>5. ASSUME ~Referenced(k) PROVE conn'[c] = Gone /\ LegIdle(c)'
  BY <1>5 DEF Release, Kept, GatewayTypeOK, CloseShardLeg, LegIdle, Gone
<1> QED BY <1>2, <1>3, <1>4, <1>5

LEMMA DisconnectKeeps ==
  ASSUME GatewayTypeOK, ~crashed, NEW c \in Clients, Flow(c), Disconnect(c)
  PROVE  StepOf(c)
<1> DEFINE k == [conn[c] EXCEPT !.held = FALSE]
<1>1. ConnOK(c) /\ conn[c].held
  BY DEF Flow, Disconnect
<1>2. Agree(k, conn[c], {"held"}) /\ ~k.held
  BY <1>1 DEF Agree, ConnFields, ConnOK
<1> HIDE DEF k
<1>3. Release(c, k) /\ Forget(c) /\ UNCHANGED registry /\ crashed' = crashed
  BY DEF Disconnect, k
<1>4. /\ DOMAIN wish' = Clients /\ DOMAIN again' = Clients
      /\ DOMAIN failed' = Clients /\ DOMAIN heard' = Clients
      /\ \A d \in Clients \ {c} : SaidSame(d)
      /\ Forgotten(c)'
  BY <1>3 DEF GatewayTypeOK, Forget, SaidSame, Forgotten
<1>5. /\ GatewayTypeOK' /\ MatchesKept /\ \A d \in Clients \ {c} : Unchanged(d)
      /\ Referenced(k) => /\ conn'[c] = k
                          /\ UNCHANGED <<toShard, fromShard, session, seat, lobby>>
      /\ ~Referenced(k) => conn'[c] = Gone /\ LegIdle(c)'
  BY <1>3, <1>4, Released
<1>6. CASE Referenced(k)
  <2>1. conn'[c] = k /\ UNCHANGED <<toShard, fromShard, session, seat, lobby>> /\ LegSame(c)
    BY <1>5, <1>6 DEF LegSame
  <2>2. /\ Agree(conn'[c], conn[c], {"held", "timer", "failing", "inside"})
        /\ ~conn'[c].held /\ conn'[c].timer = conn[c].timer
        /\ conn'[c].failing = conn[c].failing /\ conn'[c].inside = conn[c].inside
        /\ conn'[c].mmLeg = conn[c].mmLeg
    BY <1>2, <2>1 DEF Agree, ConnFields
  <2>3. CASE ~Alone(conn[c])
    <3>1. conn[c].phase \in {"AwaitingJoin", "RedirectAwaitingLoginReply",
                             "AwaitingRoomReply", "Resolved"}
      BY <1>1, <2>3, MoreThanAlone
    <3>2. conn'[c].failing \subseteq conn[c].failing \cup (IF conn[c].timer THEN {"timer"} ELSE {})
      BY <2>2
    <3>3. Flow(c)'
      BY <1>4, <1>5, <2>1, <2>2, <2>3, <3>1, <3>2, FlagsKeep
    <3> QED BY <1>5, <3>3 DEF StepOf
  <2>4. CASE Alone(conn[c])
    <3>1. conn[c].mmLeg = "told"
      BY <1>2, <1>6, <2>4 DEF Referenced, Alone, Agree, ConnFields
    <3>2. AtSearch(c) /\ conn[c].phase = "AwaitingMatchmaker"
      BY <1>1, <3>1, NewFields
      DEF Flow, AtNew, AtGone, AtAwaitingLogin, AtFirstLogin, BeforeSearch, AtLeaving,
          AtConnecting, AtRelogin, Redirected, AtRoom, AtResolved, Joined
    <3>3. /\ conn'[c].phase = conn[c].phase /\ conn'[c].shard = conn[c].shard
          /\ conn'[c].leg = conn[c].leg /\ conn'[c].open = conn[c].open
          /\ conn'[c].pending = conn[c].pending /\ conn'[c].joinAfter = conn[c].joinAfter
          /\ conn'[c].target = conn[c].target /\ conn'[c].mm = conn[c].mm
          /\ DOMAIN conn'[c] = ConnFields
      BY <2>2 DEF Agree, ConnFields
    <3>4. AtSearch(c)'
      BY <2>1, <2>2, <3>1, <3>2, <3>3, LegKept DEF AtSearch
    <3>5. ConnOK(c)'
      BY <1>1, <1>4, <2>2, <3>3, RoomKeys DEF ConnOK, Forgotten
    <3> QED BY <1>5, <3>2, <3>3, <3>4, <3>5 DEF StepOf, Flow
  <2> QED BY <2>3, <2>4
<1>7. CASE ~Referenced(k)
  <2>1. conn'[c] = Gone /\ LegIdle(c)'
    BY <1>5, <1>7
  <2>2. ~(toShard'[c] # <<>>)
    BY <2>1 DEF LegIdle
  <2>3. Flow(c)'
    BY <1>4, <2>1, <2>2, Freed DEF Gone
  <2> QED BY <1>5, <2>3 DEF StepOf
<1> QED BY <1>6, <1>7

LEMMA SwapKeeps ==
  ASSUME GatewayTypeOK, ~crashed, NEW c \in Clients, Flow(c), Swap(c)
  PROVE  StepOf(c)
<1>1. /\ conn[c].target # NoShard
      /\ conn'[c] = [conn[c] EXCEPT !.shard = conn[c].target, !.leg = "connecting", !.open = FALSE,
                                    !.target = NoShard, !.timer = TRUE, !.mmLeg = "none"]
      /\ CloseShardLeg(c)
      /\ UNCHANGED <<wish, again, failed, heard>>
      /\ UNCHANGED <<matches, restarts>>
  BY DEF Swap, GatewayTypeOK
<1>2. AtLeaving(c) /\ conn[c].phase = "AwaitingJoin" /\ ConnOK(c)
  BY <1>1, NewFields
  DEF Flow, AtNew, NewConn, AtGone, AtAwaitingLogin, AtFirstLogin, BeforeSearch, Alone,
      AtConnecting, AtRelogin, Redirected, AtRoom, AtResolved, Joined, AtSearch
<1>3. MatchesKept
  BY <1>1, SameMatches
<1>4. GatewayTypeOK' /\ \A d \in Clients \ {c} : Unchanged(d)
  BY DEF Swap, GatewayTypeOK, Unchanged, LegSame, SaidSame, CloseShardLeg
<1>5. LegIdle(c)'
  BY <1>1 DEF LegIdle, CloseShardLeg, GatewayTypeOK
<1>6. /\ Agree(conn'[c], conn[c], {"shard", "leg", "open", "target", "timer", "mmLeg"})
      /\ conn'[c].shard = conn[c].target /\ conn'[c].leg = "connecting" /\ conn'[c].open = FALSE
      /\ conn'[c].target = NoShard /\ conn'[c].mmLeg = "none"
  <2>1. DOMAIN conn[c] = ConnFields
    BY <1>2 DEF ConnOK
  <2> QED BY <1>1, <2>1 DEF Agree, ConnFields
<1>7. /\ conn'[c].held = conn[c].held /\ conn'[c].action = conn[c].action
      /\ conn'[c].pending = conn[c].pending /\ conn'[c].joinAfter = conn[c].joinAfter
      /\ conn'[c].inside = conn[c].inside /\ conn'[c].failing = conn[c].failing
      /\ conn'[c].phase = conn[c].phase /\ conn'[c].mm = conn[c].mm
      /\ DOMAIN conn'[c] = ConnFields
  BY <1>6 DEF Agree, ConnFields
<1>8. \A s, m : Asked(c, s, m) => Asked(c, s, m)'
  BY <1>1, <1>3, <1>7, AskedKept
<1>9. AtConnecting(c)'
  BY <1>2, <1>5, <1>6, <1>7, <1>8 DEF AtLeaving, AtConnecting, Redirected
<1>10. ConnOK(c)'
  BY <1>1, <1>2, <1>6, <1>7 DEF ConnOK, AtLeaving, Forgotten
<1> QED BY <1>2, <1>3, <1>4, <1>7, <1>9, <1>10 DEF StepOf, Flow

LEMMA TimerExpiresKeeps ==
  ASSUME GatewayTypeOK, ~crashed, NEW c \in Clients, Flow(c), TimerExpires(c)
  PROVE  StepOf(c)
<1>1. /\ conn[c].timer /\ UNCHANGED <<wish, again, failed, heard>> /\ UNCHANGED registry
      /\ ~Alone(conn[c]) /\ ConnOK(c)
  BY DEF TimerExpires, Alone, Flow
<1>2. conn[c].phase \in {"AwaitingJoin", "RedirectAwaitingLoginReply",
                         "AwaitingRoomReply", "Resolved"}
  BY <1>1, MoreThanAlone
<1>3. CASE conn[c].phase \notin {"AwaitingRoomReply", "Resolved"}
  <2>1. /\ conn'[c] = [conn[c] EXCEPT !.timer = FALSE,
                                      !.failing = conn[c].failing \cup {"timer"}]
        /\ UNCHANGED <<toShard, fromShard, session, seat, lobby>> /\ UNCHANGED <<matches, restarts>>
    BY <1>3 DEF TimerExpires, GatewayTypeOK, mmVars
  <2>2. MatchesKept
    BY <2>1, SameMatches
  <2>3. GatewayTypeOK' /\ \A d \in Clients \ {c} : Unchanged(d)
    BY <1>1, <1>3, <2>1 DEF TimerExpires, GatewayTypeOK, Unchanged, LegSame, SaidSame
  <2>4. /\ Agree(conn'[c], conn[c], {"held", "timer", "failing", "inside"})
        /\ conn'[c].held = conn[c].held /\ ~conn'[c].timer
        /\ conn'[c].failing = conn[c].failing \cup {"timer"}
        /\ conn'[c].inside = conn[c].inside
    <3>1. DOMAIN conn[c] = ConnFields
      BY <1>1 DEF ConnOK
    <3> QED BY <2>1, <3>1 DEF Agree, ConnFields
  <2>5. Flow(c)'
    BY <1>1, <1>2, <2>1, <2>2, <2>4, FlagsKeep DEF LegSame, SaidSame
  <2> QED BY <2>2, <2>3, <2>5 DEF StepOf
<1>4. CASE conn[c].phase \in {"AwaitingRoomReply", "Resolved"}
  <2> DEFINE k == [conn[c] EXCEPT !.timer = FALSE]
  <2>1. Agree(k, conn[c], {"timer"}) /\ ~k.timer
    BY <1>1 DEF Agree, ConnFields, ConnOK
  <2> HIDE DEF k
  <2>2. Release(c, k)
    BY <1>4 DEF TimerExpires, k
  <2>3. /\ GatewayTypeOK' /\ MatchesKept /\ \A d \in Clients \ {c} : Unchanged(d)
        /\ Referenced(k) => /\ conn'[c] = k
                            /\ UNCHANGED <<toShard, fromShard, session, seat, lobby>>
        /\ ~Referenced(k) => conn'[c] = Gone /\ LegIdle(c)'
    <3>1. /\ DOMAIN wish' = Clients /\ DOMAIN heard' = Clients
          /\ DOMAIN again' = Clients /\ DOMAIN failed' = Clients
          /\ \A d \in Clients \ {c} : SaidSame(d)
      BY <1>1 DEF GatewayTypeOK, SaidSame
    <3> QED BY <1>1, <2>2, <3>1, Released
  <2>4. CASE Referenced(k)
    <3>1. /\ Agree(conn'[c], conn[c], {"held", "timer", "failing", "inside"})
          /\ conn'[c].held = conn[c].held /\ ~conn'[c].timer
          /\ conn'[c].failing = conn[c].failing /\ conn'[c].inside = conn[c].inside
      BY <2>1, <2>3, <2>4 DEF Agree, ConnFields
    <3>2. conn'[c].failing \subseteq conn[c].failing \cup (IF conn[c].timer THEN {"timer"} ELSE {})
      BY <3>1
    <3>3. UNCHANGED <<toShard, fromShard, session, seat, lobby>>
      BY <2>3, <2>4
    <3>4. Flow(c)'
      BY <1>1, <1>2, <2>3, <3>1, <3>2, <3>3, FlagsKeep DEF LegSame, SaidSame
    <3> QED BY <2>3, <3>4 DEF StepOf
  <2>5. CASE ~Referenced(k)
    <3>1. ~conn[c].held
      BY <2>1, <2>5 DEF Referenced, Agree, ConnFields
    <3>2. Forgotten(c)'
      BY <1>1, <3>1 DEF ConnOK, Forgotten
    <3>3. conn'[c] = Gone /\ LegIdle(c)'
      BY <2>3, <2>5
    <3>4. ~(toShard'[c] # <<>>)
      BY <3>3 DEF LegIdle
    <3>5. Flow(c)'
      BY <3>2, <3>3, <3>4, Freed DEF Gone
    <3> QED BY <2>3, <3>5 DEF StepOf
  <2> QED BY <2>4, <2>5
<1> QED BY <1>3, <1>4

\* A callback ends; if it held the last reference, the process may end with it.
LEMMA Left ==
  ASSUME GatewayTypeOK, NEW c \in Clients, NEW k, Leave(c, k),
         DOMAIN toShard' = Clients, \A d \in Clients \ {c} : toShard'[d] = toShard[d],
         UNCHANGED <<registry, fromShard, session, seat, lobby, wish, again, failed, heard>>,
         UNCHANGED mmVars
  PROVE  /\ GatewayTypeOK' /\ MatchesKept /\ \A d \in Clients \ {c} : Unchanged(d)
         /\ Referenced(k) => conn'[c] = k
         /\ ~Referenced(k) => /\ conn'[c] = Gone
                              /\ crashed' \/ k.leg = "none"
<1>1. UNCHANGED <<matches, restarts>>
  BY DEF mmVars
<1>2. MatchesKept
  BY <1>1, SameMatches
<1>3. GatewayTypeOK' /\ \A d \in Clients \ {c} : Unchanged(d)
  BY DEF GatewayTypeOK, Unchanged, LegSame, SaidSame, Leave
<1>4. ASSUME Referenced(k) PROVE conn'[c] = k
  BY <1>4 DEF Leave, Kept, GatewayTypeOK
<1>5. ASSUME ~Referenced(k) PROVE conn'[c] = Gone
  BY <1>5 DEF Leave, Kept, GatewayTypeOK, Gone
<1>6. ASSUME ~Referenced(k) PROVE crashed' \/ k.leg = "none"
  BY <1>6 DEF Leave
<1> QED BY <1>2, <1>3, <1>4, <1>5, <1>6

\* In the phases of a redirect and of a match, without a leg there is no client.
LEMMA NoLeg ==
  ASSUME NEW c, Flow(c), conn[c].leg = "none",
         conn[c].phase \in {"AwaitingJoin", "RedirectAwaitingLoginReply",
                            "AwaitingRoomReply", "Resolved"}
  PROVE  LegIdle(c)
BY DEF Flow, AtFirstLogin, AtLeaving, AtConnecting, AtRelogin, AtRoom, AtResolved, Cut

\* failRedirect disconnects the client of a connection that is still referred to.
LEMMA CutKeeps ==
  ASSUME NEW c, Flow(c), MatchesKept, conn[c].failing # {},
         Agree(conn'[c], conn[c], {"held", "leg", "failing"}),
         ~conn'[c].held, conn'[c].leg = "none", conn'[c].failing \subseteq conn[c].failing,
         Forgotten(c)', LegIdle(c)'
  PROVE  Flow(c)'
<1>1. /\ conn'[c].phase = conn[c].phase /\ conn'[c].shard = conn[c].shard
      /\ conn'[c].pending = conn[c].pending /\ conn'[c].joinAfter = conn[c].joinAfter
      /\ conn'[c].target = conn[c].target /\ conn'[c].inside = conn[c].inside
      /\ conn'[c].mm = conn[c].mm /\ conn'[c].mmLeg = conn[c].mmLeg
      /\ DOMAIN conn'[c] = ConnFields
  BY DEF Agree, ConnFields
<1>2. ~Alone(conn[c])
  BY DEF Alone
<1>3. conn[c].phase \in {"AwaitingJoin", "RedirectAwaitingLoginReply",
                         "AwaitingRoomReply", "Resolved"}
  BY <1>2, MoreThanAlone
<1>4. Cut(c)'
  BY DEF Cut
<1>5. ConnOK(c)'
  <2>1. ConnOK(c)
    BY DEF Flow
  <2> QED BY <1>1, <2>1, RoomKeys DEF ConnOK, Forgotten
<1>6. \A s, m : Asked(c, s, m) => Asked(c, s, m)'
  BY AskedKept
<1>7. Redirected(c) => Redirected(c)'
  BY <1>1, <1>6 DEF Redirected
<1>8. ~AtFirstLogin(c) /\ ~AtLeaving(c)
  BY <1>2 DEF AtFirstLogin, BeforeSearch, AtLeaving
<1>9. AtConnecting(c) => AtConnecting(c)'
  BY <1>1, <1>4, <1>7 DEF AtConnecting
<1>10. AtRelogin(c) => AtRelogin(c)'
  BY <1>1, <1>4, <1>7 DEF AtRelogin
<1>11. Joined(c) => Joined(c)'
  BY <1>1 DEF Joined
<1>12. (AtRoom(c) => AtRoom(c)') /\ (AtResolved(c) => AtResolved(c)')
  BY <1>4, <1>11 DEF AtRoom, AtResolved
<1> QED BY <1>1, <1>3, <1>5, <1>8, <1>9, <1>10, <1>12 DEF Flow

LEMMA FailRedirectKeeps ==
  ASSUME GatewayTypeOK, ~crashed, NEW c \in Clients, Flow(c), NEW who, FailRedirect(c, who)
  PROVE  StepOf(c)
<1> DEFINE k == [conn[c] EXCEPT !.failing = conn[c].failing \ {who}]
<1>1. /\ who \in conn[c].failing /\ UNCHANGED registry
      /\ ~Alone(conn[c]) /\ conn[c].failing # {} /\ DOMAIN conn[c] = ConnFields /\ ConnOK(c)
  BY DEF FailRedirect, Alone, Flow, ConnOK
<1>2. Agree(k, conn[c], {"failing"}) /\ k.failing = conn[c].failing \ {who}
  BY <1>1 DEF Agree, ConnFields
<1>3. conn[c].phase \in {"AwaitingJoin", "RedirectAwaitingLoginReply",
                         "AwaitingRoomReply", "Resolved"}
  BY <1>1, MoreThanAlone
<1>4. \/ /\ k.held
         /\ conn' = [conn EXCEPT ![c] = Kept([k EXCEPT !.held = FALSE, !.leg = "none"])]
         /\ CloseShardLeg(c) /\ Forget(c)
         /\ UNCHANGED mmVars
      \/ ~k.held /\ Release(c, k) /\ UNCHANGED <<wish, again, failed, heard, crashed>>
      \/ ~k.held /\ who = "callback" /\ Leave(c, k)
           /\ UNCHANGED <<toShard, fromShard, session, seat, lobby, wish, again, failed, heard, mmVars>>
  BY DEF FailRedirect
<1> HIDE DEF k
<1>5. CASE /\ k.held
           /\ conn' = [conn EXCEPT ![c] = Kept([k EXCEPT !.held = FALSE, !.leg = "none"])]
           /\ CloseShardLeg(c) /\ Forget(c)
           /\ UNCHANGED mmVars
  <2> DEFINE l == [k EXCEPT !.held = FALSE, !.leg = "none"]
  <2>1. /\ Agree(l, conn[c], {"held", "leg", "failing"}) /\ ~l.held /\ l.leg = "none"
        /\ l.failing = conn[c].failing \ {who}
    BY <1>2 DEF Agree, ConnFields
  <2>2. conn'[c] = Kept(l) /\ conn' = [conn EXCEPT ![c] = Kept(l)]
    BY <1>5 DEF GatewayTypeOK
  <2> HIDE DEF l
  <2>3. UNCHANGED <<matches, restarts>>
    BY <1>5 DEF mmVars
  <2>4. MatchesKept
    BY <2>3, SameMatches
  <2>5. GatewayTypeOK' /\ \A d \in Clients \ {c} : Unchanged(d)
    BY <1>1, <1>5, <2>2 DEF GatewayTypeOK, Unchanged, LegSame, SaidSame, CloseShardLeg, Forget
  <2>6. Forgotten(c)' /\ LegIdle(c)'
    BY <1>5 DEF Forget, Forgotten, CloseShardLeg, LegIdle, GatewayTypeOK
  <2>7. CASE Referenced(l)
    <3>1. conn'[c] = l
      BY <2>2, <2>7 DEF Kept
    <3>2. l.failing \subseteq conn[c].failing
      BY <2>1
    <3>3. Flow(c)'
      BY <1>1, <2>1, <2>4, <2>6, <3>1, <3>2, CutKeeps
    <3> QED BY <2>4, <2>5, <3>3 DEF StepOf
  <2>8. CASE ~Referenced(l)
    <3>1. conn'[c] = Gone
      BY <2>2, <2>8 DEF Kept, Gone
    <3>2. ~(toShard'[c] # <<>>)
      BY <2>6 DEF LegIdle
    <3>3. Flow(c)'
      BY <2>6, <3>1, <3>2, Freed DEF Gone
    <3> QED BY <2>4, <2>5, <3>3 DEF StepOf
  <2> QED BY <2>7, <2>8
<1>6. ASSUME conn'[c] = k, UNCHANGED <<toShard, fromShard, session, seat, lobby, wish, again, failed, heard>>,
             ~k.held, MatchesKept
      PROVE  Flow(c)'
  <2>1. /\ Agree(conn'[c], conn[c], {"held", "timer", "failing", "inside"})
        /\ conn'[c].held = conn[c].held /\ conn'[c].timer = conn[c].timer
        /\ ~conn'[c].held /\ conn'[c].inside = conn[c].inside
        /\ conn'[c].failing = conn[c].failing \ {who}
    BY <1>2, <1>6 DEF Agree, ConnFields
  <2>2. conn'[c].failing \subseteq conn[c].failing \cup (IF conn[c].timer THEN {"timer"} ELSE {})
    BY <2>1
  <2> QED BY <1>1, <1>3, <1>6, <2>1, <2>2, FlagsKeep DEF LegSame, SaidSame
<1>7. CASE ~k.held /\ Release(c, k) /\ UNCHANGED <<wish, again, failed, heard, crashed>>
  <2>1. /\ GatewayTypeOK' /\ MatchesKept /\ \A d \in Clients \ {c} : Unchanged(d)
        /\ Referenced(k) => /\ conn'[c] = k
                            /\ UNCHANGED <<toShard, fromShard, session, seat, lobby>>
        /\ ~Referenced(k) => conn'[c] = Gone /\ LegIdle(c)'
    <3>1. /\ DOMAIN wish' = Clients /\ DOMAIN heard' = Clients
          /\ DOMAIN again' = Clients /\ DOMAIN failed' = Clients
          /\ \A d \in Clients \ {c} : SaidSame(d)
      BY <1>7 DEF GatewayTypeOK, SaidSame
    <3> QED BY <1>1, <1>7, <3>1, Released
  <2>2. CASE Referenced(k)
    BY <1>6, <1>7, <2>1, <2>2 DEF StepOf
  <2>3. CASE ~Referenced(k)
    <3>1. ~conn[c].held
      BY <1>2, <1>7 DEF Agree, ConnFields
    <3>2. Forgotten(c)'
      BY <1>1, <1>7, <3>1 DEF ConnOK, Forgotten
    <3>3. conn'[c] = Gone /\ LegIdle(c)'
      BY <2>1, <2>3
    <3>4. ~(toShard'[c] # <<>>)
      BY <3>3 DEF LegIdle
    <3>5. Flow(c)'
      BY <3>2, <3>3, <3>4, Freed DEF Gone
    <3> QED BY <2>1, <3>5 DEF StepOf
  <2> QED BY <2>2, <2>3
<1>8. CASE ~k.held /\ who = "callback" /\ Leave(c, k)
             /\ UNCHANGED <<toShard, fromShard, session, seat, lobby, wish, again, failed, heard, mmVars>>
  <2>1. /\ GatewayTypeOK' /\ MatchesKept /\ \A d \in Clients \ {c} : Unchanged(d)
        /\ Referenced(k) => conn'[c] = k
        /\ ~Referenced(k) => /\ conn'[c] = Gone
                             /\ crashed' \/ k.leg = "none"
    BY <1>1, <1>8, Left DEF GatewayTypeOK
  <2>2. CASE Referenced(k)
    BY <1>6, <1>8, <2>1, <2>2 DEF StepOf
  <2>3. CASE ~Referenced(k)
    <3>1. ~conn[c].held
      BY <1>2, <1>8 DEF Agree, ConnFields
    <3>2. Forgotten(c)'
      BY <1>1, <1>8, <3>1 DEF ConnOK, Forgotten
    <3>3. conn[c].phase = "RedirectAwaitingLoginReply"
      BY <1>1, <1>3, <1>8
      DEF Flow, AtFirstLogin, BeforeSearch, Alone, AtLeaving, AtConnecting, AtRoom, AtResolved, Joined
    <3>4. LegIdle(c)
      BY <1>1, <1>8, <3>3 DEF Flow, AtRelogin, Cut
    <3>5. LegIdle(c)'
      BY <1>8, <3>4, LegKept DEF LegSame
    <3>6. ~(toShard'[c] # <<>>)
      BY <3>5 DEF LegIdle
    <3>7. Flow(c)'
      BY <2>1, <2>3, <3>2, <3>5, <3>6, Freed DEF Gone
    <3> QED BY <2>1, <3>7 DEF StepOf
  <2> QED BY <2>2, <2>3
<1> QED BY <1>4, <1>5, <1>7, <1>8

\* A JOIN on a leg finds the session its LOGIN opened.
LEMMA JoinFinds ==
  ASSUME NEW c, Flow(c), toShard[c] # <<>>, Head(toShard[c]).type = "JOIN"
  PROVE  session[c]
<1>1. Head(<<Login>>) = Login /\ Login.type # "JOIN"
  BY Queues, Messages
<1>2. ~LoginRuns(c) /\ ~LegIdle(c) /\ ~LoggedIn(c)
  BY <1>1 DEF LoginRuns, LegIdle, LoggedIn
<1>3. ~AtNew(c) /\ ~AtAwaitingLogin(c) /\ ~AtFirstLogin(c) /\ ~AtLeaving(c) /\ ~AtConnecting(c)
      /\ ~AtRelogin(c) /\ ~AtSearch(c) /\ ~Cut(c)
  BY <1>2 DEF AtNew, AtAwaitingLogin, AtFirstLogin, AtLeaving, AtConnecting, AtRelogin, AtSearch, Cut
<1>4. AtRoom(c) => session[c]
  BY <1>3 DEF AtRoom, JoinsRun, SeatNews, Seated
<1>5. AtResolved(c) => session[c]
  BY <1>3 DEF AtResolved, Afresh, JoinsRun, InLobby, Reaped, SeatNews, SeatKnown, Seated
<1> QED BY <1>3, <1>4, <1>5 DEF Flow, AtGone

LEMMA RelayKeeps ==
  ASSUME GatewayTypeOK, ~crashed, NEW c \in Clients, Flow(c), Relay(c)
  PROVE  StepOf(c)
<1>1. /\ conn[c].leg = "open" /\ conn[c].inside = "no" /\ seat[c] # NoSeat
      /\ conn'[c] = [conn[c] EXCEPT !.inside = "message"]
      /\ DOMAIN conn' = Clients /\ \A d \in Clients \ {c} : conn'[d] = conn[d]
      /\ UNCHANGED <<registry, toShard, fromShard, session, seat, lobby, wish, again, failed, heard>>
      /\ UNCHANGED <<matches, restarts>>
  BY DEF Relay, GatewayTypeOK, mmVars
<1>2. MatchesKept
  BY <1>1, SameMatches
<1>3. GatewayTypeOK' /\ \A d \in Clients \ {c} : Unchanged(d)
  BY <1>1 DEF GatewayTypeOK, Unchanged, LegSame, SaidSame
<1>4. DOMAIN conn[c] = ConnFields
  BY DEF Flow, ConnOK
<1>5. /\ Agree(conn'[c], conn[c], {"held", "timer", "failing", "inside"})
      /\ conn'[c].held = conn[c].held /\ conn'[c].timer = conn[c].timer
      /\ conn'[c].failing = conn[c].failing /\ conn'[c].inside = "message"
  BY <1>1, <1>4 DEF Agree, ConnFields
<1>6. conn[c].phase \in {"AwaitingJoin", "RedirectAwaitingLoginReply",
                         "AwaitingRoomReply", "Resolved"}
  BY <1>1 DEF Flow, AtNew, AtGone, AtAwaitingLogin, AtSearch, LegIdle, LoggedIn
<1>7. conn'[c].failing \subseteq conn[c].failing \cup (IF conn[c].timer THEN {"timer"} ELSE {})
  BY <1>5
<1>8. Flow(c)'
  BY <1>1, <1>2, <1>5, <1>6, <1>7, FlagsKeep DEF LegSame, SaidSame
<1> QED BY <1>2, <1>3, <1>8 DEF StepOf

LEMMA EndRelayKeeps ==
  ASSUME GatewayTypeOK, ~crashed, NEW c \in Clients, Flow(c), EndRelay(c)
  PROVE  StepOf(c)
<1> DEFINE k == [conn[c] EXCEPT !.inside = "no"]
<1>1. /\ conn[c].inside = "message" /\ ~Alone(conn[c]) /\ DOMAIN conn[c] = ConnFields /\ ConnOK(c)
      /\ UNCHANGED <<registry, toShard, fromShard, session, seat, lobby, wish, again, failed, heard>>
      /\ UNCHANGED mmVars
  BY DEF EndRelay, Alone, Flow, ConnOK
<1>2. Agree(k, conn[c], {"inside"}) /\ k.inside = "no"
  BY <1>1 DEF Agree, ConnFields
<1>3. Leave(c, k)
  BY DEF EndRelay
<1> HIDE DEF k
<1>4. conn[c].phase \in {"AwaitingJoin", "RedirectAwaitingLoginReply",
                         "AwaitingRoomReply", "Resolved"}
  BY <1>1, MoreThanAlone
<1>5. /\ GatewayTypeOK' /\ MatchesKept /\ \A d \in Clients \ {c} : Unchanged(d)
      /\ Referenced(k) => conn'[c] = k
      /\ ~Referenced(k) => /\ conn'[c] = Gone
                           /\ crashed' \/ k.leg = "none"
  BY <1>1, <1>3, Left DEF GatewayTypeOK
<1>6. CASE Referenced(k)
  <2>1. /\ Agree(conn'[c], conn[c], {"held", "timer", "failing", "inside"})
        /\ conn'[c].held = conn[c].held /\ conn'[c].timer = conn[c].timer
        /\ conn'[c].failing = conn[c].failing /\ conn'[c].inside = "no"
    BY <1>2, <1>5, <1>6 DEF Agree, ConnFields
  <2>2. conn'[c].failing \subseteq conn[c].failing \cup (IF conn[c].timer THEN {"timer"} ELSE {})
    BY <2>1
  <2>3. conn'[c].held = conn[c].held /\ SaidSame(c) /\ LegSame(c)
    BY <1>1, <2>1 DEF SaidSame, LegSame
  <2>4. Flow(c)'
    BY <1>1, <1>4, <1>5, <2>1, <2>2, <2>3, FlagsKeep
  <2> QED BY <1>5, <2>4 DEF StepOf
<1>7. CASE ~Referenced(k)
  <2>1. ~conn[c].held /\ k.leg = conn[c].leg
    BY <1>2, <1>7 DEF Referenced, Agree, ConnFields
  <2>2. Forgotten(c)'
    BY <1>1, <2>1 DEF ConnOK, Forgotten
  <2>3. conn[c].leg = "none" => LegIdle(c)'
    BY <1>1, <1>4, NoLeg, LegKept DEF LegSame
  <2>4. toShard'[c] # <<>> /\ Head(toShard'[c]).type = "JOIN" => session'[c]
    BY <1>1, JoinFinds
  <2>5. Flow(c)'
    BY <1>5, <1>7, <2>1, <2>2, <2>3, <2>4, Freed DEF Gone
  <2> QED BY <1>5, <2>5 DEF StepOf
<1> QED BY <1>6, <1>7

LEMMA OnOpenKeeps ==
  ASSUME GatewayTypeOK, ~crashed, NEW c \in Clients, Flow(c), OnOpen(c)
  PROVE  StepOf(c)
<1>1. /\ conn[c].leg = "connecting" /\ conn[c].inside = "no"
      /\ conn'[c] = [conn[c] EXCEPT !.leg = "open", !.open = TRUE, !.pending = <<>>,
                       !.inside = IF conn[c].phase = "AwaitingJoin" /\ conn[c].joinAfter # NoMsg
                                  THEN "open" ELSE "no"]
      /\ toShard'[c] = toShard[c] \o conn[c].pending
      /\ UNCHANGED <<fromShard, session, seat, lobby, wish, again, failed, heard>>
      /\ UNCHANGED <<matches, restarts>>
  BY DEF OnOpen, GatewayTypeOK, mmVars
<1>2. ConnOK(c) /\ DOMAIN conn[c] = ConnFields
  BY DEF Flow, ConnOK
<1>3. MatchesKept
  BY <1>1, SameMatches
<1>4. GatewayTypeOK' /\ \A d \in Clients \ {c} : Unchanged(d)
  BY DEF OnOpen, GatewayTypeOK, Unchanged, LegSame, SaidSame
<1>5. /\ Agree(conn'[c], conn[c], {"leg", "open", "pending", "inside"})
      /\ conn'[c].leg = "open" /\ conn'[c].open = TRUE /\ conn'[c].pending = <<>>
      /\ conn'[c].inside = IF conn[c].phase = "AwaitingJoin" /\ conn[c].joinAfter # NoMsg
                           THEN "open" ELSE "no"
  BY <1>1, <1>2 DEF Agree, ConnFields
<1>6. /\ conn'[c].held = conn[c].held /\ conn'[c].action = conn[c].action
      /\ conn'[c].shard = conn[c].shard /\ conn'[c].joinAfter = conn[c].joinAfter
      /\ conn'[c].timer = conn[c].timer /\ conn'[c].failing = conn[c].failing
      /\ conn'[c].phase = conn[c].phase /\ conn'[c].mm = conn[c].mm
      /\ conn'[c].target = conn[c].target /\ conn'[c].mmLeg = conn[c].mmLeg
      /\ DOMAIN conn'[c] = ConnFields
  BY <1>5 DEF Agree, ConnFields
<1>7. ConnOK(c)'
  BY <1>1, <1>2, <1>5, <1>6 DEF ConnOK, Forgotten
<1>8. LegIdle(c) => toShard[c] = <<>>
  BY DEF LegIdle
<1>9. BeforeSearch(c) => BeforeSearch(c)' /\ conn'[c].inside = "no"
  BY <1>1, <1>5, <1>6 DEF BeforeSearch, Alone
<1>10. conn[c].phase # "New" /\ conn[c].phase # "Gone"
  BY <1>1, NewFields DEF Flow, AtNew, AtGone
<1>11. CASE AtAwaitingLogin(c) /\ conn[c].phase = "AwaitingLogin"
  <2>1. toShard'[c] = toShard[c]
    BY <1>1, <1>8, <1>11, Queues DEF AtAwaitingLogin
  <2>2. LegIdle(c)'
    BY <1>1, <1>11, <2>1, LegKept DEF AtAwaitingLogin, LegSame
  <2>3. AtAwaitingLogin(c)'
    BY <1>1, <1>5, <1>9, <1>11, <2>2 DEF AtAwaitingLogin
  <2> QED BY <1>3, <1>4, <1>6, <1>7, <1>11, <2>3 DEF StepOf, Flow
<1>12. CASE AtFirstLogin(c) /\ conn[c].phase = "AwaitingJoin"
  <2>1. conn[c].pending = <<Login>> /\ LegIdle(c) /\ heard[c] = <<>> /\ BeforeSearch(c)
    BY <1>1, <1>12 DEF AtFirstLogin
  <2>2. toShard'[c] = <<Login>>
    BY <1>1, <1>8, <2>1, Queues
  <2>3. LoginRuns(c)'
    BY <1>1, <2>1, <2>2 DEF LegIdle, LoginRuns
  <2>4. AtFirstLogin(c)'
    BY <1>1, <1>5, <1>9, <2>1, <2>3 DEF AtFirstLogin
  <2> QED BY <1>3, <1>4, <1>6, <1>7, <1>12, <2>4 DEF StepOf, Flow
<1>13. CASE AtConnecting(c) /\ conn[c].phase = "AwaitingJoin"
  <2>1. Redirected(c) /\ LegIdle(c) /\ conn[c].pending = <<>> /\ "callback" \notin conn[c].failing
    BY <1>1, <1>13 DEF AtConnecting, Cut, Redirected
  <2>2. toShard'[c] = toShard[c]
    BY <1>1, <1>8, <2>1, Queues
  <2>3. LegIdle(c)'
    BY <1>1, <2>1, <2>2, LegKept DEF LegSame
  <2>4. \A s, m : Asked(c, s, m) => Asked(c, s, m)'
    BY <1>1, <1>3, <1>6, AskedKept
  <2>5. Redirected(c)'
    BY <1>5, <1>6, <2>1, <2>4 DEF Redirected
  <2>6. conn'[c].inside = "open"
    <3>1. conn[c].joinAfter # NoMsg
      BY <2>1, Messages DEF Redirected, Asked, JoinMsg
    <3> QED BY <1>5, <1>13, <3>1
  <2>7. AtConnecting(c)'
    BY <1>5, <1>6, <2>1, <2>3, <2>5, <2>6 DEF AtConnecting
  <2> QED BY <1>3, <1>4, <1>6, <1>7, <1>13, <2>7 DEF StepOf, Flow
<1> QED BY <1>1, <1>10, <1>11, <1>12, <1>13
        DEF Flow, AtLeaving, AtRelogin, AtRoom, AtResolved, AtSearch, Cut

LEMMA ReplayLoginKeeps ==
  ASSUME GatewayTypeOK, ~crashed, NEW c \in Clients, Flow(c), ReplayLogin(c)
  PROVE  StepOf(c)
<1> DEFINE k == [conn[c] EXCEPT !.inside = "no", !.phase = "RedirectAwaitingLoginReply"]
<1>1. /\ conn[c].inside = "open" /\ ~Alone(conn[c]) /\ DOMAIN conn[c] = ConnFields /\ ConnOK(c)
      /\ UNCHANGED <<registry, fromShard, session, seat, lobby, wish, again, failed, heard>>
      /\ UNCHANGED mmVars
      /\ toShard' = IF conn[c].leg = "open" THEN [toShard EXCEPT ![c] = Append(@, Login)] ELSE toShard
  BY DEF ReplayLogin, Alone, Flow, ConnOK
<1>2. /\ Agree(k, conn[c], {"inside", "phase"}) /\ k.inside = "no"
      /\ k.phase = "RedirectAwaitingLoginReply"
  BY <1>1 DEF Agree, ConnFields
<1>3. Leave(c, k)
  BY DEF ReplayLogin
<1> HIDE DEF k
<1>4. AtConnecting(c)
  <2>1. conn[c].phase \in {"AwaitingJoin", "RedirectAwaitingLoginReply",
                           "AwaitingRoomReply", "Resolved"}
    BY <1>1, MoreThanAlone
  <2> QED BY <1>1, <2>1 DEF Flow, AtFirstLogin, BeforeSearch, AtLeaving, AtRelogin,
                            AtRoom, AtResolved, Joined
<1>5. LegIdle(c) /\ Redirected(c) /\ "callback" \notin conn[c].failing
      /\ (conn[c].leg = "open" \/ Cut(c))
  BY <1>1, <1>4 DEF AtConnecting, Cut
<1>6. DOMAIN toShard' = Clients /\ \A d \in Clients \ {c} : toShard'[d] = toShard[d]
  BY <1>1 DEF GatewayTypeOK
<1>7. /\ GatewayTypeOK' /\ MatchesKept /\ \A d \in Clients \ {c} : Unchanged(d)
      /\ Referenced(k) => conn'[c] = k
      /\ ~Referenced(k) => /\ conn'[c] = Gone
                           /\ crashed' \/ k.leg = "none"
  BY <1>1, <1>3, <1>6, Left
<1>8. conn[c].leg = "open" => toShard'[c] = <<Login>> /\ LoginRuns(c)'
  <2>1. conn[c].leg = "open" => toShard'[c] = Append(toShard[c], Login)
    BY <1>1 DEF GatewayTypeOK
  <2> QED BY <1>1, <1>5, <2>1, Queues DEF LegIdle, LoginRuns
<1>9. conn[c].leg # "open" => toShard'[c] = toShard[c] /\ LegIdle(c)'
  BY <1>1, <1>5, LegKept DEF LegSame
<1>10. CASE Referenced(k)
  <2>1. /\ Agree(conn'[c], conn[c], {"inside", "phase"})
        /\ conn'[c].inside = "no" /\ conn'[c].phase = "RedirectAwaitingLoginReply"
    BY <1>2, <1>7, <1>10
  <2>2. /\ conn'[c].held = conn[c].held /\ conn'[c].action = conn[c].action
        /\ conn'[c].shard = conn[c].shard /\ conn'[c].joinAfter = conn[c].joinAfter
        /\ conn'[c].failing = conn[c].failing /\ conn'[c].leg = conn[c].leg
        /\ conn'[c].open = conn[c].open /\ conn'[c].mm = conn[c].mm
        /\ conn'[c].pending = conn[c].pending
        /\ conn'[c].target = conn[c].target /\ conn'[c].mmLeg = conn[c].mmLeg
        /\ DOMAIN conn'[c] = ConnFields
    BY <2>1 DEF Agree, ConnFields
  <2>3. \A s, m : Asked(c, s, m) => Asked(c, s, m)'
    BY <1>1, <1>7, <2>2, AskedKept
  <2>4. Redirected(c)'
    BY <1>5, <2>2, <2>3 DEF Redirected
  <2>5. AtRelogin(c)'
    BY <1>5, <1>8, <1>9, <2>1, <2>2, <2>4 DEF AtRelogin, Cut
  <2>6. ConnOK(c)'
    BY <1>1, <2>2 DEF ConnOK, Forgotten
  <2> QED BY <1>7, <2>1, <2>5, <2>6 DEF StepOf, Flow
<1>11. CASE ~Referenced(k)
  <2>1. ~conn[c].held /\ k.leg = conn[c].leg
    BY <1>2, <1>11 DEF Referenced, Agree, ConnFields
  <2>2. Forgotten(c)'
    BY <1>1, <2>1 DEF ConnOK, Forgotten
  <2>3. ~(toShard'[c] # <<>> /\ Head(toShard'[c]).type = "JOIN")
    BY <1>8, <1>9, Queues, Messages DEF LegIdle
  <2>4. ~crashed' => LegIdle(c)'
    BY <1>7, <1>9, <1>11, <2>1
  <2>5. Flow(c)'
    BY <1>7, <1>11, <2>2, <2>3, <2>4, Freed DEF Gone
  <2> QED BY <1>7, <2>5 DEF StepOf
<1> QED BY <1>10, <1>11

\* What a client has heard that searched in vain, and one message more.
LEMMA VainMore ==
  ASSUME NEW h, Vain(h), NEW m
  PROVE  /\ Len(h) \in Nat /\ Len(h) >= 2 /\ h # <<LoginOk>>
         /\ Len(Append(h, m)) = Len(h) + 1 /\ Append(h, m)[1] = LoginOk
         /\ \A n \in 2 .. Len(h) : Append(h, m)[n] = SearchFailed
         /\ Append(h, m)[Len(h) + 1] = m
         /\ m = SearchFailed => Vain(Append(h, m))
<1> DEFINE S == {LoginOk, SearchFailed, m}
           t == Append(h, m)
<1>1. /\ h \in Seq({LoginOk, SearchFailed}) /\ Len(h) >= 2 /\ h[1] = LoginOk
      /\ \A n \in 2 .. Len(h) : h[n] = SearchFailed
  BY DEF Vain
<1>2. PICK l \in Nat : l = Len(h)
  BY <1>1, LenProperties
<1>3. h \in Seq(S)
  BY <1>1
<1>4. t \in Seq(S) /\ Len(t) = l + 1 /\ (\A n \in 1 .. l : t[n] = h[n]) /\ t[l + 1] = m
  BY <1>2, <1>3, AppendProperties
<1>5. m = SearchFailed => t \in Seq({LoginOk, SearchFailed})
  BY <1>1, AppendProperties
<1> HIDE DEF t, S
<1>6. t[1] = LoginOk /\ \A n \in 2 .. l : t[n] = SearchFailed
  BY <1>1, <1>2, <1>4
<1>7. h # <<LoginOk>>
  <2>1. Len(<<LoginOk>>) = 1
    OBVIOUS
  <2> QED BY <1>1, <1>2, <2>1
<1>8. m = SearchFailed => Vain(t)
  <2>1. ASSUME m = SearchFailed, NEW n \in 2 .. l + 1 PROVE t[n] = SearchFailed
    <3>1. n \in 2 .. l \/ n = l + 1
      BY <2>1
    <3> QED BY <1>4, <1>6, <2>1, <3>1
  <2>2. Len(t) >= 2
    BY <1>1, <1>2, <1>4
  <2> QED BY <1>4, <1>5, <1>6, <2>1, <2>2 DEF Vain
<1> QED BY <1>1, <1>2, <1>4, <1>6, <1>7, <1>8 DEF t

\* Where a client is that the shard has answered.
LEMMA AnsweredFrom ==
  ASSUME ~crashed, NEW c, Flow(c), fromShard[c] # <<>>
  PROVE  /\ conn[c].leg = "open"
         /\ \/ /\ conn[c].phase = "AwaitingJoin" /\ AtFirstLogin(c) /\ LoginRuns(c)
               /\ heard[c] = <<>> /\ conn[c].pending = <<>>
            \/ /\ conn[c].phase = "RedirectAwaitingLoginReply" /\ AtRelogin(c) /\ LoginRuns(c)
               /\ "callback" \notin conn[c].failing
            \/ /\ conn[c].phase = "AwaitingRoomReply" /\ Joined(c) /\ SeatNews(c) /\ Came(c)
               /\ conn[c].held => heard[c] = <<LoginOk>>
            \/ /\ conn[c].phase = "Resolved" /\ Joined(c) /\ SeatNews(c)
               /\ conn[c].held => wish[c] = Quick /\ NamedRoom(c) /\ Owed(c, 1)
            \/ /\ conn[c].phase = "Resolved" /\ Joined(c) /\ Reaped(c) /\ Alone(conn[c])
               /\ wish[c] = Quick /\ Unanswered(c) /\ Owed(c, 1)
<1>1. ~LegIdle(c) /\ ~LoggedIn(c) /\ ~SeatKnown(c) /\ ~Cut(c) /\ ~JoinsRun(c) /\ ~InLobby(c)
  BY DEF LegIdle, LoggedIn, SeatKnown, Cut, JoinsRun, InLobby
<1>2. ~AtNew(c) /\ ~AtGone(c) /\ ~AtAwaitingLogin(c) /\ ~AtLeaving(c) /\ ~AtConnecting(c) /\ ~AtSearch(c)
  BY <1>1 DEF AtNew, AtGone, AtAwaitingLogin, AtLeaving, AtConnecting, AtSearch
<1>3. AtFirstLogin(c) => /\ LoginRuns(c) /\ heard[c] = <<>> /\ conn[c].pending = <<>>
                         /\ conn[c].leg = "open"
  BY <1>1 DEF AtFirstLogin
<1>4. AtRelogin(c) => LoginRuns(c) /\ "callback" \notin conn[c].failing /\ conn[c].leg = "open"
  BY <1>1 DEF AtRelogin
<1>5. AtRoom(c) => /\ Joined(c) /\ conn[c].leg = "open" /\ SeatNews(c) /\ Came(c)
                   /\ conn[c].held => heard[c] = <<LoginOk>>
  BY <1>1 DEF AtRoom
<1>6. AtResolved(c) =>
        /\ Joined(c) /\ conn[c].leg = "open"
        /\ \/ SeatNews(c) /\ (conn[c].held => wish[c] = Quick /\ NamedRoom(c) /\ Owed(c, 1))
           \/ Reaped(c) /\ Alone(conn[c]) /\ wish[c] = Quick /\ Unanswered(c) /\ Owed(c, 1)
  BY <1>1 DEF AtResolved, Afresh, Alone
<1> QED BY <1>2, <1>3, <1>4, <1>5, <1>6 DEF Flow

LEMMA OnLoginReplyKeeps ==
  ASSUME GatewayTypeOK, ~crashed, NEW c \in Clients, Flow(c), OnLoginReply(c)
  PROVE  StepOf(c)
<1> DEFINE m == Head(fromShard[c])
           replayed == conn[c].phase = "RedirectAwaitingLoginReply"
<1>1. /\ fromShard[c] # <<>> /\ m \in {LoginOk, LoginFail}
      /\ fromShard' = [fromShard EXCEPT ![c] = Tail(fromShard[c])]
      /\ \/ /\ replayed /\ m = LoginOk
            /\ conn' = [conn EXCEPT ![c] = [conn[c] EXCEPT !.phase = "AwaitingRoomReply",
                                                           !.joinAfter = NoMsg]]
            /\ toShard' = [toShard EXCEPT ![c] = Append(toShard[c], conn[c].joinAfter)]
            /\ UNCHANGED <<heard, failed>>
         \/ /\ replayed /\ m = LoginFail
            /\ conn' = [conn EXCEPT ![c] = [conn[c] EXCEPT
                                              !.failing = conn[c].failing \cup {"callback"}]]
            /\ UNCHANGED <<toShard, heard, failed>>
         \/ ~replayed /\ Tell(c, m) /\ UNCHANGED <<conn, toShard>>
      /\ UNCHANGED <<registry, session, seat, lobby, wish, again>>
      /\ UNCHANGED <<matches, restarts>>
  BY DEF OnLoginReply, mmVars
<1>2. MatchesKept
  BY <1>1, SameMatches
<1>3. GatewayTypeOK' /\ \A d \in Clients \ {c} : Unchanged(d)
  BY <1>1 DEF GatewayTypeOK, Unchanged, LegSame, SaidSame, Tell
<1>4. ConnOK(c) /\ DOMAIN conn[c] = ConnFields
  BY DEF Flow, ConnOK
<1>5. ~SeatNews(c) /\ ~Reaped(c)
  <2>1. /\ \A key : Head(<<RoomReply(key)>>) \notin {LoginOk, LoginFail}
        /\ Head(<<SearchFailed>>) \notin {LoginOk, LoginFail}
    BY Queues, Messages
  <2> QED BY <1>1, <2>1 DEF SeatNews, Reaped
<1>6. /\ conn[c].leg = "open" /\ LoginRuns(c)
      /\ \/ /\ conn[c].phase = "AwaitingJoin" /\ AtFirstLogin(c)
            /\ heard[c] = <<>> /\ conn[c].pending = <<>>
         \/ /\ conn[c].phase = "RedirectAwaitingLoginReply" /\ AtRelogin(c)
            /\ "callback" \notin conn[c].failing
  BY <1>1, <1>5, AnsweredFrom
<1>7. /\ toShard[c] = <<>> /\ fromShard[c] = <<m>> /\ seat[c] = NoSeat /\ c \notin lobby
      /\ m = LoginOk => session[c]
      /\ m = LoginFail => ~session[c]
  BY <1>1, <1>6, Queues, Messages DEF LoginRuns
<1> HIDE DEF m, replayed
<1>8. fromShard'[c] = <<>>
  <2>1. fromShard'[c] = Tail(<<m>>)
    BY <1>1, <1>7 DEF GatewayTypeOK
  <2> QED BY <2>1, Queues
<1>9. CASE conn[c].phase = "AwaitingJoin"
  <2>1. Tell(c, m) /\ UNCHANGED <<conn, toShard>>
    BY <1>1, <1>9 DEF replayed
  <2>2. AtFirstLogin(c) /\ conn[c].held /\ heard[c] = <<>> /\ conn[c].pending = <<>>
    BY <1>6, <1>9 DEF AtFirstLogin, BeforeSearch, Alone
  <2>3. heard'[c] = <<m>> /\ (failed'[c] <=> failed[c])
    <3>1. heard'[c] = Append(heard[c], m)
      BY <2>1, <2>2 DEF Tell, GatewayTypeOK
    <3>2. m # SearchFailed
      BY <1>1, Messages
    <3>3. failed'[c] <=> failed[c]
      BY <2>1, <2>2, <3>2 DEF Tell, GatewayTypeOK
    <3> QED BY <2>2, <3>1, <3>3, Queues
  <2>4. m = LoginOk => LoggedIn(c)' /\ heard'[c] = <<LoginOk>>
    BY <1>1, <1>6, <1>7, <1>8, <2>1, <2>3 DEF LoggedIn
  <2>5. m = LoginFail => LegIdle(c)' /\ heard'[c] = <<LoginFail>>
    BY <1>1, <1>6, <1>7, <1>8, <2>1, <2>3 DEF LegIdle
  <2>6. BeforeSearch(c)'
    BY <1>1, <2>1, <2>2 DEF AtFirstLogin, BeforeSearch
  <2>7. AtFirstLogin(c)'
    BY <1>1, <1>6, <2>1, <2>2, <2>4, <2>5, <2>6 DEF AtFirstLogin
  <2>8. ConnOK(c)'
    <3>1. wish[c] = NoKey /\ NoKey # Quick
      BY <2>2, RoomKeys DEF AtFirstLogin, BeforeSearch
    <3> QED BY <1>1, <1>4, <2>1, <2>2, <2>3, <3>1 DEF ConnOK
  <2> QED BY <1>2, <1>3, <1>9, <2>1, <2>7, <2>8 DEF StepOf, Flow
<1>10. CASE replayed /\ m = LoginOk
  <2>1. /\ conn'[c] = [conn[c] EXCEPT !.phase = "AwaitingRoomReply", !.joinAfter = NoMsg]
        /\ toShard'[c] = Append(toShard[c], conn[c].joinAfter) /\ SaidSame(c)
    BY <1>1, <1>10, Messages DEF GatewayTypeOK, SaidSame
  <2>2. toShard'[c] = <<conn[c].joinAfter>> /\ toShard'[c] # <<>>
        /\ Head(toShard'[c]) = conn[c].joinAfter
    BY <1>7, <2>1, Queues
  <2>3. /\ Agree(conn'[c], conn[c], {"phase", "joinAfter"})
        /\ conn'[c].phase = "AwaitingRoomReply" /\ conn'[c].joinAfter = NoMsg
    BY <1>4, <2>1 DEF Agree, ConnFields
  <2>4. /\ conn'[c].held = conn[c].held /\ conn'[c].action = conn[c].action
        /\ conn'[c].shard = conn[c].shard /\ conn'[c].inside = conn[c].inside
        /\ conn'[c].failing = conn[c].failing /\ conn'[c].leg = conn[c].leg
        /\ conn'[c].open = conn[c].open /\ conn'[c].mm = conn[c].mm
        /\ conn'[c].pending = conn[c].pending
        /\ conn'[c].target = conn[c].target /\ conn'[c].mmLeg = conn[c].mmLeg
        /\ DOMAIN conn'[c] = ConnFields
    BY <2>3 DEF Agree, ConnFields
  <2>5. Redirected(c) /\ conn[c].inside = "no" /\ "callback" \notin conn[c].failing
    BY <1>6, <1>10 DEF AtRelogin, replayed
  <2>6. \A s, j : Asked(c, s, j) => Asked(c, s, j)'
    BY <1>1, <1>2, <2>1, <2>4, AskedKept DEF SaidSame
  <2>7. \A s, j : s = conn'[c].shard /\ j = Head(toShard'[c]) =>
           Asked(c, s, j)'
    BY <2>2, <2>4, <2>5, <2>6 DEF Redirected
  <2>8. Asked(c, conn[c].shard, Head(toShard[c]))'
    BY <2>7
  <2>9. JoinsRun(c)'
    <3>1. conn[c].joinAfter \in JoinMsg
      BY <2>5 DEF Redirected, Asked
    <3>2. toShard'[c] \in Seq(JoinMsg)
      BY <2>2, <3>1
    <3> QED BY <1>1, <1>7, <1>8, <1>10, <3>2 DEF JoinsRun
  <2>10. AtRoom(c)'
    BY <1>6, <2>2, <2>3, <2>4, <2>5, <2>8, <2>9 DEF AtRoom, Joined, Redirected
  <2>11. ConnOK(c)'
    BY <1>1, <1>4, <2>1, <2>4 DEF ConnOK, Forgotten, SaidSame
  <2> QED BY <1>2, <1>3, <2>3, <2>10, <2>11 DEF StepOf, Flow
<1>11. CASE replayed /\ m = LoginFail
  <2>1. /\ conn'[c] = [conn[c] EXCEPT !.failing = conn[c].failing \cup {"callback"}]
        /\ toShard'[c] = toShard[c] /\ SaidSame(c)
    BY <1>1, <1>11, Messages DEF GatewayTypeOK, SaidSame
  <2>2. /\ Agree(conn'[c], conn[c], {"failing"})
        /\ conn'[c].failing = conn[c].failing \cup {"callback"}
    BY <1>4, <2>1 DEF Agree, ConnFields
  <2>3. /\ conn'[c].held = conn[c].held /\ conn'[c].action = conn[c].action
        /\ conn'[c].shard = conn[c].shard /\ conn'[c].inside = conn[c].inside
        /\ conn'[c].joinAfter = conn[c].joinAfter /\ conn'[c].leg = conn[c].leg
        /\ conn'[c].open = conn[c].open /\ conn'[c].mm = conn[c].mm
        /\ conn'[c].pending = conn[c].pending /\ conn'[c].phase = conn[c].phase
        /\ conn'[c].target = conn[c].target /\ conn'[c].mmLeg = conn[c].mmLeg
        /\ DOMAIN conn'[c] = ConnFields
    BY <2>2 DEF Agree, ConnFields
  <2>4. Redirected(c) /\ conn[c].inside = "no"
    BY <1>6, <1>11 DEF AtRelogin, replayed
  <2>5. \A s, j : Asked(c, s, j) => Asked(c, s, j)'
    BY <1>1, <1>2, <2>1, <2>3, AskedKept DEF SaidSame
  <2>6. Redirected(c)'
    BY <2>3, <2>4, <2>5 DEF Redirected
  <2>7. LegIdle(c)'
    BY <1>1, <1>6, <1>7, <1>8, <1>11, <2>1 DEF LegIdle
  <2>8. AtRelogin(c)'
    BY <1>6, <2>2, <2>3, <2>4, <2>6, <2>7 DEF AtRelogin
  <2>9. ConnOK(c)'
    BY <1>1, <1>4, <2>1, <2>3 DEF ConnOK, Forgotten, SaidSame
  <2>10. conn'[c].phase = "RedirectAwaitingLoginReply"
    BY <1>11, <2>3 DEF replayed
  <2> QED BY <1>2, <1>3, <2>8, <2>9, <2>10 DEF StepOf, Flow
<1> QED BY <1>1, <1>6, <1>9, <1>10, <1>11 DEF replayed

LEMMA OnRoomReplyKeeps ==
  ASSUME GatewayTypeOK, ~crashed, NEW c \in Clients, Flow(c), OnRoomReply(c)
  PROVE  StepOf(c)
<1> DEFINE m == Head(fromShard[c])
<1>1. /\ fromShard[c] # <<>> /\ m.type = "ROOM"
      /\ fromShard' = [fromShard EXCEPT ![c] = Tail(fromShard[c])]
      /\ IF conn[c].phase # "AwaitingRoomReply"
         THEN Tell(c, m) /\ UNCHANGED <<conn, registry>>
         ELSE /\ conn' = [conn EXCEPT ![c] = [conn[c] EXCEPT !.phase = "Resolved"]]
              /\ \/ /\ conn[c].action = "AddShardPrefix"
                    /\ Tell(c, RoomReply(Code(conn[c].shard, m.key.n)))
                    /\ UNCHANGED registry
                 \/ /\ conn[c].action = "RegisterFreeform" /\ Tell(c, m)
                    /\ registry' = [registry EXCEPT ![m.key] = conn[c].shard]
                 \/ conn[c].action = "Suppress" /\ UNCHANGED <<heard, failed, registry>>
      /\ UNCHANGED <<toShard, session, seat, lobby, wish, again>>
      /\ UNCHANGED <<matches, restarts>>
  BY DEF OnRoomReply, mmVars
<1>2. MatchesKept
  BY <1>1, SameMatches
<1>3. ConnOK(c) /\ DOMAIN conn[c] = ConnFields /\ conn[c].shard \in Shards
  BY DEF Flow, ConnOK
<1>4. GatewayTypeOK' /\ \A d \in Clients \ {c} : Unchanged(d)
  <2>1. DOMAIN registry' = RoomNames /\ \A n \in RoomNames : registry'[n] \in Shards \cup {NoShard}
    BY <1>1, <1>3 DEF GatewayTypeOK
  <2> QED BY <1>1, <2>1 DEF GatewayTypeOK, Unchanged, LegSame, SaidSame, Tell
<1>5. ~LoginRuns(c) /\ ~Reaped(c)
  <2>1. \A x : Head(<<x>>) = x
    BY Queues
  <2> QED BY <1>1, <2>1, Messages DEF LoginRuns, Reaped
<1>6. /\ conn[c].leg = "open"
      /\ Joined(c) /\ SeatNews(c)
      /\ \/ /\ conn[c].phase = "AwaitingRoomReply"
            /\ Came(c) /\ (conn[c].held => heard[c] = <<LoginOk>>)
         \/ /\ conn[c].phase = "Resolved"
            /\ conn[c].held => wish[c] = Quick /\ NamedRoom(c) /\ Owed(c, 1)
  BY <1>1, <1>5, AnsweredFrom
<1>7. fromShard[c] = <<RoomReply(seat[c].key)>> /\ m = RoomReply(seat[c].key)
  BY <1>6, Queues DEF SeatNews
<1>8. m.key = seat[c].key
  BY <1>7, Messages
<1> HIDE DEF m
<1>9. fromShard'[c] = <<>>
  <2>1. fromShard'[c] = Tail(<<RoomReply(seat[c].key)>>)
    BY <1>1, <1>7 DEF GatewayTypeOK
  <2> QED BY <2>1, Queues
<1>10. CASE conn[c].phase = "Resolved"
  <2>1. Tell(c, m) /\ UNCHANGED conn
    BY <1>1, <1>10
  <2>2. SeatKnown(c)'
    BY <1>1, <1>6, <1>9, <2>1 DEF SeatNews, SeatKnown, Seated
  <2>3. Joined(c)'
    BY <1>6, <2>1 DEF Joined
  <2>4. ASSUME conn[c].held
        PROVE  /\ wish'[c] = Quick /\ again'[c] # <<>> /\ HeardLate(c)' /\ heard'[c] # <<LoginOk>>
               /\ (failed'[c] <=> failed[c])
    <3>1. wish[c] = Quick /\ NamedRoom(c) /\ Owed(c, 1) /\ Vain(heard[c])
      BY <1>6, <1>10, <2>4 DEF Owed
    <3>2. heard'[c] = Append(heard[c], m) /\ (failed'[c] <=> failed[c])
      <4>1. m # SearchFailed
        BY <1>1, Messages
      <4> QED BY <2>1, <2>4, <4>1 DEF Tell, GatewayTypeOK
    <3>3. PICK l \in Nat : l = Len(heard[c])
      BY <3>1, VainMore
    <3>4. /\ l >= 2 /\ Len(heard'[c]) = l + 1 /\ heard'[c][1] = LoginOk
          /\ \A n \in 2 .. l : heard'[c][n] = SearchFailed
          /\ heard'[c][l + 1] = m
      <4>1. /\ Len(heard[c]) >= 2
            /\ Len(Append(heard[c], m)) = Len(heard[c]) + 1
            /\ Append(heard[c], m)[1] = LoginOk
            /\ \A n \in 2 .. Len(heard[c]) : Append(heard[c], m)[n] = SearchFailed
            /\ Append(heard[c], m)[Len(heard[c]) + 1] = m
        BY <3>1, VainMore
      <4> QED BY <3>2, <3>3, <4>1
    <3>5. again[c] # <<>> /\ NamedRoom(c)'
      BY <1>1, <3>1 DEF NamedRoom
    <3>6. PICK a \in Nat : a = Len(again[c]) /\ l + 1 <= 2 + a
      <4>1. Len(again[c]) \in Nat
        BY <1>3, LenProperties DEF ConnOK
      <4> QED BY <3>1, <3>3, <4>1 DEF Owed
    <3>7. ASSUME NEW n \in 2 .. l + 1
          PROVE  \/ heard'[c][n] = SearchFailed
                 \/ heard'[c][n].type = "ROOM" /\ n = l + 1
      <4>1. n \in 2 .. l \/ n = l + 1
        BY <3>4
      <4> QED BY <1>1, <3>4, <4>1
    <3>8. 2 \in 2 .. l /\ 2 <= l + 1 /\ l + 1 # 1
      BY <3>4
    <3>9. HeardLate(c)'
      BY <1>1, <3>4, <3>5, <3>6, <3>7, <3>8 DEF HeardLate
    <3>10. heard'[c] # <<LoginOk>>
      <4>1. Len(<<LoginOk>>) = 1
        OBVIOUS
      <4> QED BY <3>4, <3>8, <4>1
    <3> QED BY <1>1, <3>1, <3>2, <3>5, <3>9, <3>10
  <2>5. AtResolved(c)'
    BY <1>6, <2>1, <2>2, <2>3, <2>4 DEF AtResolved, Afresh
  <2>6. ConnOK(c)'
    <3>1. ~conn[c].held => heard'[c] = heard[c] /\ failed'[c] = failed[c]
      BY <2>1 DEF Tell
    <3>2. conn[c].held => wish[c] # NoKey
      BY <1>6, <1>10, RoomKeys
    <3> QED BY <1>1, <1>3, <2>1, <2>4, <3>1, <3>2 DEF ConnOK, Forgotten
  <2> QED BY <1>2, <1>4, <1>10, <2>1, <2>5, <2>6 DEF StepOf, Flow
<1>11. CASE conn[c].phase = "AwaitingRoomReply"
  <2>1. conn'[c] = [conn[c] EXCEPT !.phase = "Resolved"]
    BY <1>1, <1>11 DEF GatewayTypeOK
  <2>2. Agree(conn'[c], conn[c], {"phase"}) /\ conn'[c].phase = "Resolved"
    BY <1>3, <2>1 DEF Agree, ConnFields
  <2>3. /\ conn'[c].held = conn[c].held /\ conn'[c].action = conn[c].action
        /\ conn'[c].shard = conn[c].shard /\ conn'[c].inside = conn[c].inside
        /\ conn'[c].joinAfter = conn[c].joinAfter /\ conn'[c].leg = conn[c].leg
        /\ conn'[c].open = conn[c].open /\ conn'[c].mm = conn[c].mm
        /\ conn'[c].pending = conn[c].pending /\ conn'[c].failing = conn[c].failing
        /\ conn'[c].target = conn[c].target /\ conn'[c].mmLeg = conn[c].mmLeg
        /\ DOMAIN conn'[c] = ConnFields
    BY <2>2 DEF Agree, ConnFields
  <2>4. SeatKnown(c)'
    BY <1>1, <1>6, <1>9, <2>3 DEF SeatNews, SeatKnown, Seated
  <2>5. Joined(c)'
    BY <1>6, <2>3 DEF Joined
  <2>6. Came(c)'
    BY <1>1, <1>2, <1>6, <1>11, <2>3, MeetsKept DEF Came
  <2>7. ASSUME conn[c].held PROVE Told(c)'
    <3>1. heard[c] = <<LoginOk>> /\ RoomFor(c, wish[c], conn[c].action, conn[c].shard, seat[c].key)
      BY <1>6, <1>11, <2>7 DEF Came
    <3>2. \A x : Tell(c, x) => heard'[c] = <<LoginOk, x>>
      <4>1. \A x : Tell(c, x) => heard'[c] = Append(<<LoginOk>>, x)
        BY <2>7, <3>1 DEF Tell, GatewayTypeOK
      <4> QED BY <4>1, Queues
    <3>3. CASE conn[c].action = "AddShardPrefix" /\ Tell(c, RoomReply(Code(conn[c].shard, m.key.n)))
      BY <1>1, <1>8, <2>3, <3>2, <3>3 DEF Told
    <3>4. CASE conn[c].action = "RegisterFreeform" /\ Tell(c, m)
      <4>1. seat[c].key = wish[c]
        BY <3>1, <3>4 DEF RoomFor
      <4>2. heard'[c] = <<LoginOk, RoomReply(wish[c])>>
        BY <1>7, <3>2, <3>4, <4>1
      <4> QED BY <1>1, <2>3, <3>4, <4>2 DEF Told
    <3>5. CASE conn[c].action = "Suppress" /\ UNCHANGED <<heard, failed>>
      BY <2>3, <3>1, <3>5 DEF Told
    <3> QED BY <1>1, <1>11, <3>3, <3>4, <3>5
  <2>8. AtResolved(c)'
    BY <1>6, <2>3, <2>4, <2>5, <2>6, <2>7 DEF AtResolved
  <2>9. ConnOK(c)'
    <3>1. ~conn[c].held => heard'[c] = heard[c] /\ failed'[c] = failed[c]
      BY <1>1, <1>11 DEF Tell
    <3>2. failed'[c] <=> failed[c]
      <4>1. m # SearchFailed /\ RoomReply(Code(conn[c].shard, m.key.n)) # SearchFailed
        BY <1>1, Messages
      <4> QED BY <1>1, <1>11, <4>1 DEF Tell, GatewayTypeOK
    <3>3. conn[c].held => (wish[c] = Quick /\ heard'[c] = <<LoginOk>> => heard[c] = <<LoginOk>>)
      BY <1>6, <1>11
    <3> QED BY <1>1, <1>3, <2>3, <3>1, <3>2, <3>3 DEF ConnOK, Forgotten
  <2> QED BY <1>2, <1>4, <2>2, <2>8, <2>9 DEF StepOf, Flow
<1> QED BY <1>6, <1>10, <1>11

LEMMA OnShardNoOpponentKeeps ==
  ASSUME GatewayTypeOK, ~crashed, NEW c \in Clients, Flow(c), OnShardNoOpponent(c)
  PROVE  StepOf(c)
<1>1. /\ fromShard[c] # <<>> /\ Head(fromShard[c]) = SearchFailed
      /\ fromShard' = [fromShard EXCEPT ![c] = Tail(fromShard[c])] /\ Tell(c, SearchFailed)
      /\ UNCHANGED <<conn, registry, toShard, session, seat, lobby, wish, again>>
      /\ UNCHANGED <<matches, restarts>>
  BY DEF OnShardNoOpponent, mmVars
<1>2. MatchesKept
  BY <1>1, SameMatches
<1>3. GatewayTypeOK' /\ \A d \in Clients \ {c} : Unchanged(d)
  BY <1>1 DEF GatewayTypeOK, Unchanged, LegSame, SaidSame, Tell
<1>4. ConnOK(c)
  BY DEF Flow
<1>5. ~LoginRuns(c) /\ ~SeatNews(c)
  <2>1. \A x : Head(<<x>>) = x
    BY Queues
  <2> QED BY <1>1, <2>1, Messages DEF LoginRuns, SeatNews
<1>6. /\ conn[c].leg = "open" /\ conn[c].phase = "Resolved" /\ Joined(c) /\ Reaped(c)
      /\ Alone(conn[c]) /\ wish[c] = Quick /\ Unanswered(c) /\ Owed(c, 1)
  BY <1>1, <1>5, AnsweredFrom
<1>7. fromShard'[c] = <<>>
  <2>1. fromShard'[c] = Tail(<<SearchFailed>>)
    BY <1>1, <1>6 DEF Reaped, GatewayTypeOK
  <2> QED BY <2>1, Queues
<1>8. heard'[c] = Append(heard[c], SearchFailed) /\ conn[c].held
  BY <1>1, <1>6 DEF Alone, Tell, GatewayTypeOK
<1>9. /\ Vain(heard[c])' /\ heard'[c] # <<LoginOk>>
      /\ Len(heard[c]) \in Nat /\ Len(heard'[c]) = Len(heard[c]) + 1
      /\ Len(heard[c]) + 1 <= 2 + Len(again[c])
  <2>1. Vain(heard[c]) /\ Len(heard[c]) + 1 <= 2 + Len(again[c])
    BY <1>6 DEF Owed
  <2>2. Vain(Append(heard[c], SearchFailed))
    BY <2>1, VainMore
  <2>3. Vain(heard[c])'
    BY <1>8, <2>2 DEF Vain
  <2>4. heard'[c] # <<LoginOk>>
    BY <1>8, <2>2, VainMore
  <2> QED BY <1>8, <2>1, <2>3, <2>4, VainMore
<1>10. JoinsRun(c)' /\ toShard'[c] = <<>>
  BY <1>1, <1>6, <1>7 DEF Reaped, JoinsRun
<1>11. Len(toShard'[c]) = 0
  BY <1>10
<1>12. Asks(c)'
  BY <1>11 DEF Asks
<1>13. Owed(c, 0)'
  BY <1>1, <1>9 DEF Owed
<1>14. Owed(c, Len(toShard[c]))'
  BY <1>11, <1>13 DEF Owed
<1>15. AtResolved(c)'
  BY <1>1, <1>6, <1>10, <1>12, <1>14 DEF AtResolved, Afresh, Joined
<1>16. ConnOK(c)'
  BY <1>1, <1>4, <1>6, <1>8, <1>9, RoomKeys DEF ConnOK
<1> QED BY <1>1, <1>2, <1>3, <1>6, <1>15, <1>16 DEF StepOf, Flow

\* Only a client that searches has a leg to the matchmaker, until it leaves for its match.
LEMMA SearchingFrom ==
  ASSUME NEW c, Flow(c), conn[c].mmLeg # "none",
         conn[c].mmLeg \in {"connecting", "told"} \/ conn[c].target = NoShard
  PROVE  conn[c].phase = "AwaitingMatchmaker" /\ AtSearch(c)
<1>1. NewConn.mmLeg = "none" /\ Gone.mmLeg = "none"
  BY DEF NewConn, Gone
<1>2. ~AtNew(c) /\ ~AtGone(c)
  BY <1>1 DEF AtNew, AtGone, Gone
<1>3. ~AtLeaving(c)
  BY RoomKeys DEF AtLeaving
<1> QED BY <1>2, <1>3 DEF Flow, AtAwaitingLogin, AtFirstLogin, BeforeSearch, AtConnecting, AtRelogin,
                          Redirected, AtRoom, AtResolved, Joined

\* The leg of a search changes, and nothing else of the client.
LEMMA SearchGoesOn ==
  ASSUME GatewayTypeOK, NEW c \in Clients, Flow(c), AtSearch(c), conn[c].phase = "AwaitingMatchmaker",
         DOMAIN conn' = Clients, \A d \in Clients \ {c} : conn'[d] = conn[d],
         Agree(conn'[c], conn[c], {"mm", "mmLeg", "mmPending"}),
         conn[c].mmLeg # "told", conn'[c].mmLeg \in {"connecting", "open"},
         conn'[c].mm \in 1 .. MaxLegs,
         UNCHANGED <<registry, toShard, fromShard, session, seat, lobby, wish, again, failed, heard>>,
         UNCHANGED <<matches, restarts>>
  PROVE  StepOf(c)
<1>1. MatchesKept
  BY SameMatches
<1>2. GatewayTypeOK' /\ \A d \in Clients \ {c} : Unchanged(d)
  BY DEF GatewayTypeOK, Unchanged, LegSame, SaidSame
<1>3. /\ conn'[c].held = conn[c].held /\ conn'[c].action = conn[c].action
      /\ conn'[c].shard = conn[c].shard /\ conn'[c].inside = conn[c].inside
      /\ conn'[c].joinAfter = conn[c].joinAfter /\ conn'[c].leg = conn[c].leg
      /\ conn'[c].open = conn[c].open /\ conn'[c].failing = conn[c].failing
      /\ conn'[c].pending = conn[c].pending /\ conn'[c].phase = conn[c].phase
      /\ conn'[c].target = conn[c].target /\ conn'[c].timer = conn[c].timer
      /\ DOMAIN conn'[c] = ConnFields
  BY DEF Agree, ConnFields
<1>4. LoggedIn(c)'
  BY LegKept DEF AtSearch, LegSame
<1>5. AtSearch(c)'
  BY <1>3, <1>4 DEF AtSearch
<1>6. conn'[c].mm \in Nat
  BY GatewayAssumption
<1>7. ConnOK(c)'
  BY <1>3, <1>6 DEF Flow, ConnOK, Forgotten
<1> QED BY <1>1, <1>2, <1>3, <1>5, <1>7 DEF StepOf, Flow

LEMMA OnMatchmakerOpenKeeps ==
  ASSUME GatewayTypeOK, ~crashed, NEW c \in Clients, Flow(c), OnMatchmakerOpen(c)
  PROVE  StepOf(c)
<1>1. /\ conn[c].mmLeg = "connecting"
      /\ conn'[c] = [conn[c] EXCEPT !.mmLeg = "open", !.mmPending = FALSE]
      /\ DOMAIN conn' = Clients /\ \A d \in Clients \ {c} : conn'[d] = conn[d]
      /\ UNCHANGED <<registry, toShard, fromShard, session, seat, lobby, wish, again, failed, heard>>
      /\ UNCHANGED <<matches, restarts>>
  BY DEF OnMatchmakerOpen, GatewayTypeOK
<1>2. conn[c].phase = "AwaitingMatchmaker" /\ AtSearch(c)
  BY <1>1, SearchingFrom
<1>3. DOMAIN conn[c] = ConnFields /\ conn[c].mm \in 1 .. MaxLegs
  BY <1>2 DEF Flow, ConnOK, AtSearch
<1>4. /\ Agree(conn'[c], conn[c], {"mm", "mmLeg", "mmPending"})
      /\ conn'[c].mmLeg = "open" /\ conn'[c].mm = conn[c].mm
  BY <1>1, <1>3 DEF Agree, ConnFields
<1> QED BY <1>1, <1>2, <1>3, <1>4, SearchGoesOn

LEMMA LoseMatchmakerLegKeeps ==
  ASSUME GatewayTypeOK, ~crashed, NEW c \in Clients, Flow(c), LoseMatchmakerLeg(c)
  PROVE  StepOf(c)
<1>1. /\ conn[c].mmLeg = "open" /\ conn[c].mm < MaxLegs /\ conn[c].target = NoShard
      /\ conn'[c] = [conn[c] EXCEPT !.mmLeg = "connecting", !.mm = conn[c].mm + 1]
      /\ DOMAIN conn' = Clients /\ \A d \in Clients \ {c} : conn'[d] = conn[d]
      /\ UNCHANGED <<registry, toShard, fromShard, session, seat, lobby, wish, again, failed, heard>>
      /\ UNCHANGED <<matches, restarts>>
  BY DEF LoseMatchmakerLeg, GatewayTypeOK
<1>2. conn[c].phase = "AwaitingMatchmaker" /\ AtSearch(c)
  BY <1>1, SearchingFrom
<1>3. DOMAIN conn[c] = ConnFields /\ conn[c].mm \in 1 .. MaxLegs
  BY <1>2 DEF Flow, ConnOK, AtSearch
<1>4. /\ Agree(conn'[c], conn[c], {"mm", "mmLeg", "mmPending"})
      /\ conn'[c].mmLeg = "connecting" /\ conn'[c].mm = conn[c].mm + 1
  BY <1>1, <1>3 DEF Agree, ConnFields
<1>5. conn'[c].mm \in 1 .. MaxLegs
  BY <1>1, <1>3, <1>4, GatewayAssumption
<1> QED BY <1>1, <1>2, <1>4, <1>5, SearchGoesOn

LEMMA ToldInVain ==
  /\ InVain # <<LoginOk>> /\ Vain(InVain) /\ Len(InVain) = 2
<1>1. Len(InVain) = 2 /\ InVain[1] = LoginOk /\ InVain[2] = SearchFailed /\ Len(<<LoginOk>>) = 1
  BY DEF InVain
<1>2. InVain \in Seq({LoginOk, SearchFailed})
  BY DEF InVain
<1> QED BY <1>1, <1>2 DEF Vain

LEMMA OnNoOpponentKeeps ==
  ASSUME GatewayTypeOK, ~crashed, NEW c \in Clients, Flow(c), OnNoOpponent(c)
  PROVE  StepOf(c)
<1>1. /\ conn[c].mmLeg = "open" /\ conn[c].target = NoShard
      /\ conn'[c] = [conn[c] EXCEPT !.mmLeg = "told"]
      /\ DOMAIN conn' = Clients /\ \A d \in Clients \ {c} : conn'[d] = conn[d]
      /\ Tell(c, SearchFailed)
      /\ UNCHANGED <<registry, toShard, fromShard, session, seat, lobby, wish, again>>
      /\ UNCHANGED <<matches, restarts>>
  BY DEF OnNoOpponent, Answered, GatewayTypeOK, mmVars
<1>2. AtSearch(c) /\ ConnOK(c) /\ DOMAIN conn[c] = ConnFields
      /\ conn[c].phase = "AwaitingMatchmaker"
  BY <1>1, SearchingFrom DEF Flow, ConnOK
<1>3. MatchesKept
  BY <1>1, SameMatches
<1>4. GatewayTypeOK' /\ \A d \in Clients \ {c} : Unchanged(d)
  BY <1>1 DEF GatewayTypeOK, Unchanged, LegSame, SaidSame, Tell
<1>5. Agree(conn'[c], conn[c], {"mmLeg"}) /\ conn'[c].mmLeg = "told"
  BY <1>1, <1>2 DEF Agree, ConnFields
<1>6. /\ conn'[c].held = conn[c].held /\ conn'[c].phase = conn[c].phase
      /\ conn'[c].shard = conn[c].shard /\ conn'[c].inside = conn[c].inside
      /\ conn'[c].joinAfter = conn[c].joinAfter /\ conn'[c].leg = conn[c].leg
      /\ conn'[c].open = conn[c].open /\ conn'[c].failing = conn[c].failing
      /\ conn'[c].pending = conn[c].pending /\ conn'[c].mm = conn[c].mm
      /\ conn'[c].target = conn[c].target /\ conn'[c].timer = conn[c].timer
      /\ DOMAIN conn'[c] = ConnFields
  BY <1>5 DEF Agree, ConnFields
<1>7. LoggedIn(c)'
  BY <1>1, <1>2, LegKept DEF AtSearch, LegSame
<1>8. conn[c].held /\ wish[c] = Quick /\ heard[c] = <<LoginOk>>
  BY <1>1, <1>2 DEF AtSearch
<1>9. heard'[c] = InVain
  <2>1. heard'[c] = Append(<<LoginOk>>, SearchFailed)
    BY <1>1, <1>8 DEF Tell, GatewayTypeOK
  <2> QED BY <2>1, Queues DEF InVain
<1>10. AtSearch(c)'
  BY <1>1, <1>2, <1>5, <1>6, <1>7, <1>8, <1>9 DEF AtSearch, InVain
<1>11. ConnOK(c)'
  BY <1>1, <1>2, <1>6, <1>8, <1>9, RoomKeys, ToldInVain DEF ConnOK
<1> QED BY <1>2, <1>3, <1>4, <1>6, <1>10, <1>11 DEF StepOf, Flow

LEMMA ResolveKeeps ==
  ASSUME GatewayTypeOK, ~crashed, NEW c \in Clients, Flow(c), Resolve(c)
  PROVE  StepOf(c)
<1> DEFINE k == [conn[c] EXCEPT !.phase = "Resolved", !.mmLeg = "none"]
<1>1. /\ conn[c].mmLeg = "told" /\ conn' = [conn EXCEPT ![c] = Kept(k)]
      /\ IF Referenced(k) THEN UNCHANGED <<toShard, fromShard, session, seat, lobby>>
         ELSE CloseShardLeg(c)
      /\ UNCHANGED <<registry, wish, again, failed, heard>> /\ UNCHANGED <<matches, restarts>>
  BY DEF Resolve, TearDown
<1>2. AtSearch(c) /\ ConnOK(c) /\ DOMAIN conn[c] = ConnFields
  BY <1>1, SearchingFrom DEF Flow, ConnOK
<1>3. /\ Agree(k, conn[c], {"phase", "mmLeg"}) /\ k.phase = "Resolved" /\ k.mmLeg = "none"
  BY <1>2 DEF Agree, ConnFields
<1> HIDE DEF k
<1>4. MatchesKept
  BY <1>1, SameMatches
<1>5. GatewayTypeOK' /\ \A d \in Clients \ {c} : Unchanged(d)
  BY <1>1 DEF GatewayTypeOK, Unchanged, LegSame, SaidSame, CloseShardLeg
<1>6. /\ k.held = conn[c].held /\ k.action = conn[c].action
      /\ k.shard = conn[c].shard /\ k.inside = conn[c].inside
      /\ k.joinAfter = conn[c].joinAfter /\ k.leg = conn[c].leg
      /\ k.open = conn[c].open /\ k.failing = conn[c].failing
      /\ k.pending = conn[c].pending /\ k.mm = conn[c].mm
      /\ k.target = conn[c].target /\ k.timer = conn[c].timer
      /\ DOMAIN k = ConnFields
  BY <1>3 DEF Agree, ConnFields
<1>7. Referenced(k) <=> conn[c].held
  BY <1>2, <1>3, <1>6 DEF Referenced, AtSearch
<1>8. CASE conn[c].held
  <2>1. conn'[c] = k /\ LegSame(c)
    BY <1>1, <1>7, <1>8 DEF Kept, GatewayTypeOK, LegSame
  <2>2. wish[c] = Quick /\ heard[c] = InVain
    BY <1>1, <1>2, <1>8 DEF AtSearch
  <2>3. JoinsRun(c)' /\ toShard'[c] = <<>>
    BY <1>2, <2>1 DEF AtSearch, LoggedIn, LegSame, JoinsRun
  <2>4. Len(toShard'[c]) = 0
    BY <2>3
  <2>5. Asks(c)'
    BY <2>4 DEF Asks
  <2>6. Len(again[c]) \in Nat
    BY <1>2, LenProperties DEF ConnOK
  <2>7. Owed(c, 0)'
    BY <1>1, <2>2, <2>6, ToldInVain DEF Owed
  <2>8. Owed(c, Len(toShard[c]))'
    BY <2>4, <2>7 DEF Owed
  <2>9. Joined(c)' /\ Alone(conn[c])' /\ conn'[c].leg = "open"
    BY <1>2, <1>3, <1>6, <1>8, <2>1 DEF Joined, AtSearch, Alone
  <2>10. AtResolved(c)'
    BY <1>1, <2>2, <2>3, <2>5, <2>8, <2>9 DEF AtResolved, Afresh
  <2>11. ConnOK(c)'
    BY <1>1, <1>2, <1>6, <2>1 DEF ConnOK, Forgotten
  <2> QED BY <1>3, <1>4, <1>5, <2>1, <2>10, <2>11 DEF StepOf, Flow
<1>9. CASE ~conn[c].held
  <2>1. conn'[c] = Gone /\ LegIdle(c)'
    BY <1>1, <1>7, <1>9 DEF Kept, GatewayTypeOK, CloseShardLeg, LegIdle, Gone
  <2>2. Forgotten(c)'
    BY <1>1, <1>2, <1>9 DEF ConnOK, Forgotten
  <2>3. ~(toShard'[c] # <<>>)
    BY <2>1 DEF LegIdle
  <2>4. Flow(c)'
    BY <2>1, <2>2, <2>3, Freed DEF Gone
  <2> QED BY <1>4, <1>5, <2>4 DEF StepOf
<1> QED BY <1>8, <1>9

LEMMA OnMatchedKeeps ==
  ASSUME GatewayTypeOK, MatchmakerInv, ~crashed, NEW c \in Clients, Flow(c), OnMatched(c)
  PROVE  StepOf(c)
<1> DEFINE k == [conn[c] EXCEPT !.action = "Suppress"]
           a == Answer(c)
           s == a.shard
           join == Join(MatchRoom(a.key))
<1>1. /\ conn[c].mmLeg = "open" /\ conn[c].target = NoShard /\ answers[MmLeg(c)] # <<>>
      /\ a.type = "MATCHED"
      /\ IF s = k.shard
         THEN /\ SendOrQueue(c, [k EXCEPT !.phase = "AwaitingRoomReply", !.mmLeg = "none"], join)
              /\ TearDown(c)
         ELSE Redirect(c, k, s, join) /\ UNCHANGED mmVars
      /\ UNCHANGED <<registry, fromShard, session, seat, lobby, wish, again, failed, heard>>
  BY DEF OnMatched, Answered
<1>2. AtSearch(c) /\ ConnOK(c) /\ DOMAIN conn[c] = ConnFields
  BY <1>1, SearchingFrom DEF Flow, ConnOK
<1>3. MmLeg(c) \in Conns /\ MmLeg(c)[1] = c
  BY <1>2, GatewayAssumption DEF AtSearch, MmLeg
<1>4. /\ a \in AnswerMsg /\ IsTrue(MmLeg(c), a)
  <2>1. answers[MmLeg(c)] \in Seq(AnswerMsg)
    BY <1>3 DEF MatchmakerInv, MatchmakerTypeOK
  <2>2. 1 \in DOMAIN answers[MmLeg(c)] /\ a = answers[MmLeg(c)][1] /\ a \in AnswerMsg
    BY <1>1, <2>1, FirstOf DEF Answer
  <2> QED BY <1>3, <2>2 DEF MatchmakerInv, AnswersAreTrue
<1>5. /\ k.action = "Suppress" /\ Agree(k, conn[c], {"action"})
  BY <1>2 DEF Agree, ConnFields
<1>6. k.shard = conn[c].shard /\ k.open = conn[c].open /\ k.held = conn[c].held
  BY <1>5 DEF Agree, ConnFields
<1>7. /\ s \in Shards /\ a.key \in Nat
      /\ a.key \in DOMAIN matches /\ matches[a.key].shard = s
      /\ restarts = 0 => \E i \in PairOf(a.key) : i[1] = c
  BY <1>1, <1>3, <1>4 DEF AnswerMsg, IsTrue
<1> HIDE DEF k, a, s
<1>8. UNCHANGED <<matches, restarts>>
  BY <1>1 DEF TearDown, mmVars
<1>9. MatchesKept
  BY <1>8, SameMatches
<1>10. GatewayTypeOK' /\ \A d \in Clients \ {c} : Unchanged(d)
  BY <1>1 DEF GatewayTypeOK, Unchanged, LegSame, SaidSame, SendOrQueue, Redirect
<1>11. join = Join(join.key) /\ join.key = MatchRoom(a.key) /\ join \in JoinMsg
       /\ join.key # Quick /\ join.key # Create
  BY <1>7, RoomKeys, Messages DEF JoinMsg, Join, Msg
<1>12. Meets(c, s, join.key)
  BY <1>7, <1>11, RoomKeys DEF Meets
<1>13. wish[c] = Quick /\ heard[c] = <<LoginOk>> /\ conn[c].held
  BY <1>1, <1>2 DEF AtSearch
<1>14. \A j, sh : sh = s /\ j = join /\ conn'[c].action = "Suppress" => Asked(c, sh, j)'
  <2>1. JoinFor(c, Quick, "Suppress", s, join.key)
    BY <1>11, <1>12, RoomKeys DEF JoinFor, RoomFor
  <2>2. \A sh, key : sh = s /\ key = join.key => JoinFor(c, Quick, "Suppress", sh, key)'
    BY <1>9, <2>1, MeetsKept
  <2>3. wish'[c] = Quick /\ heard'[c] = <<LoginOk>>
    BY <1>1, <1>13
  <2> SUFFICES ASSUME NEW j, NEW sh, sh = s, j = join, conn'[c].action = "Suppress"
               PROVE  Asked(c, sh, j)'
    OBVIOUS
  <2>4. \A w, act : w = Quick /\ act = "Suppress" => JoinFor(c, w, act, sh, j.key)'
    BY <2>2
  <2>5. JoinFor(c, wish[c], conn[c].action, sh, j.key)'
    BY <2>3, <2>4
  <2> QED BY <1>11, <2>3, <2>5 DEF Asked
<1> HIDE DEF join
<1>15. CASE s = k.shard
  <2> DEFINE l == [k EXCEPT !.phase = "AwaitingRoomReply", !.mmLeg = "none"]
  <2>1. /\ Agree(l, conn[c], {"action", "phase", "mmLeg"}) /\ l.action = "Suppress"
        /\ l.phase = "AwaitingRoomReply" /\ l.mmLeg = "none" /\ l.open = conn[c].open
    BY <1>5 DEF Agree, ConnFields
  <2>2. SendOrQueue(c, l, join)
    BY <1>1, <1>15
  <2> HIDE DEF l
  <2>3. conn[c].open
    BY <1>2 DEF ConnOK, AtSearch
  <2>4. conn'[c] = l /\ toShard'[c] = Append(toShard[c], join)
    BY <2>1, <2>2, <2>3 DEF SendOrQueue, GatewayTypeOK
  <2>12. join \in JoinMsg
    BY <1>11
  <2>5. toShard'[c] = <<join>> /\ toShard'[c] # <<>> /\ Head(toShard'[c]) = join
    BY <1>2, <2>4, Queues DEF AtSearch, LoggedIn
  <2>6. /\ conn'[c].held = conn[c].held /\ conn'[c].action = "Suppress"
        /\ conn'[c].shard = conn[c].shard /\ conn'[c].inside = conn[c].inside
        /\ conn'[c].joinAfter = conn[c].joinAfter /\ conn'[c].leg = conn[c].leg
        /\ conn'[c].open = conn[c].open /\ conn'[c].mm = conn[c].mm
        /\ conn'[c].pending = conn[c].pending /\ conn'[c].failing = conn[c].failing
        /\ conn'[c].target = conn[c].target /\ conn'[c].mmLeg = "none"
        /\ DOMAIN conn'[c] = ConnFields /\ conn'[c].phase = "AwaitingRoomReply"
    BY <2>1, <2>4 DEF Agree, ConnFields
  <2>7. JoinsRun(c)'
    <3>1. toShard'[c] \in Seq(JoinMsg)
      BY <2>5, <2>12
    <3> QED BY <1>1, <1>2, <3>1 DEF JoinsRun, AtSearch, LoggedIn
  <2>8. Asked(c, conn[c].shard, Head(toShard[c]))'
    BY <1>6, <1>14, <1>15, <2>5, <2>6
  <2>9. AtRoom(c)'
    BY <1>2, <2>5, <2>6, <2>7, <2>8 DEF AtRoom, Joined, AtSearch, Alone
  <2>10. ConnOK(c)'
    BY <1>1, <1>2, <2>6 DEF ConnOK, Forgotten
  <2> QED BY <1>9, <1>10, <2>6, <2>9, <2>10 DEF StepOf, Flow
<1>16. CASE s # k.shard
  <2>1. /\ conn'[c] = [k EXCEPT !.joinAfter = join, !.phase = "AwaitingJoin", !.target = s]
        /\ toShard'[c] = toShard[c]
    BY <1>1, <1>16 DEF Redirect, GatewayTypeOK
  <2>2. /\ Agree(conn'[c], conn[c], {"action", "joinAfter", "phase", "target"})
        /\ conn'[c].action = "Suppress" /\ conn'[c].joinAfter = join
        /\ conn'[c].phase = "AwaitingJoin" /\ conn'[c].target = s
    BY <1>5, <2>1 DEF Agree, ConnFields
  <2>3. /\ conn'[c].held = conn[c].held /\ conn'[c].timer = conn[c].timer
        /\ conn'[c].shard = conn[c].shard /\ conn'[c].inside = conn[c].inside
        /\ conn'[c].leg = conn[c].leg
        /\ conn'[c].open = conn[c].open /\ conn'[c].mm = conn[c].mm
        /\ conn'[c].pending = conn[c].pending /\ conn'[c].failing = conn[c].failing
        /\ conn'[c].mmLeg = conn[c].mmLeg /\ DOMAIN conn'[c] = ConnFields
    BY <2>2 DEF Agree, ConnFields
  <2>4. LoggedIn(c)'
    BY <1>1, <1>2, <2>1, LegKept DEF AtSearch, LegSame
  <2>5. Asked(c, conn[c].target, conn[c].joinAfter)'
    BY <1>14, <2>2
  <2>6. AtLeaving(c)'
    BY <1>1, <1>2, <1>7, <2>2, <2>3, <2>4, <2>5 DEF AtLeaving, AtSearch, Alone
  <2>7. ConnOK(c)'
    BY <1>1, <1>2, <2>3 DEF ConnOK, Forgotten
  <2> QED BY <1>9, <1>10, <2>2, <2>6, <2>7 DEF StepOf, Flow
<1> QED BY <1>15, <1>16

LEMMA ShardLoginKeeps ==
  ASSUME GatewayTypeOK, ~crashed, NEW c \in Clients, Flow(c), ShardLogin(c)
  PROVE  StepOf(c)
<1>1. /\ toShard[c] # <<>> /\ Head(toShard[c]) = Login
      /\ toShard' = [toShard EXCEPT ![c] = Tail(toShard[c])]
      /\ UNCHANGED <<conn, registry, seat, lobby, wish, again, failed, heard>>
      /\ UNCHANGED <<matches, restarts>>
  BY DEF ShardLogin, mmVars
<1>2. PICK ok \in BOOLEAN :
        /\ session' = [session EXCEPT ![c] = ok]
        /\ fromShard' = [fromShard EXCEPT
                           ![c] = Append(fromShard[c], IF ok THEN LoginOk ELSE LoginFail)]
  BY DEF ShardLogin
<1>3. MatchesKept
  BY <1>1, SameMatches
<1>4. GatewayTypeOK' /\ \A d \in Clients \ {c} : Unchanged(d)
  BY <1>1, <1>2 DEF GatewayTypeOK, Unchanged, LegSame, SaidSame
<1>5. /\ ~LegIdle(c) /\ ~LoggedIn(c) /\ ~Cut(c) /\ toShard[c] \notin Seq(JoinMsg)
  <2>1. toShard[c] \notin Seq(JoinMsg)
    <3>1. toShard[c] \in Seq(JoinMsg) => Head(toShard[c]) \in JoinMsg
      BY <1>1, FirstOf
    <3>2. Login \notin JoinMsg
      BY Messages DEF JoinMsg
    <3> QED BY <1>1, <3>1, <3>2
  <2> QED BY <1>1, <2>1 DEF LegIdle, LoggedIn, Cut
<1>6. ~AtRoom(c) /\ ~AtResolved(c)
  <2>1. ~JoinsRun(c) /\ ~SeatNews(c) /\ ~SeatKnown(c) /\ ~InLobby(c) /\ ~Reaped(c)
    BY <1>1, <1>5 DEF JoinsRun, SeatNews, SeatKnown, Seated, InLobby, Reaped
  <2> QED BY <1>5, <2>1 DEF AtRoom, AtResolved, Afresh
<1>7. \/ /\ conn[c].phase = "AwaitingJoin" /\ AtFirstLogin(c) /\ LoginRuns(c)
         /\ conn[c].leg = "open" /\ conn[c].pending = <<>> /\ heard[c] = <<>>
      \/ /\ conn[c].phase = "RedirectAwaitingLoginReply" /\ AtRelogin(c) /\ LoginRuns(c)
         /\ conn[c].leg = "open" /\ "callback" \notin conn[c].failing
  BY <1>5, <1>6 DEF Flow, AtNew, AtGone, AtAwaitingLogin, AtFirstLogin, AtLeaving, AtConnecting,
                    AtRelogin, AtSearch
<1>8. toShard[c] = <<Login>> /\ fromShard[c] = <<>> /\ seat[c] = NoSeat /\ c \notin lobby
  BY <1>1, <1>7 DEF LoginRuns
<1>9. LoginRuns(c)'
  <2>1. toShard'[c] = Tail(<<Login>>) /\ session'[c] = ok
    BY <1>1, <1>2, <1>8 DEF GatewayTypeOK
  <2>2. toShard'[c] = <<>>
    BY <2>1, Queues
  <2>3. fromShard'[c] = Append(<<>>, IF ok THEN LoginOk ELSE LoginFail)
    BY <1>2, <1>8 DEF GatewayTypeOK
  <2>4. fromShard'[c] = <<IF ok THEN LoginOk ELSE LoginFail>>
    BY <2>3, Queues
  <2> QED BY <1>1, <1>8, <2>1, <2>2, <2>4 DEF LoginRuns
<1>10. ConnOK(c)'
  BY <1>1 DEF Flow, ConnOK, Forgotten
<1>11. ASSUME conn[c].phase = "AwaitingJoin" PROVE AtFirstLogin(c)'
  <2>1. BeforeSearch(c)'
    BY <1>1, <1>7, <1>11 DEF AtFirstLogin, BeforeSearch
  <2> QED BY <1>1, <1>7, <1>9, <1>11, <2>1 DEF AtFirstLogin
<1>12. ASSUME conn[c].phase = "RedirectAwaitingLoginReply" PROVE AtRelogin(c)'
  <2>1. \A s, m : Asked(c, s, m) => Asked(c, s, m)'
    BY <1>1, <1>3, AskedKept
  <2>2. Redirected(c)'
    BY <1>1, <1>7, <1>12, <2>1 DEF AtRelogin, Redirected
  <2> QED BY <1>1, <1>7, <1>9, <1>12, <2>2 DEF AtRelogin
<1> QED BY <1>1, <1>3, <1>4, <1>7, <1>10, <1>11, <1>12 DEF StepOf, Flow

\* A client on its shard's quick-match list searched in vain before, and searches again.
LEMMA InLobbyFrom ==
  ASSUME ~crashed, NEW c, Flow(c), c \in lobby
  PROVE  /\ conn[c].phase = "Resolved" /\ conn[c].leg = "open" /\ Joined(c) /\ ConnOK(c)
         /\ Alone(conn[c]) /\ InLobby(c) /\ wish[c] = Quick
         /\ Unanswered(c) /\ again[c] # <<>> /\ Owed(c, 1)
<1>1. /\ ~LegIdle(c) /\ ~LoginRuns(c) /\ ~JoinsRun(c) /\ ~LoggedIn(c) /\ ~Reaped(c)
      /\ ~SeatNews(c) /\ ~SeatKnown(c) /\ ~Cut(c)
  BY DEF LegIdle, LoginRuns, JoinsRun, LoggedIn, Reaped, SeatNews, SeatKnown, Seated, Cut
<1>2. /\ ~AtNew(c) /\ ~AtGone(c) /\ ~AtAwaitingLogin(c) /\ ~AtFirstLogin(c) /\ ~AtLeaving(c)
      /\ ~AtConnecting(c) /\ ~AtRelogin(c) /\ ~AtSearch(c) /\ ~AtRoom(c)
  BY <1>1 DEF AtNew, AtGone, AtAwaitingLogin, AtFirstLogin, AtLeaving, AtConnecting,
              AtRelogin, AtSearch, AtRoom
<1>3. conn[c].phase = "Resolved" /\ AtResolved(c) /\ ConnOK(c)
  BY <1>2 DEF Flow
<1> QED BY <1>1, <1>3 DEF AtResolved, Afresh, Alone

\* Where a client is whose JOIN arrives at the shard.
LEMMA JoiningFrom ==
  ASSUME ~crashed, NEW c, Flow(c), toShard[c] # <<>>, Head(toShard[c]).type = "JOIN"
  PROVE  /\ ConnOK(c) /\ conn[c].leg = "open" /\ Joined(c) /\ session[c] /\ c \notin lobby
         /\ toShard[c] \in Seq(JoinMsg) /\ Head(toShard[c]) \in JoinMsg
         /\ Tail(toShard[c]) \in Seq(JoinMsg) /\ Len(Tail(toShard[c])) = Len(toShard[c]) - 1
         /\ \/ /\ conn[c].phase = "AwaitingRoomReply" /\ JoinsRun(c) /\ conn[c].inside = "no"
               /\ Asked(c, conn[c].shard, Head(toShard[c]))
            \/ /\ conn[c].phase = "AwaitingRoomReply" /\ SeatNews(c) /\ AtRoom(c)
               /\ Came(c) /\ (conn[c].held => heard[c] = <<LoginOk>>)
            \/ /\ conn[c].phase = "Resolved" /\ SeatKnown(c) /\ Came(c) /\ (conn[c].held => Told(c))
            \/ /\ conn[c].phase = "Resolved" /\ JoinsRun(c) /\ Alone(conn[c]) /\ wish[c] = Quick
               /\ Asks(c) /\ Owed(c, Len(toShard[c]))
            \/ /\ conn[c].phase = "Resolved" /\ SeatNews(c)
               /\ conn[c].held => wish[c] = Quick /\ NamedRoom(c) /\ Owed(c, 1)
            \/ /\ conn[c].phase = "Resolved" /\ SeatKnown(c)
               /\ conn[c].held => wish[c] = Quick /\ again[c] # <<>> /\ HeardLate(c)
<1>1. Head(<<Login>>).type # "JOIN"
  BY Queues, Messages
<1>2. /\ ~LoginRuns(c) /\ ~LegIdle(c) /\ ~LoggedIn(c) /\ ~Cut(c) /\ ~InLobby(c) /\ ~Reaped(c)
  BY <1>1 DEF LoginRuns, LegIdle, LoggedIn, Cut, InLobby, Reaped
<1>3. /\ ~AtNew(c) /\ ~AtGone(c) /\ ~AtAwaitingLogin(c) /\ ~AtFirstLogin(c) /\ ~AtLeaving(c)
      /\ ~AtConnecting(c) /\ ~AtRelogin(c) /\ ~AtSearch(c)
  BY <1>2 DEF AtNew, AtGone, AtAwaitingLogin, AtFirstLogin, AtLeaving, AtConnecting,
              AtRelogin, AtSearch
<1>4. \/ conn[c].phase = "AwaitingRoomReply" /\ AtRoom(c)
      \/ conn[c].phase = "Resolved" /\ AtResolved(c)
  BY <1>3 DEF Flow
<1>5. ConnOK(c) /\ conn[c].leg = "open" /\ Joined(c)
  BY <1>2, <1>4 DEF Flow, AtRoom, AtResolved
<1>6. AtRoom(c) => \/ JoinsRun(c) /\ conn[c].inside = "no" /\ Asked(c, conn[c].shard, Head(toShard[c]))
                   \/ SeatNews(c) /\ Came(c) /\ (conn[c].held => heard[c] = <<LoginOk>>)
  BY <1>2 DEF AtRoom
<1>7. AtResolved(c) =>
        \/ SeatKnown(c) /\ Came(c) /\ (conn[c].held => Told(c))
        \/ JoinsRun(c) /\ Alone(conn[c]) /\ wish[c] = Quick /\ Asks(c) /\ Owed(c, Len(toShard[c]))
        \/ SeatNews(c) /\ (conn[c].held => wish[c] = Quick /\ NamedRoom(c) /\ Owed(c, 1))
        \/ SeatKnown(c) /\ (conn[c].held => wish[c] = Quick /\ again[c] # <<>> /\ HeardLate(c))
  BY <1>2 DEF AtResolved, Afresh, Alone
<1>8. toShard[c] \in Seq(JoinMsg) /\ session[c] /\ c \notin lobby
  BY <1>4, <1>6, <1>7 DEF JoinsRun, SeatNews, SeatKnown, Seated
<1>9. /\ Head(toShard[c]) \in JoinMsg
      /\ Tail(toShard[c]) \in Seq(JoinMsg) /\ Len(Tail(toShard[c])) = Len(toShard[c]) - 1
  BY <1>8, FirstOf, HeadTailProperties
<1> QED BY <1>4, <1>5, <1>6, <1>7, <1>8, <1>9

LEMMA JoinIgnoredKeeps ==
  ASSUME GatewayTypeOK, ~crashed, NEW c \in Clients, Flow(c), JoinIgnored(c)
  PROVE  StepOf(c)
<1>1. /\ toShard[c] # <<>> /\ Head(toShard[c]).type = "JOIN"
      /\ toShard' = [toShard EXCEPT ![c] = Tail(toShard[c])]
      /\ UNCHANGED <<conn, registry, fromShard, session, seat, lobby, wish, again, failed, heard>>
      /\ UNCHANGED <<matches, restarts>>
      /\ ~session[c] \/ seat[c] # NoSeat
  BY DEF JoinIgnored, JoinArrives, mmVars
<1>2. /\ ConnOK(c) /\ conn[c].leg = "open" /\ Joined(c) /\ session[c]
      /\ Tail(toShard[c]) \in Seq(JoinMsg)
  BY <1>1, JoiningFrom
<1>3. MatchesKept
  BY <1>1, SameMatches
<1>4. GatewayTypeOK' /\ \A d \in Clients \ {c} : Unchanged(d)
  BY <1>1 DEF GatewayTypeOK, Unchanged, LegSame, SaidSame
<1>5. ConnOK(c)' /\ Joined(c)' /\ (Came(c) => Came(c)') /\ (Told(c) => Told(c)')
  <2>1. ConnOK(c)' /\ Joined(c)'
    BY <1>1, <1>2 DEF ConnOK, Forgotten, Joined
  <2>2. Came(c) => Came(c)'
    BY <1>1, <1>3, MeetsKept DEF Came
  <2>3. Told(c) => Told(c)'
    BY <1>1 DEF Told
  <2> QED BY <2>1, <2>2, <2>3
<1>6. /\ NamedRoom(c) => NamedRoom(c)'
      /\ Owed(c, 1) => Owed(c, 1)'
      /\ HeardLate(c) => HeardLate(c)'
  <2>1. NamedRoom(c) => NamedRoom(c)'
    BY <1>1 DEF NamedRoom
  <2>2. Owed(c, 1) => Owed(c, 1)'
    BY <1>1 DEF Owed, Vain
  <2>3. HeardLate(c) => HeardLate(c)'
    BY <1>1, <2>1 DEF HeardLate
  <2> QED BY <2>1, <2>2, <2>3
<1>7. toShard'[c] = Tail(toShard[c])
  BY <1>1 DEF GatewayTypeOK
<1>8. (SeatNews(c) => SeatNews(c)') /\ (SeatKnown(c) => SeatKnown(c)')
  BY <1>1, <1>2, <1>7 DEF SeatNews, SeatKnown, Seated
<1>9. ~JoinsRun(c)
  BY <1>1, <1>2 DEF JoinsRun
<1>10. CASE conn[c].phase = "AwaitingRoomReply"
  <2>1. SeatNews(c) /\ Came(c) /\ (conn[c].held => heard[c] = <<LoginOk>>)
    BY <1>1, <1>9, <1>10, JoiningFrom
  <2>2. AtRoom(c)'
    BY <1>1, <1>2, <1>5, <1>8, <2>1 DEF AtRoom
  <2> QED BY <1>1, <1>3, <1>4, <1>5, <1>10, <2>2 DEF StepOf, Flow
<1>11. CASE conn[c].phase = "Resolved"
  <2>1. \/ SeatKnown(c) /\ Came(c) /\ (conn[c].held => Told(c))
        \/ SeatNews(c) /\ (conn[c].held => wish[c] = Quick /\ NamedRoom(c) /\ Owed(c, 1))
        \/ SeatKnown(c) /\ (conn[c].held => wish[c] = Quick /\ again[c] # <<>> /\ HeardLate(c))
    BY <1>1, <1>9, <1>11, JoiningFrom
  <2>2. AtResolved(c)'
    BY <1>1, <1>2, <1>5, <1>6, <1>8, <2>1 DEF AtResolved, Afresh
  <2> QED BY <1>1, <1>3, <1>4, <1>5, <1>11, <2>2 DEF StepOf, Flow
<1> QED BY <1>1, <1>10, <1>11, JoiningFrom

LEMMA JoinRoomKeeps ==
  ASSUME GatewayTypeOK, ~crashed, NEW c \in Clients, Flow(c), JoinRoom(c)
  PROVE  StepOf(c)
<1> DEFINE s == conn[c].shard
           key == Head(toShard[c]).key
           room == IF key = Create THEN Room(rooms[s]) ELSE key
<1>1. /\ toShard[c] # <<>> /\ Head(toShard[c]).type = "JOIN"
      /\ toShard' = [toShard EXCEPT ![c] = Tail(toShard[c])]
      /\ seat[c] = NoSeat /\ key # Quick
      /\ seat' = [seat EXCEPT ![c] = Seat(s, room)]
      /\ fromShard' = [fromShard EXCEPT ![c] = Append(fromShard[c], RoomReply(room))]
      /\ UNCHANGED <<conn, registry, session, lobby, wish, again, failed, heard>>
      /\ UNCHANGED <<matches, restarts>>
  BY DEF JoinRoom, JoinArrives, mmVars
<1>2. /\ ConnOK(c) /\ conn[c].leg = "open" /\ Joined(c) /\ session[c] /\ c \notin lobby
      /\ Tail(toShard[c]) \in Seq(JoinMsg) /\ toShard[c] \in Seq(JoinMsg) /\ s \in Shards
      /\ Len(Tail(toShard[c])) = Len(toShard[c]) - 1
  BY <1>1, JoiningFrom DEF ConnOK
<1>3. MatchesKept
  BY <1>1, SameMatches
<1>4. GatewayTypeOK' /\ \A d \in Clients \ {c} : Unchanged(d)
  BY <1>1 DEF GatewayTypeOK, Unchanged, LegSame, SaidSame
<1>5. ConnOK(c)' /\ Joined(c)'
  BY <1>1, <1>2 DEF ConnOK, Forgotten, Joined
<1>6. ~SeatNews(c) /\ ~SeatKnown(c)
  BY <1>1, <1>2, RoomKeys DEF SeatNews, SeatKnown, Seated
<1>7. \/ /\ conn[c].phase = "AwaitingRoomReply" /\ JoinsRun(c) /\ Asked(c, s, Head(toShard[c]))
      \/ /\ conn[c].phase = "Resolved" /\ JoinsRun(c) /\ Alone(conn[c]) /\ wish[c] = Quick
         /\ Asks(c) /\ Owed(c, Len(toShard[c]))
  BY <1>1, <1>6, JoiningFrom
<1>8. fromShard[c] = <<>>
  BY <1>7 DEF JoinsRun
<1>9. key = Create => room.kind = "room" /\ room = Room(room.n)
  BY RoomKeys
<1>10. key # Create => room = key
  OBVIOUS
<1> HIDE DEF key, room
<1>11. /\ toShard'[c] = Tail(toShard[c]) /\ fromShard'[c] = <<RoomReply(room)>>
       /\ seat'[c] = Seat(s, room)
  <2>1. /\ toShard'[c] = Tail(toShard[c]) /\ fromShard'[c] = Append(<<>>, RoomReply(room))
        /\ seat'[c] = Seat(s, room)
    BY <1>1, <1>8 DEF GatewayTypeOK
  <2> QED BY <2>1, Queues
<1>12. seat'[c].key = room /\ seat'[c].shard = s
  BY <1>11, RoomKeys
<1>13. SeatNews(c)'
  BY <1>1, <1>2, <1>11, <1>12 DEF SeatNews, Seated
<1>14. CASE conn[c].phase = "AwaitingRoomReply"
  <2>1. Asked(c, s, Head(toShard[c]))
    BY <1>7, <1>14
  <2>2. ASSUME conn[c].held
        PROVE  RoomFor(c, wish[c], conn[c].action, s, room) /\ heard[c] = <<LoginOk>>
    <3>1. JoinFor(c, wish[c], conn[c].action, s, key) /\ heard[c] = <<LoginOk>>
      BY <2>1, <2>2 DEF Asked, key
    <3>2. CASE key = Create /\ wish[c] = Create /\ conn[c].action = "AddShardPrefix"
      BY <1>9, <3>1, <3>2 DEF RoomFor
    <3>3. CASE wish[c] # Create /\ RoomFor(c, wish[c], conn[c].action, s, key)
      <4>1. key # Create
        BY <3>3, RoomKeys DEF RoomFor
      <4> QED BY <1>10, <3>1, <3>3, <4>1
    <3> QED BY <3>1, <3>2, <3>3 DEF JoinFor
  <2>3. ASSUME conn[c].held
        PROVE  RoomFor(c, wish[c], conn[c].action, conn[c].shard, seat[c].key)'
    <3>1. \A w, a, x, r : RoomFor(c, w, a, x, r) => RoomFor(c, w, a, x, r)'
      BY <1>3, MeetsKept
    <3>2. \A w, a, x, r : w = wish[c] /\ a = conn[c].action /\ x = s /\ r = room =>
                            RoomFor(c, w, a, x, r)'
      BY <2>2, <2>3, <3>1
    <3>3. /\ wish'[c] = wish[c] /\ conn'[c].action = conn[c].action
          /\ conn'[c].shard = s /\ seat'[c].key = room
      BY <1>1, <1>12
    <3> QED BY <3>2, <3>3
  <2>4. Came(c)' /\ (conn'[c].held => heard'[c] = <<LoginOk>>)
    BY <1>1, <1>12, <2>2, <2>3 DEF Came
  <2>5. AtRoom(c)'
    BY <1>1, <1>2, <1>5, <1>13, <2>4 DEF AtRoom
  <2> QED BY <1>1, <1>3, <1>4, <1>5, <1>14, <2>5 DEF StepOf, Flow
<1>15. CASE conn[c].phase = "Resolved"
  <2>1. /\ JoinsRun(c) /\ Alone(conn[c]) /\ wish[c] = Quick
        /\ Asks(c) /\ Owed(c, Len(toShard[c]))
    BY <1>7, <1>15
  <2>2. PICK l \in Nat : l = Len(toShard[c]) /\ l >= 1 /\ 1 \in 1 .. l /\ toShard[c][1].key = key
    <3>1. Len(toShard[c]) \in Nat /\ Len(toShard[c]) # 0
      BY <1>1, <1>2, LenProperties, EmptySeq
    <3>2. Head(toShard[c]) = toShard[c][1]
      BY <1>1, <1>2, FirstOf
    <3> QED BY <3>1, <3>2 DEF key
  <2>3. PICK m \in DOMAIN again[c] : toShard[c][1] = Join(again[c][m])
    BY <2>1, <2>2 DEF Asks
  <2>4. NamedRoom(c)'
    <3>1. again[c][m] # Quick
      BY <1>1, <2>2, <2>3, Messages
    <3> QED BY <1>1, <3>1 DEF NamedRoom
  <2>5. Owed(c, 1)'
    <3>1. Vain(heard[c]) /\ Len(heard[c]) + l <= 2 + Len(again[c])
      BY <2>1, <2>2 DEF Owed
    <3>2. Len(heard[c]) \in Nat /\ Len(again[c]) \in Nat
      BY <1>2, <3>1, VainMore, LenProperties DEF ConnOK
    <3>3. PICK h \in Nat, a \in Nat : h = Len(heard[c]) /\ a = Len(again[c])
      BY <3>2
    <3>4. h + l <= 2 + a
      BY <3>1, <3>3
    <3>5. h + 1 <= 2 + a
      BY <2>2, <3>4
    <3> QED BY <1>1, <3>1, <3>3, <3>5 DEF Owed, Vain
  <2>6. AtResolved(c)'
    BY <1>1, <1>2, <1>5, <1>13, <2>1, <2>4, <2>5 DEF AtResolved, Afresh
  <2> QED BY <1>1, <1>3, <1>4, <1>5, <1>15, <2>6 DEF StepOf, Flow
<1> QED BY <1>7, <1>14, <1>15

LEMMA HeardEnough ==
  ASSUME NEW c, ConnOK(c), NEW l \in Nat, Owed(c, l)
  PROVE  HeardLate(c)
<1>1. Vain(heard[c]) /\ Len(heard[c]) + l <= 2 + Len(again[c])
  BY DEF Owed
<1>2. Len(heard[c]) \in Nat /\ Len(heard[c]) >= 2 /\ Len(again[c]) \in Nat
  BY <1>1, VainMore, LenProperties DEF ConnOK
<1>3. Len(heard[c]) <= 2 + Len(again[c]) /\ 2 \in 2 .. Len(heard[c])
  BY <1>1, <1>2
<1> QED BY <1>1, <1>2, <1>3 DEF HeardLate, Vain

\* c searches, and is paired with w.
Pairing(c) ==
  /\ GatewayTypeOK' /\ Flow(c)' /\ MatchesKept
  /\ \A d \in Clients \ {c} : conn'[d] = conn[d]
  /\ \E w \in Clients : Flow(w)' /\ \A d \in Clients \ {c, w} : Unchanged(d)

\* Whom the shard pairs sits in a room of its own.
LEMMA SeatedAfresh ==
  ASSUME NEW c, ConnOK(c), conn[c].phase = "Resolved", Joined(c), conn[c].leg = "open",
         wish[c] = Quick, again[c] # <<>>, Owed(c, 1), session[c],
         conn'[c] = conn[c], SaidSame(c), session'[c] = session[c],
         toShard'[c] = <<>>, fromShard'[c] = <<>>, c \notin lobby',
         NEW key, seat'[c] = Seat(conn[c].shard, key)
  PROVE  Flow(c)'
<1>1. seat'[c].key = key
  BY RoomKeys
<1>2. toShard'[c] \in Seq(JoinMsg)
  OBVIOUS
<1>3. SeatKnown(c)'
  BY <1>1, <1>2 DEF SeatKnown, Seated
<1>4. NamedRoom(c) => NamedRoom(c)'
  BY DEF NamedRoom, SaidSame
<1>5. HeardLate(c)'
  BY <1>4, HeardEnough DEF HeardLate, SaidSame
<1>6. ConnOK(c)' /\ Joined(c)'
  BY DEF ConnOK, Forgotten, Joined, SaidSame
<1>7. AtResolved(c)'
  BY <1>3, <1>5, <1>6 DEF AtResolved, Afresh, SaidSame
<1> QED BY <1>6, <1>7 DEF Flow

LEMMA ShardQuickMatchKeeps ==
  ASSUME GatewayTypeOK, ~crashed, NEW c \in Clients, Flow(c), ShardQuickMatch(c),
         \A d \in Clients : Flow(d)
  PROVE  StepOf(c) \/ Pairing(c)
<1>1. /\ toShard[c] # <<>> /\ Head(toShard[c]).type = "JOIN" /\ Head(toShard[c]).key = Quick
      /\ toShard' = [toShard EXCEPT ![c] = Tail(toShard[c])] /\ seat[c] = NoSeat
      /\ UNCHANGED <<conn, registry, fromShard, session, wish, again, failed, heard>>
      /\ UNCHANGED <<matches, restarts>>
  BY DEF ShardQuickMatch, JoinArrives, mmVars
<1>2. /\ ConnOK(c) /\ conn[c].leg = "open" /\ Joined(c) /\ session[c] /\ c \notin lobby
      /\ toShard[c] \in Seq(JoinMsg) /\ conn[c].shard \in Shards
      /\ Tail(toShard[c]) \in Seq(JoinMsg) /\ Len(Tail(toShard[c])) = Len(toShard[c]) - 1
  BY <1>1, JoiningFrom DEF ConnOK
<1>3. MatchesKept
  BY <1>1, SameMatches
<1>4. /\ conn[c].phase = "Resolved" /\ JoinsRun(c) /\ Alone(conn[c]) /\ wish[c] = Quick
      /\ Asks(c) /\ Owed(c, Len(toShard[c]))
  <2>1. ~SeatNews(c) /\ ~SeatKnown(c)
    BY <1>1, <1>2, RoomKeys DEF SeatNews, SeatKnown, Seated
  <2>2. ~Asked(c, conn[c].shard, Head(toShard[c]))
    BY <1>1 DEF Asked
  <2> QED BY <1>1, <2>1, <2>2, JoiningFrom
<1>5. Len(toShard[c]) = 1 /\ Unanswered(c) /\ again[c] # <<>>
  <2>1. PICK l \in Nat : l = Len(toShard[c]) /\ 1 \in 1 .. l /\ toShard[c][1].key = Quick
    <3>1. Len(toShard[c]) \in Nat /\ Len(toShard[c]) # 0
      BY <1>1, <1>2, LenProperties, EmptySeq
    <3>2. Head(toShard[c]) = toShard[c][1]
      BY <1>1, <1>2, FirstOf
    <3> QED BY <1>1, <3>1, <3>2
  <2>2. 1 = l /\ Unanswered(c) /\ \E m \in DOMAIN again[c] : toShard[c][1] = Join(again[c][m])
    BY <1>4, <2>1 DEF Asks
  <2> QED BY <2>1, <2>2
<1>6. toShard'[c] = <<>> /\ Owed(c, 1)
  <2>1. Len(Tail(toShard[c])) = 0
    BY <1>2, <1>5
  <2>2. Tail(toShard[c]) = <<>>
    BY <1>2, <2>1, EmptySeq
  <2> QED BY <1>1, <1>4, <1>5, <2>2 DEF GatewayTypeOK
<1>7. fromShard[c] = <<>>
  BY <1>4 DEF JoinsRun
<1>8. CASE lobby' = lobby \cup {c} /\ UNCHANGED seat
  <2>1. GatewayTypeOK' /\ \A d \in Clients \ {c} : Unchanged(d)
    BY <1>1, <1>8 DEF GatewayTypeOK, Unchanged, LegSame, SaidSame
  <2>2. InLobby(c)'
    BY <1>1, <1>2, <1>6, <1>7, <1>8 DEF InLobby
  <2>3. Unanswered(c)' /\ Owed(c, 1)'
    BY <1>1, <1>5, <1>6 DEF Unanswered, LastWish, Owed, Vain
  <2>4. ConnOK(c)' /\ Joined(c)' /\ Alone(conn[c])'
    BY <1>1, <1>2, <1>4 DEF ConnOK, Forgotten, Joined
  <2>5. AtResolved(c)'
    BY <1>1, <1>2, <1>4, <1>5, <2>2, <2>3, <2>4 DEF AtResolved, Afresh
  <2>6. Flow(c)'
    BY <1>1, <1>4, <2>4, <2>5 DEF Flow
  <2> QED BY <1>3, <2>1, <2>6 DEF StepOf
<1>9. ASSUME NEW w \in Waiters(c), lobby' = lobby \ {w}, NEW room,
             room = Seat(conn[c].shard, MatchRoom(quicks[conn[c].shard])),
             seat' = [seat EXCEPT ![w] = room, ![c] = room]
      PROVE  Pairing(c)
  <2>1. w \in lobby /\ w \in Clients /\ w # c /\ conn[w].shard = conn[c].shard
    BY <1>2, <1>9 DEF Waiters, GatewayTypeOK
  <2>2. /\ conn[w].phase = "Resolved" /\ conn[w].leg = "open" /\ Joined(w) /\ ConnOK(w)
        /\ InLobby(w) /\ wish[w] = Quick /\ again[w] # <<>> /\ Owed(w, 1)
    BY <2>1, InLobbyFrom
  <2>3. seat'[w] = room /\ seat'[c] = room /\ \A d \in Clients \ {c, w} : seat'[d] = seat[d]
    BY <1>9, <2>1 DEF GatewayTypeOK
  <2>4. /\ GatewayTypeOK' /\ \A d \in Clients \ {c, w} : Unchanged(d)
        /\ \A d \in Clients \ {c} : conn'[d] = conn[d]
    BY <1>1, <1>9, <2>1, <2>3 DEF GatewayTypeOK, Unchanged, LegSame, SaidSame
  <2>5. Flow(c)'
    <3>1. /\ conn'[c] = conn[c] /\ SaidSame(c) /\ session'[c] = session[c]
          /\ fromShard'[c] = <<>> /\ c \notin lobby'
          /\ seat'[c] = Seat(conn[c].shard, MatchRoom(quicks[conn[c].shard]))
      BY <1>1, <1>2, <1>7, <1>9, <2>3 DEF SaidSame
    <3> QED BY <1>2, <1>4, <1>5, <1>6, <3>1, SeatedAfresh
  <2>6. Flow(w)'
    <3>1. /\ conn'[w] = conn[w] /\ SaidSame(w) /\ session'[w] = session[w] /\ session[w]
          /\ toShard'[w] = <<>> /\ fromShard'[w] = <<>> /\ w \notin lobby'
          /\ seat'[w] = Seat(conn[w].shard, MatchRoom(quicks[conn[c].shard]))
      BY <1>1, <1>9, <2>1, <2>2, <2>3 DEF SaidSame, InLobby, GatewayTypeOK
    <3> QED BY <2>1, <2>2, <3>1, SeatedAfresh
  <2> QED BY <1>3, <2>1, <2>4, <2>5, <2>6 DEF Pairing
<1> QED BY <1>8, <1>9 DEF ShardQuickMatch

LEMMA ShardReapsKeeps ==
  ASSUME GatewayTypeOK, ~crashed, NEW c \in Clients, Flow(c), ShardReaps(c)
  PROVE  StepOf(c)
<1>1. /\ c \in lobby /\ lobby' = lobby \ {c}
      /\ fromShard' = [fromShard EXCEPT ![c] = Append(fromShard[c], SearchFailed)]
      /\ UNCHANGED <<conn, registry, toShard, session, seat, wish, again, failed, heard>>
      /\ UNCHANGED <<matches, restarts>>
  BY DEF ShardReaps, mmVars
<1>2. /\ conn[c].phase = "Resolved" /\ conn[c].leg = "open" /\ Joined(c) /\ ConnOK(c)
      /\ Alone(conn[c]) /\ InLobby(c) /\ wish[c] = Quick
      /\ Unanswered(c) /\ Owed(c, 1)
  BY <1>1, InLobbyFrom
<1>3. MatchesKept
  BY <1>1, SameMatches
<1>4. GatewayTypeOK' /\ \A d \in Clients \ {c} : Unchanged(d)
  BY <1>1 DEF GatewayTypeOK, Unchanged, LegSame, SaidSame
<1>5. fromShard'[c] = <<SearchFailed>>
  <2>1. fromShard'[c] = Append(<<>>, SearchFailed)
    BY <1>1, <1>2 DEF InLobby, GatewayTypeOK
  <2> QED BY <2>1, Queues
<1>6. Reaped(c)'
  BY <1>1, <1>2, <1>5 DEF InLobby, Reaped
<1>7. Unanswered(c)' /\ Owed(c, 1)'
  BY <1>1, <1>2 DEF Unanswered, LastWish, Owed, Vain
<1>8. ConnOK(c)' /\ Joined(c)' /\ Alone(conn[c])'
  BY <1>1, <1>2 DEF ConnOK, Forgotten, Joined
<1>9. AtResolved(c)'
  BY <1>1, <1>2, <1>6, <1>7, <1>8 DEF AtResolved, Afresh
<1> QED BY <1>1, <1>2, <1>3, <1>4, <1>8, <1>9 DEF StepOf, Flow

-----------------------------------------------------------------------------
(* The gateway and the matchmaker *)

\* A step of the gateway that only destroys legs to the matchmaker, if any.
Quiet ==
  \/ UNCHANGED mmVars
  \/ \E ids : /\ Close(ids)
              /\ UNCHANGED <<queue, matches, members, nextShard, reaped, unlisted, waits, restarts, idVars>>

\* Client c has no more legs to come than before.
Going(c) ==
  conn'[c].phase = "Gone" \/ (conn[c].phase # "Gone" /\ ToCome(c)' \subseteq ToCome(c))

LEMMA QuietKeeps ==
  ASSUME MatchmakerInv, Quiet
  PROVE  MatchmakerInv' /\ \A i \in Conns : Untouched(i) => Untouched(i)'
<1>1. CASE UNCHANGED mmVars
  <2>1. /\ UNCHANGED <<queue, matches, nextShard, reaped, unlisted, live, waits, answers, restarts>>
        /\ UNCHANGED <<served, idOf>>
    BY <1>1 DEF mmVars, idVars
  <2>2. MatchmakerTypeOK'
    BY <2>1 DEF MatchmakerInv, MatchmakerTypeOK
  <2>3. ListedOnce' /\ MatchedOnce' /\ IdsDiffer' /\ FirstProcess'
    BY <2>1 DEF MatchmakerInv, ListedOnce, MatchedOnce, IdsDiffer, FirstProcess, Waiting, PairOf
  <2>4. AnswersAreTrue'
    BY <2>1 DEF MatchmakerInv, AnswersAreTrue, IsTrue, PairOf
  <2>5. \A i \in Conns : Untouched(i) => Untouched(i)'
    BY <2>1 DEF Untouched, Waiting, PairOf
  <2> QED BY <2>2, <2>3, <2>4, <2>5 DEF MatchmakerInv
<1>2. ASSUME NEW ids, Close(ids),
             UNCHANGED <<queue, matches, members, nextShard, reaped, unlisted, waits, restarts, idVars>>
      PROVE  MatchmakerInv' /\ \A i \in Conns : Untouched(i) => Untouched(i)'
  <2>1. MatchmakerInv'
    BY <1>2, Closed
  <2>2. /\ live' \subseteq live /\ UNCHANGED <<queue, matches, reaped, waits>>
        /\ \A i \in Conns : answers[i] = <<>> => answers'[i] = <<>>
    BY <1>2 DEF Close
  <2>3. \A i \in Conns : Untouched(i) => Untouched(i)'
    BY <2>2 DEF Untouched, Waiting, PairOf
  <2> QED BY <2>1, <2>3
<1> QED BY <1>1, <1>2 DEF Quiet

LEMMA LegsSame ==
  ASSUME NEW c, conn[c].phase # "Gone", conn'[c].mm = conn[c].mm,
         conn'[c].mmLeg = conn[c].mmLeg \/ conn'[c].mmLeg # "connecting"
  PROVE  Going(c)
BY DEF Going, ToCome

\* Nothing happens to a connection that is gone.
LEMMA GoneIsStill ==
  ASSUME ~crashed, NEW c, Flow(c), conn[c].phase = "Gone"
  PROVE  /\ ~conn[c].held /\ conn[c].target = NoShard /\ conn[c].inside = "no" /\ ~conn[c].timer
         /\ conn[c].failing = {} /\ conn[c].leg = "none" /\ conn[c].mmLeg = "none"
         /\ toShard[c] = <<>> /\ fromShard[c] = <<>> /\ c \notin lobby
BY DEF Flow, AtGone, NewConn, LegIdle

LEMMA KeptLegs ==
  ASSUME NEW c, conn[c].phase # "Gone", NEW k, conn'[c] = Kept(k), k.mm = conn[c].mm,
         k.mmLeg = conn[c].mmLeg \/ k.mmLeg # "connecting"
  PROVE  Going(c)
<1>1. CASE Referenced(k)
  BY <1>1, LegsSame DEF Kept
<1>2. CASE ~Referenced(k)
  BY <1>2, NewFields DEF Kept, Going
<1> QED BY <1>1, <1>2

LEMMA ClientLegs ==
  ASSUME GatewayTypeOK, ~crashed, NEW c \in Clients, Flow(c), ClientStep(c)
  PROVE  Quiet /\ Going(c)
<1>1. DOMAIN conn[c] = ConnFields /\ DOMAIN conn = Clients
  BY DEF Flow, ConnOK, GatewayTypeOK
<1>2. "phase" \in ConnFields /\ "mm" \in ConnFields /\ "mmLeg" \in ConnFields
  BY DEF ConnFields
<1>3. CASE Connect(c)
  <2>1. /\ conn[c].phase # "Gone" /\ conn'[c].mm = conn[c].mm /\ conn'[c].mmLeg = conn[c].mmLeg
        /\ UNCHANGED mmVars
    <3>1. PICK s \in Shards :
            conn' = [conn EXCEPT ![c] = [conn[c] EXCEPT !.phase = "AwaitingLogin", !.held = TRUE,
                                                        !.shard = s, !.leg = "connecting"]]
      BY <1>3, Zenon DEF Connect
    <3> DEFINE k == [conn[c] EXCEPT !.phase = "AwaitingLogin", !.held = TRUE,
                                    !.shard = s, !.leg = "connecting"]
    <3>2. conn' = [conn EXCEPT ![c] = k]
      BY <3>1, Zenon
    <3>3. k.mm = conn[c].mm /\ k.mmLeg = conn[c].mmLeg
      BY <1>1, <1>2
    <3> HIDE DEF k
    <3>4. conn'[c] = k
      BY <1>1, <3>2
    <3> QED BY <1>3, <3>3, <3>4 DEF Connect
  <2> QED BY <2>1, LegsSame DEF Quiet
<1>4. ASSUME NEW k, NEW msg, SendOrQueue(c, k, msg), DOMAIN k = ConnFields,
             k.mm = conn[c].mm, k.mmLeg = conn[c].mmLeg, conn[c].phase # "Gone"
      PROVE  Going(c)
  <2>1. conn'[c] = k \/ conn'[c] = [k EXCEPT !.pending = Append(k.pending, msg)]
    BY <1>1, <1>4 DEF SendOrQueue
  <2>2. conn'[c].mm = conn[c].mm /\ conn'[c].mmLeg = conn[c].mmLeg
    BY <1>2, <1>4, <2>1
  <2> QED BY <1>4, <2>2, LegsSame
<1>5. CASE LogIn(c)
  <2> DEFINE k == [conn[c] EXCEPT !.phase = "AwaitingJoin"]
  <2>1. /\ SendOrQueue(c, k, Login) /\ conn[c].phase # "Gone" /\ UNCHANGED mmVars
        /\ DOMAIN k = ConnFields /\ k.mm = conn[c].mm /\ k.mmLeg = conn[c].mmLeg
    BY <1>1, <1>2, <1>5 DEF LogIn
  <2> HIDE DEF k
  <2>2. Going(c)
    BY <1>4, <2>1
  <2> QED BY <2>1, <2>2 DEF Quiet
<1>6. CASE Disconnect(c)
  <2> DEFINE k == [conn[c] EXCEPT !.held = FALSE]
  <2>1. k.mm = conn[c].mm /\ k.mmLeg = conn[c].mmLeg
    BY <1>1, <1>2
  <2>2. Release(c, k) /\ conn[c].phase # "Gone"
    BY <1>6, GoneIsStill DEF Disconnect
  <2> HIDE DEF k
  <2>3. conn'[c] = Kept(k) /\ Quiet
    BY <1>1, <2>2 DEF Release, Quiet
  <2> QED BY <2>1, <2>2, <2>3, KeptLegs
<1>7. ASSUME NEW key \in Wishes, AskForRoom(c, key) PROVE Quiet /\ Going(c)
  <2>1. conn[c].phase # "Gone" /\ UNCHANGED mmVars
    BY <1>7 DEF AskForRoom, MayJoin
  <2>2. \A a : LET k == [conn[c] EXCEPT !.action = a]
               IN  DOMAIN k = ConnFields /\ k.mm = conn[c].mm /\ k.mmLeg = conn[c].mmLeg
    BY <1>1, <1>2
  <2>3. ASSUME NEW k, NEW s, NEW msg, JoinAt(c, k, s, msg),
               DOMAIN k = ConnFields, k.mm = conn[c].mm, k.mmLeg = conn[c].mmLeg
        PROVE  Going(c)
    <3>1. CASE s # k.shard
      <4>1. conn'[c] = [k EXCEPT !.joinAfter = msg, !.phase = "AwaitingJoin", !.target = s]
        BY <1>1, <2>3, <3>1 DEF JoinAt, Redirect
      <4>2. conn'[c].mm = conn[c].mm /\ conn'[c].mmLeg = conn[c].mmLeg
        BY <1>2, <2>3, <4>1
      <4> QED BY <2>1, <4>2, LegsSame
    <3>2. CASE s = k.shard
      <4> DEFINE l == [k EXCEPT !.phase = "AwaitingRoomReply"]
      <4>1. SendOrQueue(c, l, msg)
        BY <2>3, <3>2 DEF JoinAt
      <4>2. DOMAIN l = ConnFields /\ l.mm = conn[c].mm /\ l.mmLeg = conn[c].mmLeg
        BY <1>2, <2>3
      <4> HIDE DEF l
      <4> QED BY <1>4, <2>1, <4>1, <4>2
    <3> QED BY <3>1, <3>2
  <2>4. ASSUME NEW a, NEW s, NEW msg, JoinAt(c, [conn[c] EXCEPT !.action = a], s, msg)
        PROVE  Going(c)
    <3> DEFINE k == [conn[c] EXCEPT !.action = a]
    <3>1. JoinAt(c, k, s, msg) /\ DOMAIN k = ConnFields /\ k.mm = conn[c].mm /\ k.mmLeg = conn[c].mmLeg
      BY <2>2, <2>4
    <3> HIDE DEF k
    <3> QED BY <2>3, <3>1
  <2>5. CASE QuickMatch(c, key)
    <3>1. MayJoin(c)
      BY <1>7 DEF AskForRoom
    <3>2. conn[c].mm = 0
      BY <3>1, MayJoinFrom DEF BeforeSearch
    <3>3. conn'[c].mm = 1
      BY <1>1, <1>2, <2>5 DEF QuickMatch
    <3>4. ToCome(c)' \subseteq ToCome(c)
      BY <3>2, <3>3, GatewayAssumption DEF ToCome
    <3> QED BY <2>1, <3>4 DEF Quiet, Going
  <2>6. CASE JoinByCode(c, key)
    BY <2>1, <2>4, <2>6 DEF JoinByCode, Quiet
  <2>7. CASE JoinByName(c, key)
    BY <2>1, <2>4, <2>7 DEF JoinByName, Quiet
  <2>8. CASE CreateRoom(c, key)
    BY <2>1, <2>4, <2>8 DEF CreateRoom, Quiet
  <2> QED BY <1>7, <2>5, <2>6, <2>7, <2>8 DEF AskForRoom
<1>8. ASSUME NEW key \in Wishes, AskAgain(c, key) PROVE Quiet /\ Going(c)
  <2>1. /\ conn' = conn \/ SendOrQueue(c, conn[c], Join(key))
        /\ conn[c].phase # "Gone" /\ UNCHANGED mmVars
    BY <1>8 DEF AskAgain, MayJoinAgain
  <2>2. Going(c)
    BY <1>1, <1>4, <2>1, LegsSame
  <2> QED BY <2>1, <2>2 DEF Quiet
<1> QED BY <1>3, <1>5, <1>6, <1>7, <1>8 DEF ClientStep

LEMMA RedirectLegs ==
  ASSUME GatewayTypeOK, ~crashed, NEW c \in Clients, Flow(c),
         \/ Swap(c) \/ TimerExpires(c) \/ \E who \in {"timer", "callback"} : FailRedirect(c, who)
         \/ OnOpen(c) \/ ReplayLogin(c) \/ Relay(c) \/ EndRelay(c)
  PROVE  Quiet /\ Going(c)
<1>1. DOMAIN conn[c] = ConnFields /\ DOMAIN conn = Clients
  BY DEF Flow, ConnOK, GatewayTypeOK
<1>2. /\ "phase" \in ConnFields /\ "mm" \in ConnFields /\ "mmLeg" \in ConnFields
  BY DEF ConnFields
<1>3. conn[c].phase # "Gone"
  BY GoneIsStill DEF Swap, TimerExpires, FailRedirect, OnOpen, ReplayLogin, Relay, EndRelay
<1>4. ASSUME NEW k, Release(c, k), k.mm = conn[c].mm, k.mmLeg = conn[c].mmLeg
      PROVE  Quiet /\ Going(c)
  <2>1. conn'[c] = Kept(k) /\ Quiet
    BY <1>1, <1>4 DEF Release, Quiet
  <2> QED BY <1>3, <1>4, <2>1, KeptLegs
<1>5. ASSUME NEW k, Leave(c, k), UNCHANGED mmVars, k.mm = conn[c].mm, k.mmLeg = conn[c].mmLeg
      PROVE  Quiet /\ Going(c)
  <2>1. conn'[c] = Kept(k) /\ Quiet
    BY <1>1, <1>5 DEF Leave, Quiet
  <2> QED BY <1>3, <1>5, <2>1, KeptLegs
<1>6. CASE Swap(c)
  <2>1. conn'[c].mm = conn[c].mm /\ conn'[c].mmLeg = "none"
    BY <1>1, <1>2, <1>6 DEF Swap
  <2>2. Quiet
    BY <1>6 DEF Swap, Quiet
  <2> QED BY <1>3, <2>1, <2>2, LegsSame
<1>7. CASE TimerExpires(c)
  <2>1. CASE conn[c].phase \notin {"AwaitingRoomReply", "Resolved"}
    <3>1. /\ conn' = [conn EXCEPT ![c] = [conn[c] EXCEPT !.timer = FALSE,
                                             !.failing = conn[c].failing \cup {"timer"}]]
          /\ UNCHANGED mmVars
      BY <1>7, <2>1 DEF TimerExpires
    <3>2. conn'[c].mm = conn[c].mm /\ conn'[c].mmLeg = conn[c].mmLeg
      BY <1>1, <1>2, <3>1
    <3> QED BY <1>3, <3>1, <3>2, LegsSame DEF Quiet
  <2>2. CASE conn[c].phase \in {"AwaitingRoomReply", "Resolved"}
    <3> DEFINE k == [conn[c] EXCEPT !.timer = FALSE]
    <3>1. Release(c, k) /\ k.mm = conn[c].mm /\ k.mmLeg = conn[c].mmLeg
      BY <1>1, <1>2, <1>7, <2>2 DEF TimerExpires
    <3> HIDE DEF k
    <3> QED BY <1>4, <3>1
  <2> QED BY <2>1, <2>2
<1>8. ASSUME NEW who, FailRedirect(c, who) PROVE Quiet /\ Going(c)
  <2> DEFINE k == [conn[c] EXCEPT !.failing = conn[c].failing \ {who}]
             l == [k EXCEPT !.held = FALSE, !.leg = "none"]
  <2>1. DOMAIN k = ConnFields /\ k.mm = conn[c].mm /\ k.mmLeg = conn[c].mmLeg
    BY <1>1, <1>2
  <2>2. \/ conn' = [conn EXCEPT ![c] = Kept(l)] /\ UNCHANGED mmVars
        \/ Release(c, k)
        \/ Leave(c, k) /\ UNCHANGED mmVars
    BY <1>8 DEF FailRedirect
  <2> HIDE DEF k
  <2>3. l.mm = conn[c].mm /\ l.mmLeg = conn[c].mmLeg
    BY <1>2, <2>1
  <2> HIDE DEF l
  <2>4. CASE conn' = [conn EXCEPT ![c] = Kept(l)] /\ UNCHANGED mmVars
    <3>1. conn'[c] = Kept(l)
      BY <1>1, <2>4
    <3> QED BY <1>3, <2>3, <2>4, <3>1, KeptLegs DEF Quiet
  <2> QED BY <1>4, <1>5, <2>1, <2>2, <2>4
<1>9. CASE OnOpen(c)
  <2>1. conn'[c].mm = conn[c].mm /\ conn'[c].mmLeg = conn[c].mmLeg /\ UNCHANGED mmVars
    BY <1>1, <1>2, <1>9 DEF OnOpen
  <2> QED BY <1>3, <2>1, LegsSame DEF Quiet
<1>10. CASE ReplayLogin(c)
  <2> DEFINE k == [conn[c] EXCEPT !.inside = "no", !.phase = "RedirectAwaitingLoginReply"]
  <2>1. Leave(c, k) /\ UNCHANGED mmVars /\ k.mm = conn[c].mm /\ k.mmLeg = conn[c].mmLeg
    BY <1>1, <1>2, <1>10 DEF ReplayLogin
  <2> HIDE DEF k
  <2> QED BY <1>5, <2>1
<1>11. CASE Relay(c)
  <2>1. conn'[c].mm = conn[c].mm /\ conn'[c].mmLeg = conn[c].mmLeg /\ UNCHANGED mmVars
    BY <1>1, <1>2, <1>11 DEF Relay
  <2> QED BY <1>3, <2>1, LegsSame DEF Quiet
<1>12. CASE EndRelay(c)
  <2> DEFINE k == [conn[c] EXCEPT !.inside = "no"]
  <2>1. Leave(c, k) /\ UNCHANGED mmVars /\ k.mm = conn[c].mm /\ k.mmLeg = conn[c].mmLeg
    BY <1>1, <1>2, <1>12 DEF EndRelay
  <2> HIDE DEF k
  <2> QED BY <1>5, <2>1
<1> QED BY <1>6, <1>7, <1>8, <1>9, <1>10, <1>11, <1>12

LEMMA AnswerLegs ==
  ASSUME GatewayTypeOK, ~crashed, NEW c \in Clients, Flow(c),
         \/ OnLoginReply(c) \/ OnRoomReply(c) \/ OnShardNoOpponent(c) \/ LoseMatchmakerLeg(c)
         \/ OnMatched(c) \/ OnNoOpponent(c) \/ Resolve(c) \/ ShardStep(c)
  PROVE  Quiet /\ Going(c)
<1>1. DOMAIN conn[c] = ConnFields /\ DOMAIN conn = Clients
  BY DEF Flow, ConnOK, GatewayTypeOK
<1>2. /\ "phase" \in ConnFields /\ "mm" \in ConnFields /\ "mmLeg" \in ConnFields
      /\ "open" \in ConnFields
  BY DEF ConnFields
<1>3. conn[c].phase # "Gone"
  <2>1. ASSUME conn[c].phase = "Gone"
        PROVE  fromShard[c] = <<>> /\ toShard[c] = <<>> /\ conn[c].mmLeg = "none" /\ c \notin lobby
    BY <2>1, GoneIsStill
  <2>2. OnLoginReply(c) \/ OnRoomReply(c) \/ OnShardNoOpponent(c) => fromShard[c] # <<>>
    BY DEF OnLoginReply, OnRoomReply, OnShardNoOpponent
  <2>3. LoseMatchmakerLeg(c) \/ OnMatched(c) \/ OnNoOpponent(c) \/ Resolve(c) => conn[c].mmLeg # "none"
    BY DEF LoseMatchmakerLeg, OnMatched, OnNoOpponent, Resolve, Answered
  <2>4. ShardStep(c) => toShard[c] # <<>> \/ c \in lobby
    BY DEF ShardStep, ShardLogin, JoinIgnored, JoinRoom, ShardQuickMatch, JoinArrives, ShardReaps
  <2> QED BY <2>1, <2>2, <2>3, <2>4
<1>4. CASE OnLoginReply(c)
  <2>1. UNCHANGED mmVars
    BY <1>4 DEF OnLoginReply
  <2>2. \/ conn' = [conn EXCEPT ![c] = [conn[c] EXCEPT !.phase = "AwaitingRoomReply", !.joinAfter = NoMsg]]
        \/ conn' = [conn EXCEPT ![c] = [conn[c] EXCEPT !.failing = conn[c].failing \cup {"callback"}]]
        \/ conn' = conn
    BY <1>4 DEF OnLoginReply
  <2>3. conn'[c].mm = conn[c].mm /\ conn'[c].mmLeg = conn[c].mmLeg
    BY <1>1, <1>2, <2>2
  <2> QED BY <1>3, <2>1, <2>3, LegsSame DEF Quiet
<1>5. CASE OnRoomReply(c)
  <2>1. UNCHANGED mmVars
    BY <1>5 DEF OnRoomReply
  <2>2. conn' = conn \/ conn' = [conn EXCEPT ![c] = [conn[c] EXCEPT !.phase = "Resolved"]]
    BY <1>5 DEF OnRoomReply
  <2>3. conn'[c].mm = conn[c].mm /\ conn'[c].mmLeg = conn[c].mmLeg
    BY <1>1, <1>2, <2>2
  <2> QED BY <1>3, <2>1, <2>3, LegsSame DEF Quiet
<1>6. CASE LoseMatchmakerLeg(c)
  <2>1. conn'[c].mm = conn[c].mm + 1 /\ conn[c].mm \in Nat
    BY <1>1, <1>2, <1>6 DEF LoseMatchmakerLeg, Flow, ConnOK
  <2>2. ToCome(c)' \subseteq ToCome(c)
    BY <2>1, GatewayAssumption DEF ToCome
  <2> QED BY <1>3, <1>6, <2>2 DEF LoseMatchmakerLeg, Quiet, Going
<1>7. CASE OnMatched(c)
  <2> DEFINE k == [conn[c] EXCEPT !.action = "Suppress"]
             join == Join(MatchRoom(Answer(c).key))
             l == [k EXCEPT !.phase = "AwaitingRoomReply", !.mmLeg = "none"]
  <2>1. \/ SendOrQueue(c, l, join) /\ TearDown(c)
        \/ Redirect(c, k, Answer(c).shard, join) /\ UNCHANGED mmVars
    BY <1>7 DEF OnMatched
  <2>2. DOMAIN k = ConnFields /\ k.mm = conn[c].mm /\ k.mmLeg = conn[c].mmLeg
    BY <1>1, <1>2
  <2> HIDE DEF k
  <2>3. DOMAIN l = ConnFields /\ l.mm = conn[c].mm /\ l.mmLeg = "none"
    BY <1>2, <2>2
  <2> HIDE DEF l, join
  <2>4. CASE SendOrQueue(c, l, join) /\ TearDown(c)
    <3>1. conn'[c] = l \/ conn'[c] = [l EXCEPT !.pending = Append(l.pending, join)]
      BY <1>1, <2>4 DEF SendOrQueue
    <3>2. conn'[c].mm = conn[c].mm /\ conn'[c].mmLeg = "none"
      BY <1>2, <2>3, <3>1
    <3> QED BY <1>3, <2>4, <3>2, LegsSame DEF TearDown, Quiet
  <2>5. CASE Redirect(c, k, Answer(c).shard, join) /\ UNCHANGED mmVars
    <3>1. conn'[c] = [k EXCEPT !.joinAfter = join, !.phase = "AwaitingJoin",
                               !.target = Answer(c).shard]
      BY <1>1, <2>5 DEF Redirect
    <3>2. conn'[c].mm = conn[c].mm /\ conn'[c].mmLeg = conn[c].mmLeg
      BY <1>2, <2>2, <3>1
    <3> QED BY <1>3, <2>5, <3>2, LegsSame DEF Quiet
  <2> QED BY <2>1, <2>4, <2>5
<1>8. CASE OnNoOpponent(c)
  <2>1. conn'[c].mm = conn[c].mm /\ conn'[c].mmLeg = "told"
    BY <1>1, <1>2, <1>8 DEF OnNoOpponent
  <2> QED BY <1>3, <1>8, <2>1, LegsSame DEF OnNoOpponent, Quiet
<1>9. CASE Resolve(c)
  <2> DEFINE k == [conn[c] EXCEPT !.phase = "Resolved", !.mmLeg = "none"]
  <2>1. conn' = [conn EXCEPT ![c] = Kept(k)] /\ TearDown(c)
    BY <1>9 DEF Resolve
  <2>2. k.mm = conn[c].mm /\ k.mmLeg = "none"
    BY <1>1, <1>2
  <2> HIDE DEF k
  <2>3. conn'[c] = Kept(k)
    BY <1>1, <2>1
  <2> QED BY <1>3, <2>1, <2>2, <2>3, KeptLegs DEF TearDown, Quiet
<1>10. CASE ShardStep(c) \/ OnShardNoOpponent(c)
  <2>1. conn' = conn /\ UNCHANGED mmVars
    BY <1>10 DEF ShardStep, ShardLogin, JoinIgnored, JoinRoom, ShardQuickMatch, JoinArrives,
                 ShardReaps, OnShardNoOpponent
  <2> QED BY <1>3, <2>1, LegsSame DEF Quiet
<1> QED BY <1>4, <1>5, <1>6, <1>7, <1>8, <1>9, <1>10

LEMMA NotTold ==
  ASSUME NEW as, NEW i, NEW msg, NEW j \in Conns, j \notin live
  PROVE  Deliver(as, i, msg)[j] = as[j]
BY DEF Deliver

\* The matchmaker neither forgets a match nor touches a leg that has yet to be opened.
LEMMA MatchmakerSpares ==
  ASSUME MatchmakerInv, MatchmakerNext
  PROVE  MatchesKept /\ \A j \in Conns : Untouched(j) => Untouched(j)'
<1> USE DEF MatchmakerInv, MatchmakerTypeOK, ListedOnce
<1>1. Range(queue) \subseteq Conns /\ Range(reaped) \subseteq Conns
  BY RangeOfSeq
<1>2. ASSUME live' \subseteq live, waits' \subseteq waits, UNCHANGED <<matches>>,
             Range(queue') \cup Range(reaped') \subseteq Waiting,
             \A j \in Conns : j \notin live => answers'[j] = answers[j] \/ answers'[j] = <<>>
      PROVE  \A j \in Conns : Untouched(j) => Untouched(j)'
  BY <1>2 DEF Untouched, Waiting, PairOf
<1>3. ASSUME NEW i \in Conns, OnWaitRequest(i)
      PROVE  MatchesKept /\ \A j \in Conns : Untouched(j) => Untouched(j)'
  <2>1. /\ i \in waits /\ waits' = waits \ {i}
        /\ UNCHANGED <<reaped, live, restarts>>
    BY <1>3 DEF OnWaitRequest
  <2>2. CASE FirstInRange(i) = {}
    <3>1. queue' = Append(queue, i) /\ UNCHANGED <<matches, answers>>
      BY <1>3, <2>2 DEF OnWaitRequest, Enlist
    <3>2. i \notin Range(queue)
      BY <2>1 DEF Waiting
    <3>3. Range(queue') = Range(queue) \cup {i}
      BY <3>1, <3>2, OnceAppended
    <3>4. MatchesKept
      BY <2>1, <3>1, SameMatches
    <3>5. \A j \in Conns : Untouched(j) => Untouched(j)'
      BY <2>1, <3>1, <3>3 DEF Untouched, Waiting, PairOf
    <3> QED BY <3>4, <3>5
  <2>3. CASE FirstInRange(i) # {}
    <3>1. PICK n \in FirstInRange(i) : Pair(queue[n], i)
      BY <1>3, <2>3 DEF OnWaitRequest
    <3> DEFINE w == queue[n]
               k == Len(matches) + 1
               msg == Matched(k, nextShard)
    <3>2. w \in Range(queue) /\ w \in Conns
      BY <1>1 DEF FirstInRange, Range
    <3>3. /\ queue' = RemoveFirst(queue, w)
          /\ matches' = Append(matches, [shard |-> nextShard, pair |-> <<w, i>>])
          /\ answers' = Deliver(Deliver(answers, w, msg), i, msg)
      BY <3>1 DEF Pair
    <3> HIDE DEF w, msg
    <3>4. /\ DOMAIN matches' = DOMAIN matches \cup {k}
          /\ \A l \in DOMAIN matches : matches'[l] = matches[l] /\ PairOf(l)' = PairOf(l)
          /\ \A l : l = k => PairOf(l)' = {w, i}
      BY <3>2, <3>3, MatchAdded
    <3> HIDE DEF k
    <3>5. Range(queue') \subseteq Range(queue)
      BY <3>3, OnceRemoved
    <3>6. \A j \in Conns : j \notin live => answers'[j] = answers[j]
      BY <3>3, NotTold
    <3>7. MatchesKept
      BY <2>1, <3>4 DEF MatchesKept
    <3>8. ASSUME NEW j \in Conns, Untouched(j) PROVE Untouched(j)'
      <4>1. j # i /\ j # w /\ j \notin live
        BY <2>1, <3>2, <3>8 DEF Untouched, Waiting
      <4>2. \A l \in DOMAIN matches' : j \notin PairOf(l)'
        BY <3>4, <3>8, <4>1 DEF Untouched
      <4>3. /\ j \notin live' \cup waits' \cup Waiting' /\ answers'[j] = <<>>
        BY <2>1, <3>5, <3>6, <3>8, <4>1 DEF Untouched, Waiting
      <4> QED BY <4>2, <4>3 DEF Untouched
    <3> QED BY <3>7, <3>8
  <2> QED BY <2>2, <2>3
<1>4. ASSUME NEW i \in Conns, HandleDisconnect(i)
      PROVE  MatchesKept /\ \A j \in Conns : Untouched(j) => Untouched(j)'
  <2>1. Range(queue') \subseteq Range(queue)
    BY <1>4, OnceRemoved DEF HandleDisconnect
  <2>2. /\ UNCHANGED <<reaped, live, answers>> /\ waits' \subseteq waits
        /\ UNCHANGED <<matches, restarts>>
    BY <1>4 DEF HandleDisconnect
  <2>3. \A j \in Conns : Untouched(j) => Untouched(j)'
    BY <1>2, <2>1, <2>2 DEF Waiting
  <2> QED BY <2>2, <2>3, SameMatches
<1>5. ASSUME NEW n \in 1 .. Len(queue), Reap(n)
      PROVE  MatchesKept /\ \A j \in Conns : Untouched(j) => Untouched(j)'
  <2>1. Range(queue') \subseteq Range(queue) /\ Range(reaped') \subseteq Range(queue)
    BY <1>5, OnceSplit DEF Reap
  <2>2. /\ UNCHANGED <<live, answers, waits>> /\ UNCHANGED <<matches, restarts>>
    BY <1>5 DEF Reap
  <2>3. \A j \in Conns : Untouched(j) => Untouched(j)'
    BY <1>2, <2>1, <2>2 DEF Waiting
  <2> QED BY <2>2, <2>3, SameMatches
<1>6. ASSUME Unlist PROVE MatchesKept /\ \A j \in Conns : Untouched(j) => Untouched(j)'
  <2>1. /\ UNCHANGED <<queue, reaped, live, answers, waits>> /\ UNCHANGED <<matches, restarts>>
    BY <1>6 DEF Unlist
  <2>2. \A j \in Conns : Untouched(j) => Untouched(j)'
    BY <1>2, <2>1 DEF Waiting
  <2> QED BY <2>1, <2>2, SameMatches
<1>7. ASSUME NotifyExpired PROVE MatchesKept /\ \A j \in Conns : Untouched(j) => Untouched(j)'
  <2>1. reaped # <<>>
    BY <1>7 DEF NotifyExpired
  <2>2. Range(reaped') \subseteq Range(reaped)
    BY <1>7, <2>1, OnceTail DEF NotifyExpired
  <2>3. /\ UNCHANGED <<queue, live, waits>> /\ UNCHANGED <<matches, restarts>>
        /\ answers' = Deliver(answers, Head(reaped), NoOpponent)
    BY <1>7 DEF NotifyExpired
  <2>4. \A j \in Conns : j \notin live => answers'[j] = answers[j]
    BY <2>3, NotTold
  <2>5. \A j \in Conns : Untouched(j) => Untouched(j)'
    BY <1>2, <2>2, <2>3, <2>4 DEF Waiting
  <2> QED BY <2>3, <2>5, SameMatches
<1>8. ASSUME Restart PROVE MatchesKept /\ \A j \in Conns : Untouched(j) => Untouched(j)'
  <2>1. Range(<<>>) = {}
    BY EmptyOnce
  <2>2. /\ queue' = queue /\ reaped' = <<>> /\ live' = {} /\ waits' = {} /\ matches' = matches
        /\ restarts' # 0 /\ \A j \in Conns : answers'[j] = <<>>
    BY <1>8 DEF Restart
  <2>3. \A j \in Conns : Untouched(j) => Untouched(j)'
    BY <1>2, <2>1, <2>2 DEF Waiting
  <2> QED BY <2>2, <2>3 DEF MatchesKept
<1> QED BY <1>3, <1>4, <1>5, <1>6, <1>7, <1>8 DEF MatchmakerNext

LEMMA StepKeeps ==
  ASSUME GatewayTypeOK, MatchmakerInv, ~crashed, NEW c \in Clients, Flow(c),
         ClientStep(c) \/ GatewayStep(c) \/ ShardStep(c),
         \A d \in Clients : Flow(d)
  PROVE  StepOf(c) \/ Pairing(c)
<1>1. ClientStep(c) => StepOf(c)
  BY ConnectKeeps, LogInKeeps, DisconnectKeeps, AskForRoomKeeps, AskAgainKeeps DEF ClientStep
<1>2. Swap(c) \/ TimerExpires(c) \/ (\E who \in {"timer", "callback"} : FailRedirect(c, who)) => StepOf(c)
  BY SwapKeeps, TimerExpiresKeeps, FailRedirectKeeps
<1>3. OnOpen(c) \/ ReplayLogin(c) \/ OnLoginReply(c) \/ OnRoomReply(c) => StepOf(c)
  BY OnOpenKeeps, ReplayLoginKeeps, OnLoginReplyKeeps, OnRoomReplyKeeps
<1>4. Relay(c) \/ EndRelay(c) => StepOf(c)
  BY RelayKeeps, EndRelayKeeps
<1>5. OnMatchmakerOpen(c) \/ LoseMatchmakerLeg(c) \/ OnMatched(c) => StepOf(c)
  BY OnMatchmakerOpenKeeps, LoseMatchmakerLegKeeps, OnMatchedKeeps
<1>6. OnNoOpponent(c) \/ Resolve(c) \/ OnShardNoOpponent(c) => StepOf(c)
  BY OnNoOpponentKeeps, ResolveKeeps, OnShardNoOpponentKeeps
<1>7. ShardLogin(c) \/ JoinIgnored(c) \/ JoinRoom(c) \/ ShardReaps(c) => StepOf(c)
  BY ShardLoginKeeps, JoinIgnoredKeeps, JoinRoomKeeps, ShardReapsKeeps
<1>8. ShardQuickMatch(c) => StepOf(c) \/ Pairing(c)
  BY ShardQuickMatchKeeps
<1> QED BY <1>1, <1>2, <1>3, <1>4, <1>5, <1>6, <1>7, <1>8 DEF GatewayStep, ShardStep

\* The matchmaker's part of a step of the gateway.
LEMMA LegsStep ==
  ASSUME GatewayTypeOK, MatchmakerInv, LegsToCome, ~crashed, NEW c \in Clients, Flow(c),
         ClientStep(c) \/ GatewayStep(c) \/ ShardStep(c),
         \A d \in Clients \ {c} : conn'[d] = conn[d]
  PROVE  MatchmakerInv' /\ LegsToCome'
<1>1. \A d \in Clients, n \in 1 .. MaxLegs : <<d, n>> \in Conns
  BY GatewayAssumption
<1>2. \A d \in Clients : ToCome(d) \subseteq 1 .. MaxLegs
  BY DEF ToCome
<1>3. \A d \in Clients \ {c} : conn'[d] = conn[d] /\ ToCome(d)' = ToCome(d)
  BY DEF ToCome
<1>4. ASSUME Quiet, Going(c) PROVE MatchmakerInv' /\ LegsToCome'
  <2>1. MatchmakerInv' /\ \A i \in Conns : Untouched(i) => Untouched(i)'
    BY <1>4, QuietKeeps
  <2>2. \A d \in Clients : conn'[d].phase # "Gone" =>
          conn[d].phase # "Gone" /\ ToCome(d)' \subseteq ToCome(d)
    BY <1>3, <1>4 DEF Going
  <2>3. LegsToCome'
    <3> SUFFICES ASSUME NEW d \in Clients, conn'[d].phase # "Gone", NEW n \in ToCome(d)'
                 PROVE  \A i : i = <<d, n>> => Untouched(i)'
      BY DEF LegsToCome
    <3>1. n \in ToCome(d) /\ conn[d].phase # "Gone"
      BY <2>2
    <3>2. Untouched(<<d, n>>) /\ <<d, n>> \in Conns
      BY <1>1, <1>2, <3>1 DEF LegsToCome
    <3> QED BY <2>1, <3>2
  <2> QED BY <2>1, <2>3
<1>5. ASSUME OnMatchmakerOpen(c) PROVE MatchmakerInv' /\ LegsToCome'
  <2> DEFINE i == MmLeg(c)
  <2>1. /\ conn[c].mmLeg = "connecting"
        /\ conn'[c] = [conn[c] EXCEPT !.mmLeg = "open", !.mmPending = FALSE]
        /\ Open(i) /\ (SendWait(i) \/ UNCHANGED waits)
        /\ UNCHANGED <<queue, matches, members, nextShard, reaped, unlisted, closed, answers, restarts>>
    BY <1>5 DEF OnMatchmakerOpen, GatewayTypeOK
  <2>2. conn[c].mm \in 1 .. MaxLegs /\ conn[c].phase # "Gone" /\ DOMAIN conn[c] = ConnFields
    BY <2>1, SearchingFrom DEF AtSearch, Flow, ConnOK
  <2>3. i \in Conns /\ i = <<c, conn[c].mm>>
    BY <1>1, <2>2 DEF MmLeg
  <2>4. conn[c].mm \in ToCome(c)
    BY <2>1, <2>2 DEF ToCome
  <2>5. Untouched(i)
    BY <2>2, <2>3, <2>4 DEF LegsToCome
  <2> HIDE DEF i
  <2>6. MatchmakerInv'
    <3>1. i \notin Waiting /\ answers[i] = <<>> /\ \A k \in DOMAIN matches : i \notin PairOf(k)
      BY <2>5 DEF Untouched
    <3> QED BY <2>1, <2>3, <3>1, OpenKeeps
  <2>7. \A j \in Conns : j # i /\ Untouched(j) => Untouched(j)'
    <3>1. /\ live' = live \cup {i} /\ waits' \subseteq waits \cup {i}
          /\ UNCHANGED <<queue, reaped, matches, answers>>
      BY <2>1 DEF Open, SendWait
    <3> QED BY <3>1 DEF Untouched, Waiting, PairOf
  <2>8. conn'[c].mm = conn[c].mm /\ conn'[c].mmLeg = "open"
    <3>1. "mm" \in DOMAIN conn[c] /\ "mmLeg" \in DOMAIN conn[c]
      BY <2>2 DEF ConnFields
    <3> QED BY <2>1, <3>1
  <2>9. ToCome(c)' \subseteq ToCome(c) /\ conn[c].mm \notin ToCome(c)'
    BY <2>2, <2>8, GatewayAssumption DEF ToCome
  <2>10. LegsToCome'
    <3> SUFFICES ASSUME NEW d \in Clients, conn'[d].phase # "Gone", NEW n \in ToCome(d)'
                 PROVE  \A j : j = <<d, n>> => Untouched(j)'
      BY DEF LegsToCome
    <3>1. n \in ToCome(d) /\ conn[d].phase # "Gone"
      BY <1>3, <2>2, <2>9
    <3>2. Untouched(<<d, n>>) /\ <<d, n>> \in Conns
      BY <1>1, <1>2, <3>1 DEF LegsToCome
    <3>3. <<d, n>> # i
      BY <2>3, <2>9
    <3> QED BY <2>7, <3>2, <3>3
  <2> QED BY <2>6, <2>10
<1>6. OnMatchmakerOpen(c) \/ (Quiet /\ Going(c))
  <2>1. ClientStep(c) => Quiet /\ Going(c)
    BY ClientLegs
  <2>2. \/ Swap(c) \/ TimerExpires(c) \/ \E who \in {"timer", "callback"} : FailRedirect(c, who)
        \/ OnOpen(c) \/ ReplayLogin(c) \/ Relay(c) \/ EndRelay(c)
        => Quiet /\ Going(c)
    BY RedirectLegs
  <2>3. \/ OnLoginReply(c) \/ OnRoomReply(c) \/ OnShardNoOpponent(c) \/ LoseMatchmakerLeg(c)
        \/ OnMatched(c) \/ OnNoOpponent(c) \/ Resolve(c) \/ ShardStep(c)
        => Quiet /\ Going(c)
    BY AnswerLegs
  <2> QED BY <2>1, <2>2, <2>3 DEF GatewayStep
<1> QED BY <1>4, <1>5, <1>6

-----------------------------------------------------------------------------
(* The gateway: the invariant *)

LEMMA GatewayInitInv ==
  ASSUME Init
  PROVE  GatewayInv
<1> USE DEF Init, GatewayInit, MatchmakerInit
<1>1. 0 \in Shards
  BY MatchmakerAssumption DEF Shards
<1>2. /\ <<>> \in Seq(AnswerMsg) /\ <<>> \in Seq(Conns) /\ <<>> \in Seq(MatchRecord)
      /\ Once(<<>>) /\ Range(<<>>) = {} /\ DOMAIN <<>> = {} /\ Len(<<>>) = 0
  <2>1. DOMAIN <<>> = 1 .. 0
    BY EmptySeq, EmptyOnce, LenProperties
  <2> QED BY <2>1, EmptySeq, EmptyOnce
<1>3. GatewayTypeOK
  BY <1>1 DEF GatewayTypeOK
<1>4. MatchmakerTypeOK
  BY <1>1, <1>2 DEF MatchmakerTypeOK
<1>5. ListedOnce /\ MatchedOnce /\ IdsDiffer /\ FirstProcess /\ AnswersAreTrue
  BY <1>2 DEF ListedOnce, MatchedOnce, IdsDiffer, FirstProcess, AnswersAreTrue, Waiting
<1>6. LegsToCome
  <2> SUFFICES ASSUME NEW c \in Clients, NEW n \in ToCome(c) PROVE Untouched(<<c, n>>)
    BY DEF LegsToCome
  <2>1. <<c, n>> \in Conns
    BY GatewayAssumption DEF ToCome
  <2> QED BY <1>2, <2>1 DEF Untouched, Waiting
<1>7. ASSUME NEW c \in Clients PROVE Flow(c)
  <2>1. /\ conn[c] = NewConn /\ LegIdle(c) /\ Forgotten(c)
        /\ wish[c] = NoKey /\ again[c] = <<>> /\ heard[c] = <<>>
    BY DEF LegIdle, Forgotten
  <2>2. ConnOK(c) /\ conn[c].phase = "New"
    BY <1>1, <2>1, NewFields, RoomKeys DEF ConnOK, Forgotten
  <2> QED BY <2>1, <2>2 DEF Flow, AtNew
<1> QED BY <1>3, <1>4, <1>5, <1>6, <1>7 DEF GatewayInv, MatchmakerInv

LEMMA GatewayStepInv ==
  ASSUME GatewayInv, [Next]_vars
  PROVE  GatewayInv'
<1> USE DEF GatewayInv
<1>1. ASSUME ~crashed, NEW c \in Clients, ClientStep(c) \/ GatewayStep(c) \/ ShardStep(c)
      PROVE  GatewayInv'
  <2>1. GatewayTypeOK' /\ \A d \in Clients : Flow(d)'
    <3>1. CASE StepOf(c)
      BY <1>1, <3>1, FlowOfOthers DEF StepOf
    <3>2. CASE Pairing(c)
      <4>1. PICK w \in Clients : Flow(w)' /\ \A d \in Clients \ {c, w} : Unchanged(d)
        BY <3>2 DEF Pairing
      <4>2. \A d \in Clients \ {c, w} : Flow(d)'
        BY <1>1, <3>2, <4>1, FlowOfOthers DEF Pairing
      <4> QED BY <3>2, <4>1, <4>2 DEF Pairing
    <3> QED BY <1>1, <3>1, <3>2, StepKeeps
  <2>2. \A d \in Clients \ {c} : conn'[d] = conn[d]
    BY <1>1, StepKeeps DEF StepOf, Pairing, Unchanged
  <2>3. MatchmakerInv' /\ LegsToCome'
    BY <1>1, <2>2, LegsStep
  <2> QED BY <2>1, <2>3
<1>2. ASSUME ~crashed, MatchmakerNext, UNCHANGED gwVars PROVE GatewayInv'
  <2>1. MatchmakerInv' /\ MatchesKept /\ \A i \in Conns : Untouched(i) => Untouched(i)'
    BY <1>2, MatchmakerKeeps, MatchmakerSpares
  <2>2. \A d \in Clients : Unchanged(d)
    BY <1>2 DEF gwVars, Unchanged, LegSame, SaidSame
  <2>3. \A d \in Clients : Flow(d)'
    BY <1>2, <2>1, <2>2, FlowOfOthers
  <2>4. GatewayTypeOK'
    BY <1>2 DEF gwVars, GatewayTypeOK
  <2>5. LegsToCome'
    <3>1. conn' = conn /\ \A d \in Clients : ToCome(d)' = ToCome(d)
      BY <1>2 DEF gwVars, ToCome
    <3>2. \A d \in Clients : \A n \in ToCome(d) : <<d, n>> \in Conns
      BY GatewayAssumption DEF ToCome
    <3> QED BY <2>1, <3>1, <3>2 DEF LegsToCome
  <2> QED BY <2>1, <2>3, <2>4, <2>5
<1>3. CASE UNCHANGED vars
  <2>1. UNCHANGED gwVars /\ UNCHANGED mmVars
    BY <1>3 DEF vars
  <2>2. MatchmakerInv' /\ \A i \in Conns : Untouched(i) => Untouched(i)'
    BY <2>1, QuietKeeps DEF Quiet
  <2>3. GatewayTypeOK'
    BY <2>1 DEF gwVars, GatewayTypeOK
  <2>4. LegsToCome'
    <3>1. conn' = conn /\ \A d \in Clients : ToCome(d)' = ToCome(d)
      BY <2>1 DEF gwVars, ToCome
    <3>2. \A d \in Clients : \A n \in ToCome(d) : <<d, n>> \in Conns
      BY GatewayAssumption DEF ToCome
    <3> QED BY <2>2, <3>1, <3>2 DEF LegsToCome
  <2>5. ASSUME NEW d \in Clients PROVE Flow(d)'
    <3>1. UNCHANGED <<matches, restarts>> /\ Unchanged(d) /\ crashed' = crashed
      BY <2>1 DEF mmVars, gwVars, Unchanged, LegSame, SaidSame
    <3>2. MatchesKept
      BY <3>1, SameMatches
    <3> QED BY <3>1, <3>2, FlowOfOthers
  <2> QED BY <2>2, <2>3, <2>4, <2>5
<1> QED BY <1>1, <1>2, <1>3 DEF Next

-----------------------------------------------------------------------------
(* The gateway: what the invariant implies *)

LEMMA InvOneAnswer ==
  ASSUME MatchmakerInv
  PROVE  OneAnswer
<1> USE DEF MatchmakerInv
<1>1. \A m, n \in DOMAIN queue : queue[m] = queue[n] => m = n
  BY DEF ListedOnce, Once
<1>2. Range(queue) \cap Range(reaped) = {}
  BY DEF ListedOnce
<1>3. /\ \A k \in DOMAIN matches : matches[k].pair[1] # matches[k].pair[2]
      /\ \A k, l \in DOMAIN matches : k # l => PairOf(k) \cap PairOf(l) = {}
      /\ \A k \in DOMAIN matches : PairOf(k) \cap Waiting = {}
  BY DEF MatchedOnce
<1>4. ASSUME restarts = 0, NEW i \in Conns
      PROVE  Len(answers[i]) <= 1 /\ (answers[i] # <<>> => i \notin Waiting)
  <2>1. CASE answers[i] = <<>>
    <3>1. Len(answers[i]) = 0
      BY <2>1
    <3> QED BY <2>1, <3>1
  <2>2. CASE answers[i] # <<>>
    <3>1. Len(answers[i]) = 1 /\ i \notin Waiting
      BY <1>4, <2>2 DEF FirstProcess
    <3> QED BY <3>1
  <2> QED BY <2>1, <2>2
<1> QED BY <1>1, <1>2, <1>3, <1>4 DEF OneAnswer

LEMMA Pairs ==
  ASSUME NEW x, NEW y
  PROVE  /\ Len(<<x, y>>) = 2 /\ <<x, y>>[1] = x /\ <<x, y>>[2] = y /\ DOMAIN <<x, y>> = {1, 2}
         /\ DOMAIN <<x>> = {1} /\ <<x>>[1] = x
OBVIOUS

\* Who is seated was led there by its first JOIN, or it searched in vain and JOINed again.
LEMMA SeatedFrom ==
  ASSUME NEW c, Flow(c), conn[c].held, seat[c] # NoSeat
  PROVE  \/ SeatNews(c) /\ Came(c) /\ heard[c] = <<LoginOk>>
         \/ SeatKnown(c) /\ Came(c) /\ Told(c)
         \/ again[c] # <<>> /\ Searched(c)
<1>1. ~LegIdle(c) /\ ~LoginRuns(c) /\ ~LoggedIn(c) /\ ~JoinsRun(c) /\ ~InLobby(c) /\ ~Reaped(c) /\ ~Cut(c)
  BY DEF LegIdle, LoginRuns, LoggedIn, JoinsRun, InLobby, Reaped, Cut
<1>2. ~AtNew(c) /\ ~AtGone(c)
  BY NewFields DEF AtNew, AtGone
<1>3. \/ AtRoom(c) /\ SeatNews(c) /\ Came(c) /\ heard[c] = <<LoginOk>>
      \/ AtResolved(c) /\ SeatKnown(c) /\ Came(c) /\ Told(c)
      \/ Afresh(c)
  BY <1>1, <1>2
  DEF Flow, AtAwaitingLogin, AtFirstLogin, AtLeaving, AtConnecting, AtRelogin, AtSearch, AtRoom,
      AtResolved
<1>4. ASSUME Afresh(c) PROVE again[c] # <<>> /\ Searched(c)
  <2>1. \/ NamedRoom(c) /\ Owed(c, 1)
        \/ again[c] # <<>> /\ HeardLate(c)
    BY <1>1, <1>4 DEF Afresh
  <2>2. CASE NamedRoom(c) /\ Owed(c, 1)
    <3>1. again[c] # <<>>
      BY <2>2, EmptyOnce DEF NamedRoom
    <3>2. Vain(heard[c])
      BY <2>2 DEF Owed
    <3>3. Len(heard[c]) \in Nat /\ Len(heard[c]) >= 2
      BY <3>2, LenProperties DEF Vain
    <3>4. 2 \in 2 .. Len(heard[c]) /\ 2 \in 1 .. Len(heard[c])
      BY <3>3
    <3> QED BY <3>1, <3>2, <3>4 DEF Vain, Searched
  <2>3. CASE again[c] # <<>> /\ HeardLate(c)
    <3>1. 2 \in 1 .. Len(heard[c]) /\ heard[c][2] = SearchFailed
      BY <2>3 DEF HeardLate
    <3> QED BY <2>3, <3>1 DEF Searched
  <2> QED BY <2>1, <2>2, <2>3
<1> QED BY <1>3, <1>4

LEMMA InvMatchedMeet ==
  ASSUME \A c \in Clients : Flow(c)
  PROVE  MatchedMeet
<1> SUFFICES ASSUME NEW c \in Clients, conn[c].held, again[c] = <<>>, seat[c] # NoSeat,
                    wish[c] = Quick \/ (seat[c].key.kind = "match" /\ wish[c] # seat[c].key)
             PROVE  InItsMatch(c)
  BY DEF MatchedMeet
<1>1. Came(c) /\ (SeatNews(c) \/ SeatKnown(c))
  BY SeatedFrom
<1>2. /\ RoomFor(c, wish[c], conn[c].action, conn[c].shard, seat[c].key)
      /\ seat[c].shard = conn[c].shard
  <2>1. seat[c] = Seat(conn[c].shard, seat[c].key)
    BY <1>1 DEF SeatNews, SeatKnown, Seated
  <2>2. \A key : Seat(conn[c].shard, key).shard = conn[c].shard
    BY DEF Seat
  <2> QED BY <1>1, <2>1, <2>2 DEF Came
<1>3. \A n : Room(n).kind # "match"
  BY DEF Room, Key
<1>4. wish[c] = Quick /\ seat[c].key = MatchRoom(seat[c].key.n) /\ Meets(c, conn[c].shard, seat[c].key)
  <2>1. Quick.kind # "code" /\ Quick \notin RoomNames /\ Quick # Create
    BY RoomKeys, GatewayAssumption DEF Quick, Create, Key
  <2> QED BY <1>2, <1>3, <2>1 DEF RoomFor
<1> QED BY <1>2, <1>4 DEF Meets, InItsMatch

LEMMA InvJoinFindsLogin ==
  ASSUME \A c \in Clients : Flow(c)
  PROVE  JoinFindsLogin
BY JoinFinds DEF JoinFindsLogin

\* What a client has heard: nothing of a room yet, the answer to its first JOIN, or that it
\* searched in vain and what followed.
LEMMA HeardFrom ==
  ASSUME NEW c, Flow(c)
  PROVE  \/ heard[c] \in {<<>>, <<LoginOk>>, <<LoginFail>>}
         \/ Came(c) /\ Told(c) /\ conn[c].held
         \/ wish[c] = Quick /\ HeardLate(c)
<1>0. ConnOK(c)
  BY DEF Flow
<1>1. CASE ~conn[c].held
  BY <1>0, <1>1 DEF ConnOK, Forgotten
<1>2. CASE conn[c].held
  <2>1. ~AtNew(c) /\ ~AtGone(c) /\ ~Cut(c)
    BY <1>2, NewFields DEF AtNew, AtGone, Cut
  <2>2. Afresh(c) => HeardLate(c)
    <3>1. JoinsRun(c) => Len(toShard[c]) \in Nat
      BY LenProperties DEF JoinsRun
    <3> QED BY <1>0, <1>2, <3>1, HeardEnough DEF Afresh
  <2>3. AtResolved(c) => (Came(c) /\ Told(c)) \/ (wish[c] = Quick /\ HeardLate(c))
    BY <1>2, <2>1, <2>2 DEF AtResolved
  <2>4. AtLeaving(c) \/ AtConnecting(c) \/ AtRelogin(c) => heard[c] = <<LoginOk>>
    BY <1>2 DEF AtLeaving, AtConnecting, AtRelogin, Redirected, Asked
  <2>5. AtRoom(c) => heard[c] = <<LoginOk>>
    BY <1>2, <2>1 DEF AtRoom, Asked
  <2>6. heard[c] = InVain => HeardLate(c)
    <3> SUFFICES ASSUME heard[c] = InVain PROVE HeardLate(c)
      OBVIOUS
    <3>1. Len(heard[c]) = 2 /\ heard[c][1] = LoginOk /\ heard[c][2] = SearchFailed
      BY Pairs DEF InVain
    <3>2. Len(again[c]) \in Nat
      BY <1>0, LenProperties DEF ConnOK
    <3>3. 2 <= 2 + Len(again[c]) /\ \A n \in 2 .. 2 : n = 2
      BY <3>2
    <3> QED BY <3>1, <3>3 DEF HeardLate
  <2>7. AtSearch(c) => heard[c] = <<LoginOk>> \/ (wish[c] = Quick /\ heard[c] = InVain)
    BY <1>2 DEF AtSearch
  <2>8. AtAwaitingLogin(c) \/ AtFirstLogin(c) => heard[c] \in {<<>>, <<LoginOk>>, <<LoginFail>>}
    BY DEF AtAwaitingLogin, AtFirstLogin
  <2> QED BY <1>2, <2>1, <2>3, <2>4, <2>5, <2>6, <2>7, <2>8 DEF Flow
<1> QED BY <1>1, <1>2

LEMMA InvSeamlessSession ==
  ASSUME \A c \in Clients : Flow(c)
  PROVE  SeamlessSession
<1> SUFFICES ASSUME NEW c \in Clients, heard[c] \notin {<<>>, <<LoginOk>>, <<LoginFail>>}
             PROVE  /\ heard[c][1] = LoginOk /\ Len(heard[c]) <= 2 + Len(again[c])
                    /\ \A n \in 2 .. Len(heard[c]) :
                         \/ heard[c][n] = SearchFailed /\ wish[c] = Quick
                         \/ /\ heard[c][n].type = "ROOM" /\ n = Len(heard[c])
                            /\ wish[c] # Quick \/ \E m \in DOMAIN again[c] : again[c][m] # Quick
  BY DEF SeamlessSession
<1>1. CASE Came(c) /\ Told(c) /\ conn[c].held
  <2>1. RoomFor(c, wish[c], conn[c].action, conn[c].shard, seat[c].key)
    BY <1>1 DEF Came
  <2>2. conn[c].action # "Suppress" => wish[c] # Quick
    <3>1. Quick.kind # "code" /\ Quick \notin RoomNames /\ Quick # Create
      BY GatewayAssumption DEF Quick, Create, Key
    <3> QED BY <2>1, <3>1 DEF RoomFor
  <2>3. conn[c].action # "Suppress" /\ \E key : heard[c] = <<LoginOk, RoomReply(key)>>
    BY <1>1 DEF Told
  <2>4. PICK key : heard[c] = <<LoginOk, RoomReply(key)>>
    BY <2>3
  <2>5. Len(heard[c]) = 2 /\ heard[c][1] = LoginOk /\ heard[c][2].type = "ROOM"
    BY <2>4, Pairs, Messages
  <2>6. Len(again[c]) \in Nat
    BY LenProperties DEF Flow, ConnOK
  <2>7. 2 <= 2 + Len(again[c]) /\ \A n \in 2 .. 2 : n = 2
    BY <2>6
  <2> QED BY <2>2, <2>3, <2>5, <2>7
<1>2. CASE wish[c] = Quick /\ HeardLate(c)
  BY <1>2 DEF HeardLate, NamedRoom
<1> QED BY <1>1, <1>2, HeardFrom

LEMMA InvCodeIsRouted ==
  ASSUME \A c \in Clients : Flow(c)
  PROVE  CodeIsRouted
<1> SUFFICES ASSUME NEW c \in Clients, seat[c] # NoSeat, ~Searched(c)
             PROVE  InItsRoom(c)
  BY DEF CodeIsRouted
<1>1. CASE ~conn[c].held
  <2>1. wish[c] = NoKey /\ heard[c] = <<>>
    BY <1>1 DEF Flow, ConnOK, Forgotten
  <2>2. DOMAIN <<>> = {}
    OBVIOUS
  <2> QED BY <2>1, <2>2, RoomKeys DEF InItsRoom
<1>2. CASE conn[c].held
  <2>1. \/ SeatNews(c) /\ Came(c) /\ heard[c] = <<LoginOk>>
        \/ SeatKnown(c) /\ Came(c) /\ Told(c)
    BY <1>2, SeatedFrom
  <2>2. /\ RoomFor(c, wish[c], conn[c].action, conn[c].shard, seat[c].key)
        /\ seat[c] = Seat(conn[c].shard, seat[c].key)
    BY <1>2, <2>1 DEF Came, SeatNews, SeatKnown, Seated
  <2>3. wish[c].kind = "code" => seat[c] = Seat(wish[c].shard, Room(wish[c].n))
    <3>1. Create.kind # "code" /\ Quick.kind # "code" /\ \A r \in RoomNames : r.kind # "code"
      BY GatewayAssumption DEF Create, Quick, Key
    <3> QED BY <2>2, <3>1 DEF RoomFor
  <2>4. ASSUME NEW n \in DOMAIN heard[c], heard[c][n].key.kind = "code"
        PROVE  seat[c] = Seat(heard[c][n].key.shard, Room(heard[c][n].key.n))
    <3>1. LoginOk.key.kind # "code"
      BY Messages, RoomKeys
    <3>2. heard[c] # <<LoginOk>>
      BY <2>4, <3>1, Pairs
    <3>3. CASE /\ conn[c].action = "RegisterFreeform" /\ heard[c] = <<LoginOk, RoomReply(wish[c])>>
      <4>1. wish[c] \in RoomNames
        BY <2>2, <3>3 DEF RoomFor
      <4>2. RoomReply(wish[c]).key.kind # "code"
        BY <4>1, Messages, GatewayAssumption
      <4>3. heard[c][n] = LoginOk \/ heard[c][n] = RoomReply(wish[c])
        BY <2>4, <3>3, Pairs
      <4> QED BY <2>4, <3>1, <4>2, <4>3
    <3>4. CASE /\ conn[c].action = "AddShardPrefix"
               /\ heard[c] = <<LoginOk, RoomReply(Code(conn[c].shard, seat[c].key.n))>>
      <4> DEFINE code == Code(conn[c].shard, seat[c].key.n)
      <4>1. heard[c][n] = LoginOk \/ heard[c][n] = RoomReply(code)
        BY <2>4, <3>4, Pairs
      <4>2. heard[c][n].key = code
        BY <2>4, <3>1, <4>1, Messages
      <4>3. code.shard = conn[c].shard /\ code.n = seat[c].key.n
        BY RoomKeys
      <4> HIDE DEF code
      <4>4. seat[c].key = Room(seat[c].key.n)
        <5>1. \A x : Room(x).n = x
          BY DEF Room, Key
        <5> QED BY <2>2, <3>4, <5>1 DEF RoomFor
      <4> QED BY <2>2, <4>2, <4>3, <4>4
    <3> QED BY <2>1, <3>2, <3>3, <3>4 DEF Told
  <2> QED BY <2>3, <2>4 DEF InItsRoom
<1> QED BY <1>1, <1>2

-----------------------------------------------------------------------------
(* Theorems *)

\* The gateway, its legs, the shards' sides of them and the matchmaker are always in one of
\* the situations that Flow lists for each phase of a client.
THEOREM GatewayInvariant == Spec => []GatewayInv
<1>1. Init => GatewayInv
  BY GatewayInitInv
<1>2. GatewayInv /\ [Next]_vars => GatewayInv'
  BY GatewayStepInv
<1> QED BY <1>1, <1>2, PTL DEF Spec

\* The matchmaker answers a WAIT once, as long as its process does not restart between.
THEOREM OneAnswerHolds == Spec => []OneAnswer
<1>1. GatewayInv => OneAnswer
  BY InvOneAnswer DEF GatewayInv
<1> QED BY <1>1, GatewayInvariant, PTL

\* Whom the matchmaker pairs meet in one room of one shard, however each of them gets there.
THEOREM MatchedMeetHolds == Spec => []MatchedMeet
<1>1. GatewayInv => MatchedMeet
  BY InvMatchedMeet DEF GatewayInv
<1> QED BY <1>1, GatewayInvariant, PTL

\* A shard has authenticated a leg before it reads a JOIN from it, on the first leg and on
\* the leg of a redirect.
THEOREM JoinFindsLoginHolds == Spec => []JoinFindsLogin
<1>1. GatewayInv => JoinFindsLogin
  BY InvJoinFindsLogin DEF GatewayInv
<1> QED BY <1>1, GatewayInvariant, PTL

\* What a client hears through redirects and searches is what one shard would have said.
THEOREM SeamlessSessionHolds == Spec => []SeamlessSession
<1>1. GatewayInv => SeamlessSession
  BY InvSeamlessSession DEF GatewayInv
<1> QED BY <1>1, GatewayInvariant, PTL

\* A code leads to the room and the shard it was issued for.
THEOREM CodeIsRoutedHolds == Spec => []CodeIsRouted
<1>1. GatewayInv => CodeIsRouted
  BY InvCodeIsRouted DEF GatewayInv
<1> QED BY <1>1, GatewayInvariant, PTL

===============================================================================
