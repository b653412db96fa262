------------------------------ MODULE ClientsProofs ------------------------------
(***************************************************************************)
(* Theorems about a client of the game server: what it shows is what the    *)
(* server has given it, the answer it waits for is due, and no event is     *)
(* lost, doubled or out of order, for any number of lost connections and    *)
(* whatever is typed.  They take from WireFaithful, which TLC checks, that  *)
(* a message is read as it was meant.                                       *)
(***************************************************************************)
EXTENDS Clients, SequenceTheorems, WellFoundedInduction, TLAPS

-----------------------------------------------------------------------------
(* Messages under way *)

Roles == {"WELCOME", "SPECTATE"}
Over == {"RECONNECTED", "FORFEIT"}

IsSeq(s) == s \in Seq(Range(s))

\* Some message of s is of one of these commands; at most one is.
Has(s, C) == \E i \in DOMAIN s : s[i].cmd \in C
HasOne(s, C) == \A i, j \in DOMAIN s : s[i].cmd \in C /\ s[j].cmd \in C => i = j

\* A warning is followed by the end of the danger; a warning is preceded by a role.
Settled(s) ==
  \A i \in DOMAIN s : s[i].cmd = "FORFEIT_WARNING" =>
    \E j \in DOMAIN s : j > i /\ s[j].cmd \in Over
Introduced(s) ==
  \A i \in DOMAIN s : s[i].cmd = "FORFEIT_WARNING" =>
    \E j \in DOMAIN s : j < i /\ s[j].cmd \in Roles

\* What the server says: every argument is one word, and a WELCOME names a colour.
IsSaid(m) ==
  /\ DOMAIN m = {"cmd", "args"} /\ OneWordEach(m)
  /\ m.cmd = "WELCOME" => \E color \in ColorNames : m = Welcome(color)

Said(s) == IsSeq(s) /\ \A i \in DOMAIN s : IsSaid(s[i])

\* What a client sends.
IsSent(m) == m = LoginMsg \/ (m.cmd \in {"JOIN", "CLICK"} /\ OneWordEach(m))

-----------------------------------------------------------------------------
(* The inductive invariant *)

\* The LOGIN of this user as the server reads it, and that it is good.
ReadLogin == Decode(Encode(LoginMsg))
Known == ReadLogin.cmd = "LOGIN" /\ account = ReadLogin.args[2][1]
Refused == account \notin {None, ReadLogin.args[2][1]}

LinkTypeOK ==
  /\ link \in {"down", "connecting", "up"}
  /\ srv \in [auth : BOOLEAN, place : {"none", "searching", "seated", "watching"},
              color : ColorNames \cup {None}, game : {"waiting", "running", "over"},
              warned : BOOLEAN]
  /\ held \in ColorNames \cup {None}
  /\ drops \in Nat
  /\ srv.warned => Routed

\* Whoever has no connection is a stranger, and nothing is under way.
NoLink == link # "up" => toServer = <<>> /\ toClient = <<>> /\ srv = Stranger

\* LOGIN is sent once per connection, and the answers to it are consistent.
LoginOnce ==
  /\ HasOne(toServer, {"LOGIN"}) /\ (srv.auth => ~Has(toServer, {"LOGIN"}))
  /\ srv.place # "none" => srv.auth
LoginTrue ==
  /\ srv.auth \/ Has(toClient, {"LOGIN_OK"}) => Known
  /\ Has(toClient, {"LOGIN_FAIL"}) => Refused

\* A role under way is the one the server has given.
SameColor(color) == srv.color = color \/ srv.game = "over"
RolesTrue ==
  /\ ~Routed => ~Has(toClient, Roles)
  /\ \A i \in DOMAIN toClient :
       toClient[i].cmd = "WELCOME" => SameColor(toClient[i].args[1][1])

MessagesOK ==
  /\ Said(toClient)
  /\ IsSeq(toServer) /\ \A i \in DOMAIN toServer : IsSent(toServer[i])

LinkInv ==
  /\ MessagesOK
  /\ LinkTypeOK /\ NoLink /\ LoginOnce /\ LoginTrue /\ RolesTrue
  /\ srv.warned \/ Settled(toClient)

\* The stages of a JOIN: none, on its way, searching, search in vain, in a room.
Free == srv.place = "none" /\ ~Has(toServer, {"JOIN"}) /\ ~Has(toClient, {"NO_OPPONENT"})
Asking ==
  /\ srv.place = "none" /\ ~Has(toClient, {"NO_OPPONENT"})
  /\ Has(toServer, {"JOIN"}) /\ HasOne(toServer, {"JOIN"})
Searching ==
  srv.place = "searching" /\ ~Has(toServer, {"JOIN"}) /\ ~Has(toClient, {"NO_OPPONENT"})
InVain ==
  /\ srv.place = "none" /\ ~Has(toServer, {"JOIN"})
  /\ Has(toClient, {"NO_OPPONENT"}) /\ HasOne(toClient, {"NO_OPPONENT"})
InRoom == Routed /\ ~Has(toClient, {"NO_OPPONENT"})

Untold == ~HasRole /\ ~proxy.searchFailed
ColorTrue == proxy.color = None \/ SameColor(proxy.color)
StillOn(warning) == warning => srv.warned \/ Has(toClient, Over)

\* What the desktop program waits for, unless it was cut off.
DesktopStage ==
  /\ screen \notin {"waiting", "session"} => Free
  /\ screen = "sending" => Untold
  /\ screen = "waiting" =>
       \/ Untold /\ (Asking \/ Searching \/ InVain)
       \/ ~HasRole /\ proxy.searchFailed /\ Free
       \/ InRoom /\ ColorTrue /\ ~proxy.searchFailed /\ (HasRole \/ Has(toClient, Roles))
  /\ screen = "session" => Routed /\ ColorTrue

DesktopInv ==
  /\ proxy.color \in ColorNames \cup {None} /\ DOMAIN proxy = DOMAIN NewProxy
  /\ proxy.resolved /\ ~proxy.failed => Known
  /\ proxy.failed => Refused
  /\ screen \in {"result", "room", "confirm", "sending", "waiting", "session"} =>
       proxy.resolved /\ ~proxy.failed
  /\ link = "up" /\ ~srv.auth /\ Known => toServer # <<>> /\ Head(toServer) = LoginMsg
  /\ screen # "exit" /\ drops = 0 => StillOn(proxy.warning)
  /\ ~late => DesktopStage

WebStage ==
  /\ Free \/ Asking \/ Searching \/ InVain \/ InRoom
  /\ pendingJoin # None => Free
  /\ trying => toServer = <<>> /\ toClient = <<>> /\ srv = Stranger
  /\ page = "lobby" => Introduced(toClient) /\ (Routed => Has(toClient, Roles))
  /\ page = "game" =>
       InRoom /\ StillOn(banner) /\ (seat = None \/ SameColor(ColorFromChar(seat)))

WebInv ==
  /\ screen = "login"
  /\ page \in {"lobby", "game"} /\ (page = "lobby" => ~banner)
  /\ link = "connecting" \/ trying => page = "lobby"
  /\ link = "up" => WebStage

ClientsInv ==
  /\ LinkInv
  /\ program = "desktop" => DesktopInv
  /\ program # "desktop" => WebInv

-----------------------------------------------------------------------------
(* Sequences of messages *)

LEMMA Parts ==
  ASSUME NEW s, IsSeq(s)
  PROVE  Len(s) \in Nat /\ DOMAIN s = 1 .. Len(s) /\ (s = <<>> <=> Len(s) = 0)
<1>1. s \in Seq(Range(s))
  BY DEF IsSeq
<1> QED BY <1>1, LenProperties, EmptySeq

LEMMA SeqIsSeq ==
  ASSUME NEW S, NEW s \in Seq(S)
  PROVE  IsSeq(s)
<1>1. Len(s) \in Nat /\ DOMAIN s = 1 .. Len(s) /\ s \in [1 .. Len(s) -> S]
  BY LenProperties
<1>2. s \in [1 .. Len(s) -> Range(s)]
  BY <1>1 DEF Range
<1> QED BY <1>1, <1>2, SeqDef DEF IsSeq

\* u is s with t behind it.
IsJoin(s, t, u) ==
  /\ IsSeq(u) /\ Len(u) = Len(s) + Len(t)
  /\ \A i \in DOMAIN s : i \in DOMAIN u /\ u[i] = s[i]
  /\ \A j \in DOMAIN t : Len(s) + j \in DOMAIN u /\ u[Len(s) + j] = t[j]
  /\ \A k \in DOMAIN u : k \in DOMAIN s \/ \E j \in DOMAIN t : k = Len(s) + j

LEMMA Joined ==
  ASSUME NEW s, NEW t, IsSeq(s), IsSeq(t)
  PROVE  IsJoin(s, t, s \o t)
<1> DEFINE S == Range(s) \cup Range(t)
           u == s \o t
<1>1. s \in Seq(S) /\ t \in Seq(S)
  BY SeqMonotonic DEF IsSeq
<1>2. /\ u \in Seq(S) /\ Len(u) = Len(s) + Len(t)
      /\ \A i \in 1 .. Len(s) + Len(t) : u[i] = IF i <= Len(s) THEN s[i] ELSE t[i - Len(s)]
  <2> HIDE DEF S
  <2> QED BY <1>1, ConcatProperties
<1>3. IsSeq(u)
  <2> HIDE DEF S, u
  <2> QED BY <1>2, SeqIsSeq
<1> HIDE DEF u
<1>4. /\ Len(s) \in Nat /\ DOMAIN s = 1 .. Len(s)
      /\ Len(t) \in Nat /\ DOMAIN t = 1 .. Len(t)
  BY Parts
<1>5. DOMAIN u = 1 .. Len(s) + Len(t)
  BY <1>2, <1>3, Parts
<1>6. \A i \in DOMAIN s : i \in DOMAIN u /\ u[i] = s[i]
  BY <1>2, <1>4, <1>5
<1>7. ASSUME NEW j \in DOMAIN t PROVE Len(s) + j \in DOMAIN u /\ u[Len(s) + j] = t[j]
  <2>1. /\ Len(s) + j \in 1 .. Len(s) + Len(t) /\ ~(Len(s) + j <= Len(s))
        /\ (Len(s) + j) - Len(s) = j
    BY <1>4
  <2> QED BY <2>1, <1>2, <1>5
<1>8. ASSUME NEW k \in DOMAIN u, k \notin DOMAIN s PROVE \E j \in DOMAIN t : k = Len(s) + j
  <2>1. k - Len(s) \in DOMAIN t /\ k = Len(s) + (k - Len(s))
    BY <1>4, <1>5, <1>8 DEF IsJoin, u
  <2> QED BY <2>1
<1> QED BY <1>2, <1>3, <1>6, <1>7, <1>8 DEF IsJoin, u

LEMMA Shortened ==
  ASSUME NEW s, IsSeq(s), s # <<>>
  PROVE  /\ IsSeq(Tail(s)) /\ 1 \in DOMAIN s /\ Head(s) = s[1]
         /\ \A i \in DOMAIN Tail(s) : i \in Nat \ {0} /\ i + 1 \in DOMAIN s /\ Tail(s)[i] = s[i + 1]
         /\ \A k \in DOMAIN s : k \in Nat /\ (k # 1 => k > 1 /\ k - 1 \in DOMAIN Tail(s))
<1> DEFINE t == Tail(s)
<1>1. s \in Seq(Range(s)) /\ Len(s) \in Nat \ {0} /\ DOMAIN s = 1 .. Len(s)
  BY Parts DEF IsSeq
<1>2. /\ t \in Seq(Range(s)) /\ Len(t) = Len(s) - 1
      /\ \A i \in 1 .. Len(t) : t[i] = s[i + 1]
  BY <1>1, HeadTailProperties
<1>3. Head(s) = s[1]
  BY <1>1
<1> HIDE DEF t
<1>4. IsSeq(t) /\ DOMAIN t = 1 .. Len(s) - 1
  <2>1. IsSeq(t)
    BY <1>2, SeqIsSeq
  <2> QED BY <1>2, <2>1, Parts
<1> QED BY <1>1, <1>2, <1>3, <1>4 DEF t

LEMMA HasJoined ==
  ASSUME NEW s, NEW t, IsSeq(s), IsSeq(t), NEW C
  PROVE  /\ Has(s \o t, C) <=> Has(s, C) \/ Has(t, C)
         /\ HasOne(s, C) /\ ~Has(t, C) => HasOne(s \o t, C)
         /\ HasOne(t, C) /\ ~Has(s, C) => HasOne(s \o t, C)
<1> DEFINE u == s \o t
<1>0. IsJoin(s, t, u)
  BY Joined
<1> HIDE DEF u
<1>1. /\ \A i \in DOMAIN s : i \in DOMAIN u /\ u[i] = s[i]
      /\ \A j \in DOMAIN t : Len(s) + j \in DOMAIN u /\ u[Len(s) + j] = t[j]
      /\ \A k \in DOMAIN u : k \in DOMAIN s \/ \E j \in DOMAIN t : k = Len(s) + j
  BY <1>0 DEF IsJoin
<1>2. Has(u, C) <=> Has(s, C) \/ Has(t, C)
  BY <1>1 DEF Has
<1>3. HasOne(s, C) /\ ~Has(t, C) => HasOne(u, C)
  BY <1>1 DEF Has, HasOne
<1>4. HasOne(t, C) /\ ~Has(s, C) => HasOne(u, C)
  BY <1>1 DEF Has, HasOne
<1> QED BY <1>2, <1>3, <1>4 DEF u

LEMMA HasShortened ==
  ASSUME NEW s, IsSeq(s), s # <<>>, NEW C
  PROVE  /\ Has(s, C) <=> Head(s).cmd \in C \/ Has(Tail(s), C)
         /\ HasOne(s, C) => HasOne(Tail(s), C) /\ (Head(s).cmd \in C => ~Has(Tail(s), C))
<1> DEFINE t == Tail(s)
<1>1. /\ 1 \in DOMAIN s /\ Head(s) = s[1]
      /\ \A i \in DOMAIN t : i \in Nat \ {0} /\ i + 1 \in DOMAIN s /\ t[i] = s[i + 1]
      /\ \A k \in DOMAIN s : k \in Nat /\ (k # 1 => k > 1 /\ k - 1 \in DOMAIN t)
  BY Shortened
<1> HIDE DEF t
<1>2. \A k \in DOMAIN s : k # 1 => k - 1 \in DOMAIN t /\ t[k - 1] = s[k]
  BY <1>1
<1>3. Has(s, C) <=> Head(s).cmd \in C \/ Has(t, C)
  BY <1>1, <1>2 DEF Has
<1>4. ASSUME HasOne(s, C) PROVE HasOne(t, C)
  <2> SUFFICES ASSUME NEW i \in DOMAIN t, NEW j \in DOMAIN t, t[i].cmd \in C, t[j].cmd \in C
               PROVE  i = j
    BY DEF HasOne
  <2>1. i + 1 = j + 1
    BY <1>1, <1>4 DEF HasOne
  <2> QED BY <1>1, <2>1
<1>5. ASSUME HasOne(s, C), Head(s).cmd \in C PROVE ~Has(t, C)
  <2> SUFFICES ASSUME NEW i \in DOMAIN t, t[i].cmd \in C PROVE FALSE
    BY DEF Has
  <2>1. i + 1 = 1
    BY <1>1, <1>5 DEF HasOne
  <2> QED BY <1>1, <2>1
<1> QED BY <1>3, <1>4, <1>5 DEF t

LEMMA SettledKept ==
  ASSUME NEW s, NEW t, IsSeq(s), IsSeq(t), Settled(t), Settled(s) \/ Has(t, Over)
  PROVE  Settled(s \o t)
<1> DEFINE u == s \o t
<1>0. IsJoin(s, t, u)
  BY Joined
<1> HIDE DEF u
<1>1. /\ \A i \in DOMAIN s : i \in DOMAIN u /\ u[i] = s[i]
      /\ \A j \in DOMAIN t : Len(s) + j \in DOMAIN u /\ u[Len(s) + j] = t[j]
      /\ \A k \in DOMAIN u : k \in DOMAIN s \/ \E j \in DOMAIN t : k = Len(s) + j
  BY <1>0 DEF IsJoin
<1>2. /\ Len(s) \in Nat /\ DOMAIN s = 1 .. Len(s)
      /\ Len(t) \in Nat /\ DOMAIN t = 1 .. Len(t)
  BY Parts
<1> SUFFICES ASSUME NEW k \in DOMAIN u, u[k].cmd = "FORFEIT_WARNING"
             PROVE  \E l \in DOMAIN u : l > k /\ u[l].cmd \in Over
  BY DEF Settled, u
<1>3. CASE k \in DOMAIN s
  <2>1. CASE Settled(s)
    <3>1. PICK j \in DOMAIN s : j > k /\ s[j].cmd \in Over
      BY <1>1, <1>3, <2>1 DEF Settled
    <3> QED BY <1>1, <3>1
  <2>2. CASE Has(t, Over)
    <3>1. PICK j \in DOMAIN t : t[j].cmd \in Over
      BY <2>2 DEF Has
    <3>2. Len(s) + j > k
      BY <1>2, <1>3
    <3> QED BY <1>1, <3>1, <3>2
  <2> QED BY <2>1, <2>2
<1>4. CASE k \notin DOMAIN s
  <2>1. PICK i \in DOMAIN t : k = Len(s) + i
    BY <1>1, <1>4
  <2>2. PICK j \in DOMAIN t : j > i /\ t[j].cmd \in Over
    BY <1>1, <2>1 DEF Settled
  <2>3. Len(s) + j > k
    BY <1>2, <2>1, <2>2
  <2> QED BY <1>1, <2>2, <2>3
<1> QED BY <1>3, <1>4

LEMMA SettledShortened ==
  ASSUME NEW s, IsSeq(s), s # <<>>, Settled(s)
  PROVE  /\ Settled(Tail(s))
         /\ Head(s).cmd = "FORFEIT_WARNING" => Has(Tail(s), Over)
<1> DEFINE t == Tail(s)
<1>1. /\ 1 \in DOMAIN s /\ Head(s) = s[1]
      /\ \A i \in DOMAIN t : i \in Nat \ {0} /\ i + 1 \in DOMAIN s /\ t[i] = s[i + 1]
      /\ \A k \in DOMAIN s : k \in Nat /\ (k # 1 => k > 1 /\ k - 1 \in DOMAIN t)
  BY Shortened
<1> HIDE DEF t
<1>2. ASSUME NEW k \in DOMAIN s, k > 1 PROVE k - 1 \in DOMAIN t /\ t[k - 1] = s[k]
  BY <1>1, <1>2
<1>3. Settled(t)
  <2> SUFFICES ASSUME NEW i \in DOMAIN t, t[i].cmd = "FORFEIT_WARNING"
               PROVE  \E j \in DOMAIN t : j > i /\ t[j].cmd \in Over
    BY DEF Settled
  <2>1. i \in Nat \ {0} /\ i + 1 \in DOMAIN s /\ s[i + 1].cmd = "FORFEIT_WARNING"
    BY <1>1
  <2>2. PICK j \in DOMAIN s : j > i + 1 /\ s[j].cmd \in Over
    BY <2>1 DEF Settled
  <2>3. j \in Nat /\ j > 1
    BY <1>1, <2>1, <2>2
  <2>4. j - 1 \in DOMAIN t /\ t[j - 1].cmd \in Over /\ j - 1 > i
    BY <1>2, <2>1, <2>2, <2>3
  <2> QED BY <2>4
<1>4. ASSUME Head(s).cmd = "FORFEIT_WARNING" PROVE Has(t, Over)
  <2>1. PICK j \in DOMAIN s : j > 1 /\ s[j].cmd \in Over
    BY <1>1, <1>4 DEF Settled
  <2> QED BY <1>2, <2>1 DEF Has
<1> QED BY <1>3, <1>4 DEF t

LEMMA IntroducedKept ==
  ASSUME NEW s, NEW t, IsSeq(s), IsSeq(t), Introduced(s), Introduced(t) \/ Has(s, Roles)
  PROVE  Introduced(s \o t)
<1> DEFINE u == s \o t
<1>0. IsJoin(s, t, u)
  BY Joined
<1> HIDE DEF u
<1>1. /\ \A i \in DOMAIN s : i \in DOMAIN u /\ u[i] = s[i]
      /\ \A j \in DOMAIN t : Len(s) + j \in DOMAIN u /\ u[Len(s) + j] = t[j]
      /\ \A k \in DOMAIN u : k \in DOMAIN s \/ \E j \in DOMAIN t : k = Len(s) + j
  BY <1>0 DEF IsJoin
<1>2. /\ Len(s) \in Nat /\ DOMAIN s = 1 .. Len(s)
      /\ Len(t) \in Nat /\ DOMAIN t = 1 .. Len(t)
  BY Parts
<1> SUFFICES ASSUME NEW k \in DOMAIN u, u[k].cmd = "FORFEIT_WARNING"
             PROVE  \E l \in DOMAIN u : l < k /\ u[l].cmd \in Roles
  BY DEF Introduced, u
<1>3. CASE k \in DOMAIN s
  BY <1>1, <1>3 DEF Introduced
<1>4. CASE k \notin DOMAIN s
  <2>1. PICK i \in DOMAIN t : k = Len(s) + i
    BY <1>1, <1>4
  <2>2. CASE Introduced(t)
    <3>1. PICK j \in DOMAIN t : j < i /\ t[j].cmd \in Roles
      BY <1>1, <2>1, <2>2 DEF Introduced
    <3>2. Len(s) + j < k
      BY <1>2, <2>1, <3>1
    <3> QED BY <1>1, <3>1, <3>2
  <2>3. CASE Has(s, Roles)
    <3>1. PICK j \in DOMAIN s : s[j].cmd \in Roles
      BY <2>3 DEF Has
    <3>2. j < k
      BY <1>2, <2>1
    <3> QED BY <1>1, <3>1, <3>2
  <2> QED BY <2>2, <2>3
<1> QED BY <1>3, <1>4

LEMMA IntroducedShortened ==
  ASSUME NEW s, IsSeq(s), s # <<>>, Introduced(s)
  PROVE  /\ Head(s).cmd # "FORFEIT_WARNING"
         /\ Head(s).cmd \notin Roles => Introduced(Tail(s))
<1> DEFINE t == Tail(s)
<1>1. /\ 1 \in DOMAIN s /\ Head(s) = s[1]
      /\ \A i \in DOMAIN t : i \in Nat \ {0} /\ i + 1 \in DOMAIN s /\ t[i] = s[i + 1]
      /\ \A k \in DOMAIN s : k \in Nat /\ (k # 1 => k > 1 /\ k - 1 \in DOMAIN t)
  BY Shortened
<1> HIDE DEF t
<1>2. ASSUME Head(s).cmd = "FORFEIT_WARNING" PROVE FALSE
  <2>1. PICK j \in DOMAIN s : j < 1
    BY <1>1, <1>2 DEF Introduced
  <2> QED BY <1>1, <2>1
<1>3. ASSUME Head(s).cmd \notin Roles, NEW i \in DOMAIN t, t[i].cmd = "FORFEIT_WARNING"
      PROVE  \E j \in DOMAIN t : j < i /\ t[j].cmd \in Roles
  <2>1. i \in Nat \ {0} /\ i + 1 \in DOMAIN s /\ s[i + 1].cmd = "FORFEIT_WARNING"
    BY <1>1, <1>3
  <2>2. PICK j \in DOMAIN s : j < i + 1 /\ s[j].cmd \in Roles
    BY <2>1 DEF Introduced
  <2>3. j \in Nat /\ j # 1
    BY <1>1, <1>3, <2>2
  <2>4. j - 1 \in DOMAIN t /\ j - 1 < i /\ (j - 1) + 1 = j
    BY <1>1, <2>1, <2>2, <2>3
  <2> QED BY <1>1, <2>2, <2>4
<1> QED BY <1>2, <1>3 DEF t, Introduced

-----------------------------------------------------------------------------
(* What the server does, as far as the invariant tells *)

Special == {"LOGIN_OK", "LOGIN_FAIL", "NO_OPPONENT", "FORFEIT_WARNING"} \cup Roles \cup Over

\* The server says msgs, of the special commands those of C only.
Says(msgs, C) ==
  Said(msgs) /\ toClient' = toClient \o msgs /\ \A i \in DOMAIN msgs : msgs[i].cmd \in Special => msgs[i].cmd \in C
WelcomesOf(msgs, color) ==
  \A i \in DOMAIN msgs : msgs[i].cmd = "WELCOME" => msgs[i].args[1][1] = color

TakesHead == toServer # <<>> /\ toServer' = Tail(toServer)
TakesJoin == TakesHead /\ Head(toServer).cmd = "JOIN" /\ srv.auth /\ ~Routed
TakesLogin == TakesHead /\ Head(toServer) = LoginMsg /\ ~srv.auth /\ ReadLogin.cmd = "LOGIN"

LetsIn ==
  /\ TakesLogin /\ ~Refused /\ account' = ReadLogin.args[2][1] /\ srv' = [srv EXCEPT !.auth = TRUE]
  /\ UNCHANGED held
  /\ \E msgs : Says(msgs, {"LOGIN_OK"})
Refuses ==
  /\ TakesLogin /\ Refused /\ UNCHANGED <<account, srv, held>>
  /\ \E msgs : Says(msgs, {"LOGIN_FAIL"})
Passes ==
  /\ TakesHead
  /\ Head(toServer) = LoginMsg /\ ~srv.auth => ReadLogin.cmd # "LOGIN"
  /\ Head(toServer).cmd = "JOIN" => ~srv.auth \/ Routed
  /\ UNCHANGED <<toClient, srv, held, account>>
GivesRole ==
  /\ ~Routed /\ Routed' /\ LinkTypeOK'
  /\ srv'.auth = srv.auth /\ srv'.warned = srv.warned
  /\ UNCHANGED account
  /\ \E msgs : Says(msgs, Roles \cup Over) /\ Has(msgs, Roles) /\ WelcomesOf(msgs, srv'.color)
Searches ==
  TakesJoin /\ srv' = [srv EXCEPT !.place = "searching"] /\ UNCHANGED <<toClient, held, account>>
Matches == srv.place = "searching" /\ UNCHANGED toServer /\ GivesRole
GivesUp ==
  /\ srv.place = "searching" /\ srv' = [srv EXCEPT !.place = "none"]
  /\ UNCHANGED <<toServer, held, account>>
  /\ \E msgs : /\ Says(msgs, {"NO_OPPONENT"})
               /\ Has(msgs, {"NO_OPPONENT"}) /\ HasOne(msgs, {"NO_OPPONENT"})
SameSeat == srv'.color = srv.color /\ (srv.game = "over" => srv'.game = "over")
Plays ==
  /\ Routed /\ LinkTypeOK' /\ SameSeat
  /\ srv'.place = srv.place /\ srv'.auth = srv.auth /\ srv'.warned = srv.warned
  /\ UNCHANGED <<toServer, held, account>>
  /\ \E msgs : Says(msgs, {})
Warns ==
  /\ Routed /\ srv' = [srv EXCEPT !.warned = TRUE]
  /\ UNCHANGED <<toServer, held, account>>
  /\ \E msgs : Says(msgs, {"FORFEIT_WARNING"})
Calms ==
  /\ Routed /\ Routed' /\ ~srv'.warned /\ srv'.auth = srv.auth /\ LinkTypeOK'
  /\ SameSeat \/ srv'.game = "over"
  /\ UNCHANGED <<toServer, held, account>>
  /\ \E msgs : Says(msgs, Over) /\ Has(msgs, Over)
Forgets == held' = None /\ UNCHANGED <<toServer, toClient, srv, account>>

Serves ==
  /\ UNCHANGED clientSide
  /\ \/ LetsIn \/ Refuses \/ Passes \/ (TakesJoin /\ GivesRole) \/ Searches
     \/ Matches \/ GivesUp \/ Plays \/ Warns \/ Calms \/ Forgets

LEMMA Worded ==
  ASSUME NEW cmd, NEW w
  PROVE  /\ OneWordEach(Msg(cmd, One(w)))
         /\ Msg(cmd, One(w)).cmd = cmd /\ DOMAIN Msg(cmd, One(w)) = {"cmd", "args"}
<1>1. DOMAIN One(w) = DOMAIN w /\ \A i \in DOMAIN w : One(w)[i] = <<w[i]>>
  BY DEF One
<1>2. \A x : Len(<<x>>) = 1
  OBVIOUS
<1>3. \A i \in DOMAIN One(w) : Len(One(w)[i]) = 1
  BY <1>1, <1>2
<1> QED BY <1>3 DEF OneWordEach, Msg

LEMMA BareWorded ==
  ASSUME NEW cmd
  PROVE  /\ OneWordEach(Msg(cmd, <<>>))
         /\ Msg(cmd, <<>>).cmd = cmd /\ DOMAIN Msg(cmd, <<>>) = {"cmd", "args"}
BY DEF OneWordEach, Msg

LEMMA WordsAreSaid ==
  ASSUME NEW cmd, cmd # "WELCOME", NEW w
  PROVE  IsSaid(Msg(cmd, One(w))) /\ Msg(cmd, One(w)).cmd = cmd
BY Worded DEF IsSaid

LEMMA BareIsSaid ==
  ASSUME NEW cmd, cmd # "WELCOME"
  PROVE  IsSaid(Msg(cmd, <<>>)) /\ Msg(cmd, <<>>).cmd = cmd
BY BareWorded DEF IsSaid

LEMMA WelcomeIsSaid ==
  ASSUME NEW color \in ColorNames
  PROVE  /\ IsSaid(Welcome(color)) /\ Welcome(color).cmd = "WELCOME"
         /\ Welcome(color).args[1][1] = color
<1>1. Welcome(color).args[1][1] = color
  BY DEF Welcome, Msg, One
<1> QED BY <1>1, Worded DEF IsSaid, Welcome

LEMMA StateIsSaid ==
  ASSUME NEW args
  PROVE  IsSaid(Msg("STATE", args)) /\ Msg("STATE", args).cmd = "STATE"
BY DEF IsSaid, OneWordEach, Msg

LEMMA NewsIsSaid ==
  /\ IsSaid(Room) /\ Room.cmd = "ROOM" /\ IsSaid(Players) /\ Players.cmd = "PLAYERS"
  /\ IsSaid(Ratings) /\ Ratings.cmd = "RATINGS" /\ IsSaid(Started) /\ Started.cmd = "GAME_START"
<1>1. IsSaid(Room) /\ Room.cmd = "ROOM"
  BY WordsAreSaid DEF Room
<1>2. IsSaid(Players) /\ Players.cmd = "PLAYERS"
  BY WordsAreSaid DEF Players
<1>3. IsSaid(Ratings) /\ Ratings.cmd = "RATINGS"
  BY WordsAreSaid DEF Ratings
<1>4. IsSaid(Started) /\ Started.cmd = "GAME_START"
  BY BareIsSaid DEF Started
<1> QED BY <1>1, <1>2, <1>3, <1>4

\* Up to four messages at a time.
LEMMA SaidTuple ==
  /\ \A a : IsSaid(a) => Said(<<a>>) /\ DOMAIN <<a>> = {1}
  /\ \A a, b : IsSaid(a) /\ IsSaid(b) => Said(<<a, b>>) /\ DOMAIN <<a, b>> = {1, 2}
  /\ \A a, b, c : IsSaid(a) /\ IsSaid(b) /\ IsSaid(c) =>
       Said(<<a, b, c>>) /\ DOMAIN <<a, b, c>> = {1, 2, 3}
  /\ \A a, b, c, d : IsSaid(a) /\ IsSaid(b) /\ IsSaid(c) /\ IsSaid(d) =>
       Said(<<a, b, c, d>>) /\ DOMAIN <<a, b, c, d>> = {1, 2, 3, 4}
<1>1. ASSUME NEW a, IsSaid(a) PROVE Said(<<a>>) /\ DOMAIN <<a>> = {1}
  <2>1. <<a>> \in Seq({a}) /\ DOMAIN <<a>> = {1}
    OBVIOUS
  <2>2. IsSeq(<<a>>)
    BY <2>1, SeqIsSeq
  <2> QED BY <1>1, <2>1, <2>2 DEF Said
<1>2. ASSUME NEW a, NEW b, IsSaid(a), IsSaid(b)
      PROVE  Said(<<a, b>>) /\ DOMAIN <<a, b>> = {1, 2}
  <2>1. <<a, b>> \in Seq({a, b}) /\ DOMAIN <<a, b>> = {1, 2}
    OBVIOUS
  <2>2. IsSeq(<<a, b>>)
    BY <2>1, SeqIsSeq
  <2> QED BY <1>2, <2>1, <2>2 DEF Said
<1>3. ASSUME NEW a, NEW b, NEW c, IsSaid(a), IsSaid(b), IsSaid(c)
      PROVE  Said(<<a, b, c>>) /\ DOMAIN <<a, b, c>> = {1, 2, 3}
  <2>1. <<a, b, c>> \in Seq({a, b, c}) /\ DOMAIN <<a, b, c>> = {1, 2, 3}
    OBVIOUS
  <2>2. IsSeq(<<a, b, c>>)
    BY <2>1, SeqIsSeq
  <2> QED BY <1>3, <2>1, <2>2 DEF Said
<1>4. ASSUME NEW a, NEW b, NEW c, NEW d, IsSaid(a), IsSaid(b), IsSaid(c), IsSaid(d)
      PROVE  Said(<<a, b, c, d>>) /\ DOMAIN <<a, b, c, d>> = {1, 2, 3, 4}
  <2>1. <<a, b, c, d>> \in Seq({a, b, c, d}) /\ DOMAIN <<a, b, c, d>> = {1, 2, 3, 4}
    OBVIOUS
  <2>2. IsSeq(<<a, b, c, d>>)
    BY <2>1, SeqIsSeq
  <2> QED BY <1>4, <2>1, <2>2 DEF Said
<1> QED BY <1>1, <1>2, <1>3, <1>4

\* What is said of a role: the messages that a JOIN or a match is answered with.
LEMMA RoleIsSaid ==
  ASSUME NEW color \in ColorNames, NEW msgs,
         \/ msgs = <<Welcome(color), Room, Players, Msg("RECONNECTED", One(<<color>>))>>
         \/ msgs = <<Welcome(color), Players, Started>>
         \/ msgs = <<Welcome(color), Room>>
         \/ msgs = <<Welcome(color), Room, Players, Started>>,
         toClient' = toClient \o msgs
  PROVE  Says(msgs, Roles \cup Over) /\ Has(msgs, Roles) /\ WelcomesOf(msgs, color)
<1> DEFINE W == Welcome(color)
           X == Msg("RECONNECTED", One(<<color>>))
<1>1. /\ IsSaid(W) /\ W.cmd = "WELCOME" /\ W.args[1][1] = color
      /\ IsSaid(X) /\ X.cmd = "RECONNECTED"
  BY WelcomeIsSaid, WordsAreSaid
<1>2. /\ IsSaid(Room) /\ Room.cmd = "ROOM" /\ IsSaid(Players) /\ Players.cmd = "PLAYERS"
      /\ IsSaid(Started) /\ Started.cmd = "GAME_START"
  BY NewsIsSaid
<1> HIDE DEF W, X
<1>3. CASE msgs = <<W, Room, Players, X>>
  <2>1. /\ Said(msgs) /\ DOMAIN msgs = {1, 2, 3, 4}
        /\ msgs[1] = W /\ msgs[2] = Room /\ msgs[3] = Players /\ msgs[4] = X
    BY <1>1, <1>2, <1>3, SaidTuple
  <2> QED BY <1>1, <1>2, <2>1 DEF Says, Has, WelcomesOf, Special, Roles, Over
<1>4. CASE msgs = <<W, Players, Started>>
  <2>1. /\ Said(msgs) /\ DOMAIN msgs = {1, 2, 3}
        /\ msgs[1] = W /\ msgs[2] = Players /\ msgs[3] = Started
    BY <1>1, <1>2, <1>4, SaidTuple
  <2> QED BY <1>1, <1>2, <2>1 DEF Says, Has, WelcomesOf, Special, Roles, Over
<1>5. CASE msgs = <<W, Room>>
  <2>1. Said(msgs) /\ DOMAIN msgs = {1, 2} /\ msgs[1] = W /\ msgs[2] = Room
    BY <1>1, <1>2, <1>5, SaidTuple
  <2> QED BY <1>1, <1>2, <2>1 DEF Says, Has, WelcomesOf, Special, Roles, Over
<1>6. CASE msgs = <<W, Room, Players, Started>>
  <2>1. /\ Said(msgs) /\ DOMAIN msgs = {1, 2, 3, 4}
        /\ msgs[1] = W /\ msgs[2] = Room /\ msgs[3] = Players /\ msgs[4] = Started
    BY <1>1, <1>2, <1>6, SaidTuple
  <2> QED BY <1>1, <1>2, <2>1 DEF Says, Has, WelcomesOf, Special, Roles, Over
<1> QED BY <1>3, <1>4, <1>5, <1>6 DEF W, X

LEMMA SpectatorIsSaid ==
  ASSUME NEW msgs, msgs = <<Msg("SPECTATE", <<>>), Room, Players>>, toClient' = toClient \o msgs,
         NEW color
  PROVE  Says(msgs, Roles \cup Over) /\ Has(msgs, Roles) /\ WelcomesOf(msgs, color)
<1>1. IsSaid(Msg("SPECTATE", <<>>)) /\ Msg("SPECTATE", <<>>).cmd = "SPECTATE"
  BY BareIsSaid
<1>2. IsSaid(Room) /\ Room.cmd = "ROOM" /\ IsSaid(Players) /\ Players.cmd = "PLAYERS"
  BY NewsIsSaid
<1>3. /\ Said(msgs) /\ DOMAIN msgs = {1, 2, 3}
      /\ msgs[1] = Msg("SPECTATE", <<>>) /\ msgs[2] = Room /\ msgs[3] = Players
  BY <1>1, <1>2, SaidTuple
<1> QED BY <1>1, <1>2, <1>3 DEF Says, Has, WelcomesOf, Special, Roles, Over

LEMMA OneIsSaid ==
  ASSUME NEW m, IsSaid(m), NEW C, m.cmd \in Special => m.cmd \in C, toClient' = toClient \o <<m>>
  PROVE  /\ Says(<<m>>, C)
         /\ \A D : m.cmd \in D => Has(<<m>>, D) /\ HasOne(<<m>>, D)
<1>1. Said(<<m>>) /\ DOMAIN <<m>> = {1} /\ <<m>>[1] = m
  BY SaidTuple
<1>2. Says(<<m>>, C)
  BY <1>1 DEF Says
<1> DEFINE t == <<m>>
<1> HIDE DEF t
<1>3. DOMAIN t = {1} /\ t[1] = m
  BY <1>1 DEF t
<1>4. \A D : m.cmd \in D => Has(t, D) /\ HasOne(t, D)
  BY <1>3 DEF Has, HasOne
<1> QED BY <1>2, <1>4 DEF t

LEMMA TwoAreSaid ==
  ASSUME NEW m, IsSaid(m), NEW n, IsSaid(n), NEW C, m.cmd \in Special => m.cmd \in C,
         n.cmd \in Special => n.cmd \in C, toClient' = toClient \o <<m, n>>
  PROVE  /\ Says(<<m, n>>, C)
         /\ \A D : m.cmd \in D => Has(<<m, n>>, D)
<1> DEFINE t == <<m, n>>
<1>1. Said(t) /\ DOMAIN t = {1, 2} /\ t[1] = m /\ t[2] = n
  BY SaidTuple
<1>2. toClient' = toClient \o t
  OBVIOUS
<1> HIDE DEF t
<1>3. Says(t, C)
  BY <1>1, <1>2 DEF Says
<1>4. \A D : m.cmd \in D => Has(t, D)
  BY <1>1 DEF Has
<1> QED BY <1>3, <1>4 DEF t

\* A JOIN or a click is read as it was sent.
LEMMA ReadAsSent ==
  ASSUME MessagesOK, WireFaithful, toServer # <<>>, Head(toServer) # LoginMsg
  PROVE  Decode(Encode(Head(toServer))) = Head(toServer) /\ Head(toServer).cmd \in {"JOIN", "CLICK"}
<1>1. IsSeq(toServer) /\ \A i \in DOMAIN toServer : IsSent(toServer[i])
  BY DEF MessagesOK
<1>2. 1 \in DOMAIN toServer /\ Head(toServer) = toServer[1]
  BY <1>1, Shortened
<1>3. Head(toServer) \in Range(toServer) /\ IsSent(Head(toServer))
  BY <1>1, <1>2 DEF Range
<1> QED BY <1>3 DEF WireFaithful, IsSent

LEMMA LoginServes ==
  ASSUME MessagesOK, WireFaithful, TakesHead, NEW m, m = Decode(Encode(Head(toServer))), Login(m),
         UNCHANGED clientSide
  PROVE  Serves
<1>1. Head(toServer) = LoginMsg
  BY ReadAsSent DEF Login, TakesHead
<1>2. m = ReadLogin /\ ~srv.auth /\ m.cmd = "LOGIN" /\ UNCHANGED <<held, events>>
  BY <1>1 DEF ReadLogin, Login
<1>3. TakesLogin
  BY <1>1, <1>2 DEF TakesLogin
<1>4. CASE account \in {None, m.args[2][1]}
  <2> DEFINE ok == Msg("LOGIN_OK", One(<<"1200", IF account = None THEN "1" ELSE "0">>))
  <2>1. account' = m.args[2][1] /\ srv' = [srv EXCEPT !.auth = TRUE] /\ toClient' = toClient \o <<ok>>
    BY <1>4 DEF Login, Say
  <2>2. IsSaid(ok) /\ ok.cmd = "LOGIN_OK"
    BY WordsAreSaid
  <2> HIDE DEF ok
  <2>3. Says(<<ok>>, {"LOGIN_OK"})
    BY <2>1, <2>2, OneIsSaid
  <2>4. LetsIn
    BY <1>2, <1>3, <1>4, <2>1, <2>3 DEF LetsIn, Refused
  <2> QED BY <2>4 DEF Serves
<1>5. CASE account \notin {None, m.args[2][1]}
  <2> DEFINE no == Msg("LOGIN_FAIL", One(<<"bad_password">>))
  <2>1. toClient' = toClient \o <<no>> /\ UNCHANGED <<account, srv>>
    BY <1>5 DEF Login, Say
  <2>2. IsSaid(no) /\ no.cmd = "LOGIN_FAIL"
    BY WordsAreSaid
  <2> HIDE DEF no
  <2>3. Says(<<no>>, {"LOGIN_FAIL"})
    BY <2>1, <2>2, OneIsSaid
  <2>4. Refuses
    BY <1>2, <1>3, <1>5, <2>1, <2>3 DEF Refuses, Refused
  <2> QED BY <2>4 DEF Serves
<1> QED BY <1>4, <1>5

LEMMA Sits ==
  ASSUME LinkTypeOK, ~Routed, NEW color \in ColorNames, NEW game \in {"waiting", "running"},
         Sit(color, game), held' \in ColorNames \cup {None}, UNCHANGED <<link, drops>>
  PROVE  /\ Routed' /\ LinkTypeOK' /\ srv'.color = color
         /\ srv'.auth = srv.auth /\ srv'.warned = srv.warned
<1>1. srv' = [srv EXCEPT !.place = "seated", !.color = color, !.game = game]
  BY DEF Sit
<1>2. /\ srv' \in [auth : BOOLEAN, place : {"none", "searching", "seated", "watching"},
                   color : ColorNames \cup {None}, game : {"waiting", "running", "over"},
                   warned : BOOLEAN]
      /\ srv'.place = "seated" /\ srv'.color = color /\ srv'.auth = srv.auth
      /\ srv'.warned = srv.warned
  BY <1>1 DEF LinkTypeOK
<1> QED BY <1>2 DEF LinkTypeOK, Routed

LEMMA JoinServes ==
  ASSUME MessagesOK, LinkTypeOK, WireFaithful, TakesHead, NEW m, m = Decode(Encode(Head(toServer))),
         Join(m), Head(toServer) # LoginMsg, UNCHANGED clientSide
  PROVE  Serves
<1>1. m = Head(toServer) /\ m.cmd = "JOIN" /\ srv.auth /\ ~Routed /\ UNCHANGED account
  BY ReadAsSent DEF TakesHead, Join
<1>2. TakesJoin
  BY <1>1 DEF TakesJoin
<1>3. UNCHANGED <<link, drops>>
  BY DEF clientSide
<1>4. ASSUME NEW color \in ColorNames, NEW game \in {"waiting", "running"}, NEW msgs,
             Sit(color, game), held' \in ColorNames \cup {None},
             \/ msgs = <<Welcome(color), Room, Players, Msg("RECONNECTED", One(<<color>>))>>
             \/ msgs = <<Welcome(color), Players, Started>>
             \/ msgs = <<Welcome(color), Room>>
             \/ msgs = <<Welcome(color), Room, Players, Started>>,
             Say(msgs)
      PROVE  Serves
  <2>1. Routed' /\ LinkTypeOK' /\ srv'.color = color /\ srv'.auth = srv.auth /\ srv'.warned = srv.warned
    BY <1>1, <1>3, <1>4, Sits
  <2>2. toClient' = toClient \o msgs
    BY <1>4 DEF Say
  <2>3. Says(msgs, Roles \cup Over) /\ Has(msgs, Roles) /\ WelcomesOf(msgs, color)
    BY <1>4, <2>2, RoleIsSaid
  <2>4. GivesRole
    BY <1>1, <2>1, <2>3 DEF GivesRole
  <2> QED BY <1>2, <2>4 DEF Serves
<1>5. held \in ColorNames \cup {None} /\ None \notin ColorNames
  BY DEF LinkTypeOK, None, ColorNames
<1>6. "White" \in ColorNames /\ "Black" \in ColorNames
  BY DEF ColorNames
<1>7. CASE Reconnect
  <2>1. held \in ColorNames /\ held' \in ColorNames \cup {None} /\ Sit(held, "running")
    BY <1>5, <1>7 DEF Reconnect
  <2>2. Say(<<Welcome(held), Room, Players, Msg("RECONNECTED", One(<<held>>))>>)
    BY <1>7 DEF Reconnect
  <2> QED BY <1>4, <2>1, <2>2
<1>8. CASE QuickMatch /\ UNCHANGED held
  <2>1. CASE srv' = [srv EXCEPT !.place = "searching"] /\ UNCHANGED <<toClient, owed>>
    BY <1>1, <1>2, <1>8, <2>1 DEF Searches, Serves
  <2>2. CASE Sit("Black", "running") /\ Say(<<Welcome("Black"), Players, Started>>)
    BY <1>4, <1>5, <1>6, <1>8, <2>2
  <2> QED BY <1>8, <2>1, <2>2 DEF QuickMatch
<1>9. CASE EnterRoom(m.args[1][1]) /\ UNCHANGED held
  <2>1. CASE Sit("White", "waiting") /\ Say(<<Welcome("White"), Room>>)
    BY <1>4, <1>5, <1>6, <1>9, <2>1
  <2>2. CASE Sit("Black", "running") /\ Say(<<Welcome("Black"), Room, Players, Started>>)
    BY <1>4, <1>5, <1>6, <1>9, <2>2
  <2>3. CASE /\ srv' = [srv EXCEPT !.place = "watching", !.game = "running"]
             /\ Say(<<Msg("SPECTATE", <<>>), Room, Players>>)
    <3>1. /\ srv' \in [auth : BOOLEAN, place : {"none", "searching", "seated", "watching"},
                       color : ColorNames \cup {None}, game : {"waiting", "running", "over"},
                       warned : BOOLEAN]
          /\ srv'.place = "watching" /\ srv'.auth = srv.auth /\ srv'.warned = srv.warned
      BY <2>3 DEF LinkTypeOK
    <3>2. Routed' /\ LinkTypeOK'
      BY <1>3, <1>9, <3>1 DEF LinkTypeOK, Routed
    <3>3. toClient' = toClient \o <<Msg("SPECTATE", <<>>), Room, Players>>
      BY <2>3 DEF Say
    <3>4. \E msgs : Says(msgs, Roles \cup Over) /\ Has(msgs, Roles) /\ WelcomesOf(msgs, srv'.color)
      BY <3>3, SpectatorIsSaid
    <3>5. GivesRole
      BY <1>1, <3>1, <3>2, <3>4 DEF GivesRole
    <3> QED BY <1>2, <3>5 DEF Serves
  <2> QED BY <1>9, <2>1, <2>2, <2>3 DEF EnterRoom
<1> QED BY <1>7, <1>8, <1>9 DEF Join

LEMMA IgnoreServes ==
  ASSUME MessagesOK, WireFaithful, TakesHead, NEW m, m = Decode(Encode(Head(toServer))), Ignore(m),
         UNCHANGED clientSide
  PROVE  Serves
<1>1. UNCHANGED <<toClient, srv, held, account>>
  BY DEF Ignore
<1>2. ASSUME Head(toServer) = LoginMsg, ~srv.auth PROVE ReadLogin.cmd # "LOGIN"
  BY <1>2 DEF Ignore, ReadLogin
<1>3. ASSUME Head(toServer).cmd = "JOIN" PROVE ~srv.auth \/ Routed
  <2>1. Head(toServer) # LoginMsg
    BY <1>3 DEF LoginMsg, Msg
  <2>2. m = Head(toServer)
    BY <2>1, ReadAsSent DEF TakesHead
  <2> QED BY <1>3, <2>2 DEF Ignore
<1>4. Passes
  BY <1>1, <1>2, <1>3 DEF Passes
<1> QED BY <1>4 DEF Serves

LEMMA HandleServes ==
  ASSUME MessagesOK, LinkTypeOK, LoginOnce, WireFaithful, HandleMessage
  PROVE  Serves
<1>1. TakesHead /\ UNCHANGED clientSide
  BY DEF HandleMessage, TakesHead
<1>2. PICK m : m = Decode(Encode(Head(toServer))) /\ (Login(m) \/ Join(m) \/ Ignore(m))
  BY DEF HandleMessage
<1>3. ASSUME Head(toServer) = LoginMsg PROVE ~srv.auth
  <2>1. IsSeq(toServer) /\ toServer # <<>>
    BY <1>1 DEF MessagesOK, TakesHead
  <2>2. 1 \in DOMAIN toServer /\ toServer[1] = LoginMsg
    BY <1>3, <2>1, Shortened
  <2>3. Has(toServer, {"LOGIN"})
    BY <2>2 DEF Has, LoginMsg, Msg
  <2> QED BY <2>3 DEF LoginOnce
<1>4. Join(m) => Head(toServer) # LoginMsg
  BY <1>3 DEF Join
<1> QED BY <1>1, <1>2, <1>4, LoginServes, JoinServes, IgnoreServes

LEMMA OpponentServes ==
  ASSUME LinkTypeOK, OpponentComes
  PROVE  Serves
<1>1. /\ UNCHANGED clientSide /\ UNCHANGED <<link, drops>>
      /\ UNCHANGED <<toServer, held, account>>
  BY DEF OpponentComes, clientSide
<1>2. CASE srv.place = "searching" /\ Sit("White", "running") /\ Say(<<Welcome("White"), Players, Started>>)
  <2> DEFINE msgs == <<Welcome("White"), Players, Started>>
  <2>1. ~Routed /\ held' \in ColorNames \cup {None} /\ "White" \in ColorNames
    BY <1>1, <1>2 DEF Routed, LinkTypeOK, ColorNames
  <2>2. /\ Routed' /\ LinkTypeOK' /\ srv'.color = "White"
        /\ srv'.auth = srv.auth /\ srv'.warned = srv.warned
    BY <1>1, <1>2, <2>1, Sits
  <2>3. toClient' = toClient \o msgs
    BY <1>2 DEF Say
  <2>4. Says(msgs, Roles \cup Over) /\ Has(msgs, Roles) /\ WelcomesOf(msgs, "White")
    BY <2>1, <2>3, RoleIsSaid
  <2> HIDE DEF msgs
  <2>5. Matches
    BY <1>1, <1>2, <2>1, <2>2, <2>4 DEF Matches, GivesRole
  <2> QED BY <1>1, <2>5 DEF Serves
<1>3. CASE /\ srv.place = "seated" /\ srv.game = "waiting" /\ Sit(srv.color, "running")
           /\ Say(<<Players, Started>>)
  <2>1. srv' = [srv EXCEPT !.place = "seated", !.color = srv.color, !.game = "running"]
    BY <1>3 DEF Sit
  <2>2. /\ srv' \in [auth : BOOLEAN, place : {"none", "searching", "seated", "watching"},
                     color : ColorNames \cup {None}, game : {"waiting", "running", "over"},
                     warned : BOOLEAN]
        /\ srv'.place = srv.place /\ srv'.auth = srv.auth /\ srv'.warned = srv.warned
        /\ srv'.color = srv.color
    BY <1>3, <2>1 DEF LinkTypeOK
  <2>3. LinkTypeOK' /\ SameSeat
    BY <1>1, <1>3, <2>2 DEF LinkTypeOK, Routed, SameSeat
  <2>4. Says(<<Players, Started>>, {})
    BY <1>3, NewsIsSaid, TwoAreSaid DEF Say, Special, Roles, Over
  <2>5. Plays
    BY <1>1, <1>3, <2>2, <2>3, <2>4 DEF Plays, Routed
  <2> QED BY <1>1, <2>5 DEF Serves
<1> QED BY <1>2, <1>3 DEF OpponentComes

LEMMA GameServes ==
  ASSUME LinkTypeOK, PlayOn \/ KingFalls
  PROVE  Serves
<1>1. /\ UNCHANGED clientSide /\ UNCHANGED <<link, drops>>
      /\ UNCHANGED <<toServer, held, account>>
  BY DEF PlayOn, KingFalls, clientSide
<1>2. CASE PlayOn
  <2>1. UNCHANGED srv
    BY <1>2 DEF PlayOn
  <2>2. LinkTypeOK' /\ SameSeat
    BY <1>1, <2>1 DEF LinkTypeOK, Routed, SameSeat
  <2>3. ASSUME NEW m, IsSaid(m), m.cmd \notin Special, Say(<<m>>) PROVE Serves
    <3>1. Says(<<m>>, {})
      BY <2>3, OneIsSaid DEF Say
    <3>2. Plays
      BY <1>1, <1>2, <2>1, <2>2, <3>1 DEF Plays, PlayOn, InGame
    <3> QED BY <1>1, <3>2 DEF Serves
  <2>4. \E m : IsSaid(m) /\ m.cmd \in {"STATE", "MOVE", "CAPTURE"} /\ Say(<<m>>)
    BY <1>2, StateIsSaid, WordsAreSaid DEF PlayOn
  <2>5. {"STATE", "MOVE", "CAPTURE"} \cap Special = {}
    BY DEF Special, Roles, Over
  <2> QED BY <2>3, <2>4, <2>5
<1>3. CASE KingFalls
  <2>1. srv' = [srv EXCEPT !.game = "over"]
    BY <1>3 DEF KingFalls
  <2>2. /\ srv' \in [auth : BOOLEAN, place : {"none", "searching", "seated", "watching"},
                     color : ColorNames \cup {None}, game : {"waiting", "running", "over"},
                     warned : BOOLEAN]
        /\ srv'.place = srv.place /\ srv'.auth = srv.auth /\ srv'.warned = srv.warned
        /\ srv'.color = srv.color /\ srv'.game = "over"
    BY <2>1 DEF LinkTypeOK
  <2>3. LinkTypeOK' /\ SameSeat
    BY <1>1, <2>2 DEF LinkTypeOK, Routed, SameSeat
  <2> DEFINE end == Msg("GAME_END", One(<<"White">>))
  <2>4. toClient' = toClient \o <<end, Ratings>>
    BY <1>3 DEF KingFalls, Say
  <2>5. IsSaid(end) /\ end.cmd = "GAME_END"
    BY WordsAreSaid
  <2> HIDE DEF end
  <2>6. Says(<<end, Ratings>>, {})
    BY <2>4, <2>5, NewsIsSaid, TwoAreSaid DEF Special, Roles, Over
  <2>7. Plays
    BY <1>1, <1>3, <2>2, <2>3, <2>6 DEF Plays, KingFalls, InGame
  <2> QED BY <1>1, <2>7 DEF Serves
<1> QED BY <1>2, <1>3

LEMMA WarningServes ==
  ASSUME LinkTypeOK, OpponentDrops \/ OpponentReturns \/ OpponentForfeits
  PROVE  Serves
<1>1. /\ UNCHANGED clientSide /\ UNCHANGED <<link, drops>>
      /\ UNCHANGED <<toServer, held, account>>
  BY DEF OpponentDrops, OpponentReturns, OpponentForfeits, clientSide
<1>2. CASE OpponentDrops
  <2> DEFINE w == Msg("FORFEIT_WARNING", One(<<Opponent(srv.color), "20000">>))
  <2>1. Routed /\ srv' = [srv EXCEPT !.warned = TRUE] /\ toClient' = toClient \o <<w>>
    BY <1>2 DEF OpponentDrops, InGame, Say
  <2>2. IsSaid(w) /\ w.cmd = "FORFEIT_WARNING"
    BY WordsAreSaid
  <2> HIDE DEF w
  <2>3. Says(<<w>>, {"FORFEIT_WARNING"})
    BY <2>1, <2>2, OneIsSaid
  <2>4. Warns
    BY <1>1, <2>1, <2>3 DEF Warns
  <2> QED BY <1>1, <2>4 DEF Serves
<1>3. CASE OpponentReturns
  <2> DEFINE w == Msg("RECONNECTED", One(<<Opponent(srv.color)>>))
  <2>1. srv.warned /\ srv' = [srv EXCEPT !.warned = FALSE] /\ toClient' = toClient \o <<w>>
    BY <1>3 DEF OpponentReturns, Say
  <2>2. /\ srv' \in [auth : BOOLEAN, place : {"none", "searching", "seated", "watching"},
                     color : ColorNames \cup {None}, game : {"waiting", "running", "over"},
                     warned : BOOLEAN]
        /\ srv'.place = srv.place /\ srv'.auth = srv.auth /\ ~srv'.warned
        /\ srv'.color = srv.color /\ srv'.game = srv.game
    BY <2>1 DEF LinkTypeOK
  <2>3. LinkTypeOK' /\ SameSeat /\ Routed /\ Routed'
    BY <1>1, <2>1, <2>2 DEF LinkTypeOK, Routed, SameSeat
  <2>4. IsSaid(w) /\ w.cmd = "RECONNECTED"
    BY WordsAreSaid
  <2> HIDE DEF w
  <2>5. Says(<<w>>, Over) /\ Has(<<w>>, Over)
    BY <2>1, <2>4, OneIsSaid DEF Over
  <2>6. Calms
    BY <1>1, <2>2, <2>3, <2>5 DEF Calms
  <2> QED BY <1>1, <2>6 DEF Serves
<1>4. CASE OpponentForfeits
  <2> DEFINE w == Msg("FORFEIT", One(<<IF srv.color = None THEN "Black" ELSE srv.color>>))
  <2>1. /\ srv.warned /\ toClient' = toClient \o <<w, Ratings>>
        /\ srv' = [srv EXCEPT !.warned = FALSE, !.game = "over", !.place = "watching", !.color = None]
    BY <1>4 DEF OpponentForfeits, Say
  <2>2. /\ srv' \in [auth : BOOLEAN, place : {"none", "searching", "seated", "watching"},
                     color : ColorNames \cup {None}, game : {"waiting", "running", "over"},
                     warned : BOOLEAN]
        /\ srv'.place = "watching" /\ srv'.auth = srv.auth /\ ~srv'.warned /\ srv'.game = "over"
    BY <2>1 DEF LinkTypeOK
  <2>3. LinkTypeOK' /\ Routed /\ Routed'
    BY <1>1, <2>1, <2>2 DEF LinkTypeOK, Routed
  <2>4. IsSaid(w) /\ w.cmd = "FORFEIT"
    BY WordsAreSaid
  <2> HIDE DEF w
  <2>5. Says(<<w, Ratings>>, Over) /\ Has(<<w, Ratings>>, Over)
    BY <2>1, <2>4, NewsIsSaid, TwoAreSaid DEF Over, Special, Roles
  <2>6. Calms
    BY <1>1, <2>2, <2>3, <2>5 DEF Calms
  <2> QED BY <1>1, <2>6 DEF Serves
<1> QED BY <1>2, <1>3, <1>4

LEMMA ServerServes ==
  ASSUME LinkInv, WireFaithful, ServerStep
  PROVE  Serves
<1>1. MessagesOK /\ LinkTypeOK /\ LoginOnce
  BY DEF LinkInv
<1>2. CASE SearchTimesOut
  <2> DEFINE no == Msg("NO_OPPONENT", <<>>)
  <2>1. /\ srv.place = "searching" /\ srv' = [srv EXCEPT !.place = "none"]
        /\ toClient' = toClient \o <<no>>
        /\ UNCHANGED <<toServer, held, account, clientSide>>
    BY <1>2 DEF SearchTimesOut, Say
  <2>2. IsSaid(no) /\ no.cmd = "NO_OPPONENT"
    BY BareIsSaid
  <2> HIDE DEF no
  <2>3. /\ Says(<<no>>, {"NO_OPPONENT"})
        /\ Has(<<no>>, {"NO_OPPONENT"}) /\ HasOne(<<no>>, {"NO_OPPONENT"})
    BY <2>1, <2>2, OneIsSaid
  <2>4. GivesUp
    BY <2>1, <2>3 DEF GivesUp
  <2> QED BY <2>1, <2>4 DEF Serves
<1>3. CASE SeatForfeited
  BY <1>3 DEF SeatForfeited, Forgets, Serves
<1> QED BY <1>1, <1>2, <1>3, HandleServes, OpponentServes, GameServes, WarningServes DEF ServerStep

-----------------------------------------------------------------------------
(* The server keeps the invariant of the link *)

LEMMA SaysMore ==
  ASSUME MessagesOK, NEW msgs, NEW C, Says(msgs, C)
  PROVE  /\ IsSeq(msgs) /\ IsSeq(toClient) /\ IsSeq(toClient')
         /\ Said(toClient')
         /\ \A D : Has(toClient', D) <=> Has(toClient, D) \/ Has(msgs, D)
         /\ \A D \in SUBSET Special : D \cap C = {} => ~Has(msgs, D)
         /\ toClient' # <<>> \/ msgs = <<>>
         /\ \A j \in DOMAIN toClient' :
              \/ j \in DOMAIN toClient /\ toClient'[j] = toClient[j]
              \/ \E i \in DOMAIN msgs : toClient'[j] = msgs[i]
<1>1. Said(toClient) /\ Said(msgs) /\ toClient' = toClient \o msgs
  BY DEF MessagesOK, Says
<1>2. IsSeq(toClient) /\ IsSeq(msgs)
  BY <1>1 DEF Said
<1>3. IsJoin(toClient, msgs, toClient')
  BY <1>1, <1>2, Joined
<1>4. \A j \in DOMAIN toClient' :
        \/ j \in DOMAIN toClient /\ toClient'[j] = toClient[j]
        \/ \E i \in DOMAIN msgs : toClient'[j] = msgs[i]
  BY <1>3 DEF IsJoin
<1>5. Said(toClient')
  BY <1>1, <1>3, <1>4 DEF Said, IsJoin
<1>6. \A D : Has(toClient', D) <=> Has(toClient, D) \/ Has(msgs, D)
  BY <1>1, <1>2, HasJoined
<1>7. \A D \in SUBSET Special : D \cap C = {} => ~Has(msgs, D)
  BY DEF Has, Says
<1>8. toClient' # <<>> \/ msgs = <<>>
  <2>1. Len(toClient') = Len(toClient) + Len(msgs)
    BY <1>3 DEF IsJoin
  <2> QED BY <1>2, <1>5, <2>1, Parts DEF Said
<1> QED BY <1>2, <1>4, <1>5, <1>6, <1>7, <1>8 DEF Said

\* How each step of the server is seen on the wires: a message more to the client or one
\* less from it.
Hears == \E msgs, C : Says(msgs, C)
LEMMA ServesMessages ==
  ASSUME LinkInv, Serves
  PROVE  /\ MessagesOK'
         /\ \A D : Has(toClient, D) => Has(toClient', D)
         /\ \/ UNCHANGED toServer
            \/ TakesHead /\ \A D : /\ Has(toServer', D) => Has(toServer, D)
                                   /\ HasOne(toServer, D) => HasOne(toServer', D)
<1>1. MessagesOK
  BY DEF LinkInv
<1>2. UNCHANGED toClient \/ Hears
  BY DEF Serves, LetsIn, Refuses, Passes, GivesRole, Searches, Matches, GivesUp, Plays, Warns,
         Calms, Forgets, Hears
<1>3. Said(toClient') /\ \A D : Has(toClient, D) => Has(toClient', D)
  BY <1>1, <1>2, SaysMore DEF Hears, MessagesOK
<1>4. UNCHANGED toServer \/ TakesHead
  BY DEF Serves, LetsIn, Refuses, Passes, Searches, Matches, GivesUp, Plays, Warns,
         Calms, Forgets, TakesLogin, TakesJoin
<1>5. UNCHANGED creds
  BY DEF Serves, clientSide
<1>6. ASSUME TakesHead
      PROVE  /\ IsSeq(toServer') /\ \A i \in DOMAIN toServer' : IsSent(toServer'[i])
             /\ \A D : /\ Has(toServer', D) => Has(toServer, D)
                       /\ HasOne(toServer, D) => HasOne(toServer', D)
  <2>1. IsSeq(toServer) /\ toServer # <<>> /\ toServer' = Tail(toServer)
    BY <1>1, <1>6 DEF MessagesOK, TakesHead
  <2>2. /\ IsSeq(toServer')
        /\ \A i \in DOMAIN toServer' : i + 1 \in DOMAIN toServer /\ toServer'[i] = toServer[i + 1]
    BY <2>1, Shortened
  <2> QED BY <1>1, <2>1, <2>2, HasShortened DEF MessagesOK
<1>7. \A m : IsSent(m)' <=> IsSent(m)
  BY <1>5 DEF IsSent, LoginMsg
<1>8. MessagesOK'
  BY <1>1, <1>3, <1>4, <1>6, <1>7 DEF MessagesOK, IsSent, LoginMsg
<1> QED BY <1>3, <1>4, <1>6, <1>8

LEMMA ServesTypes ==
  ASSUME LinkInv, Serves
  PROVE  LinkTypeOK' /\ NoLink' /\ LoginOnce'
<1>1. LinkTypeOK /\ NoLink /\ LoginOnce /\ MessagesOK
  BY DEF LinkInv
<1>2. UNCHANGED <<link, drops>>
  BY DEF Serves, clientSide
<1>3. LinkTypeOK'
  <2>1. CASE LetsIn
    BY <1>1, <1>2, <2>1 DEF LetsIn, LinkTypeOK, Routed
  <2>2. CASE Refuses \/ Passes
    BY <1>1, <1>2, <2>2 DEF Refuses, Passes, LinkTypeOK, Routed
  <2>3. CASE (TakesJoin /\ GivesRole) \/ Matches \/ Plays \/ Calms
    BY <2>3 DEF GivesRole, Matches, Plays, Calms
  <2>4. CASE Searches
    BY <1>1, <1>2, <2>4 DEF Searches, TakesJoin, LinkTypeOK, Routed
  <2>5. CASE GivesUp
    BY <1>1, <1>2, <2>5 DEF GivesUp, LinkTypeOK, Routed
  <2>6. CASE Warns
    BY <1>1, <1>2, <2>6 DEF Warns, LinkTypeOK, Routed
  <2>7. CASE Forgets
    BY <1>1, <1>2, <2>7 DEF Forgets, LinkTypeOK, Routed
  <2> QED BY <2>1, <2>2, <2>3, <2>4, <2>5, <2>6, <2>7 DEF Serves
<1>4. ASSUME link # "up" PROVE toServer' = <<>> /\ toClient' = <<>> /\ srv' = Stranger
  <2>1. toServer = <<>> /\ toClient = <<>> /\ srv = Stranger
    BY <1>1, <1>4 DEF NoLink
  <2>2. ~TakesHead /\ ~Routed /\ srv.place = "none"
    BY <2>1 DEF TakesHead, Routed, Stranger
  <2>3. Forgets
    BY <2>2 DEF Serves, LetsIn, Refuses, Passes, Searches, Matches, GivesUp, Plays, Warns,
                Calms, TakesLogin, TakesJoin
  <2> QED BY <2>1, <2>3 DEF Forgets
<1>5. NoLink'
  BY <1>2, <1>4 DEF NoLink
<1>6. HasOne(toServer', {"LOGIN"})
  BY <1>1, ServesMessages DEF LoginOnce
<1>7. ASSUME srv'.auth PROVE ~Has(toServer', {"LOGIN"})
  <2>1. CASE srv.auth
    BY <1>1, <2>1, ServesMessages DEF LoginOnce
  <2>2. CASE ~srv.auth
    <3>1. LetsIn
      BY <1>1, <1>7, <2>2 DEF Serves, Refuses, Passes, Searches, Matches, GivesUp, Plays, Warns,
                  Calms, TakesLogin, TakesJoin, Forgets, LinkTypeOK, GivesRole
    <3>2. toServer # <<>> /\ toServer' = Tail(toServer) /\ Head(toServer).cmd \in {"LOGIN"}
      BY <3>1 DEF LetsIn, TakesLogin, TakesHead, LoginMsg, Msg
    <3>3. IsSeq(toServer)
      BY <1>1 DEF MessagesOK
    <3> QED BY <1>1, <3>2, <3>3, HasShortened DEF LoginOnce
  <2> QED BY <2>1, <2>2
<1>8. ASSUME srv'.place # "none" PROVE srv'.auth
  <2>1. CASE LetsIn
    BY <1>1, <2>1 DEF LetsIn, LinkTypeOK
  <2>2. CASE Refuses \/ Passes \/ Forgets
    BY <1>1, <1>8, <2>2 DEF Refuses, Passes, LoginOnce, Forgets
  <2>3. CASE TakesJoin /\ GivesRole
    BY <2>3 DEF GivesRole, TakesJoin
  <2>4. CASE Matches
    BY <1>1, <2>4 DEF GivesRole, Matches, LoginOnce
  <2>5. CASE Plays \/ Calms
    BY <1>1, <2>5 DEF Plays, Calms, LoginOnce, Routed
  <2>6. CASE Searches
    BY <1>1, <2>6 DEF Searches, TakesJoin, LinkTypeOK
  <2>7. CASE GivesUp
    BY <1>1, <1>8, <2>7 DEF GivesUp, LinkTypeOK
  <2>8. CASE Warns
    BY <1>1, <1>8, <2>8 DEF Warns, LoginOnce, LinkTypeOK
  <2> QED BY <2>1, <2>2, <2>3, <2>4, <2>5, <2>6, <2>7, <2>8 DEF Serves
<1> QED BY <1>3, <1>5, <1>6, <1>7, <1>8 DEF LoginOnce

LEMMA ServesLogin ==
  ASSUME LinkInv, Serves
  PROVE  /\ LoginTrue'
         /\ ReadLogin' = ReadLogin /\ (Known => Known') /\ (Refused => Refused')
<1>1. MessagesOK /\ LoginTrue /\ LinkTypeOK
  BY DEF LinkInv
<1>2. ReadLogin' = ReadLogin
  BY DEF Serves, clientSide, ReadLogin, LoginMsg
<1>3. CASE LetsIn
  <2>1. PICK msgs : Says(msgs, {"LOGIN_OK"})
    BY <1>3 DEF LetsIn
  <2>2. ~Has(msgs, {"LOGIN_FAIL"})
    BY <1>1, <2>1, SaysMore DEF Special
  <2>3. ~Has(toClient, {"LOGIN_FAIL"})
    BY <1>1, <1>3 DEF LetsIn, LoginTrue
  <2>4. ~Has(toClient', {"LOGIN_FAIL"})
    BY <1>1, <2>1, <2>2, <2>3, SaysMore
  <2>5. Known' /\ ~Refused
    BY <1>2, <1>3 DEF Known, LetsIn, TakesLogin
  <2> QED BY <1>2, <2>4, <2>5 DEF LoginTrue
<1>4. CASE ~LetsIn
  <2>1. UNCHANGED account
    BY <1>4 DEF Serves, Refuses, Passes, Searches, Matches, GivesUp, Plays, Warns,
                  Calms, Forgets, GivesRole
  <2>2. Known' = Known /\ Refused' = Refused
    BY <1>2, <2>1 DEF Known, Refused
  <2>3. srv'.auth = srv.auth
    BY <1>1, <1>4 DEF Serves, Refuses, Passes, Searches, Matches, GivesUp, Plays, Warns,
                  Calms, Forgets, GivesRole, LinkTypeOK
  <2>4. CASE Refuses
    <3>1. PICK msgs : Says(msgs, {"LOGIN_FAIL"})
      BY <2>4 DEF Refuses
    <3>2. ~Has(msgs, {"LOGIN_OK"})
      BY <1>1, <3>1, SaysMore DEF Special
    <3>3. Has(toClient', {"LOGIN_OK"}) => Has(toClient, {"LOGIN_OK"})
      BY <1>1, <3>1, <3>2, SaysMore
    <3> QED BY <1>1, <1>2, <2>2, <2>3, <2>4, <3>3 DEF LoginTrue, Refuses
  <2>5. CASE ~Refuses
    <3>1. \/ UNCHANGED toClient
          \/ \E msgs, C : Says(msgs, C) /\ C \in SUBSET (Special \ {"LOGIN_OK", "LOGIN_FAIL"})
      <4>1. {"NO_OPPONENT"} \in SUBSET (Special \ {"LOGIN_OK", "LOGIN_FAIL"})
            /\ {"FORFEIT_WARNING"} \in SUBSET (Special \ {"LOGIN_OK", "LOGIN_FAIL"})
            /\ {} \in SUBSET (Special \ {"LOGIN_OK", "LOGIN_FAIL"})
            /\ Over \in SUBSET (Special \ {"LOGIN_OK", "LOGIN_FAIL"})
            /\ Roles \cup Over \in SUBSET (Special \ {"LOGIN_OK", "LOGIN_FAIL"})
        BY DEF Special, Over, Roles
      <4> HIDE DEF Special
      <4> QED BY <1>4, <2>5, <4>1 DEF Serves, Passes, Searches, Matches, GivesUp, Plays, Warns,
                  Calms, Forgets, GivesRole
    <3>2. CASE UNCHANGED toClient
      BY <1>1, <1>2, <2>2, <2>3, <3>2 DEF LoginTrue
    <3>3. CASE \E msgs, C : Says(msgs, C) /\ C \in SUBSET (Special \ {"LOGIN_OK", "LOGIN_FAIL"})
      <4>1. PICK msgs, C : Says(msgs, C) /\ C \in SUBSET (Special \ {"LOGIN_OK", "LOGIN_FAIL"})
        BY <3>3
      <4>2. /\ {"LOGIN_OK"} \in SUBSET Special /\ {"LOGIN_OK"} \cap C = {}
            /\ {"LOGIN_FAIL"} \in SUBSET Special /\ {"LOGIN_FAIL"} \cap C = {}
        BY <4>1 DEF Special
      <4>3. ~Has(msgs, {"LOGIN_OK"}) /\ ~Has(msgs, {"LOGIN_FAIL"})
        BY <1>1, <4>1, <4>2, SaysMore
      <4>4. /\ Has(toClient', {"LOGIN_OK"}) => Has(toClient, {"LOGIN_OK"})
            /\ Has(toClient', {"LOGIN_FAIL"}) => Has(toClient, {"LOGIN_FAIL"})
        BY <1>1, <4>1, <4>3, SaysMore
      <4> QED BY <1>1, <1>2, <2>2, <2>3, <4>4 DEF LoginTrue
    <3> QED BY <3>1, <3>2, <3>3
  <2> QED BY <1>2, <2>2, <2>4, <2>5
<1> QED BY <1>2, <1>3, <1>4

\* Messages without a role leave what is said of the roles as true as the seat.
LEMMA RolesStay ==
  ASSUME LinkInv, Routed => Routed', Routed' => Routed,
         \A color : SameColor(color) => SameColor(color)',
         UNCHANGED toClient \/ \E msgs, C : Says(msgs, C) /\ C \cap Roles = {}
  PROVE  RolesTrue'
<1>1. MessagesOK /\ RolesTrue
  BY DEF LinkInv
<1>2. CASE UNCHANGED toClient
  <2>1. ~Routed' => ~Has(toClient', Roles)
    BY <1>1, <1>2 DEF RolesTrue
  <2>2. \A i \in DOMAIN toClient' :
          toClient'[i].cmd = "WELCOME" =>
            srv'.color = toClient'[i].args[1][1] \/ srv'.game = "over"
    BY <1>1, <1>2 DEF RolesTrue, SameColor
  <2> QED BY <2>1, <2>2 DEF RolesTrue, SameColor
<1>3. CASE \E msgs, C : Says(msgs, C) /\ C \cap Roles = {}
  <2>1. PICK msgs, C : Says(msgs, C) /\ C \cap Roles = {}
    BY <1>3
  <2>2. Roles \in SUBSET Special /\ "WELCOME" \in Roles
    BY DEF Special, Roles
  <2>3. /\ \A D : Has(toClient', D) <=> Has(toClient, D) \/ Has(msgs, D)
        /\ ~Has(msgs, Roles)
        /\ \A j \in DOMAIN toClient' :
             \/ j \in DOMAIN toClient /\ toClient'[j] = toClient[j]
             \/ \E i \in DOMAIN msgs : toClient'[j] = msgs[i]
    BY <1>1, <2>1, <2>2, SaysMore
  <2>4. ASSUME NEW j \in DOMAIN toClient', toClient'[j].cmd = "WELCOME"
        PROVE  srv'.color = toClient'[j].args[1][1] \/ srv'.game = "over"
    <3>1. j \in DOMAIN toClient /\ toClient'[j] = toClient[j]
      BY <2>2, <2>3, <2>4 DEF Has
    <3>2. SameColor(toClient[j].args[1][1])
      BY <1>1, <2>4, <3>1 DEF RolesTrue
    <3>3. \A color : SameColor(color) => srv'.color = color \/ srv'.game = "over"
      BY DEF SameColor
    <3> QED BY <3>1, <3>2, <3>3
  <2>5. ~Routed' => ~Has(toClient', Roles)
    BY <1>1, <2>3 DEF RolesTrue
  <2> QED BY <2>4, <2>5 DEF RolesTrue, SameColor
<1> QED BY <1>2, <1>3

\* Sitting down, the client is told its own colour and has been told no other.
LEMMA RoleGiven ==
  ASSUME LinkInv, GivesRole
  PROVE  RolesTrue' /\ Has(toClient', Roles)
<1>1. MessagesOK /\ RolesTrue /\ ~Routed /\ Routed'
  BY DEF LinkInv, GivesRole
<1>2. PICK msgs : Says(msgs, Roles \cup Over) /\ Has(msgs, Roles) /\ WelcomesOf(msgs, srv'.color)
  BY DEF GivesRole
<1>3. /\ Has(toClient', Roles)
      /\ \A j \in DOMAIN toClient' :
             \/ j \in DOMAIN toClient /\ toClient'[j] = toClient[j]
             \/ \E i \in DOMAIN msgs : toClient'[j] = msgs[i]
  BY <1>1, <1>2, SaysMore
<1>4. ASSUME NEW j \in DOMAIN toClient', toClient'[j].cmd = "WELCOME"
      PROVE  toClient'[j].args[1][1] = srv'.color
  <2>1. ~(j \in DOMAIN toClient /\ toClient'[j] = toClient[j])
    BY <1>1, <1>4 DEF RolesTrue, Has, Roles
  <2> QED BY <1>2, <1>3, <1>4, <2>1 DEF WelcomesOf
<1> QED BY <1>1, <1>3, <1>4 DEF RolesTrue, SameColor

LEMMA ServesRoles ==
  ASSUME LinkInv, Serves
  PROVE  /\ RolesTrue' /\ (Routed => Routed')
         /\ Routed => \A color : SameColor(color) => SameColor(color)'
<1>1. LinkTypeOK
  BY DEF LinkInv
<1>2. CASE (TakesJoin /\ GivesRole) \/ Matches
  BY <1>2, RoleGiven DEF GivesRole, Matches
<1>3. CASE ~((TakesJoin /\ GivesRole) \/ Matches)
  <2>1. (Routed => Routed') /\ (Routed' => Routed)
    BY <1>1, <1>3 DEF Serves, LetsIn, Refuses, Passes, Searches, GivesUp, Plays, Warns,
                  Calms, Forgets, LinkTypeOK, Routed, TakesJoin
  <2>2. SameSeat \/ srv'.game = "over"
    BY <1>1, <1>3 DEF Serves, LetsIn, Refuses, Passes, Searches, GivesUp, Plays, Warns,
                  Calms, Forgets, LinkTypeOK, SameSeat
  <2>3. \A color : SameColor(color) => SameColor(color)'
    BY <2>2 DEF SameSeat, SameColor
  <2>4. /\ {"LOGIN_OK"} \cap Roles = {} /\ {"LOGIN_FAIL"} \cap Roles = {}
        /\ {"NO_OPPONENT"} \cap Roles = {} /\ {"FORFEIT_WARNING"} \cap Roles = {}
        /\ {} \cap Roles = {} /\ Over \cap Roles = {}
    BY DEF Roles, Over
  <2>5. UNCHANGED toClient \/ \E msgs, C : Says(msgs, C) /\ C \cap Roles = {}
    BY <1>3, <2>4 DEF Serves, LetsIn, Refuses, Passes, Searches, GivesUp, Plays, Warns,
                  Calms, Forgets
  <2>6. RolesTrue'
    BY <2>1, <2>3, <2>5, RolesStay
  <2> QED BY <2>1, <2>3, <2>6
<1> QED BY <1>2, <1>3

LEMMA NoWarningSettled ==
  ASSUME NEW s, ~Has(s, {"FORFEIT_WARNING"})
  PROVE  Settled(s) /\ Introduced(s)
BY DEF Has, Settled, Introduced

LEMMA ServesWarned ==
  ASSUME LinkInv, Serves
  PROVE  /\ srv'.warned \/ Settled(toClient')
         /\ \A warning : StillOn(warning) => StillOn(warning)'
<1>1. MessagesOK /\ LinkTypeOK /\ (srv.warned \/ Settled(toClient))
  BY DEF LinkInv
<1>2. CASE Warns
  <2>1. srv'.warned
    BY <1>1, <1>2 DEF Warns, LinkTypeOK
  <2> QED BY <2>1 DEF StillOn
<1>3. CASE Calms
  <2>1. PICK msgs : Says(msgs, Over) /\ Has(msgs, Over)
    BY <1>3 DEF Calms
  <2>2. {"FORFEIT_WARNING"} \in SUBSET Special /\ {"FORFEIT_WARNING"} \cap Over = {}
    BY DEF Special, Over
  <2>3. /\ ~Has(msgs, {"FORFEIT_WARNING"}) /\ IsSeq(msgs) /\ IsSeq(toClient)
        /\ Has(toClient', Over)
    BY <1>1, <2>1, <2>2, SaysMore
  <2>4. Settled(toClient')
    BY <2>1, <2>3, NoWarningSettled, SettledKept DEF Says
  <2> QED BY <2>3, <2>4 DEF StillOn
<1>4. CASE ~Warns /\ ~Calms
  <2>1. srv'.warned = srv.warned
    BY <1>1, <1>4 DEF Serves, LetsIn, Refuses, Passes, Searches, GivesUp, Plays, GivesRole,
                  Matches, Forgets, LinkTypeOK
  <2>2. /\ {"LOGIN_OK"} \cap {"FORFEIT_WARNING"} = {} /\ {"LOGIN_FAIL"} \cap {"FORFEIT_WARNING"} = {}
        /\ {"NO_OPPONENT"} \cap {"FORFEIT_WARNING"} = {} /\ (Roles \cup Over) \cap {"FORFEIT_WARNING"} = {}
        /\ {} \cap {"FORFEIT_WARNING"} = {}
    BY DEF Roles, Over
  <2>3. UNCHANGED toClient \/ \E msgs, C : Says(msgs, C) /\ C \cap {"FORFEIT_WARNING"} = {}
    BY <1>4, <2>2 DEF Serves, LetsIn, Refuses, Passes, Searches, GivesUp, Plays, GivesRole,
                  Matches, Forgets
  <2>4. \A warning : StillOn(warning) => StillOn(warning)'
    BY <2>1, ServesMessages DEF StillOn
  <2>5. CASE UNCHANGED toClient
    BY <1>1, <2>1, <2>4, <2>5 DEF Settled
  <2>6. CASE \E msgs, C : Says(msgs, C) /\ C \cap {"FORFEIT_WARNING"} = {}
    <3>1. PICK msgs, C : Says(msgs, C) /\ C \cap {"FORFEIT_WARNING"} = {}
      BY <2>6
    <3>2. {"FORFEIT_WARNING"} \in SUBSET Special
      BY DEF Special
    <3>3. ~Has(msgs, {"FORFEIT_WARNING"}) /\ IsSeq(msgs) /\ IsSeq(toClient)
      BY <1>1, <3>1, <3>2, SaysMore
    <3>4. Settled(toClient) => Settled(toClient')
      BY <3>1, <3>3, NoWarningSettled, SettledKept DEF Says
    <3> QED BY <1>1, <2>1, <2>4, <3>4
  <2> QED BY <2>3, <2>5, <2>6
<1> QED BY <1>2, <1>3, <1>4

LEMMA ServesLink ==
  ASSUME LinkInv, Serves
  PROVE  LinkInv'
BY ServesMessages, ServesTypes, ServesLogin, ServesRoles, ServesWarned DEF LinkInv

-----------------------------------------------------------------------------
(* How a JOIN goes on at the server *)

LEMMA ServesNoAnswer ==
  ASSUME LinkInv, Serves, ~Has(toClient, {"NO_OPPONENT"}), ~GivesUp
  PROVE  ~Has(toClient', {"NO_OPPONENT"})
<1>1. MessagesOK
  BY DEF LinkInv
<1>2. /\ {"LOGIN_OK"} \cap {"NO_OPPONENT"} = {} /\ {"LOGIN_FAIL"} \cap {"NO_OPPONENT"} = {}
      /\ {"FORFEIT_WARNING"} \cap {"NO_OPPONENT"} = {} /\ (Roles \cup Over) \cap {"NO_OPPONENT"} = {}
      /\ {} \cap {"NO_OPPONENT"} = {} /\ Over \cap {"NO_OPPONENT"} = {}
  BY DEF Roles, Over
<1>3. UNCHANGED toClient \/ \E msgs, C : Says(msgs, C) /\ C \cap {"NO_OPPONENT"} = {}
  BY <1>2 DEF Serves, LetsIn, Refuses, Passes, Searches, Plays, GivesRole, Warns, Calms,
                  Matches, Forgets
<1>4. CASE \E msgs, C : Says(msgs, C) /\ C \cap {"NO_OPPONENT"} = {}
  <2>1. PICK msgs, C : Says(msgs, C) /\ C \cap {"NO_OPPONENT"} = {}
    BY <1>4
  <2>2. {"NO_OPPONENT"} \in SUBSET Special
    BY DEF Special
  <2> QED BY <1>1, <2>1, <2>2, SaysMore
<1> QED BY <1>3, <1>4

LEMMA JoinStages ==
  ASSUME LinkInv, Serves
  PROVE  /\ Free => Free'
         /\ Asking => \/ Asking' \/ Searching' \/ (InRoom' /\ Has(toClient', Roles))
                      \/ Free' /\ Passes /\ Head(toServer).cmd = "JOIN"
         /\ Searching => Searching' \/ InVain' \/ (InRoom' /\ Has(toClient', Roles))
         /\ InVain => InVain'
         /\ InRoom => InRoom'
<1>1. LinkTypeOK /\ MessagesOK
  BY DEF LinkInv
<1>2. /\ Has(toServer', {"JOIN"}) => Has(toServer, {"JOIN"})
      /\ HasOne(toServer, {"JOIN"}) => HasOne(toServer', {"JOIN"})
  BY ServesMessages
<1>3. ASSUME TakesHead, Head(toServer).cmd # "JOIN"
      PROVE  Has(toServer', {"JOIN"}) <=> Has(toServer, {"JOIN"})
  <2>1. IsSeq(toServer)
    BY <1>1 DEF MessagesOK
  <2> QED BY <1>3, <2>1, HasShortened DEF TakesHead
<1>4. ASSUME TakesHead, Head(toServer).cmd = "JOIN", HasOne(toServer, {"JOIN"})
      PROVE  ~Has(toServer', {"JOIN"})
  <2>1. IsSeq(toServer) /\ Head(toServer).cmd \in {"JOIN"}
    BY <1>1, <1>4 DEF MessagesOK
  <2> QED BY <1>4, <2>1, HasShortened DEF TakesHead
<1>5. ASSUME TakesHead, ~Has(toServer, {"JOIN"}) PROVE Head(toServer).cmd # "JOIN"
  <2>1. IsSeq(toServer)
    BY <1>1 DEF MessagesOK
  <2> QED BY <1>5, <2>1, HasShortened DEF TakesHead
<1>6. LoginMsg.cmd # "JOIN"
  BY DEF LoginMsg, Msg
<1>7. ASSUME Free PROVE Free'
  <2>1. srv'.place = "none" /\ ~GivesUp
    BY <1>1, <1>5, <1>7 DEF Serves, LetsIn, Refuses, Passes, Searches, Plays, GivesRole, Warns, Calms,
                  Matches, Forgets, GivesUp, Free, Routed, LinkTypeOK, TakesJoin
  <2> QED BY <1>2, <1>7, <2>1, ServesNoAnswer DEF Free
<1>8. ASSUME InVain PROVE InVain'
  <2>1. ~GivesUp /\ ~Matches /\ ~Plays /\ ~Warns /\ ~Calms
    BY <1>8 DEF InVain, GivesUp, Matches, Plays, Warns, Calms, Routed
  <2>2. ~TakesJoin
    BY <1>5, <1>8 DEF TakesJoin, InVain
  <2>3. srv'.place = "none"
    BY <1>1, <1>8, <2>1, <2>2 DEF Serves, LetsIn, Refuses, Passes, Searches, 
                  Forgets, InVain, LinkTypeOK
  <2>4. UNCHANGED toClient \/ \E msgs, C : Says(msgs, C) /\ C \in {{"LOGIN_OK"}, {"LOGIN_FAIL"}}
    BY <2>1, <2>2 DEF Serves, LetsIn, Refuses, Passes, Searches, Forgets
  <2>5. CASE UNCHANGED toClient
    BY <1>2, <1>8, <2>3, <2>5 DEF InVain, Has, HasOne
  <2>6. CASE \E msgs, C : Says(msgs, C) /\ C \in {{"LOGIN_OK"}, {"LOGIN_FAIL"}}
    <3>1. PICK msgs, C : Says(msgs, C) /\ C \in {{"LOGIN_OK"}, {"LOGIN_FAIL"}}
      BY <2>6
    <3>2. {"NO_OPPONENT"} \in SUBSET Special /\ {"NO_OPPONENT"} \cap C = {}
      BY <3>1 DEF Special
    <3>3. ~Has(msgs, {"NO_OPPONENT"}) /\ IsSeq(msgs) /\ IsSeq(toClient)
      BY <1>1, <3>1, <3>2, SaysMore
    <3>4. HasOne(toClient', {"NO_OPPONENT"}) /\ Has(toClient', {"NO_OPPONENT"})
      BY <1>8, <3>1, <3>3, HasJoined DEF InVain, Says
    <3> QED BY <1>2, <1>8, <2>3, <3>4 DEF InVain
  <2> QED BY <2>4, <2>5, <2>6
<1>9. ASSUME InRoom PROVE InRoom'
  <2>1. ~GivesUp
    BY <1>9 DEF InRoom, GivesUp, Routed
  <2> QED BY <1>9, <2>1, ServesRoles, ServesNoAnswer DEF InRoom
<1>10. ASSUME GivesRole, ~GivesUp, ~Has(toClient, {"NO_OPPONENT"})
       PROVE  InRoom' /\ Has(toClient', Roles)
  BY <1>10, RoleGiven, ServesNoAnswer DEF InRoom, GivesRole
<1>11. ASSUME Searching PROVE Searching' \/ InVain' \/ (InRoom' /\ Has(toClient', Roles))
  <2>1. ~TakesJoin /\ ~Plays /\ ~Warns /\ ~Calms
    BY <1>5, <1>11 DEF TakesJoin, Searching, Plays, Warns, Calms, Routed
  <2>2. CASE GivesUp
    <3>1. PICK msgs : /\ Says(msgs, {"NO_OPPONENT"})
                      /\ Has(msgs, {"NO_OPPONENT"}) /\ HasOne(msgs, {"NO_OPPONENT"})
      BY <2>2 DEF GivesUp
    <3>2. IsSeq(msgs) /\ IsSeq(toClient)
      BY <1>1, <3>1, SaysMore
    <3>3. HasOne(toClient', {"NO_OPPONENT"}) /\ Has(toClient', {"NO_OPPONENT"})
      BY <1>11, <3>1, <3>2, HasJoined DEF Searching, Says
    <3>4. srv'.place = "none"
      BY <1>1, <2>2 DEF GivesUp, LinkTypeOK
    <3> QED BY <1>2, <1>11, <3>3, <3>4 DEF InVain, Searching
  <2>3. CASE ~GivesUp
    <3>1. ~Has(toClient', {"NO_OPPONENT"})
      BY <1>11, <2>3, ServesNoAnswer DEF Searching
    <3>2. CASE Matches
      BY <1>10, <1>11, <2>3, <3>2 DEF Matches, Searching
    <3>3. CASE ~Matches
      <4>1. srv'.place = "searching"
        BY <1>1, <1>11, <2>1, <2>3, <3>3 DEF Serves, LetsIn, Refuses, Passes, Searches,
                  Forgets, Searching, LinkTypeOK
      <4> QED BY <1>2, <1>11, <3>1, <4>1 DEF Searching
    <3> QED BY <3>2, <3>3
  <2> QED BY <2>2, <2>3
<1>12. ASSUME Asking
       PROVE  \/ Asking' \/ Searching' \/ (InRoom' /\ Has(toClient', Roles))
              \/ Free' /\ Passes /\ Head(toServer).cmd = "JOIN"
  <2>1. ~GivesUp /\ ~Matches /\ ~Plays /\ ~Warns /\ ~Calms
    BY <1>12 DEF Asking, GivesUp, Matches, Plays, Warns, Calms, Routed
  <2>2. ~Has(toClient', {"NO_OPPONENT"})
    BY <1>12, <2>1, ServesNoAnswer DEF Asking
  <2>3. CASE GivesRole
    BY <1>10, <1>12, <2>1, <2>3 DEF Asking
  <2>4. CASE Searches
    <3>1. srv'.place = "searching" /\ ~Has(toServer', {"JOIN"})
      BY <1>1, <1>4, <1>12, <2>4 DEF Searches, TakesJoin, LinkTypeOK, Asking
    <3> QED BY <2>2, <3>1 DEF Searching
  <2>5. CASE LetsIn \/ Refuses \/ Forgets
    <3>1. srv'.place = "none"
      BY <1>1, <1>12, <2>5 DEF LetsIn, Refuses, Forgets, LinkTypeOK, Asking
    <3>2. Has(toServer', {"JOIN"})
      BY <1>3, <1>6, <1>12, <2>5 DEF LetsIn, Refuses, Forgets, TakesLogin, Asking
    <3> QED BY <1>2, <1>12, <2>2, <3>1, <3>2 DEF Asking
  <2>6. CASE Passes
    <3>1. srv'.place = "none"
      BY <1>12, <2>6 DEF Passes, Asking
    <3>2. CASE Head(toServer).cmd = "JOIN"
      BY <1>4, <1>12, <2>2, <2>6, <3>1, <3>2 DEF Asking, Free, Passes
    <3>3. CASE Head(toServer).cmd # "JOIN"
      BY <1>2, <1>3, <1>12, <2>2, <2>6, <3>1, <3>3 DEF Asking, Passes
    <3> QED BY <3>2, <3>3
  <2> QED BY <2>1, <2>3, <2>4, <2>5, <2>6 DEF Serves
<1> QED BY <1>7, <1>8, <1>9, <1>11, <1>12

LEMMA ServesIntroduced ==
  ASSUME LinkInv, Serves, Introduced(toClient), Routed => Has(toClient, Roles)
  PROVE  Introduced(toClient') /\ (Routed' => Has(toClient', Roles))
<1>1. MessagesOK /\ LinkTypeOK
  BY DEF LinkInv
<1>2. Routed' => Has(toClient', Roles)
  <2>1. CASE Routed
    BY <2>1, ServesMessages
  <2>2. CASE ~Routed /\ Routed'
    <3>1. GivesRole
      BY <1>1, <2>2 DEF Serves, LetsIn, Refuses, Passes, Searches, GivesUp, Plays, Warns,
                  Calms, Matches, Forgets, LinkTypeOK, Routed
    <3> QED BY <3>1, RoleGiven
  <2> QED BY <2>1, <2>2
<1>3. /\ {"LOGIN_OK"} \cap {"FORFEIT_WARNING"} = {} /\ {"LOGIN_FAIL"} \cap {"FORFEIT_WARNING"} = {}
      /\ {"NO_OPPONENT"} \cap {"FORFEIT_WARNING"} = {} /\ (Roles \cup Over) \cap {"FORFEIT_WARNING"} = {}
      /\ {} \cap {"FORFEIT_WARNING"} = {} /\ Over \cap {"FORFEIT_WARNING"} = {}
  BY DEF Roles, Over
<1>4. CASE Warns
  <2>1. PICK msgs, C : Says(msgs, C)
    BY <1>4 DEF Warns
  <2>2. IsSeq(msgs) /\ IsSeq(toClient) /\ Has(toClient, Roles)
    BY <1>1, <1>4, <2>1, SaysMore DEF Warns
  <2>3. Introduced(toClient')
    BY <2>1, <2>2, IntroducedKept DEF Says
  <2> QED BY <1>2, <2>3
<1>5. CASE ~Warns
  <2>1. UNCHANGED toClient \/ \E msgs, C : Says(msgs, C) /\ C \cap {"FORFEIT_WARNING"} = {}
    BY <1>3, <1>5 DEF Serves, LetsIn, Refuses, Passes, Searches, GivesUp, Plays, GivesRole,
                  Calms, Matches, Forgets
  <2>2. CASE \E msgs, C : Says(msgs, C) /\ C \cap {"FORFEIT_WARNING"} = {}
    <3>1. PICK msgs, C : Says(msgs, C) /\ C \cap {"FORFEIT_WARNING"} = {}
      BY <2>2
    <3>2. {"FORFEIT_WARNING"} \in SUBSET Special
      BY DEF Special
    <3>3. ~Has(msgs, {"FORFEIT_WARNING"}) /\ IsSeq(msgs) /\ IsSeq(toClient)
      BY <1>1, <3>1, <3>2, SaysMore
    <3>4. Introduced(toClient')
      BY <3>1, <3>3, NoWarningSettled, IntroducedKept DEF Says
    <3> QED BY <1>2, <3>4
  <2> QED BY <1>2, <2>1, <2>2 DEF Introduced
<1> QED BY <1>4, <1>5

LEMMA ServerDesktop ==
  ASSUME LinkInv, Serves, DesktopInv, UNCHANGED <<program, desktopVars, webVars>>
  PROVE  DesktopInv'
<1>1. LinkTypeOK /\ MessagesOK /\ NoLink /\ RolesTrue
  BY DEF LinkInv
<1>2. UNCHANGED <<screen, choice, proxy, late, link, creds, drops>>
  BY DEF Serves, clientSide, desktopVars
<1>3. (Known => Known') /\ (Refused => Refused')
  BY ServesLogin
<1>4. /\ proxy'.color \in ColorNames \cup {None} /\ DOMAIN proxy' = DOMAIN NewProxy
      /\ proxy'.resolved /\ ~proxy'.failed => Known'
      /\ proxy'.failed => Refused'
      /\ screen' \in {"result", "room", "confirm", "sending", "waiting", "session"} =>
           proxy'.resolved /\ ~proxy'.failed
  BY <1>2, <1>3 DEF DesktopInv
<1>5. ASSUME link' = "up", ~srv'.auth, Known'
      PROVE  toServer' # <<>> /\ Head(toServer') = LoginMsg'
  <2>1. ~LetsIn
    BY <1>1, <1>5 DEF LetsIn, LinkTypeOK
  <2>2. UNCHANGED account /\ srv'.auth = srv.auth
    BY <1>1, <2>1 DEF Serves, Refuses, Passes, Searches, GivesUp, Plays, Warns, GivesRole,
                  Calms, Matches, Forgets, LinkTypeOK
  <2>3. Known /\ ReadLogin' = ReadLogin
    BY <1>5, <2>2, ServesLogin DEF Known
  <2>4. toServer # <<>> /\ Head(toServer) = LoginMsg
    BY <1>2, <1>5, <2>2, <2>3 DEF DesktopInv
  <2>5. ~Refuses /\ ~Passes /\ ~TakesJoin
    BY <1>5, <2>2, <2>3, <2>4 DEF Refuses, Passes, TakesJoin, Known, Refused
  <2>6. UNCHANGED toServer
    BY <2>1, <2>5 DEF Serves, Searches, GivesUp, Plays, Warns, Calms, Matches, Forgets
  <2> QED BY <1>2, <2>4, <2>6 DEF LoginMsg
<1>6. screen' # "exit" /\ drops' = 0 => StillOn(proxy.warning)'
  BY <1>2, ServesWarned DEF DesktopInv
<1>7. ASSUME ~late' PROVE DesktopStage'
  <2>1. DesktopStage
    BY <1>2, <1>7 DEF DesktopInv
  <2>2. (Untold => Untold') /\ HasRole' = HasRole
    BY <1>2 DEF Untold, HasRole
  <2>3. Routed /\ ColorTrue => ColorTrue'
    BY <1>2, ServesRoles DEF ColorTrue
  <2>4. Untold => ColorTrue'
    BY <1>2 DEF Untold, HasRole, ColorTrue
  <2>5. screen' \notin {"waiting", "session"} => Free'
    BY <1>2, <2>1, JoinStages DEF DesktopStage
  <2>6. screen' = "sending" => Untold'
    BY <1>2, <2>1, <2>2 DEF DesktopStage
  <2>7. ASSUME screen' = "waiting"
        PROVE  \/ Untold' /\ (Asking' \/ Searching' \/ InVain')
               \/ ~HasRole' /\ proxy'.searchFailed /\ Free'
               \/ InRoom' /\ ColorTrue' /\ ~proxy'.searchFailed /\ (HasRole' \/ Has(toClient', Roles))
    <3>1. CASE Untold /\ Asking
      <4>1. ASSUME Passes, Head(toServer).cmd = "JOIN" PROVE FALSE
        <5>1. ~srv.auth /\ toServer # <<>>
          BY <3>1, <4>1 DEF Passes, Asking, Routed, TakesHead
        <5>2. link = "up" /\ Known
          BY <1>1, <1>2, <2>7, <5>1 DEF NoLink, DesktopInv
        <5>3. Head(toServer) = LoginMsg
          BY <5>1, <5>2 DEF DesktopInv
        <5> QED BY <4>1, <5>3 DEF LoginMsg, Msg
      <4>2. Asking' \/ Searching' \/ (InRoom' /\ Has(toClient', Roles))
        BY <3>1, <4>1, JoinStages
      <4> QED BY <1>2, <2>2, <2>4, <3>1, <4>2 DEF Untold
    <3>2. CASE Untold /\ (Searching \/ InVain)
      <4>1. Searching' \/ InVain' \/ (InRoom' /\ Has(toClient', Roles))
        BY <3>2, JoinStages
      <4> QED BY <1>2, <2>2, <2>4, <3>2, <4>1 DEF Untold
    <3>3. CASE ~HasRole /\ proxy.searchFailed /\ Free
      BY <1>2, <2>2, <3>3, JoinStages
    <3>4. CASE InRoom /\ ColorTrue /\ ~proxy.searchFailed /\ (HasRole \/ Has(toClient, Roles))
      <4>1. InRoom' /\ ColorTrue'
        BY <2>3, <3>4, JoinStages DEF InRoom
      <4>2. Has(toClient, Roles) => Has(toClient', Roles)
        BY ServesMessages
      <4> QED BY <1>2, <2>2, <3>4, <4>1, <4>2
    <3> QED BY <1>2, <2>1, <2>7, <3>1, <3>2, <3>3, <3>4 DEF DesktopStage
  <2>8. screen' = "session" => Routed' /\ ColorTrue'
    BY <1>2, <2>1, <2>3, ServesRoles DEF DesktopStage
  <2> QED BY <2>5, <2>6, <2>7, <2>8 DEF DesktopStage
<1> QED BY <1>4, <1>5, <1>6, <1>7 DEF DesktopInv

LEMMA ServerWeb ==
  ASSUME LinkInv, Serves, WebInv, UNCHANGED <<program, desktopVars, webVars>>
  PROVE  WebInv'
<1>1. LinkTypeOK /\ MessagesOK /\ NoLink /\ RolesTrue
  BY DEF LinkInv
<1>2. UNCHANGED <<screen, page, trying, pendingJoin, seat, banner, link>>
  BY DEF Serves, clientSide, desktopVars, webVars
<1>3. ASSUME link' = "up" PROVE WebStage'
  <2>1. WebStage
    BY <1>2, <1>3 DEF WebInv
  <2>2. Free' \/ Asking' \/ Searching' \/ InVain' \/ InRoom'
    BY <2>1, JoinStages DEF WebStage
  <2>3. pendingJoin' # None => Free'
    BY <1>2, <2>1, JoinStages DEF WebStage
  <2>4. ASSUME trying' PROVE toServer' = <<>> /\ toClient' = <<>> /\ srv' = Stranger
    <3>1. toServer = <<>> /\ toClient = <<>> /\ srv = Stranger
      BY <1>2, <2>1, <2>4 DEF WebStage
    <3>2. ~TakesHead /\ ~Routed /\ srv.place = "none"
      BY <3>1 DEF TakesHead, Routed, Stranger
    <3>3. Forgets
      BY <3>2 DEF Serves, LetsIn, Refuses, Passes, Searches, Matches, GivesUp, Plays, Warns,
                Calms, TakesLogin, TakesJoin
    <3> QED BY <3>1, <3>3 DEF Forgets
  <2>5. page' = "lobby" => Introduced(toClient') /\ (Routed' => Has(toClient', Roles))
    BY <1>2, <2>1, ServesIntroduced DEF WebStage
  <2>6. ASSUME page' = "game"
        PROVE  InRoom' /\ StillOn(banner)' /\ (seat' = None \/ SameColor(ColorFromChar(seat))')
    <3>1. InRoom /\ StillOn(banner) /\ (seat = None \/ SameColor(ColorFromChar(seat)))
      BY <1>2, <2>1, <2>6 DEF WebStage
    <3>2. InRoom'
      BY <3>1, JoinStages
    <3>3. \A w : w = banner => StillOn(w)'
      BY <3>1, ServesWarned
    <3>4. StillOn(banner)'
      BY <1>2, <3>3 DEF StillOn
    <3>5. \A c : SameColor(c) => SameColor(c)'
      BY <3>1, ServesRoles DEF InRoom
    <3>6. seat' = None \/ SameColor(ColorFromChar(seat))'
      BY <1>2, <3>1, <3>5 DEF SameColor, ColorFromChar
    <3> QED BY <3>2, <3>4, <3>6
  <2> QED BY <2>2, <2>3, <2>4, <2>5, <2>6 DEF WebStage
<1> QED BY <1>2, <1>3 DEF WebInv

-----------------------------------------------------------------------------
(* The client keeps the invariant of the link *)

LEMMA Nothing ==
  /\ IsSeq(<<>>) /\ Said(<<>>) /\ DOMAIN <<>> = {}
  /\ \A C : ~Has(<<>>, C) /\ HasOne(<<>>, C)
  /\ Settled(<<>>) /\ Introduced(<<>>)
<1>1. <<>> \in Seq({})
  OBVIOUS
<1>2. IsSeq(<<>>)
  BY <1>1, SeqIsSeq
<1> DEFINE e == <<>>
<1>3. DOMAIN e = {}
  BY <1>2, Parts
<1>4. IsSeq(e)
  BY <1>2
<1> HIDE DEF e
<1>5. /\ Said(e) /\ \A C : ~Has(e, C) /\ HasOne(e, C)
      /\ Settled(e) /\ Introduced(e)
  BY <1>3, <1>4 DEF Said, Has, HasOne, Settled, Introduced
<1> QED BY <1>3, <1>4, <1>5 DEF e

\* One message.
LEMMA Single ==
  ASSUME NEW m
  PROVE  /\ IsSeq(<<m>>) /\ \A i \in DOMAIN <<m>> : <<m>>[i] = m
         /\ \A C : (Has(<<m>>, C) <=> m.cmd \in C) /\ HasOne(<<m>>, C)
         /\ <<m>> # <<>> /\ Head(<<m>>) = m
<1> DEFINE s == <<m>>
<1>1. s \in Seq({m}) /\ DOMAIN s = {1} /\ s[1] = m
  OBVIOUS
<1>2. IsSeq(s)
  BY <1>1, SeqIsSeq
<1>3. s # <<>> /\ Head(s) = m
  OBVIOUS
<1> HIDE DEF s
<1>4. \A C : (Has(s, C) <=> m.cmd \in C) /\ HasOne(s, C)
  BY <1>1 DEF Has, HasOne
<1>5. \A i \in DOMAIN s : s[i] = m
  BY <1>1
<1> QED BY <1>2, <1>3, <1>4, <1>5 DEF s

LEMMA Strangers ==
  /\ Stranger \in [auth : BOOLEAN, place : {"none", "searching", "seated", "watching"},
                   color : ColorNames \cup {None}, game : {"waiting", "running", "over"},
                   warned : BOOLEAN]
  /\ ~Stranger.auth /\ Stranger.place = "none" /\ ~Stranger.warned
BY DEF Stranger, None

\* A connection that ends leaves nothing to be wrong.
LEMMA LinkReset ==
  ASSUME LinkInv, Disconnected, link' \in {"down", "connecting", "up"}, drops' \in Nat
  PROVE  LinkInv' /\ Free'
<1>1. toServer' = <<>> /\ toClient' = <<>> /\ srv' = Stranger
  BY DEF Disconnected
<1>2. held' \in ColorNames \cup {None}
  BY DEF Disconnected, LinkInv, LinkTypeOK
<1>3. LinkTypeOK'
  BY <1>1, <1>2, Strangers DEF LinkTypeOK
<1>4. MessagesOK'
  BY <1>1, Nothing DEF MessagesOK
<1>5. NoLink' /\ LoginOnce'
  BY <1>1, Nothing, Strangers DEF NoLink, LoginOnce
<1>6. LoginTrue' /\ RolesTrue'
  BY <1>1, Nothing, Strangers DEF LoginTrue, RolesTrue
<1>7. Settled(toClient') /\ Free'
  BY <1>1, Nothing, Strangers DEF Free
<1> QED BY <1>3, <1>4, <1>5, <1>6, <1>7 DEF LinkInv

\* A client that is not told what it is told next, and what it sends goes on the wire.
TakesOne == link = "up" /\ toClient # <<>> /\ toClient' = Tail(toClient)
SendsOn(msgs) ==
  /\ link = "up" /\ toServer' = toServer \o msgs
  /\ IsSeq(msgs) /\ \A i \in DOMAIN msgs : msgs[i].cmd \in {"JOIN", "CLICK"} /\ OneWordEach(msgs[i])
LinkKept ==
  /\ UNCHANGED <<link, srv, held, account, creds, drops>>
  /\ UNCHANGED toClient \/ TakesOne
  /\ UNCHANGED toServer \/ \E msgs : SendsOn(msgs)

LEMMA LinkClient ==
  ASSUME LinkInv, LinkKept
  PROVE  /\ LinkInv' /\ (Known' = Known) /\ (Refused' = Refused)
         /\ \A D : Has(toClient', D) => Has(toClient, D)
         /\ \A D : HasOne(toClient, D) => HasOne(toClient', D)
<1>1. MessagesOK /\ LinkTypeOK /\ NoLink /\ LoginOnce /\ LoginTrue /\ RolesTrue
  BY DEF LinkInv
<1>2. UNCHANGED <<link, srv, held, account, creds, drops>>
  BY DEF LinkKept
<1>3. LoginMsg' = LoginMsg /\ ReadLogin' = ReadLogin /\ Known' = Known /\ Refused' = Refused
  BY <1>2 DEF LoginMsg, ReadLogin, Known, Refused
<1>4. LinkTypeOK'
  BY <1>1, <1>2 DEF LinkTypeOK, Routed
<1>5. /\ IsSeq(toServer') /\ \A i \in DOMAIN toServer' : IsSent(toServer'[i])
      /\ HasOne(toServer', {"LOGIN"}) /\ (Has(toServer', {"LOGIN"}) => Has(toServer, {"LOGIN"}))
  <2>1. CASE UNCHANGED toServer
    BY <1>1, <2>1 DEF MessagesOK, LoginOnce
  <2>2. CASE \E msgs : SendsOn(msgs)
    <3>1. PICK msgs : SendsOn(msgs)
      BY <2>2
    <3>2. IsSeq(toServer) /\ IsSeq(msgs)
      BY <1>1, <3>1 DEF MessagesOK, SendsOn
    <3>3. ~Has(msgs, {"LOGIN"})
      BY <3>1 DEF Has, SendsOn
    <3>4. HasOne(toServer', {"LOGIN"}) /\ (Has(toServer', {"LOGIN"}) => Has(toServer, {"LOGIN"}))
      BY <1>1, <3>1, <3>2, <3>3, HasJoined DEF SendsOn, LoginOnce
    <3>5. IsJoin(toServer, msgs, toServer')
      BY <3>1, <3>2, Joined DEF SendsOn
    <3>6. \A i \in DOMAIN msgs : IsSent(msgs[i])
      BY <3>1 DEF SendsOn, IsSent
    <3>7. IsSeq(toServer') /\ \A i \in DOMAIN toServer' : IsSent(toServer'[i])
      BY <1>1, <3>5, <3>6 DEF IsJoin, MessagesOK
    <3> QED BY <3>4, <3>7
  <2> QED BY <2>1, <2>2 DEF LinkKept
<1>6. /\ Said(toClient') /\ \A D : Has(toClient', D) => Has(toClient, D)
      /\ \A D : HasOne(toClient, D) => HasOne(toClient', D)
      /\ srv.warned \/ Settled(toClient')
      /\ \A i \in DOMAIN toClient' : \E j \in DOMAIN toClient : toClient'[i] = toClient[j]
  <2>1. CASE UNCHANGED toClient
    BY <1>1, <2>1 DEF MessagesOK, LinkInv
  <2>2. CASE TakesOne
    <3>1. IsSeq(toClient) /\ toClient # <<>> /\ toClient' = Tail(toClient)
      BY <1>1, <2>2 DEF MessagesOK, Said, TakesOne
    <3>2. /\ IsSeq(toClient')
          /\ \A i \in DOMAIN toClient' : i + 1 \in DOMAIN toClient /\ toClient'[i] = toClient[i + 1]
      BY <3>1, Shortened
    <3>3. Said(toClient')
      BY <1>1, <3>2 DEF Said, MessagesOK
    <3>4. srv.warned \/ Settled(toClient')
      BY <3>1, SettledShortened DEF LinkInv
    <3>5. /\ \A D : Has(toClient', D) => Has(toClient, D)
          /\ \A D : HasOne(toClient, D) => HasOne(toClient', D)
      BY <3>1, HasShortened
    <3> QED BY <3>2, <3>3, <3>4, <3>5
  <2> QED BY <2>1, <2>2 DEF LinkKept
<1>7. MessagesOK'
  BY <1>3, <1>5, <1>6 DEF MessagesOK, IsSent
<1>8. NoLink'
  BY <1>1, <1>2 DEF NoLink, LinkKept, TakesOne, SendsOn
<1>9. LoginOnce'
  BY <1>1, <1>2, <1>5 DEF LoginOnce
<1>10. LoginTrue'
  BY <1>1, <1>2, <1>3, <1>6 DEF LoginTrue
<1>11. RolesTrue'
  <2>1. \A i \in DOMAIN toClient' : toClient'[i].cmd = "WELCOME" =>
          srv'.color = toClient'[i].args[1][1] \/ srv'.game = "over"
    BY <1>1, <1>2, <1>6 DEF RolesTrue, SameColor
  <2>2. ~Routed' => ~Has(toClient', Roles)
    BY <1>1, <1>2, <1>6 DEF RolesTrue, Routed
  <2> QED BY <2>1, <2>2 DEF RolesTrue, SameColor
<1> QED BY <1>2, <1>3, <1>4, <1>6, <1>7, <1>8, <1>9, <1>10, <1>11 DEF LinkInv

\* Before anything is under way: the connection opens, or the LOGIN is sent.
LEMMA LinkBegins ==
  ASSUME LinkInv, toServer = <<>>, toClient = <<>>, srv = Stranger, link' = "up",
         UNCHANGED <<toClient, srv, held, account, creds, drops>>,
         toServer' = <<>> \/ toServer' = <<LoginMsg>>
  PROVE  LinkInv' /\ Free'
<1>1. LinkTypeOK'
  BY DEF LinkInv, LinkTypeOK, Routed
<1>2. LoginMsg' = LoginMsg /\ LoginMsg.cmd = "LOGIN"
  BY DEF LoginMsg, Msg
<1>3. /\ IsSeq(toServer') /\ \A i \in DOMAIN toServer' : toServer'[i] = LoginMsg
      /\ HasOne(toServer', {"LOGIN"}) /\ ~Has(toServer', {"JOIN"})
  BY <1>2, Nothing, Single
<1>4. MessagesOK'
  BY <1>2, <1>3, Nothing DEF MessagesOK, IsSent
<1>5. NoLink' /\ LoginOnce'
  BY <1>3, Strangers DEF NoLink, LoginOnce
<1>6. LoginTrue' /\ RolesTrue'
  BY Nothing, Strangers DEF LoginTrue, RolesTrue
<1>7. Settled(toClient') /\ Free'
  BY <1>3, Nothing, Strangers DEF Free
<1> QED BY <1>1, <1>4, <1>5, <1>6, <1>7 DEF LinkInv

-----------------------------------------------------------------------------
(* The desktop program *)

\* The next message is read as it was said, by either program.
LEMMA Heard ==
  ASSUME LinkInv, WireFaithful, toClient # <<>>, NEW m, m = Head(toClient)
  PROVE  /\ IsSaid(m) /\ Decode(Encode(m)) = m /\ JsDecode(Encode(m)) = ForPage(m)
         /\ IsSeq(toClient)
         /\ \A C : m.cmd \in C => Has(toClient, C)
         /\ m.cmd \in Roles => Routed
         /\ m.cmd = "WELCOME" => SameColor(m.args[1][1])
<1>1. Said(toClient) /\ RolesTrue
  BY DEF LinkInv, MessagesOK
<1>2. 1 \in DOMAIN toClient /\ m = toClient[1]
  BY <1>1, Shortened DEF Said
<1>3. IsSaid(m) /\ m \in Range(toClient) /\ OneWordEach(m)
  BY <1>1, <1>2 DEF Said, Range, IsSaid
<1>4. Decode(Encode(m)) = m /\ JsDecode(Encode(m)) = ForPage(m)
  BY <1>3 DEF WireFaithful
<1>5. \A C : m.cmd \in C => Has(toClient, C)
  BY <1>2 DEF Has
<1> QED BY <1>1, <1>2, <1>3, <1>4, <1>5 DEF Said, RolesTrue

LEMMA HandledFields ==
  ASSUME DOMAIN proxy = DOMAIN NewProxy, NEW m
  PROVE  /\ DOMAIN Handled(m) = DOMAIN NewProxy
         /\ Handled(m).resolved = IF m.cmd \in {"LOGIN_OK", "LOGIN_FAIL"} THEN TRUE ELSE proxy.resolved
         /\ Handled(m).failed = IF m.cmd = "LOGIN_FAIL" THEN TRUE ELSE proxy.failed
         /\ Handled(m).color = IF m.cmd = "WELCOME" THEN m.args[1][1] ELSE proxy.color
         /\ Handled(m).spectator = IF m.cmd = "SPECTATE" THEN TRUE ELSE proxy.spectator
         /\ Handled(m).searchFailed = IF m.cmd = "NO_OPPONENT" THEN TRUE ELSE proxy.searchFailed
         /\ Handled(m).warning = IF m.cmd = "FORFEIT_WARNING" THEN TRUE
                                 ELSE IF m.cmd \in Over THEN FALSE ELSE proxy.warning
<1>1. DOMAIN NewProxy = {"resolved", "failed", "color", "spectator", "searchFailed", "warning", "queue"}
  BY DEF NewProxy
<1> DEFINE H == Handled(m)
<1>2. CASE m.cmd = "LOGIN_OK"
  <2>1. H = [proxy EXCEPT !.resolved = TRUE]
    BY <1>2 DEF Handled
  <2> QED BY <1>1, <1>2, <2>1 DEF Over
<1>3. CASE m.cmd = "LOGIN_FAIL"
  <2>1. H = [proxy EXCEPT !.resolved = TRUE, !.failed = TRUE]
    BY <1>3 DEF Handled
  <2> QED BY <1>1, <1>3, <2>1 DEF Over
<1>4. CASE m.cmd = "WELCOME"
  <2>1. H = [proxy EXCEPT !.color = m.args[1][1]]
    BY <1>4 DEF Handled
  <2> QED BY <1>1, <1>4, <2>1 DEF Over
<1>5. CASE m.cmd = "SPECTATE"
  <2>1. H = [proxy EXCEPT !.spectator = TRUE]
    BY <1>5 DEF Handled
  <2> QED BY <1>1, <1>5, <2>1 DEF Over
<1>6. CASE m.cmd = "NO_OPPONENT"
  <2>1. H = [proxy EXCEPT !.searchFailed = TRUE]
    BY <1>6 DEF Handled
  <2> QED BY <1>1, <1>6, <2>1 DEF Over
<1>7. CASE m.cmd = "FORFEIT_WARNING"
  <2>1. H = [proxy EXCEPT !.warning = TRUE]
    BY <1>7 DEF Handled
  <2> QED BY <1>1, <1>7, <2>1 DEF Over
<1>8. CASE m.cmd \in Over
  <2>1. H = [Queued(m) EXCEPT !.warning = FALSE]
    BY <1>8 DEF Handled, Over
  <2>2. PICK q : Queued(m) = [proxy EXCEPT !.queue = q]
    BY DEF Queued
  <2> QED BY <1>1, <1>8, <2>1, <2>2 DEF Over
<1>9. CASE m.cmd \in {"MOVE", "CAPTURE", "GAME_START", "GAME_END"}
  <2>1. H = Queued(m)
    BY <1>9 DEF Handled
  <2>2. PICK q : Queued(m) = [proxy EXCEPT !.queue = q]
    BY DEF Queued
  <2> QED BY <1>1, <1>9, <2>1, <2>2 DEF Over
<1>10. CASE m.cmd \notin {"LOGIN_OK", "LOGIN_FAIL", "WELCOME", "SPECTATE", "NO_OPPONENT",
                          "FORFEIT_WARNING", "FORFEIT", "RECONNECTED",
                          "MOVE", "CAPTURE", "GAME_START", "GAME_END"}
  <2>1. H = proxy
    BY <1>10 DEF Handled
  <2> QED BY <1>10, <2>1 DEF Over
<1> QED BY <1>2, <1>3, <1>4, <1>5, <1>6, <1>7, <1>8, <1>9, <1>10 DEF Over

LEMMA SignsIn ==
  ASSUME LinkInv, NEW name, NEW password, SignIn(name, password)
  PROVE  LinkInv' /\ DesktopInv'
<1>1. /\ Disconnected /\ link' = "connecting" /\ UNCHANGED drops
      /\ screen' = "connecting" /\ proxy' = NewProxy
  BY DEF SignIn
<1>2. LinkInv' /\ Free'
  BY <1>1, LinkReset DEF LinkInv, LinkTypeOK
<1>3. DesktopStage'
  BY <1>1, <1>2 DEF DesktopStage
<1>4. StillOn(proxy.warning)'
  BY <1>1 DEF StillOn, NewProxy
<1> QED BY <1>1, <1>2, <1>3, <1>4 DEF DesktopInv, NewProxy

LEMMA Exits ==
  ASSUME LinkInv, DesktopInv, Exit
  PROVE  LinkInv' /\ DesktopInv'
<1>1. /\ Disconnected /\ link' = "down" /\ UNCHANGED <<drops, proxy, account, creds, late>>
      /\ screen' = "exit"
  BY DEF Exit, windowVars
<1>2. LinkInv' /\ Free'
  BY <1>1, LinkReset DEF LinkInv, LinkTypeOK
<1>3. DesktopStage'
  BY <1>1, <1>2 DEF DesktopStage
<1>4. Known' = Known /\ Refused' = Refused
  BY <1>1 DEF Known, Refused, ReadLogin, LoginMsg
<1> QED BY <1>1, <1>2, <1>3, <1>4 DEF DesktopInv

LEMMA Drops ==
  ASSUME LinkInv, DesktopInv, Drop
  PROVE  LinkInv' /\ DesktopInv'
<1>1. /\ Disconnected /\ link' = "connecting" /\ drops' = drops + 1 /\ drops \in Nat
      /\ UNCHANGED <<screen, proxy, account, creds>>
      /\ late' = (screen \in {"sending", "waiting", "session"})
  BY DEF Drop, desktopVars, LinkInv, LinkTypeOK
<1>2. LinkInv' /\ Free'
  BY <1>1, LinkReset
<1>3. ~late' => DesktopStage'
  BY <1>1, <1>2 DEF DesktopStage
<1>4. Known' = Known /\ Refused' = Refused
  BY <1>1 DEF Known, Refused, ReadLogin, LoginMsg
<1>5. drops' # 0
  BY <1>1
<1> QED BY <1>1, <1>2, <1>3, <1>4, <1>5 DEF DesktopInv

LEMMA OpensUp ==
  ASSUME LinkInv, DesktopInv, Opens
  PROVE  LinkInv' /\ DesktopInv'
<1>1. /\ toServer = <<>> /\ toClient = <<>> /\ srv = Stranger /\ link' = "up"
      /\ toServer' = <<LoginMsg>>
      /\ UNCHANGED <<toClient, srv, held, account, creds, drops, screen, proxy, late>>
  BY DEF Opens, LinkInv, NoLink, desktopVars
<1>2. LinkInv' /\ Free'
  BY <1>1, LinkBegins
<1>3. Known' = Known /\ Refused' = Refused /\ LoginMsg' = LoginMsg
  BY <1>1 DEF Known, Refused, ReadLogin, LoginMsg
<1>4. toServer' # <<>> /\ Head(toServer') = LoginMsg'
  BY <1>1, <1>3, Single
<1>5. ASSUME ~late' PROVE DesktopStage'
  <2>1. DesktopStage
    BY <1>1, <1>5 DEF DesktopInv
  <2>2. ~Asking /\ ~Searching /\ ~InVain /\ ~Routed
    BY <1>1, Nothing, Strangers DEF Asking, Searching, InVain, Routed
  <2>3. HasRole' = HasRole
    BY <1>1 DEF HasRole
  <2>4. screen' # "session"
    BY <1>1, <2>1, <2>2 DEF DesktopStage
  <2>5. screen' = "waiting" => ~HasRole' /\ proxy'.searchFailed /\ Free'
    BY <1>1, <1>2, <2>1, <2>2, <2>3 DEF DesktopStage, InRoom
  <2>6. screen' = "sending" => Untold'
    BY <1>1, <2>1, <2>3 DEF DesktopStage, Untold
  <2> QED BY <1>2, <2>4, <2>5, <2>6 DEF DesktopStage
<1>6. (screen # "exit" /\ drops = 0 => StillOn(proxy.warning)) =>
        (screen' # "exit" /\ drops' = 0 => StillOn(proxy.warning)')
  BY <1>1 DEF StillOn
<1> QED BY <1>1, <1>2, <1>3, <1>4, <1>5, <1>6 DEF DesktopInv

\* What comes from the server changes the program as the stage of its JOIN allows.
LEMMA Receives ==
  ASSUME LinkInv, DesktopInv, WireFaithful, Receive
  PROVE  LinkInv' /\ DesktopInv'
<1> DEFINE m == Head(toClient)
<1>1. /\ link = "up" /\ toClient # <<>> /\ toClient' = Tail(toClient)
      /\ UNCHANGED <<screen, choice, link, creds, late, drops, toServer, srv, held, account>>
  BY DEF Receive, clientSide
<1>2. /\ IsSaid(m) /\ Decode(Encode(m)) = m /\ IsSeq(toClient)
      /\ \A C : m.cmd \in C => Has(toClient, C)
      /\ m.cmd \in Roles => Routed
      /\ m.cmd = "WELCOME" => SameColor(m.args[1][1])
  BY <1>1, Heard
<1>3. /\ \A C : Has(toClient, C) <=> m.cmd \in C \/ Has(toClient', C)
      /\ \A C : HasOne(toClient, C) /\ m.cmd \in C => ~Has(toClient', C)
  BY <1>1, <1>2, HasShortened
<1>4. proxy' = Handled(m)
  BY <1>2 DEF Receive
<1>5. m.cmd = "WELCOME" => m.args[1][1] \in ColorNames
  BY <1>2, WelcomeIsSaid DEF IsSaid
<1>6. m.cmd = "FORFEIT_WARNING" => srv.warned \/ Has(toClient', Over)
  BY <1>1, <1>2, SettledShortened DEF LinkInv
<1> HIDE DEF m
<1>7. LinkKept
  BY <1>1 DEF LinkKept, TakesOne
<1>8. LinkInv' /\ Known' = Known /\ Refused' = Refused
  BY <1>7, LinkClient
<1>9. DOMAIN proxy = DOMAIN NewProxy
  BY DEF DesktopInv
<1>10. /\ DOMAIN proxy' = DOMAIN NewProxy
       /\ proxy'.resolved = IF m.cmd \in {"LOGIN_OK", "LOGIN_FAIL"} THEN TRUE ELSE proxy.resolved
       /\ proxy'.failed = IF m.cmd = "LOGIN_FAIL" THEN TRUE ELSE proxy.failed
       /\ proxy'.color = IF m.cmd = "WELCOME" THEN m.args[1][1] ELSE proxy.color
       /\ proxy'.spectator = IF m.cmd = "SPECTATE" THEN TRUE ELSE proxy.spectator
       /\ proxy'.searchFailed = IF m.cmd = "NO_OPPONENT" THEN TRUE ELSE proxy.searchFailed
       /\ proxy'.warning = IF m.cmd = "FORFEIT_WARNING" THEN TRUE
                           ELSE IF m.cmd \in Over THEN FALSE ELSE proxy.warning
  BY <1>4, <1>9, HandledFields
<1>11. LoginTrue /\ LoginTrue'
  BY <1>8 DEF LinkInv
<1>12. /\ m.cmd = "LOGIN_OK" => Known
       /\ m.cmd = "LOGIN_FAIL" => Refused
  BY <1>2, <1>11 DEF LoginTrue
<1>13. ~(Known /\ Refused)
  BY DEF Known, Refused
<1>14. /\ proxy'.resolved /\ ~proxy'.failed => Known
       /\ proxy'.failed => Refused
  BY <1>10, <1>12 DEF DesktopInv
<1>15. screen' \in {"result", "room", "confirm", "sending", "waiting", "session"} =>
         proxy'.resolved /\ ~proxy'.failed
  BY <1>1, <1>10, <1>12, <1>13 DEF DesktopInv
<1>16. proxy'.color \in ColorNames \cup {None}
  BY <1>5, <1>10 DEF DesktopInv
<1>17. LoginMsg' = LoginMsg
  BY <1>1 DEF LoginMsg
<1>18. screen' # "exit" /\ drops' = 0 => StillOn(proxy.warning)'
  <2>1. ASSUME screen' # "exit", drops' = 0, proxy'.warning PROVE srv'.warned \/ Has(toClient', Over)
    <3>1. CASE m.cmd = "FORFEIT_WARNING"
      BY <1>1, <1>6, <3>1
    <3>2. CASE m.cmd # "FORFEIT_WARNING"
      <4>1. m.cmd \notin Over /\ proxy.warning
        BY <1>10, <2>1, <3>2
      <4>2. srv.warned \/ Has(toClient, Over)
        BY <1>1, <2>1, <4>1 DEF DesktopInv, StillOn
      <4> QED BY <1>1, <1>3, <4>1, <4>2
    <3> QED BY <3>1, <3>2
  <2> QED BY <2>1 DEF StillOn
<1>19. ASSUME ~late' PROVE DesktopStage'
  <2>1. DesktopStage
    BY <1>1, <1>19 DEF DesktopInv
  <2>2. /\ srv'.place = srv.place /\ (Has(toServer', {"JOIN"}) <=> Has(toServer, {"JOIN"}))
        /\ HasOne(toServer', {"JOIN"}) <=> HasOne(toServer, {"JOIN"})
        /\ Has(toClient', {"NO_OPPONENT"}) => Has(toClient, {"NO_OPPONENT"})
        /\ HasOne(toClient, {"NO_OPPONENT"}) => HasOne(toClient', {"NO_OPPONENT"})
        /\ m.cmd # "NO_OPPONENT" /\ Has(toClient, {"NO_OPPONENT"}) => Has(toClient', {"NO_OPPONENT"})
        /\ Routed' = Routed
    <3>1. HasOne(toClient, {"NO_OPPONENT"}) => HasOne(toClient', {"NO_OPPONENT"})
      BY <1>7, LinkClient
    <3> QED BY <1>1, <1>3, <3>1 DEF Routed, Has, HasOne
  <2>3. /\ Free => Free' /\ m.cmd \notin Roles \cup {"NO_OPPONENT"}
        /\ Asking => Asking' /\ m.cmd \notin Roles \cup {"NO_OPPONENT"}
        /\ Searching => Searching' /\ m.cmd \notin Roles \cup {"NO_OPPONENT"}
        /\ InVain => /\ m.cmd \notin Roles
                     /\ IF m.cmd = "NO_OPPONENT" THEN Free' ELSE InVain'
        /\ InRoom => InRoom' /\ m.cmd # "NO_OPPONENT"
    <3>1. m.cmd = "NO_OPPONENT" => Has(toClient, {"NO_OPPONENT"})
      BY <1>2
    <3>2. m.cmd = "NO_OPPONENT" /\ HasOne(toClient, {"NO_OPPONENT"}) => ~Has(toClient', {"NO_OPPONENT"})
      BY <1>3
    <3>3. Free => Free' /\ m.cmd \notin Roles \cup {"NO_OPPONENT"}
      BY <1>2, <2>2, <3>1 DEF Free, Routed
    <3>4. Asking => Asking' /\ m.cmd \notin Roles \cup {"NO_OPPONENT"}
      BY <1>2, <2>2, <3>1 DEF Asking, Routed
    <3>5. Searching => Searching' /\ m.cmd \notin Roles \cup {"NO_OPPONENT"}
      BY <1>2, <2>2, <3>1 DEF Searching, Routed
    <3>6. InVain => m.cmd \notin Roles /\ (m.cmd = "NO_OPPONENT" => Free')
                                       /\ (m.cmd # "NO_OPPONENT" => InVain')
      BY <1>2, <2>2, <3>2 DEF InVain, Free, Routed
    <3>7. InRoom => InRoom' /\ m.cmd # "NO_OPPONENT"
      BY <2>2, <3>1 DEF InRoom
    <3> QED BY <3>3, <3>4, <3>5, <3>6, <3>7
  <2>4. ColorTrue => ColorTrue'
    <3>1. m.cmd = "WELCOME" => srv'.color = m.args[1][1] \/ srv'.game = "over"
      BY <1>1, <1>2 DEF SameColor
    <3>2. SameColor(proxy.color) => srv'.color = proxy.color \/ srv'.game = "over"
      BY <1>1 DEF SameColor
    <3> QED BY <1>10, <3>1, <3>2 DEF ColorTrue, SameColor
  <2>5. m.cmd \notin Roles => HasRole' = HasRole
    BY <1>10 DEF HasRole, Roles
  <2>6. m.cmd \in Roles => HasRole'
    <3>1. None \notin ColorNames
      BY DEF None, ColorNames
    <3> QED BY <1>5, <1>10, <3>1 DEF HasRole, Roles
  <2>7. HasRole => HasRole'
    <3>1. None \notin ColorNames
      BY DEF None, ColorNames
    <3> QED BY <1>5, <1>10, <3>1 DEF HasRole
  <2>8. screen' \notin {"waiting", "session"} => Free'
    BY <1>1, <2>1, <2>3 DEF DesktopStage
  <2>9. screen' = "sending" => Untold'
    BY <1>1, <1>10, <2>1, <2>3, <2>5 DEF DesktopStage, Untold
  <2>10. ASSUME screen' = "waiting"
         PROVE  \/ Untold' /\ (Asking' \/ Searching' \/ InVain')
                \/ ~HasRole' /\ proxy'.searchFailed /\ Free'
                \/ InRoom' /\ ColorTrue' /\ ~proxy'.searchFailed /\ (HasRole' \/ Has(toClient', Roles))
    <3>1. CASE Untold /\ (Asking \/ Searching)
      BY <1>10, <2>3, <2>5, <3>1 DEF Untold
    <3>2. CASE Untold /\ InVain
      <4>1. ~HasRole'
        BY <2>3, <2>5, <3>2 DEF Untold
      <4>2. CASE m.cmd = "NO_OPPONENT"
        BY <1>10, <2>3, <3>2, <4>1, <4>2
      <4>3. CASE m.cmd # "NO_OPPONENT"
        BY <1>10, <2>3, <3>2, <4>1, <4>3 DEF Untold
      <4> QED BY <4>2, <4>3
    <3>3. CASE ~HasRole /\ proxy.searchFailed /\ Free
      BY <1>10, <2>3, <2>5, <3>3
    <3>4. CASE InRoom /\ ColorTrue /\ ~proxy.searchFailed /\ (HasRole \/ Has(toClient, Roles))
      BY <1>3, <1>10, <2>3, <2>4, <2>6, <2>7, <3>4
    <3> QED BY <1>1, <2>1, <2>10, <3>1, <3>2, <3>3, <3>4 DEF DesktopStage
  <2>11. screen' = "session" => Routed' /\ ColorTrue'
    BY <1>1, <2>1, <2>2, <2>4 DEF DesktopStage
  <2> QED BY <2>8, <2>9, <2>10, <2>11 DEF DesktopStage
<1>20. link' = "up" /\ ~srv'.auth /\ Known' => toServer' # <<>> /\ Head(toServer') = LoginMsg'
  BY <1>1, <1>8, <1>17 DEF DesktopInv
<1> QED BY <1>8, <1>10, <1>14, <1>15, <1>16, <1>18, <1>19, <1>20 DEF DesktopInv

Same == UNCHANGED <<link, toServer, toClient, srv, held, account, creds, drops>>

LEMMA LinkSame ==
  ASSUME LinkInv, Same
  PROVE  /\ LinkInv' /\ Known' = Known /\ Refused' = Refused /\ LoginMsg' = LoginMsg
         /\ Free' = Free /\ Asking' = Asking /\ Searching' = Searching /\ InVain' = InVain
         /\ InRoom' = InRoom /\ Routed' = Routed
         /\ \A color : SameColor(color)' = SameColor(color)
         /\ \A warning : StillOn(warning)' = StillOn(warning)
<1>1. LinkKept
  BY DEF Same, LinkKept
<1>2. LinkInv' /\ Known' = Known /\ Refused' = Refused
  BY <1>1, LinkClient
<1>3. LoginMsg' = LoginMsg
  BY DEF Same, LoginMsg
<1>4. /\ Free' = Free /\ Asking' = Asking /\ Searching' = Searching /\ InVain' = InVain
      /\ InRoom' = InRoom /\ Routed' = Routed
      /\ \A color : SameColor(color)' = SameColor(color)
      /\ \A warning : StillOn(warning)' = StillOn(warning)
  BY DEF Same, Free, Asking, Searching, InVain, InRoom, Routed, SameColor, StillOn
<1> QED BY <1>2, <1>3, <1>4

\* A window that opens after another leaves the connection as it is.
LEMMA WindowOpens ==
  ASSUME LinkInv, DesktopInv, Same, UNCHANGED <<proxy, late>>,
         \/ screen' \in {"login", "result"} /\ screen = "connecting" /\ proxy.resolved
            /\ (screen' = "result" => ~proxy.failed)
         \/ screen = "result" /\ screen' = "room"
         \/ screen = "room" /\ screen' \in {"confirm", "login"}
         \/ screen = "confirm" /\ screen' = "room"
         \/ /\ screen = "waiting" /\ (HasRole \/ proxy.searchFailed)
            /\ screen' = IF HasRole THEN "session" ELSE "confirm"
  PROVE  LinkInv' /\ DesktopInv'
<1>1. /\ LinkInv' /\ Known' = Known /\ Refused' = Refused /\ LoginMsg' = LoginMsg
      /\ Free' = Free /\ Routed' = Routed
      /\ \A color : SameColor(color)' = SameColor(color)
      /\ \A warning : StillOn(warning)' = StillOn(warning)
  BY LinkSame
<1>2. UNCHANGED <<link, srv, toServer, toClient, drops>>
  BY DEF Same
<1>3. StillOn(proxy.warning) => StillOn(proxy.warning)'
  BY <1>2 DEF StillOn
<1>4. ColorTrue => ColorTrue'
  BY <1>2 DEF ColorTrue, SameColor
<1>5. screen # "exit"
  OBVIOUS
<1>6. ASSUME ~late' PROVE DesktopStage'
  <2>1. DesktopStage
    BY <1>6 DEF DesktopInv
  <2>2. CASE screen # "waiting"
    BY <1>1, <2>1, <2>2 DEF DesktopStage
  <2>3. CASE screen = "waiting" /\ HasRole
    <3>1. InRoom /\ ColorTrue
      BY <2>1, <2>3 DEF DesktopStage, Untold
    <3>2. screen' = "session" /\ Routed' /\ ColorTrue'
      BY <1>1, <1>4, <2>3, <3>1 DEF InRoom
    <3> QED BY <3>2 DEF DesktopStage
  <2>4. CASE screen = "waiting" /\ ~HasRole
    <3>1. proxy.searchFailed /\ Free /\ screen' = "confirm"
      BY <2>1, <2>4 DEF DesktopStage, Untold
    <3> QED BY <1>1, <3>1 DEF DesktopStage
  <2> QED BY <2>2, <2>3, <2>4
<1>7. screen' \in {"result", "room", "confirm", "sending", "waiting", "session"} =>
        proxy'.resolved /\ ~proxy'.failed
  BY DEF DesktopInv
<1> QED BY <1>1, <1>2, <1>3, <1>5, <1>6, <1>7 DEF DesktopInv

LEMMA Presses ==
  ASSUME LinkInv, DesktopInv, Play
  PROVE  LinkInv' /\ DesktopInv'
<1>1. /\ Same /\ UNCHANGED late /\ screen = "confirm" /\ screen' = "sending"
      /\ proxy' = [proxy EXCEPT !.color = None, !.spectator = FALSE, !.searchFailed = FALSE]
  BY DEF Play, Same, linkVars
<1>2. /\ LinkInv' /\ Known' = Known /\ Refused' = Refused /\ LoginMsg' = LoginMsg
      /\ Free' = Free
  BY <1>1, LinkSame
<1>3. DOMAIN NewProxy = {"resolved", "failed", "color", "spectator", "searchFailed", "warning", "queue"}
  BY DEF NewProxy
<1>4. /\ DOMAIN proxy' = DOMAIN NewProxy
      /\ proxy'.color = None /\ proxy'.spectator = FALSE /\ proxy'.searchFailed = FALSE
      /\ proxy'.resolved = proxy.resolved /\ proxy'.failed = proxy.failed
      /\ proxy'.warning = proxy.warning
  BY <1>1, <1>3 DEF DesktopInv
<1>5. StillOn(proxy.warning) => StillOn(proxy.warning)'
  BY <1>1, <1>4 DEF StillOn, Same
<1>6. ~late' => DesktopStage'
  BY <1>1, <1>2, <1>4 DEF DesktopInv, DesktopStage, Untold, HasRole
<1>7. UNCHANGED <<link, srv, toServer, drops>>
  BY <1>1 DEF Same
<1> QED BY <1>1, <1>2, <1>4, <1>5, <1>6, <1>7 DEF DesktopInv

LEMMA Timeout ==
  ASSUME LinkInv, DesktopInv, JoinTimesOut
  PROVE  LinkInv' /\ DesktopInv'
<1>1. Same /\ UNCHANGED proxy /\ late' /\ screen = "waiting" /\ screen' = "confirm"
  BY DEF JoinTimesOut, Same, windowVars
<1>2. LinkInv' /\ Known' = Known /\ Refused' = Refused /\ LoginMsg' = LoginMsg
  BY <1>1, LinkSame
<1>3. StillOn(proxy.warning) => StillOn(proxy.warning)'
  BY <1>1 DEF StillOn, Same
<1>4. UNCHANGED <<link, srv, toServer, drops>>
  BY <1>1 DEF Same
<1> QED BY <1>1, <1>2, <1>3, <1>4 DEF DesktopInv

LEMMA Frames ==
  ASSUME LinkInv, DesktopInv, Frame
  PROVE  LinkInv' /\ DesktopInv'
<1>1. /\ Same /\ UNCHANGED <<screen, late>> /\ screen = "session"
      /\ proxy' = [proxy EXCEPT !.queue = <<>>]
  BY DEF Frame, Same
<1>2. /\ LinkInv' /\ Known' = Known /\ Refused' = Refused /\ LoginMsg' = LoginMsg
      /\ Routed' = Routed
  BY <1>1, LinkSame
<1>3. DOMAIN NewProxy = {"resolved", "failed", "color", "spectator", "searchFailed", "warning", "queue"}
  BY DEF NewProxy
<1>4. /\ DOMAIN proxy' = DOMAIN NewProxy /\ proxy'.color = proxy.color
      /\ proxy'.resolved = proxy.resolved /\ proxy'.failed = proxy.failed
      /\ proxy'.warning = proxy.warning
  BY <1>1, <1>3 DEF DesktopInv
<1>5. UNCHANGED <<link, srv, toServer, toClient, drops>>
  BY <1>1 DEF Same
<1>6. StillOn(proxy.warning) => StillOn(proxy.warning)'
  BY <1>4, <1>5 DEF StillOn
<1>7. ColorTrue => ColorTrue'
  BY <1>4, <1>5 DEF ColorTrue, SameColor
<1>8. ~late' => DesktopStage'
  BY <1>1, <1>2, <1>7 DEF DesktopInv, DesktopStage
<1> QED BY <1>1, <1>2, <1>4, <1>5, <1>6, <1>8 DEF DesktopInv

LEMMA Sends ==
  ASSUME NEW m, m.cmd \in {"JOIN", "CLICK"}, OneWordEach(m), LinkInv, link = "up",
         UNCHANGED <<link, srv, held, account, creds, drops, toClient>>,
         toServer' = toServer \o <<m>>
  PROVE  /\ LinkInv' /\ Known' = Known /\ Refused' = Refused /\ LoginMsg' = LoginMsg
         /\ Routed' = Routed /\ InRoom' = InRoom
         /\ Free /\ m.cmd = "JOIN" => Asking'
         /\ toServer # <<>> => toServer' # <<>> /\ Head(toServer') = Head(toServer)
<1>1. /\ IsSeq(<<m>>) /\ \A i \in DOMAIN <<m>> : <<m>>[i] = m
      /\ \A C : (Has(<<m>>, C) <=> m.cmd \in C) /\ HasOne(<<m>>, C)
  BY Single
<1> DEFINE t == <<m>>
<1>2. toServer' = toServer \o t
  OBVIOUS
<1> HIDE DEF t
<1>3. /\ IsSeq(t) /\ \A i \in DOMAIN t : t[i] = m
      /\ \A C : (Has(t, C) <=> m.cmd \in C) /\ HasOne(t, C)
  BY <1>1 DEF t
<1>4. SendsOn(t)
  BY <1>2, <1>3 DEF SendsOn
<1>5. LinkInv' /\ Known' = Known /\ Refused' = Refused
  BY <1>4, LinkClient DEF LinkKept
<1>6. IsSeq(toServer) /\ IsSeq(toServer')
  BY <1>5 DEF LinkInv, MessagesOK
<1>7. ASSUME Free, m.cmd = "JOIN" PROVE Asking'
  <2>1. Has(t, {"JOIN"}) /\ HasOne(t, {"JOIN"})
    BY <1>3, <1>7
  <2>2. IsSeq(toServer) /\ IsSeq(t) /\ ~Has(toServer, {"JOIN"})
    BY <1>3, <1>6, <1>7 DEF Free
  <2>3. /\ Has(toServer \o t, {"JOIN"}) <=> Has(toServer, {"JOIN"}) \/ Has(t, {"JOIN"})
        /\ HasOne(t, {"JOIN"}) /\ ~Has(toServer, {"JOIN"}) => HasOne(toServer \o t, {"JOIN"})
    BY <2>2, HasJoined
  <2>4. Has(toServer', {"JOIN"}) /\ HasOne(toServer', {"JOIN"})
    BY <1>2, <2>1, <2>2, <2>3
  <2> QED BY <1>7, <2>4 DEF Free, Asking
<1>8. ASSUME toServer # <<>> PROVE toServer' # <<>> /\ Head(toServer') = Head(toServer)
  <2>1. IsJoin(toServer, t, toServer')
    BY <1>2, <1>3, <1>6, Joined
  <2>2. 1 \in DOMAIN toServer /\ Head(toServer) = toServer[1]
    BY <1>6, <1>8, Shortened
  <2>3. 1 \in DOMAIN toServer' /\ toServer'[1] = toServer[1]
    BY <2>1, <2>2 DEF IsJoin
  <2>4. toServer' # <<>>
    BY <1>6, <2>3, Parts
  <2> QED BY <1>6, <2>2, <2>3, <2>4, Shortened
<1>9. LoginMsg' = LoginMsg /\ Routed' = Routed /\ InRoom' = InRoom
  BY DEF LoginMsg, Routed, InRoom
<1> QED BY <1>5, <1>7, <1>8, <1>9

LEMMA SentMessages ==
  /\ ClickMsg.cmd = "CLICK" /\ OneWordEach(ClickMsg)
  /\ \A mode : JoinMsg(mode).cmd = "JOIN" /\ OneWordEach(JoinMsg(mode))
<1>1. ClickMsg.cmd = "CLICK" /\ OneWordEach(ClickMsg)
  BY Worded DEF ClickMsg
<1>2. ASSUME NEW mode PROVE JoinMsg(mode).cmd = "JOIN" /\ OneWordEach(JoinMsg(mode))
  <2>1. \A x : Len(<<x>>) = 1 /\ DOMAIN << <<x>> >> = {1} /\ << <<x>> >>[1] = <<x>>
    OBVIOUS
  <2>2. \A x, y : /\ DOMAIN << <<x>>, <<y>> >> = {1, 2}
                  /\ << <<x>>, <<y>> >>[1] = <<x>> /\ << <<x>>, <<y>> >>[2] = <<y>>
    OBVIOUS
  <2>3. CASE mode = "JoinRoom"
    <3>1. JoinMsg(mode).cmd = "JOIN" /\ JoinMsg(mode).args = << <<mode>>, <<"den">> >>
      BY <2>3 DEF JoinMsg, Msg
    <3> QED BY <2>1, <2>2, <3>1 DEF OneWordEach
  <2>4. CASE mode # "JoinRoom"
    <3>1. JoinMsg(mode).cmd = "JOIN" /\ JoinMsg(mode).args = << <<mode>> >>
      BY <2>4 DEF JoinMsg, Msg
    <3> QED BY <2>1, <3>1 DEF OneWordEach
  <2> QED BY <2>3, <2>4
<1> QED BY <1>1, <1>2

LEMMA Joins ==
  ASSUME LinkInv, DesktopInv, SendJoin
  PROVE  LinkInv' /\ DesktopInv'
<1>1. /\ screen = "sending" /\ screen' = "waiting" /\ late' = (late \/ link # "up")
      /\ UNCHANGED <<link, srv, held, account, creds, drops, toClient, proxy>>
      /\ toServer' = IF link = "up" THEN toServer \o <<JoinMsg(choice)>> ELSE toServer
  BY DEF SendJoin, Send, windowVars
<1>2. StillOn(proxy.warning) => StillOn(proxy.warning)'
  BY <1>1 DEF StillOn
<1>3. CASE link = "up"
  <2>1. /\ LinkInv' /\ Known' = Known /\ Refused' = Refused /\ LoginMsg' = LoginMsg
        /\ Free => Asking'
        /\ toServer # <<>> => toServer' # <<>> /\ Head(toServer') = Head(toServer)
    BY <1>1, <1>3, SentMessages, Sends
  <2>2. ASSUME ~late' PROVE DesktopStage'
    <3>1. Free /\ Untold
      BY <1>1, <1>3, <2>2 DEF DesktopInv, DesktopStage
    <3>2. Untold'
      BY <1>1, <3>1 DEF Untold, HasRole
    <3> QED BY <1>1, <2>1, <3>1, <3>2 DEF DesktopStage
  <2> QED BY <1>1, <1>2, <2>1, <2>2 DEF DesktopInv
<1>4. CASE link # "up"
  <2>1. Same
    BY <1>1, <1>4 DEF Same
  <2>2. late'
    <3>1. late' <=> late \/ link # "up"
      BY <1>1
    <3> QED BY <1>4, <3>1
  <2>3. LinkInv' /\ Known' = Known /\ Refused' = Refused
    BY <2>1, LinkSame
  <2> QED BY <1>1, <1>2, <1>4, <2>2, <2>3 DEF DesktopInv
<1> QED BY <1>3, <1>4

LEMMA Clicks ==
  ASSUME LinkInv, DesktopInv, Click
  PROVE  LinkInv' /\ DesktopInv'
<1>1. /\ screen = "session" /\ UNCHANGED <<screen, late>>
      /\ UNCHANGED <<link, srv, held, account, creds, drops, toClient, proxy>>
      /\ toServer = <<>>
      /\ toServer' = IF link = "up" THEN toServer \o <<ClickMsg>> ELSE toServer
  BY DEF Click, Send, windowVars, clientSide
<1>2. StillOn(proxy.warning) => StillOn(proxy.warning)'
  BY <1>1 DEF StillOn
<1>3. /\ LinkInv' /\ Known' = Known /\ Refused' = Refused /\ Routed' = Routed
  <2>1. CASE link = "up"
    BY <1>1, <2>1, SentMessages, Sends
  <2>2. CASE link # "up"
    BY <1>1, <2>2, LinkSame DEF Same
  <2> QED BY <2>1, <2>2
<1>4. ColorTrue => ColorTrue'
  BY <1>1 DEF ColorTrue, SameColor
<1>5. ~late' => DesktopStage'
  BY <1>1, <1>3, <1>4 DEF DesktopInv, DesktopStage
<1>6. ~(link' = "up" /\ ~srv'.auth /\ Known')
  BY <1>1, <1>3 DEF DesktopInv
<1> QED BY <1>1, <1>2, <1>3, <1>5, <1>6 DEF DesktopInv

LEMMA DesktopSteps ==
  ASSUME LinkInv, DesktopInv, WireFaithful, DesktopNext
  PROVE  LinkInv' /\ DesktopInv'
<1>1. CASE ShowLogin
  <2>1. ASSUME NEW name, NEW password, PressSignIn(name, password) PROVE LinkInv' /\ DesktopInv'
    BY <2>1, SignsIn DEF PressSignIn
  <2>2. ASSUME NEW name, NEW password, PromptOnConsole(name, password) PROVE LinkInv' /\ DesktopInv'
    BY <2>2, SignsIn, Exits DEF PromptOnConsole, CancelLogin
  <2> QED BY <1>1, <2>1, <2>2, Exits DEF ShowLogin, CancelLogin
<1>2. CASE ShowRoomChoice
  <2>1. CASE CancelChoice
    BY <2>1, Exits DEF CancelChoice
  <2>2. ASSUME (\E mode : Choose(mode)) \/ LogOut PROVE LinkInv' /\ DesktopInv'
    <3>1. Same /\ UNCHANGED <<proxy, late>> /\ screen = "room" /\ screen' \in {"confirm", "login"}
      BY <2>2 DEF Choose, LogOut, Same, linkVars, windowVars
    <3> QED BY <3>1, WindowOpens
  <2> QED BY <1>2, <2>1, <2>2 DEF ShowRoomChoice
<1>3. CASE PollLogin
  <2>1. /\ Same /\ UNCHANGED <<proxy, late>> /\ screen = "connecting" /\ proxy.resolved
        /\ screen' \in {"login", "result"} /\ (screen' = "result" => ~proxy.failed)
    BY <1>3 DEF PollLogin, Same, linkVars, windowVars
  <2> QED BY <2>1, WindowOpens
<1>4. CASE Continue
  <2>1. Same /\ UNCHANGED <<proxy, late>> /\ screen = "result" /\ screen' = "room"
    BY <1>4 DEF Continue, Same, linkVars, windowVars
  <2> QED BY <2>1, WindowOpens
<1>5. CASE Back
  <2>1. Same /\ UNCHANGED <<proxy, late>> /\ screen = "confirm" /\ screen' = "room"
    BY <1>5 DEF Back, Same, linkVars
  <2> QED BY <2>1, WindowOpens
<1>6. CASE PollJoin
  <2>1. /\ Same /\ UNCHANGED <<proxy, late>> /\ screen = "waiting" /\ (HasRole \/ proxy.searchFailed)
        /\ screen' = IF HasRole THEN "session" ELSE "confirm"
    BY <1>6 DEF PollJoin, Same, linkVars
  <2> QED BY <2>1, WindowOpens
<1>7. CASE CancelPlay \/ CloseBoard
  BY <1>7, Exits DEF CancelPlay, CloseBoard
<1> QED BY <1>1, <1>2, <1>3, <1>4, <1>5, <1>6, <1>7, Presses, Joins, Timeout, Frames, Clicks,
           OpensUp, Receives, Drops DEF DesktopNext, UserStep

-----------------------------------------------------------------------------
(* The page *)

LEMMA PageReads ==
  ASSUME NEW m, IsSaid(m)
  PROVE  /\ ForPage(m).cmd = m.cmd
         /\ m.cmd = "WELCOME" => ColorFromChar(ForPage(m).args[1][1]) = m.args[1][1]
<1>1. DOMAIN m = {"cmd", "args"}
  BY DEF IsSaid
<1>2. \A a : [m EXCEPT !.args = a].cmd = m.cmd /\ [m EXCEPT !.args = a].args = a
  BY <1>1
<1>3. \E a : ForPage(m) = [m EXCEPT !.args = a] \/ ForPage(m) = m
  BY DEF ForPage, ColorFirst
<1>4. ForPage(m).cmd = m.cmd
  BY <1>2, <1>3
<1>5. ASSUME m.cmd = "WELCOME" PROVE ColorFromChar(ForPage(m).args[1][1]) = m.args[1][1]
  <2>1. PICK color \in ColorNames : m = Welcome(color)
    BY <1>5 DEF IsSaid
  <2>2. ForPage(m) = [m EXCEPT !.args[1] = <<ColorChar(@[1])>>]
    BY <1>5 DEF ForPage, ColorFirst
  <2>3. DOMAIN One(<<color>>) = {1} /\ One(<<color>>)[1] = <<color>>
    BY DEF One
  <2>4. DOMAIN m.args = {1} /\ m.args[1][1] = color
    BY <2>1, <2>3 DEF Welcome, Msg
  <2>5. ForPage(m).args[1] = <<ColorChar(m.args[1][1])>>
    BY <1>1, <2>2, <2>4
  <2>6. ForPage(m).args[1][1] = ColorChar(color)
    BY <2>4, <2>5
  <2>7. ColorFromChar(ColorChar(color)) = color
    BY DEF ColorFromChar, ColorChar, ColorNames
  <2> QED BY <2>4, <2>6, <2>7
<1> QED BY <1>4, <1>5

LEMMA LinkTypes ==
  ASSUME LinkInv
  PROVE  link \in {"down", "connecting", "up"} /\ drops \in Nat /\ drops + 1 \in Nat
BY DEF LinkInv, LinkTypeOK

\* Whoever closes the connection, or loses it, is back in the lobby or sees a dead board.
LEMMA PageCutOff ==
  ASSUME LinkInv, WebInv, Disconnected, link' \in {"down", "connecting"},
         drops' \in {drops, drops + 1}, UNCHANGED screen,
         \/ UNCHANGED <<page, banner, trying>> /\ link' = "down"
         \/ page' = "lobby" /\ ~banner'
  PROVE  LinkInv' /\ WebInv'
<1>1. LinkInv'
  BY LinkReset, LinkTypes
<1>2. link' # "up"
  OBVIOUS
<1> QED BY <1>1, <1>2 DEF WebInv

LEMMA PageBegins ==
  ASSUME LinkInv, WebInv, SocketOpens \/ TrySend, UNCHANGED screen
  PROVE  LinkInv' /\ WebInv'
<1>1. CASE SocketOpens
  <2>1. /\ link = "connecting" /\ link' = "up"
        /\ UNCHANGED <<page, banner, seat, pendingJoin, trying, toServer, toClient, srv, held, account,
                       creds, drops>>
    BY <1>1 DEF SocketOpens
  <2>2. toServer = <<>> /\ toClient = <<>> /\ srv = Stranger
    BY <2>1 DEF LinkInv, NoLink
  <2>3. LinkInv' /\ Free'
    BY <2>1, <2>2, LinkBegins
  <2>4. page = "lobby" /\ ~banner
    BY <2>1 DEF WebInv
  <2>5. ~Routed' /\ Introduced(toClient')
    BY <2>1, <2>2, Nothing, Strangers DEF Routed
  <2>6. WebStage'
    BY <2>1, <2>2, <2>3, <2>4, <2>5 DEF WebStage
  <2> QED BY <2>1, <2>3, <2>4, <2>6 DEF WebInv
<1>2. CASE TrySend
  <2>1. /\ trying /\ ~trying' /\ page = "lobby" /\ page' = "lobby" /\ ~banner'
        /\ UNCHANGED <<seat, pendingJoin, link, toClient, srv, held, account, creds, drops>>
        /\ \/ UNCHANGED toServer
           \/ link = "up" /\ toServer' = toServer \o <<LoginMsg>>
    BY <1>2 DEF TrySend, WebInv, Send, ShowLobby
  <2>2. CASE link # "up"
    <3>1. LinkInv'
      BY <2>1, <2>2, LinkClient DEF LinkKept
    <3> QED BY <2>1, <2>2, <3>1 DEF WebInv
  <2>3. CASE link = "up"
    <3>1. toServer = <<>> /\ toClient = <<>> /\ srv = Stranger
      BY <2>1, <2>3 DEF WebInv, WebStage
    <3>2. \A m : <<>> \o <<m>> = <<m>>
      OBVIOUS
    <3>3. toServer' = <<>> \/ toServer' = <<LoginMsg>>
      BY <2>1, <3>1, <3>2
    <3>4. LinkInv' /\ Free'
      BY <2>1, <2>3, <3>1, <3>3, LinkBegins
    <3>5. ~Routed' /\ Introduced(toClient')
      BY <2>1, <3>1, Nothing, Strangers DEF Routed
    <3>6. WebStage'
      BY <2>1, <3>4, <3>5 DEF WebStage
    <3> QED BY <2>1, <3>4, <3>6 DEF WebInv
  <2> QED BY <2>2, <2>3
<1> QED BY <1>1, <1>2

\* A message taken from the wire by the page, and what it sends at most.
PageTakes(m) ==
  /\ TakesOne /\ UNCHANGED <<link, srv, held, account, creds, drops, screen, trying>>
  /\ m = Head(toClient) /\ m.cmd # "NO_OPPONENT" /\ banner' = BannerAfter(m)

LEMMA PageStages ==
  ASSUME LinkInv, WebInv, WireFaithful, NEW m, PageTakes(m)
  PROVE  /\ WebStage /\ ~trying' /\ IsSeq(toClient)
         /\ \A C : Has(toClient, C) <=> m.cmd \in C \/ Has(toClient', C)
         /\ m.cmd \in Roles => Routed
         /\ UNCHANGED toServer => /\ Free => Free'
                                  /\ Asking => Asking'
                                  /\ Searching => Searching'
                                  /\ InVain => InVain'
         /\ Routed' = Routed /\ (InRoom => InRoom')
         /\ page = "lobby" => m.cmd # "FORFEIT_WARNING" /\ (m.cmd \notin Roles => Introduced(toClient'))
         /\ page = "lobby" => ~banner'
         /\ page = "game" => StillOn(banner)'
<1>1. /\ link = "up" /\ toClient # <<>> /\ toClient' = Tail(toClient) /\ m = Head(toClient)
      /\ m.cmd # "NO_OPPONENT" /\ UNCHANGED <<link, srv, trying>> /\ banner' = BannerAfter(m)
  BY DEF PageTakes, TakesOne
<1>2. IsSeq(toClient) /\ (m.cmd \in Roles => Routed)
  BY <1>1, Heard
<1>3. WebStage
  BY <1>1 DEF WebInv
<1>4. ~trying'
  BY <1>1, <1>3 DEF WebStage
<1>5. \A C : Has(toClient, C) <=> m.cmd \in C \/ Has(toClient', C)
  BY <1>1, <1>2, HasShortened
<1>6. \A C : HasOne(toClient, C) => HasOne(toClient', C)
  BY <1>1, <1>2, HasShortened
<1>7. Has(toClient, {"NO_OPPONENT"}) <=> Has(toClient', {"NO_OPPONENT"})
  BY <1>1, <1>5
<1>8. Routed' = Routed /\ (InRoom => InRoom')
  BY <1>1, <1>7 DEF Routed, InRoom
<1>9. ASSUME UNCHANGED toServer
      PROVE  (Free => Free') /\ (Asking => Asking') /\ (Searching => Searching') /\ (InVain => InVain')
  <2>1. HasOne(toClient, {"NO_OPPONENT"}) => HasOne(toClient', {"NO_OPPONENT"})
    BY <1>6
  <2>2. (Has(toServer', {"JOIN"}) <=> Has(toServer, {"JOIN"})) /\ srv' = srv
        /\ (HasOne(toServer', {"JOIN"}) <=> HasOne(toServer, {"JOIN"}))
    BY <1>1, <1>9
  <2> QED BY <1>7, <2>1, <2>2 DEF Free, Asking, Searching, InVain
<1>10. ASSUME page = "lobby" PROVE m.cmd # "FORFEIT_WARNING" /\ (m.cmd \notin Roles => Introduced(toClient'))
  BY <1>1, <1>2, <1>3, <1>10, IntroducedShortened DEF WebStage
<1>11. ASSUME page = "lobby" PROVE ~banner'
  BY <1>1, <1>10, <1>11 DEF BannerAfter, WebInv
<1>12. ASSUME page = "game", banner' PROVE srv'.warned \/ Has(toClient', Over)
  <2>1. CASE m.cmd = "FORFEIT_WARNING"
    BY <1>1, <1>2, <2>1, SettledShortened DEF LinkInv
  <2>2. CASE m.cmd # "FORFEIT_WARNING"
    <3>1. m.cmd \notin Over /\ banner
      BY <1>1, <1>12, <2>2 DEF BannerAfter, Over
    <3>2. srv.warned \/ Has(toClient, Over)
      BY <1>3, <1>12, <3>1 DEF WebStage, StillOn
    <3> QED BY <1>1, <1>5, <3>1, <3>2
  <2> QED BY <2>1, <2>2
<1>13. page = "game" => StillOn(banner)'
  BY <1>12 DEF StillOn
<1> QED BY <1>2, <1>3, <1>4, <1>5, <1>8, <1>9, <1>10, <1>11, <1>13

LEMMA PageTold ==
  ASSUME LinkInv, WebInv, WireFaithful, NEW m, PageTakes(m), m.cmd \notin Roles,
         UNCHANGED <<page, seat>>,
         \/ UNCHANGED toServer /\ (pendingJoin' # None => pendingJoin # None)
         \/ /\ pendingJoin # None /\ pendingJoin' = None
            /\ toServer' = toServer \o <<JoinMsg(pendingJoin)>>
  PROVE  LinkInv' /\ WebInv'
<1>1. /\ link = "up" /\ UNCHANGED <<link, srv, held, account, creds, drops, screen, trying>> /\ TakesOne
  BY DEF PageTakes, TakesOne
<1>2. /\ WebStage /\ ~trying'
      /\ \A C : Has(toClient, C) <=> m.cmd \in C \/ Has(toClient', C)
      /\ UNCHANGED toServer => /\ Free => Free'
                               /\ Asking => Asking'
                               /\ Searching => Searching'
                               /\ InVain => InVain'
      /\ Routed' = Routed /\ (InRoom => InRoom')
      /\ page = "lobby" => Introduced(toClient')
      /\ page = "lobby" => ~banner'
      /\ page = "game" => StillOn(banner)'
  BY PageStages
<1>3. Has(toClient, Roles) => Has(toClient', Roles)
  BY <1>2
<1>4. SameColor(ColorFromChar(seat)) => SameColor(ColorFromChar(seat))'
  BY <1>1 DEF SameColor, ColorFromChar
<1>5. page' = "lobby" => Introduced(toClient') /\ (Routed' => Has(toClient', Roles))
  BY <1>2, <1>3 DEF WebStage
<1>6. page' = "game" =>
        InRoom' /\ StillOn(banner)' /\ (seat' = None \/ SameColor(ColorFromChar(seat))')
  BY <1>2, <1>4 DEF WebStage
<1>7. CASE UNCHANGED toServer /\ (pendingJoin' # None => pendingJoin # None)
  <2>1. LinkInv'
    BY <1>1, <1>7, LinkClient DEF LinkKept
  <2>2. Free' \/ Asking' \/ Searching' \/ InVain' \/ InRoom'
    BY <1>2, <1>7 DEF WebStage
  <2>3. pendingJoin' # None => Free'
    BY <1>2, <1>7 DEF WebStage
  <2>4. WebStage'
    BY <1>2, <1>5, <1>6, <2>2, <2>3 DEF WebStage
  <2> QED BY <1>1, <1>2, <2>1, <2>4 DEF WebInv
<1>8. CASE /\ pendingJoin # None /\ pendingJoin' = None
           /\ toServer' = toServer \o <<JoinMsg(pendingJoin)>>
  <2> DEFINE j == JoinMsg(pendingJoin)
             t == <<j>>
  <2>1. j.cmd = "JOIN" /\ OneWordEach(j)
    BY SentMessages
  <2>2. toServer' = toServer \o t
    BY <1>8
  <2> HIDE DEF j
  <2>3. /\ IsSeq(t) /\ \A i \in DOMAIN t : t[i] = j
        /\ Has(t, {"JOIN"}) /\ HasOne(t, {"JOIN"})
    BY <2>1, Single
  <2> HIDE DEF t
  <2>4. SendsOn(t)
    BY <1>1, <2>1, <2>2, <2>3 DEF SendsOn
  <2>5. LinkInv'
    BY <1>1, <2>4, LinkClient DEF LinkKept
  <2>6. Free
    BY <1>2, <1>8 DEF WebStage
  <2>7. IsSeq(toServer) /\ ~Has(toServer, {"JOIN"})
    BY <2>6 DEF LinkInv, MessagesOK, Free
  <2>8. /\ Has(toServer \o t, {"JOIN"}) <=> Has(toServer, {"JOIN"}) \/ Has(t, {"JOIN"})
        /\ HasOne(t, {"JOIN"}) /\ ~Has(toServer, {"JOIN"}) => HasOne(toServer \o t, {"JOIN"})
    BY <2>3, <2>7, HasJoined
  <2>9. Has(toServer', {"JOIN"}) /\ HasOne(toServer', {"JOIN"})
    BY <2>2, <2>3, <2>7, <2>8
  <2>10. ~Has(toClient', {"NO_OPPONENT"})
    BY <1>2, <2>6 DEF Free
  <2>11. Asking'
    BY <1>1, <2>6, <2>9, <2>10 DEF Asking, Free
  <2>12. WebStage'
    BY <1>2, <1>5, <1>6, <1>8, <2>11 DEF WebStage
  <2> QED BY <1>1, <1>2, <2>5, <2>12 DEF WebInv
<1> QED BY <1>7, <1>8

LEMMA PageSeated ==
  ASSUME LinkInv, WebInv, WireFaithful, NEW m, PageTakes(m), m.cmd \in Roles,
         page' = "game", seat' = IF m.cmd = "WELCOME" THEN ForPage(m).args[1][1] ELSE None,
         UNCHANGED <<toServer, pendingJoin>>
  PROVE  LinkInv' /\ WebInv'
<1>1. /\ link = "up" /\ UNCHANGED <<link, srv, held, account, creds, drops, screen, trying>> /\ TakesOne
      /\ toClient # <<>> /\ m = Head(toClient) /\ banner' = BannerAfter(m)
  BY DEF PageTakes, TakesOne
<1>2. WebStage /\ ~trying' /\ Routed /\ (InRoom => InRoom') /\ (page = "game" => StillOn(banner)')
      /\ (page = "lobby" => ~banner')
  BY PageStages
<1>3. InRoom /\ pendingJoin = None
  BY <1>2 DEF WebStage, Free, Asking, Searching, InVain, Routed
<1>4. IsSaid(m) /\ (m.cmd = "WELCOME" => SameColor(m.args[1][1]))
  BY <1>1, Heard
<1>5. seat' = None \/ SameColor(ColorFromChar(seat))'
  <2>1. CASE m.cmd = "WELCOME"
    <3>1. ColorFromChar(seat') = m.args[1][1]
      BY <1>4, <2>1, PageReads
    <3>2. srv'.color = ColorFromChar(seat') \/ srv'.game = "over"
      BY <1>1, <1>4, <2>1, <3>1 DEF SameColor
    <3> QED BY <3>2 DEF SameColor, ColorFromChar
  <2>2. CASE m.cmd # "WELCOME"
    BY <2>2
  <2> QED BY <2>1, <2>2
<1>6. StillOn(banner)'
  <2>1. page \in {"lobby", "game"}
    BY DEF WebInv
  <2> QED BY <1>2, <2>1 DEF StillOn
<1>7. WebStage'
  BY <1>2, <1>3, <1>5, <1>6 DEF WebStage
<1>8. LinkInv'
  BY <1>1, LinkClient DEF LinkKept
<1> QED BY <1>1, <1>2, <1>7, <1>8 DEF WebInv

LEMMA PageHears ==
  ASSUME LinkInv, WebInv, WireFaithful, OnMessage, UNCHANGED screen
  PROVE  LinkInv' /\ WebInv'
<1> DEFINE h == Head(toClient)
<1>1. /\ link = "up" /\ toClient # <<>>
      /\ UNCHANGED <<trying, account, creds, drops>>
  BY DEF OnMessage
<1>2. IsSaid(h) /\ JsDecode(Encode(h)) = ForPage(h) /\ \A C : h.cmd \in C => Has(toClient, C)
  BY <1>1, Heard
<1>3. PICK m : /\ m = ForPage(h) /\ banner' = BannerAfter(m)
               /\ OnLoginOk(m) \/ OnRefusal(m) \/ OnRole(m) \/ OnGameMessage(m)
  BY <1>2 DEF OnMessage
<1>4. m.cmd = h.cmd
  BY <1>2, <1>3, PageReads
<1> HIDE DEF h
<1>5. banner' = BannerAfter(h)
  BY <1>3, <1>4 DEF BannerAfter
<1>6. WebStage
  BY <1>1 DEF WebInv
<1>7. ASSUME toClient' = Tail(toClient), UNCHANGED <<link, srv, held>>, h.cmd # "NO_OPPONENT" PROVE PageTakes(h)
  BY <1>1, <1>5, <1>7 DEF PageTakes, TakesOne, h
<1>8. CASE OnLoginOk(m)
  <2>1. /\ toClient' = Tail(toClient) /\ UNCHANGED <<page, seat, link, srv, held>>
        /\ pendingJoin' = None /\ h.cmd = "LOGIN_OK"
        /\ IF pendingJoin = None THEN UNCHANGED toServer
           ELSE toServer' = toServer \o <<JoinMsg(pendingJoin)>>
    BY <1>1, <1>4, <1>8 DEF OnLoginOk, Send
  <2>2. PageTakes(h) /\ h.cmd \notin Roles
    BY <1>7, <2>1 DEF Roles
  <2> QED BY <2>1, <2>2, PageTold
<1>9. CASE OnGameMessage(m)
  <2>1. /\ toClient' = Tail(toClient) /\ UNCHANGED <<page, seat, link, srv, held, pendingJoin, toServer>>
        /\ h.cmd # "NO_OPPONENT" /\ h.cmd \notin Roles
    BY <1>4, <1>9 DEF OnGameMessage, Roles
  <2>2. PageTakes(h)
    BY <1>7, <2>1
  <2> QED BY <2>1, <2>2, PageTold
<1>10. CASE OnRole(m)
  <2>1. /\ toClient' = Tail(toClient) /\ UNCHANGED <<link, srv, held, pendingJoin, toServer>>
        /\ h.cmd # "NO_OPPONENT" /\ h.cmd \in Roles /\ page' = "game"
        /\ seat' = IF h.cmd = "WELCOME" THEN ForPage(h).args[1][1] ELSE None
    BY <1>3, <1>4, <1>10 DEF OnRole, Roles
  <2>2. PageTakes(h)
    BY <1>7, <2>1
  <2> QED BY <2>1, <2>2, PageSeated
<1>11. CASE OnRefusal(m)
  <2>1. /\ Disconnected /\ link' = "down" /\ page' = "lobby" /\ h.cmd \in {"LOGIN_FAIL", "NO_OPPONENT"}
    BY <1>4, <1>11 DEF OnRefusal, CloseSocket, ShowLobby
  <2>2. banner' = banner
    BY <1>5, <2>1 DEF BannerAfter
  <2>3. page # "game"
    <3>1. SUFFICES ASSUME page = "game" PROVE FALSE
      OBVIOUS
    <3>2. Routed /\ ~Has(toClient, {"NO_OPPONENT"})
      BY <1>6, <3>1 DEF WebStage, InRoom
    <3>3. Has(toClient, {"LOGIN_FAIL"})
      BY <1>2, <2>1, <3>2
    <3>4. srv.auth
      BY <3>2 DEF LinkInv, LoginOnce, Routed
    <3> QED BY <3>3, <3>4 DEF LinkInv, LoginTrue, Known, Refused
  <2>4. ~banner'
    BY <2>2, <2>3 DEF WebInv
  <2> QED BY <1>1, <2>1, <2>4, PageCutOff
<1> QED BY <1>3, <1>8, <1>9, <1>10, <1>11

LEMMA PageClicks ==
  ASSUME LinkInv, WebInv, Pointer, UNCHANGED screen
  PROVE  LinkInv' /\ WebInv'
<1>1. /\ page = "game" /\ UNCHANGED <<page, seat, banner, pendingJoin, trying>>
      /\ UNCHANGED <<link, srv, held, account, creds, drops, toClient>>
      /\ toServer = <<>>
      /\ \/ UNCHANGED toServer
         \/ link = "up" /\ \E msgs \in {<<ClickMsg>>, <<ClickMsg, ClickMsg>>} : toServer' = toServer \o msgs
  BY DEF Pointer, Send, webVars, clientSide
<1>2. ASSUME NEW msgs \in {<<ClickMsg>>, <<ClickMsg, ClickMsg>>}
      PROVE  IsSeq(msgs) /\ \A i \in DOMAIN msgs : msgs[i] = ClickMsg
  <2>1. \A m : <<m>> \in Seq({m}) /\ <<m, m>> \in Seq({m})
    OBVIOUS
  <2>2. msgs \in Seq({ClickMsg})
    BY <1>2, <2>1
  <2>3. \A i \in DOMAIN msgs : msgs[i] = ClickMsg
    BY <2>2
  <2> QED BY <2>2, <2>3, SeqIsSeq
<1>3. LinkKept
  <2>1. \A msgs : link = "up" /\ msgs \in {<<ClickMsg>>, <<ClickMsg, ClickMsg>>} /\ toServer' = toServer \o msgs =>
          SendsOn(msgs)
    BY <1>2, SentMessages DEF SendsOn
  <2> QED BY <1>1, <2>1 DEF LinkKept
<1>4. LinkInv'
  BY <1>3, LinkClient
<1>5. ASSUME link = "up" PROVE WebStage'
  <2>1. InRoom /\ StillOn(banner) /\ (seat = None \/ SameColor(ColorFromChar(seat))) /\ ~trying
    BY <1>1, <1>5 DEF WebInv, WebStage
  <2>2. pendingJoin = None
    BY <1>1, <1>5, <2>1 DEF WebInv, WebStage, InRoom, Free, Routed
  <2>3. InRoom' /\ StillOn(banner)' /\ (seat' = None \/ SameColor(ColorFromChar(seat))')
    BY <1>1, <2>1 DEF InRoom, Routed, StillOn, SameColor, ColorFromChar
  <2> QED BY <1>1, <2>1, <2>2, <2>3 DEF WebStage
<1> QED BY <1>1, <1>4, <1>5 DEF WebInv

LEMMA WebSteps ==
  ASSUME LinkInv, WebInv, WireFaithful, WebNext, UNCHANGED screen
  PROVE  LinkInv' /\ WebInv'
<1>1. ASSUME NEW mode, NEW password, StartLogin(mode, password) PROVE LinkInv' /\ WebInv'
  <2>1. Disconnected /\ link' = "connecting" /\ UNCHANGED <<drops, page, banner>> /\ page = "lobby"
    BY <1>1 DEF StartLogin, CloseSocket
  <2>2. ~banner'
    BY <2>1 DEF WebInv
  <2> QED BY <2>1, <2>2, PageCutOff
<1>2. CASE Leave
  <2>1. Disconnected /\ link' = "down" /\ UNCHANGED drops /\ page' = "lobby" /\ ~banner'
    BY <1>2 DEF Leave, CloseSocket, ShowLobby
  <2> QED BY <2>1, PageCutOff
<1>3. CASE SocketFails
  <2>1. Disconnected /\ link' = "down" /\ drops' = drops + 1 /\ UNCHANGED <<page, banner, trying>>
    BY <1>3 DEF SocketFails
  <2> QED BY <2>1, PageCutOff
<1>4. CASE StaleClose
  <2>1. Same /\ UNCHANGED <<page, trying, pendingJoin, seat, banner>>
    BY <1>4 DEF StaleClose, linkVars, Same
  <2>2. /\ LinkInv' /\ Free' = Free /\ Asking' = Asking /\ Searching' = Searching /\ InVain' = InVain
        /\ InRoom' = InRoom /\ Routed' = Routed
    BY <2>1, LinkSame
  <2>3. UNCHANGED <<link, toServer, toClient, srv>>
    BY <2>1 DEF Same
  <2>4. /\ StillOn(banner) => StillOn(banner)'
        /\ SameColor(ColorFromChar(seat)) => SameColor(ColorFromChar(seat))'
    BY <2>1, <2>3 DEF StillOn, SameColor, ColorFromChar
  <2>5. WebStage => WebStage'
    BY <2>1, <2>2, <2>3, <2>4 DEF WebStage
  <2> QED BY <2>1, <2>2, <2>3, <2>5 DEF WebInv
<1> QED BY <1>1, <1>2, <1>3, <1>4, PageBegins, PageHears, PageClicks DEF WebNext

-----------------------------------------------------------------------------
(* Theorems *)

LEMMA ClientsInit ==
  ASSUME Init
  PROVE  ClientsInv
<1>1. /\ link = "down" /\ toServer = <<>> /\ toClient = <<>> /\ srv = Stranger /\ held = None
      /\ late = FALSE /\ drops = 0
      /\ screen = "login" /\ proxy = NewProxy
      /\ page = "lobby" /\ banner = FALSE /\ trying = FALSE
  BY DEF Init, LinkInit, DesktopInit, WebInit
<1>2. LinkTypeOK
  BY <1>1, Strangers DEF LinkTypeOK
<1>3. MessagesOK /\ NoLink /\ LoginOnce /\ LoginTrue /\ RolesTrue /\ Settled(toClient) /\ Free
  BY <1>1, Nothing, Strangers DEF MessagesOK, NoLink, LoginOnce, LoginTrue, RolesTrue, Free
<1>4. DesktopStage
  BY <1>1, <1>3 DEF DesktopStage
<1>5. StillOn(proxy.warning)
  BY <1>1 DEF StillOn, NewProxy
<1>6. DesktopInv
  BY <1>1, <1>4, <1>5 DEF DesktopInv, NewProxy
<1>7. WebInv
  BY <1>1 DEF WebInv
<1> QED BY <1>2, <1>3, <1>6, <1>7 DEF ClientsInv, LinkInv

LEMMA ClientsNext ==
  ASSUME ClientsInv, WireFaithful, [Next]_vars
  PROVE  ClientsInv'
<1>1. LinkInv /\ (program = "desktop" => DesktopInv) /\ (program # "desktop" => WebInv)
  BY DEF ClientsInv
<1>2. CASE Server
  <2>1. Serves /\ UNCHANGED <<program, desktopVars, webVars>>
    BY <1>1, <1>2, ServerServes DEF Server
  <2>2. LinkInv'
    BY <1>1, <2>1, ServesLink
  <2>3. program = "desktop" => DesktopInv'
    BY <1>1, <2>1, ServerDesktop
  <2>4. program # "desktop" => WebInv'
    BY <1>1, <2>1, ServerWeb
  <2> QED BY <2>1, <2>2, <2>3, <2>4 DEF ClientsInv
<1>3. CASE Desktop
  <2>1. program = "desktop" /\ program' = "desktop" /\ DesktopNext
    BY <1>3 DEF Desktop
  <2> QED BY <1>1, <2>1, DesktopSteps DEF ClientsInv
<1>4. CASE Web
  <2>1. program = "web" /\ program' = "web" /\ WebNext /\ UNCHANGED screen
    BY <1>4 DEF Web, desktopVars
  <2> QED BY <1>1, <2>1, WebSteps DEF ClientsInv
<1>5. CASE UNCHANGED vars
  <2>1. Same /\ UNCHANGED <<program, linkVars, desktopVars, webVars>>
    BY <1>5 DEF vars, linkVars, Same
  <2>2. /\ LinkInv' /\ Known' = Known /\ Refused' = Refused /\ LoginMsg' = LoginMsg
        /\ Free' = Free /\ Asking' = Asking /\ Searching' = Searching /\ InVain' = InVain
        /\ InRoom' = InRoom /\ Routed' = Routed
    BY <1>1, <2>1, LinkSame
  <2>3. UNCHANGED <<link, toServer, toClient, srv, drops, screen, proxy, late, page, trying, pendingJoin,
                    seat, banner, program>>
    BY <2>1 DEF Same, linkVars, desktopVars, webVars
  <2>4. DesktopInv => DesktopInv'
    <3>1. DesktopStage => DesktopStage'
      BY <2>2, <2>3 DEF DesktopStage, Untold, HasRole, ColorTrue, SameColor
    <3>2. StillOn(proxy.warning) => StillOn(proxy.warning)'
      BY <2>3 DEF StillOn
    <3> QED BY <2>2, <2>3, <3>1, <3>2 DEF DesktopInv
  <2>5. WebInv => WebInv'
    <3>1. WebStage => WebStage'
      BY <2>2, <2>3 DEF WebStage, StillOn, SameColor, ColorFromChar
    <3> QED BY <2>3, <3>1 DEF WebInv
  <2> QED BY <1>1, <2>2, <2>3, <2>4, <2>5 DEF ClientsInv
<1> QED BY <1>2, <1>3, <1>4, <1>5 DEF Next

LEMMA ClientsScreen ==
  ASSUME ClientsInv
  PROVE  ScreenIsTrue
<1>1. \A C : Has(toClient, C) => \E m \in Range(toClient) : m.cmd \in C
  BY DEF Has, Range
<1>2. Over = {"RECONNECTED", "FORFEIT"}
  BY DEF Over
<1>3. CASE program = "desktop"
  <2>1. ASSUME screen = "session", ~late
        PROVE  /\ proxy.color = None \/ srv.color = proxy.color \/ srv.game = "over"
               /\ proxy.warning /\ drops = 0 => srv.warned \/ Has(toClient, Over)
    BY <1>3, <2>1 DEF ClientsInv, DesktopInv, DesktopStage, ColorTrue, SameColor, StillOn
  <2>2. /\ Seat = proxy.color /\ Warned = proxy.warning
        /\ Shown <=> screen = "session" /\ ~late
    BY <1>3 DEF Seat, Warned, Shown
  <2> QED BY <1>1, <1>2, <1>3, <2>1, <2>2 DEF ScreenIsTrue
<1>4. CASE program # "desktop"
  <2>1. ASSUME page = "game", link = "up"
        PROVE  /\ seat = None \/ srv.color = ColorFromChar(seat) \/ srv.game = "over"
               /\ banner => srv.warned \/ Has(toClient, Over)
    BY <1>4, <2>1 DEF ClientsInv, WebInv, WebStage, SameColor, StillOn
  <2>2. /\ Seat = IF seat = None THEN None ELSE ColorFromChar(seat)
        /\ Warned = banner
        /\ Shown <=> page = "game" /\ link = "up"
    BY <1>4 DEF Seat, Warned, Shown
  <2> QED BY <1>1, <1>2, <2>1, <2>2 DEF ScreenIsTrue
<1> QED BY <1>3, <1>4

LEMMA ClientsAnswer ==
  ASSUME ClientsInv
  PROVE  AnswerIsDue
<1>1. SUFFICES ASSUME screen = "waiting", ~late
               PROVE  \/ \E m \in Range(toServer) : m.cmd = "JOIN"
                      \/ srv.place = "searching"
                      \/ \E m \in Range(toClient) : m.cmd \in {"WELCOME", "SPECTATE", "NO_OPPONENT"}
                      \/ HasRole \/ proxy.searchFailed
  BY DEF AnswerIsDue
<1>2. DesktopStage
  BY <1>1 DEF ClientsInv, DesktopInv, WebInv
<1>3. Asking \/ Searching \/ InVain \/ HasRole \/ proxy.searchFailed \/ Has(toClient, Roles)
  BY <1>1, <1>2 DEF DesktopStage
<1>4. Has(toServer, {"JOIN"}) => \E m \in Range(toServer) : m.cmd = "JOIN"
  BY DEF Has, Range
<1>5. Has(toClient, {"NO_OPPONENT"}) \/ Has(toClient, Roles) =>
        \E m \in Range(toClient) : m.cmd \in {"WELCOME", "SPECTATE", "NO_OPPONENT"}
  BY DEF Has, Range, Roles
<1> QED BY <1>3, <1>4, <1>5 DEF Asking, Searching, InVain

\* The invariant of client, connection and server, as long as messages are read as they
\* were meant.
THEOREM ClientsInvariant == Spec /\ []WireFaithful => []ClientsInv
<1>1. Init => ClientsInv
  BY ClientsInit
<1>2. ClientsInv /\ WireFaithful /\ [Next]_vars => ClientsInv'
  BY ClientsNext
<1> QED BY <1>1, <1>2, PTL DEF Spec

\* Who is shown a seat has it, and who is warned is in danger, on the desktop and on the
\* page: RemoteGameProxy.cpp takes the role and the warning on the network thread and
\* main.cpp polls them, app.js takes them as they come.
THEOREM ScreenIsTrueHolds == Spec /\ []WireFaithful => []ScreenIsTrue
<1>1. ClientsInv => ScreenIsTrue
  BY ClientsScreen
<1> QED BY <1>1, ClientsInvariant, PTL

\* A JOIN that is waited for is on its way, answered, or about to be: join of
\* RemoteGameProxy.cpp resets the answers of an earlier JOIN before it sends, never after.
THEOREM AnswerIsDueHolds == Spec /\ []WireFaithful => []AnswerIsDue
<1>1. ClientsInv => AnswerIsDue
  BY ClientsAnswer
<1> QED BY <1>1, ClientsInvariant, PTL

-----------------------------------------------------------------------------
(* The events of a sequence of messages.  EventsIn is recursive over the      *)
(* messages: the function it stands for is shown by hand to be the only one   *)
(* and to exist, by the least number of messages for which it is not so.      *)

LessThan == {pair \in Nat \X Nat : pair[1] < pair[2]}

\* A nonempty set of naturals has a least member.
LEMMA LeastNumber ==
  ASSUME NEW T \in SUBSET Nat, T # {}
  PROVE  \E k \in T : \A j \in T : k <= j
<1>1. IsWellFoundedOn(LessThan, Nat)
  BY NatLessThanWellFounded, Zenon DEF OpToRel, LessThan
<1>2. PICK k \in T : \A j \in T : ~ <<j, k>> \in LessThan
  BY <1>1, WFMin
<1>3. ASSUME NEW j \in T PROVE k <= j
  <2>1. ~(j < k)
    BY <1>2 DEF LessThan
  <2> QED BY <2>1
<1> QED BY <1>3

\* f[k] are the events of the first k messages of s.
Kept(s, f) ==
  f = [k \in 0 .. Len(s) |-> IF k = 0 THEN <<>> ELSE f[k - 1] \o EventsOf(s[k])]

LEMMA EventsAreKept ==
  ASSUME NEW s
  PROVE  EventsIn(s) = (CHOOSE f : Kept(s, f))[Len(s)]
BY DEF EventsIn, Kept

LEMMA EventsOfType ==
  ASSUME NEW S, NEW m \in S
  PROVE  EventsOf(m) \in Seq(S)
BY DEF EventsOf

\* EventsIn is the value of any such function.
LEMMA EventsAreUnique ==
  ASSUME NEW S, NEW s \in Seq(S), NEW f, Kept(s, f)
  PROVE  EventsIn(s) = f[Len(s)]
<1>1. PICK g : g = (CHOOSE h : Kept(s, h))
  OBVIOUS
<1>2. Kept(s, g)
  BY <1>1
<1>3. Len(s) \in Nat
  OBVIOUS
<1>4. EventsIn(s) = g[Len(s)]
  BY <1>1, EventsAreKept
<1> DEFINE T == {k \in 0 .. Len(s) : f[k] # g[k]}
<1>5. T = {}
  <2> SUFFICES ASSUME T # {} PROVE FALSE
    OBVIOUS
  <2>1. T \in SUBSET Nat
    BY <1>3
  <2>2. PICK k \in T : \A j \in T : k <= j
    <3> HIDE DEF T
    <3> QED BY <2>1, LeastNumber
  <2>3. k \in Nat /\ k <= Len(s) /\ f[k] # g[k]
    BY <1>3, <2>2
  <2>4. k # 0
    BY <1>2, <1>3, <2>3 DEF Kept
  <2>5. k - 1 \in 0 .. Len(s) /\ k - 1 \notin T
    BY <1>3, <2>2, <2>3, <2>4
  <2>6. f[k - 1] = g[k - 1]
    BY <2>5
  <2>7. f[k] = f[k - 1] \o EventsOf(s[k])
    BY <1>3, <2>3, <2>4 DEF Kept
  <2>8. g[k] = g[k - 1] \o EventsOf(s[k])
    BY <1>2, <1>3, <2>3, <2>4 DEF Kept
  <2> QED BY <2>3, <2>6, <2>7, <2>8
<1>6. Len(s) \in 0 .. Len(s)
  BY <1>3
<1> QED BY <1>4, <1>5, <1>6

\* Every sequence has one.
LEMMA EventsExist ==
  ASSUME NEW S, NEW s \in Seq(S)
  PROVE  \E f : Kept(s, f) /\ \A k \in 0 .. Len(s) : f[k] \in Seq(S)
<1> DEFINE Prefix(f, k) ==
             /\ f = [j \in 0 .. k |-> IF j = 0 THEN <<>> ELSE f[j - 1] \o EventsOf(s[j])]
             /\ \A j \in 0 .. k : f[j] \in Seq(S)
           T == {k \in 0 .. Len(s) : ~ \E f : Prefix(f, k)}
<1>1. Len(s) \in Nat /\ \A k \in 1 .. Len(s) : s[k] \in S
  OBVIOUS
<1>2. T = {}
  <2> SUFFICES ASSUME T # {} PROVE FALSE
    OBVIOUS
  <2>1. T \in SUBSET Nat
    <3>1. T \subseteq 0 .. Len(s)
      OBVIOUS
    <3> HIDE DEF T
    <3> QED BY <3>1, <1>1
  <2>2. PICK k \in T : \A j \in T : k <= j
    <3> HIDE DEF T
    <3> QED BY <2>1, LeastNumber
  <2>3. k \in Nat /\ k <= Len(s)
    BY <1>1
  <2>4. ASSUME k = 0 PROVE FALSE
    <3> DEFINE e == [j \in 0 .. 0 |-> <<>>]
    <3>1. /\ e = [j \in 0 .. 0 |-> IF j = 0 THEN <<>> ELSE e[j - 1] \o EventsOf(s[j])]
          /\ \A j \in 0 .. 0 : e[j] = <<>>
      OBVIOUS
    <3>2. <<>> \in Seq(S)
      OBVIOUS
    <3>3. Prefix(e, 0)
      BY <3>1, <3>2
    <3> QED BY <2>4, <3>3
  <2>5. k - 1 \in 0 .. Len(s) /\ k - 1 \notin T
    <3>1. k - 1 \in 0 .. Len(s) /\ ~(k <= k - 1)
      BY <1>1, <2>3, <2>4
    <3> HIDE DEF T
    <3> QED BY <3>1, <2>2
  <2>6. PICK f : Prefix(f, k - 1)
    BY <2>5
  <2> DEFINE g == [j \in 0 .. k |-> IF j = k THEN f[k - 1] \o EventsOf(s[k]) ELSE f[j]]
  <2>7. f[k - 1] \o EventsOf(s[k]) \in Seq(S)
    <3>1. f[k - 1] \in Seq(S) /\ s[k] \in S
      BY <1>1, <2>3, <2>4, <2>6
    <3>2. EventsOf(s[k]) \in Seq(S)
      BY <3>1, EventsOfType
    <3> QED BY <3>1, <3>2, ConcatProperties
  <2>8. ASSUME NEW j \in 0 .. k
        PROVE  /\ g[j] = IF j = 0 THEN <<>> ELSE g[j - 1] \o EventsOf(s[j])
               /\ g[j] \in Seq(S)
    <3>1. j \in Nat /\ j <= k
      BY <2>3
    <3>2. CASE j = k
      <4>1. g[j] = f[k - 1] \o EventsOf(s[k])
        BY <3>1, <3>2
      <4>2. g[j - 1] = f[k - 1]
        BY <3>1, <3>2, <2>4
      <4> QED BY <4>1, <4>2, <3>2, <2>4, <2>7
    <3>3. CASE j # k
      <4>1. j \in 0 .. k - 1
        BY <3>1, <3>3, <2>3
      <4>2. g[j] = f[j]
        BY <3>3
      <4>3. j # 0 => j - 1 \in 0 .. k /\ g[j - 1] = f[j - 1]
        BY <3>1, <3>3, <2>3
      <4>4. f[j] = (IF j = 0 THEN <<>> ELSE f[j - 1] \o EventsOf(s[j])) /\ f[j] \in Seq(S)
        BY <2>6, <4>1
      <4> QED BY <4>2, <4>3, <4>4
    <3> QED BY <3>2, <3>3
  <2>9. g = [j \in 0 .. k |-> IF j = 0 THEN <<>> ELSE g[j - 1] \o EventsOf(s[j])]
    <3> DEFINE h == [j \in 0 .. k |-> IF j = 0 THEN <<>> ELSE g[j - 1] \o EventsOf(s[j])]
    <3>1. \A j \in 0 .. k : g[j] = h[j]
      BY <2>8
    <3>2. g = [j \in 0 .. k |-> g[j]] /\ h = [j \in 0 .. k |-> h[j]]
      OBVIOUS
    <3> HIDE DEF g, h
    <3>3. g = h
      BY <3>1, <3>2
    <3> QED BY <3>3 DEF h
  <2>10. Prefix(g, k)
    BY <2>8, <2>9
  <2> QED BY <2>10, <2>2
<1>3. \E f : Prefix(f, Len(s))
  <2> HIDE DEF Prefix
  <2> QED BY <1>1, <1>2
<1>4. PICK f : Prefix(f, Len(s))
  <2> HIDE DEF Prefix
  <2> QED BY <1>3
<1>5. Kept(s, f)
  BY <1>4 DEF Kept
<1> QED BY <1>4, <1>5

LEMMA NoEvents == EventsIn(<<>>) = <<>>
<1> DEFINE s == <<>>
           f == [k \in 0 .. Len(s) |-> <<>>]
<1>1. s \in Seq({}) /\ Len(s) = 0 /\ \A k \in 0 .. 0 : k = 0
  OBVIOUS
<1>2. \A k \in 0 .. Len(s) : (IF k = 0 THEN <<>> ELSE f[k - 1] \o EventsOf(s[k])) = <<>>
  BY <1>1
<1>3. Kept(s, f)
  BY <1>2 DEF Kept
<1>4. f[Len(s)] = <<>>
  BY <1>1
<1> HIDE DEF s, f
<1>5. EventsIn(s) = <<>>
  BY <1>1, <1>3, <1>4, EventsAreUnique
<1> QED BY <1>5 DEF s

LEMMA OneEvent ==
  ASSUME NEW m
  PROVE  EventsIn(<<m>>) = EventsOf(m)
<1> DEFINE s == <<m>>
           f == [k \in 0 .. 1 |-> IF k = 0 THEN <<>> ELSE EventsOf(m)]
<1>1. s \in Seq({m}) /\ Len(s) = 1 /\ s[1] = m /\ \A k \in 0 .. 1 : k = 0 \/ k = 1
  OBVIOUS
<1>2. EventsOf(m) \in Seq({m})
  BY EventsOfType
<1>3. <<>> \o EventsOf(m) = EventsOf(m)
  BY <1>2, ConcatEmptySeq
<1>4. f[0] = <<>> /\ f[1] = EventsOf(m)
  OBVIOUS
<1> HIDE DEF s
<1> DEFINE g == [k \in 0 .. Len(s) |-> IF k = 0 THEN <<>> ELSE f[k - 1] \o EventsOf(s[k])]
<1>5. \A k \in 0 .. 1 : f[k] = g[k]
  <2>1. 0 .. Len(s) = 0 .. 1 /\ 0 \in 0 .. 1 /\ 1 \in 0 .. 1 /\ 1 - 1 = 0
    BY <1>1
  <2> HIDE DEF f
  <2>2. ASSUME NEW k \in 0 .. Len(s) PROVE g[k] = IF k = 0 THEN <<>> ELSE f[k - 1] \o EventsOf(s[k])
    OBVIOUS
  <2> HIDE DEF g
  <2> QED BY <1>1, <1>3, <1>4, <2>1, <2>2
<1>6. f = [k \in 0 .. 1 |-> f[k]] /\ g = [k \in 0 .. 1 |-> g[k]]
  BY <1>1
<1>7. f = g
  <2> HIDE DEF f, g
  <2> QED BY <1>5, <1>6
<1>8. Kept(s, f)
  BY <1>7 DEF Kept
<1> HIDE DEF f, g
<1>9. EventsIn(s) = EventsOf(m)
  BY <1>1, <1>4, <1>8, EventsAreUnique
<1> QED BY <1>9 DEF s

LEMMA EventsType ==
  ASSUME NEW S, NEW s \in Seq(S)
  PROVE  EventsIn(s) \in Seq(S)
<1>1. PICK f : Kept(s, f) /\ \A k \in 0 .. Len(s) : f[k] \in Seq(S)
  BY EventsExist
<1>2. EventsIn(s) = f[Len(s)]
  BY <1>1, EventsAreUnique
<1> QED BY <1>1, <1>2

\* The events of messages one after the other are theirs, one after the other.
LEMMA EventsJoined ==
  ASSUME NEW S, NEW s \in Seq(S), NEW t \in Seq(S)
  PROVE  EventsIn(s \o t) = EventsIn(s) \o EventsIn(t)
<1>1. PICK f : Kept(s, f) /\ \A k \in 0 .. Len(s) : f[k] \in Seq(S)
  BY EventsExist
<1>2. PICK g : Kept(t, g) /\ \A k \in 0 .. Len(t) : g[k] \in Seq(S)
  BY EventsExist
<1> DEFINE u == s \o t
           n == Len(s)
           h == [k \in 0 .. Len(u) |-> IF k <= n THEN f[k] ELSE f[n] \o g[k - n]]
<1>3. /\ u \in Seq(S) /\ n \in Nat /\ Len(t) \in Nat /\ Len(u) = n + Len(t)
      /\ \A k \in 1 .. Len(u) : u[k] = IF k <= n THEN s[k] ELSE t[k - n]
  BY ConcatProperties
<1>4. \A k \in 1 .. Len(t) : t[k] \in S
  OBVIOUS
<1> HIDE DEF u
<1>5. g[0] = <<>> /\ f[n] \in Seq(S)
  BY <1>1, <1>2, <1>3 DEF Kept
<1>a. ASSUME NEW k \in 0 .. Len(u)
      PROVE  (k <= n => h[k] = f[k]) /\ (~(k <= n) => h[k] = f[n] \o g[k - n])
  OBVIOUS
<1>6. ASSUME NEW k \in 0 .. Len(u)
      PROVE  h[k] = IF k = 0 THEN <<>> ELSE h[k - 1] \o EventsOf(u[k])
  <2> HIDE DEF h
  <2>1. CASE k <= n
    <3>1. h[k] = f[k] /\ k \in 0 .. n
      <4>1. k \in 0 .. n
        BY <1>3, <2>1
      <4>2. h[k] = f[k]
        BY <1>a, <2>1
      <4> QED BY <4>1, <4>2
    <3>2. k # 0 => h[k - 1] = f[k - 1] /\ u[k] = s[k]
      <4>1. k # 0 => k - 1 \in 0 .. Len(u) /\ k - 1 <= n /\ k \in 1 .. Len(u)
        BY <1>3, <2>1
      <4> QED BY <1>3, <1>a, <2>1, <4>1
    <3>3. f[k] = IF k = 0 THEN <<>> ELSE f[k - 1] \o EventsOf(s[k])
      BY <1>1, <3>1 DEF Kept
    <3> QED BY <3>1, <3>2, <3>3
  <2>2. CASE ~(k <= n)
    <3>0. PICK j : j = k - n
      OBVIOUS
    <3>1. /\ j \in 1 .. Len(t) /\ j - 1 \in 0 .. Len(t) /\ j \in 0 .. Len(t) /\ j # 0
          /\ k # 0 /\ k \in 1 .. Len(u) /\ k - 1 \in 0 .. Len(u)
      BY <1>3, <2>2, <3>0
    <3>2. u[k] = t[j] /\ h[k] = f[n] \o g[j]
      BY <1>3, <1>a, <2>2, <3>0, <3>1
    <3>3. h[k - 1] = f[n] \o g[j - 1]
      <4>1. CASE k - 1 <= n
        <5>1. k - 1 = n /\ j - 1 = 0
          BY <1>3, <2>2, <3>0, <4>1
        <5>2. h[k - 1] = f[k - 1]
          BY <1>a, <3>1, <4>1
        <5> QED BY <1>5, <5>1, <5>2, ConcatEmptySeq
      <4>2. CASE ~(k - 1 <= n)
        <5>1. (k - 1) - n = j - 1
          BY <1>3, <3>0
        <5>2. h[k - 1] = f[n] \o g[(k - 1) - n]
          BY <1>a, <3>1, <4>2
        <5> QED BY <5>1, <5>2
      <4> QED BY <4>1, <4>2
    <3>4. g[j] = g[j - 1] \o EventsOf(t[j])
      BY <1>2, <3>1 DEF Kept
    <3>5. EventsOf(t[j]) \in Seq(S) /\ g[j - 1] \in Seq(S)
      BY <1>2, <1>4, <3>1, EventsOfType
    <3>6. (f[n] \o g[j - 1]) \o EventsOf(t[j]) = f[n] \o (g[j - 1] \o EventsOf(t[j]))
      <4>1. PICK a, b, c : a = f[n] /\ b = g[j - 1] /\ c = EventsOf(t[j])
        OBVIOUS
      <4>2. a \in Seq(S) /\ b \in Seq(S) /\ c \in Seq(S)
        BY <1>5, <3>5, <4>1
      <4>3. (a \o b) \o c = a \o (b \o c)
        BY <4>2, SMTT(60)
      <4> QED BY <4>1, <4>3
    <3> QED BY <3>1, <3>2, <3>3, <3>4, <3>6
  <2> QED BY <2>1, <2>2
<1>7. Kept(u, h)
  <2> DEFINE e == [k \in 0 .. Len(u) |-> IF k = 0 THEN <<>> ELSE h[k - 1] \o EventsOf(u[k])]
  <2>1. \A k \in 0 .. Len(u) : h[k] = e[k]
    BY <1>6
  <2>2. h = [k \in 0 .. Len(u) |-> h[k]] /\ e = [k \in 0 .. Len(u) |-> e[k]]
    OBVIOUS
  <2> HIDE DEF h, e
  <2>3. h = e
    BY <2>1, <2>2
  <2> QED BY <2>3 DEF Kept, e
<1>8. EventsIn(u) = h[Len(u)]
  <2> HIDE DEF h
  <2> QED BY <1>3, <1>7, EventsAreUnique
<1>9. EventsIn(s) = f[n] /\ EventsIn(t) = g[Len(t)]
  BY <1>1, <1>2, EventsAreUnique
<1>10. h[Len(u)] = f[n] \o g[Len(t)]
  <2>1. CASE Len(t) = 0
    <3>1. h[Len(u)] = f[n] /\ g[Len(t)] = <<>>
      BY <1>3, <1>5, <2>1
    <3> HIDE DEF h
    <3> QED BY <1>5, <3>1, ConcatEmptySeq
  <2>2. CASE Len(t) # 0
    <3>1. ~(Len(u) <= n) /\ Len(u) - n = Len(t) /\ Len(u) \in 0 .. Len(u)
      BY <1>3, <2>2
    <3> QED BY <3>1
  <2> QED BY <2>1, <2>2
<1> QED BY <1>8, <1>9, <1>10 DEF u

\* The next message, and the rest.
LEMMA EventsShortened ==
  ASSUME NEW S, NEW s \in Seq(S), s # <<>>
  PROVE  EventsIn(s) = EventsOf(Head(s)) \o EventsIn(Tail(s))
<1>1. Head(s) \in S /\ Tail(s) \in Seq(S) /\ s = <<Head(s)>> \o Tail(s)
  <2>1. Head(s) \in S /\ Tail(s) \in Seq(S)
    OBVIOUS
  <2>2. Len(s) \in Nat \ {0} /\ s[1] = Head(s) /\ 1 \in 1 .. Len(s) /\ Len(s) \in 1 .. Len(s)
    BY EmptySeq, LenProperties
  <2>3. SubSeq(s, 1, Len(s)) = <<s[1]>> \o SubSeq(s, 2, Len(s))
    BY <2>2, SubSeqRecursiveFirst
  <2> QED BY <2>1, <2>2, <2>3, SubSeqFull, TailIsSubSeq
<1> DEFINE h == <<Head(s)>>
<1>2. h \in Seq(S)
  BY <1>1
<1>3. EventsIn(h) = EventsOf(Head(s))
  BY OneEvent
<1>4. s = h \o Tail(s)
  BY <1>1
<1> HIDE DEF h
<1>5. EventsIn(h \o Tail(s)) = EventsIn(h) \o EventsIn(Tail(s))
  BY <1>1, <1>2, EventsJoined
<1> QED BY <1>3, <1>4, <1>5

\* What is before and behind the end of a.
LEMMA FrontAndBack ==
  ASSUME NEW S, NEW a \in Seq(S), NEW b \in Seq(S)
  PROVE  /\ SubSeq(a \o b, Len(a) + 1, Len(a \o b)) = b
         /\ SubSeq(a \o b, 1, Len(a \o b) - Len(b)) = a
<1>1. /\ a \o b \in Seq(S) /\ Len(a \o b) = Len(a) + Len(b)
      /\ Len(a) \in Nat /\ Len(b) \in Nat
  BY ConcatProperties
<1>2. SubSeq(a \o b, Len(a) + 1, Len(a \o b)) = b
  <2>1. CASE b = <<>>
    <3>1. Len(a \o b) = Len(a) /\ Len(a \o b) < Len(a) + 1
      BY <1>1, <2>1
    <3> QED BY <1>1, <2>1, <3>1, SubSeqEmpty
  <2>2. CASE b # <<>>
    <3>1. Len(b) > 0
      BY <1>1, <2>2, EmptySeq
    <3>2. /\ Len(a) + 1 \in Len(a) + 1 .. Len(a) + Len(b)
          /\ Len(a) + Len(b) \in Len(a) + 1 .. Len(a) + Len(b)
          /\ (Len(a) + 1) - Len(a) = 1 /\ (Len(a) + Len(b)) - Len(a) = Len(b)
      BY <1>1, <3>1
    <3>3. SubSeq(a \o b, Len(a) + 1, Len(a) + Len(b)) =
            SubSeq(b, (Len(a) + 1) - Len(a), (Len(a) + Len(b)) - Len(a))
      BY <3>2, SubSeqOfConcat2
    <3> QED BY <1>1, <3>2, <3>3, SubSeqFull
  <2> QED BY <2>1, <2>2
<1>3. SubSeq(a \o b, 1, Len(a \o b) - Len(b)) = a
  <2>1. Len(a \o b) - Len(b) = Len(a)
    BY <1>1
  <2>2. CASE a = <<>>
    <3>1. Len(a) = 0 /\ 0 < 1
      BY <2>2
    <3> QED BY <2>1, <2>2, <3>1, SubSeqEmpty
  <2>3. CASE a # <<>>
    <3>1. 1 \in 1 .. Len(a) /\ Len(a) \in 1 .. Len(a)
      BY <1>1, <2>3, EmptySeq
    <3>2. SubSeq(a \o b, 1, Len(a)) = SubSeq(a, 1, Len(a))
      BY <3>1, SubSeqOfConcat1
    <3> QED BY <2>1, <3>2, SubSeqFull
  <2> QED BY <2>2, <2>3
<1> QED BY <1>2, <1>3

LEMMA TailIsRest ==
  ASSUME NEW S, NEW m \in S, NEW r \in Seq(S)
  PROVE  Tail(<<m>> \o r) = r
<1>0. PICK h : h = <<m>>
  OBVIOUS
<1>1. h \in Seq(S) /\ Len(h) = 1
  BY <1>0
<1>2. h \o r \in Seq(S) /\ Len(h \o r) = Len(h) + Len(r) /\ Len(r) \in Nat
  <2>1. h \o r \in Seq(S) /\ Len(h \o r) = Len(h) + Len(r)
    BY <1>1, ConcatProperties
  <2>2. Len(r) \in Nat
    BY LenProperties
  <2> QED BY <2>1, <2>2
<1>3. h \o r # <<>>
  <2>1. Len(h \o r) # 0 /\ Len(<<>>) = 0
    BY <1>1, <1>2
  <2> QED BY <2>1
<1>4. Tail(h \o r) = SubSeq(h \o r, 2, Len(h \o r))
  BY <1>2, <1>3, TailIsSubSeq
<1>5. SubSeq(h \o r, Len(h) + 1, Len(h \o r)) = r
  BY <1>1, FrontAndBack
<1> QED BY <1>0, <1>1, <1>4, <1>5

-----------------------------------------------------------------------------
(* The order of events *)

EventsInv == IsSeq(proxy.queue) /\ EventsInOrder

LEMMA TupleIsSeq ==
  /\ \A a : IsSeq(<<a>>)
  /\ \A a, b : IsSeq(<<a, b>>)
  /\ \A a, b, c : IsSeq(<<a, b, c>>)
  /\ \A a, b, c, d : IsSeq(<<a, b, c, d>>)
<1>1. /\ \A a : <<a>> \in Seq({a})
      /\ \A a, b : <<a, b>> \in Seq({a, b})
      /\ \A a, b, c : <<a, b, c>> \in Seq({a, b, c})
      /\ \A a, b, c, d : <<a, b, c, d>> \in Seq({a, b, c, d})
  OBVIOUS
<1>2. \A S : \A s \in Seq(S) : IsSeq(s)
  BY SeqIsSeq
<1> QED BY <1>1, <1>2

Quiet == UNCHANGED <<program, toClient, owed>> /\ proxy'.queue = proxy.queue
Speaks == \E msgs : IsSeq(msgs) /\ Say(msgs)

LEMMA ServerSpeaks ==
  ASSUME ServerStep
  PROVE  UNCHANGED <<toClient, owed>> \/ Speaks
<1>1. ASSUME NEW a, Say(<<a>>) PROVE Speaks
  BY <1>1, TupleIsSeq DEF Speaks
<1>2. ASSUME NEW a, NEW b, Say(<<a, b>>) PROVE Speaks
  BY <1>2, TupleIsSeq DEF Speaks
<1>3. ASSUME NEW a, NEW b, NEW c, Say(<<a, b, c>>) PROVE Speaks
  BY <1>3, TupleIsSeq DEF Speaks
<1>4. ASSUME NEW a, NEW b, NEW c, NEW d, Say(<<a, b, c, d>>) PROVE Speaks
  BY <1>4, TupleIsSeq DEF Speaks
<1>5. CASE HandleMessage
  <2>1. PICK m : Login(m) \/ Join(m) \/ Ignore(m)
    BY <1>5 DEF HandleMessage
  <2>2. CASE Login(m)
    BY <1>1, <2>2 DEF Login
  <2>3. CASE Join(m)
    <3>1. Reconnect => Speaks
      BY <1>4 DEF Reconnect
    <3>2. QuickMatch => UNCHANGED <<toClient, owed>> \/ Speaks
      BY <1>3 DEF QuickMatch
    <3>3. EnterRoom(m.args[1][1]) => Speaks
      BY <1>2, <1>3, <1>4 DEF EnterRoom
    <3> QED BY <2>3, <3>1, <3>2, <3>3 DEF Join
  <2>4. CASE Ignore(m)
    BY <2>4 DEF Ignore
  <2> QED BY <2>1, <2>2, <2>3, <2>4
<1>6. CASE SearchTimesOut
  BY <1>1, <1>6 DEF SearchTimesOut
<1>7. CASE OpponentComes
  BY <1>2, <1>3, <1>7 DEF OpponentComes
<1>8. CASE PlayOn
  BY <1>1, <1>8 DEF PlayOn
<1>9. CASE KingFalls
  BY <1>2, <1>9 DEF KingFalls
<1>10. CASE OpponentDrops
  BY <1>1, <1>10 DEF OpponentDrops
<1>11. CASE OpponentReturns
  BY <1>1, <1>11 DEF OpponentReturns
<1>12. CASE OpponentForfeits
  BY <1>2, <1>12 DEF OpponentForfeits
<1>13. CASE SeatForfeited
  BY <1>13 DEF SeatForfeited
<1> QED BY <1>5, <1>6, <1>7, <1>8, <1>9, <1>10, <1>11, <1>12, <1>13 DEF ServerStep

LEMMA UnseenIsSeq ==
  ASSUME EventsInv
  PROVE  IsSeq(Unseen)
BY Nothing DEF EventsInv, Unseen

\* What the server says goes behind what is under way, and so do its events.
LEMMA EventsSaid ==
  ASSUME EventsInv, IsSeq(toClient), UNCHANGED <<program, proxy>>, Speaks
  PROVE  EventsInv'
<1>1. PICK msgs : IsSeq(msgs) /\ toClient' = toClient \o msgs /\ owed' = owed \o EventsIn(msgs)
  BY DEF Speaks, Say
<1>2. PICK U : U = Unseen
  OBVIOUS
<1>3. IsSeq(U) /\ owed = U \o EventsIn(toClient) /\ Unseen' = U
  BY <1>2, UnseenIsSeq DEF EventsInv, EventsInOrder, Unseen
<1>s. PICK S : S = Range(U) \cup Range(toClient) \cup Range(msgs)
  OBVIOUS
<1>4. U \in Seq(S) /\ toClient \in Seq(S) /\ msgs \in Seq(S)
  BY <1>1, <1>3, <1>s, SeqMonotonic DEF IsSeq
<1>5. PICK a, b : a = EventsIn(toClient) /\ b = EventsIn(msgs)
  OBVIOUS
<1>6. U \in Seq(S) /\ a \in Seq(S) /\ b \in Seq(S)
  BY <1>4, <1>5, EventsType
<1>7. EventsIn(toClient') = a \o b
  BY <1>1, <1>4, <1>5, EventsJoined
<1>8. (U \o a) \o b = U \o (a \o b)
  BY <1>6, SMTT(60)
<1>9. EventsInOrder'
  BY <1>1, <1>3, <1>5, <1>7, <1>8 DEF EventsInOrder
<1> QED BY <1>9 DEF EventsInv

LEMMA EventsQuiet ==
  ASSUME EventsInv, Quiet
  PROVE  EventsInv'
<1>1. Unseen' = Unseen /\ toClient' = toClient /\ owed' = owed /\ proxy'.queue = proxy.queue
  BY DEF Quiet, Unseen
<1> QED BY <1>1 DEF EventsInv, EventsInOrder

\* When nothing is under way any more, the events are those not shown yet.
LEMMA EventsCutOff ==
  ASSUME toClient' = <<>>, owed' = Unseen', IsSeq(proxy'.queue), IsSeq(Unseen')
  PROVE  EventsInv'
<1>1. PICK U : U = Unseen'
  OBVIOUS
<1>2. U \in Seq(Range(U))
  BY <1>1 DEF IsSeq
<1>3. U \o <<>> = U
  BY <1>2, ConcatEmptySeq
<1>4. EventsInOrder'
  BY <1>1, <1>3, NoEvents DEF EventsInOrder
<1> QED BY <1>4 DEF EventsInv

LEMMA HandledQueue ==
  ASSUME DOMAIN proxy = DOMAIN NewProxy, NEW m
  PROVE  Handled(m).queue = IF IsEvent(m) THEN Append(proxy.queue, m) ELSE proxy.queue
<1>1. DOMAIN proxy = {"resolved", "failed", "color", "spectator", "searchFailed", "warning", "queue"}
  BY DEF NewProxy
<1>2. CASE m.cmd \in Over
  <2>1. Handled(m) = [Queued(m) EXCEPT !.warning = FALSE]
    BY <1>2 DEF Handled, Over
  <2>2. Queued(m).queue = Append(proxy.queue, m) /\ DOMAIN Queued(m) = DOMAIN proxy
    BY <1>1 DEF Queued
  <2>3. Handled(m).queue = Append(proxy.queue, m)
    BY <1>1, <2>1, <2>2
  <2> QED BY <1>2, <2>3 DEF Over, IsEvent, EventCmds
<1>3. CASE m.cmd \in {"MOVE", "CAPTURE", "GAME_START", "GAME_END"}
  <2>1. Handled(m) = Queued(m)
    BY <1>3 DEF Handled
  <2>2. Queued(m).queue = Append(proxy.queue, m)
    BY <1>1 DEF Queued
  <2> QED BY <1>3, <2>1, <2>2 DEF IsEvent, EventCmds
<1>4. CASE m.cmd \notin EventCmds
  <2>1. \/ Handled(m) = proxy
        \/ Handled(m) = [proxy EXCEPT !.resolved = TRUE]
        \/ Handled(m) = [proxy EXCEPT !.resolved = TRUE, !.failed = TRUE]
        \/ Handled(m) = [proxy EXCEPT !.color = m.args[1][1]]
        \/ Handled(m) = [proxy EXCEPT !.spectator = TRUE]
        \/ Handled(m) = [proxy EXCEPT !.searchFailed = TRUE]
        \/ Handled(m) = [proxy EXCEPT !.warning = TRUE]
    BY <1>4 DEF Handled, EventCmds
  <2>2. Handled(m).queue = proxy.queue
    BY <1>1, <2>1
  <2> QED BY <1>4, <2>2 DEF IsEvent
<1> QED BY <1>2, <1>3, <1>4 DEF EventCmds, Over

\* The next message is queued if it is an event, behind the events that are queued.
LEMMA EventsHeard ==
  ASSUME EventsInv, LinkInv, DesktopInv, WireFaithful, Receive,
         program = "desktop", program' = "desktop"
  PROVE  EventsInv'
<1>1. /\ toClient # <<>> /\ toClient' = Tail(toClient) /\ UNCHANGED owed
      /\ \E m \in {Decode(text) : text \in {Encode(Head(toClient))}} : proxy' = Handled(m)
  BY DEF Receive
<1>2. PICK m : m = Head(toClient)
  OBVIOUS
<1>3. IsSeq(toClient) /\ Decode(Encode(m)) = m
  BY <1>1, <1>2, Heard
<1>4. proxy' = Handled(m)
  BY <1>1, <1>2, <1>3
<1>5. PICK q : q = proxy.queue
  OBVIOUS
<1>6. proxy'.queue = IF IsEvent(m) THEN Append(q, m) ELSE q
  BY <1>4, <1>5, HandledQueue DEF DesktopInv
<1>7. IsSeq(q) /\ owed = q \o EventsIn(toClient) /\ Unseen' = proxy'.queue
  BY <1>5 DEF EventsInv, EventsInOrder, Unseen
<1>s. PICK S : S = Range(q) \cup Range(toClient)
  OBVIOUS
<1>8. q \in Seq(S) /\ toClient \in Seq(S)
  BY <1>3, <1>7, <1>s, SeqMonotonic DEF IsSeq
<1>9. m \in S /\ Tail(toClient) \in Seq(S)
  BY <1>1, <1>2, <1>8, HeadTailProperties
<1>10. PICK a, b : a = EventsOf(m) /\ b = EventsIn(Tail(toClient))
  OBVIOUS
<1>11. q \in Seq(S) /\ a \in Seq(S) /\ b \in Seq(S)
  BY <1>8, <1>9, <1>10, EventsOfType, EventsType
<1>12. EventsIn(toClient) = a \o b
  BY <1>1, <1>2, <1>8, <1>10, EventsShortened
<1>13. proxy'.queue = q \o a
  <2>1. CASE IsEvent(m)
    <3>1. a = <<m>> /\ proxy'.queue = Append(q, m)
      BY <1>6, <1>10, <2>1 DEF EventsOf
    <3> QED BY <1>8, <1>9, <3>1, AppendIsConcat
  <2>2. CASE ~IsEvent(m)
    <3>1. a = <<>> /\ proxy'.queue = q
      BY <1>6, <1>10, <2>2 DEF EventsOf
    <3> QED BY <1>8, <3>1, ConcatEmptySeq
  <2> QED BY <2>1, <2>2
<1>14. (q \o a) \o b = q \o (a \o b)
  BY <1>11, SMTT(60)
<1>15. EventsInOrder'
  BY <1>1, <1>7, <1>10, <1>12, <1>13, <1>14 DEF EventsInOrder
<1>16. IsSeq(proxy'.queue)
  <2>1. q \o a \in Seq(S)
    BY <1>11, ConcatProperties
  <2> QED BY <1>13, <2>1, SeqIsSeq
<1> QED BY <1>15, <1>16 DEF EventsInv

\* A frame shows what is queued; a lost connection takes what is under way.
LEMMA EventsShownOrLost ==
  ASSUME EventsInv, LinkInv, DesktopInv, program = "desktop", program' = "desktop", Frame \/ Drop
  PROVE  EventsInv'
<1>1. PICK q, e : q = proxy.queue /\ e = EventsIn(toClient)
  OBVIOUS
<1>2. IsSeq(q) /\ IsSeq(toClient) /\ owed = q \o e /\ Unseen' = proxy'.queue
  BY <1>1 DEF EventsInv, EventsInOrder, Unseen, LinkInv, MessagesOK, Said
<1>s. PICK S : S = Range(q) \cup Range(toClient)
  OBVIOUS
<1>3. q \in Seq(S) /\ toClient \in Seq(S)
  BY <1>2, <1>s, SeqMonotonic DEF IsSeq
<1>4. e \in Seq(S)
  BY <1>1, <1>3, EventsType
<1>5. /\ SubSeq(q \o e, Len(q) + 1, Len(q \o e)) = e
      /\ SubSeq(q \o e, 1, Len(q \o e) - Len(e)) = q
  BY <1>3, <1>4, FrontAndBack
<1>6. CASE Frame
  <2>1. proxy' = [proxy EXCEPT !.queue = <<>>] /\ owed' = e /\ UNCHANGED toClient
    BY <1>1, <1>2, <1>5, <1>6 DEF Frame
  <2>2. DOMAIN NewProxy = {"resolved", "failed", "color", "spectator", "searchFailed", "warning", "queue"}
    BY DEF NewProxy
  <2>3. proxy'.queue = <<>>
    BY <2>1, <2>2 DEF DesktopInv
  <2>4. <<>> \o e = e
    BY <1>4, ConcatEmptySeq
  <2>5. EventsInOrder'
    BY <1>1, <1>2, <2>1, <2>3, <2>4 DEF EventsInOrder
  <2> QED BY <2>3, <2>5, Nothing DEF EventsInv
<1>7. CASE Drop
  <2>1. toClient' = <<>> /\ owed' = q /\ UNCHANGED proxy
    BY <1>1, <1>2, <1>5, <1>7 DEF Drop, Disconnected, Lost, desktopVars
  <2> QED BY <1>1, <1>2, <2>1, EventsCutOff
<1> QED BY <1>6, <1>7

\* The page shows an event as soon as it has read it.
LEMMA EventsOnPage ==
  ASSUME EventsInv, LinkInv, WireFaithful, OnMessage, program # "desktop", UNCHANGED <<program, proxy>>
  PROVE  EventsInv'
<1>1. PICK h : h = Head(toClient)
  OBVIOUS
<1>2. toClient # <<>>
  BY DEF OnMessage
<1>3. IsSaid(h) /\ IsSeq(toClient) /\ JsDecode(Encode(h)) = ForPage(h)
  BY <1>1, <1>2, Heard
<1>4. PICK m : m = ForPage(h)
  OBVIOUS
<1>5. /\ OnLoginOk(m) \/ OnRefusal(m) \/ OnRole(m) \/ OnGameMessage(m)
      /\ owed' = IF m.cmd \in {"LOGIN_FAIL", "NO_OPPONENT"} THEN <<>>
                 ELSE IF IsEvent(m) THEN Tail(owed) ELSE owed
  BY <1>1, <1>3, <1>4 DEF OnMessage
<1>6. m.cmd = h.cmd
  BY <1>3, <1>4, PageReads
<1>7. Unseen = <<>> /\ Unseen' = <<>> /\ IsSeq(proxy'.queue)
  BY DEF EventsInv, Unseen
<1>8. CASE m.cmd \in {"LOGIN_FAIL", "NO_OPPONENT"}
  <2>1. toClient' = <<>> /\ owed' = <<>>
    BY <1>5, <1>8 DEF OnLoginOk, OnRefusal, OnRole, OnGameMessage, CloseSocket, Disconnected
  <2> QED BY <1>7, <2>1, EventsCutOff, Nothing
<1>9. CASE m.cmd \notin {"LOGIN_FAIL", "NO_OPPONENT"}
  <2>1. toClient' = Tail(toClient)
    BY <1>5, <1>9 DEF OnLoginOk, OnRefusal, OnRole, OnGameMessage
  <2> DEFINE S == Range(toClient)
  <2>2. toClient \in Seq(S)
    BY <1>3 DEF IsSeq
  <2> HIDE DEF S
  <2>3. Tail(toClient) \in Seq(S) /\ h \in S
    BY <1>1, <1>2, <2>2, HeadTailProperties
  <2>4. PICK e, r : e = EventsIn(toClient) /\ r = EventsIn(Tail(toClient))
    OBVIOUS
  <2>5. e \in Seq(S) /\ r \in Seq(S) /\ e = EventsOf(h) \o r
    BY <1>1, <1>2, <2>2, <2>3, <2>4, EventsType, EventsShortened
  <2>6. <<>> \o e = e /\ <<>> \o r = r
    BY <2>5, ConcatEmptySeq
  <2>7. owed = e
    BY <1>7, <2>4, <2>6 DEF EventsInv, EventsInOrder
  <2>8. owed' = r
    <3>1. CASE IsEvent(h)
      <4>1. e = <<h>> \o r /\ owed' = Tail(e)
        BY <1>5, <1>6, <1>9, <2>5, <2>7, <3>1 DEF IsEvent, EventsOf
      <4>2. Tail(<<h>> \o r) = r
        BY <2>3, <2>5, TailIsRest
      <4> QED BY <4>1, <4>2
    <3>2. CASE ~IsEvent(h)
      BY <1>5, <1>6, <1>9, <2>5, <2>6, <2>7, <3>2 DEF IsEvent, EventsOf
    <3> QED BY <3>1, <3>2
  <2>9. EventsInOrder'
    BY <1>7, <2>1, <2>4, <2>6, <2>8 DEF EventsInOrder
  <2> QED BY <1>7, <2>9 DEF EventsInv
<1> QED BY <1>8, <1>9

LEMMA EventsDesktop ==
  ASSUME EventsInv, LinkInv, DesktopInv, WireFaithful, DesktopNext,
         program = "desktop", program' = "desktop"
  PROVE  EventsInv'
<1>1. IsSeq(proxy.queue) /\ Unseen' = proxy'.queue
  BY DEF EventsInv, Unseen
<1>2. Exit => EventsInv'
  BY <1>1, EventsCutOff DEF Exit, Disconnected, windowVars
<1>3. ASSUME NEW name, NEW password, SignIn(name, password) PROVE EventsInv'
  <2>1. toClient' = <<>> /\ owed' = <<>> /\ proxy'.queue = <<>>
    BY <1>3 DEF SignIn, Disconnected, NewProxy
  <2> QED BY <1>1, <2>1, EventsCutOff, Nothing
<1>4. UNCHANGED <<toClient, owed, proxy>> => EventsInv'
  BY EventsQuiet DEF Quiet
<1>5. CASE ShowLogin
  <2>1. Exit \/ \E name, password : SignIn(name, password)
    BY <1>5 DEF ShowLogin, PressSignIn, PromptOnConsole, CancelLogin
  <2> QED BY <1>2, <1>3, <2>1
<1>6. CASE ShowRoomChoice
  <2>1. Exit \/ UNCHANGED <<toClient, owed, proxy>>
    BY <1>6 DEF ShowRoomChoice, Choose, LogOut, CancelChoice, linkVars, windowVars
  <2> QED BY <1>2, <1>4, <2>1
<1>7. CASE CancelPlay \/ CloseBoard
  BY <1>2, <1>7 DEF CancelPlay, CloseBoard
<1>8. CASE Back \/ Click \/ PollLogin \/ Continue \/ SendJoin \/ PollJoin \/ JoinTimesOut \/ Opens
  <2>1. UNCHANGED <<toClient, owed, proxy>>
    BY <1>8 DEF Back, Click, PollLogin, Continue, SendJoin, PollJoin, JoinTimesOut, Opens,
                linkVars, windowVars, desktopVars, clientSide
  <2> QED BY <1>4, <2>1
<1>9. CASE Play
  <2>1. proxy' = [proxy EXCEPT !.color = None, !.spectator = FALSE, !.searchFailed = FALSE]
    BY <1>9 DEF Play
  <2>2. DOMAIN NewProxy = {"resolved", "failed", "color", "spectator", "searchFailed", "warning", "queue"}
    BY DEF NewProxy
  <2>3. proxy'.queue = proxy.queue
    BY <2>1, <2>2 DEF DesktopInv
  <2>4. Quiet
    BY <1>9, <2>3 DEF Play, Quiet, linkVars
  <2> QED BY <2>4, EventsQuiet
<1> QED BY <1>5, <1>6, <1>7, <1>8, <1>9, EventsHeard, EventsShownOrLost DEF DesktopNext, UserStep

LEMMA EventsWeb ==
  ASSUME EventsInv, LinkInv, WireFaithful, WebNext, program = "web", UNCHANGED <<program, proxy>>
  PROVE  EventsInv'
<1>1. IsSeq(proxy'.queue) /\ Unseen' = <<>>
  BY DEF EventsInv, Unseen
<1>2. toClient' = <<>> /\ owed' = <<>> => EventsInv'
  BY <1>1, EventsCutOff, Nothing
<1>3. ASSUME NEW mode, NEW password, StartLogin(mode, password) PROVE EventsInv'
  BY <1>2, <1>3 DEF StartLogin, CloseSocket, Disconnected
<1>4. CASE Leave \/ SocketFails
  BY <1>2, <1>4 DEF Leave, SocketFails, CloseSocket, Disconnected
<1>5. CASE Pointer \/ SocketOpens \/ TrySend \/ StaleClose
  <2>1. UNCHANGED <<toClient, owed>>
    BY <1>5 DEF Pointer, SocketOpens, TrySend, StaleClose, linkVars
  <2> QED BY <2>1, EventsQuiet DEF Quiet
<1>6. CASE OnMessage
  BY <1>6, EventsOnPage
<1> QED BY <1>3, <1>4, <1>5, <1>6 DEF WebNext

LEMMA EventsNext ==
  ASSUME ClientsInv, EventsInv, WireFaithful, [Next]_vars
  PROVE  EventsInv'
<1>1. LinkInv /\ (program = "desktop" => DesktopInv) /\ IsSeq(toClient)
  BY DEF ClientsInv, LinkInv, MessagesOK, Said
<1>2. CASE Server
  <2>1. ServerStep /\ UNCHANGED <<program, proxy>>
    BY <1>2 DEF Server, desktopVars
  <2>2. UNCHANGED <<toClient, owed>> => EventsInv'
    BY <2>1, EventsQuiet DEF Quiet
  <2> QED BY <1>1, <2>1, <2>2, ServerSpeaks, EventsSaid
<1>3. CASE Desktop
  <2>1. program = "desktop" /\ program' = "desktop" /\ DesktopNext
    BY <1>3 DEF Desktop
  <2> QED BY <1>1, <2>1, EventsDesktop
<1>4. CASE Web
  <2>1. program = "web" /\ UNCHANGED <<program, proxy>> /\ WebNext
    BY <1>4 DEF Web, desktopVars
  <2> QED BY <1>1, <2>1, EventsWeb
<1>5. CASE UNCHANGED vars
  <2>1. Quiet
    BY <1>5 DEF vars, linkVars, desktopVars, Quiet
  <2> QED BY <2>1, EventsQuiet
<1> QED BY <1>2, <1>3, <1>4, <1>5 DEF Next

LEMMA EventsInit ==
  ASSUME Init
  PROVE  EventsInv
<1>1. toClient = <<>> /\ owed = <<>> /\ proxy.queue = <<>>
  BY DEF Init, LinkInit, DesktopInit, NewProxy
<1>2. <<>> \o <<>> = <<>>
  OBVIOUS
<1>3. Unseen = <<>>
  BY <1>1 DEF Unseen
<1>4. EventsInOrder
  BY <1>1, <1>2, <1>3, NoEvents DEF EventsInOrder
<1> QED BY <1>1, <1>4, Nothing DEF EventsInv

\* No event is lost, shown twice or shown before an earlier one: what the server has sent
\* and the user has not seen is queued or under way, in its order, whether the events come
\* before the session begins, between two frames or while a JOIN is waited for.
THEOREM EventsInOrderHolds == Spec /\ []WireFaithful => []EventsInOrder
<1>1. Init => EventsInv
  BY EventsInit
<1>2. ClientsInv /\ EventsInv /\ WireFaithful /\ [Next]_vars => EventsInv'
  BY EventsNext
<1>3. EventsInv => EventsInOrder
  BY DEF EventsInv
<1> QED BY <1>1, <1>2, <1>3, ClientsInvariant, PTL DEF Spec

================================================================================
