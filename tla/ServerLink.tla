------------------------------ MODULE ServerLink ------------------------------
(***************************************************************************)
(* One client's connection to a game server: the messages under way in     *)
(* both directions and what GameServer.cpp does with this client.  The     *)
(* other players of its room act as they please.  GameServer.tla is the    *)
(* model of the server itself; here it answers with its messages, which    *)
(* travel as the texts of WireProtocol.                                    *)
(***************************************************************************)
EXTENDS WireProtocol

CONSTANTS
  Registered,  \* passwords the user's name may be registered with, or None
  MaxEvents,   \* bound on what happens of itself in the room
  MaxBacklog,  \* and on the messages under way when something does
  MaxDrops     \* bound on lost connections

None == "None"
Opponent(color) == IF color = "White" THEN "Black" ELSE "White"

VARIABLES
  link,      \* the client's socket: "down", "connecting" or "up"
  toServer,  \* messages on the wire, in order; each travels as Encode(m)
  toClient,
  srv,       \* the server's knowledge of this connection
  held,      \* the colour of the seat that is kept for the user, forfeit pending, or None
  account,   \* the password of the user's account, None before it is registered
  creds,     \* what the user typed to sign in
  owed,      \* history: the events sent to this client, not lost and not yet shown to its user
  late,      \* history: the connection was lost, or a JOIN given up, since it was asked
  drops, events

linkVars == <<link, toServer, toClient, srv, held, account, creds, owed, late, drops, events>>
clientSide == <<link, creds, late, drops>>

EventCmds == {"MOVE", "CAPTURE", "GAME_START", "GAME_END", "FORFEIT", "RECONNECTED"}
IsEvent(m) == m.cmd \in EventCmds
EventsOf(m) == IF IsEvent(m) THEN <<m>> ELSE <<>>
\* SelectSeq(s, IsEvent), in a form that can be proved about.
EventsIn(s) ==
  LET kept[k \in 0 .. Len(s)] == IF k = 0 THEN <<>> ELSE kept[k - 1] \o EventsOf(s[k])
  IN  kept[Len(s)]

Stranger == [auth |-> FALSE, place |-> "none", color |-> None, game |-> "waiting", warned |-> FALSE]
Routed == srv.place \in {"seated", "watching"}
InGame == Routed /\ srv.game = "running" /\ Len(toClient) < MaxBacklog

LinkInit ==
  /\ link = "down" /\ toServer = <<>> /\ toClient = <<>>
  /\ srv = Stranger /\ held = None /\ account \in Registered
  /\ creds = [username |-> <<>>, password |-> <<>>]
  /\ owed = <<>> /\ late = FALSE /\ drops = 0 /\ events = 0

-----------------------------------------------------------------------------
(* The server                                                                *)

Say(msgs) ==
  /\ toClient' = toClient \o msgs
  /\ owed' = owed \o EventsIn(msgs)

Welcome(color) == Msg("WELCOME", One(<<color>>))
Room == Msg("ROOM", One(<<"den">>))
Players == Msg("PLAYERS", One(<<"ann", "bob">>))
Ratings == Msg("RATINGS", One(<<"1216", "1184">>))
Started == Msg("GAME_START", <<>>)

\* handleLogin: an unknown name is registered, a wrong password refused.
Login(m) ==
  /\ ~srv.auth /\ m.cmd = "LOGIN"
  /\ IF account \in {None, m.args[2][1]}
     THEN /\ account' = m.args[2][1]
          /\ srv' = [srv EXCEPT !.auth = TRUE]
          /\ Say(<<Msg("LOGIN_OK", One(<<"1200", IF account = None THEN "1" ELSE "0">>))>>)
     ELSE /\ Say(<<Msg("LOGIN_FAIL", One(<<"bad_password">>))>>)
          /\ UNCHANGED <<account, srv>>
  /\ UNCHANGED <<held, events>>

Sit(color, game) == srv' = [srv EXCEPT !.place = "seated", !.color = color, !.game = game]

\* tryReconnect comes first, whatever the JOIN asks for.
Reconnect ==
  /\ held # None
  /\ Sit(held, "running") /\ held' = None
  /\ Say(<<Welcome(held), Room, Players, Msg("RECONNECTED", One(<<held>>))>>)

QuickMatch ==
  \/ srv' = [srv EXCEPT !.place = "searching"] /\ UNCHANGED <<toClient, owed>>
  \/ Sit("Black", "running") /\ Say(<<Welcome("Black"), Players, Started>>)

EnterRoom(mode) ==
  \/ Sit("White", "waiting") /\ Say(<<Welcome("White"), Room>>)
  \/ /\ mode = "JoinRoom"
     /\ Sit("Black", "running") /\ Say(<<Welcome("Black"), Room, Players, Started>>)
  \/ /\ mode = "JoinRoom"
     /\ srv' = [srv EXCEPT !.place = "watching", !.game = "running"]
     /\ Say(<<Msg("SPECTATE", <<>>), Room, Players>>)

Join(m) ==
  /\ srv.auth /\ ~Routed /\ m.cmd = "JOIN"
  /\ \/ Reconnect
     \/ held = None /\ m.args[1][1] = "QuickMatch" /\ QuickMatch /\ UNCHANGED held
     \/ held = None /\ m.args[1][1] # "QuickMatch" /\ EnterRoom(m.args[1][1]) /\ UNCHANGED held
  /\ UNCHANGED <<account, events>>

\* Clicks go to the room; any other message at the wrong time is ignored.
Ignore(m) ==
  /\ ~srv.auth => m.cmd # "LOGIN"
  /\ srv.auth /\ ~Routed => m.cmd # "JOIN"
  /\ UNCHANGED <<toClient, owed, srv, held, account, events>>

HandleMessage ==
  /\ link = "up" /\ toServer # <<>>
  /\ toServer' = Tail(toServer)
  /\ \E m \in {Decode(text) : text \in {Encode(Head(toServer))}} : Login(m) \/ Join(m) \/ Ignore(m)
  /\ UNCHANGED clientSide

\* Mutant: a search that times out is dropped without a word.
SearchTimesOutSilently ==
  /\ srv.place = "searching"
  /\ srv' = [srv EXCEPT !.place = "none"]
  /\ UNCHANGED <<toServer, toClient, owed, held, account, events, clientSide>>

SearchTimesOut ==
  /\ srv.place = "searching"
  /\ srv' = [srv EXCEPT !.place = "none"]
  /\ Say(<<Msg("NO_OPPONENT", <<>>)>>)
  /\ UNCHANGED <<toServer, held, account, events, clientSide>>

\* The opponent is matched with the searcher, or enters the room.
OpponentComes ==
  /\ Len(toClient) < MaxBacklog
  /\ \/ srv.place = "searching" /\ Sit("White", "running") /\ Say(<<Welcome("White"), Players, Started>>)
     \/ srv.place = "seated" /\ srv.game = "waiting" /\ Sit(srv.color, "running") /\ Say(<<Players, Started>>)
  /\ UNCHANGED <<toServer, held, account, events, clientSide>>

\* What the running game broadcasts: a snapshot every tick, moves and captures.
PlayOn ==
  /\ InGame /\ events < MaxEvents
  /\ events' = events + 1
  /\ \/ Say(<<Msg("STATE", << <<"7", "White", "Rook", "1.5", "0.0", "1", "0", "0">> >>)>>)
     \/ Say(<<Msg("MOVE", One(<<"White", "Rook", "0", "0", "0", "2", "1", ToString(events), "Rxc1">>))>>)
     \/ Say(<<Msg("CAPTURE", One(<<"White", "Knight", "0", "2">>))>>)
  /\ UNCHANGED <<toServer, srv, held, account, clientSide>>

KingFalls ==
  /\ InGame
  /\ srv' = [srv EXCEPT !.game = "over"]
  /\ Say(<<Msg("GAME_END", One(<<"White">>)), Ratings>>)
  /\ UNCHANGED <<toServer, held, account, events, clientSide>>

OpponentDrops ==
  /\ InGame /\ ~srv.warned /\ events < MaxEvents
  /\ events' = events + 1
  /\ srv' = [srv EXCEPT !.warned = TRUE]
  /\ Say(<<Msg("FORFEIT_WARNING", One(<<Opponent(srv.color), "20000">>))>>)
  /\ UNCHANGED <<toServer, held, account, clientSide>>

OpponentReturns ==
  /\ srv.warned /\ Len(toClient) < MaxBacklog
  /\ srv' = [srv EXCEPT !.warned = FALSE]
  /\ Say(<<Msg("RECONNECTED", One(<<Opponent(srv.color)>>))>>)
  /\ UNCHANGED <<toServer, held, account, events, clientSide>>

\* The grace period is over: the players become spectators.
OpponentForfeits ==
  /\ srv.warned /\ Len(toClient) < MaxBacklog
  /\ srv' = [srv EXCEPT !.warned = FALSE, !.game = "over", !.place = "watching", !.color = None]
  /\ Say(<<Msg("FORFEIT", One(<<IF srv.color = None THEN "Black" ELSE srv.color>>)), Ratings>>)
  /\ UNCHANGED <<toServer, held, account, events, clientSide>>

\* The user's own grace period is over: the match is lost and the seat given up.
SeatForfeited ==
  /\ held # None /\ held' = None
  /\ UNCHANGED <<toServer, toClient, owed, srv, account, events, clientSide>>

ServerStep ==
  \/ HandleMessage \/ SearchTimesOut \/ OpponentComes \/ PlayOn \/ KingFalls
  \/ OpponentDrops \/ OpponentReturns \/ OpponentForfeits \/ SeatForfeited

-----------------------------------------------------------------------------
(* The connection                                                            *)

\* The connection ends: messages under way are lost, the server forgets the client, but
\* keeps its seat in a running game for the grace period.
Disconnected ==
  /\ toServer' = <<>> /\ toClient' = <<>>
  /\ srv' = Stranger
  /\ held' = IF srv.place = "seated" /\ srv.game = "running" THEN srv.color ELSE held

Lost == Len(EventsIn(toClient))

\* Sends over an open socket; what is sent over any other is lost.
Send(msgs) == toServer' = IF link = "up" THEN toServer \o msgs ELSE toServer

LoginMsg == Msg("LOGIN", <<creds.username, creds.password>>)
JoinMsg(mode) ==
  Msg("JOIN", IF mode = "JoinRoom" THEN << <<mode>>, <<"den">> >> ELSE << <<mode>> >>)
ClickMsg == Msg("CLICK", One(<<"0", "2">>))
=============================================================================
