------------------------------- MODULE WebClient -------------------------------
(***************************************************************************)
(* The browser client: WebClient/app.js over the socket of network.js.     *)
(* Everything runs on the page's event loop.  A socket that is closed      *)
(* delivers nothing any more, but its close event comes later and sets the *)
(* status of whatever connection there is by then.                         *)
(***************************************************************************)
EXTENDS ServerLink

CONSTANTS PagePasswords,  \* what the page lets through as a password; a blank has no words
          MaxStale        \* bound on the sockets whose close event is still to come

VARIABLES
  page,         \* "lobby" or "game"
  buttons,      \* whether the three buttons of the lobby are enabled
  status,       \* Connection.status
  stale,        \* closed sockets whose close event is still to come
  trying,       \* whether a trySend is scheduled
  pendingJoin,  \* state.pendingJoin: the mode, or None
  seat,         \* state.myColor: "w", "b" or None
  banner        \* whether the forfeit warning is shown

webVars == <<page, buttons, status, stale, trying, pendingJoin, seat, banner>>

WebInit ==
  /\ page = "lobby" /\ buttons = TRUE /\ status = "disconnected" /\ stale = 0
  /\ trying = FALSE /\ pendingJoin = None /\ seat = None /\ banner = FALSE

ShowLobby == page' = "lobby" /\ buttons' = TRUE

\* Connection.close: nothing is under way any more, and one close event is to come.
CloseSocket ==
  /\ Disconnected
  /\ stale' = IF link = "down" THEN stale ELSE stale + 1

StartLogin(mode, password) ==
  /\ page = "lobby" /\ buttons /\ stale < MaxStale
  /\ buttons' = FALSE /\ pendingJoin' = mode
  /\ creds' = [username |-> <<"ann">>, password |-> password]
  /\ CloseSocket /\ link' = "connecting" /\ status' = "connecting" /\ trying' = TRUE
  /\ owed' = <<>> /\ late' = FALSE
  /\ UNCHANGED <<page, seat, banner, account, drops, events>>

SocketOpens ==
  /\ link = "connecting" /\ link' = "up" /\ status' = "connected"
  /\ UNCHANGED <<page, buttons, stale, trying, pendingJoin, seat, banner, toServer, toClient, srv, held,
                 account, creds, owed, late, drops, events>>

\* trySend, every 50 ms: LOGIN once the status says connected, the lobby if it says anything
\* but connecting.
TrySend ==
  /\ trying /\ status # "connecting" /\ trying' = FALSE
  /\ IF status = "connected"
     THEN Send(<<LoginMsg>>) /\ UNCHANGED <<page, buttons>>
     ELSE ShowLobby /\ UNCHANGED toServer
  /\ UNCHANGED <<status, stale, pendingJoin, seat, banner, link, toClient, srv, held, account, creds, owed,
                 late, drops, events>>

\* Mutant: a warning stays when the opponent is back.
BannerStays(m) ==
  CASE m.cmd = "FORFEIT_WARNING" -> TRUE
    [] m.cmd \in {"FORFEIT", "GAME_END", "GAME_START"} -> FALSE
    [] OTHER -> banner

BannerAfter(m) ==
  CASE m.cmd = "FORFEIT_WARNING" -> TRUE
    [] m.cmd \in {"RECONNECTED", "FORFEIT", "GAME_END", "GAME_START"} -> FALSE
    [] OTHER -> banner

\* LOGIN_OK sends the JOIN that was asked for.
OnLoginOk(m) ==
  /\ m.cmd = "LOGIN_OK"
  /\ pendingJoin' = None
  /\ IF pendingJoin = None THEN UNCHANGED toServer ELSE Send(<<JoinMsg(pendingJoin)>>)
  /\ toClient' = Tail(toClient)
  /\ UNCHANGED <<page, buttons, stale, seat, link, srv, held>>

\* LOGIN_FAIL and NO_OPPONENT close the connection and show the lobby.
OnRefusal(m) ==
  /\ m.cmd \in {"LOGIN_FAIL", "NO_OPPONENT"}
  /\ pendingJoin' = IF m.cmd = "LOGIN_FAIL" THEN None ELSE pendingJoin
  /\ CloseSocket /\ link' = "down" /\ ShowLobby
  /\ UNCHANGED seat

OnRole(m) ==
  /\ m.cmd \in {"WELCOME", "SPECTATE"}
  /\ seat' = IF m.cmd = "WELCOME" THEN m.args[1][1] ELSE None
  /\ page' = "game"
  /\ toClient' = Tail(toClient)
  /\ UNCHANGED <<buttons, pendingJoin, stale, link, toServer, srv, held>>

OnGameMessage(m) ==
  /\ m.cmd \notin {"LOGIN_OK", "LOGIN_FAIL", "NO_OPPONENT", "WELCOME", "SPECTATE"}
  /\ toClient' = Tail(toClient)
  /\ UNCHANGED <<page, buttons, pendingJoin, stale, seat, link, toServer, srv, held>>

OnMessage ==
  /\ link = "up" /\ toClient # <<>>
  /\ \E m \in {JsDecode(text) : text \in {Encode(Head(toClient))}} :
       /\ OnLoginOk(m) \/ OnRefusal(m) \/ OnRole(m) \/ OnGameMessage(m)
       /\ banner' = BannerAfter(m)
       /\ owed' = IF m.cmd \in {"LOGIN_FAIL", "NO_OPPONENT"} THEN <<>>
                  ELSE IF IsEvent(m) THEN Tail(owed) ELSE owed
  /\ UNCHANGED <<status, trying, account, creds, late, drops, events>>

Leave ==
  /\ page = "game"
  /\ CloseSocket /\ link' = "down" /\ owed' = <<>>
  /\ seat' = None /\ banner' = FALSE /\ ShowLobby
  /\ UNCHANGED <<status, trying, pendingJoin, account, creds, late, drops, events>>

\* A press and a release on the board: one click, or two for a drag.  The bound here: a
\* press waits for what is under way.
Pointer ==
  /\ page = "game" /\ seat # None /\ toServer = <<>>
  /\ Send(<<ClickMsg>>) \/ Send(<<ClickMsg, ClickMsg>>)
  /\ UNCHANGED <<webVars, clientSide, toClient, srv, held, account, owed, events>>

\* The close event of a socket that has been replaced, or closed on purpose.
StaleClose ==
  /\ stale > 0 /\ stale' = stale - 1
  /\ status' = "disconnected"
  /\ UNCHANGED <<page, buttons, trying, pendingJoin, seat, banner, linkVars>>

\* The connection ends, or does not open: nothing reconnects.
SocketFails ==
  /\ link \in {"connecting", "up"} /\ drops < MaxDrops
  /\ link' = "down" /\ drops' = drops + 1 /\ Disconnected
  /\ status' = "disconnected" /\ owed' = <<>> /\ late' = TRUE
  /\ UNCHANGED <<page, buttons, stale, trying, pendingJoin, seat, banner, account, creds, events>>

WebNext ==
  \/ \E mode \in DOMAIN Modes, password \in PagePasswords : StartLogin(mode, password)
  \/ Leave \/ Pointer
  \/ SocketOpens \/ TrySend \/ OnMessage \/ StaleClose \/ SocketFails
=============================================================================
