----------------------------- MODULE DesktopClient -----------------------------
(***************************************************************************)
(* The desktop program: the windows of main.cpp (login, result, choice of  *)
(* a room, confirmation, game) on the main thread, and the proxy of the    *)
(* game (Client/RemoteGameProxy.cpp), whose flags and event queue are      *)
(* written on the network thread and polled by the windows.  Names, ratings*)
(* and the picture of the board are not kept: nothing is decided by them.  *)
(***************************************************************************)
EXTENDS ServerLink

CONSTANTS
  TypedNames, TypedPasswords,  \* what may be typed, as sequences of words
  MaxUnanswered                \* bound on the messages not yet handled when JOIN is sent

VARIABLES
  screen,  \* the window that is open, or what main() waits for
  choice,  \* the mode chosen in RoomChoiceScreen, as long as it is in scope
  proxy    \* RemoteGameProxy

desktopVars == <<screen, choice, proxy>>
windowVars == <<choice, proxy>>

NewProxy ==
  [resolved |-> FALSE, failed |-> FALSE, color |-> None, spectator |-> FALSE,
   searchFailed |-> FALSE, warning |-> FALSE, queue |-> <<>>]
HasRole == proxy.color # None \/ proxy.spectator

DesktopInit == screen = "login" /\ choice = "QuickMatch" /\ proxy = NewProxy

-----------------------------------------------------------------------------
(* Windows                                                                   *)

\* Blanks are stripped: the words that were typed become one.
Sanitize(typed) == IF typed = <<>> THEN <<>> ELSE <<FoldLeft(LAMBDA a, b : a \o b, "", typed)>>

\* emplace destroys the proxy of an earlier login, and its connection, before it makes the
\* new one.
SignIn(name, password) ==
  /\ screen = "login"
  /\ creds' = [username |-> Sanitize(name), password |-> Sanitize(password)]
  /\ screen' = "connecting"
  /\ proxy' = NewProxy
  /\ link' = "connecting" /\ Disconnected /\ owed' = <<>> /\ late' = FALSE
  /\ UNCHANGED <<choice, account, drops, events>>

PollLogin ==
  /\ screen = "connecting" /\ proxy.resolved
  /\ screen' = IF proxy.failed THEN "login" ELSE "result"
  /\ UNCHANGED <<windowVars, linkVars>>

Continue == screen = "result" /\ screen' = "room" /\ UNCHANGED <<windowVars, linkVars>>

Choose(mode) ==
  /\ screen = "room" /\ screen' = "confirm" /\ choice' = mode
  /\ UNCHANGED <<proxy, linkVars>>

\* Log Out leaves the connection as it is until the next login.
LogOut == screen = "room" /\ screen' = "login" /\ UNCHANGED <<windowVars, linkVars>>

Back ==
  /\ screen = "confirm" /\ screen' = "room" /\ choice' = "QuickMatch"
  /\ UNCHANGED <<proxy, linkVars>>

\* Mutant: join does not reset what an earlier JOIN has brought.
PlayKeepsRole ==
  /\ screen = "confirm" /\ screen' = "sending" /\ Len(toServer) < MaxUnanswered
  /\ UNCHANGED <<windowVars, linkVars>>

\* Mutant: join throws away the events that are queued.
PlayForgetsEvents ==
  /\ screen = "confirm" /\ screen' = "sending" /\ Len(toServer) < MaxUnanswered
  /\ proxy' = [NewProxy EXCEPT !.resolved = TRUE, !.warning = proxy.warning]
  /\ UNCHANGED <<choice, linkVars>>

\* Play: join resets the role under the lock, and sends after it.
Play ==
  /\ screen = "confirm" /\ screen' = "sending" /\ Len(toServer) < MaxUnanswered
  /\ proxy' = [proxy EXCEPT !.color = None, !.spectator = FALSE, !.searchFailed = FALSE]
  /\ UNCHANGED <<choice, linkVars>>

SendJoin ==
  /\ screen = "sending" /\ screen' = "waiting"
  /\ Send(<<JoinMsg(choice)>>)
  /\ late' = (late \/ link # "up")
  /\ UNCHANGED <<windowVars, link, toClient, srv, held, account, creds, owed, drops, events>>

PollJoin ==
  /\ screen = "waiting" /\ (HasRole \/ proxy.searchFailed)
  /\ screen' = IF HasRole THEN "session" ELSE "confirm"
  /\ choice' = IF HasRole THEN "QuickMatch" ELSE choice
  /\ UNCHANGED <<proxy, linkVars>>

\* "Connection problem": fifteen seconds, for every mode but quick match.
JoinTimesOut ==
  /\ screen = "waiting" /\ ~HasRole /\ ~proxy.searchFailed /\ choice # "QuickMatch"
  /\ screen' = "confirm" /\ late' = TRUE
  /\ UNCHANGED <<windowVars, link, toServer, toClient, srv, held, account, creds, owed, drops, events>>

\* A frame of the session publishes what has been queued, queued before it began included.
Frame ==
  /\ screen = "session" /\ proxy.queue # <<>>
  /\ proxy' = [proxy EXCEPT !.queue = <<>>]
  /\ owed' = SubSeq(owed, Len(proxy.queue) + 1, Len(owed))
  /\ UNCHANGED <<screen, choice, link, toServer, toClient, srv, held, account, creds, late, drops, events>>

\* A spectator's clicks are not sent.  The bound here: a click waits for what is under way.
Click ==
  /\ screen = "session" /\ ~proxy.spectator /\ toServer = <<>>
  /\ Send(<<ClickMsg>>)
  /\ UNCHANGED <<screen, windowVars, clientSide, toClient, srv, held, account, owed, events>>

\* A window is closed: the program ends, and its connection with it.
Exit ==
  /\ screen' = "exit" /\ link' = "down" /\ Disconnected
  /\ owed' = proxy.queue
  /\ UNCHANGED <<windowVars, account, creds, late, drops, events>>

CancelLogin == screen = "login" /\ Exit
CancelChoice == screen = "room" /\ Exit

\* The Sign In button: an empty name is a no-op.
PressSignIn(name, password) == Sanitize(name) # <<>> /\ SignIn(name, password)

\* On the console, when no window can be made, an empty name cancels.
PromptOnConsole(name, password) ==
  IF Sanitize(name) = <<>> THEN CancelLogin ELSE SignIn(name, password)

\* What a window returns, whichever of its controls ends it.
ShowLogin ==
  \/ \E name \in TypedNames, password \in TypedPasswords :
       PressSignIn(name, password) \/ PromptOnConsole(name, password)
  \/ CancelLogin
ShowRoomChoice == (\E mode \in DOMAIN Modes : Choose(mode)) \/ LogOut \/ CancelChoice
CancelPlay == screen \in {"confirm", "waiting"} /\ Exit
CloseBoard == screen = "session" /\ Exit

-----------------------------------------------------------------------------
(* The network thread                                                        *)

\* Mutant: LOGIN is sent when the connection first opens, not when it opens again.
OpensOnce ==
  /\ link = "connecting" /\ link' = "up"
  /\ toServer' = IF proxy.resolved THEN <<>> ELSE <<LoginMsg>>
  /\ UNCHANGED <<desktopVars, toClient, srv, held, account, creds, owed, late, drops, events>>

\* onOpen: LOGIN is sent whenever the connection opens, again after a drop; JOIN is not.
Opens ==
  /\ link = "connecting" /\ link' = "up"
  /\ toServer' = <<LoginMsg>>
  /\ UNCHANGED <<desktopVars, toClient, srv, held, account, creds, owed, late, drops, events>>

Queued(m) == [proxy EXCEPT !.queue = Append(@, m)]

Handled(m) ==
  CASE m.cmd = "LOGIN_OK" -> [proxy EXCEPT !.resolved = TRUE]
    [] m.cmd = "LOGIN_FAIL" -> [proxy EXCEPT !.resolved = TRUE, !.failed = TRUE]
    [] m.cmd = "WELCOME" -> [proxy EXCEPT !.color = m.args[1][1]]
    [] m.cmd = "SPECTATE" -> [proxy EXCEPT !.spectator = TRUE]
    [] m.cmd = "NO_OPPONENT" -> [proxy EXCEPT !.searchFailed = TRUE]
    [] m.cmd = "FORFEIT_WARNING" -> [proxy EXCEPT !.warning = TRUE]
    [] m.cmd \in {"FORFEIT", "RECONNECTED"} -> [Queued(m) EXCEPT !.warning = FALSE]
    [] m.cmd \in {"MOVE", "CAPTURE", "GAME_START", "GAME_END"} -> Queued(m)
    [] OTHER -> proxy

Receive ==
  /\ link = "up" /\ toClient # <<>>
  /\ toClient' = Tail(toClient)
  /\ \E m \in {Decode(text) : text \in {Encode(Head(toClient))}} : proxy' = Handled(m)
  /\ UNCHANGED <<screen, choice, clientSide, toServer, srv, held, account, owed, events>>

\* The connection drops and reconnects by itself; the program is not owed.
Drop ==
  /\ link = "up" /\ drops < MaxDrops
  /\ link' = "connecting" /\ drops' = drops + 1 /\ Disconnected
  /\ owed' = SubSeq(owed, 1, Len(owed) - Lost)
  /\ late' = (screen \in {"sending", "waiting", "session"})
  /\ UNCHANGED <<desktopVars, account, creds, events>>

UserStep ==
  \/ ShowLogin \/ ShowRoomChoice
  \/ Back \/ Play \/ CancelPlay
  \/ Click \/ CloseBoard

DesktopNext ==
  \/ UserStep \/ PollLogin \/ Continue \/ SendJoin \/ PollJoin \/ JoinTimesOut \/ Frame
  \/ Opens \/ Receive \/ Drop
=============================================================================
