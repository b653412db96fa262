-------------------------------- MODULE Clients --------------------------------
(***************************************************************************)
(* A client of the game server, from the first window to the end: the      *)
(* desktop program or the page in the browser, its connection and the      *)
(* server's side of it.                                                    *)
(***************************************************************************)
EXTENDS DesktopClient, WebClient

CONSTANT Programs  \* the clients that are run, of "desktop" and "web"

VARIABLE program

vars == <<program, linkVars, desktopVars, webVars>>

Init == program \in Programs /\ LinkInit /\ DesktopInit /\ WebInit

Server == ServerStep /\ UNCHANGED <<program, desktopVars, webVars>>
Desktop == program = "desktop" /\ DesktopNext /\ UNCHANGED <<program, webVars>>
Web == program = "web" /\ WebNext /\ UNCHANGED <<program, desktopVars>>

Next == Server \/ Desktop \/ Web

Spec == Init /\ [][Next]_vars

\* The server's threads, the network thread, the polling loops and the page's timers: one of
\* them takes a step if any can.  Nothing is assumed of the user, of the opponents and of the
\* network: it may fail, and a connection may never open.
Progress ==
  \/ (HandleMessage \/ SearchTimesOut) /\ UNCHANGED <<program, desktopVars, webVars>>
  \/ /\ program = "desktop"
     /\ Receive \/ PollLogin \/ SendJoin \/ PollJoin \/ JoinTimesOut
     /\ UNCHANGED <<program, webVars>>
  \/ /\ program = "web"
     /\ TrySend \/ OnMessage
     /\ UNCHANGED <<program, desktopVars>>

FairSpec == Spec /\ WF_vars(Progress)

-----------------------------------------------------------------------------
(* Properties                                                                *)

\* Every message on the wire whose arguments hold no blank is read as it was meant, by the
\* C++ decoder and by its copy in the page: a word too few, an unknown command or a letter
\* that falls to the default is a message that is lost or becomes another one.
OneWordEach(m) == m.cmd # "STATE" => \A i \in DOMAIN m.args : Len(m.args[i]) = 1
ForPage(m) ==
  CASE m.cmd = "STATE" ->
         [m EXCEPT !.args = [i \in DOMAIN m.args |-> [m.args[i] EXCEPT ![2] = ColorChar(@), ![3] = Letters[@]]]]
    [] m.cmd \in {"MOVE", "CAPTURE"} ->
         [m EXCEPT !.args[1] = <<ColorChar(@[1])>>, !.args[2] = <<Letters[@[1]]>>]
    [] m.cmd \in ColorFirst \ {"CAPTURE"} -> [m EXCEPT !.args[1] = <<ColorChar(@[1])>>]
    [] OTHER -> m
WireFaithful ==
  /\ \A m \in Range(toServer) \cup Range(toClient) : OneWordEach(m) => Decode(Encode(m)) = m
  /\ \A m \in Range(toClient) : OneWordEach(m) => JsDecode(Encode(m)) = ForPage(m)

\* Who is shown a seat has it at the server, unless the game is over or the connection was
\* lost; and the warning that the opponent is gone is shown only until the opponent is back.
\* On the desktop it is true only until a first drop: join does not take an old one back.
Seat ==
  IF program = "desktop" THEN proxy.color ELSE IF seat = None THEN None ELSE ColorFromChar(seat)
Shown == IF program = "desktop" THEN screen = "session" /\ ~late ELSE page = "game" /\ link = "up"
Warned == IF program = "desktop" THEN proxy.warning ELSE banner
ScreenIsTrue ==
  Shown =>
    /\ Seat = None \/ srv.color = Seat \/ srv.game = "over"
    /\ Warned /\ (program = "web" \/ drops = 0) =>
         srv.warned \/ \E m \in Range(toClient) : m.cmd \in {"RECONNECTED", "FORFEIT"}

\* What is queued for the session and what is still on the wire are the events that the
\* server sent and the user has not seen, in its order: none is missed because it came
\* before the session began, or between two frames.
Unseen == IF program = "desktop" THEN proxy.queue ELSE <<>>
EventsInOrder == Unseen \o EventsIn(toClient) = owed

\* A JOIN that is waited for is still to be answered, or answered: its answer is not
\* swept away by the reset that goes with it.
AnswerIsDue ==
  screen = "waiting" /\ ~late =>
    \/ \E m \in Range(toServer) : m.cmd = "JOIN"
    \/ srv.place = "searching"
    \/ \E m \in Range(toClient) : m.cmd \in {"WELCOME", "SPECTATE", "NO_OPPONENT"}
    \/ HasRole \/ proxy.searchFailed

\* The server cannot be reached: from some time on the connection is being opened.
NeverOpens == <>[](link = "connecting")

\* Waiting ends, which is to say that a window or the page asks the user again, be it because
\* it gave up, or that the game is shown.  The wait for the login ends unless the connection
\* never opens or no password was typed; the wait for a JOIN, unless a search was cut off;
\* the wait of the page, unless its socket neither opens nor fails, no password was typed, or
\* the connection was lost after LOGIN had been sent.
WaitEnds ==
  /\ NeverOpens \/ []<>(screen # "connecting" \/ creds.password = <<>>)
  /\ []<>(screen # "waiting" \/ (late /\ choice = "QuickMatch"))
  /\ NeverOpens \/ []<>(buttons \/ page = "game" \/ (late /\ ~trying) \/ creds.password = <<>>)

\* "Forfeited: grace window elapsed with no reconnect": whose game is open on a desktop that
\* is connected and logged in again does not forfeit.
OnlyTheGoneForfeit ==
  [][held # None /\ held' = None /\ srv'.place # "seated" =>
       ~(program = "desktop" /\ screen = "session" /\ srv.auth)]_vars
=============================================================================
