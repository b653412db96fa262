----------------------------- MODULE WireProtocol -----------------------------
(***************************************************************************)
(* The text protocol between clients and game server: Network/Protocol.cpp *)
(* and its mirror in the browser, WebClient/protocol.js, which is kept in  *)
(* step by hand.  A text is a sequence of lines and a line a sequence of   *)
(* words: blanks only separate.  A message is a record [cmd, args]; what a *)
(* user typed, or the server chose, is an argument and itself a sequence   *)
(* of words, one if it holds no blank.  Numbers are left as their digits.  *)
(***************************************************************************)
EXTENDS Integers, SequencesExt, TLC

Msg(cmd, args) == [cmd |-> cmd, args |-> args]
Unknown == Msg("unknown", <<>>)

ColorNames == {"White", "Black"}
ColorChar(color) == IF color = "White" THEN "w" ELSE "b"
ColorFromChar(c) == IF c = "w" THEN "White" ELSE "Black"

Letters == [King |-> "K", Queen |-> "Q", Rook |-> "R", Bishop |-> "B", Knight |-> "N", Pawn |-> "P"]
TypeFromChar(c) ==
  IF \E t \in DOMAIN Letters : Letters[t] = c
  THEN CHOOSE t \in DOMAIN Letters : Letters[t] = c
  ELSE "Pawn"

Modes == [QuickMatch |-> "Q", CreateRoom |-> "C", JoinRoom |-> "R"]
ModeFromChar(c) == CASE c = "R" -> "JoinRoom" [] c = "C" -> "CreateRoom" [] OTHER -> "QuickMatch"

Char(word, i) == SubSeq(word, i, i)

\* The messages whose first argument is a colour, and the words each command needs.
ColorFirst == {"WELCOME", "FORFEIT_WARNING", "FORFEIT", "RECONNECTED", "GAME_END", "CAPTURE"}
Needs ==
  [cmd \in {"SPECTATE", "NO_OPPONENT", "STATE", "GAME_START"} |-> 1] @@
  [cmd \in {"LOGIN_FAIL", "JOIN", "WELCOME", "ROOM", "FORFEIT", "RECONNECTED", "GAME_END"} |-> 2] @@
  [cmd \in {"LOGIN", "LOGIN_OK", "CLICK", "PLAYERS", "FORFEIT_WARNING", "RATINGS"} |-> 3] @@
  [cmd \in {"CAPTURE"} |-> 5] @@ [cmd \in {"MOVE"} |-> 9]

-----------------------------------------------------------------------------
(* Encoding                                                                  *)

\* A piece of a STATE snapshot is <<id, colour, type, x, y, state, cooldown, total>>.
PieceLine(p) == <<p[1], ColorChar(p[2]) \o Letters[p[3]]>> \o SubSeq(p, 4, 8)

\* Arguments become words one after the other; an argument with a blank makes two.
Words(m) ==
  LET w == FlattenSeq(m.args)
  IN  CASE m.cmd = "JOIN" -> IF w[1] = "JoinRoom" THEN <<"R">> \o Tail(w) ELSE <<Modes[w[1]]>>
        [] m.cmd = "MOVE" -> <<ColorChar(w[1]) \o Letters[w[2]]>> \o SubSeq(w, 3, Len(w))
        [] m.cmd = "CAPTURE" -> <<ColorChar(w[1]), Letters[w[2]]>> \o SubSeq(w, 3, Len(w))
        [] m.cmd \in ColorFirst \ {"CAPTURE"} -> <<ColorChar(w[1])>> \o Tail(w)
        [] OTHER -> w

Encode(m) ==
  IF m.cmd = "STATE"
  THEN << <<"STATE">> >> \o [i \in DOMAIN m.args |-> PieceLine(m.args[i])] \o << <<"END">> >>
  ELSE << <<m.cmd>> \o Words(m) >>

-----------------------------------------------------------------------------
(* Decoding: the same tables in C++ and, typed in again, in JavaScript       *)

\* The piece lines of a snapshot up to END; short lines are skipped.
PieceLines(lines) ==
  LET end == SelectInSeq(lines, LAMBDA l : l = <<"END">>)
      body == IF end = 0 THEN Tail(lines) ELSE SubSeq(lines, 2, end - 1)
  IN  SelectSeq(body, LAMBDA l : Len(l) >= 7)

One(words) == [i \in DOMAIN words |-> <<words[i]>>]

\* Mutant: the length of MOVE is typed in with one word too many.
JsNeedsTen ==
  [cmd \in {"SPECTATE", "NO_OPPONENT", "STATE", "GAME_START"} |-> 1] @@
  [cmd \in {"LOGIN_FAIL", "WELCOME", "ROOM", "FORFEIT", "RECONNECTED", "GAME_END"} |-> 2] @@
  [cmd \in {"LOGIN_OK", "PLAYERS", "FORFEIT_WARNING", "RATINGS"} |-> 3] @@
  [cmd \in {"CAPTURE"} |-> 5] @@ [cmd \in {"MOVE"} |-> 10]

\* decode of protocol.js knows what a server says.
JsNeeds ==
  [cmd \in {"SPECTATE", "NO_OPPONENT", "STATE", "GAME_START"} |-> 1] @@
  [cmd \in {"LOGIN_FAIL", "WELCOME", "ROOM", "FORFEIT", "RECONNECTED", "GAME_END"} |-> 2] @@
  [cmd \in {"LOGIN_OK", "PLAYERS", "FORFEIT_WARNING", "RATINGS"} |-> 3] @@
  [cmd \in {"CAPTURE"} |-> 5] @@ [cmd \in {"MOVE"} |-> 9]

\* The tables of a side: the browser leaves colours and types as their letters.
JsColor(c) == IF c = "w" THEN "w" ELSE "b"
NeedsOf(side) == IF side = "js" THEN JsNeeds ELSE Needs
ColorOf(side, c) == IF side = "js" THEN JsColor(c) ELSE ColorFromChar(c)
TypeOf(side, c) == IF side = "js" THEN c ELSE TypeFromChar(c)

Fields(side, cmd, tokens) ==
  LET rest == SubSeq(tokens, 3, NeedsOf(side)[cmd])
      color == ColorOf(side, Char(tokens[2], 1))
  IN  CASE cmd = "JOIN" ->
             IF Char(tokens[2], 1) = "R" THEN <<"JoinRoom", tokens[3]>> ELSE <<ModeFromChar(Char(tokens[2], 1))>>
        [] cmd = "MOVE" -> <<color, TypeOf(side, Char(tokens[2], 2))>> \o rest
        [] cmd = "CAPTURE" -> <<color, TypeOf(side, Char(tokens[3], 1))>> \o Tail(rest)
        [] cmd \in ColorFirst \ {"CAPTURE"} -> <<color>> \o rest
        [] OTHER -> SubSeq(tokens, 2, NeedsOf(side)[cmd])

Malformed(side, text) ==
  \/ text = <<>>
  \/ text[1][1] \notin DOMAIN NeedsOf(side)
  \/ Len(text[1]) < NeedsOf(side)[text[1][1]]
  \/ text[1][1] = "JOIN" /\ Char(text[1][2], 1) = "R" /\ Len(text[1]) < 3

Piece(side, line) ==
  <<line[1], ColorOf(side, Char(line[2], 1)), TypeOf(side, Char(line[2], 2))>> \o SubSeq(line, 3, 7)

DecodeOn(side, text) ==
  LET cmd == text[1][1]
      pieces == PieceLines(text)
  IN  IF Malformed(side, text) THEN Unknown
      ELSE IF cmd = "STATE" THEN Msg(cmd, [i \in DOMAIN pieces |-> Piece(side, pieces[i])])
      ELSE Msg(cmd, One(Fields(side, cmd, text[1])))

\* net::decode: std::monostate for what is malformed or not known.
Decode(text) == DecodeOn("cpp", text)
JsDecode(text) == DecodeOn("js", text)
=============================================================================
