----------------------------- MODULE ChatGateway -----------------------------
(***************************************************************************)
(* rzchatgateway: what is said on an IRC channel is said in the game by a  *)
(* character that plays itself (AutoClientSession, of which only playing   *)
(* or not is seen here), and what is said in the game is told on IRC.      *)
(*                                                                         *)
(* Lines of IRC and messages are reduced to what the code tells apart;     *)
(* messages for the game are numbers.  Colours and the usage text are left out.            *)
(*                                                                         *)
(* NamesServer is TRUE when something calls setGameServerName; at this     *)
(* commit nothing does, and the IRC client is never connected.             *)
(***************************************************************************)
EXTENDS Naturals, Sequences, FiniteSets, SequencesExt

CONSTANTS
  Users,        \* nicks on IRC
  Players,      \* names in the game
  Handles,      \* handles in the game, none of which is the gateway's own
  NamesServer,
  MaxSaid,      \* bound: messages from IRC that are accepted
  MaxGames,     \* bound: game sessions
  MaxLinks      \* bound: IRC connections

VARIABLES
  game,     \* the game session: state, messageQueue, playerNames, enableGateway
  irc,      \* the IRC client: state of the stream, joined, reconnectTimer, buffer
  replies,  \* mpGsToIrc and mpIrcToGs
  got,      \* the messages written to the game server
  told,     \* the message for IRC of the last step: target, name in it, who said it
  world,    \* handle -> what entered with it in this game session
  ghost     \* messages accepted, those that are lost, sessions, links, has it crashed?

vars == <<game, irc, replies, got, told, world, ghost>>

Nothing == [to |-> "none", name |-> "none", by |-> [kind |-> "none"]]
Nobody == [kind |-> "none", name |-> "none"]

Init ==
  /\ game \in [state : {"out"}, queue : {<< >>}, names : {[h \in Handles |-> "Unknown"]}, gateway : BOOLEAN]
  /\ irc = [state |-> "none", joined |-> FALSE, timer |-> FALSE, buffer |-> << >>]
  /\ replies = [gsToIrc |-> [p \in Players |-> "none"], ircToGs |-> [u \in Users |-> "none"]]
  /\ got = << >>
  /\ told = Nothing
  /\ world = [h \in Handles |-> Nobody]
  /\ ghost = [said |-> 0, lost |-> {}, games |-> 0, links |-> 0, dead |-> FALSE]

-----------------------------------------------------------------------------
(* Towards IRC *)

\* IrcClient::sendMessage, through a stream that connect creates: without one the
\* program ends, and on one that is not connected the message is lost.
sendMessage(target, name, by) ==
  /\ told' = IF irc.state = "connected" THEN [to |-> target, name |-> name, by |-> by] ELSE Nothing
  /\ ghost' = [ghost EXCEPT !.dead = irc.state = "none"]

setGameServerName ==
  /\ NamesServer /\ irc.state = "none"
  /\ irc' = [irc EXCEPT !.state = "connecting"]
  /\ UNCHANGED <<game, replies, got, world, ghost>> /\ told' = Nothing

\* onStateChanged: what has come of a line stays in the buffer.
onIrcConnected ==
  /\ irc.state = "connecting" /\ ghost.links < MaxLinks
  /\ irc' = [irc EXCEPT !.state = "connected"]
  /\ ghost' = [ghost EXCEPT !.links = @ + 1]
  /\ UNCHANGED <<game, replies, got, world>> /\ told' = Nothing

onIrcUnconnected ==
  /\ irc.state \in {"connecting", "connected"}
  /\ irc' = [irc EXCEPT !.state = "unconnected", !.joined = FALSE, !.timer = TRUE]
  /\ UNCHANGED <<game, replies, got, world, ghost>> /\ told' = Nothing

onReconnect ==
  /\ irc.timer
  /\ irc' = [irc EXCEPT !.timer = FALSE, !.state = "connecting"]
  /\ UNCHANGED <<game, replies, got, world, ghost>> /\ told' = Nothing

-----------------------------------------------------------------------------
(* From IRC to the game *)

Message == ghost.said + 1

Forgotten(g) == [g EXCEPT !.queue = <<Message>>]

\* What sendMsgToGS leaves of the session: isConnected is setConnected's, so it
\* is true until the stream of a session that is being closed is.
Queued(g) == [g EXCEPT !.queue = Append(@, Message)]

sendMsgToGS ==
  IF ~game.gateway THEN UNCHANGED <<game, got, ghost>>
  ELSE /\ game' = IF game.state = "out" THEN Queued(game) ELSE game
       /\ got' = IF game.state = "playing" THEN Append(got, Message) ELSE got
       /\ ghost' = [ghost EXCEPT !.said = @ + 1, !.lost = IF game.state = "closing" THEN @ \union {ghost.said + 1} ELSE @]

\* A PRIVMSG: to the channel, with a sign for the type of the chat or without, to
\* the gateway itself, or a whisper to a player.  Empty ones and commands are ignored.
Lines ==
  [kind : {"001", "PING"}] \union [kind : {"say", "private", "usage"}, user : Users]
  \union [kind : {"whisper"}, user : Users, player : Players]

onIrcLine(l) ==
  CASE l.kind = "001" -> irc' = [irc EXCEPT !.joined = TRUE, !.buffer = << >>] /\ UNCHANGED <<game, replies, got, ghost>> /\ told' = Nothing
    [] l.kind = "PING" -> irc' = [irc EXCEPT !.buffer = << >>] /\ UNCHANGED <<game, replies, got, ghost>> /\ told' = Nothing
    [] OTHER ->
       /\ irc' = [irc EXCEPT !.buffer = << >>]
       /\ replies' = IF l.kind = "whisper" THEN [replies EXCEPT !.gsToIrc[l.player] = l.user] ELSE replies
       /\ IF l.kind = "usage" \/ (l.kind = "private" /\ replies.ircToGs[l.user] = "none")
          THEN sendMessage(l.user, "usage", Nobody) /\ UNCHANGED <<game, got>>
          ELSE /\ sendMsgToGS
               /\ told' = Nothing

\* onDataReceived: the beginning of a line waits for its end; with a beginning from
\* an earlier connection, the command and the sender are those of the beginning.
onDataReceived ==
  /\ irc.state = "connected"
  /\ \/ \E l \in Lines :
          /\ irc.buffer = << >> /\ irc' = [irc EXCEPT !.buffer = <<l>>]
          /\ UNCHANGED <<game, replies, got, ghost>> /\ told' = Nothing
     \/ irc.buffer # << >> /\ ghost.said < MaxSaid /\ onIrcLine(irc.buffer[1])
  /\ UNCHANGED world

-----------------------------------------------------------------------------
(* From the game to IRC *)

\* TS_SC_LOGIN_RESULT: onConnected, then onCharacterLoginResult.
onCharacterLoginResult ==
  /\ game.state = "out" /\ ghost.games < MaxGames
  /\ told' = IF irc.state = "connected" THEN [to |-> "", name |-> "action", by |-> Nobody] ELSE Nothing
  /\ ghost' = [ghost EXCEPT !.games = @ + 1, !.dead = irc.state = "none"]
  /\ got' = got \o game.queue
  /\ game' = [game EXCEPT !.state = "playing", !.queue = << >>]
  /\ UNCHANGED <<irc, replies, world>>

\* AutoAuthSession::onGGTimerExpired closes the session, which plays until its
\* stream is closed.
onGGTimerExpired ==
  /\ game.state = "playing"
  /\ game' = [game EXCEPT !.state = "closing"]
  /\ UNCHANGED <<irc, replies, got, world, ghost>> /\ told' = Nothing

onDisconnected ==
  /\ game.state \in {"playing", "closing"}
  /\ game' = [game EXCEPT !.state = "out"]
  /\ world' = [h \in Handles |-> Nobody]
  /\ sendMessage("", "action", Nobody)
  /\ UNCHANGED <<irc, replies, got>>

onEnter(h) ==
  /\ game.state \in {"playing", "closing"}
  /\ \E kind \in {"player", "other"}, p \in Players :
       /\ world' = [world EXCEPT ![h] = [kind |-> kind, name |-> p]]
       /\ game' = IF kind = "player" THEN [game EXCEPT !.names[h] = p] ELSE game
  /\ UNCHANGED <<irc, replies, got, ghost>> /\ told' = Nothing

\* onChatLocal: the name is the one that the handle entered with.
onChatLocal(h) ==
  /\ game.state \in {"playing", "closing"} /\ world[h].kind # "none"
  /\ sendMessage("", game.names[h], world[h])
  /\ UNCHANGED <<game, irc, replies, got, world>>

\* Whom a private message without a name is for, from now on.
Answered(r, p, user) == [r EXCEPT !.ircToGs[user] = p]

\* onChat with a whisper, sendMsgToIRC: it names its user, or is for the one who
\* last whispered to that player; without one it goes to the channel.
onChat(p) ==
  /\ game.state \in {"playing", "closing"}
  /\ \E named \in Users \union {"none"} :
       LET user == IF named = "none" THEN replies.gsToIrc[p] ELSE named
       IN  /\ replies' = IF user = "none" THEN replies ELSE Answered(replies, p, user)
           /\ sendMessage(IF user = "none" THEN "" ELSE user, p, [kind |-> "player", name |-> p])
  /\ UNCHANGED <<game, irc, got, world>>

Next ==
  /\ ~ghost.dead
  /\ \/ setGameServerName \/ onIrcConnected \/ onIrcUnconnected \/ onReconnect \/ onDataReceived
     \/ onCharacterLoginResult \/ onGGTimerExpired \/ onDisconnected
     \/ \E h \in Handles : onEnter(h) \/ onChatLocal(h)
     \/ \E p \in Players : onChat(p)

Spec == Init /\ [][Next]_vars

-----------------------------------------------------------------------------
(* Properties *)

\* Every message that was accepted is said in the game once and in order, or waits
\* for the next session; only those that come while a session closes are lost.
SaidOnce ==
  LET all == got \o game.queue
  IN  all = SelectSeq([i \in 1 .. ghost.said |-> i], LAMBDA i : i \notin ghost.lost)

\* A player that entered speaks under its own name.
SpeakerNamed == told.by.kind = "player" => told.name = told.by.name

\* An IRC client without a stream that lives will connect again.
LinkReturns == irc.state = "unconnected" => irc.timer

ChatKept == SaidOnce /\ SpeakerNamed /\ LinkReturns

\* The gateway lives to carry chat: no message for IRC is written before the IRC
\* client has a stream.
Bridges == ~ghost.dead
=============================================================================
