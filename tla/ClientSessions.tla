--------------------------- MODULE ClientSessions ---------------------------
(***************************************************************************)
(* The automatic client of librzu (ClientAuthSession, ClientGameSession,   *)
(* AutoClientSession): it logs in at the auth server, takes the one time   *)
(* password to the game server, enters the game with a character, and      *)
(* starts over when either connection ends.                                *)
(*                                                                         *)
(* The servers answer each request once; an answer is decided when the     *)
(* request is sent, and read later.  A refusal, a lost connection, a       *)
(* connect that fails and an expiry of the GG timer use up Faults.         *)
(* ListDropped and MissesLogin are mutated forms of the definitions that   *)
(* follow them.                                                            *)
(***************************************************************************)
EXTENDS Integers, Sequences

CONSTANTS
  Methods,      \* how the account is sent: "des", "aes" or "bora" (after a web request)
  Delays,       \* is there a delay before a new connection?
  MaxFaults     \* bound: things that go wrong

VARIABLES
  method, delayTime,
  auth,         \* the auth stream, normalDisconnect, serverList known?
  game,         \* the game stream
  replies,      \* answers the auth and the game server have sent and that are not read
  inGame,       \* connectedInGame, and with it updateTimer
  timers,       \* is delayRecoTimer, ggRecoTimer running?
  http,         \* web requests of this connection and of earlier ones
  faults

vars == <<method, delayTime, auth, game, replies, inGame, timers, http, faults>>

Init ==
  /\ method \in Methods /\ delayTime \in Delays
  /\ auth = [st |-> "connecting", normal |-> FALSE, listed |-> FALSE]
  /\ game = "unconnected"
  /\ replies = [auth |-> << >>, game |-> << >>]
  /\ inGame = FALSE
  /\ timers = [delay |-> FALSE, gg |-> FALSE]
  /\ http = [now |-> 0, stale |-> 0]
  /\ faults = 0

\* The outcomes of something that may go wrong.
Outcomes == IF faults < MaxFaults THEN BOOLEAN ELSE {TRUE}
Faulty(ok) == ok \in Outcomes /\ faults' = faults + IF ok THEN 0 ELSE 1
Either(good, bad) == IF faults < MaxFaults THEN {good, bad} ELSE {good}
Answered(ok) == faults' = IF ok \/ faults = MaxFaults THEN faults ELSE faults + 1

\* Stream::close and abort, and connect, which needs an unconnected stream.
Close(st) == IF st = "connected" THEN "shutdown" ELSE IF st = "connecting" THEN "closing" ELSE st
Abort(st) == IF st \in {"connecting", "connected"} THEN "closing" ELSE st
Connect(st) == IF st = "unconnected" THEN "connecting" ELSE st

Readable(st) == st \in {"connected", "shutdown"}

\* sendPacket to a server, and its answer; nothing is sent on a closing stream.
Asked(q, st, answer) == IF st = "connected" THEN Append(q, answer) ELSE q

-----------------------------------------------------------------------------
(* Connecting again *)

\* ClientAuthSession::connect sets its state before the stream refuses.
Connecting(a) == [a EXCEPT !.st = Connect(@), !.normal = FALSE]

\* delayedConnect, with auth session a.
delayedConnect(a) ==
  IF delayTime THEN [auth |-> a, delay |-> TRUE] ELSE [auth |-> Connecting(a), delay |-> timers.delay]

\* onDelayRecoExpired.
onDelayRecoExpired ==
  /\ timers.delay
  /\ timers' = [timers EXCEPT !.delay = FALSE]
  /\ auth' = Connecting(auth)
  /\ UNCHANGED <<method, delayTime, game, replies, inGame, http, faults>>

-----------------------------------------------------------------------------
(* ClientAuthSession and AutoAuthSession *)

\* TS_CA_ACCOUNT.
Login(a, answer) ==
  /\ auth' = a
  /\ replies' = [replies EXCEPT !.auth = Asked(@, a.st, answer)]

\* onConnected: the account, or the public key.
onAuthConnected(ok) ==
  /\ auth.st = "connecting" /\ Faulty(ok)
  /\ \E a \in {[auth EXCEPT !.st = IF ok THEN "connected" ELSE "closing"]} :
       IF ok /\ method = "des" THEN \E result \in Either("ok", "fail") : Login(a, result)
       ELSE auth' = a /\ replies' = [replies EXCEPT !.auth = IF ok THEN <<"key">> ELSE << >>]
  /\ http' = [now |-> 0, stale |-> http.stale + http.now]
  /\ UNCHANGED <<method, delayTime, game, inGame, timers>>

AuthReads == replies.auth # << >> /\ Readable(auth.st)

\* onPacketAuthPasswordKey.
onPacketAuthPasswordKey(ok) ==
  /\ AuthReads /\ Head(replies.auth) = "key" /\ Faulty(ok)
  /\ \/ /\ ~ok
        /\ auth' = [auth EXCEPT !.st = Close(@)]
        /\ replies' = [replies EXCEPT !.auth = Tail(@)]
        /\ UNCHANGED http
     \/ /\ ok /\ method = "bora"
        /\ http' = [http EXCEPT !.now = @ + 1]
        /\ replies' = [replies EXCEPT !.auth = Tail(@)]
        /\ UNCHANGED auth
     \/ /\ ok /\ method # "bora"
        /\ UNCHANGED auth
        /\ \E result \in Either("ok", "fail") : replies' = [replies EXCEPT !.auth = Asked(Tail(@), auth.st, result)]
        /\ UNCHANGED http
  /\ UNCHANGED <<method, delayTime, game, inGame, timers>>

\* The web server's answer; one that belongs to an earlier connection is used
\* like any other.
HttpAnswer(stale, ok) ==
  /\ IF stale THEN http.stale > 0 ELSE http.now > 0
  /\ Faulty(ok)
  /\ http' = IF stale THEN [http EXCEPT !.stale = @ - 1] ELSE [http EXCEPT !.now = @ - 1]
  /\ IF ok THEN \E result \in Either("ok", "fail") : Login(auth, result)
     ELSE auth' = [auth EXCEPT !.st = Close(@)] /\ UNCHANGED replies
  /\ UNCHANGED <<method, delayTime, game, inGame, timers>>

\* onAuthResult: the server list is asked for.
onAuthResult ==
  /\ AuthReads /\ Head(replies.auth) \in {"ok", "fail"}
  /\ Answered(Head(replies.auth) = "ok")
  /\ IF Head(replies.auth) = "ok"
     THEN /\ \E list \in Either("list", "other_list") : replies' = [replies EXCEPT !.auth = Asked(Tail(@), auth.st, list)]
          /\ UNCHANGED auth
     ELSE /\ replies' = [replies EXCEPT !.auth = Tail(@)]
          /\ auth' = [auth EXCEPT !.st = Abort(@)]
  /\ UNCHANGED <<method, delayTime, game, inGame, timers, http>>

ListDropped(a) == a

\* onPacketServerList: serverList.
ListKept(a) == [a EXCEPT !.listed = TRUE]

\* onPacketServerList, onServerList and selectServer; the server looked for may
\* not be in the list.
onServerList ==
  /\ AuthReads /\ Head(replies.auth) \in {"list", "other_list"}
  /\ Answered(Head(replies.auth) = "list")
  /\ IF Head(replies.auth) = "list"
     THEN /\ replies' = [replies EXCEPT !.auth = Asked(Tail(@), auth.st, "select")]
          /\ auth' = ListKept(auth)
          /\ timers' = [timers EXCEPT !.gg = TRUE]
     ELSE /\ replies' = [replies EXCEPT !.auth = Tail(@)]
          /\ auth' = [ListKept(auth) EXCEPT !.st = Close(@)]
          /\ UNCHANGED timers
  /\ UNCHANGED <<method, delayTime, game, inGame, http>>

\* The auth session that has done its work.
ClosedNormally(a) == [a EXCEPT !.st = Close(@), !.normal = TRUE, !.listed = FALSE]

\* onPacketSelectServerResult: the game session connects, and the auth session
\* closes normally.  The password may not be decrypted.
onPacketSelectServerResult(ok) ==
  /\ AuthReads /\ Head(replies.auth) = "select" /\ Faulty(ok)
  /\ method = "des" => ok
  /\ ok => auth.listed     \* serverList.at throws otherwise
  /\ replies' = [replies EXCEPT !.auth = Tail(@)]
  /\ game' = IF ok THEN Connect(game) ELSE game
  /\ auth' = IF ok THEN ClosedNormally(auth) ELSE [auth EXCEPT !.st = Close(@)]
  /\ UNCHANGED <<method, delayTime, inGame, timers, http>>

\* onDisconnected of the auth session.
AuthUnconnected ==
  /\ auth.st = "closing"
  /\ replies' = [replies EXCEPT !.auth = << >>]
  /\ IF auth.normal
     THEN auth' = [auth EXCEPT !.st = "unconnected", !.normal = FALSE] /\ UNCHANGED timers
     ELSE \E d \in {delayedConnect([auth EXCEPT !.st = "unconnected"])} :
            auth' = d.auth /\ timers' = [timers EXCEPT !.delay = d.delay]
  /\ UNCHANGED <<method, delayTime, game, inGame, http, faults>>

-----------------------------------------------------------------------------
(* ClientGameSession and AutoClientSession *)

\* onConnected: TS_CS_ACCOUNT_WITH_AUTH.
onGameStreamConnected(ok) ==
  /\ game = "connecting" /\ Faulty(ok)
  /\ IF ok THEN /\ game' = "connected"
                /\ \E result \in Either("ok", "fail") : replies' = [replies EXCEPT !.game = <<result>>]
     ELSE game' = "closing" /\ UNCHANGED replies
  /\ UNCHANGED <<method, delayTime, auth, inGame, timers, http>>

MissesLogin(answer) == inGame /\ answer # "kicked"

\* connectedInGame after a packet.
Playing(answer) == answer = "login" \/ (inGame /\ answer # "kicked")

\* TS_SC_RESULT, TS_SC_CHARACTER_LIST, TS_SC_LOGIN_RESULT, TS_SC_DISCONNECT_DESC:
\* onGameResult, onGameConnected, onCharacterList, setConnected.
onGamePacketReceived ==
  /\ replies.game # << >> /\ Readable(game)
  /\ \E answer \in {Head(replies.game)} :
       /\ Answered(answer \notin {"fail", "kicked"})
       /\ game' = IF answer \in {"fail", "kicked"} THEN Abort(game) ELSE game
       /\ inGame' = Playing(answer)
       /\ replies' = [replies EXCEPT !.game =
            CASE answer = "ok" -> Asked(Tail(@), game, "characters")
              [] answer = "characters" -> Asked(Tail(@), game, "login")
              [] OTHER -> Tail(@)]
  /\ UNCHANGED <<method, delayTime, auth, timers, http>>

\* The game server ends the player's session.
Kicks ==
  /\ game = "connected" /\ inGame /\ replies.game = << >> /\ faults < MaxFaults
  /\ replies' = [replies EXCEPT !.game = <<"kicked">>]
  /\ UNCHANGED <<method, delayTime, auth, game, inGame, timers, http, faults>>

\* onGGTimerExpired: the logout packet, and closeSession.  (When no connection to a
\* game server was ever made, the write of the packet goes through a null stream,
\* AutoClientSession.cpp:129; here nothing happens then.)
onGGTimerExpired ==
  /\ timers.gg /\ faults < MaxFaults
  /\ faults' = faults + 1
  /\ timers' = [timers EXCEPT !.gg = FALSE]
  /\ game' = Close(game)
  /\ UNCHANGED <<method, delayTime, auth, replies, inGame, http>>

\* setConnected(false).
StopsPlaying == FALSE

\* onGameDisconnected: setConnected(false), delayedConnect.
GameUnconnected ==
  /\ game = "closing"
  /\ game' = "unconnected"
  /\ inGame' = StopsPlaying
  /\ replies' = [replies EXCEPT !.game = << >>]
  /\ \E d \in {delayedConnect(auth)} : auth' = d.auth /\ timers' = [timers EXCEPT !.delay = d.delay]
  /\ UNCHANGED <<method, delayTime, http, faults>>

-----------------------------------------------------------------------------
(* The streams *)

\* onShutdownDone.
AuthShutdown ==
  /\ auth.st = "shutdown"
  /\ auth' = [auth EXCEPT !.st = "closing"]
  /\ UNCHANGED <<method, delayTime, game, replies, inGame, timers, http, faults>>

GameShutdown ==
  /\ game = "shutdown"
  /\ game' = "closing"
  /\ UNCHANGED <<method, delayTime, auth, replies, inGame, timers, http, faults>>

\* The peer closes the connection, or it is reset.
AuthLost(reset) ==
  /\ auth.st = "connected" /\ faults < MaxFaults
  /\ faults' = faults + 1
  /\ auth' = [auth EXCEPT !.st = IF reset THEN Abort(@) ELSE Close(@)]
  /\ UNCHANGED <<method, delayTime, game, replies, inGame, timers, http>>

GameLost(reset) ==
  /\ game = "connected" /\ faults < MaxFaults
  /\ faults' = faults + 1
  /\ game' = IF reset THEN Abort(game) ELSE Close(game)
  /\ UNCHANGED <<method, delayTime, auth, replies, inGame, timers, http>>

Next ==
  \/ \E ok \in BOOLEAN : onAuthConnected(ok) \/ onPacketAuthPasswordKey(ok) \/ onPacketSelectServerResult(ok) \/ onGameStreamConnected(ok)
  \/ \E stale \in BOOLEAN, ok \in BOOLEAN : HttpAnswer(stale, ok)
  \/ onAuthResult \/ onServerList \/ AuthUnconnected
  \/ onGamePacketReceived \/ Kicks \/ onGGTimerExpired \/ GameUnconnected \/ onDelayRecoExpired
  \/ AuthShutdown \/ GameShutdown
  \/ \E reset \in BOOLEAN : AuthLost(reset) \/ GameLost(reset)

Spec == Init /\ [][Next]_vars

\* The loop runs, the servers answer, connections are closed in the end.
AuthProgress ==
  \/ \E ok \in BOOLEAN : onAuthConnected(ok) \/ onPacketAuthPasswordKey(ok) \/ HttpAnswer(FALSE, ok) \/ onPacketSelectServerResult(ok)
  \/ onAuthResult \/ onServerList
  \/ onDelayRecoExpired

FairSpec ==
  /\ Spec
  /\ WF_vars(AuthProgress) /\ WF_vars(AuthShutdown \/ AuthUnconnected)
  /\ WF_vars(\E ok \in BOOLEAN : onGameStreamConnected(ok)) /\ WF_vars(onGamePacketReceived)
  /\ WF_vars(GameShutdown \/ GameUnconnected)

-----------------------------------------------------------------------------
(* Properties *)

\* The client always has something to wait for: a connection or the delay.
\* Whatever fails, and in whatever order the two sessions end, it is never left
\* with both sessions unconnected and nothing that would connect again.
Alive == auth.st # "unconnected" \/ game # "unconnected" \/ timers.delay

\* The delay runs only while no login is under way: connect, which sets the
\* ciphers and the login state before the stream refuses it, is never called on
\* a session that is in use.  (With the web login, see ServerSelected, it may be.)
OneAttempt ==
  timers.delay /\ method # "bora" => 
    /\ auth.st \notin {"connecting", "connected"}
    /\ game \notin {"connecting", "connected"}

\* serverList.at(selectedServer) is only reached with the list of this login.  A
\* web answer to an earlier connection can make two logins of one, and empty it.
ServerSelected == method # "bora" /\ "select" \in {replies.auth[i] : i \in DOMAIN replies.auth} /\ Readable(auth.st) => auth.listed

\* The client does not believe to be in the game when its connection is gone.
InGameConnected == inGame => game # "unconnected"

\* A client makes one login at a time, ends in the server it selected, and never
\* stops trying, in whatever order its two connections end.
LoginKept == Alive /\ OneAttempt /\ ServerSelected /\ InGameConnected

\* When nothing more goes wrong, a client without web login is in the game in
\* the end.
AllPlay == faults = MaxFaults /\ method # "bora" => inGame
GetsInGame == <>[]AllPlay
=============================================================================
