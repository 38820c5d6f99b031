---------------------------- MODULE SessionServer ----------------------------
(***************************************************************************)
(* A server of librzu: the listening Stream, the sessions it accepts, the  *)
(* idle check and the limits of BanManager (lib/NetSession, lib/Stream).   *)
(*                                                                         *)
(* Time passes in ticks, Period of them between two idle checks.  Every    *)
(* callback of libuv is an action; a SocketSession is used once, and is    *)
(* listed in sockets until the Stream it owns is unconnected.              *)
(* Spared and ReturnsOnError are mutated forms of the definitions that     *)
(* follow them.                                                            *)
(***************************************************************************)
EXTENDS Integers, FiniteSets

CONSTANTS
  Sessions,     \* SocketSession objects, with their Stream
  Ips,          \* remote addresses, without the port
  Limits,       \* values of the configuration: <<per day, at once>>, 0 for none
  BanFiles,     \* contents of the ban file
  Period,       \* checkIdleSocketPeriod, in ticks
  MaxPerDay     \* bound: connections counted per address

\* What the sizes are, and bans are bans of addresses.
Assumptions ==
  /\ IsFiniteSet(Sessions) /\ Ips # {} /\ Period \in Nat
  /\ BanFiles \in [DOMAIN BanFiles -> SUBSET Ips]

VARIABLES
  socket,       \* state of serverSocket, "none" before the first start
  openServer,
  timer,        \* ticks until onCheckIdleSockets; -1 when stopped
  sessions,     \* the sessions
  config,       \* the limits in the configuration
  ban           \* BanManager: cached limits, bannedIps, ipDatas, have limits been off?

vars == <<socket, openServer, timer, sessions, config, ban>>

Zero == [ip \in Ips |-> 0]

Init ==
  /\ socket = "none" /\ openServer = FALSE /\ timer = -1
  /\ sessions = [s \in Sessions |-> [st |-> "none", ip |-> CHOOSE ip \in Ips : TRUE, flag |-> FALSE, age |-> 0, writes |-> FALSE]]
  /\ config \in Limits
  /\ ban = [limits |-> config, banned |-> {}, clients |-> Zero, today |-> Zero, off |-> FALSE]

Connected == {s \in Sessions : sessions[s].st = "connected"}

\* The sockets of the server.
Listed(ip) == {s \in Sessions : sessions[s].st \notin {"none", "gone"} /\ sessions[s].ip = ip}

-----------------------------------------------------------------------------
(* Stream: what happens to the stream of a session. *)

\* close: a connected stream is shut down once its writes are out.
Closing(S) == [s \in Sessions |-> IF s \in S \cap Connected THEN [sessions[s] EXCEPT !.st = "shutdown"] ELSE sessions[s]]

\* abort.
Aborted(s) == IF s \in Connected THEN [sessions EXCEPT ![s].st = "closing", ![s].writes = FALSE] ELSE sessions

\* packetTransferedSinceLastCheck is set by data read and by data written.
Transferred(s) == [sessions EXCEPT ![s].writes = FALSE, ![s].flag = TRUE, ![s].age = 0]

\* onReadCompleted: data, the end of the stream, or an error.
onReadCompleted(s, nread) ==
  /\ sessions[s].st \in {"connected", "shutdown"}
  /\ sessions' = CASE nread = "data" -> [sessions EXCEPT ![s].flag = TRUE, ![s].age = 0]
                   [] nread = "eof" -> Closing({s})
                   [] nread = "error" -> Aborted(s)
  /\ UNCHANGED <<socket, openServer, timer, config, ban>>

\* Stream::write, by the session's own handlers.
write(s) ==
  /\ s \in Connected /\ ~sessions[s].writes
  /\ sessions' = [sessions EXCEPT ![s].writes = TRUE]
  /\ UNCHANGED <<socket, openServer, timer, config, ban>>

\* An error of a write aborts, unless the stream is being closed.
onWriteCompleted(s, ok) ==
  /\ sessions[s].writes
  /\ sessions' = IF ok THEN Transferred(s) ELSE [Aborted(s) EXCEPT ![s].writes = FALSE]
  /\ UNCHANGED <<socket, openServer, timer, config, ban>>

\* The session closes itself.
SessionCloses(s) ==
  /\ s \in Connected
  /\ sessions' = Closing({s})
  /\ UNCHANGED <<socket, openServer, timer, config, ban>>

ReturnsOnError(s, ok) ==
  /\ sessions[s].st = "shutdown" /\ ~sessions[s].writes
  /\ sessions' = [sessions EXCEPT ![s].st = IF ok THEN "closing" ELSE "stuck"]
  /\ UNCHANGED <<socket, openServer, timer, config, ban>>

\* The handle is closed after an error too.
onShutdownDone(s, ok) ==
  /\ sessions[s].st = "shutdown" /\ ~sessions[s].writes
  /\ sessions' = [sessions EXCEPT ![s].st = "closing"]
  /\ UNCHANGED <<socket, openServer, timer, config, ban>>

\* BanManager::closedClient.
closedClient(ip) == [ban EXCEPT !.clients[ip] = IF @ > 0 THEN @ - 1 ELSE @]

\* onConnectionClosed, onSocketStateChanged and socketClosed: the session leaves
\* the server and is deleted.
onConnectionClosed(s) ==
  /\ sessions[s].st = "closing"
  /\ sessions' = [sessions EXCEPT ![s].st = "gone", ![s].flag = FALSE, ![s].age = 0]
  /\ ban' = closedClient(sessions[s].ip)
  /\ UNCHANGED <<socket, openServer, timer, config>>

-----------------------------------------------------------------------------
(* BanManager *)

\* loadFile: the cached limits, and the bans of the file if there is one.
loadFile(file) ==
  [ban EXCEPT !.limits = config,
              !.off = @ \/ config = <<0, 0>>,
              !.banned = IF file = "none" THEN @ ELSE {<<ip, "any">> : ip \in BanFiles[file]}]

\* checkAcceptNewClient: the answer and what it leaves in the counters.
checkAcceptNewClient(ip) ==
  LET perDay == ban.limits[1]
      atOnce == ban.limits[2]
      counted == [ban EXCEPT !.today[ip] = @ + 1]
  IN  IF <<ip, "any">> \in ban.banned THEN [ok |-> FALSE, ban |-> ban]
      ELSE IF ban.limits = <<0, 0>> THEN [ok |-> TRUE, ban |-> ban]
      ELSE IF perDay > 0 /\ ban.today[ip] >= perDay
        THEN [ok |-> FALSE, ban |-> [ban EXCEPT !.banned = @ \cup {<<ip, "any">>}]]
      ELSE IF atOnce > 0 /\ ban.clients[ip] >= atOnce THEN [ok |-> FALSE, ban |-> counted]
      ELSE [ok |-> TRUE, ban |-> [counted EXCEPT !.clients[ip] = @ + 1]]

\* banIp, for the address of a session: the port is not cleared.
banIp(s) ==
  /\ s \in Connected
  /\ ban' = [ban EXCEPT !.banned = @ \cup {<<sessions[s].ip, "port">>}]
  /\ UNCHANGED <<socket, openServer, timer, sessions, config>>

\* onTimerExpire, once a day.
onTimerExpire ==
  /\ ban.today # Zero
  /\ ban' = [ban EXCEPT !.today = Zero]
  /\ UNCHANGED <<socket, openServer, timer, sessions, config>>

\* The limits are changed in the configuration.
SetConfig(limits) ==
  /\ limits # config
  /\ config' = limits
  /\ UNCHANGED <<socket, openServer, timer, sessions, ban>>

-----------------------------------------------------------------------------
(* SessionServerCommon *)

\* start and Stream::listen.  The port may be taken; listen also fails when the
\* socket is still being closed.
start(file, free) ==
  /\ socket # "listening"
  /\ ban' = loadFile(file)
  /\ openServer' = TRUE
  /\ timer' = Period
  /\ socket' = IF socket = "closing" THEN socket ELSE IF free THEN "listening" ELSE "closing"
  /\ UNCHANGED <<sessions, config>>

\* stop; without a socket it has nothing to close (a null pointer in the code).
stop ==
  /\ socket # "none"
  /\ timer' = -1
  /\ openServer' = FALSE
  /\ socket' = IF socket = "listening" THEN "closing" ELSE socket
  /\ sessions' = Closing(Sessions)
  /\ UNCHANGED <<config, ban>>

\* onConnectionClosed of the listening stream.
ServerClosed ==
  /\ socket = "closing"
  /\ socket' = "unconnected"
  /\ UNCHANGED <<openServer, timer, sessions, config, ban>>

\* A session with its connected stream, whose setState sets the flag.
NewSession(ip) == [st |-> "connected", ip |-> ip, flag |-> TRUE, age |-> 0, writes |-> FALSE]

\* onNewConnection: accept, the check, the session.
onNewConnection(s, ip) ==
  /\ socket = "listening" /\ openServer
  /\ sessions[s].st = "none" /\ ban.today[ip] < MaxPerDay
  /\ \E answer \in {checkAcceptNewClient(ip)} :
       /\ ban' = answer.ban
       /\ sessions' = IF answer.ok THEN [sessions EXCEPT ![s] = NewSession(ip)] ELSE sessions
  /\ UNCHANGED <<socket, openServer, timer, config>>

Spared == {s \in Connected : ~sessions[s].flag /\ ~sessions[s].writes}

\* Nothing was transferred since the last check.
Idle == {s \in Connected : ~sessions[s].flag}

onCheckIdleSockets ==
  /\ timer = 0
  /\ timer' = Period
  /\ sessions' = [s \in Sessions |-> IF s \in Connected \ Idle THEN [sessions[s] EXCEPT !.flag = FALSE] ELSE Closing(Idle)[s]]
  /\ UNCHANGED <<socket, openServer, config, ban>>

\* A tick of the clock; a timer that is due comes first.
Tick ==
  /\ timer # 0 /\ Connected # {}
  /\ timer' = IF timer > 0 THEN timer - 1 ELSE timer
  /\ sessions' = [s \in Sessions |-> IF s \in Connected THEN [sessions[s] EXCEPT !.age = @ + 1] ELSE sessions[s]]
  /\ UNCHANGED <<socket, openServer, config, ban>>

Next ==
  \/ \E file \in DOMAIN BanFiles \cup {"none"}, free \in BOOLEAN : start(file, free)
  \/ stop \/ ServerClosed
  \/ onTimerExpire \/ onCheckIdleSockets \/ Tick
  \/ \E limits \in Limits : SetConfig(limits)
  \/ \E s \in Sessions :
       \/ \E ip \in Ips : onNewConnection(s, ip)
       \/ \E nread \in {"data", "eof", "error"} : onReadCompleted(s, nread)
       \/ \E ok \in BOOLEAN : onWriteCompleted(s, ok)
       \/ write(s) \/ SessionCloses(s) \/ banIp(s)
       \/ (\E ok \in BOOLEAN : onShutdownDone(s, ok)) \/ onConnectionClosed(s)

\* The loop delivers callbacks; peers read what is written to them.
Callback(s) == onWriteCompleted(s, TRUE) \/ (\E ok \in BOOLEAN : onShutdownDone(s, ok)) \/ onConnectionClosed(s)

Spec == Init /\ [][Next]_vars
FairSpec == Spec /\ \A s \in Sessions : WF_vars(Callback(s))

-----------------------------------------------------------------------------
(* Properties *)

\* The clients counted for an address are never more than it has, or it would be
\* locked out for good; and they are not fewer unless the limits were switched
\* off at some start (then connections are accepted without being counted).
Counted ==
  \A ip \in Ips : /\ ban.clients[ip] <= Cardinality(Listed(ip))
                  /\ ~ban.off => ban.clients[ip] = Cardinality(Listed(ip))

\* SessionServer.h: "real timeout vary between idleTimeoutSec and
\* idleTimeoutSec*2 seconds".  No connection is idle for longer than two
\* periods, whenever it was accepted and the server was restarted...
IdleBound == \A s \in Connected : sessions[s].age <= 2 * Period

\* The server's books about its connections are right, whatever way they end
\* (BanManager's counters and the marks of the idle check).
CountsKept == Counted /\ IdleBound

\* ... and none is closed by the check after less than one.
KicksIdle ==
  timer = 0 /\ timer' = Period => \A s \in Connected : sessions'[s].st = "shutdown" => sessions[s].age >= Period
KickedIdle == [][KicksIdle]_vars

\* Every session that begins to close is removed from the server and deleted.
NoneClosing == \A s \in Sessions : sessions[s].st \in {"none", "connected", "gone"}
Removed == <>[]NoneClosing
=============================================================================
