---------------------------- MODULE FilterSessions ----------------------------
(***************************************************************************)
(* rzfilter between one client and its server: ClientSession,              *)
(* ServerSession, the proxy of the client's end (EndpointProxy) and the    *)
(* chain of FilterProxys between them.                                     *)
(*                                                                         *)
(* Packets are numbered as they are sent.  A filter may drop a packet; the *)
(* handler a script has for the end of the client may keep the server's    *)
(* connection, which a behaviour decides once.  A stream that was connected*)
(* is shut down, and still read, before its session hears that it is       *)
(* unconnected.  Undetached is a mutated form of the definition that       *)
(* follows it.                                                             *)
(***************************************************************************)
EXTENDS Naturals, Sequences

CONSTANTS
  Filters,      \* length of the chain: 0 .. 2
  MaxPackets    \* bound: packets in each direction

VARIABLES
  client,       \* ClientSession: state of its stream, and is serverSession set?
  server,       \* ServerSession: state of its stream, is clientSession set, is clientEndpointProxy?
  pendingMessages,
  toServer,     \* packets: from the client, let through, written to the server
  toClient,     \* packets: from the server, let through, written to the client
  chain         \* the filters, and do they keep the server's connection?

vars == <<client, server, pendingMessages, toServer, toClient, chain>>

NoPackets == [sent |-> 0, through |-> << >>, written |-> << >>]

Init ==
  /\ client = [st |-> "accepted", peer |-> TRUE]
  /\ server = [st |-> "none", peer |-> TRUE, proxy |-> TRUE]
  /\ pendingMessages = << >>
  /\ toServer = NoPackets /\ toClient = NoPackets
  /\ \E n \in Filters, keeps \in BOOLEAN : chain = [length |-> n, keepsServer |-> n > 0 /\ keeps]

\* Does a packet pass the filters?
Verdicts == IF chain.length = 0 THEN {TRUE} ELSE BOOLEAN

\* Stream::close; nothing is read from a stream that is aborted.
Close(session) ==
  CASE session.st = "connected" -> [session EXCEPT !.st = "shutdown"]
    [] session.st = "connecting" -> [session EXCEPT !.st = "aborted"]
    [] OTHER -> session
Aborted(session) == [session EXCEPT !.st = "aborted"]

Open == {"connecting", "connected"}
Readable == {"connected", "shutdown"}
Ending == {"shutdown", "aborted"}

-----------------------------------------------------------------------------
(* ClientSession *)

\* onConnected, from SessionServer: the server session connects.
onClientConnected ==
  /\ client.st = "accepted"
  /\ client' = [client EXCEPT !.st = "connected"]
  /\ server' = [server EXCEPT !.st = "connecting"]
  /\ UNCHANGED <<pendingMessages, toServer, toClient, chain>>

\* ServerSession::sendPacket: a packet waits unless the stream is connected.
SendPacket(packet) ==
  /\ toServer' = [toServer EXCEPT !.sent = packet, !.through = Append(@, packet),
                                  !.written = IF server.st = "connected" THEN Append(@, packet) ELSE @]
  /\ pendingMessages' = IF server.st = "connected" THEN pendingMessages ELSE Append(pendingMessages, packet)

\* onPacketReceived: through the filters, as long as there is a server session.
onClientPacketReceived ==
  /\ client.st \in Readable
  /\ toServer.sent < MaxPackets
  /\ \E pass \in Verdicts :
       IF client.peer /\ pass THEN SendPacket(toServer.sent + 1)
       ELSE toServer' = [toServer EXCEPT !.sent = @ + 1] /\ UNCHANGED pendingMessages
  /\ UNCHANGED <<client, server, toClient, chain>>

\* The client closes, is kicked, or its connection fails.
ClientCloses ==
  /\ client.st = "connected"
  /\ client' \in {Close(client), Aborted(client)}
  /\ UNCHANGED <<server, pendingMessages, toServer, toClient, chain>>

\* detachClient forgets the client itself and the end that filters send to.
detachClient == [server EXCEPT !.peer = FALSE, !.proxy = FALSE]

\* onDisconnected, then the session is deleted.
onClientDisconnected ==
  /\ client.st \in Ending
  /\ client' = [client EXCEPT !.st = "gone", !.peer = FALSE]
  /\ server' = IF ~client.peer THEN server
               ELSE IF chain.keepsServer THEN detachClient ELSE Close(detachClient)
  /\ UNCHANGED <<pendingMessages, toServer, toClient, chain>>

-----------------------------------------------------------------------------
(* ServerSession *)

\* onConnected: what waited is sent, in the order it came.
onServerConnected ==
  /\ server.st = "connecting"
  /\ server' = [server EXCEPT !.st = "connected"]
  /\ toServer' = [toServer EXCEPT !.written = @ \o pendingMessages]
  /\ pendingMessages' = << >>
  /\ UNCHANGED <<client, toClient, chain>>

\* The server closes, the connection fails or cannot be made, or a script
\* closes what it kept open.
ServerCloses ==
  /\ server.st \in Open
  /\ server' \in {Close(server), Aborted(server)}
  /\ UNCHANGED <<client, pendingMessages, toServer, toClient, chain>>

\* onPacketReceived: to the proxy, which sends to the client as long as it is
\* there; a closing stream writes nothing.
onServerPacketReceived ==
  /\ server.st \in Readable
  /\ toClient.sent < MaxPackets
  /\ \E pass \in Verdicts :
       LET packet == toClient.sent + 1
       IN  toClient' = [toClient EXCEPT !.sent = packet,
                          !.through = IF pass /\ server.proxy THEN Append(@, packet) ELSE @,
                          !.written = IF pass /\ server.proxy /\ client.st = "connected" THEN Append(@, packet) ELSE @]
  /\ UNCHANGED <<client, server, pendingMessages, toServer, chain>>

Undetached == client

\* The client session forgets the server session and is closed, whatever the
\* filters' handlers do.
DetachServer ==
  IF ~server.peer THEN client
  ELSE Close([client EXCEPT !.peer = FALSE])

\* onDisconnected: deleteLater.
onServerDisconnected ==
  /\ server.st \in Ending
  /\ client' = DetachServer
  /\ server' = [(IF server.peer THEN detachClient ELSE server) EXCEPT !.st = "scheduled"]
  /\ UNCHANGED <<pendingMessages, toServer, toClient, chain>>

\* deleteObjects of the event loop.
deleteObjects ==
  /\ server.st = "scheduled"
  /\ server' = [server EXCEPT !.st = "deleted"]
  /\ UNCHANGED <<client, pendingMessages, toServer, toClient, chain>>

Next ==
  \/ onClientConnected \/ onClientPacketReceived \/ ClientCloses \/ onClientDisconnected
  \/ onServerConnected \/ onServerPacketReceived \/ ServerCloses \/ onServerDisconnected
  \/ deleteObjects

-----------------------------------------------------------------------------
(* Properties *)

\* Neither session, nor the filters, hold a session that is deleted.
NoneDangling ==
  /\ client.peer => server.st \notin {"scheduled", "deleted"}
  /\ server.peer \/ server.proxy => client.st # "gone"

\* What the filters let through reaches the server in the order it was sent,
\* or still waits for the connection; nothing waits once there is one.
NothingLost ==
  /\ toServer.through = toServer.written \o pendingMessages
  /\ server.st = "connected" => pendingMessages = << >>

\* When one end is gone, the other one is closed, unless a filter keeps the server.
EndsTogether ==
  /\ client.st = "gone" /\ ~chain.keepsServer => server.st \notin Open
  /\ server.st \in {"scheduled", "deleted"} => client.st # "connected"

\* The client sees a prefix of what was let through to it.
ClientInOrder ==
  toClient.written = SubSeq(toClient.through, 1, Len(toClient.written))

SessionsKept == NoneDangling /\ NothingLost /\ EndsTogether /\ ClientInOrder
=============================================================================
