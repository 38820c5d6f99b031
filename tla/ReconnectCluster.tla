-------------------------- MODULE ReconnectCluster --------------------------
(***************************************************************************)
(* The auth server (module AuthServer), the reconnect gateway (module      *)
(* GsReconnect) and one game server behind each GameServerSession of the   *)
(* gateway, connected by TCP connections that can break on either side     *)
(* without the other noticing.                                             *)
(*                                                                         *)
(* The game server is not part of the repository: it is modelled from the  *)
(* packets the gateway and the auth server exchange with it.  It admits    *)
(* the players the auth server accepts, answers every kick, and reports    *)
(* its players' departures.  It talks to the gateway on the same host, so  *)
(* a packet between the two is handled in the step that sends it.          *)
(***************************************************************************)
EXTENDS AuthServer, SequencesExt

CONSTANTS
  Games,          \* game servers, and the gateway's sessions with them
  Slots,          \* the gateway's AuthSessions; their GUIDs are Guids
  IdxOf,          \* the server index of each game server
  InfoOf,         \* the name, address, ... of each game server
  MaxCount,       \* accounts per TS_GA_ACCOUNT_LIST
  MaxPending,     \* bound: deferred packets
  MaxChannel,     \* bound: packets in flight on one connection
  MaxLosses,      \* bound: connections the network breaks
  MaxRestarts,    \* bound: restarts of the auth server
  KickFailures    \* do game servers send TS_GA_CLIENT_KICK_FAILED?

ASSUME ClusterAssumption ==
  /\ MaxCount \in Nat \ {0} /\ MaxPending \in Nat
  /\ Null \notin Games \cup Slots
  /\ Slots \subseteq Guids
  /\ IdxOf \in [Games -> Idx] /\ InfoOf \in [Games -> Infos]

VARIABLES
  as, game, out, toGame,   \* the gateway
  peer,      \* the auth server's session at the other end of each AuthSession
  up,        \* packets in flight to each GameServerSession of the auth server
  down,      \* ... and back
  players,   \* accounts in game on each game server
  kicks,     \* kicks each game server has to answer
  losses,    \* connections broken so far
  restarts   \* restarts of the auth server so far

GW == INSTANCE GsReconnect WITH
        Accounts <- Names \X Ids, MaxAccounts <- MaxList

gwVars == <<as, game, out, toGame>>

netVars == <<peer, up, down>>

gameVars == <<players, kicks>>

bounds == <<losses, restarts>>

clusterVars == <<vars, gwVars, netVars, gameVars, bounds>>

ClusterInit ==
  /\ Init
  /\ GW!Init
  /\ peer = [a \in Slots |-> Null]
  /\ up = [s \in Sessions |-> << >>]
  /\ down = [s \in Sessions |-> << >>]
  /\ players = [g \in Games |-> {}]
  /\ kicks = [g \in Games |-> {}]
  /\ losses = 0
  /\ restarts = 0

-----------------------------------------------------------------------------
(* Effects of a step of one party on the others                             *)

\* The game server handles what the gateway has just sent it, if it is still there.
GameReacts ==
  LET g == toGame'.game
      Told(h, kind) ==
        {toGame'.packets[i].about :
           i \in {j \in DOMAIN toGame'.packets :
                    h = g /\ game[h].phase = "connected" /\ toGame'.packets[j].kind = kind}}
  IN  /\ players' = [h \in Games |-> players[h] \cup Told(h, "CLIENT_OK")]
      /\ kicks' = [h \in Games |-> kicks[h] \cup Told(h, "KICK")]

\* What the gateway has just written travels to the auth server.
Uplink(from) ==
  LET s == peer[out'.slot]
  IN  up' = IF out'.packets = << >> \/ s = Null THEN from
            ELSE [from EXCEPT ![s] = @ \o out'.packets]

\* What the auth server has just sent travels to the gateway.
AuthPacket(m) ==
  GW!Packet(m.kind, IF m.kind = "LOGIN_OK" THEN <<m.account, byName[m.account]>>
                    ELSE <<m.account, Null>>)

Downlink(from) ==
  down' = [s \in Sessions |->
             from[s] \o SetToSeq({AuthPacket(m) : m \in {n \in sent' : n.to = s}})]

WithinBounds == \A s \in Sessions : Len(down'[s]) <= MaxChannel

-----------------------------------------------------------------------------
(* Connections                                                              *)

\* The gateway's connection is accepted by the auth server.
Connect(a, s) ==
  /\ gs[s].phase = "none"
  /\ GW!onConnected(a)
  /\ AcceptGameServer(s)
  /\ peer' = [peer EXCEPT ![a] = s]
  /\ up' = [up EXCEPT ![s] = out'.packets]
  /\ down' = [down EXCEPT ![s] = << >>]
  /\ UNCHANGED <<gameVars, bounds>>

\* The gateway learns that its connection is lost: the auth server has closed
\* it, or the network is broken.
GatewayLosesAuth(a) ==
  /\ GW!AuthConnectionLost(a)
  /\ \/ /\ as[a].stream = "connected"
        /\ peer[a] # Null => gs[peer[a]].phase # "connected"
        /\ UNCHANGED bounds
     \/ losses < MaxLosses /\ losses' = losses + 1 /\ UNCHANGED restarts
  /\ peer' = [peer EXCEPT ![a] = Null]
  /\ UNCHANGED <<vars, up, down, gameVars>>

\* The auth server learns it: the gateway's end is closed and everything it sent
\* has been read, or the network is broken.
AuthLosesGateway(s) ==
  /\ GameConnectionLost(s)
  /\ \/ /\ \A a \in Slots : peer[a] # s
        /\ up[s] = << >>
        /\ UNCHANGED bounds
     \/ losses < MaxLosses /\ losses' = losses + 1 /\ UNCHANGED restarts
  /\ up' = [up EXCEPT ![s] = << >>]
  /\ UNCHANGED <<gwVars, peer, down, gameVars>>

AuthSessionEnds(s) ==
  /\ GameSessionClosed(s)
  /\ up' = [up EXCEPT ![s] = << >>]
  /\ down' = [down EXCEPT ![s] = << >>]
  /\ peer' = [a \in Slots |-> IF peer[a] = s THEN Null ELSE peer[a]]
  /\ UNCHANGED <<gwVars, gameVars, bounds>>

\* The auth server is restarted: its registries and its sessions are gone, and
\* the gateway has yet to notice.
AuthRestarts ==
  /\ restarts < MaxRestarts
  /\ restarts' = restarts + 1
  /\ cd' = [i \in Ids |-> NoClient]
  /\ byName' = [n \in Names |-> Null]
  /\ servers' = [x \in Idx |-> NoServer]
  /\ gs' = [s \in Sessions |-> [NewGameSession EXCEPT !.phase = "none"]]
  /\ cs' = [c \in Clients |-> [NewClientSession EXCEPT !.phase = "none"]]
  /\ sent' = {}
  /\ peer' = [a \in Slots |-> Null]
  /\ up' = [s \in Sessions |-> << >>]
  /\ down' = [s \in Sessions |-> << >>]
  /\ UNCHANGED <<gwVars, gameVars, losses>>

\* The gateway's side is closed, reconnects later or is deleted.
GatewaySession(a) ==
  /\ \/ GW!onDisconnected(a) /\ peer' = [peer EXCEPT ![a] = Null]
     \/ GW!onTimerReconnect(a) /\ UNCHANGED peer
     \/ GW!DeleteAuthSession(a) /\ peer' = [peer EXCEPT ![a] = Null]
  /\ UNCHANGED <<vars, up, down, gameVars, bounds>>

-----------------------------------------------------------------------------
(* Packets                                                                  *)

\* The auth server handles the next packet of session s.
AuthHandles(s, p) ==
  \/ /\ p.kind = "LOGIN"
     /\ onServerLogin(s, "WITH_LOGOUT_EXT", IdxOf[p.about[1]], InfoOf[p.about[1]], p.about[2])
     /\ down' = [down EXCEPT ![s] = Append(@,
          GW!Packet(IF gs'[s].gameData # gs[s].gameData THEN "LOGIN_RESULT_OK"
                    ELSE "LOGIN_RESULT_FAILED", Null))]
  \/ /\ p.kind = "ACCOUNT_LIST"
     /\ Len(p.accounts) = p.room
     /\ onAccountList(s, p.accounts, p.final)
     /\ Downlink(down)
  \/ p.kind = "LOGOUT" /\ onServerLogout(s) /\ Downlink(down)
  \/ /\ p.kind = "CLIENT_LOGIN"
     /\ \E otp \in Otps : onClientLogin(s, p.about, otp)
     /\ Downlink(down)
  \/ p.kind = "CLIENT_LOGOUT" /\ onClientLogout(s, p.about) /\ Downlink(down)
  \/ p.kind = "KICK_FAILED" /\ onClientKickFailed(s, p.about) /\ Downlink(down)

\* Packets its handlers return from at once.
AuthIgnores(s, p) ==
  \/ p.kind \in {"ACCOUNT_LIST", "LOGOUT"} /\ gs[s].gameData = Null
  \/ p.kind = "ACCOUNT_LIST" /\ Len(p.accounts) # p.room
  \/ /\ p.kind \in {"CLIENT_LOGOUT", "KICK_FAILED"}
     /\ gs[s].gameData = Null \/ byName[p.about] = Null

AuthReceives(s) ==
  /\ up[s] # << >>
  /\ CanRead(gs[s])
  /\ up' = [up EXCEPT ![s] = Tail(@)]
  /\ \/ AuthHandles(s, Head(up[s]))
     \/ AuthIgnores(s, Head(up[s])) /\ sent' = {} /\ UNCHANGED <<cd, byName, servers, gs, cs, down>>
  /\ WithinBounds
  /\ UNCHANGED <<gwVars, peer, gameVars, bounds>>

\* The gateway handles the next packet of its AuthSession a.
GatewayHandles(a, p) ==
  \/ p.kind = "LOGIN_RESULT_OK" /\ GW!onLoginResult(a, TRUE)
  \/ p.kind = "LOGIN_RESULT_FAILED" /\ GW!onLoginResult(a, FALSE)
  \/ p.kind = "LOGIN_OK" /\ GW!onClientLoginResult(a, p.about, TRUE)
  \/ p.kind = "LOGIN_DENIED" /\ GW!onClientLoginResult(a, p.about, FALSE)
  \/ p.kind = "KICK" /\ GW!ForwardToGame(a, p.about[1])

GatewayIgnores(a, p) ==
  \/ p.kind \in {"LOGIN_RESULT_OK", "LOGIN_RESULT_FAILED"} /\ ~as[a].pendingLogin
  \/ p.kind \in {"LOGIN_OK", "LOGIN_DENIED", "KICK"} /\ as[a].game = Null

GatewayReceives(a) ==
  LET s == peer[a]
  IN  /\ s # Null
      /\ down[s] # << >>
      /\ GW!CanRead(as[a])
      /\ down' = [down EXCEPT ![s] = Tail(@)]
      /\ \/ GatewayHandles(a, Head(down[s]))
         \/ GatewayIgnores(a, Head(down[s])) /\ GW!Become(a, as[a]) /\ GW!Silent /\ UNCHANGED game
      /\ Uplink(up)
      /\ GameReacts
      /\ UNCHANGED <<vars, peer, bounds>>

-----------------------------------------------------------------------------
(* The game server                                                          *)

\* A new AuthSession draws a GUID that is in use nowhere.
FreshGuid(a) ==
  /\ \A x \in Idx : servers[x].guid # a
  /\ \A s \in Sessions : \A i \in DOMAIN up[s] :
       up[s][i].kind = "LOGIN" => up[s][i].about[2] # a

GameConnects(g) ==
  /\ \/ GW!AcceptGame(g)
     \/ \E a \in Slots : FreshGuid(a) /\ GW!onServerLogin(g, a)
  /\ UNCHANGED <<vars, netVars, gameVars, bounds>>

\* The game server stops; its players are gone with it.
GameStops(g) ==
  /\ GW!CloseGame(g, TRUE)
  /\ players' = [players EXCEPT ![g] = {}]
  /\ kicks' = [kicks EXCEPT ![g] = {}]
  /\ UNCHANGED <<vars, netVars, bounds>>

GameGone(g) ==
  /\ GW!GameClosed(g)
  /\ Uplink(up)
  /\ UNCHANGED <<vars, peer, down, gameVars, bounds>>

HasRoom(g) ==
  LET a == game[g].auth
  IN  a # Null /\ (peer[a] # Null => Len(up[peer[a]]) < MaxChannel)

\* A player connects with the password the auth server gave it.
PlayerArrives(g, name) ==
  /\ HasRoom(g)
  /\ name \notin players[g]
  /\ GW!onClientLogin(g, name)
  /\ Uplink(up)
  /\ GameReacts
  /\ UNCHANGED <<vars, peer, down, bounds>>

\* A player leaves by itself or because it is kicked.
PlayerLeaves(g, name) ==
  /\ name \in players[g]
  /\ players' = [players EXCEPT ![g] = @ \ {name}]
  /\ kicks' = [kicks EXCEPT ![g] = @ \ {name}]
  /\ IF game[g].auth = Null THEN UNCHANGED <<gwVars, up>>
     ELSE HasRoom(g) /\ GW!onClientLogout(g, name) /\ Uplink(up)
  /\ UNCHANGED <<vars, peer, down, bounds>>

\* A kick of an account that is not in game.
KickAnswered(g, name) ==
  /\ name \in kicks[g] \ players[g]
  /\ kicks' = [kicks EXCEPT ![g] = @ \ {name}]
  /\ \/ ~KickFailures /\ UNCHANGED <<gwVars, up>>
     \/ KickFailures /\ HasRoom(g) /\ GW!ForwardToAuth(g, "KICK_FAILED", name) /\ Uplink(up)
  /\ UNCHANGED <<vars, peer, down, players, bounds>>

-----------------------------------------------------------------------------
\* The players' clients, at the auth server.
ClientStep(c) ==
  /\ ClientNext(c)
  /\ Downlink(down)
  /\ WithinBounds
  /\ UNCHANGED <<gwVars, peer, up, gameVars, bounds>>

NetworkNext ==
  \/ \E a \in Slots, s \in Sessions : Connect(a, s)
  \/ \E a \in Slots : GatewayLosesAuth(a) \/ GatewaySession(a) \/ GatewayReceives(a)
  \/ \E s \in Sessions : AuthLosesGateway(s) \/ AuthSessionEnds(s) \/ AuthReceives(s)

GameNext(g) ==
  \/ GameConnects(g)
  \/ GameStops(g)
  \/ GameGone(g)
  \/ \E name \in Names :
       PlayerArrives(g, name) \/ PlayerLeaves(g, name) \/ KickAnswered(g, name)

\* What happens while the auth server runs.
RunningNext ==
  \/ NetworkNext
  \/ \E g \in Games : GameNext(g)
  \/ \E c \in Clients : ClientStep(c)

ClusterNext == AuthRestarts \/ RunningNext

ClusterSpec == ClusterInit /\ [][ClusterNext]_clusterVars

\* The auth server is never restarted.
RunningSpec == ClusterInit /\ [][RunningNext]_clusterVars

\* The network breaks nothing in the step.
NoLoss == UNCHANGED bounds

\* Connections that can be made are made, packets of a working connection are
\* read, a peer that is gone is noticed (both ends set a TCP keep-alive), closes
\* complete and timers expire.  Nothing is assumed about players and clients.
ClusterFairness ==
  /\ \A a \in Slots :
       /\ WF_clusterVars(\E s \in Sessions : Connect(a, s))
       /\ WF_clusterVars(GatewayLosesAuth(a) /\ NoLoss)
       /\ WF_clusterVars(GatewaySession(a))
       /\ WF_clusterVars(GatewayReceives(a))
  /\ \A s \in Sessions :
       /\ WF_clusterVars(AuthLosesGateway(s) /\ NoLoss)
       /\ WF_clusterVars(AuthSessionEnds(s))
       /\ WF_clusterVars(AuthReceives(s))
  /\ \A g \in Games : WF_clusterVars(GameGone(g))

FairClusterSpec == ClusterSpec /\ ClusterFairness

-----------------------------------------------------------------------------
(* Properties                                                               *)

\* The connection of AuthSession a works on both sides and is idle.
Quiet(a, s) ==
  /\ peer[a] = s
  /\ as[a].stream = "connected"
  /\ as[a].sync
  /\ gs[s].phase = "connected"
  /\ up[s] = << >>
  /\ down[s] = << >>

\* Once the gateway is synchronized and the connection is idle, the auth server
\* shows the game server as ready, on this connection (README: "Supports GS
\* reconnection without GS restart").
SynchronizedMeansReady ==
  \A a \in Slots, s \in Sessions :
    Quiet(a, s) /\ as[a].game # Null =>
      /\ servers[IdxOf[as[a].game]].session = s
      /\ servers[IdxOf[as[a].game]].ready

\* ... and the auth server, the gateway and the game server agree on who is in
\* game, except for players that are about to be kicked.
ViewsAgree ==
  \A a \in Slots, s \in Sessions, g \in Games :
    Quiet(a, s) /\ as[a].game = g /\ game[g].phase = "connected" =>
      /\ {as[a].list[i][1] : i \in DOMAIN as[a].list} = players[g]
      /\ {cd[i].account : i \in InGameOn(IdxOf[g])} \ kicks[g] = players[g] \ kicks[g]

\* A game server that stays logged in to the gateway is shown as ready again
\* after every loss of a connection and every restart of the auth server, or
\* the gateway gives up its login with an error.
Served(g) == game[g].auth # Null

BackOrGivenUp(g) == game[g].auth = Null \/ Ready(IdxOf[g])

Recovers == \A g \in Games : Served(g) ~> BackOrGivenUp(g)

=============================================================================
