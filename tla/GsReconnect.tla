---------------------------- MODULE GsReconnect ----------------------------
(***************************************************************************)
(* The reconnect gateway between a game server and the auth server         *)
(* (src/rzgamereconnect/src/AuthServer): a GameServerSession for every     *)
(* connection of a game server, and an AuthSession, created by the login   *)
(* of the game server, that keeps the connection to the auth server up,    *)
(* remembers the accounts in game and defers the packets that cannot be    *)
(* sent.                                                                   *)
(*                                                                         *)
(* One handler of the event loop is one action.  Both peers are            *)
(* unconstrained here; ReconnectCluster connects the gateway to the auth   *)
(* server of module AuthServer.                                            *)
(*                                                                         *)
(* An operator named after a fault and followed by the definition it       *)
(* resembles (ForgetsLogout, AlwaysFull, ...) is a mutated form of that    *)
(* definition; PROJECT.json says which property each of them breaks.       *)
(***************************************************************************)
EXTENDS Integers, Sequences

CONSTANTS
  Games,          \* GameServerSession objects
  Slots,          \* AuthSession objects; each draws a GUID of its own
  Names,          \* account names
  Accounts,       \* entries of an account list: pairs <<name, id>>
  MaxCount,       \* MAX_COUNT_PER_PACKET (128 in the code)
  MaxAccounts,    \* bound: accounts in accountList
  MaxPending,     \* bound: packets in pendingMessages
  Null

\* What the sizes are, and Null is no object or name.
Assumptions ==
  /\ MaxCount \in Nat \ {0} /\ MaxAccounts \in Nat /\ MaxPending \in Nat
  /\ Null \notin Games \cup Slots \cup Names /\ \A a \in Accounts : a[1] \in Names

VARIABLES
  as,       \* the AuthSessions
  game,     \* the GameServerSessions
  out,      \* the packets the last handler wrote to the auth server
  toGame    \* the packets the last handler wrote to a game server

vars == <<as, game, out, toGame>>

-----------------------------------------------------------------------------
(* Packets and objects                                                      *)

\* What the game server sends apart from TS_GA_LOGIN: the two packets about
\* clients, which have handlers, and the ones that are forwarded.
Forwarded == {"KICK_FAILED", "SECURITY_NO_CHECK"}

Packet(kind, about) ==
  [kind |-> kind, about |-> about, accounts |-> << >>, final |-> FALSE, room |-> 0]

\* TS_GA_LOGIN_WITH_LOGOUT_EXT, with the game server's data and the GUID.
Login(a) == Packet("LOGIN", <<as[a].server, a>>)

Logout == Packet("LOGOUT", Null)

\* The constructor and the connect() that follows it.
NewAuthSession(g) ==
  [game |-> g, server |-> g, stream |-> "connecting", remote |-> FALSE, timer |-> FALSE,
   doomed |-> FALSE, sentLogin |-> FALSE, pendingLogin |-> FALSE,
   sync |-> FALSE, pending |-> << >>, list |-> << >>]

Absent == [NewAuthSession(Null) EXCEPT !.stream = "absent"]

NoGame == [phase |-> "none", remote |-> FALSE, auth |-> Null]

Exists(a) == as[a].stream # "absent"

\* The stream hands over data while it is connected, and after a close of this
\* side until the shutdown is done; never after a close caused by the peer.
CanRead(s) == s.stream = "connected" \/ (s.stream = "closing" /\ ~s.remote)

Silent == toGame' = [game |-> Null, packets |-> << >>]

Tell(g, p) == toGame' = [game |-> g, packets |-> IF g = Null THEN << >> ELSE <<p>>]

Init ==
  /\ as = [a \in Slots |-> Absent]
  /\ game = [g \in Games |-> NoGame]
  /\ out = [slot |-> Null, packets |-> << >>]
  /\ toGame = [game |-> Null, packets |-> << >>]

-----------------------------------------------------------------------------
(* AuthSession: what its methods do to the object s and what they write     *)

closeSession(s) ==
  IF s.stream \in {"connecting", "connected"}
  THEN [s EXCEPT !.stream = "closing", !.remote = FALSE] ELSE s

\* sendPacketToNetwork of the packets ps one after the other: a LOGOUT closes
\* the session, and what follows it is not written.
SentToNetwork(s, ps) ==
  LET logouts == {i \in DOMAIN ps : ps[i].kind = "LOGOUT"}
      last == IF logouts = {} THEN Len(ps)
              ELSE CHOOSE i \in logouts : \A j \in logouts : i <= j
  IN  [session |-> IF logouts = {} THEN s ELSE closeSession(s),
       packets |-> IF s.stream = "connected" THEN SubSeq(ps, 1, last) ELSE << >>]

sendPacket(s, p) ==
  IF s.stream = "connected" /\ s.sync
  THEN SentToNetwork(s, <<p>>)
  ELSE [session |-> [s EXCEPT !.pending = Append(@, p)], packets |-> << >>]

AlwaysFull(list) == MaxCount

\* The packets of sendAccountList: all of them have the size of the first one,
\* room for PerPacket accounts, whatever their count.
PerPacket(list) == IF Len(list) <= MaxCount THEN Len(list) ELSE MaxCount

PacketCount(list) ==
  IF list = << >> THEN 1 ELSE (Len(list) + PerPacket(list) - 1) \div PerPacket(list)

ListPackets(list) ==
  [k \in 1 .. PacketCount(list) |->
     [Packet("ACCOUNT_LIST", Null) EXCEPT
        !.accounts = SubSeq(list, (k - 1) * PerPacket(list) + 1,
                            IF k = PacketCount(list) THEN Len(list)
                            ELSE k * PerPacket(list)),
        !.final = (k = PacketCount(list)),
        !.room = PerPacket(list)]]

WithoutPending(s) == SentToNetwork([s EXCEPT !.sync = TRUE], ListPackets(s.list))

\* sendAccountList, with the sendPendingMessages at its end.
sendAccountList(s) ==
  SentToNetwork([s EXCEPT !.sync = TRUE, !.pending = << >>],
                ListPackets(s.list) \o s.pending)

ForgetsLogout(s) ==
  IF ~s.sentLogin
  THEN [session |-> [closeSession(s) EXCEPT !.game = Null, !.timer = FALSE, !.doomed = TRUE],
        packets |-> << >>]
  ELSE [session |-> [s EXCEPT !.game = Null], packets |-> << >>]

\* The game server is gone: forget it, and tell the auth server if it knows.
disconnect(s) ==
  LET alone == [s EXCEPT !.game = Null, !.pending = << >>]
  IN  IF ~s.sentLogin
      THEN [session |-> [closeSession(alone) EXCEPT !.timer = FALSE, !.doomed = TRUE],
            packets |-> << >>]
      ELSE sendPacket(alone, Logout)

forceClose(s) ==
  LET alone == [s EXCEPT !.game = Null, !.pending = << >>, !.timer = FALSE]
  IN  IF s.stream = "connected"
      THEN sendPacket(alone, Logout)
      ELSE [session |-> [closeSession(alone) EXCEPT !.doomed = TRUE],
            packets |-> << >>]

Apply(a, result) ==
  /\ Len(result.session.pending) <= MaxPending
  /\ as' = [as EXCEPT ![a] = result.session]
  /\ out' = [slot |-> a, packets |-> result.packets]

Become(a, s) == Apply(a, [session |-> s, packets |-> << >>])

-----------------------------------------------------------------------------
(* AuthSession: events                                                      *)

\* sendLogin: at most one login is pending.
sendLogin(a, s) ==
  IF s.pendingLogin THEN [session |-> s, packets |-> << >>]
  ELSE SentToNetwork([s EXCEPT !.pendingLogin = TRUE, !.sentLogin = TRUE], <<Login(a)>>)

\* The connection to the auth server is established.
onConnected(a) ==
  /\ as[a].stream = "connecting"
  /\ Apply(a, sendLogin(a, [as[a] EXCEPT !.stream = "connected"]))
  /\ Silent
  /\ UNCHANGED game

\* The connection is refused, lost or closed by the auth server.
AuthConnectionLost(a) ==
  /\ as[a].stream \in {"connecting", "connected"}
  /\ Become(a, [as[a] EXCEPT !.stream = "closing", !.remote = TRUE])
  /\ Silent
  /\ UNCHANGED game

NeverDeleted(a) ==
  LET s == [as[a] EXCEPT !.stream = "unconnected", !.remote = FALSE,
                         !.sync = FALSE, !.pendingLogin = FALSE]
  IN  /\ as[a].stream = "closing"
      /\ Become(a, IF as[a].remote /\ (s.game # Null \/ s.pending # << >>)
                   THEN [s EXCEPT !.timer = TRUE] ELSE s)
      /\ Silent
      /\ UNCHANGED game

ReconnectsOnlyIfSynchronized(a) ==
  LET s == [as[a] EXCEPT !.stream = "unconnected", !.remote = FALSE,
                         !.sync = FALSE, !.pendingLogin = FALSE]
  IN  /\ as[a].stream = "closing"
      /\ Become(a, IF as[a].remote /\ as[a].sync /\ (s.game # Null \/ s.pending # << >>)
                   THEN [s EXCEPT !.timer = TRUE]
                   ELSE [s EXCEPT !.doomed = @ \/ s.game = Null])
      /\ Silent
      /\ UNCHANGED game

\* The close is complete: try again later as long as there is a game server to
\* serve or a packet to deliver.
onDisconnected(a) ==
  LET s == [as[a] EXCEPT !.stream = "unconnected", !.remote = FALSE,
                         !.sync = FALSE, !.pendingLogin = FALSE]
  IN  /\ as[a].stream = "closing"
      /\ Become(a, IF as[a].remote /\ (s.game # Null \/ s.pending # << >>)
                   THEN [s EXCEPT !.timer = TRUE]
                   ELSE [s EXCEPT !.doomed = @ \/ s.game = Null])
      /\ Silent
      /\ UNCHANGED game

onTimerReconnect(a) ==
  /\ as[a].timer
  /\ Become(a, [as[a] EXCEPT
       !.timer = FALSE,
       !.stream = IF @ = "unconnected" THEN "connecting" ELSE @])
  /\ Silent
  /\ UNCHANGED game

\* EventLoop::deleteObjects
DeleteAuthSession(a) ==
  /\ as[a].doomed
  /\ Become(a, Absent)
  /\ Silent
  /\ UNCHANGED game

RefusedStaysLinked(a, ok) ==
  LET s == [as[a] EXCEPT !.pendingLogin = FALSE]
  IN  /\ CanRead(as[a])
      /\ as[a].pendingLogin
      /\ Tell(as[a].game, Packet(IF ok THEN "LOGIN_OK" ELSE "LOGIN_FAILED", Null))
      /\ Apply(a, IF ok THEN sendAccountList(s) ELSE disconnect([s EXCEPT !.sentLogin = FALSE]))
      /\ UNCHANGED game

\* A result nobody waits for is ignored.  A refusal ends the AuthSession, unless
\* it is synchronized and still serves a game server.
onLoginResult(a, ok) ==
  LET s == [as[a] EXCEPT !.pendingLogin = FALSE, !.sentLogin = @ /\ ok]
      g == as[a].game
      kept == g # Null /\ as[a].sync
  IN  /\ CanRead(as[a])
      /\ as[a].pendingLogin
      /\ Tell(g, Packet(IF ok THEN "LOGIN_OK" ELSE "LOGIN_FAILED", Null))
      /\ \/ ok /\ Apply(a, sendAccountList(s)) /\ UNCHANGED game
         \/ /\ ~ok
            /\ Apply(a, IF kept THEN [session |-> s, packets |-> << >>] ELSE disconnect(s))
            /\ game' = [h \in Games |->
                          IF h = g /\ ~kept THEN [game[h] EXCEPT !.auth = Null] ELSE game[h]]

\* A login result of a client, when there still is a game server to tell.
onClientLoginResult(a, account, ok) ==
  /\ CanRead(as[a])
  /\ as[a].game # Null
  /\ Len(as[a].list) < MaxAccounts
  /\ Become(a, IF ok THEN [as[a] EXCEPT !.list = Append(@, account)] ELSE as[a])
  /\ Tell(as[a].game, Packet(IF ok THEN "CLIENT_OK" ELSE "CLIENT_DENIED", account[1]))
  /\ UNCHANGED game

\* Any other packet of the auth server: TS_AG_KICK_CLIENT, notifications, ...
ForwardToGame(a, name) ==
  /\ CanRead(as[a])
  /\ as[a].game # Null
  /\ Become(a, as[a])
  /\ Tell(as[a].game, Packet("KICK", name))
  /\ UNCHANGED game

-----------------------------------------------------------------------------
(* GameServerSession                                                        *)

AcceptGame(g) ==
  /\ game[g].phase = "none"
  /\ game' = [game EXCEPT ![g].phase = "connected"]
  /\ out' = [slot |-> Null, packets |-> << >>]
  /\ Silent
  /\ UNCHANGED as

\* The game server hangs up (remote), or this side closes the connection: the
\* idle check, or the end of the gateway.
CloseGame(g, remote) ==
  /\ game[g].phase = "connected"
  /\ game' = [game EXCEPT ![g] = [@ EXCEPT !.phase = "closing", !.remote = remote]]
  /\ out' = [slot |-> Null, packets |-> << >>]
  /\ Silent
  /\ UNCHANGED as

\* onDisconnected; the destructor finds no authSession any more.
GameClosed(g) ==
  LET a == game[g].auth
  IN  /\ game[g].phase = "closing"
      /\ game' = [game EXCEPT ![g] = NoGame]
      /\ Silent
      /\ \/ /\ a = Null
            /\ out' = [slot |-> Null, packets |-> << >>]
            /\ UNCHANGED as
         \/ a # Null /\ game[g].remote /\ Apply(a, disconnect(as[a]))
         \/ a # Null /\ ~game[g].remote /\ Apply(a, forceClose(as[a]))

GameCanSend(g) ==
  game[g].phase = "connected" \/ (game[g].phase = "closing" /\ ~game[g].remote)

\* TS_GA_LOGIN: a second one is refused.
onServerLogin(g, a) ==
  /\ GameCanSend(g)
  /\ game[g].auth = Null
  /\ ~Exists(a)
  /\ game' = [game EXCEPT ![g].auth = a]
  /\ Become(a, NewAuthSession(g))
  /\ Silent

\* TS_GA_CLIENT_LOGIN is never deferred: it is refused here when the auth server
\* cannot be asked.
onClientLogin(g, name) ==
  LET a == game[g].auth
  IN  /\ GameCanSend(g)
      /\ a # Null
      /\ UNCHANGED game
      /\ \/ as[a].sync /\ Apply(a, sendPacket(as[a], Packet("CLIENT_LOGIN", name))) /\ Silent
         \/ ~as[a].sync /\ Become(a, as[a]) /\ Tell(g, Packet("CLIENT_DENIED", name))

KeepsEntry(list, name) == list

\* logoutClient: the last entry of the account is erased from the list.
Without(list, name) ==
  LET at == {i \in DOMAIN list : list[i][1] = name}
      last == CHOOSE i \in at : \A j \in at : j <= i
  IN  IF at = {} THEN list
      ELSE SubSeq(list, 1, last - 1) \o SubSeq(list, last + 1, Len(list))

onClientLogout(g, name) ==
  LET a == game[g].auth
      s == [as[a] EXCEPT !.list = Without(@, name)]
  IN  /\ GameCanSend(g)
      /\ a # Null
      /\ Apply(a, IF s.stream = "connected" /\ s.sync
                  THEN SentToNetwork(s, <<Packet("CLIENT_LOGOUT", name)>>)
                  ELSE [session |-> s, packets |-> << >>])
      /\ Silent
      /\ UNCHANGED game

ForwardToAuth(g, kind, name) ==
  LET a == game[g].auth
  IN  /\ GameCanSend(g)
      /\ a # Null
      /\ Apply(a, sendPacket(as[a], Packet(kind, name)))
      /\ Silent
      /\ UNCHANGED game

-----------------------------------------------------------------------------
AuthSessionNext(a) ==
  \/ onConnected(a)
  \/ AuthConnectionLost(a)
  \/ onDisconnected(a)
  \/ onTimerReconnect(a)
  \/ DeleteAuthSession(a)
  \/ \E ok \in BOOLEAN : onLoginResult(a, ok)
  \/ \E account \in Accounts, ok \in BOOLEAN : onClientLoginResult(a, account, ok)
  \/ \E name \in Names : ForwardToGame(a, name)

GameSessionNext(g) ==
  \/ AcceptGame(g)
  \/ \E remote \in BOOLEAN : CloseGame(g, remote)
  \/ GameClosed(g)
  \/ \E a \in Slots : onServerLogin(g, a)
  \/ \E name \in Names :
       \/ onClientLogin(g, name)
       \/ onClientLogout(g, name)
       \/ \E kind \in Forwarded : ForwardToAuth(g, kind, name)

Next ==
  \/ \E a \in Slots : AuthSessionNext(a)
  \/ \E g \in Games : GameSessionNext(g)

\* libuv completes the closes it has started and the connections that can be
\* made, timers expire, deleteObjects runs in every iteration of the loop, and
\* an auth server that stays connected answers a login.
Fairness ==
  /\ \A a \in Slots :
       /\ WF_vars(onDisconnected(a)) /\ WF_vars(onTimerReconnect(a))
       /\ WF_vars(DeleteAuthSession(a))
       /\ SF_vars(onConnected(a))
       /\ SF_vars(\E ok \in BOOLEAN : onLoginResult(a, ok))
  /\ \A g \in Games : WF_vars(GameClosed(g))

Spec == Init /\ [][Next]_vars

FairSpec == Spec /\ Fairness

-----------------------------------------------------------------------------
(* Properties                                                               *)

\* Every object has its type, and a packet that is deferred is one that the game
\* server sent or the LOGOUT that follows its end.
Deferred ==
  {Packet(kind, about) :
     kind \in Forwarded \cup {"CLIENT_LOGIN", "LOGOUT"}, about \in Names \cup {Null}}

Streams == {"absent", "unconnected", "connecting", "connected", "closing"}

AuthSessions ==
  [game : Games \cup {Null}, server : Games \cup {Null}, stream : Streams,
   remote : BOOLEAN, timer : BOOLEAN, doomed : BOOLEAN, sentLogin : BOOLEAN,
   pendingLogin : BOOLEAN, sync : BOOLEAN, pending : Seq(Deferred), list : Seq(Accounts)]

GameSessions ==
  [phase : {"none", "connected", "closing"}, remote : BOOLEAN, auth : Slots \cup {Null}]

TypeOK ==
  /\ as \in [Slots -> AuthSessions]
  /\ game \in [Games -> GameSessions]
  /\ \A a \in Slots : Len(as[a].pending) <= MaxPending

\* AuthSession::gameServerSession and GameServerSession::authSession are inverse
\* to each other and neither leads to an object that is gone or about to go,
\* through every order of losing the game server, losing the auth server and
\* being refused by it.
Linked ==
  /\ \A g \in Games :
       game[g].auth # Null =>
         /\ Exists(game[g].auth)
         /\ ~as[game[g].auth].doomed
         /\ as[game[g].auth].game = g
  /\ \A a \in Slots :
       as[a].game # Null => game[as[a].game].auth = a /\ game[as[a].game].phase # "none"

\* While the auth server is synchronized nothing waits in pendingMessages and no
\* login is pending, unless the connection is just going down: a packet is
\* never overtaken by a later one.
NothingOvertaken ==
  \A a \in Slots :
    as[a].sync => /\ ~as[a].pendingLogin
                  /\ as[a].stream = "connected" => as[a].pending = << >>
                  /\ as[a].stream \in {"connected", "closing"}

\* A LOGOUT waits for the auth server.
LogoutWaits(s) == \E i \in DOMAIN s.pending : s.pending[i].kind = "LOGOUT"

\* A connected AuthSession is synchronized or waits for a login result, one
\* without a connection tries again, and this side says goodbye only for a game
\* server that has left.
Progressing ==
  \A a \in Slots :
    /\ as[a].stream = "connected" => as[a].sync \/ as[a].pendingLogin
    /\ as[a].stream = "unconnected" => as[a].timer \/ as[a].doomed
    /\ as[a].stream = "closing" /\ ~as[a].remote => as[a].game = Null
    /\ LogoutWaits(as[a]) => as[a].game = Null

\* An AuthSession that lost its game server and that the auth server may know
\* does not get stuck: it is closing after its LOGOUT, or the LOGOUT waits in
\* pendingMessages and a login that will flush it is on its way.
LogoutOnItsWay ==
  \A a \in Slots :
    Exists(a) /\ as[a].game = Null /\ ~as[a].doomed =>
      \/ as[a].stream = "closing" /\ ~as[a].remote
      \/ /\ LogoutWaits(as[a])
         /\ \/ as[a].stream = "unconnected" /\ as[a].timer
            \/ as[a].stream = "connecting"
            \/ as[a].stream = "connected" /\ as[a].pendingLogin
            \/ as[a].stream = "closing" /\ as[a].remote

\* When its game server is gone, an AuthSession ends, however often the
\* connection to the auth server fails in between.
Orphan(a) == Exists(a) /\ as[a].game = Null
GoesAway == \A a \in Slots : Orphan(a) ~> ~Exists(a)

=============================================================================
