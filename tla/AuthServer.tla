----------------------------- MODULE AuthServer -----------------------------
(***************************************************************************)
(* The auth server of rzauth (src/rzauth/src/AuthServer): the registry of  *)
(* authenticated accounts (ClientData), the registry of game servers       *)
(* (GameData), the sessions of the game servers (GameServerSession) and    *)
(* the sessions of the players' clients (ClientSession).                   *)
(*                                                                         *)
(* All handlers run on one event loop, so one handler is one action; the   *)
(* concurrency is between the events: packets of many peers, the results   *)
(* of database queries that run in a thread pool, and the asynchronous     *)
(* end of a socket.  The peers are unconstrained: any packet may arrive in *)
(* any state in which the session can still read its buffer.               *)
(*                                                                         *)
(* A ClientData is named by its account id and a GameData by its server    *)
(* index (at most one object exists per key); a pointer to one of them is  *)
(* that key, and it dangles when the object with that key is gone.         *)
(*                                                                         *)
(* An operator named after a fault and followed by the definition it       *)
(* resembles (ForgetsTheName, LogoutKeepsPointer, ...) is a mutated form   *)
(* of that definition; PROJECT.json says which property each breaks.       *)
(***************************************************************************)
EXTENDS Integers, Sequences, FiniteSets

CONSTANTS
  Names,          \* account names, after ClientData::toLower
  Ids,            \* account ids
  DbAccounts,     \* the rows of the account table: pairs <<name, id>>
  Clients,        \* ClientSession objects
  Sessions,       \* GameServerSession objects
  Idx,            \* server indices
  Infos,          \* server name, address, port, url and adult flag together
  Guids,          \* GUIDs of TS_GA_LOGIN_WITH_LOGOUT_EXT
  ZeroGuid,       \* the GUID of a GameData created without one
  Otps,           \* one time passwords, 0 included
  StrictKick,     \* auth.gameserver.strictkick
  StrayReports,   \* may a game server report an account it does not host?
  MaxList,        \* bound: accounts in alreadyConnectedAccounts
  CountMod,       \* the modulus of GameData's player counter (2^32 in the code)
  Null

ASSUME IdsAssumption ==
  IsFiniteSet(Ids) /\ CountMod \in Nat /\ Cardinality(Ids) < CountMod

ASSUME KeysAssumption ==
  /\ Null \notin Names \cup Ids \cup Clients \cup Sessions \cup Idx \cup Infos
  /\ 0 \in Otps

ASSUME DbAssumption == DbAccounts \subseteq Names \X Ids

ASSUME FlagsAssumption ==
  StrictKick \in BOOLEAN /\ StrayReports \in BOOLEAN /\ MaxList \in Nat

VARIABLES
  cd,       \* connectedClients: the ClientData of every account id
  byName,   \* connectedClientsByName
  servers,  \* GameData::servers
  gs,       \* the GameServerSessions
  cs,       \* the ClientSessions
  sent      \* the packets the last handler sent to game servers

vars == <<cd, byName, servers, gs, cs, sent>>

-----------------------------------------------------------------------------
(* Types of the objects                                                     *)

ClientDatas ==
  [account : Names \cup {Null}, client : Clients \cup {Null},
   server : Idx \cup {Null}, inGame : BOOLEAN, otp : Otps]

GameDatas ==
  [info : Infos \cup {Null}, guid : Guids \cup {ZeroGuid},
   session : Sessions \cup {Null}, ready : BOOLEAN, playerCount : 0 .. CountMod - 1]

Phases == {"none", "connected", "closing"}

Accounts == Names \X Ids

Lists == UNION {[1 .. n -> Accounts] : n \in 0 .. MaxList}

GameServerSessions ==
  [phase : Phases, auto : BOOLEAN, gameData : Idx \cup {Null}, list : Lists]

ClientSessions ==
  [phase : Phases, clientData : Ids \cup {Null}, query : Names \cup {Null}]

Messages ==
  [to : Sessions, kind : {"KICK", "LOGIN_OK", "LOGIN_DENIED"},
   account : Names \cup {Null}]

\* No object: the value of a key that is in neither map.
NoClient ==
  [account |-> Null, client |-> Null, server |-> Null, inGame |-> FALSE,
   otp |-> 0]

NoServer ==
  [info |-> Null, guid |-> ZeroGuid, session |-> Null, ready |-> FALSE,
   playerCount |-> 0]

NewGameSession ==
  [phase |-> "connected", auto |-> FALSE, gameData |-> Null, list |-> << >>]

NewClientSession ==
  [phase |-> "connected", clientData |-> Null, query |-> Null]

Connected == {i \in Ids : cd[i].account # Null}

Registered == {g \in Idx : servers[g].info # Null}

\* A closing socket delivers no new data, but the packets that are already in
\* the session's buffer are still dispatched.
CanRead(session) == session.phase \in {"connected", "closing"}

Closed(session) ==
  [session EXCEPT !.phase = IF @ = "connected" THEN "closing" ELSE @]

Send(s, kind, account) ==
  IF gs[s].phase = "connected"
  THEN {[to |-> s, kind |-> kind, account |-> account]} ELSE {}

Init ==
  /\ cd = [i \in Ids |-> NoClient]
  /\ byName = [n \in Names |-> Null]
  /\ servers = [g \in Idx |-> NoServer]
  /\ gs = [s \in Sessions |-> [NewGameSession EXCEPT !.phase = "none"]]
  /\ cs = [c \in Clients |-> [NewClientSession EXCEPT !.phase = "none"]]
  /\ sent = {}

-----------------------------------------------------------------------------
(* ClientData: the two maps of authenticated accounts                       *)

\* The ClientDatas of the ids in S are erased from both maps and destroyed.
\* The destructor of an in-game client gives its place back to its server.
InGameOn(g) == {i \in Ids : cd[i].server = g /\ cd[i].inGame}

Erased(S) == [i \in Ids |-> IF i \in S THEN NoClient ELSE cd[i]]

ForgetsTheName(S) == byName

NamesErased(S) ==
  [n \in Names |-> IF \E i \in S : cd[i].account = n THEN Null ELSE byName[n]]

CountsSelectedSigned(g, S) ==
  servers[g].playerCount - Cardinality({i \in S : cd[i].server = g})

CountsSelected(g, S) == CountsSelectedSigned(g, S) % CountMod

PlayersLeft(g, S) ==
  (servers[g].playerCount - Cardinality(InGameOn(g) \cap S)) % CountMod

removeClients(S) ==
  /\ cd' = Erased(S)
  /\ byName' = NamesErased(S)
  /\ servers' = [g \in Idx |->
                   [servers[g] EXCEPT !.playerCount = PlayersLeft(g, S)]]

CanAddUnlessInLobby(name, id) == cd[id].client = Null

\* tryAddClient succeeds when neither the id nor the name is taken ...
CanAdd(name, id) == cd[id].account = Null /\ byName[name] = Null

\* ... and fails because of the holder of the id, or else that of the name.
OldClient(name, id) == IF cd[id].account # Null THEN id ELSE byName[name]

ClientsOfAndLobby(g) == {i \in Connected : cd[i].server \in {g, Null}}

\* The ClientDatas ClientData::removeServer erases.
ClientsOf(g) == {i \in Connected : cd[i].server = g}

-----------------------------------------------------------------------------
(* GameData and GameServerSession                                           *)

\* SessionServer accepts a connection.
AcceptGameServer(s) ==
  /\ gs[s].phase = "none"
  /\ gs' = [gs EXCEPT ![s] = NewGameSession]
  /\ sent' = {}
  /\ UNCHANGED <<cd, byName, servers, cs>>

\* The peer hangs up, or the stream fails (keep-alive, read or write error).
GameConnectionLost(s) ==
  /\ gs[s].phase = "connected"
  /\ gs' = [gs EXCEPT ![s] = Closed(@)]
  /\ sent' = {}
  /\ UNCHANGED <<cd, byName, servers, cs>>

\* GameData::remove: the destructor erases the clients of the server.
removeGameData(g) ==
  /\ servers' = [servers EXCEPT ![g] = NoServer]
  /\ cd' = Erased(ClientsOf(g))
  /\ byName' = NamesErased(ClientsOf(g))

\* The socket is closed: the session is deleted.  With the reconnect feature
\* the GameData and its clients stay, without a session.
GameSessionClosed(s) ==
  LET g == gs[s].gameData
      owner == g # Null /\ servers[g].session = s
  IN  /\ gs[s].phase = "closing"
      /\ gs' = [gs EXCEPT ![s] = [NewGameSession EXCEPT !.phase = "none"]]
      /\ sent' = {}
      /\ UNCHANGED cs
      /\ \/ /\ owner /\ gs[s].auto
            /\ servers' = [servers EXCEPT ![g].session = Null]
            /\ UNCHANGED <<cd, byName>>
         \/ owner /\ ~gs[s].auto /\ removeGameData(g)
         \/ ~owner /\ UNCHANGED <<cd, byName, servers>>

LoginKinds == {"LOGIN", "WITH_LOGOUT", "WITH_LOGOUT_EXT"}

\* The game server of a lost connection is back, on another connection.
SameServer(g, kind, info, guid) ==
  /\ kind = "WITH_LOGOUT_EXT"
  /\ servers[g].info = info
  /\ servers[g].guid = guid

\* TS_GA_LOGIN, TS_GA_LOGIN_WITH_LOGOUT and TS_GA_LOGIN_WITH_LOGOUT_EXT.  The
\* packet selects the reconnect feature even when the login is refused.
onServerLogin(s, kind, g, info, guid) ==
  LET auto == kind # "LOGIN"
      old == servers[g].session
      own == IF kind = "WITH_LOGOUT_EXT" THEN guid ELSE ZeroGuid
  IN  /\ CanRead(gs[s])
      /\ sent' = {}
      /\ UNCHANGED <<cd, byName, cs>>
      /\ \/ \* already logged in, or the index is used by another server
            /\ \/ gs[s].gameData # Null
               \/ g \in Registered /\ ~SameServer(g, kind, info, guid)
            /\ gs' = [gs EXCEPT ![s].auto = auto]
            /\ UNCHANGED servers
         \/ /\ gs[s].gameData = Null
            /\ g \notin Registered
            /\ gs' = [gs EXCEPT ![s] = [@ EXCEPT !.auto = auto, !.gameData = g]]
            /\ servers' = [servers EXCEPT ![g] =
                 [info |-> info, guid |-> own, session |-> s,
                  ready |-> ~auto, playerCount |-> 0]]
         \/ \* setGameData moves the GameData here; the old session is closed
            /\ gs[s].gameData = Null
            /\ g \in Registered
            /\ SameServer(g, kind, info, guid)
            /\ gs' = [t \in Sessions |->
                 CASE t = s -> [gs[s] EXCEPT !.auto = auto, !.gameData = g]
                   [] t # s /\ t = old -> Closed([gs[t] EXCEPT !.gameData = Null])
                   [] OTHER -> gs[t]]
            /\ servers' = [servers EXCEPT ![g] =
                 [@ EXCEPT !.session = s, !.ready = FALSE]]

\* The positions of the account list that tryAddClient accepts, in order, when
\* the clients of server g have been erased: those whose id and name are free
\* and are not taken by an earlier position.
Free(g, a) ==
  /\ cd[a[2]].account = Null \/ a[2] \in ClientsOf(g)
  /\ byName[a[1]] = Null \/ \E i \in ClientsOf(g) : cd[i].account = a[1]

Accepted(g, all, added) ==
  \A k \in DOMAIN all :
    k \in added <=>
      /\ Free(g, all[k])
      /\ \A j \in added :
           j < k => all[j][1] # all[k][1] /\ all[j][2] # all[k][2]

InGameClient(g, name) ==
  [account |-> name, client |-> Null, server |-> g, inGame |-> TRUE,
   otp |-> 0]

\* The last packet of the list: the clients of the server are recreated from
\* the list, the ones that are connected elsewhere are kicked.
SyncAccounts(s, g, all, added) ==
  /\ cd' = [i \in Ids |->
       IF \E k \in added : all[k][2] = i
       THEN InGameClient(g, all[CHOOSE k \in added : all[k][2] = i][1])
       ELSE Erased(ClientsOf(g))[i]]
  /\ byName' = [n \in Names |->
       IF \E k \in added : all[k][1] = n
       THEN all[CHOOSE k \in added : all[k][1] = n][2]
       ELSE NamesErased(ClientsOf(g))[n]]
  /\ servers' = [servers EXCEPT ![g] = [@ EXCEPT
       !.ready = TRUE,
       !.playerCount =
         (PlayersLeft(g, ClientsOf(g)) + Cardinality(added)) % CountMod]]
  /\ sent' = UNION {Send(s, "KICK", all[k][1]) : k \in DOMAIN all \ added}

onAccountList(s, chunk, final) ==
  LET all == gs[s].list \o chunk
      g == gs[s].gameData
  IN  /\ CanRead(gs[s])
      /\ g # Null
      /\ Len(all) <= MaxList
      /\ UNCHANGED cs
      /\ \/ /\ ~final
            /\ gs' = [gs EXCEPT ![s].list = all]
            /\ sent' = {}
            /\ UNCHANGED <<cd, byName, servers>>
         \/ /\ final
            /\ gs' = [gs EXCEPT ![s].list = << >>]
            /\ \E added \in SUBSET DOMAIN all :
                 Accepted(g, all, added) /\ SyncAccounts(s, g, all, added)

LogoutKeepsPointer(s) ==
  /\ CanRead(gs[s])
  /\ gs[s].gameData # Null
  /\ removeGameData(gs[s].gameData)
  /\ sent' = {}
  /\ UNCHANGED <<gs, cs>>

\* TS_GA_LOGOUT: the connection stays, and so does a half received list.
onServerLogout(s) ==
  /\ CanRead(gs[s])
  /\ gs[s].gameData # Null
  /\ removeGameData(gs[s].gameData)
  /\ gs' = [gs EXCEPT ![s].gameData = Null]
  /\ sent' = {}
  /\ UNCHANGED cs

Ready(g) == servers[g].session # Null /\ servers[g].ready

\* The client that TS_GA_CLIENT_LOGIN may bring in game on the session's server.
MayEnter(s, name, otp) ==
  LET g == gs[s].gameData
      i == byName[name]
  IN  /\ g # Null
      /\ i # Null
      /\ cd[i].server = g
      /\ Ready(g)
      /\ cd[i].otp = otp
      /\ ~cd[i].inGame

onClientLogin(s, name, otp) ==
  LET g == gs[s].gameData
      i == byName[name]
  IN  /\ CanRead(gs[s])
      /\ UNCHANGED <<byName, gs, cs>>
      /\ \/ /\ MayEnter(s, name, otp)
            /\ cd' = [cd EXCEPT ![i].inGame = TRUE]
            /\ servers' = [servers EXCEPT ![g].playerCount = (@ + 1) % CountMod]
            /\ sent' = Send(s, "LOGIN_OK", name)
         \/ /\ ~MayEnter(s, name, otp)
            /\ sent' = Send(s, "LOGIN_DENIED", name)
            /\ UNCHANGED <<cd, servers>>

\* A report about an account this server does not host: the handlers do not
\* look, the peers may or may not be trusted to send none.
ReportExpected(s, i) == StrayReports \/ cd[i].server = gs[s].gameData

ClientReported(s, name) ==
  /\ CanRead(gs[s])
  /\ gs[s].gameData # Null
  /\ byName[name] # Null
  /\ ReportExpected(s, byName[name])
  /\ removeClients({byName[name]})
  /\ sent' = {}
  /\ UNCHANGED <<gs, cs>>

onClientLogout(s, name) == ClientReported(s, name)

\* GameServerSession::kickClient of a client of server g, through GameData.
\* A strict kick also sets kickRequested, which only the wording of a log uses.
kickClient(g, i) ==
  LET s == servers[g].session
  IN  \/ /\ s = Null
         /\ sent' = {}
         /\ UNCHANGED <<cd, byName, servers>>
      \/ /\ s # Null
         /\ sent' = Send(s, "KICK", cd[i].account)
         /\ \/ ~StrictKick /\ removeClients({i})
            \/ StrictKick /\ UNCHANGED <<cd, byName, servers>>

onClientKickFailed(s, name) == ClientReported(s, name)

-----------------------------------------------------------------------------
(* ClientSession                                                            *)

AcceptClient(c) ==
  /\ cs[c].phase = "none"
  /\ cs' = [cs EXCEPT ![c] = NewClientSession]
  /\ sent' = {}
  /\ UNCHANGED <<cd, byName, servers, gs>>

ClientConnectionLost(c) ==
  /\ cs[c].phase = "connected"
  /\ cs' = [cs EXCEPT ![c] = Closed(@)]
  /\ sent' = {}
  /\ UNCHANGED <<cd, byName, servers, gs>>

\* The objects the session's clientData pointer may lead to.  A pointer to an
\* object that was deleted leads to freed memory, which is either still unused
\* (Null: a write is lost, the stale id is not found or found again) or has been
\* given to any ClientData created since.
PointsTo(c) ==
  LET i == cs[c].clientData
  IN  IF cd[i].account # Null /\ cd[i].client = c
      THEN {i} ELSE Connected \cup {Null}

ClosedWithoutRemoval(c) ==
  /\ cs[c].phase = "closing"
  /\ cs' = [cs EXCEPT ![c] = [NewClientSession EXCEPT !.phase = "none"]]
  /\ sent' = {}
  /\ UNCHANGED <<cd, byName, servers, gs>>

WaitsForAccount(c) ==                                               \* mutant
  /\ cs[c].phase = "closing" /\ cs[c].clientData = Null
  /\ cs' = [cs EXCEPT ![c] = [NewClientSession EXCEPT !.phase = "none"]]
  /\ sent' = {}
  /\ UNCHANGED <<cd, byName, servers, gs>>

\* The socket is closed: onDisconnected, then the destructor, which cancels a
\* query in progress.
ClientSessionClosed(c) ==
  /\ cs[c].phase = "closing"
  /\ cs' = [cs EXCEPT ![c] = [NewClientSession EXCEPT !.phase = "none"]]
  /\ sent' = {}
  /\ UNCHANGED gs
  /\ \/ cs[c].clientData = Null /\ UNCHANGED <<cd, byName, servers>>
     \/ /\ cs[c].clientData # Null
        /\ \E i \in PointsTo(c) : removeClients({i} \cap Ids)

\* TS_CA_ACCOUNT and TS_CA_IMBC_ACCOUNT: at most one query at a time.
onAccount(c, name) ==
  /\ CanRead(cs[c])
  /\ cs[c].query = Null
  /\ cs' = [cs EXCEPT ![c].query = name]
  /\ sent' = {}
  /\ UNCHANGED <<cd, byName, servers, gs>>

\* The query failed, the password is wrong, the account is blocked, or this
\* session has been authenticated by an earlier query.
AuthRefused(c) ==
  /\ cs[c].query # Null
  /\ cs' = [cs EXCEPT ![c].query = Null]
  /\ sent' = {}
  /\ UNCHANGED <<cd, byName, servers, gs>>

AuthAccepted(c, id) ==
  LET name == cs[c].query
  IN  /\ cd' = [cd EXCEPT ![id] = [NoClient EXCEPT !.account = name, !.client = c]]
      /\ byName' = [byName EXCEPT ![name] = id]
      /\ cs' = [cs EXCEPT ![c] = [@ EXCEPT !.query = Null, !.clientData = id]]
      /\ sent' = {}
      /\ UNCHANGED <<servers, gs>>

\* The account is in use: its old client is thrown out, wherever it is, and the
\* new one has to try again.
AuthDuplicate(c, old) ==
  LET answered == [cs EXCEPT ![c].query = Null]
      g == cd[old].server
      holder == cd[old].client
  IN  /\ UNCHANGED gs
      /\ \/ /\ g = Null
            /\ cs' = [answered EXCEPT ![holder] = Closed(@)]
            /\ sent' = {}
            /\ UNCHANGED <<cd, byName, servers>>
         \/ /\ g # Null /\ cd[old].inGame
            /\ kickClient(g, old)
            /\ cs' = answered
         \/ /\ g # Null /\ ~cd[old].inGame
            /\ removeClients({old})
            /\ cs' = answered
            /\ sent' = {}

clientAuthResult(c) ==
  \/ AuthRefused(c)
  \/ /\ cs[c].query # Null
     /\ cs[c].clientData = Null
     /\ \E id \in Ids :
          /\ <<cs[c].query, id>> \in DbAccounts
          /\ IF CanAdd(cs[c].query, id)
             THEN AuthAccepted(c, id)
             ELSE AuthDuplicate(c, OldClient(cs[c].query, id))

\* TS_CA_SERVER_LIST, or TS_CA_SELECT_SERVER for an index that is not used: a
\* client that may not ask is thrown out, the list itself changes nothing.
AbortClient(c) ==
  /\ CanRead(cs[c])
  /\ cs[c].phase = "connected"
  /\ cs' = [cs EXCEPT ![c] = Closed(@)]
  /\ sent' = {}
  /\ UNCHANGED <<cd, byName, servers, gs>>

onServerList(c) == cs[c].clientData = Null /\ AbortClient(c)

\* switchClientToServer hands the ClientData over to the server, whether it is
\* ready or not.  When the password cannot be encrypted the session is aborted.
onSelectServer(c, g, otp) ==
  \/ cs[c].clientData = Null /\ AbortClient(c)
  \/ cs[c].clientData # Null /\ g \notin Registered /\ AbortClient(c)
  \/ /\ cs[c].clientData # Null /\ g \in Registered
     /\ CanRead(cs[c])
     /\ \E i \in PointsTo(c) :
          cd' = IF i = Null THEN cd
                ELSE [cd EXCEPT ![i] =
                       [@ EXCEPT !.client = Null, !.server = g, !.otp = otp]]
     /\ \E encrypted \in BOOLEAN :
          LET handedOver == [cs[c] EXCEPT !.clientData = Null]
          IN  cs' = [cs EXCEPT ![c] =
                       IF encrypted THEN handedOver ELSE Closed(handedOver)]
     /\ sent' = {}
     /\ UNCHANGED <<byName, servers, gs>>

-----------------------------------------------------------------------------
GameServerNext(s) ==
  \/ AcceptGameServer(s)
  \/ GameConnectionLost(s)
  \/ GameSessionClosed(s)
  \/ \E kind \in LoginKinds, g \in Idx, info \in Infos, guid \in Guids :
       onServerLogin(s, kind, g, info, guid)
  \/ \E chunk \in Lists, final \in BOOLEAN : onAccountList(s, chunk, final)
  \/ onServerLogout(s)
  \/ \E name \in Names, otp \in Otps : onClientLogin(s, name, otp)
  \/ \E name \in Names : onClientLogout(s, name)
  \/ \E name \in Names : onClientKickFailed(s, name)

ClientNext(c) ==
  \/ AcceptClient(c)
  \/ ClientConnectionLost(c)
  \/ ClientSessionClosed(c)
  \/ \E name \in Names : onAccount(c, name)
  \/ clientAuthResult(c)
  \/ onServerList(c)
  \/ \E g \in Idx, otp \in Otps : onSelectServer(c, g, otp)

Next ==
  \/ \E s \in Sessions : GameServerNext(s)
  \/ \E c \in Clients : ClientNext(c)

\* libuv completes every close it has started, and the thread pool answers
\* every query.
Fairness ==
  /\ \A s \in Sessions : WF_vars(GameSessionClosed(s))
  /\ \A c \in Clients : WF_vars(ClientSessionClosed(c)) /\ WF_vars(clientAuthResult(c))

Spec == Init /\ [][Next]_vars

FairSpec == Spec /\ Fairness

-----------------------------------------------------------------------------
(* Properties                                                               *)

\* Every variable has its type.
TypeOK ==
  /\ cd \in [Ids -> ClientDatas]
  /\ byName \in [Names -> Ids \cup {Null}]
  /\ servers \in [Idx -> GameDatas]
  /\ gs \in [Sessions -> GameServerSessions]
  /\ cs \in [Clients -> ClientSessions]
  /\ sent \subseteq Messages

\* connectedClients and connectedClientsByName hold the same ClientDatas
\* (ClientData.h: "at most one account in the hash map"), through every path
\* that inserts into one map and then the other or erases from both.
MapsAgree ==
  /\ \A i \in Connected : byName[cd[i].account] = i
  /\ \A n \in Names : byName[n] # Null => cd[byName[n]].account = n

\* GameServerSession::gameData and GameData::gameServerSession are inverse to
\* each other, so neither outlives what it points to: after a takeover by a new
\* connection the old session's late packets and destructor touch nothing.
SessionLink ==
  /\ \A s \in Sessions :
       gs[s].gameData # Null =>
         /\ gs[s].gameData \in Registered
         /\ servers[gs[s].gameData].session = s
  /\ \A g \in Idx :
       servers[g].session # Null =>
         /\ g \in Registered
         /\ gs[servers[g].session].gameData = g
         /\ CanRead(gs[servers[g].session])

\* A ClientData's server pointer leads to a GameData that exists, however the
\* server went away (logout, lost connection, takeover).
ServerKnown ==
  \A i \in Connected : cd[i].server # Null => cd[i].server \in Registered

\* A ClientData is managed by a live ClientSession that points back to it or by
\* a registered server (ClientData.h: "never both !client && !server"): the
\* duplicate login that aborts the old session never follows a dead pointer.
Managed ==
  /\ ServerKnown
  /\ \A i \in Connected :
       LET c == cd[i].client
       IN  /\ (c = Null) <=> (cd[i].server # Null)
           /\ c # Null => cs[c].clientData = i /\ CanRead(cs[c])

\* The answer of a query finds its session alive: a session that is gone has
\* no query in progress, and what it managed is gone with it.
QueriesAlive == \A c \in Clients : cs[c].query # Null => CanRead(cs[c])

\* An id without an account has no ClientData, and only the client of a server
\* is in game.
AccountStates ==
  \A i \in Ids :
    /\ cd[i].account = Null => cd[i].client = Null /\ cd[i].server = Null
    /\ cd[i].server = Null => ~cd[i].inGame

\* A server's player count, shown to the clients as a load, is the number of
\* accounts in game on it; in particular it never wraps below zero.
PlayerCount ==
  \A g \in Registered : servers[g].playerCount = Cardinality(InGameOn(g))

\* A ClientSession's clientData leads to a ClientData that exists and that
\* this session still manages.
NoDangling ==
  \A c \in Clients :
    cs[c].clientData # Null =>
      /\ cs[c].clientData \in Connected
      /\ cd[cs[c].clientData].client = c

\* Accounts move between sessions and servers only in the ways the abstract
\* registry allows, whatever the interleaving of logins, kicks, losses of
\* connections and synchronizations.
PlaceOf(data) ==
  CASE data.account = Null -> [at |-> "free", by |-> Null]
    [] data.account # Null /\ data.server = Null ->
         [at |-> "lobby", by |-> data.client]
    [] data.account # Null /\ data.server # Null ->
         [at |-> IF data.inGame THEN "game" ELSE "selected", by |-> data.server]

Registry == INSTANCE AccountRegistry WITH place <- [i \in Ids |-> PlaceOf(cd[i])]

RegistrySpec == Registry!Spec

\* A session whose socket is closing lets go of its account in the end, so
\* that the client that was refused as a duplicate can log in.
ClosingWith(c, i) == cs[c].phase = "closing" /\ cd[i].client = c
Released(c, i) == cd[i].client # c
ClosingReleases == \A c \in Clients, i \in Ids : ClosingWith(c, i) ~> Released(c, i)

=============================================================================
