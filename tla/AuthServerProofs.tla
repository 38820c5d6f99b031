-------------------------- MODULE AuthServerProofs --------------------------
(***************************************************************************)
(* Proofs about AuthServer, for all values of its constants.  First the    *)
(* types and the links between the sessions of game servers and their      *)
(* GameDatas, then the registry of accounts.  Whatever the game servers    *)
(* report: the two maps agree, and every ClientData is managed.  When they *)
(* report only about the accounts they host: no client session keeps a     *)
(* dangling pointer, the players are counted right, and AuthServer         *)
(* implements AccountRegistry.                                             *)
(***************************************************************************)
EXTENDS AuthServer, FiniteSetTheorems, SequenceTheorems, TLAPS

(* The lists a session accumulates stay lists.                              *)
LEMMA ListConcat ==
  ASSUME NEW a \in Lists, NEW b \in Lists, Len(a \o b) <= MaxList
  PROVE  a \o b \in Lists
<1>1. Lists \subseteq Seq(Accounts)
  <2>1. ASSUME NEW n \in 0 .. MaxList PROVE [1 .. n -> Accounts] \subseteq Seq(Accounts)
    BY FlagsAssumption, SeqDef
  <2> QED  BY <2>1 DEF Lists
<1>2. a \o b \in Seq(Accounts)
  BY <1>1, ConcatProperties
<1>3. Len(a \o b) \in Nat /\ a \o b \in [1 .. Len(a \o b) -> Accounts]
  BY ONLY <1>2, LenProperties
<1>4. Len(a \o b) \in 0 .. MaxList
  BY <1>3, FlagsAssumption
<1> QED  BY <1>3, <1>4 DEF Lists

LEMMA AccountListType ==
  ASSUME TypeOK, NEW s \in Sessions, NEW chunk \in Lists, NEW final,
         onAccountList(s, chunk, final)
  PROVE  gs[s].list \o chunk \in Lists /\ gs[s].gameData \in Idx
<1>1. gs[s].list \in Lists
  BY DEF TypeOK, GameServerSessions
<1>2. Len(gs[s].list \o chunk) <= MaxList /\ gs[s].gameData # Null
  BY DEF onAccountList
<1> QED  BY <1>1, <1>2, ListConcat DEF TypeOK, GameServerSessions

(* The player counter never leaves its width.                               *)
LEMMA CountModPositive == CountMod \in Nat /\ CountMod > 0
<1>1. Cardinality(Ids) \in Nat
  BY IdsAssumption, FS_CardinalityType
<1> QED  BY <1>1, IdsAssumption

LEMMA PlayersLeftType ==
  ASSUME TypeOK, NEW g \in Idx, NEW S
  PROVE  PlayersLeft(g, S) \in 0 .. CountMod - 1
<1>1. IsFiniteSet(InGameOn(g) \cap S)
  BY IdsAssumption, FS_Subset DEF InGameOn
<1>2. Cardinality(InGameOn(g) \cap S) \in Nat
  BY <1>1, FS_CardinalityType
<1>3. servers[g].playerCount \in Int
  BY CountModPositive DEF TypeOK, GameDatas
<1> QED  BY <1>2, <1>3, CountModPositive DEF PlayersLeft

-----------------------------------------------------------------------------
(* Type correctness                                                         *)

LEMMA BlankTypes ==
  /\ NoClient \in ClientDatas
  /\ NoServer \in GameDatas
  /\ << >> \in Lists
  /\ NewGameSession \in GameServerSessions
  /\ [NewGameSession EXCEPT !.phase = "none"] \in GameServerSessions
  /\ NewClientSession \in ClientSessions
  /\ [NewClientSession EXCEPT !.phase = "none"] \in ClientSessions
<1>1. NoClient \in ClientDatas
  BY KeysAssumption DEF NoClient, ClientDatas
<1>2. NoServer \in GameDatas
  BY CountModPositive DEF NoServer, GameDatas
<1>3. << >> \in Lists
  <2>1. << >> \in [1 .. 0 -> Accounts] /\ 0 \in 0 .. MaxList
    BY FlagsAssumption
  <2> QED  BY <2>1 DEF Lists
<1>4. /\ NewGameSession \in GameServerSessions
      /\ [NewGameSession EXCEPT !.phase = "none"] \in GameServerSessions
  BY <1>3 DEF NewGameSession, GameServerSessions, Phases
<1>5. /\ NewClientSession \in ClientSessions
      /\ [NewClientSession EXCEPT !.phase = "none"] \in ClientSessions
  BY DEF NewClientSession, ClientSessions, Phases
<1> QED  BY <1>1, <1>2, <1>3, <1>4, <1>5

LEMMA ClosedTypes ==
  /\ \A x \in GameServerSessions : Closed(x) \in GameServerSessions
  /\ \A x \in ClientSessions : Closed(x) \in ClientSessions
BY DEF Closed, GameServerSessions, ClientSessions, Phases

LEMMA SendType ==
  \A s \in Sessions, k \in {"KICK", "LOGIN_OK", "LOGIN_DENIED"}, n \in Names \cup {Null} :
    Send(s, k, n) \subseteq Messages
BY DEF Send, Messages

LEMMA RemoveTypes ==
  ASSUME TypeOK, NEW S
  PROVE  /\ Erased(S) \in [Ids -> ClientDatas]
         /\ NamesErased(S) \in [Names -> Ids \cup {Null}]
         /\ removeClients(S) => servers' \in [Idx -> GameDatas]
<1>1. Erased(S) \in [Ids -> ClientDatas]
  BY BlankTypes DEF Erased, TypeOK
<1>2. NamesErased(S) \in [Names -> Ids \cup {Null}]
  BY DEF NamesErased, TypeOK
<1>3. ASSUME removeClients(S) PROVE servers' \in [Idx -> GameDatas]
  <2>1. ASSUME NEW g \in Idx
        PROVE  [servers[g] EXCEPT !.playerCount = PlayersLeft(g, S)] \in GameDatas
    BY PlayersLeftType DEF TypeOK, GameDatas
  <2> QED  BY <1>3, <2>1 DEF removeClients
<1> QED  BY <1>1, <1>2, <1>3

LEMMA TypeGameServerStep ==
  ASSUME TypeOK, NEW s \in Sessions, GameServerNext(s)
  PROVE  TypeOK'
<1>1. CASE AcceptGameServer(s)
  BY <1>1, BlankTypes DEF AcceptGameServer, TypeOK
<1>2. CASE GameConnectionLost(s)
  BY <1>2, ClosedTypes DEF GameConnectionLost, TypeOK
<1>3. CASE GameSessionClosed(s)
  <2>1. servers' \in [Idx -> GameDatas]
    <3>1. CASE gs[s].auto
      BY <1>3, <3>1 DEF GameSessionClosed, TypeOK, GameDatas
    <3>2. CASE ~gs[s].auto
      BY <1>3, <3>2, BlankTypes DEF GameSessionClosed, removeGameData, TypeOK
    <3> QED  BY <3>1, <3>2
  <2>2. cd' \in [Ids -> ClientDatas] /\ byName' \in [Names -> Ids \cup {Null}]
    BY <1>3, RemoveTypes DEF GameSessionClosed, removeGameData, TypeOK
  <2> QED  BY <1>3, <2>1, <2>2, BlankTypes DEF GameSessionClosed, TypeOK
<1>4. ASSUME NEW kind \in LoginKinds, NEW g \in Idx, NEW info \in Infos,
             NEW guid \in Guids, onServerLogin(s, kind, g, info, guid)
      PROVE  TypeOK'
  <2>1. gs' \in [Sessions -> GameServerSessions]
    <3>1. \A x \in GameServerSessions, b \in BOOLEAN :
            /\ [x EXCEPT !.auto = b] \in GameServerSessions
            /\ [x EXCEPT !.auto = b, !.gameData = g] \in GameServerSessions
            /\ [x EXCEPT !.gameData = Null] \in GameServerSessions
      BY DEF GameServerSessions
    <3>2. (kind # "LOGIN") \in BOOLEAN
      OBVIOUS
    <3>3. CASE gs' = [gs EXCEPT ![s].auto = (kind # "LOGIN")]
      BY <3>1, <3>2, <3>3 DEF TypeOK
    <3>4. CASE gs' = [gs EXCEPT ![s] =
                 [@ EXCEPT !.auto = (kind # "LOGIN"), !.gameData = g]]
      BY <3>4 DEF TypeOK, GameServerSessions
    <3>5. CASE gs' = [t \in Sessions |->
                 CASE t = s -> [gs[s] EXCEPT !.auto = (kind # "LOGIN"), !.gameData = g]
                   [] t # s /\ t = servers[g].session ->
                        Closed([gs[t] EXCEPT !.gameData = Null])
                   [] OTHER -> gs[t]]
      BY <3>1, <3>2, <3>5, ClosedTypes DEF TypeOK
    <3> QED  BY <1>4, <3>3, <3>4, <3>5 DEF onServerLogin
  <2>2. servers' \in [Idx -> GameDatas]
    <3>1. CASE UNCHANGED servers
      BY <3>1 DEF TypeOK
    <3>2. CASE \E own \in Guids \cup {ZeroGuid} : servers' = [servers EXCEPT ![g] =
                 [info |-> info, guid |-> own, session |-> s,
                  ready |-> ~(kind # "LOGIN"), playerCount |-> 0]]
      BY <3>2, CountModPositive DEF TypeOK, GameDatas
    <3>3. CASE servers' = [servers EXCEPT ![g] =
                 [@ EXCEPT !.session = s, !.ready = FALSE]]
      BY <3>3 DEF TypeOK, GameDatas
    <3> QED  BY <1>4, <3>1, <3>2, <3>3 DEF onServerLogin
  <2> QED  BY <1>4, <2>1, <2>2 DEF onServerLogin, TypeOK
<1>5. ASSUME NEW chunk \in Lists, NEW final \in BOOLEAN,
             onAccountList(s, chunk, final)
      PROVE  TypeOK'
  <2> DEFINE all == gs[s].list \o chunk
             g == gs[s].gameData
  <2>1. all \in Lists /\ g \in Idx
    BY <1>5, AccountListType
  <2>2. CASE ~final
    BY <1>5, <2>1, <2>2 DEF onAccountList, TypeOK, GameServerSessions
  <2>3. CASE final
    <3>1. PICK added \in SUBSET DOMAIN all : SyncAccounts(s, g, all, added)
      BY <1>5, <2>3 DEF onAccountList
    <3>2. \A k \in DOMAIN all : all[k][1] \in Names /\ all[k][2] \in Ids
      <4>1. PICK n \in 0 .. MaxList : all \in [1 .. n -> Accounts]
        BY <2>1 DEF Lists
      <4> HIDE DEF all
      <4> QED  BY <4>1 DEF Accounts
    <3>3. cd' \in [Ids -> ClientDatas]
      <4>1. \A n \in Names : InGameClient(g, n) \in ClientDatas
        BY <2>1, KeysAssumption DEF InGameClient, ClientDatas
      <4> QED  BY <3>1, <3>2, <4>1, RemoveTypes DEF SyncAccounts
    <3>4. byName' \in [Names -> Ids \cup {Null}]
      BY <3>1, <3>2, RemoveTypes DEF SyncAccounts
    <3>5. servers' \in [Idx -> GameDatas]
      <4>1. IsFiniteSet(DOMAIN all)
        <5>1. PICK n \in 0 .. MaxList : all \in [1 .. n -> Accounts]
          BY <2>1 DEF Lists
        <5>2. DOMAIN all = 1 .. n /\ n \in Int
          BY <5>1, FlagsAssumption
        <5> QED  BY <5>2, FS_Interval
      <4>2. Cardinality(added) \in Nat
        BY <4>1, FS_Subset, FS_CardinalityType
      <4>3. (PlayersLeft(g, ClientsOf(g)) + Cardinality(added)) % CountMod
              \in 0 .. CountMod - 1
        BY <2>1, <4>2, PlayersLeftType, CountModPositive
      <4> DEFINE n == (PlayersLeft(g, ClientsOf(g)) + Cardinality(added)) % CountMod
      <4>4. servers' = [servers EXCEPT ![g] = [@ EXCEPT !.ready = TRUE, !.playerCount = n]]
        BY <3>1 DEF SyncAccounts
      <4>5. n \in 0 .. CountMod - 1
        BY <4>3
      <4> HIDE DEF n
      <4> QED  BY <2>1, <4>4, <4>5, ZenonT(40) DEF TypeOK, GameDatas
    <3>6. sent' \subseteq Messages
      BY <3>1, <3>2, SendType DEF SyncAccounts
    <3>7. gs' \in [Sessions -> GameServerSessions]
      <4>1. gs' = [gs EXCEPT ![s].list = << >>]
        BY <1>5, <2>3 DEF onAccountList
      <4> QED  BY <4>1, BlankTypes DEF TypeOK, GameServerSessions
    <3>8. UNCHANGED cs
      BY <1>5 DEF onAccountList
    <3> QED  BY <3>3, <3>4, <3>5, <3>6, <3>7, <3>8 DEF TypeOK
  <2> QED  BY <2>2, <2>3
<1>6. CASE onServerLogout(s)
  <2>1. cd' \in [Ids -> ClientDatas] /\ byName' \in [Names -> Ids \cup {Null}]
    BY <1>6, RemoveTypes DEF onServerLogout, removeGameData
  <2> QED  BY <1>6, <2>1, BlankTypes DEF onServerLogout, removeGameData, TypeOK, GameServerSessions
<1>7. ASSUME NEW name \in Names, NEW otp \in Otps, onClientLogin(s, name, otp)
      PROVE  TypeOK'
  <2>1. cd' \in [Ids -> ClientDatas]
    <3>1. CASE UNCHANGED cd
      BY <3>1 DEF TypeOK
    <3>2. CASE cd' = [cd EXCEPT ![byName[name]].inGame = TRUE]
      BY <3>2 DEF TypeOK, ClientDatas
    <3> QED  BY <1>7, <3>1, <3>2 DEF onClientLogin
  <2>2. servers' \in [Idx -> GameDatas]
    <3>1. CASE UNCHANGED servers
      BY <3>1 DEF TypeOK
    <3>2. CASE servers' = [servers EXCEPT ![gs[s].gameData].playerCount = (@ + 1) % CountMod]
      <4> DEFINE g == gs[s].gameData
                 n == (servers[g].playerCount + 1) % CountMod
      <4>1. CASE g \in Idx
        <5>1. servers[g].playerCount \in 0 .. CountMod - 1
          BY <4>1 DEF TypeOK, GameDatas
        <5>2. n \in 0 .. CountMod - 1
          BY <5>1, CountModPositive
        <5>3. servers' = [servers EXCEPT ![g].playerCount = n]
          BY <3>2, <4>1 DEF TypeOK
        <5> HIDE DEF n, g
        <5> QED  BY <4>1, <5>2, <5>3 DEF TypeOK, GameDatas
      <4>2. CASE g \notin Idx
        BY <3>2, <4>2 DEF TypeOK
      <4> QED  BY <4>1, <4>2
    <3> QED  BY <1>7, <3>1, <3>2 DEF onClientLogin
  <2> QED  BY <1>7, <2>1, <2>2, SendType DEF onClientLogin, TypeOK
<1>8. ASSUME NEW name \in Names, ClientReported(s, name) PROVE TypeOK'
  BY <1>8, RemoveTypes DEF ClientReported, removeClients, TypeOK
<1> QED
  BY <1>1, <1>2, <1>3, <1>4, <1>5, <1>6, <1>7, <1>8
     DEF GameServerNext, onClientLogout, onClientKickFailed

LEMMA OldClientType ==
  ASSUME TypeOK, NEW name \in Names, NEW id \in Ids, ~CanAdd(name, id)
  PROVE  OldClient(name, id) \in Ids
BY DEF TypeOK, CanAdd, OldClient

LEMMA TypeClientStep ==
  ASSUME TypeOK, NEW c \in Clients, ClientNext(c)
  PROVE  TypeOK'
<1>1. CASE AcceptClient(c)
  BY <1>1, BlankTypes DEF AcceptClient, TypeOK
<1>2. CASE ClientConnectionLost(c)
  BY <1>2, ClosedTypes DEF ClientConnectionLost, TypeOK
<1>3. CASE ClientSessionClosed(c)
  <2>1. cs' \in [Clients -> ClientSessions]
    BY <1>3, BlankTypes DEF ClientSessionClosed, TypeOK
  <2>2. CASE UNCHANGED <<cd, byName, servers>>
    BY <1>3, <2>1, <2>2 DEF ClientSessionClosed, TypeOK
  <2>3. ASSUME NEW i, removeClients({i} \cap Ids) PROVE TypeOK'
    BY <1>3, <2>1, <2>3, RemoveTypes DEF ClientSessionClosed, removeClients, TypeOK
  <2> QED  BY <1>3, <2>2, <2>3 DEF ClientSessionClosed
<1>4. ASSUME NEW name \in Names, onAccount(c, name) PROVE TypeOK'
  BY <1>4 DEF onAccount, TypeOK, ClientSessions
<1>5. CASE clientAuthResult(c)
  <2>1. CASE AuthRefused(c)
    BY <2>1 DEF AuthRefused, TypeOK, ClientSessions
  <2>2. ASSUME NEW id \in Ids, cs[c].query # Null, AuthAccepted(c, id)
        PROVE  TypeOK'
    <3>1. cs[c].query \in Names
      BY <2>2 DEF TypeOK, ClientSessions
    <3>2. [NoClient EXCEPT !.account = cs[c].query, !.client = c] \in ClientDatas
      BY <3>1, KeysAssumption DEF NoClient, ClientDatas
    <3>3. cd' \in [Ids -> ClientDatas] /\ byName' \in [Names -> Ids \cup {Null}]
      BY <2>2, <3>1, <3>2 DEF AuthAccepted, TypeOK
    <3>4. cs' \in [Clients -> ClientSessions]
      BY <2>2 DEF AuthAccepted, TypeOK, ClientSessions
    <3> QED  BY <2>2, <3>3, <3>4 DEF AuthAccepted, TypeOK
  <2>3. ASSUME NEW old \in Ids, AuthDuplicate(c, old) PROVE TypeOK'
    <3>1. cs' \in [Clients -> ClientSessions]
      <4>1. [cs EXCEPT ![c].query = Null] \in [Clients -> ClientSessions]
        BY DEF TypeOK, ClientSessions
      <4>2. CASE cs' = [cs EXCEPT ![c].query = Null]
        BY <4>1, <4>2
      <4>3. CASE cs' = [[cs EXCEPT ![c].query = Null] EXCEPT ![cd[old].client] = Closed(@)]
        BY <4>1, <4>3, ClosedTypes
      <4> QED  BY <2>3, <4>2, <4>3 DEF AuthDuplicate
    <3>2. sent' \subseteq Messages
      <4>1. cd[old].account \in Names \cup {Null} /\ \A g \in Idx : servers[g].session \in Sessions \cup {Null}
        BY DEF TypeOK, ClientDatas, GameDatas
      <4>2. cd[old].server # Null => cd[old].server \in Idx
        BY DEF TypeOK, ClientDatas
      <4> QED  BY <2>3, <4>1, <4>2, SendType DEF AuthDuplicate, kickClient
    <3>3. UNCHANGED <<cd, byName, servers>> \/ removeClients({old})
      BY <2>3 DEF AuthDuplicate, kickClient
    <3>4. UNCHANGED gs
      BY <2>3 DEF AuthDuplicate
    <3>5. /\ cd' \in [Ids -> ClientDatas]
          /\ byName' \in [Names -> Ids \cup {Null}]
          /\ servers' \in [Idx -> GameDatas]
      <4>1. CASE UNCHANGED <<cd, byName, servers>>
        BY <4>1 DEF TypeOK
      <4>2. CASE removeClients({old})
        BY <4>2, RemoveTypes DEF removeClients
      <4> QED  BY <3>3, <4>1, <4>2
    <3> QED  BY <3>1, <3>2, <3>4, <3>5 DEF TypeOK
  <2> QED
    BY <1>5, <2>1, <2>2, <2>3, OldClientType DEF clientAuthResult, TypeOK, ClientSessions
<1>6. CASE onServerList(c)
  BY <1>6, ClosedTypes DEF onServerList, AbortClient, TypeOK
<1>7. ASSUME NEW g \in Idx, NEW otp \in Otps, onSelectServer(c, g, otp)
      PROVE  TypeOK'
  <2>1. CASE AbortClient(c)
    BY <2>1, ClosedTypes DEF AbortClient, TypeOK
  <2>2. CASE ~AbortClient(c)
    <3>1. cd' \in [Ids -> ClientDatas]
      <4>1. PICK i : cd' = IF i = Null THEN cd
                ELSE [cd EXCEPT ![i] =
                       [@ EXCEPT !.client = Null, !.server = g, !.otp = otp]]
        BY <1>7, <2>2 DEF onSelectServer
      <4>2. CASE i = Null
        BY <4>1, <4>2 DEF TypeOK
      <4>3. CASE i # Null
        <5>1. cd' = [cd EXCEPT ![i] =
                       [@ EXCEPT !.client = Null, !.server = g, !.otp = otp]]
          BY <4>1, <4>3
        <5> QED  BY <5>1 DEF TypeOK, ClientDatas
      <4> QED  BY <4>2, <4>3
    <3>2. cs' \in [Clients -> ClientSessions]
      <4>1. [cs[c] EXCEPT !.clientData = Null] \in ClientSessions
        BY DEF TypeOK, ClientSessions
      <4> QED  BY <1>7, <2>2, <4>1, ClosedTypes DEF onSelectServer, TypeOK
    <3> QED  BY <1>7, <2>2, <3>1, <3>2 DEF onSelectServer, TypeOK
  <2> QED  BY <2>1, <2>2
<1> QED
  BY <1>1, <1>2, <1>3, <1>4, <1>5, <1>6, <1>7 DEF ClientNext

(* Every reachable state is well typed: no handler stores a value outside   *)
(* its type, and the player counters stay in their width.                   *)
THEOREM TypeCorrect == Spec => []TypeOK
<1>1. Init => TypeOK
  BY BlankTypes DEF Init, TypeOK
<1>2. TypeOK /\ [Next]_vars => TypeOK'
  <2> SUFFICES ASSUME TypeOK, [Next]_vars PROVE TypeOK'
    OBVIOUS
  <2>1. CASE Next
    BY <2>1, TypeGameServerStep, TypeClientStep DEF Next
  <2>2. CASE UNCHANGED vars
    BY <2>2 DEF vars, TypeOK
  <2> QED  BY <2>1, <2>2
<1> QED  BY <1>1, <1>2, PTL DEF Spec

-----------------------------------------------------------------------------
(* The links between game server sessions and GameDatas                     *)

\* The part of a GameData that the sessions know.
SameLinks ==
  /\ UNCHANGED gs
  /\ \A g \in Idx : /\ servers'[g].session = servers[g].session
                    /\ servers'[g].info = servers[g].info

LEMMA SameLinksPreserve ==
  ASSUME TypeOK, SessionLink, SameLinks
  PROVE  SessionLink'
BY DEF TypeOK, SessionLink, SameLinks, Registered, CanRead, GameServerSessions, GameDatas

LEMMA RemoveKeepsLinks ==
  ASSUME TypeOK, NEW S, removeClients(S)
  PROVE  \A g \in Idx : /\ servers'[g].session = servers[g].session
                        /\ servers'[g].info = servers[g].info
BY DEF TypeOK, removeClients, GameDatas

LEMMA ClientStepKeepsLinks ==
  ASSUME TypeOK, NEW c \in Clients, ClientNext(c)
  PROVE  SameLinks
<1>1. UNCHANGED gs
  BY DEF ClientNext, AcceptClient, ClientConnectionLost, ClientSessionClosed,
         onAccount, clientAuthResult, AuthRefused, AuthAccepted, AuthDuplicate,
         onServerList, onSelectServer, AbortClient
<1>2. UNCHANGED servers \/ \E S : removeClients(S)
  BY DEF ClientNext, AcceptClient, ClientConnectionLost, ClientSessionClosed,
         onAccount, clientAuthResult, AuthRefused, AuthAccepted, AuthDuplicate,
         kickClient, onServerList, onSelectServer, AbortClient
<1> QED  BY <1>1, <1>2, RemoveKeepsLinks DEF SameLinks

LEMMA LinkGameServerStep ==
  ASSUME TypeOK, SessionLink, NEW s \in Sessions, GameServerNext(s)
  PROVE  SessionLink'
<1> USE KeysAssumption
<1>0. /\ \A t \in Sessions : gs[t].gameData \in Idx \cup {Null}
      /\ \A h \in Idx : servers[h].session \in Sessions \cup {Null}
  BY DEF TypeOK, GameServerSessions, GameDatas
<1>1. CASE AcceptGameServer(s)
  BY <1>1 DEF AcceptGameServer, TypeOK, SessionLink, Registered, CanRead,
              NewGameSession, GameServerSessions, GameDatas
<1>2. CASE GameConnectionLost(s)
  BY <1>2 DEF GameConnectionLost, TypeOK, SessionLink, Registered, CanRead,
              Closed, GameServerSessions, GameDatas
<1>3. CASE GameSessionClosed(s)
  <2> DEFINE g == gs[s].gameData
  <2>1. gs' = [gs EXCEPT ![s] = [NewGameSession EXCEPT !.phase = "none"]]
    BY <1>3 DEF GameSessionClosed
  <2>2. CASE g = Null
    <3>1. UNCHANGED servers
      BY <1>3, <2>2 DEF GameSessionClosed
    <3> QED  BY <2>1, <2>2, <3>1
                DEF TypeOK, SessionLink, Registered, CanRead, NewGameSession,
                    GameServerSessions, GameDatas
  <2>3. CASE g # Null
    <3>1. g \in Idx /\ servers[g].session = s /\ \A h \in Idx : h # g => servers[h].session # s
      BY <2>3 DEF TypeOK, SessionLink, GameServerSessions
    <3>2. \/ servers' = [servers EXCEPT ![g].session = Null]
          \/ servers' = [servers EXCEPT ![g] = NoServer]
      BY <1>3, <2>3, <3>1 DEF GameSessionClosed, removeGameData
    <3>3. servers'[g].session = Null /\ \A h \in Idx : h # g => servers'[h] = servers[h]
      BY <3>1, <3>2 DEF TypeOK, GameDatas, NoServer
    <3>4. gs'[s].gameData = Null /\ \A t \in Sessions : t # s => gs'[t] = gs[t]
      BY <2>1 DEF TypeOK, NewGameSession
    <3>5. \A t \in Sessions : t # s => gs[t].gameData # g
      BY <3>1 DEF SessionLink
    <3> QED  BY <1>0, <3>1, <3>3, <3>4, <3>5 DEF SessionLink, Registered, CanRead
  <2> QED  BY <2>2, <2>3
<1>4. ASSUME NEW kind \in LoginKinds, NEW g \in Idx, NEW info \in Infos,
             NEW guid \in Guids, onServerLogin(s, kind, g, info, guid)
      PROVE  SessionLink'
  <2> DEFINE auto == kind # "LOGIN"
             old == servers[g].session
  <2>1. CASE UNCHANGED servers /\ gs' = [gs EXCEPT ![s].auto = auto]
    BY <2>1 DEF TypeOK, SessionLink, Registered, CanRead, GameServerSessions, GameDatas
  <2>2. ASSUME gs[s].gameData = Null, g \notin Registered,
               gs' = [gs EXCEPT ![s] = [@ EXCEPT !.auto = auto, !.gameData = g]],
               \E own : servers' = [servers EXCEPT ![g] =
                 [info |-> info, guid |-> own, session |-> s,
                  ready |-> ~auto, playerCount |-> 0]]
        PROVE  SessionLink'
    <3>1. /\ gs'[s].gameData = g /\ gs'[s].phase = gs[s].phase
          /\ \A t \in Sessions : t # s => gs'[t] = gs[t]
      BY <2>2 DEF TypeOK, GameServerSessions
    <3>2. /\ servers'[g].session = s /\ servers'[g].info # Null
          /\ \A h \in Idx : h # g => servers'[h] = servers[h]
      BY <2>2 DEF TypeOK
    <3>3. /\ \A t \in Sessions : gs[t].gameData # g
          /\ \A h \in Idx : servers[h].session # s
      BY <2>2 DEF SessionLink, TypeOK, GameDatas
    <3>4. CanRead(gs[s])
      BY <1>4 DEF onServerLogin
    <3> QED  BY <1>0, <3>1, <3>2, <3>3, <3>4 DEF SessionLink, Registered, CanRead
  <2>3. ASSUME gs[s].gameData = Null, g \in Registered,
               gs' = [t \in Sessions |->
                 CASE t = s -> [gs[s] EXCEPT !.auto = auto, !.gameData = g]
                   [] t # s /\ t = old -> Closed([gs[t] EXCEPT !.gameData = Null])
                   [] OTHER -> gs[t]],
               servers' = [servers EXCEPT ![g] =
                 [@ EXCEPT !.session = s, !.ready = FALSE]]
        PROVE  SessionLink'
    <3>1. /\ gs'[s].gameData = g /\ gs'[s].phase = gs[s].phase
          /\ \A t \in Sessions : t # s /\ t # old => gs'[t] = gs[t]
          /\ old # Null /\ old # s => gs'[old].gameData = Null
      <4>1. gs'[s] = [gs[s] EXCEPT !.auto = auto, !.gameData = g]
        BY <2>3
      <4>2. \A t \in Sessions : t # s /\ t # old => gs'[t] = gs[t]
        BY <2>3
      <4>3. old # Null /\ old # s =>
              old \in Sessions /\ gs'[old] = Closed([gs[old] EXCEPT !.gameData = Null])
        BY <1>0, <2>3
      <4>4. gs'[s].gameData = g /\ gs'[s].phase = gs[s].phase
        BY <4>1 DEF TypeOK, GameServerSessions
      <4>5. \A x \in GameServerSessions :
              Closed([x EXCEPT !.gameData = Null]).gameData = Null
        BY DEF GameServerSessions, Closed
      <4>6. old # Null /\ old # s => gs'[old].gameData = Null
        BY <4>3, <4>5 DEF TypeOK
      <4> QED  BY <4>2, <4>4, <4>6
    <3>2. /\ servers'[g].session = s /\ servers'[g].info = servers[g].info
          /\ \A h \in Idx : h # g => servers'[h] = servers[h]
      BY <2>3 DEF TypeOK, GameDatas
    <3>3. /\ \A t \in Sessions : gs[t].gameData = g => t = old
          /\ \A h \in Idx : h # g => servers[h].session # s
          /\ \A h \in Idx : h # g => servers[h].session # old \/ old = Null
      BY <2>3, SMTT(30) DEF SessionLink, TypeOK, GameDatas
    <3>4. CanRead(gs[s])
      BY <1>4 DEF onServerLogin
    <3> QED  BY <1>0, <2>3, <3>1, <3>2, <3>3, <3>4 DEF SessionLink, Registered, CanRead
  <2> QED  BY <1>4, <2>1, <2>2, <2>3 DEF onServerLogin
<1>5. ASSUME NEW chunk \in Lists, NEW final \in BOOLEAN,
             onAccountList(s, chunk, final)
      PROVE  SessionLink'
  <2>1. \E l : gs' = [gs EXCEPT ![s].list = l]
    BY <1>5 DEF onAccountList
  <2>2. \/ UNCHANGED servers
        \/ \E n : servers' = [servers EXCEPT ![gs[s].gameData] =
                                [@ EXCEPT !.ready = TRUE, !.playerCount = n]]
    BY <1>5 DEF onAccountList, SyncAccounts
  <2>3. \A g \in Idx : /\ servers'[g].session = servers[g].session
                       /\ servers'[g].info = servers[g].info
    <3>1. CASE UNCHANGED servers
      BY <3>1
    <3>2. ASSUME NEW n, servers' = [servers EXCEPT ![gs[s].gameData] =
                                      [@ EXCEPT !.ready = TRUE, !.playerCount = n]]
          PROVE  \A g \in Idx : /\ servers'[g].session = servers[g].session
                                /\ servers'[g].info = servers[g].info
      <4> SUFFICES ASSUME NEW g \in Idx
                   PROVE  /\ servers'[g].session = servers[g].session
                          /\ servers'[g].info = servers[g].info
        OBVIOUS
      <4>1. servers'[g] = servers[g] \/
            servers'[g] = [servers[g] EXCEPT !.ready = TRUE, !.playerCount = n]
        BY <3>2 DEF TypeOK
      <4> QED  BY <4>1 DEF TypeOK, GameDatas
    <3> QED  BY <2>2, <3>1, <3>2
  <2>4. \A t \in Sessions : gs'[t].gameData = gs[t].gameData /\ gs'[t].phase = gs[t].phase
    BY <2>1 DEF TypeOK, GameServerSessions
  <2> QED  BY <2>3, <2>4
              DEF TypeOK, SessionLink, Registered, CanRead, GameServerSessions, GameDatas
<1>6. CASE onServerLogout(s)
  <2> DEFINE g == gs[s].gameData
  <2>1. g \in Idx /\ servers[g].session = s
    BY <1>6 DEF onServerLogout, TypeOK, SessionLink, GameServerSessions
  <2>2. gs'[s].gameData = Null /\ \A t \in Sessions : t # s => gs'[t] = gs[t]
    BY <1>6 DEF onServerLogout, TypeOK, GameServerSessions
  <2>3. servers'[g].session = Null /\ \A h \in Idx : h # g => servers'[h] = servers[h]
    BY <1>6, <2>1 DEF onServerLogout, removeGameData, TypeOK, NoServer
  <2>4. /\ \A t \in Sessions : t # s => gs[t].gameData # g
        /\ \A h \in Idx : h # g => servers[h].session # s
    BY <2>1 DEF SessionLink, TypeOK, GameDatas
  <2> QED  BY <1>0, <2>1, <2>2, <2>3, <2>4 DEF SessionLink, Registered, CanRead
<1>7. ASSUME NEW name \in Names, NEW otp \in Otps, onClientLogin(s, name, otp)
      PROVE  SessionLink'
  <2>1. \/ UNCHANGED servers
        \/ \E n : servers' = [servers EXCEPT ![gs[s].gameData].playerCount = n]
    BY <1>7 DEF onClientLogin
  <2>2. SameLinks
    BY <1>7, <2>1 DEF onClientLogin, SameLinks, TypeOK, GameDatas
  <2> QED  BY <2>2, SameLinksPreserve
<1>8. ASSUME NEW name \in Names, ClientReported(s, name) PROVE SessionLink'
  <2>1. SameLinks
    BY <1>8, RemoveKeepsLinks DEF ClientReported, SameLinks
  <2> QED  BY <2>1, SameLinksPreserve
<1> QED
  BY <1>1, <1>2, <1>3, <1>4, <1>5, <1>6, <1>7, <1>8
     DEF GameServerNext, onClientLogout, onClientKickFailed

(* The session of a game server and its GameData always point at each       *)
(* other: no takeover, logout or lost connection leaves a pointer behind.   *)
THEOREM SessionLinkCorrect == Spec => []SessionLink
<1>1. Init => SessionLink
  BY KeysAssumption DEF Init, SessionLink, NewGameSession, NoServer
<1>2. TypeOK /\ SessionLink /\ [Next]_vars => SessionLink'
  <2> SUFFICES ASSUME TypeOK, SessionLink, [Next]_vars PROVE SessionLink'
    OBVIOUS
  <2>1. CASE \E s \in Sessions : GameServerNext(s)
    BY <2>1, LinkGameServerStep
  <2>2. CASE \E c \in Clients : ClientNext(c)
    BY <2>2, ClientStepKeepsLinks, SameLinksPreserve
  <2>3. CASE UNCHANGED vars
    BY <2>3, SameLinksPreserve DEF vars, SameLinks
  <2> QED  BY <2>1, <2>2, <2>3 DEF Next
<1> QED  BY <1>1, <1>2, TypeCorrect, PTL DEF Spec

-----------------------------------------------------------------------------
(* The registry of accounts                                                 *)
(* What the handlers do to the two maps                                     *)
MapsUnchanged == UNCHANGED <<cd, byName>>

MapsErased(S) == cd' = Erased(S) /\ byName' = NamesErased(S)

\* An in-game client, or one that is handed over, keeps its account.
AccountsKept ==
  /\ UNCHANGED byName
  /\ cd' \in [Ids -> ClientDatas]
  /\ \A i \in Ids : cd'[i].account = cd[i].account

LEMMA AccountsKeptMaps ==
  ASSUME TypeOK, MapsAgree, AccountsKept
  PROVE  MapsAgree'
BY DEF TypeOK, MapsAgree, AccountsKept, Connected

LEMMA ErasedMaps ==
  ASSUME TypeOK, MapsAgree, NEW S \in SUBSET Ids, MapsErased(S)
  PROVE  MapsAgree'
<1>1. /\ \A i \in Ids : i \in S => cd'[i].account = Null
      /\ \A i \in Ids : i \notin S => cd'[i] = cd[i]
  BY DEF MapsErased, Erased, NoClient
<1>2. \A n \in Names :
        byName'[n] = IF \E i \in S : cd[i].account = n THEN Null ELSE byName[n]
  BY DEF MapsErased, NamesErased
<1>3. ASSUME NEW i \in Ids, cd'[i].account # Null
      PROVE  byName'[cd'[i].account] = i
  <2>1. i \notin S /\ cd'[i] = cd[i] /\ cd[i].account \in Names
    BY <1>1, <1>3 DEF TypeOK, ClientDatas
  <2>2. byName[cd[i].account] = i
    BY <1>3, <2>1 DEF MapsAgree, Connected
  <2>3. \A j \in S : cd[j].account # cd[i].account
    BY <1>3, <2>1, <2>2 DEF MapsAgree, Connected
  <2> QED  BY <1>2, <2>1, <2>2, <2>3
<1>4. ASSUME NEW n \in Names, byName'[n] # Null
      PROVE  cd'[byName'[n]].account = n
  <2>1. byName'[n] = byName[n] /\ ~\E i \in S : cd[i].account = n
    BY <1>2, <1>4
  <2>2. byName[n] \in Ids /\ cd[byName[n]].account = n
    BY <1>4, <2>1 DEF TypeOK, MapsAgree
  <2> QED  BY <1>1, <2>1, <2>2
<1> QED  BY <1>3, <1>4 DEF MapsAgree, Connected

(* The accounts that are added from a list have different ids and names.    *)
LEMMA AddedDiffer ==
  ASSUME NEW all \in Lists, NEW g \in Idx, NEW added \in SUBSET DOMAIN all,
         Accepted(g, all, added)
  PROVE  /\ \A k \in added : all[k][1] \in Names /\ all[k][2] \in Ids /\ Free(g, all[k])
         /\ \A j, k \in added :
              all[j][1] = all[k][1] \/ all[j][2] = all[k][2] => j = k
<1>1. PICK n \in 0 .. MaxList : all \in [1 .. n -> Accounts]
  BY DEF Lists
<1>2. \A k \in added : k \in 1 .. n /\ all[k] \in Accounts
  BY <1>1
<1>3. \A k \in added : all[k][1] \in Names /\ all[k][2] \in Ids /\ Free(g, all[k])
  BY <1>2 DEF Accounts, Accepted
<1>4. \A j, k \in added : j < k => all[j][1] # all[k][1] /\ all[j][2] # all[k][2]
  BY DEF Accepted
<1>5. n \in Nat
  BY <1>1, FlagsAssumption
<1>6. \A j, k \in added : j = k \/ j < k \/ k < j
  BY <1>2, <1>5
<1> QED  BY <1>3, <1>4, <1>6

LEMMA SyncMaps ==
  ASSUME TypeOK, MapsAgree, NEW s \in Sessions, NEW g \in Idx, NEW all \in Lists,
         NEW added \in SUBSET DOMAIN all, Accepted(g, all, added),
         SyncAccounts(s, g, all, added)
  PROVE  MapsAgree'
<1> DEFINE S == ClientsOf(g)
           At(i) == CHOOSE k \in added : all[k][2] = i
           For(n) == CHOOSE k \in added : all[k][1] = n
<1>1. /\ \A k \in added : all[k][1] \in Names /\ all[k][2] \in Ids /\ Free(g, all[k])
      /\ \A j, k \in added :
           all[j][1] = all[k][1] \/ all[j][2] = all[k][2] => j = k
  BY AddedDiffer
<1>2. \A i \in Ids :
        cd'[i].account = IF \E k \in added : all[k][2] = i THEN all[At(i)][1]
                         ELSE Erased(S)[i].account
  BY DEF SyncAccounts, InGameClient
<1>3. \A n \in Names :
        byName'[n] = IF \E k \in added : all[k][1] = n THEN all[For(n)][2]
                     ELSE NamesErased(S)[n]
  BY DEF SyncAccounts
<1>4. /\ \A k \in added : At(all[k][2]) = k
      /\ \A k \in added : For(all[k][1]) = k
  BY <1>1
<1>5. /\ \A k \in added : cd'[all[k][2]].account = all[k][1]
      /\ \A k \in added : byName'[all[k][1]] = all[k][2]
  BY <1>1, <1>2, <1>3, <1>4
<1> HIDE DEF At, For
<1>6. S \in SUBSET Ids
  BY DEF ClientsOf, Connected
<1>7. \A i \in Ids : Erased(S)[i].account = IF i \in S THEN Null ELSE cd[i].account
  BY DEF Erased, NoClient
<1>8. \A n \in Names :
        NamesErased(S)[n] = IF \E i \in S : cd[i].account = n THEN Null ELSE byName[n]
  BY DEF NamesErased
<1>9. ASSUME NEW i \in Ids, cd'[i].account # Null
      PROVE  byName'[cd'[i].account] = i
  <2>1. CASE \E k \in added : all[k][2] = i
    BY <1>5, <2>1
  <2>2. CASE ~\E k \in added : all[k][2] = i
    <3>1. i \notin S /\ cd'[i].account = cd[i].account /\ cd[i].account \in Names
      BY <1>2, <1>7, <1>9, <2>2 DEF TypeOK, ClientDatas
    <3>2. byName[cd[i].account] = i
      BY <1>9, <3>1 DEF MapsAgree, Connected
    <3>3. \A j \in S : cd[j].account # cd[i].account
      BY <1>6, <1>9, <3>1, <3>2 DEF MapsAgree, Connected
    <3>4. \A k \in added : all[k][1] # cd[i].account
      BY <1>1, <3>2, <3>3, KeysAssumption DEF Free
    <3> QED  BY <1>3, <1>8, <3>1, <3>2, <3>3, <3>4
  <2> QED  BY <2>1, <2>2
<1>10. ASSUME NEW n \in Names, byName'[n] # Null
       PROVE  cd'[byName'[n]].account = n
  <2>1. CASE \E k \in added : all[k][1] = n
    BY <1>5, <2>1
  <2>2. CASE ~\E k \in added : all[k][1] = n
    <3>1. byName'[n] = byName[n] /\ \A i \in S : cd[i].account # n
      BY <1>3, <1>8, <1>10, <2>2
    <3>2. byName[n] \in Ids /\ cd[byName[n]].account = n
      BY <1>10, <3>1 DEF TypeOK, MapsAgree
    <3>3. \A k \in added : all[k][2] # byName[n]
      BY <1>1, <3>1, <3>2, KeysAssumption DEF Free
    <3> QED  BY <1>2, <1>7, <3>1, <3>2, <3>3
  <2> QED  BY <2>1, <2>2
<1> QED  BY <1>9, <1>10 DEF MapsAgree, Connected

-----------------------------------------------------------------------------
LEMMA MapsGameServerStep ==
  ASSUME TypeOK, MapsAgree, NEW s \in Sessions, GameServerNext(s)
  PROVE  MapsAgree'
<1>0. ASSUME MapsUnchanged PROVE MapsAgree'
  BY <1>0 DEF MapsUnchanged, MapsAgree, Connected
<1>1. \A g : ClientsOf(g) \in SUBSET Ids
  BY DEF ClientsOf, Connected
<1>2. CASE AcceptGameServer(s) \/ GameConnectionLost(s)
  BY <1>0, <1>2 DEF AcceptGameServer, GameConnectionLost, MapsUnchanged
<1>3. CASE GameSessionClosed(s) \/ onServerLogout(s)
  <2>1. MapsUnchanged \/ \E g : MapsErased(ClientsOf(g))
    BY <1>3 DEF GameSessionClosed, onServerLogout, removeGameData, MapsUnchanged, MapsErased
  <2> QED  BY <1>0, <1>1, <2>1, ErasedMaps
<1>4. ASSUME NEW kind \in LoginKinds, NEW g \in Idx, NEW info \in Infos,
             NEW guid \in Guids, onServerLogin(s, kind, g, info, guid)
      PROVE  MapsAgree'
  BY <1>0, <1>4 DEF onServerLogin, MapsUnchanged
<1>5. ASSUME NEW chunk \in Lists, NEW final \in BOOLEAN,
             onAccountList(s, chunk, final)
      PROVE  MapsAgree'
  <2> DEFINE all == gs[s].list \o chunk
             g == gs[s].gameData
  <2>1. all \in Lists /\ g \in Idx
    BY <1>5, AccountListType
  <2>2. CASE ~final
    BY <1>0, <1>5, <2>2 DEF onAccountList, MapsUnchanged
  <2>3. CASE final
    <3>1. PICK added \in SUBSET DOMAIN all :
            Accepted(g, all, added) /\ SyncAccounts(s, g, all, added)
      BY <1>5, <2>3 DEF onAccountList
    <3> HIDE DEF all, g
    <3> QED  BY <2>1, <3>1, SyncMaps
  <2> QED  BY <2>2, <2>3
<1>6. ASSUME NEW name \in Names, NEW otp \in Otps, onClientLogin(s, name, otp)
      PROVE  MapsAgree'
  <2>1. cd' \in [Ids -> ClientDatas]
    BY <1>6, TypeGameServerStep DEF GameServerNext, TypeOK
  <2>2. cd' = cd \/ cd' = [cd EXCEPT ![byName[name]].inGame = TRUE]
    BY <1>6 DEF onClientLogin
  <2>3. AccountsKept
    BY <1>6, <2>1, <2>2 DEF AccountsKept, onClientLogin, TypeOK, ClientDatas
  <2> QED  BY <2>3, AccountsKeptMaps
<1>7. ASSUME NEW name \in Names, ClientReported(s, name) PROVE MapsAgree'
  <2>1. {byName[name]} \in SUBSET Ids /\ MapsErased({byName[name]})
    BY <1>7 DEF ClientReported, removeClients, MapsErased, TypeOK
  <2> QED  BY <2>1, ErasedMaps
<1> QED
  BY <1>2, <1>3, <1>4, <1>5, <1>6, <1>7
     DEF GameServerNext, onClientLogout, onClientKickFailed

LEMMA MapsClientStep ==
  ASSUME TypeOK, MapsAgree, NEW c \in Clients, ClientNext(c)
  PROVE  MapsAgree'
<1>0. ASSUME MapsUnchanged PROVE MapsAgree'
  BY <1>0 DEF MapsUnchanged, MapsAgree, Connected
<1>1. CASE AcceptClient(c) \/ ClientConnectionLost(c) \/ AuthRefused(c)
           \/ onServerList(c) \/ AbortClient(c) \/ \E n \in Names : onAccount(c, n)
  BY <1>0, <1>1 DEF AcceptClient, ClientConnectionLost, AuthRefused, onServerList,
                    AbortClient, onAccount, MapsUnchanged
<1>2. CASE ClientSessionClosed(c)
  <2>1. MapsUnchanged \/ \E i : MapsErased({i} \cap Ids)
    BY <1>2 DEF ClientSessionClosed, removeClients, MapsUnchanged, MapsErased
  <2> QED  BY <1>0, <2>1, ErasedMaps
<1>3. ASSUME NEW id \in Ids, cs[c].query # Null, CanAdd(cs[c].query, id),
             AuthAccepted(c, id)
      PROVE  MapsAgree'
  <2> DEFINE name == cs[c].query
  <2>1. name \in Names /\ cd[id].account = Null /\ byName[name] = Null
    BY <1>3 DEF CanAdd, TypeOK, ClientSessions
  <2>2. cd'[id].account = name /\ \A i \in Ids : i # id => cd'[i] = cd[i]
    BY <1>3 DEF AuthAccepted, TypeOK, NoClient
  <2>3. byName'[name] = id /\ \A n \in Names : n # name => byName'[n] = byName[n]
    BY <1>3, <2>1 DEF AuthAccepted, TypeOK
  <2>4. \A i \in Ids : cd[i].account \in Names \cup {Null}
    BY DEF TypeOK, ClientDatas
  <2>5. \A n \in Names : byName[n] \in Ids \cup {Null}
    BY DEF TypeOK
  <2> HIDE DEF name
  <2> QED  BY <2>1, <2>2, <2>3, <2>4, <2>5, KeysAssumption DEF MapsAgree, Connected
<1>4. ASSUME NEW old \in Ids, AuthDuplicate(c, old) PROVE MapsAgree'
  <2>1. MapsUnchanged \/ MapsErased({old})
    BY <1>4 DEF AuthDuplicate, kickClient, removeClients, MapsUnchanged, MapsErased
  <2> QED  BY <1>0, <2>1, ErasedMaps
<1>5. CASE clientAuthResult(c)
  <2>1. cs[c].query # Null => cs[c].query \in Names
    BY DEF TypeOK, ClientSessions
  <2> QED  BY <1>1, <1>3, <1>4, <1>5, <2>1, OldClientType DEF clientAuthResult
<1>6. ASSUME NEW g \in Idx, NEW otp \in Otps, onSelectServer(c, g, otp),
             ~AbortClient(c)
      PROVE  MapsAgree'
  <2>1. cd' \in [Ids -> ClientDatas]
    BY <1>6, TypeClientStep DEF ClientNext, TypeOK
  <2>2. PICK i : cd' = IF i = Null THEN cd
                       ELSE [cd EXCEPT ![i] =
                               [@ EXCEPT !.client = Null, !.server = g, !.otp = otp]]
    BY <1>6 DEF onSelectServer
  <2>3. \A j \in Ids :
          cd'[j] = cd[j] \/ cd'[j] = [cd[j] EXCEPT !.client = Null, !.server = g, !.otp = otp]
    BY <2>2 DEF TypeOK
  <2>4. \A j \in Ids : cd'[j].account = cd[j].account
    BY <2>3, ZenonT(40) DEF TypeOK, ClientDatas
  <2>5. UNCHANGED byName
    BY <1>6 DEF onSelectServer
  <2> QED  BY <2>1, <2>4, <2>5, AccountsKeptMaps DEF AccountsKept
<1> QED  BY <1>1, <1>2, <1>5, <1>6 DEF ClientNext

(* connectedClients and connectedClientsByName always hold the same         *)
(* accounts, whatever the order of logins, reports and synchronizations.    *)
THEOREM MapsAgreeCorrect == Spec => []MapsAgree
<1>1. Init => MapsAgree
  BY DEF Init, MapsAgree, Connected, NoClient
<1>2. TypeOK /\ MapsAgree /\ [Next]_vars => MapsAgree'
  <2> SUFFICES ASSUME TypeOK, MapsAgree, [Next]_vars PROVE MapsAgree'
    OBVIOUS
  <2>1. CASE Next
    BY <2>1, MapsGameServerStep, MapsClientStep DEF Next
  <2>2. CASE UNCHANGED vars
    BY <2>2 DEF vars, MapsAgree, Connected
  <2> QED  BY <2>1, <2>2
<1> QED  BY <1>1, <1>2, TypeCorrect, PTL DEF Spec

-----------------------------------------------------------------------------
(* Who manages a ClientData                                                 *)

\* Every account that remains is managed as before, by something that remains.
ManagersKept ==
  \A i \in Connected' :
    /\ i \in Connected
    /\ cd'[i].client = cd[i].client /\ cd'[i].server = cd[i].server
    /\ cd[i].server # Null => cd[i].server \in Registered'
    /\ cd[i].client # Null =>
         /\ cs'[cd[i].client].clientData = cs[cd[i].client].clientData
         /\ CanRead(cs'[cd[i].client])

LEMMA ManagersKeptManaged ==
  ASSUME Managed, ManagersKept
  PROVE  Managed'
BY DEF Managed, ManagersKept, ServerKnown, CanRead

(* Erasing ClientDatas leaves the others as they are.                       *)
LEMMA ErasedOthers ==
  ASSUME NEW S, cd' = Erased(S)
  PROVE  \A i \in Connected' : i \notin S /\ i \in Connected /\ cd'[i] = cd[i]
BY DEF Erased, Connected, NoClient

LEMMA ManagedGameServerStep ==
  ASSUME TypeOK, SessionLink, Managed, NEW s \in Sessions, GameServerNext(s)
  PROVE  Managed'
<1> USE KeysAssumption
<1>0. UNCHANGED cs
  BY DEF GameServerNext, AcceptGameServer, GameConnectionLost, GameSessionClosed,
         onServerLogin, onAccountList, onServerLogout, onClientLogin,
         onClientLogout, onClientKickFailed, ClientReported
<1>1. ASSUME ManagersKept PROVE Managed'
  BY <1>1, ManagersKeptManaged
<1>2. ASSUME UNCHANGED cd, Registered \subseteq Registered' PROVE Managed'
  BY <1>0, <1>1, <1>2 DEF ManagersKept, Connected, Managed, ServerKnown
<1>3. ASSUME NEW g \in Idx, removeGameData(g) PROVE Managed'
  <2>1. Registered' = Registered \ {g}
    BY <1>3 DEF removeGameData, Registered, TypeOK, NoServer
  <2>2. \A i \in Connected' : i \in Connected /\ cd'[i] = cd[i] /\ cd[i].server # g
    BY <1>3, ErasedOthers DEF removeGameData, ClientsOf
  <2> QED  BY <1>0, <1>1, <2>1, <2>2 DEF ManagersKept, Managed, ServerKnown
<1>4. CASE AcceptGameServer(s) \/ GameConnectionLost(s)
  BY <1>2, <1>4 DEF AcceptGameServer, GameConnectionLost, Registered
<1>5. CASE GameSessionClosed(s)
  <2> DEFINE g == gs[s].gameData
  <2>1. g # Null => g \in Idx
    BY DEF TypeOK, GameServerSessions
  <2>2. CASE removeGameData(g) /\ g # Null
    BY <1>3, <2>1, <2>2
  <2>3. CASE UNCHANGED cd /\ servers' = [servers EXCEPT ![g].session = Null]
    <3>1. \A h \in Idx : servers'[h].info = servers[h].info
      BY <2>3 DEF TypeOK, GameDatas
    <3> QED  BY <1>2, <2>3, <3>1 DEF Registered
  <2>4. CASE UNCHANGED <<cd, servers>>
    BY <1>2, <2>4 DEF Registered
  <2> QED  BY <1>5, <2>2, <2>3, <2>4 DEF GameSessionClosed
<1>6. ASSUME NEW kind \in LoginKinds, NEW g \in Idx, NEW info \in Infos,
             NEW guid \in Guids, onServerLogin(s, kind, g, info, guid)
      PROVE  Managed'
  <2>1. \A h \in Idx : servers'[h].info = servers[h].info \/ servers'[h].info = info
    <3>1. \/ UNCHANGED servers
          \/ \E new : servers' = [servers EXCEPT ![g] = new] /\ new.info = info
          \/ servers' = [servers EXCEPT ![g] = [@ EXCEPT !.session = s, !.ready = FALSE]]
      <4> DEFINE new(own) ==
            [info |-> info, guid |-> own, session |-> s, ready |-> kind = "LOGIN",
             playerCount |-> 0]
      <4>1. \A own : new(own).info = info
        OBVIOUS
      <4>2. \/ UNCHANGED servers
            \/ \E own : servers' = [servers EXCEPT ![g] = new(own)]
            \/ servers' = [servers EXCEPT ![g] = [@ EXCEPT !.session = s, !.ready = FALSE]]
        BY <1>6 DEF onServerLogin
      <4> HIDE DEF new
      <4> QED  BY <4>1, <4>2
    <3>2. \A h \in Idx :
            \/ servers'[h].info = info
            \/ servers'[h] = servers[h]
            \/ servers'[h] = [servers[h] EXCEPT !.session = s, !.ready = FALSE]
      BY <3>1 DEF TypeOK
    <3> QED  BY <3>2 DEF TypeOK, GameDatas
  <2>2. UNCHANGED cd
    BY <1>6 DEF onServerLogin
  <2> QED  BY <1>2, <2>1, <2>2 DEF Registered
<1>7. ASSUME NEW chunk \in Lists, NEW final \in BOOLEAN,
             onAccountList(s, chunk, final)
      PROVE  Managed'
  <2> DEFINE all == gs[s].list \o chunk
             g == gs[s].gameData
  <2>1. g \in Registered
    BY <1>7 DEF onAccountList, SessionLink
  <2>2. CASE UNCHANGED <<cd, servers>>
    BY <1>2, <2>2 DEF Registered
  <2>3. ASSUME NEW added \in SUBSET DOMAIN all, SyncAccounts(s, g, all, added)
        PROVE  Managed'
    <3>1. \A i \in Ids : \/ cd'[i].client = Null /\ cd'[i].server = g
                         \/ cd'[i] = Erased(ClientsOf(g))[i]
      BY <2>3 DEF SyncAccounts, InGameClient
    <3>2. \A i \in Connected' :
            \/ cd'[i].client = Null /\ cd'[i].server = g
            \/ i \in Connected /\ cd'[i] = cd[i]
      BY <3>1 DEF Erased, Connected, NoClient
    <3>3. Registered' = Registered
      <4>1. PICK r, n : servers' = [servers EXCEPT ![g] =
                                     [@ EXCEPT !.ready = r, !.playerCount = n]]
        BY <2>3 DEF SyncAccounts
      <4> HIDE DEF g
      <4>2. \A h \in Idx : servers'[h] = servers[h]
                \/ servers'[h] = [servers[h] EXCEPT !.ready = r, !.playerCount = n]
        BY <4>1 DEF TypeOK
      <4> QED  BY <4>2 DEF Registered, TypeOK, GameDatas
    <3>4. g # Null /\ Connected' \subseteq Ids
      BY <2>1 DEF Registered, Connected
    <3> HIDE DEF g, all
    <3> QED  BY <1>0, <2>1, <3>2, <3>3, <3>4 DEF Managed, ServerKnown, CanRead
  <2> QED  BY <1>7, <2>2, <2>3 DEF onAccountList
<1>8. CASE onServerLogout(s)
  <2>1. gs[s].gameData \in Idx
    BY <1>8 DEF onServerLogout, TypeOK, GameServerSessions
  <2> QED  BY <1>3, <1>8, <2>1 DEF onServerLogout
<1>9. ASSUME NEW name \in Names, NEW otp \in Otps, onClientLogin(s, name, otp)
      PROVE  Managed'
  <2>1. \A i \in Ids : cd'[i] = cd[i] \/ cd'[i] = [cd[i] EXCEPT !.inGame = TRUE]
    BY <1>9 DEF onClientLogin, TypeOK
  <2>2. \A i \in Ids : /\ cd'[i].account = cd[i].account
                       /\ cd'[i].client = cd[i].client /\ cd'[i].server = cd[i].server
    BY <2>1 DEF TypeOK, ClientDatas
  <2>3. Registered' = Registered
    <3>1. \/ UNCHANGED servers
          \/ \E n : servers' = [servers EXCEPT ![gs[s].gameData].playerCount = n]
      BY <1>9 DEF onClientLogin
    <3>2. \A h \in Idx :
            \/ servers'[h] = servers[h]
            \/ \E n : servers'[h] = [servers[h] EXCEPT !.playerCount = n]
      BY <3>1 DEF TypeOK
    <3>3. \A h \in Idx : servers'[h].info = servers[h].info
      BY <3>2 DEF TypeOK, GameDatas
    <3> QED  BY <3>3 DEF Registered
  <2> QED  BY <1>0, <1>1, <2>2, <2>3 DEF ManagersKept, Connected, Managed, ServerKnown
<1>10. ASSUME NEW name \in Names, ClientReported(s, name) PROVE Managed'
  <2>1. Registered' = Registered
    BY <1>10, RemoveKeepsLinks DEF ClientReported, Registered
  <2>2. \A i \in Connected' : i \in Connected /\ cd'[i] = cd[i]
    BY <1>10, ErasedOthers DEF ClientReported, removeClients
  <2> QED  BY <1>0, <1>1, <2>1, <2>2 DEF ManagersKept, Managed, ServerKnown
<1> QED
  BY <1>4, <1>5, <1>6, <1>7, <1>8, <1>9, <1>10
     DEF GameServerNext, onClientLogout, onClientKickFailed

LEMMA ManagedClientStep ==
  ASSUME TypeOK, Managed, QueriesAlive, NEW c \in Clients, ClientNext(c)
  PROVE  Managed' /\ QueriesAlive'
<1> USE KeysAssumption
<1>a. /\ \A d \in Clients : cs[d] \in ClientSessions
      /\ \A i \in Ids : cd[i] \in ClientDatas
  BY DEF TypeOK
<1>0. Registered' = Registered
  BY ClientStepKeepsLinks DEF SameLinks, Registered
<1>1. ASSUME UNCHANGED cd,
             \A d \in Clients : /\ cs'[d].clientData = cs[d].clientData
                                /\ CanRead(cs[d]) => CanRead(cs'[d])
      PROVE  Managed'
  BY <1>0, <1>1, <1>a DEF Managed, ServerKnown, Connected, ClientDatas
<1>2. ASSUME UNCHANGED cd, NEW s \in ClientSessions, cs' = [cs EXCEPT ![c] = s],
             s.clientData = cs[c].clientData, CanRead(cs[c]) => CanRead(s),
             s.query # Null => CanRead(s)
      PROVE  Managed' /\ QueriesAlive'
  <2>1. \A d \in Clients : cs'[d] = IF d = c THEN s ELSE cs[d]
    BY <1>2 DEF TypeOK
  <2> QED  BY <1>1, <1>2, <2>1 DEF QueriesAlive
<1>3. \A x \in ClientSessions :
        /\ Closed(x) \in ClientSessions
        /\ Closed(x).clientData = x.clientData /\ Closed(x).query = x.query
        /\ CanRead(x) => CanRead(Closed(x))
  BY DEF ClientSessions, Closed, CanRead, Phases
<1>4. CASE AcceptClient(c)
  <2>1. \A d \in Clients : cs'[d] = IF d = c THEN NewClientSession ELSE cs[d]
    BY <1>4 DEF AcceptClient, TypeOK
  <2>2. UNCHANGED cd /\ ~CanRead(cs[c])
    BY <1>4 DEF AcceptClient, CanRead
  <2>3. QueriesAlive'
    BY <2>1 DEF QueriesAlive, NewClientSession
  <2>4. \A i \in Connected : cd[i].client # c
    BY <2>2 DEF Managed
  <2> QED  BY <1>0, <2>1, <2>2, <2>3, <2>4, <1>a DEF Managed, ServerKnown, Connected, ClientDatas
<1>5. CASE ClientConnectionLost(c) \/ onServerList(c) \/ AbortClient(c)
  <2>1. UNCHANGED cd /\ cs' = [cs EXCEPT ![c] = Closed(@)] /\ cs[c].phase = "connected"
    BY <1>5 DEF ClientConnectionLost, onServerList, AbortClient
  <2> QED  BY <1>2, <1>3, <1>a, <2>1 DEF CanRead
<1>6. CASE ClientSessionClosed(c)
  <2> DEFINE gone == [NewClientSession EXCEPT !.phase = "none"]
  <2>1. \A d \in Clients : cs'[d] = IF d = c THEN gone ELSE cs[d]
    BY <1>6 DEF ClientSessionClosed, TypeOK
  <2>2. QueriesAlive'
    BY <2>1 DEF QueriesAlive, NewClientSession
  <2>3. \A i \in Connected' : i \in Connected /\ cd'[i] = cd[i] /\ cd[i].client # c
    <3>1. CASE cs[c].clientData = Null
      <4>1. UNCHANGED cd /\ \A i \in Connected : cd[i].client # c
        BY <1>6, <3>1 DEF ClientSessionClosed, Managed, Connected
      <4> QED  BY <4>1 DEF Connected
    <3>2. ASSUME NEW j \in PointsTo(c), cs[c].clientData # Null, cd' = Erased({j} \cap Ids)
          PROVE  \A i \in Connected' : i \in Connected /\ cd'[i] = cd[i] /\ cd[i].client # c
      <4>1. \A i \in Connected' : i # j /\ i \in Connected /\ cd'[i] = cd[i]
        BY <3>2, ErasedOthers DEF Connected
      <4>2. \A i \in Connected : cd[i].client = c => i = j
        BY <3>2 DEF PointsTo, Managed, Connected
      <4> QED  BY <4>1, <4>2
    <3> QED  BY <1>6, <3>1, <3>2 DEF ClientSessionClosed, removeClients
  <2> HIDE DEF gone
  <2>4. Managed'
    BY <1>0, <1>a, <2>1, <2>3 DEF Managed, ServerKnown, Connected, ClientDatas
  <2> QED  BY <2>2, <2>4
<1>7. ASSUME NEW name \in Names, onAccount(c, name) PROVE Managed' /\ QueriesAlive'
  <2>1. [cs[c] EXCEPT !.query = name] \in ClientSessions
    BY <1>a DEF ClientSessions
  <2>2. /\ [cs[c] EXCEPT !.query = name].clientData = cs[c].clientData
        /\ CanRead([cs[c] EXCEPT !.query = name])
    BY <1>7, <1>a DEF ClientSessions, onAccount, CanRead
  <2>3. UNCHANGED cd /\ cs' = [cs EXCEPT ![c] = [@ EXCEPT !.query = name]]
    BY <1>7 DEF onAccount
  <2> QED  BY <1>2, <2>1, <2>2, <2>3
<1>8. ASSUME cs[c].query # Null
      PROVE  LET s == [cs[c] EXCEPT !.query = Null]
             IN  /\ s \in ClientSessions /\ s.query = Null
                 /\ s.clientData = cs[c].clientData
                 /\ CanRead(cs[c]) /\ CanRead(s)
  BY <1>8, <1>a DEF ClientSessions, QueriesAlive, CanRead
<1>9. CASE AuthRefused(c)
  <2>1. UNCHANGED cd /\ cs' = [cs EXCEPT ![c] = [@ EXCEPT !.query = Null]]
    BY <1>9 DEF AuthRefused
  <2> QED  BY <1>2, <1>8, <1>9, <2>1 DEF AuthRefused
<1>10. ASSUME NEW id \in Ids, cs[c].query # Null, cs[c].clientData = Null,
              AuthAccepted(c, id)
       PROVE  Managed' /\ QueriesAlive'
  <2>1. \A i \in Ids :
          /\ i = id => cd'[i].client = c /\ cd'[i].server = Null
          /\ i # id => cd'[i] = cd[i]
    BY <1>10 DEF AuthAccepted, NoClient, TypeOK
  <2>2. \A d \in Clients :
          /\ d # c => cs'[d] = cs[d]
          /\ d = c => /\ cs'[d].clientData = id /\ cs'[d].query = Null
                      /\ cs'[d].phase = cs[d].phase
    BY <1>10, <1>a DEF AuthAccepted, TypeOK, ClientSessions
  <2>3. CanRead(cs[c]) /\ \A i \in Connected : cd[i].client # c
    BY <1>10 DEF QueriesAlive, Managed, Connected
  <2>4. QueriesAlive'
    BY <2>2 DEF QueriesAlive
  <2>5. Managed'
    BY <1>0, <1>a, <2>1, <2>2, <2>3 DEF Managed, ServerKnown, Connected, CanRead, ClientDatas
  <2> QED  BY <2>4, <2>5
<1>11. ASSUME NEW old \in Ids, cs[c].query # Null, AuthDuplicate(c, old)
       PROVE  Managed' /\ QueriesAlive'
  <2> DEFINE answered == [cs EXCEPT ![c].query = Null]
  <2>1. \A d \in Clients :
          /\ answered[d] \in ClientSessions
          /\ answered[d].clientData = cs[d].clientData
          /\ CanRead(cs[d]) => CanRead(answered[d])
          /\ answered[d].query # Null => CanRead(answered[d])
    <3>1. answered = [cs EXCEPT ![c] = [cs[c] EXCEPT !.query = Null]]
      OBVIOUS
    <3>2. \A d \in Clients :
            answered[d] = IF d = c THEN [cs[c] EXCEPT !.query = Null] ELSE cs[d]
      BY DEF TypeOK
    <3> HIDE DEF answered
    <3> QED  BY <1>8, <1>11, <1>a, <3>2 DEF QueriesAlive
  <2>2. answered \in [Clients -> ClientSessions]
    BY <2>1 DEF TypeOK
  <2>3. CASE cs' = answered /\ UNCHANGED cd
    BY <1>1, <2>1, <2>3 DEF QueriesAlive
  <2>4. CASE cs' = answered /\ cd' = Erased({old})
    <3>1. \A i \in Connected' : i \in Connected /\ cd'[i] = cd[i]
      BY <2>4, ErasedOthers
    <3>2. ManagersKept
      BY <1>0, <1>a, <2>1, <2>4, <3>1
         DEF ManagersKept, Managed, ServerKnown, Connected, ClientDatas
    <3> QED  BY <2>1, <2>4, <3>2, ManagersKeptManaged DEF QueriesAlive
  <2>5. CASE cs' = [answered EXCEPT ![cd[old].client] = Closed(@)] /\ UNCHANGED cd
    <3>1. \A d \in Clients : cs'[d] \in {answered[d], Closed(answered[d])}
      BY <2>2, <2>5
    <3> HIDE DEF answered
    <3>2. \A d \in Clients :
            /\ cs'[d].clientData = cs[d].clientData
            /\ CanRead(cs[d]) => CanRead(cs'[d])
            /\ cs'[d].query # Null => CanRead(cs'[d])
      BY <1>3, <2>1, <3>1
    <3> QED  BY <1>1, <2>5, <3>2 DEF QueriesAlive
  <2> QED
    BY <1>11, <2>3, <2>4, <2>5 DEF AuthDuplicate, kickClient, removeClients
<1>12. CASE clientAuthResult(c)
  <2>1. cs[c].query # Null => cs[c].query \in Names
    BY <1>a DEF ClientSessions
  <2> QED  BY <1>9, <1>10, <1>11, <1>12, <2>1, OldClientType DEF clientAuthResult
<1>13. ASSUME NEW g \in Idx, NEW otp \in Otps, onSelectServer(c, g, otp),
              ~AbortClient(c)
       PROVE  Managed' /\ QueriesAlive'
  <2>1. PICK j \in PointsTo(c) :
          cd' = IF j = Null THEN cd
                ELSE [cd EXCEPT ![j] = [@ EXCEPT !.client = Null, !.server = g, !.otp = otp]]
    BY <1>13 DEF onSelectServer
  <2>2. /\ \A i \in Ids : i # j => cd'[i] = cd[i]
        /\ j \in Ids => cd'[j].client = Null /\ cd'[j].server = g
    BY <2>1, <1>a DEF TypeOK, ClientDatas
  <2>3. \A i \in Connected' :
          \/ i \in Connected /\ cd'[i] = cd[i] /\ i # j
          \/ cd'[i].client = Null /\ cd'[i].server = g
    BY <2>2 DEF Connected
  <2>4. \A i \in Connected : cd[i].client = c => i = j
    BY DEF PointsTo, Managed, Connected
  <2>5. PICK s \in {[cs[c] EXCEPT !.clientData = Null],
                    Closed([cs[c] EXCEPT !.clientData = Null])} :
          cs' = [cs EXCEPT ![c] = s]
    BY <1>13 DEF onSelectServer
  <2>6. [cs[c] EXCEPT !.clientData = Null] \in ClientSessions
    BY <1>a DEF ClientSessions
  <2>7. /\ [cs[c] EXCEPT !.clientData = Null].query = cs[c].query
        /\ CanRead([cs[c] EXCEPT !.clientData = Null])
    BY <1>13, <1>a DEF onSelectServer, CanRead, ClientSessions
  <2>8. s.query = cs[c].query /\ CanRead(s)
    BY <1>3, <2>5, <2>6, <2>7
  <2>9. \A d \in Clients : cs'[d] = IF d = c THEN s ELSE cs[d]
    BY <2>5 DEF TypeOK
  <2>10. QueriesAlive'
    BY <2>8, <2>9 DEF QueriesAlive
  <2>11. g \in Registered
    BY <1>13 DEF onSelectServer
  <2>12. Managed'
    BY <1>0, <1>a, <2>3, <2>4, <2>9, <2>11
       DEF Managed, ServerKnown, Connected, ClientDatas, Registered
  <2> QED  BY <2>10, <2>12
<1> QED
  BY <1>4, <1>5, <1>6, <1>7, <1>12, <1>13 DEF ClientNext

(* A ClientData is managed by a session that points back to it or by a      *)
(* server that is registered, whatever the peers send.                      *)
THEOREM ManagedCorrect == Spec => []Managed
<1>1. Init => Managed /\ QueriesAlive
  BY DEF Init, Managed, ServerKnown, QueriesAlive, Connected, NoClient, NewClientSession
<1>2. TypeOK /\ SessionLink /\ Managed /\ QueriesAlive /\ [Next]_vars
        => Managed' /\ QueriesAlive'
  <2> SUFFICES ASSUME TypeOK, SessionLink, Managed, QueriesAlive, [Next]_vars
               PROVE  Managed' /\ QueriesAlive'
    OBVIOUS
  <2>1. ASSUME NEW s \in Sessions, GameServerNext(s) PROVE Managed' /\ QueriesAlive'
    <3>1. UNCHANGED cs
      BY <2>1 DEF GameServerNext, AcceptGameServer, GameConnectionLost,
         GameSessionClosed, onServerLogin, onAccountList, onServerLogout,
         onClientLogin, onClientLogout, onClientKickFailed, ClientReported
    <3> QED  BY <2>1, <3>1, ManagedGameServerStep DEF QueriesAlive
  <2>2. ASSUME NEW c \in Clients, ClientNext(c) PROVE Managed' /\ QueriesAlive'
    BY <2>2, ManagedClientStep
  <2>3. CASE UNCHANGED vars
    BY <2>3 DEF vars, Managed, ServerKnown, QueriesAlive, Connected, Registered, CanRead
  <2> QED  BY <2>1, <2>2, <2>3 DEF Next
<1> QED  BY <1>1, <1>2, TypeCorrect, SessionLinkCorrect, PTL DEF Spec

-----------------------------------------------------------------------------
(* Accounts without a ClientData, and clients in game                      *)

\* What a handler may do to the ClientData of an id.
SameData(i) == cd'[i] = cd[i]
GoneData(i) == cd'[i] = NoClient

LEMMA StatesGameServerStep ==
  ASSUME TypeOK, AccountStates, NEW s \in Sessions, GameServerNext(s)
  PROVE  AccountStates'
<1> USE KeysAssumption
<1>1. ASSUME \A i \in Ids : SameData(i) \/ GoneData(i) PROVE AccountStates'
  BY <1>1 DEF AccountStates, SameData, GoneData, NoClient
<1>2. ASSUME NEW S, cd' = Erased(S) PROVE \A i \in Ids : SameData(i) \/ GoneData(i)
  BY <1>2 DEF Erased, SameData, GoneData
<1>3. CASE UNCHANGED cd
  BY <1>1, <1>3 DEF SameData
<1>4. CASE AcceptGameServer(s) \/ GameConnectionLost(s) \/ GameSessionClosed(s)
           \/ onServerLogout(s)
  <2>1. UNCHANGED cd \/ \E S : cd' = Erased(S)
    BY <1>4 DEF AcceptGameServer, GameConnectionLost, GameSessionClosed,
                onServerLogout, removeGameData
  <2> QED  BY <1>1, <1>2, <1>3, <2>1
<1>5. ASSUME NEW kind \in LoginKinds, NEW g \in Idx, NEW info \in Infos,
             NEW guid \in Guids, onServerLogin(s, kind, g, info, guid)
      PROVE  AccountStates'
  BY <1>3, <1>5 DEF onServerLogin
<1>6. ASSUME NEW chunk \in Lists, NEW final \in BOOLEAN,
             onAccountList(s, chunk, final)
      PROVE  AccountStates'
  <2> DEFINE all == gs[s].list \o chunk
             g == gs[s].gameData
  <2>1. all \in Lists /\ g \in Idx
    BY <1>6, AccountListType
  <2> HIDE DEF all, g
  <2>2. ASSUME NEW added \in SUBSET DOMAIN all, Accepted(g, all, added),
               SyncAccounts(s, g, all, added)
        PROVE  AccountStates'
    <3>1. \A k \in added : all[k][1] \in Names
      BY <2>1, <2>2, AddedDiffer
    <3>2. \A i \in Ids : \/ \E n \in Names : cd'[i] = InGameClient(g, n)
                         \/ SameData(i) \/ GoneData(i)
      BY <2>2, <3>1 DEF SyncAccounts, Erased, SameData, GoneData
    <3>3. \A n \in Names : /\ InGameClient(g, n).account # Null
                           /\ InGameClient(g, n).server # Null
      BY <2>1 DEF InGameClient
    <3> QED  BY <3>2, <3>3 DEF AccountStates, SameData, GoneData, NoClient
  <2> QED  BY <1>3, <1>6, <2>2 DEF onAccountList, all, g
<1>7. ASSUME NEW name \in Names, NEW otp \in Otps, onClientLogin(s, name, otp)
      PROVE  AccountStates'
  <2> DEFINE i == byName[name]
  <2>1. CASE i \in Ids /\ MayEnter(s, name, otp) /\ cd' = [cd EXCEPT ![i].inGame = TRUE]
    <3>1. cd[i].server # Null
      BY <2>1 DEF MayEnter
    <3>2. /\ cd'[i].account = cd[i].account /\ cd'[i].client = cd[i].client
          /\ cd'[i].server = cd[i].server
          /\ \A j \in Ids : j # i => cd'[j] = cd[j]
      BY <2>1 DEF TypeOK, ClientDatas
    <3> HIDE DEF i
    <3> QED  BY <2>1, <3>1, <3>2 DEF AccountStates
  <2>2. i # Null => i \in Ids
    BY DEF TypeOK
  <2>3. MayEnter(s, name, otp) => i # Null
    BY DEF MayEnter
  <2> QED  BY <1>3, <1>7, <2>1, <2>2, <2>3 DEF onClientLogin
<1>8. ASSUME NEW name \in Names, ClientReported(s, name) PROVE AccountStates'
  BY <1>1, <1>2, <1>8 DEF ClientReported, removeClients
<1> QED
  BY <1>4, <1>5, <1>6, <1>7, <1>8
     DEF GameServerNext, onClientLogout, onClientKickFailed

LEMMA StatesClientStep ==
  ASSUME TypeOK, AccountStates, NEW c \in Clients, ClientNext(c)
  PROVE  AccountStates'
<1> USE KeysAssumption
<1>1. ASSUME \A i \in Ids : SameData(i) \/ GoneData(i) PROVE AccountStates'
  BY <1>1 DEF AccountStates, SameData, GoneData, NoClient
<1>2. ASSUME NEW S, cd' = Erased(S) PROVE AccountStates'
  BY <1>1, <1>2 DEF Erased, SameData, GoneData
<1>3. CASE UNCHANGED cd
  BY <1>1, <1>3 DEF SameData
<1>4. CASE AcceptClient(c) \/ ClientConnectionLost(c) \/ ClientSessionClosed(c)
           \/ onServerList(c) \/ AbortClient(c) \/ \E n \in Names : onAccount(c, n)
  <2>1. UNCHANGED cd \/ \E S : cd' = Erased(S)
    BY <1>4 DEF AcceptClient, ClientConnectionLost, ClientSessionClosed,
                onServerList, AbortClient, onAccount, removeClients
  <2> QED  BY <1>2, <1>3, <2>1
<1>5. CASE clientAuthResult(c)
  <2>1. cs[c].query # Null => cs[c].query \in Names
    BY DEF TypeOK, ClientSessions
  <2>2. ASSUME NEW id \in Ids, cs[c].query # Null, AuthAccepted(c, id)
        PROVE  AccountStates'
    <3>1. /\ cd'[id].account # Null /\ ~cd'[id].inGame
          /\ \A i \in Ids : i # id => cd'[i] = cd[i]
      BY <2>1, <2>2 DEF AuthAccepted, TypeOK, NoClient
    <3> QED  BY <3>1 DEF AccountStates
  <2>3. ASSUME NEW old, AuthDuplicate(c, old) PROVE AccountStates'
    <3>1. UNCHANGED cd \/ cd' = Erased({old})
      BY <2>3 DEF AuthDuplicate, kickClient, removeClients
    <3> QED  BY <1>2, <1>3, <3>1
  <2>4. AuthRefused(c) => UNCHANGED cd
    BY DEF AuthRefused
  <2> QED  BY <1>3, <1>5, <2>2, <2>3, <2>4 DEF clientAuthResult
<1>6. ASSUME NEW g \in Idx, NEW otp \in Otps, onSelectServer(c, g, otp),
             ~AbortClient(c)
      PROVE  AccountStates'
  <2>1. PICK j \in PointsTo(c) :
          cd' = IF j = Null THEN cd
                ELSE [cd EXCEPT ![j] = [@ EXCEPT !.client = Null, !.server = g, !.otp = otp]]
    BY <1>6 DEF onSelectServer
  <2>2. /\ \A i \in Ids : i # j => cd'[i] = cd[i]
        /\ j \in Ids => cd'[j].account = cd[j].account /\ cd'[j].server = g
    BY <2>1 DEF TypeOK, ClientDatas
  <2>3. j \in Ids => cd[j].account # Null
    BY DEF PointsTo, Connected
  <2> QED  BY <2>2, <2>3 DEF AccountStates
<1> QED  BY <1>4, <1>5, <1>6 DEF ClientNext

LEMMA AccountStatesCorrect == Spec => []AccountStates
<1>1. Init => AccountStates
  BY DEF Init, AccountStates, NoClient
<1>2. TypeOK /\ AccountStates /\ [Next]_vars => AccountStates'
  <2> SUFFICES ASSUME TypeOK, AccountStates, [Next]_vars PROVE AccountStates'
    OBVIOUS
  <2>1. CASE Next
    BY <2>1, StatesGameServerStep, StatesClientStep DEF Next
  <2>2. CASE UNCHANGED vars
    BY <2>2 DEF vars, AccountStates
  <2> QED  BY <2>1, <2>2
<1> QED  BY <1>1, <1>2, TypeCorrect, PTL DEF Spec

-----------------------------------------------------------------------------
(* The pointers of the client sessions                                      *)

\* The accounts in the lobby, and the sessions that manage them, stay as they
\* are; a session may forget its account.
LobbyKept ==
  /\ \A i \in Connected : cd[i].client # Null => cd'[i].account = cd[i].account
                                                 /\ cd'[i].client = cd[i].client
  /\ \A c \in Clients : cs'[c].clientData \in {cs[c].clientData, Null}

LEMMA LobbyKeptPointers ==
  ASSUME TypeOK, NoDangling, LobbyKept
  PROVE  NoDangling'
<1>1. \A c \in Clients : cs[c].clientData \in Ids \cup {Null}
  BY DEF TypeOK, ClientSessions
<1> QED  BY <1>1, KeysAssumption DEF NoDangling, LobbyKept, Connected

LEMMA PointersGameServerStep ==
  ASSUME TypeOK, Managed, NoDangling, ~StrayReports,
         NEW s \in Sessions, GameServerNext(s)
  PROVE  NoDangling'
<1> USE KeysAssumption
<1>0. UNCHANGED cs
  BY DEF GameServerNext, AcceptGameServer, GameConnectionLost, GameSessionClosed,
         onServerLogin, onAccountList, onServerLogout, onClientLogin,
         onClientLogout, onClientKickFailed, ClientReported
<1>1. ASSUME \A i \in Connected : cd[i].client # Null => cd'[i] = cd[i]
      PROVE  NoDangling'
  BY <1>0, <1>1, LobbyKeptPointers DEF LobbyKept
<1>2. ASSUME NEW S, \A i \in S : cd[i].server # Null, cd' = Erased(S)
      PROVE  NoDangling'
  <2>1. \A i \in Connected : cd[i].client # Null => i \notin S /\ i \in Ids
    BY <1>2 DEF Managed, Connected
  <2>2. \A i \in Connected : cd[i].client # Null => cd'[i] = cd[i]
    BY <1>2, <2>1 DEF Erased
  <2> QED  BY <1>1, <2>2
<1>3. CASE UNCHANGED cd
  BY <1>1, <1>3
<1>4. ASSUME NEW g \in Idx, removeGameData(g) PROVE NoDangling'
  BY <1>2, <1>4 DEF removeGameData, ClientsOf
<1>5. CASE AcceptGameServer(s) \/ GameConnectionLost(s) \/ GameSessionClosed(s)
           \/ onServerLogout(s)
  <2>1. gs[s].gameData # Null => gs[s].gameData \in Idx
    BY DEF TypeOK, GameServerSessions
  <2> QED  BY <1>3, <1>4, <1>5, <2>1
              DEF AcceptGameServer, GameConnectionLost, GameSessionClosed, onServerLogout
<1>6. ASSUME NEW kind \in LoginKinds, NEW g \in Idx, NEW info \in Infos,
             NEW guid \in Guids, onServerLogin(s, kind, g, info, guid)
      PROVE  NoDangling'
  BY <1>3, <1>6 DEF onServerLogin
<1>7. ASSUME NEW chunk \in Lists, NEW final \in BOOLEAN,
             onAccountList(s, chunk, final)
      PROVE  NoDangling'
  <2> DEFINE all == gs[s].list \o chunk
             g == gs[s].gameData
  <2>1. all \in Lists /\ g \in Idx
    BY <1>7, AccountListType
  <2> HIDE DEF all, g
  <2>2. ASSUME NEW added \in SUBSET DOMAIN all, Accepted(g, all, added),
               SyncAccounts(s, g, all, added)
        PROVE  NoDangling'
    <3>1. \A k \in added : Free(g, all[k])
      BY <2>1, <2>2, AddedDiffer
    <3>2. \A i \in Connected : cd[i].client # Null => i \in Ids /\ i \notin ClientsOf(g)
      BY <2>1 DEF Managed, Connected, ClientsOf
    <3>3. \A i \in Connected : cd[i].client # Null => ~\E k \in added : all[k][2] = i
      BY <3>1, <3>2 DEF Free, Connected
    <3>4. \A i \in Connected : cd[i].client # Null => cd'[i] = cd[i]
      BY <2>2, <3>2, <3>3 DEF SyncAccounts, Erased
    <3> QED  BY <1>1, <3>4
  <2> QED  BY <1>3, <1>7, <2>2 DEF onAccountList, all, g
<1>8. ASSUME NEW name \in Names, NEW otp \in Otps, onClientLogin(s, name, otp)
      PROVE  NoDangling'
  <2>1. \A i \in Ids : cd'[i].account = cd[i].account /\ cd'[i].client = cd[i].client
    <3>1. cd' = cd \/ cd' = [cd EXCEPT ![byName[name]].inGame = TRUE]
      BY <1>8 DEF onClientLogin
    <3> QED  BY <3>1 DEF TypeOK, ClientDatas
  <2> QED  BY <1>0, <2>1, LobbyKeptPointers DEF LobbyKept, Connected
<1>9. ASSUME NEW name \in Names, ClientReported(s, name) PROVE NoDangling'
  <2>1. cd[byName[name]].server # Null
    BY <1>9 DEF ClientReported, ReportExpected
  <2> QED  BY <1>2, <1>9, <2>1 DEF ClientReported, removeClients
<1> QED
  BY <1>5, <1>6, <1>7, <1>8, <1>9
     DEF GameServerNext, onClientLogout, onClientKickFailed

(* A pointer that does not dangle leads to its own ClientData.              *)
LEMMA PointsToOwn ==
  ASSUME NoDangling, NEW c \in Clients, cs[c].clientData # Null
  PROVE  /\ PointsTo(c) = {cs[c].clientData}
         /\ cs[c].clientData \in Connected
         /\ cd[cs[c].clientData].client = c
BY DEF NoDangling, PointsTo, Connected

LEMMA PointersClientStep ==
  ASSUME TypeOK, Managed, MapsAgree, NoDangling, NEW c \in Clients, ClientNext(c)
  PROVE  NoDangling'
<1> USE KeysAssumption
<1>0. \A d \in Clients : cs[d] \in ClientSessions
  BY DEF TypeOK
<1>1. ASSUME UNCHANGED cd, \A d \in Clients : cs'[d].clientData \in {cs[d].clientData, Null}
      PROVE  NoDangling'
  BY <1>1, LobbyKeptPointers DEF LobbyKept
<1>2. ASSUME NEW s, cs' = [cs EXCEPT ![c] = s], s.clientData \in {cs[c].clientData, Null}
      PROVE  \A d \in Clients : cs'[d].clientData \in {cs[d].clientData, Null}
  BY <1>2 DEF TypeOK
<1>3. \A x \in ClientSessions : Closed(x).clientData = x.clientData
  BY DEF Closed, ClientSessions
<1>4. CASE AcceptClient(c) \/ ClientConnectionLost(c) \/ onServerList(c)
           \/ AbortClient(c) \/ AuthRefused(c) \/ \E n \in Names : onAccount(c, n)
  <2>1. UNCHANGED cd
    BY <1>4 DEF AcceptClient, ClientConnectionLost, onServerList, AbortClient,
                AuthRefused, onAccount
  <2>2. \/ cs' = [cs EXCEPT ![c] = NewClientSession]
        \/ cs' = [cs EXCEPT ![c] = Closed(cs[c])]
        \/ \E q : cs' = [cs EXCEPT ![c] = [cs[c] EXCEPT !.query = q]]
    BY <1>4 DEF AcceptClient, ClientConnectionLost, onServerList, AbortClient,
                AuthRefused, onAccount
  <2>3. /\ NewClientSession.clientData = Null
        /\ Closed(cs[c]).clientData = cs[c].clientData
        /\ \A q : [cs[c] EXCEPT !.query = q].clientData = cs[c].clientData
    BY <1>0, <1>3 DEF NewClientSession, ClientSessions
  <2> QED  BY <1>1, <1>2, <2>1, <2>2, <2>3
<1>5. CASE ClientSessionClosed(c)
  <2>1. \A d \in Clients :
          /\ d # c => cs'[d] = cs[d]
          /\ d = c => cs'[d].clientData = Null
    BY <1>5 DEF ClientSessionClosed, NewClientSession, TypeOK
  <2>2. CASE UNCHANGED cd
    BY <1>1, <2>1, <2>2
  <2>3. CASE cs[c].clientData # Null /\ cd' = Erased({cs[c].clientData} \cap Ids)
    <3>1. \A d \in Clients : cs'[d].clientData # Null =>
            /\ cs'[d].clientData = cs[d].clientData
            /\ cs[d].clientData \in Connected /\ cd[cs[d].clientData].client = d
            /\ cs[d].clientData # cs[c].clientData
      BY <2>1, <2>3, PointsToOwn DEF NoDangling
    <3>2. \A i \in Connected : i # cs[c].clientData => cd'[i] = cd[i]
      BY <2>3 DEF Erased, Connected
    <3> QED  BY <3>1, <3>2 DEF NoDangling, Connected
  <2>4. CASE cs[c].clientData # Null
    <3>1. \E i \in PointsTo(c) : cd' = Erased({i} \cap Ids)
      BY <1>5, <2>4 DEF ClientSessionClosed, removeClients
    <3>2. PointsTo(c) = {cs[c].clientData}
      BY <2>4, PointsToOwn
    <3> QED  BY <2>3, <2>4, <3>1, <3>2
  <2> QED  BY <1>5, <2>2, <2>4 DEF ClientSessionClosed
<1>6. CASE clientAuthResult(c)
  <2>1. cs[c].query # Null => cs[c].query \in Names
    BY <1>0 DEF ClientSessions
  <2>2. ASSUME NEW id \in Ids, cs[c].query # Null, CanAdd(cs[c].query, id),
               AuthAccepted(c, id)
        PROVE  NoDangling'
    <3>1. /\ cd'[id].account # Null /\ cd'[id].client = c /\ id \notin Connected
          /\ \A i \in Ids : i # id => cd'[i] = cd[i]
      BY <2>1, <2>2 DEF AuthAccepted, CanAdd, TypeOK, NoClient, Connected
    <3>2. \A d \in Clients :
            /\ d # c => cs'[d] = cs[d]
            /\ d = c => cs'[d].clientData = id
      BY <2>2, <1>0 DEF AuthAccepted, TypeOK, ClientSessions
    <3> QED  BY <3>1, <3>2 DEF NoDangling, Connected
  <2>3. ASSUME NEW old \in Ids, cd[old].account # Null, AuthDuplicate(c, old)
        PROVE  NoDangling'
    <3> DEFINE answered == [cs EXCEPT ![c].query = Null]
    <3>1. answered \in [Clients -> ClientSessions]
      BY DEF TypeOK, ClientSessions
    <3>2. \A d \in Clients : answered[d].clientData = cs[d].clientData
      BY <1>0 DEF TypeOK, ClientSessions
    <3> HIDE DEF answered
    <3>3. cs' = answered \/ cs' = [answered EXCEPT ![cd[old].client] = Closed(@)]
      BY <2>3 DEF AuthDuplicate, answered
    <3>4. \A d \in Clients : cs'[d] = answered[d] \/ cs'[d] = Closed(answered[d])
      BY <3>1, <3>3
    <3>5. \A d \in Clients : cs'[d].clientData = cs[d].clientData
      BY <1>3, <3>1, <3>2, <3>4
    <3>6. CASE UNCHANGED cd
      BY <1>1, <3>5, <3>6
    <3>7. CASE cd[old].server # Null /\ cd' = Erased({old})
      <4>1. \A i \in Connected : cd[i].client # Null => i # old /\ i \in Ids
        BY <3>7 DEF Managed, Connected
      <4>2. \A i \in Connected : cd[i].client # Null => cd'[i] = cd[i]
        BY <3>7, <4>1 DEF Erased
      <4> QED  BY <3>5, <4>2, LobbyKeptPointers DEF LobbyKept
    <3> QED  BY <2>3, <3>6, <3>7 DEF AuthDuplicate, kickClient, removeClients
  <2>4. ASSUME NEW id \in Ids, cs[c].query # Null, ~CanAdd(cs[c].query, id)
        PROVE  /\ OldClient(cs[c].query, id) \in Ids
               /\ cd[OldClient(cs[c].query, id)].account # Null
    BY <2>1, <2>4 DEF CanAdd, OldClient, MapsAgree, TypeOK
  <2> QED  BY <1>4, <1>6, <2>2, <2>3, <2>4 DEF clientAuthResult
<1>7. ASSUME NEW g \in Idx, NEW otp \in Otps, onSelectServer(c, g, otp),
             ~AbortClient(c)
      PROVE  NoDangling'
  <2> DEFINE j == cs[c].clientData
  <2>1. j # Null /\ j \in Ids /\ PointsTo(c) = {j} /\ cd[j].client = c
    BY <1>7, PointsToOwn DEF onSelectServer, Connected
  <2>2. cd' = [cd EXCEPT ![j] = [@ EXCEPT !.client = Null, !.server = g, !.otp = otp]]
    BY <1>7, <2>1 DEF onSelectServer
  <2>3. \A i \in Ids : i # j => cd'[i] = cd[i]
    BY <2>2 DEF TypeOK
  <2>4. \A d \in Clients :
          /\ d # c => cs'[d] = cs[d]
          /\ d = c => cs'[d].clientData = Null
    <3>1. [cs[c] EXCEPT !.clientData = Null] \in ClientSessions
      BY <1>0 DEF ClientSessions
    <3>2. [cs[c] EXCEPT !.clientData = Null].clientData = Null
      BY <1>0 DEF ClientSessions
    <3>3. \/ cs' = [cs EXCEPT ![c] = [cs[c] EXCEPT !.clientData = Null]]
          \/ cs' = [cs EXCEPT ![c] = Closed([cs[c] EXCEPT !.clientData = Null])]
      BY <1>7 DEF onSelectServer
    <3> QED  BY <1>3, <3>1, <3>2, <3>3 DEF TypeOK
  <2>5. \A d \in Clients : d # c /\ cs[d].clientData # Null => cs[d].clientData # j
    BY <2>1 DEF NoDangling
  <2> HIDE DEF j
  <2> QED  BY <2>3, <2>4, <2>5 DEF NoDangling, Connected
<1> QED  BY <1>4, <1>5, <1>6, <1>7 DEF ClientNext

(* When game servers report only about accounts they host, no ClientSession *)
(* keeps a pointer to a ClientData that is gone or that has been handed     *)
(* over to a game server.                                                   *)
THEOREM NoDanglingCorrect ==
  ASSUME ~StrayReports
  PROVE  Spec => []NoDangling
<1>1. Init => NoDangling
  BY DEF Init, NoDangling, NewClientSession
<1>2. TypeOK /\ MapsAgree /\ Managed /\ NoDangling /\ [Next]_vars => NoDangling'
  <2> SUFFICES ASSUME TypeOK, MapsAgree, Managed, NoDangling, [Next]_vars
               PROVE  NoDangling'
    OBVIOUS
  <2>1. CASE Next
    BY <2>1, PointersGameServerStep, PointersClientStep DEF Next
  <2>2. CASE UNCHANGED vars
    BY <2>2 DEF vars, NoDangling, Connected
  <2> QED  BY <2>1, <2>2
<1> QED  BY <1>1, <1>2, TypeCorrect, MapsAgreeCorrect, ManagedCorrect, PTL DEF Spec

-----------------------------------------------------------------------------
(* Counting                                                                 *)
LEMMA SmallMod == \A n \in Nat : n < CountMod => n % CountMod = n
BY CountModPositive

LEMMA SubsetOfIds ==
  ASSUME NEW S \in SUBSET Ids
  PROVE  /\ IsFiniteSet(S) /\ Cardinality(S) \in Nat /\ Cardinality(S) < CountMod
         /\ Cardinality(S) % CountMod = Cardinality(S)
<1>1. IsFiniteSet(S) /\ Cardinality(S) <= Cardinality(Ids)
  BY IdsAssumption, FS_Subset
<1>2. Cardinality(S) \in Nat /\ Cardinality(Ids) \in Nat
  BY <1>1, IdsAssumption, FS_CardinalityType
<1> QED  BY <1>1, <1>2, IdsAssumption, SmallMod

LEMMA InGameOnIds == \A g : InGameOn(g) \in SUBSET Ids
BY DEF InGameOn

(* Erasing clients takes away exactly the ones that were in game.           *)
LEMMA PlayersLeftCount ==
  ASSUME NEW g \in Registered, servers[g].playerCount = Cardinality(InGameOn(g)), NEW S
  PROVE  PlayersLeft(g, S) = Cardinality(InGameOn(g) \ S)
<1>1. IsFiniteSet(InGameOn(g))
  BY SubsetOfIds, InGameOnIds
<1>2. Cardinality(InGameOn(g) \ S)
        = Cardinality(InGameOn(g)) - Cardinality(InGameOn(g) \cap S)
  BY <1>1, FS_Difference
<1>3. Cardinality(InGameOn(g) \ S) % CountMod = Cardinality(InGameOn(g) \ S)
  BY SubsetOfIds, InGameOnIds
<1> QED  BY <1>2, <1>3 DEF PlayersLeft

(* A list of accounts with different ids has as many ids as accounts.       *)
LEMMA AddedCount ==
  ASSUME NEW all \in Lists, NEW added \in SUBSET DOMAIN all,
         \A j, k \in added : all[j][2] = all[k][2] => j = k
  PROVE  Cardinality({all[k][2] : k \in added}) = Cardinality(added)
<1> DEFINE T == {all[k][2] : k \in added}
           f == [k \in added |-> all[k][2]]
           h == [i \in T |-> CHOOSE k \in added : all[k][2] = i]
<1>1. IsFiniteSet(added)
  <2>1. PICK n \in 0 .. MaxList : all \in [1 .. n -> Accounts]
    BY DEF Lists
  <2>2. DOMAIN all = 1 .. n /\ n \in Int
    BY <2>1, FlagsAssumption
  <2>3. IsFiniteSet(1 .. n)
    BY <2>2, FS_Interval
  <2> QED  BY <2>2, <2>3, FS_Subset
<1>2. f \in Surjection(added, T)
  BY DEF Surjection
<1>3. IsFiniteSet(T) /\ Cardinality(T) <= Cardinality(added)
  BY <1>1, <1>2, FS_Surjection
<1>4. h \in Surjection(T, added)
  <2>1. \A k \in added : all[k][2] \in T /\ h[all[k][2]] = k
    OBVIOUS
  <2>2. h \in [T -> added]
    OBVIOUS
  <2> QED  BY <2>1, <2>2, ZenonT(40) DEF Surjection
<1>5. Cardinality(added) <= Cardinality(T)
  BY <1>3, <1>4, FS_Surjection
<1>6. Cardinality(T) \in Nat /\ Cardinality(added) \in Nat
  BY <1>1, <1>3, FS_CardinalityType
<1> QED  BY <1>3, <1>5, <1>6

LEMMA RemoveCounts ==
  ASSUME TypeOK, PlayerCount, NEW S, removeClients(S)
  PROVE  PlayerCount'
<1>1. ASSUME NEW g \in Registered' PROVE servers'[g].playerCount = Cardinality(InGameOn(g)')
  <2>1. g \in Idx /\ g \in Registered
    BY <1>1, RemoveKeepsLinks DEF Registered
  <2>2. InGameOn(g)' = InGameOn(g) \ S
    BY <2>1, KeysAssumption DEF removeClients, InGameOn, Erased, NoClient
  <2>3. servers'[g].playerCount = PlayersLeft(g, S)
    BY <2>1 DEF removeClients, TypeOK, GameDatas
  <2>4. servers[g].playerCount = Cardinality(InGameOn(g))
    BY <2>1 DEF PlayerCount
  <2> QED  BY <2>1, <2>2, <2>3, <2>4, PlayersLeftCount
<1> QED  BY <1>1 DEF PlayerCount

\* The players of the registered servers are the same and so are the counters.
PlayersKept ==
  \A g \in Registered' :
    /\ g \in Registered
    /\ servers'[g].playerCount = servers[g].playerCount
    /\ InGameOn(g)' = InGameOn(g)

LEMMA PlayersKeptCounts ==
  ASSUME PlayerCount, PlayersKept
  PROVE  PlayerCount'
BY DEF PlayerCount, PlayersKept

LEMMA CountSync ==
  ASSUME TypeOK, AccountStates, PlayerCount, NEW s \in Sessions, NEW g \in Registered,
         NEW all \in Lists, NEW added \in SUBSET DOMAIN all, Accepted(g, all, added),
         SyncAccounts(s, g, all, added)
  PROVE  PlayerCount'
<1> USE KeysAssumption
<1> DEFINE T == {all[k][2] : k \in added}
<1>1. /\ \A k \in added : all[k][1] \in Names /\ all[k][2] \in Ids /\ Free(g, all[k])
      /\ \A j, k \in added :
           all[j][1] = all[k][1] \/ all[j][2] = all[k][2] => j = k
  BY AddedDiffer DEF Registered
<1>2. Cardinality(T) = Cardinality(added) /\ T \in SUBSET Ids
  BY <1>1, AddedCount
<1>3. \A i \in Ids :
        /\ i \in T => cd'[i].server = g /\ cd'[i].inGame
        /\ i \notin T /\ i \in ClientsOf(g) => cd'[i] = NoClient
        /\ i \notin T /\ i \notin ClientsOf(g) => cd'[i] = cd[i]
  BY DEF SyncAccounts, InGameClient, Erased
<1>4. \A i \in T : i \in ClientsOf(g) \/ cd[i].account = Null
  BY <1>1 DEF Free
<1>5. g \in Idx /\ g # Null
  BY DEF Registered
<1>6. InGameOn(g) \subseteq ClientsOf(g)
  BY <1>5 DEF InGameOn, ClientsOf, Connected, AccountStates
<1> HIDE DEF T
<1>7. InGameOn(g)' = T
  <2>1. \A i \in Ids : i \in InGameOn(g)' <=> cd'[i].server = g /\ cd'[i].inGame
    BY DEF InGameOn
  <2>2. \A i \in Ids : i \notin T /\ i \in ClientsOf(g) => i \notin InGameOn(g)'
    BY <1>3, <1>5, <2>1 DEF NoClient
  <2>3. \A i \in Ids : i \notin T /\ i \notin ClientsOf(g) => i \notin InGameOn(g)'
    BY <1>3, <1>6, <2>1 DEF InGameOn
  <2>4. InGameOn(g)' \subseteq Ids
    BY DEF InGameOn
  <2> QED  BY <1>2, <1>3, <2>1, <2>2, <2>3, <2>4
<1>8. ASSUME NEW h \in Idx, h # g PROVE InGameOn(h)' = InGameOn(h)
  <2>1. \A i \in T : cd[i].server # h
    BY <1>2, <1>4, <1>8 DEF ClientsOf, AccountStates
  <2>2. \A i \in ClientsOf(g) : cd[i].server # h
    BY <1>8 DEF ClientsOf
  <2> QED  BY <1>3, <1>8, <2>1, <2>2 DEF InGameOn, NoClient
<1>9. PlayersLeft(g, ClientsOf(g)) = 0
  <2>1. InGameOn(g) \ ClientsOf(g) = {}
    BY <1>6
  <2>2. servers[g].playerCount = Cardinality(InGameOn(g))
    BY DEF PlayerCount
  <2> QED  BY <2>1, <2>2, PlayersLeftCount, FS_EmptySet
<1>10. \A h \in Idx : /\ servers'[h].info = servers[h].info
                      /\ h # g => servers'[h] = servers[h]
                      /\ h = g => servers'[h].playerCount = Cardinality(T)
  <2> DEFINE n == (PlayersLeft(g, ClientsOf(g)) + Cardinality(added)) % CountMod
  <2>1. servers' = [servers EXCEPT ![g] = [@ EXCEPT !.ready = TRUE, !.playerCount = n]]
    BY DEF SyncAccounts
  <2>2. n = Cardinality(T)
    BY <1>2, <1>9, SubsetOfIds
  <2> HIDE DEF n
  <2> QED  BY <1>5, <2>1, <2>2 DEF TypeOK, GameDatas
<1> QED  BY <1>7, <1>8, <1>10 DEF PlayerCount, Registered

LEMMA CountGameServerStep ==
  ASSUME TypeOK, SessionLink, Managed, AccountStates, PlayerCount,
         NEW s \in Sessions, GameServerNext(s)
  PROVE  PlayerCount'
<1> USE KeysAssumption
<1>1. ASSUME UNCHANGED cd,
             \A g \in Idx : /\ servers'[g].info = servers[g].info
                            /\ servers'[g].playerCount = servers[g].playerCount
      PROVE  PlayerCount'
  BY <1>1 DEF PlayerCount, Registered, InGameOn
<1>2. ASSUME NEW g \in Idx, removeGameData(g) PROVE PlayerCount'
  <2>1. \A h \in Registered' : h \in Registered /\ h # g /\ servers'[h] = servers[h]
    BY <1>2 DEF removeGameData, Registered, TypeOK, NoServer
  <2>2. \A h \in Registered' : InGameOn(h)' = InGameOn(h)
    BY <1>2, <2>1 DEF removeGameData, InGameOn, Erased, ClientsOf, NoClient, Registered
  <2> QED  BY <2>1, <2>2, PlayersKeptCounts DEF PlayersKept
<1>3. CASE AcceptGameServer(s) \/ GameConnectionLost(s)
  BY <1>1, <1>3 DEF AcceptGameServer, GameConnectionLost
<1>4. CASE GameSessionClosed(s) \/ onServerLogout(s)
  <2> DEFINE g == gs[s].gameData
  <2>1. g # Null => g \in Idx
    BY DEF TypeOK, GameServerSessions
  <2>2. \/ UNCHANGED <<cd, servers>>
        \/ UNCHANGED cd /\ servers' = [servers EXCEPT ![g].session = Null]
        \/ g # Null /\ removeGameData(g)
    BY <1>4 DEF GameSessionClosed, onServerLogout
  <2>3. CASE UNCHANGED cd /\ servers' = [servers EXCEPT ![g].session = Null]
    <3>1. \A h \in Idx : /\ servers'[h].info = servers[h].info
                         /\ servers'[h].playerCount = servers[h].playerCount
      BY <2>3 DEF TypeOK, GameDatas
    <3> QED  BY <1>1, <2>3, <3>1
  <2> QED  BY <1>1, <1>2, <2>1, <2>2, <2>3
<1>5. ASSUME NEW kind \in LoginKinds, NEW g \in Idx, NEW info \in Infos,
             NEW guid \in Guids, onServerLogin(s, kind, g, info, guid)
      PROVE  PlayerCount'
  <2>1. UNCHANGED cd
    BY <1>5 DEF onServerLogin
  <2>2. CASE UNCHANGED servers
    BY <1>1, <2>1, <2>2
  <2>3. CASE servers' = [servers EXCEPT ![g] = [@ EXCEPT !.session = s, !.ready = FALSE]]
    <3>1. \A h \in Idx : /\ servers'[h].info = servers[h].info
                         /\ servers'[h].playerCount = servers[h].playerCount
      BY <2>3 DEF TypeOK, GameDatas
    <3> QED  BY <1>1, <2>1, <3>1
  <2>4. ASSUME g \notin Registered, NEW own, NEW r,
               servers' = [servers EXCEPT ![g] =
                 [info |-> info, guid |-> own, session |-> s, ready |-> r,
                  playerCount |-> 0]]
        PROVE  PlayerCount'
    <3>1. \A h \in Idx : /\ h # g => servers'[h] = servers[h]
                         /\ h = g => servers'[h].playerCount = 0
      BY <2>4 DEF TypeOK
    <3>2. InGameOn(g) = {}
      BY <2>4 DEF InGameOn, AccountStates, Managed, ServerKnown, Connected
    <3>3. \A h \in Idx : InGameOn(h)' = InGameOn(h)
      BY <2>1 DEF InGameOn
    <3>4. Cardinality({}) = 0
      BY FS_EmptySet
    <3> QED  BY <3>1, <3>2, <3>3, <3>4 DEF PlayerCount, Registered
  <2> QED  BY <1>5, <2>2, <2>3, <2>4 DEF onServerLogin
<1>6. ASSUME NEW chunk \in Lists, NEW final \in BOOLEAN,
             onAccountList(s, chunk, final)
      PROVE  PlayerCount'
  <2> DEFINE all == gs[s].list \o chunk
             g == gs[s].gameData
  <2>1. all \in Lists /\ g \in Registered
    BY <1>6, AccountListType, KeysAssumption DEF SessionLink
  <2>2. CASE ~final
    BY <1>1, <1>6, <2>2 DEF onAccountList
  <2>3. CASE final
    <3>1. PICK added \in SUBSET DOMAIN all :
            Accepted(g, all, added) /\ SyncAccounts(s, g, all, added)
      BY <1>6, <2>3 DEF onAccountList
    <3> HIDE DEF all, g
    <3> QED  BY <2>1, <3>1, CountSync
  <2> QED  BY <2>2, <2>3
<1>7. ASSUME NEW name \in Names, NEW otp \in Otps, onClientLogin(s, name, otp)
      PROVE  PlayerCount'
  <2>1. CASE UNCHANGED <<cd, servers>>
    BY <1>1, <2>1
  <2>2. ASSUME NEW g, g = gs[s].gameData, NEW i, i = byName[name],
               MayEnter(s, name, otp), cd' = [cd EXCEPT ![i].inGame = TRUE],
               servers' = [servers EXCEPT ![g].playerCount = (@ + 1) % CountMod]
        PROVE  PlayerCount'
    <3>1. /\ g \in Registered /\ i \in Ids /\ cd[i].server = g /\ ~cd[i].inGame
          /\ g \in Idx
      BY <2>2 DEF MayEnter, TypeOK, SessionLink, Registered
    <3>2. /\ cd'[i].server = g /\ cd'[i].inGame
          /\ \A j \in Ids : j # i => cd'[j] = cd[j]
      BY <2>2, <3>1 DEF TypeOK, ClientDatas
    <3>3. InGameOn(g)' = InGameOn(g) \cup {i} /\ i \notin InGameOn(g)
      BY <3>1, <3>2 DEF InGameOn
    <3>4. \A h \in Idx : h # g => InGameOn(h)' = InGameOn(h)
      BY <3>1, <3>2 DEF InGameOn
    <3> DEFINE n == (servers[g].playerCount + 1) % CountMod
    <3>5. servers' = [servers EXCEPT ![g].playerCount = n]
      BY <2>2, <3>1 DEF TypeOK
    <3>6. n = Cardinality(InGameOn(g)')
      <4>1. IsFiniteSet(InGameOn(g)) /\ Cardinality(InGameOn(g)) \in Nat
        BY SubsetOfIds, InGameOnIds
      <4>2. Cardinality(InGameOn(g) \cup {i}) = Cardinality(InGameOn(g)) + 1
        BY <3>3, <4>1, FS_AddElement
      <4>3. InGameOn(g) \cup {i} \in SUBSET Ids
        BY <3>1, InGameOnIds
      <4>4. Cardinality(InGameOn(g) \cup {i}) % CountMod = Cardinality(InGameOn(g) \cup {i})
        BY <4>3, SubsetOfIds
      <4>5. servers[g].playerCount = Cardinality(InGameOn(g))
        BY <3>1 DEF PlayerCount
      <4> QED  BY <3>3, <4>2, <4>4, <4>5
    <3> HIDE DEF n
    <3>7. \A h \in Idx : /\ servers'[h].info = servers[h].info
                         /\ h # g => servers'[h] = servers[h]
                         /\ h = g => servers'[h].playerCount = n
      BY <3>1, <3>5 DEF TypeOK, GameDatas
    <3> QED  BY <3>4, <3>6, <3>7 DEF PlayerCount, Registered
  <2> QED  BY <1>7, <2>1, <2>2 DEF onClientLogin
<1>8. ASSUME NEW name \in Names, ClientReported(s, name) PROVE PlayerCount'
  BY <1>8, RemoveCounts DEF ClientReported
<1> QED
  BY <1>3, <1>4, <1>5, <1>6, <1>7, <1>8
     DEF GameServerNext, onClientLogout, onClientKickFailed

LEMMA CountClientStep ==
  ASSUME TypeOK, Managed, AccountStates, NoDangling, PlayerCount,
         NEW c \in Clients, ClientNext(c)
  PROVE  PlayerCount'
<1> USE KeysAssumption
<1>0. \A g \in Idx : servers'[g].info = servers[g].info
  BY ClientStepKeepsLinks DEF SameLinks
<1>1. ASSUME UNCHANGED servers,
             \A g \in Idx : InGameOn(g)' = InGameOn(g)
      PROVE  PlayerCount'
  BY <1>1 DEF PlayerCount, Registered
<1>2. CASE UNCHANGED <<cd, servers>>
  BY <1>1, <1>2 DEF InGameOn
<1>3. CASE AcceptClient(c) \/ ClientConnectionLost(c) \/ onServerList(c)
           \/ AbortClient(c) \/ AuthRefused(c) \/ \E n \in Names : onAccount(c, n)
  BY <1>2, <1>3 DEF AcceptClient, ClientConnectionLost, onServerList, AbortClient,
                    AuthRefused, onAccount
<1>4. CASE ClientSessionClosed(c)
  BY <1>2, <1>4, RemoveCounts DEF ClientSessionClosed
<1>5. CASE clientAuthResult(c)
  <2>1. ASSUME NEW id \in Ids, CanAdd(cs[c].query, id), AuthAccepted(c, id)
        PROVE  PlayerCount'
    <3>1. /\ cd[id].server = Null /\ cd'[id].server = Null
          /\ \A i \in Ids : i # id => cd'[i] = cd[i]
      BY <2>1 DEF AuthAccepted, CanAdd, AccountStates, TypeOK, NoClient
    <3>2. UNCHANGED servers
      BY <2>1 DEF AuthAccepted
    <3> QED  BY <1>1, <3>1, <3>2 DEF InGameOn
  <2>2. ASSUME NEW old, AuthDuplicate(c, old) PROVE PlayerCount'
    BY <1>2, <2>2, RemoveCounts DEF AuthDuplicate, kickClient
  <2> QED  BY <1>3, <1>5, <2>1, <2>2 DEF clientAuthResult
<1>6. ASSUME NEW g \in Idx, NEW otp \in Otps, onSelectServer(c, g, otp),
             ~AbortClient(c)
      PROVE  PlayerCount'
  <2> DEFINE j == cs[c].clientData
  <2>1. j # Null /\ j \in Ids /\ PointsTo(c) = {j} /\ cd[j].client = c /\ j \in Connected
    BY <1>6, PointsToOwn DEF onSelectServer, Connected
  <2>2. cd' = [cd EXCEPT ![j] = [@ EXCEPT !.client = Null, !.server = g, !.otp = otp]]
    BY <1>6, <2>1 DEF onSelectServer
  <2>3. cd[j].server = Null /\ ~cd[j].inGame
    BY <2>1 DEF Managed, AccountStates
  <2>4. /\ cd'[j].inGame = cd[j].inGame
        /\ \A i \in Ids : i # j => cd'[i] = cd[i]
    BY <2>1, <2>2 DEF TypeOK, ClientDatas
  <2>5. UNCHANGED servers
    BY <1>6 DEF onSelectServer
  <2> HIDE DEF j
  <2> QED  BY <1>1, <2>3, <2>4, <2>5 DEF InGameOn
<1> QED  BY <1>3, <1>4, <1>5, <1>6 DEF ClientNext

(* The load of a server is the number of accounts in game on it: it is      *)
(* neither lost in a synchronization nor taken below zero by a destructor.  *)
THEOREM PlayerCountCorrect ==
  ASSUME ~StrayReports
  PROVE  Spec => []PlayerCount
<1>1. Init => PlayerCount
  BY DEF Init, PlayerCount, Registered, NoServer
<1>2. TypeOK /\ SessionLink /\ Managed /\ AccountStates /\ NoDangling /\ PlayerCount
        /\ [Next]_vars => PlayerCount'
  <2> SUFFICES ASSUME TypeOK, SessionLink, Managed, AccountStates, NoDangling,
                      PlayerCount, [Next]_vars
               PROVE  PlayerCount'
    OBVIOUS
  <2>1. CASE Next
    BY <2>1, CountGameServerStep, CountClientStep DEF Next
  <2>2. CASE UNCHANGED vars
    BY <2>2 DEF vars, PlayerCount, Registered, InGameOn
  <2> QED  BY <2>1, <2>2
<1>3. Spec => []NoDangling
  BY NoDanglingCorrect
<1> QED
  BY <1>1, <1>2, <1>3, TypeCorrect, SessionLinkCorrect, ManagedCorrect,
     AccountStatesCorrect, PTL DEF Spec

-----------------------------------------------------------------------------
(* The refinement                                                           *)

(* Where the ClientData of an account is                                    *)
LEMMA PlaceCases ==
  ASSUME NEW data \in ClientDatas
  PROVE  /\ data.account = Null => PlaceOf(data) = Registry!Free
         /\ data.account # Null /\ data.server = Null =>
              PlaceOf(data) = Registry!Lobby(data.client)
         /\ data.account # Null /\ data.server # Null =>
              PlaceOf(data) = IF data.inGame THEN Registry!InGame(data.server)
                              ELSE Registry!Selected(data.server)
BY DEF PlaceOf, Registry!Free, Registry!Lobby, Registry!InGame, Registry!Selected

LEMMA PlacesDiffer ==
  \A g, h, c, d :
    /\ Registry!Free \notin {Registry!Lobby(c), Registry!InGame(g), Registry!Selected(g)}
    /\ Registry!Lobby(c) \notin {Registry!InGame(g), Registry!Selected(g)}
    /\ Registry!InGame(g) # Registry!Selected(h)
    /\ Registry!Lobby(c) = Registry!Lobby(d) => c = d
    /\ Registry!InGame(g) = Registry!InGame(h) => g = h
    /\ Registry!Selected(g) = Registry!Selected(h) => g = h
BY DEF Registry!Free, Registry!Lobby, Registry!InGame, Registry!Selected

(* The accounts the registry sees on a server are the clients of the server.*)
LEMMA OnServer ==
  ASSUME TypeOK, NEW g \in Idx
  PROVE  /\ Registry!On(g) = ClientsOf(g)
         /\ \A i \in Ids : cd[i].account = Null <=> PlaceOf(cd[i]) = Registry!Free
<1>1. \A i \in Ids : cd[i] \in ClientDatas
  BY DEF TypeOK
<1>2. \A i \in Ids :
        PlaceOf(cd[i]) \in {Registry!Selected(g), Registry!InGame(g)}
          <=> cd[i].account # Null /\ cd[i].server = g
  BY <1>1, PlaceCases, PlacesDiffer, KeysAssumption
<1>3. \A i \in Ids : cd[i].account = Null <=> PlaceOf(cd[i]) = Registry!Free
  BY <1>1, PlaceCases, PlacesDiffer
<1> QED  BY <1>2, <1>3 DEF Registry!On, ClientsOf, Connected

RegistryStep == [Registry!Next]_([i \in Ids |-> PlaceOf(cd[i])])

LEMMA PlacesUnchanged ==
  ASSUME \A i \in Ids : PlaceOf(cd'[i]) = PlaceOf(cd[i])
  PROVE  RegistryStep
BY DEF RegistryStep

LEMMA NoClientPlace == PlaceOf(NoClient) = Registry!Free
BY DEF PlaceOf, NoClient, Registry!Free

LEMMA ErasedOne ==
  ASSUME NEW i, cd' = Erased({i} \cap Ids)
  PROVE  RegistryStep
<1>1. CASE i \in Ids
  <2>1. \A j \in Ids : PlaceOf(cd'[j]) = IF j = i THEN Registry!Free ELSE PlaceOf(cd[j])
    BY <1>1, NoClientPlace DEF Erased
  <2>2. Registry!Leave(i)
    BY <2>1 DEF Registry!Leave
  <2> QED  BY <1>1, <2>2 DEF RegistryStep, Registry!Next
<1>2. CASE i \notin Ids
  BY <1>2, PlacesUnchanged DEF Erased
<1> QED  BY <1>1, <1>2

LEMMA ErasedServer ==
  ASSUME TypeOK, NEW g \in Idx, cd' = Erased(ClientsOf(g))
  PROVE  RegistryStep
<1>1. \A j \in Ids :
        PlaceOf(cd'[j]) = IF j \in ClientsOf(g) THEN Registry!Free ELSE PlaceOf(cd[j])
  BY NoClientPlace DEF Erased
<1>2. Registry!ServerLeaves(g)
  BY <1>1, OnServer DEF Registry!ServerLeaves
<1> QED  BY <1>2 DEF RegistryStep, Registry!Next

LEMMA SyncStep ==
  ASSUME TypeOK, NEW s \in Sessions, NEW g \in Idx,
         NEW all \in Lists, NEW added \in SUBSET DOMAIN all, Accepted(g, all, added),
         SyncAccounts(s, g, all, added)
  PROVE  RegistryStep
<1> USE KeysAssumption
<1> DEFINE P == {all[k][2] : k \in added}
<1>1. \A k \in added : all[k][1] \in Names /\ all[k][2] \in Ids /\ Free(g, all[k])
  BY AddedDiffer
<1>2. \A i \in Ids :
        /\ i \in P => \E n \in Names : cd'[i] = InGameClient(g, n)
        /\ i \notin P /\ i \in ClientsOf(g) => cd'[i] = NoClient
        /\ i \notin P /\ i \notin ClientsOf(g) => cd'[i] = cd[i]
  BY <1>1 DEF SyncAccounts, Erased
<1>3. \A n \in Names : PlaceOf(InGameClient(g, n)) = Registry!InGame(g)
  BY DEF PlaceOf, InGameClient, Registry!InGame
<1>4. P \in SUBSET Ids /\ \A i \in P : i \in ClientsOf(g) \/ cd[i].account = Null
  BY <1>1 DEF Free
<1> HIDE DEF P
<1>5. \A i \in Ids :
        PlaceOf(cd'[i]) = IF i \in P THEN Registry!InGame(g)
                          ELSE IF i \in ClientsOf(g) THEN Registry!Free ELSE PlaceOf(cd[i])
  BY <1>2, <1>3, NoClientPlace
<1>6. \A i \in P : PlaceOf(cd[i]) = Registry!Free \/ i \in Registry!On(g)
  BY <1>4, OnServer
<1>7. Registry!Synchronize(g, P)
  BY <1>4, <1>5, <1>6, OnServer DEF Registry!Synchronize
<1> QED  BY <1>4, <1>7 DEF RegistryStep, Registry!Next

LEMMA RegistryGameServerStep ==
  ASSUME TypeOK, AccountStates, NEW s \in Sessions, GameServerNext(s)
  PROVE  RegistryStep
<1> USE KeysAssumption
<1>1. CASE UNCHANGED cd
  BY <1>1, PlacesUnchanged
<1>2. CASE AcceptGameServer(s) \/ GameConnectionLost(s) \/ GameSessionClosed(s)
           \/ onServerLogout(s)
  <2>1. gs[s].gameData # Null => gs[s].gameData \in Idx
    BY DEF TypeOK, GameServerSessions
  <2>2. UNCHANGED cd \/ \E g \in Idx : cd' = Erased(ClientsOf(g))
    BY <1>2, <2>1 DEF AcceptGameServer, GameConnectionLost, GameSessionClosed,
                      onServerLogout, removeGameData
  <2> QED  BY <1>1, <2>2, ErasedServer
<1>3. ASSUME NEW kind \in LoginKinds, NEW g \in Idx, NEW info \in Infos,
             NEW guid \in Guids, onServerLogin(s, kind, g, info, guid)
      PROVE  RegistryStep
  BY <1>1, <1>3 DEF onServerLogin
<1>4. ASSUME NEW chunk \in Lists, NEW final \in BOOLEAN,
             onAccountList(s, chunk, final)
      PROVE  RegistryStep
  <2> DEFINE all == gs[s].list \o chunk
             g == gs[s].gameData
  <2>1. all \in Lists /\ g \in Idx
    BY <1>4, AccountListType
  <2>2. CASE ~final
    BY <1>1, <1>4, <2>2 DEF onAccountList
  <2>3. CASE final
    <3>1. PICK added \in SUBSET DOMAIN all :
            Accepted(g, all, added) /\ SyncAccounts(s, g, all, added)
      BY <1>4, <2>3 DEF onAccountList
    <3> HIDE DEF all, g
    <3> QED  BY <2>1, <3>1, SyncStep
  <2> QED  BY <2>2, <2>3
<1>5. ASSUME NEW name \in Names, NEW otp \in Otps, onClientLogin(s, name, otp)
      PROVE  RegistryStep
  <2>1. ASSUME NEW g, g = gs[s].gameData, NEW i, i = byName[name],
               MayEnter(s, name, otp), cd' = [cd EXCEPT ![i].inGame = TRUE]
        PROVE  RegistryStep
    <3>1. i \in Ids /\ g \in Idx /\ cd[i].server = g /\ ~cd[i].inGame
      BY <2>1 DEF MayEnter, TypeOK, GameServerSessions
    <3>2. cd[i].account # Null
      BY <3>1 DEF AccountStates
    <3>3. /\ cd'[i] \in ClientDatas /\ cd[i] \in ClientDatas
          /\ cd'[i].account # Null /\ cd'[i].server = g /\ cd'[i].inGame
          /\ \A j \in Ids : j # i => cd'[j] = cd[j]
      BY <2>1, <3>1, <3>2, ZenonT(40) DEF TypeOK, ClientDatas
    <3>4. /\ PlaceOf(cd[i]) = Registry!Selected(g)
          /\ PlaceOf(cd'[i]) = Registry!InGame(g)
      BY <3>1, <3>2, <3>3, PlaceCases
    <3>5. Registry!Enter(i, g)
      BY <3>1, <3>3, <3>4 DEF Registry!Enter
    <3> QED  BY <3>1, <3>5 DEF RegistryStep, Registry!Next
  <2> QED  BY <1>1, <1>5, <2>1 DEF onClientLogin
<1>6. ASSUME NEW name \in Names, ClientReported(s, name) PROVE RegistryStep
  <2>1. cd' = Erased({byName[name]} \cap Ids)
    BY <1>6 DEF ClientReported, removeClients, TypeOK, Erased
  <2> QED  BY <2>1, ErasedOne
<1> QED
  BY <1>2, <1>3, <1>4, <1>5, <1>6
     DEF GameServerNext, onClientLogout, onClientKickFailed

LEMMA RegistryClientStep ==
  ASSUME TypeOK, Managed, AccountStates, NoDangling, NEW c \in Clients, ClientNext(c)
  PROVE  RegistryStep
<1> USE KeysAssumption
<1>0. \A i \in Ids : cd[i] \in ClientDatas
  BY DEF TypeOK
<1>1. CASE UNCHANGED cd
  BY <1>1, PlacesUnchanged
<1>2. CASE AcceptClient(c) \/ ClientConnectionLost(c) \/ onServerList(c)
           \/ AbortClient(c) \/ AuthRefused(c) \/ \E n \in Names : onAccount(c, n)
  BY <1>1, <1>2 DEF AcceptClient, ClientConnectionLost, onServerList, AbortClient,
                    AuthRefused, onAccount
<1>3. CASE ClientSessionClosed(c)
  <2>1. UNCHANGED cd \/ \E i : cd' = Erased({i} \cap Ids)
    BY <1>3 DEF ClientSessionClosed, removeClients
  <2> QED  BY <1>1, <2>1, ErasedOne
<1>4. CASE clientAuthResult(c)
  <2>1. cs[c].query # Null => cs[c].query \in Names
    BY DEF TypeOK, ClientSessions
  <2>2. ASSUME NEW id \in Ids, cs[c].query # Null, cs[c].clientData = Null,
               CanAdd(cs[c].query, id), AuthAccepted(c, id)
        PROVE  RegistryStep
    <3> DEFINE new == [NoClient EXCEPT !.account = cs[c].query, !.client = c]
    <3>1. \A i \in Ids : cd'[i] = IF i = id THEN new ELSE cd[i]
      BY <2>2 DEF AuthAccepted, TypeOK
    <3>2. PlaceOf(new) = Registry!Lobby(c)
      BY <2>1, <2>2 DEF PlaceOf, NoClient, Registry!Lobby
    <3>3. PlaceOf(cd[id]) = Registry!Free
      BY <1>0, <2>2, PlaceCases DEF CanAdd
    <3>4. ASSUME NEW j \in Ids, PlaceOf(cd[j]) = Registry!Lobby(c) PROVE FALSE
      <4>1. cd[j].account # Null /\ cd[j].server = Null /\ cd[j].client = c
        BY <1>0, <3>4, PlaceCases, PlacesDiffer
      <4>2. cs[c].clientData = j
        BY <4>1 DEF Managed, Connected
      <4> QED  BY <2>2, <4>2
    <3> HIDE DEF new
    <3>5. Registry!Login(id, c)
      BY <3>1, <3>2, <3>3, <3>4 DEF Registry!Login
    <3> QED  BY <3>5 DEF RegistryStep, Registry!Next
  <2>3. ASSUME NEW old \in Ids, AuthDuplicate(c, old) PROVE RegistryStep
    <3>1. UNCHANGED cd \/ cd' = Erased({old} \cap Ids)
      BY <2>3 DEF AuthDuplicate, kickClient, removeClients, Erased
    <3> QED  BY <1>1, <3>1, ErasedOne
  <2> QED  BY <1>2, <1>4, <2>1, <2>2, <2>3, OldClientType DEF clientAuthResult
<1>5. ASSUME NEW g \in Idx, NEW otp \in Otps, onSelectServer(c, g, otp),
             ~AbortClient(c)
      PROVE  RegistryStep
  <2>1. PICK j : j = cs[c].clientData
    OBVIOUS
  <2>2. j # Null /\ j \in Ids /\ PointsTo(c) = {j} /\ cd[j].client = c /\ j \in Connected
    BY <1>5, <2>1, PointsToOwn DEF onSelectServer, Connected
  <2>3. cd' = [cd EXCEPT ![j] = [@ EXCEPT !.client = Null, !.server = g, !.otp = otp]]
    BY <1>5, <2>2 DEF onSelectServer
  <2>4. cd[j].account # Null /\ cd[j].server = Null /\ ~cd[j].inGame
    BY <2>2 DEF Managed, AccountStates, Connected
  <2>5. /\ cd'[j] \in ClientDatas
        /\ cd'[j].account # Null /\ cd'[j].server = g /\ ~cd'[j].inGame
        /\ \A i \in Ids : i # j => cd'[i] = cd[i]
    <3>1. cd \in [Ids -> ClientDatas]
      BY <1>0 DEF TypeOK
    <3>2. cd'[j] = [cd[j] EXCEPT !.client = Null, !.server = g, !.otp = otp]
      BY <2>2, <2>3, <3>1
    <3>3. cd[j] \in ClientDatas
      BY <2>2, <3>1
    <3>4. cd'[j] \in ClientDatas
      BY <3>2, <3>3 DEF ClientDatas
    <3>5. /\ cd'[j].account = cd[j].account /\ cd'[j].server = g
          /\ cd'[j].inGame = cd[j].inGame
      BY <3>2, <3>3 DEF ClientDatas
    <3>6. \A i \in Ids : i # j => cd'[i] = cd[i]
      BY <2>3, <3>1
    <3> QED  BY <2>4, <3>4, <3>5, <3>6
  <2>6. /\ PlaceOf(cd[j]) = Registry!Lobby(c)
        /\ PlaceOf(cd'[j]) = Registry!Selected(g)
    BY <1>0, <2>2, <2>4, <2>5, PlaceCases
  <2>7. Registry!Select(j, g)
    BY <2>2, <2>5, <2>6 DEF Registry!Select
  <2> QED  BY <2>2, <2>7 DEF RegistryStep, Registry!Next
<1> QED  BY <1>2, <1>3, <1>4, <1>5 DEF ClientNext

(* The auth server implements the abstract registry: an account is at one   *)
(* place, enters a game only on the server selected for it, and changes     *)
(* server only after it has been released.                                  *)
THEOREM RegistryRefined ==
  ASSUME ~StrayReports
  PROVE  Spec => RegistrySpec
<1>1. Init => Registry!Init
  BY NoClientPlace DEF Init, Registry!Init
<1>2. TypeOK /\ Managed /\ AccountStates /\ NoDangling /\ [Next]_vars => RegistryStep
  <2> SUFFICES ASSUME TypeOK, Managed, AccountStates, NoDangling, [Next]_vars
               PROVE  RegistryStep
    OBVIOUS
  <2>1. CASE Next
    BY <2>1, RegistryGameServerStep, RegistryClientStep DEF Next
  <2>2. CASE UNCHANGED vars
    BY <2>2, PlacesUnchanged DEF vars
  <2> QED  BY <2>1, <2>2
<1>3. Spec => []NoDangling
  BY NoDanglingCorrect
<1> QED
  BY <1>1, <1>2, <1>3, TypeCorrect, ManagedCorrect, AccountStatesCorrect, PTL
     DEF Spec, RegistrySpec, Registry!Spec, RegistryStep

=============================================================================
