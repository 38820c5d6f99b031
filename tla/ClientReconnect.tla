-------------------------- MODULE ClientReconnect --------------------------
(***************************************************************************)
(* rzclientreconnect: the proxy keeps one connection per character, copies *)
(* what the game server says about the character's surroundings into       *)
(* GameData, and shows the game client the character that is active.  The  *)
(* client logs in once; when the active server connection ends, or another *)
(* character is made active, its view is taken down and rebuilt from       *)
(* GameData, with the handle of the character that is active replaced by   *)
(* the one the client knows itself by.                                     *)
(*                                                                         *)
(* The data about a creature that has a packet to take it back (states,    *)
(* auras, running skills, worn items) is "attached"; the local player's    *)
(* things (items, summons, pets, skill cards, parties) are "owned"; what   *)
(* has none (titles, gold, quests...) is "lasting", with the character     *)
(* whose it is as its value.  The game client's use of the packets is      *)
(* external.  WrongSide is a mutated form of the definition that follows   *)
(* it.                                                                     *)
(***************************************************************************)
EXTENDS Integers, FiniteSets

CONSTANTS
  Conns,        \* the characters with a ConnectionToServer
  Handles,      \* handles of the game server, greater than 0
  Null

VARIABLES
  conns,        \* connections, and each one's GameData
  active,       \* activeMainServer and controlledServer, which are always the same
  client,       \* ConnectionToClient: isClientLogged, localPlayerClientHandle, target
  shown,        \* what the game client shows
  crashed

vars == <<conns, active, client, shown, crashed>>

\* GameData::clear.
NoData == [login |-> 0, known |-> {}, entered |-> {}, attached |-> {}, owned |-> FALSE, lasting |-> Null]
NoConn == [spawned |-> FALSE, data |-> NoData]

Init ==
  /\ conns = [c \in Conns |-> NoConn]
  /\ active = Null
  /\ client = [logged |-> FALSE, handle |-> 0, target |-> 0]
  /\ shown = [creatures |-> {}, attached |-> {}, owned |-> FALSE, lasting |-> Null]
  /\ crashed = FALSE

Data(c) == conns[c].data
Logged(c) == Data(c).login # 0

-----------------------------------------------------------------------------
(* Handles *)

WrongSide(d, h) == IF h = d.login THEN client.handle ELSE h

\* convertHandle for a packet of, or to, the active connection with data d.
convertHandle(d, h) ==
  IF h = d.login THEN client.handle ELSE IF h = client.handle THEN d.login ELSE h

\* The view of a client that knows itself as own: a creature is shown after its
\* TS_SC_ENTER, and data of a creature that is not shown is dropped.
Enter(v, own, h) == [v EXCEPT !.creatures = IF h = own THEN @ ELSE @ \cup {h}]
Leave(v, own, h) == [v EXCEPT !.creatures = @ \ {h}, !.attached = IF h = own THEN @ ELSE @ \ {h}]
Attach(v, own, h, on) ==
  [v EXCEPT !.attached = IF ~on THEN @ \ {h} ELSE IF h \in v.creatures \cup {own} THEN @ \cup {h} ELSE @]

-----------------------------------------------------------------------------
(* UpdateClientFromGameData.  Nothing reaches a client that is not logged in. *)

\* The handle of a creature's enterInfo, 0 when the creature never entered.
EnterHandle(d, h) == IF h \in d.entered THEN h ELSE 0

Reached(d) == d.login # 0 /\ client.logged

\* removePlayerData and removeCreatureData: what the local player has is taken
\* back, every other creature leaves.
removePlayerData(v, d) ==
  IF ~Reached(d) THEN v
  ELSE LET left == {convertHandle(d, EnterHandle(d, h)) : h \in d.known}
           local == {client.handle : h \in d.attached \cap {d.login}}
       IN [v EXCEPT !.creatures = @ \ left, !.attached = @ \ (left \cup local), !.owned = @ /\ ~d.owned]

\* addPlayerData, sendLoginResultToClient, sendPartyInfo and sendCreatureData.
addPlayerData(v, d) ==
  IF ~Reached(d) THEN v
  ELSE LET come == v.creatures \cup {convertHandle(d, EnterHandle(d, h)) : h \in d.known}
           data == {convertHandle(d, h) : h \in d.attached}
       IN [creatures |-> come, attached |-> v.attached \cup (data \cap (come \cup {client.handle})),
           owned |-> v.owned \/ d.owned, lasting |-> IF d.lasting = Null THEN v.lasting ELSE d.lasting]

-----------------------------------------------------------------------------
(* MultiServerManager *)

\* activateConnectionToServer: c becomes the active connection, or none.
activateConnectionToServer(c, cs) ==
  /\ active' = c
  /\ conns' = cs
  /\ \E v \in {IF active = Null THEN shown ELSE removePlayerData(shown, Data(active))} :
       shown' = IF c = Null THEN v ELSE addPlayerData(v, cs[c].data)

\* ensureOneConnectionToServer for the client's TS_CS_LOGIN, and the "add"
\* command of a client in the game.
spawnConnectionToServer(c) ==
  /\ ~conns[c].spawned
  /\ client.logged \/ \A d \in Conns : ~conns[d].spawned
  /\ \E cs \in {[conns EXCEPT ![c].spawned = TRUE]} :
       IF active = Null THEN activateConnectionToServer(c, cs)
       ELSE conns' = cs /\ UNCHANGED <<active, shown>>
  /\ UNCHANGED <<client, crashed>>

\* "switch" and "control" with a name.
setActiveConnectionToServer(c) ==
  /\ client.logged /\ conns[c].spawned
  /\ activateConnectionToServer(c, conns)
  /\ UNCHANGED <<client, crashed>>

\* "switch" and "control" without a name: the connection of the targeted player.
\* convertHandle reads the handle of a null connection when none is active.
SwitchToTarget ==
  /\ client.logged /\ client.target # 0
  /\ IF active = Null THEN crashed' = TRUE /\ UNCHANGED <<active, conns, shown>>
     ELSE /\ \E found \in {{c \in Conns : conns[c].spawned /\ Data(c).login = convertHandle(Data(active), client.target)}} :
               IF found = {} THEN UNCHANGED <<active, conns, shown>>
               ELSE \E c \in found : activateConnectionToServer(c, conns)
          /\ UNCHANGED crashed
  /\ UNCHANGED client

\* The erasure of connection c, which is deactivated first.
Erase(c) ==
  IF active = c THEN activateConnectionToServer(Null, [conns EXCEPT ![c] = NoConn])
  ELSE conns' = [conns EXCEPT ![c] = NoConn] /\ UNCHANGED <<active, shown>>

\* "remove".
remoteConnectionToServerByName(c) ==
  /\ client.logged /\ conns[c].spawned
  /\ Erase(c)
  /\ UNCHANGED <<client, crashed>>

\* TS_CS_TARGETING of a creature the client shows, or of itself.
onTargeting(h) ==
  /\ client.logged /\ h \in shown.creatures \cup {client.handle}
  /\ client' = [client EXCEPT !.target = h]
  /\ UNCHANGED <<conns, active, shown, crashed>>

-----------------------------------------------------------------------------
(* ConnectionToServer: packets of the game server *)

\* A packet changes the GameData of c to d, and is forwarded when c is active.
Packet(c, d, view) ==
  /\ conns' = [conns EXCEPT ![c].data = d]
  /\ shown' = IF c = active /\ client.logged THEN view ELSE shown
  /\ UNCHANGED <<active, client, crashed>>

\* TS_SC_LOGIN_RESULT, the first packet after the character list; it reaches
\* the client only once.
onLoginResult(c, h) ==
  /\ conns[c].spawned /\ ~Logged(c) /\ \A d \in Conns : Data(d).login # h
  /\ conns' = [conns EXCEPT ![c].data.login = h]
  /\ client' = IF c = active /\ ~client.logged THEN [client EXCEPT !.logged = TRUE, !.handle = h] ELSE client
  /\ UNCHANGED <<active, shown, crashed>>

To(c, h) == convertHandle(Data(c), h)

onEnter(c, h) ==
  /\ Logged(c)
  /\ Packet(c, IF h = Data(c).login THEN Data(c)
               ELSE [Data(c) EXCEPT !.known = @ \cup {h}, !.entered = @ \cup {h}],
            Enter(shown, client.handle, To(c, h)))

onLeave(c, h) ==
  /\ Logged(c) /\ h # Data(c).login
  /\ Packet(c, [Data(c) EXCEPT !.known = @ \ {h}, !.entered = @ \ {h}, !.attached = @ \ {h}],
            Leave(shown, client.handle, To(c, h)))

\* getCreatureData: a creature that never entered is added without a handle.
getCreatureData(d, h) == IF h = d.login THEN d ELSE [d EXCEPT !.known = @ \cup {h}]

\* onProperty to onSummonNotice, and onLevelUpdate to onMove: data about a creature.
onCreatureData(c, h, on) ==
  /\ Logged(c)
  /\ Packet(c, [getCreatureData(Data(c), h) EXCEPT !.attached = IF on THEN @ \cup {h} ELSE @ \ {h}],
            Attach(shown, client.handle, To(c, h), on))

\* onAddSummonInfo to onSkillcardInfo, onUpdateItemCount and onDestroyItem.
onOwned(c, on) ==
  /\ Logged(c)
  /\ Packet(c, [Data(c) EXCEPT !.owned = on], [shown EXCEPT !.owned = on])

\* onEquipSummon to onSetSubTitle: kept in an optional, reset by a few.
onLasting(c, on) ==
  /\ Logged(c)
  /\ \E value \in {IF on THEN c ELSE Null} :
       Packet(c, [Data(c) EXCEPT !.lasting = value], [shown EXCEPT !.lasting = value])

\* onDisconnected and onServerDisconnected.
onDisconnected(c) ==
  /\ Logged(c)
  /\ conns' = [conns EXCEPT ![c].data = NoData]
  /\ shown' = IF c = active THEN removePlayerData(shown, Data(c)) ELSE shown
  /\ UNCHANGED <<active, client, crashed>>

Next ==
  /\ ~crashed
  /\ \/ \E c \in Conns : \/ spawnConnectionToServer(c) \/ setActiveConnectionToServer(c)
                         \/ remoteConnectionToServerByName(c) \/ onDisconnected(c)
     \/ SwitchToTarget
     \/ \E h \in Handles : onTargeting(h)
     \/ \E c \in Conns, h \in Handles : onLoginResult(c, h) \/ onEnter(c, h) \/ onLeave(c, h)
     \/ \E c \in Conns, h \in Handles, on \in BOOLEAN : onCreatureData(c, h, on)
     \/ \E c \in Conns, on \in BOOLEAN : onOwned(c, on) \/ onLasting(c, on)

Spec == Init /\ [][Next]_vars

-----------------------------------------------------------------------------
(* Properties *)

TypeOK ==
  /\ conns \in [Conns -> [spawned : BOOLEAN,
                          data : [login : Handles \cup {0}, known : SUBSET Handles, entered : SUBSET Handles,
                                  attached : SUBSET Handles, owned : BOOLEAN, lasting : Conns \cup {Null}]]]
  /\ active \in Conns \cup {Null}
  /\ client.handle \in Handles \cup {0} /\ client.target \in Handles \cup {0}
  /\ shown.creatures \subseteq Handles \cup {0} /\ shown.attached \subseteq Handles \cup {0}

Current == IF active = Null THEN NoData ELSE Data(active)
AsShown(hs) == {convertHandle(Current, h) : h \in hs}

\* However connections come and go, the client shows no creature, state or item
\* that the active character's game server has not told of since its last login
\* (removePlayerData takes back what addPlayerData and the forwarding sent).
\* Creature 0 stands for one that never entered (enterInfo without a handle).
NoGhosts ==
  /\ shown.creatures \ {0} \subseteq AsShown(Current.entered)
  /\ shown.attached \subseteq AsShown(Current.attached)
  /\ shown.owned => Current.owned

\* The client is shown every creature that entered, the things and the latest
\* lasting data of the active character, after any switch (addPlayerData), each
\* creature under a handle of its own (convertHandle swaps two handles).
NothingMissing ==
  client.logged =>
    /\ AsShown(Current.entered) \subseteq shown.creatures
    /\ Cardinality(AsShown(Current.entered)) = Cardinality(Current.entered)
    /\ Current.owned => shown.owned
    /\ Current.lasting # Null => shown.lasting = Current.lasting

\* activeMainServer never points to a connection that was erased
\* (remoteConnectionToServerByName deactivates it first).
ActiveKept == active # Null => conns[active].spawned

\* The client shows what the active connection has, no less and no more, after
\* any sequence of switches, removals and losses of connections.
ShowsActive == NoGhosts /\ NothingMissing /\ ActiveKept

=============================================================================
