---------------------------- MODULE FilterListeners ----------------------------
(***************************************************************************)
(* GameClientSessionManager of rzfilter: for every game or upload server   *)
(* that a list of the auth server or a TS_SC_URL_LIST names, a port of the *)
(* filter that leads to it, which the client is told instead.              *)
(*                                                                         *)
(* The ports are counted from a base, or any free one is taken when there  *)
(* is no base.  A client uses the last list it was sent.                   *)
(***************************************************************************)
EXTENDS Naturals, FiniteSets, Sequences, SequencesExt

CONSTANTS
  Addresses,    \* addresses of servers, upload servers among them
  Indexes,      \* server_idx of game servers
  Clients,
  Ports,        \* ports that there are, none of them 0
  GameBases,    \* configured: first port for game servers, 0 for any
  UploadBases,  \* configured: first port for upload servers, 0 for any
  MaxLists      \* bound: lists sent

VARIABLES
  gameClientServers,  \* key of a server -> its listener
  base,               \* gameBasePort, and uploadBasePort that counts on
  taken,              \* ports of other programs
  told,               \* the servers each client knows, with the ports it was told
  lists

vars == <<gameClientServers, base, taken, told, lists>>

Init ==
  /\ gameClientServers = << >>
  /\ base \in [game : GameBases, upload : UploadBases]
  /\ taken \in {s \in SUBSET Ports : Cardinality(s) <= 1}
  /\ told = [c \in Clients |-> {}]
  /\ lists = 0

\* key: the address, for servers of both kinds
Key(server) == server.address

Busy(servers) == taken \cup {servers[k].port : k \in {k \in DOMAIN servers : servers[k].listening}}

\* The ports that SessionServer::start may get; 0 when it cannot listen.
Bound(servers, port) ==
  LET free == Ports \ Busy(servers)
  IN  IF port # 0 THEN {IF port \in free THEN port ELSE 0}
      ELSE IF free = {} THEN {0} ELSE free

\* ensureListening: the listener there is, or a new start of it.
EnsureListening(servers, server, port) ==
  LET key == Key(server)
  IN  IF key \in DOMAIN servers /\ servers[key].listening THEN {servers}
      ELSE {[k \in DOMAIN servers \cup {key} |->
               IF k = key THEN [listening |-> got # 0, port |-> got, serverAddress |-> server.address]
               ELSE servers[k]] : got \in Bound(servers, port)}

PortOf(servers, server) == IF servers[Key(server)].listening THEN servers[Key(server)].port ELSE 0

\* The loop of onPacketReceived over the list, sorted by server_idx: the
\* listeners there may be after it.  The base port goes on for every server.
RECURSIVE AllListening(_, _, _)
AllListening(starts, sorted, port) ==
  IF sorted = << >> THEN starts
  ELSE AllListening(UNION {EnsureListening(servers, Head(sorted), port) : servers \in starts},
                    Tail(sorted), IF port = 0 THEN 0 ELSE port + 1)

\* TS_AC_SERVER_LIST
ServerList(c) ==
  /\ lists < MaxLists
  /\ lists' = lists + 1
  /\ \E idxs \in SUBSET Indexes : \E address \in [idxs -> Addresses] :
       LET sorted == [i \in 1 .. Cardinality(idxs) |->
                        LET idx == SetToSortSeq(idxs, <)[i] IN [idx |-> idx, address |-> address[idx]]]
       IN  /\ gameClientServers' \in AllListening({gameClientServers}, sorted, base.game)
           /\ told' = [told EXCEPT ![c] = {[address |-> s.address, port |-> PortOf(gameClientServers', s)] : s \in ToSet(sorted)}]
  /\ UNCHANGED <<base, taken>>

\* TS_SC_URL_LIST: the server for guild icons, at a port of its own.
UrlList(c) ==
  /\ lists < MaxLists
  /\ lists' = lists + 1
  /\ \E address \in Addresses :
       LET server == [idx |-> Cardinality(Indexes), address |-> address]
       IN  /\ gameClientServers' \in EnsureListening(gameClientServers, server, base.upload)
           /\ told' = [told EXCEPT ![c] = @ \cup {[address |-> address, port |-> PortOf(gameClientServers', server)]}]
  /\ base' = [base EXCEPT !.upload = IF @ = 0 THEN 0 ELSE @ + 1]
  /\ UNCHANGED taken

\* stop: all servers of the program are stopped, the one for auth clients too.
stop ==
  /\ gameClientServers # << >>
  /\ gameClientServers' = [k \in DOMAIN gameClientServers |-> [gameClientServers[k] EXCEPT !.listening = FALSE]]
  /\ told' = [c \in Clients |-> {}]
  /\ UNCHANGED <<base, taken, lists>>

Next ==
  \/ \E c \in Clients : ServerList(c) \/ UrlList(c)
  \/ stop

-----------------------------------------------------------------------------
(* Properties *)

\* A client that connects to a port it was told gets to the server it chose:
\* its port is a listener's that leads there, and none but that server's.
LeadsHome ==
  \A c \in Clients : \A entry \in told[c] :
    entry.port # 0 =>
      /\ \E k \in DOMAIN gameClientServers :
           /\ gameClientServers[k].listening /\ gameClientServers[k].port = entry.port
           /\ gameClientServers[k].serverAddress = entry.address
      /\ \A k, l \in DOMAIN gameClientServers :
           gameClientServers[k].listening /\ gameClientServers[l].listening /\ gameClientServers[k].port = gameClientServers[l].port => k = l

\* A server is out of reach only where its port is somebody else's.
OnlyTaken ==
  base.game = 0 /\ Cardinality(Addresses) < Cardinality(Ports \ taken) =>
    \A c \in Clients : \A entry \in told[c] : entry.port = 0 => base.upload # 0

ListenersKept == LeadsHome /\ OnlyTaken
=============================================================================
