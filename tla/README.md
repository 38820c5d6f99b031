# rzu: TLA+ models of the servers, gateways, proxies and tools

rzu is a set of servers and tools around an online game: an authentication
server (`rzauth`) with an upload server, a log server (`rzlog`), a gateway that
makes game servers survive a loss of the auth server (`rzgamereconnect`), a
packet filter proxy (`rzfilter`), a client reconnect proxy
(`rzclientreconnect`), an auction monitor with its parsers
(`rzauctionmonitor`), a chat gateway (`rzchatgateway`), the prototype of a game
server (`rzgame`), and the network library they share (`librzu`).  This directory
holds specifications of what these programs keep, in which order they do it and
what can come in between, the TLC instances that check them, and proofs about the auth
server, the gateway and their composition, the framing, sessions, log writer and database
layer of the library, and most components of the tools and of the game server prototype.

`PROJECT.json` has the components, the runs, the line-by-line map from definitions
to code, the hazards, the findings and the theorems.  Run one model with
`tlc -config MCData.cfg MCData`, check the proofs of a module with
`tlapm AuthServerProofs.tla`.

## 1. The system

### Components, their state, and where they are modelled

| component | state | operations | modules |
|---|---|---|---|
| rzauth: account registry (`ClientData`) | maps by id and by name; owner, in-game flag, one time password | `tryAddClient`, `removeClient`, `removeServer`, `switchClientToServer`, `connectedToGame` | `AuthServer`, `AccountRegistry` |
| rzauth: game servers (`GameData`, `GameServerSession`) | servers by index; session, ready flag, GUID, player count; list in progress | three logins, account list, logouts, kicks, close | `AuthServer` |
| rzauth: `ClientSession` | account, query in progress | account, result, list, select, close | `AuthServer` |
| rzauth: upload server | pending requests, server map, current request of a client | login, request, upload, ends | `UploadServer` |
| rzauth: log client; `rzlog` | queue, stream; file of the hour and its buffer | `sendLog`, connect, stop; receive, change of hour, end | `RecordLog` |
| rzgamereconnect | login flags, pending messages, account list, timer, mutual pointers | every handler of `AuthSession` and `GameServerSession` | `GsReconnect`, `ReconnectCluster` |
| librzu: framing | receive buffer, packet in progress | read, dispatch, connect | `PacketFraming` |
| librzu: packets | layouts in every epic, identifier tables | `getSize`, `serialize`, `deserialize`, dispatch | `PacketLayout`, `AuthPackets`, `GameClientPackets`, `GameServerPackets`, `PacketTable` |
| librzu: sessions and streams | sockets, counts per address, bans, idle flags | accept, idle check, close, abort, callbacks | `SessionServer` |
| librzu: client sessions | two sessions, keys, delay, selected server | login at auth and game, reconnect | `ClientSessions` |
| librzu: log | queue, condition, writer thread, file | `log`, `startWriter`, `stopWriter`, rename | `LogWriter` |
| librzu: database | jobs, connections, statements, transactions | queue, execute, answer, cancel, pool | `DbQueries` |
| rzfilter: proxy | module on disk and loaded, filters, sessions, listeners | load, reload, sessions' ends, lists | `FilterLibrary`, `FilterSessions`, `FilterListeners` |
| rzfilter: filter modules | Lua states, references, timers; keys of a login; names by handle | packets, timers, reloads, ends | `LuaFilter`, `LuaSessionFilter`, `VersionConverter`, `CombatLog` |
| rzclientreconnect | one `GameData` per connection, active one, handles | server packets, switch, loss; moves | `ClientReconnect`, `CreatureMoves` |
| rzauctionmonitor | pages, workers, accounts; auctions and dumps; steps with queues | search, reload; diff, dump, parse; works, restarts | `AuctionMonitor`, `AuctionDiff`, `AuctionPipeline` |
| rzchatgateway | IRC connection, chat queue, names by handle | lines of IRC, packets of the game | `ChatGateway` |
| rzgame | sessions, lobby queries, characters, handles; reference tables, sids | login, lobby, loading; load and reload; job bonus | `GameLobby`, `GameReference`, `JobLevels` |
| billing, console, configuration, ciphers, crash handler, test tools | - | - | not modelled, section 7 |

### How the parts interact

Every program runs one libuv event loop; its handlers run to completion, so a
handler is one atomic action.  What interleaves is the events: packets of
independent peers, results of SQL queries that run in a thread pool, the completion
of asynchronous closes, timers, and deferred deletions.  Objects refer to each other
by raw pointers in both directions, and each side may be destroyed first.  Two
places really cross threads, the log writer and the database jobs; their models
have a step for each access that another thread can see.  Programs exchange
packets over TCP: in order on one connection, lost with it, and the two ends notice a
loss at different times.  Some programs are ended and started again at any point and
read back what they left: the auction parsers, the filter module on disk.

### What is hard

The `hazards` of `PROJECT.json` list what a test would hardly reach, each at its
line with the properties about it.  In short: takeovers of half-open sessions; late
query results; lists that are pictures of the past; ends of two linked objects in any
order; timers against late answers; queues at their limit; numbers that are reused
after they were given back (Lua references, handles, stream buffers); layouts and
ciphers that change from epic to epic; kills between two steps of a file protocol.

### What makes each part correct

* **Registries**: the two maps hold the same objects; every account is managed by
  exactly one live session or registered server; the player count is exact; an account
  enters only the game it was selected for; a closing session gives its account back.
* **Gateway**: mutual pointers; deferred packets keep their order; an orphaned
  session delivers its logout and ends; together with the auth server, all parties
  agree on who is in game, and the system recovers.
* **Library**: exactly the acceptable packets are dispatched, in order; both ends of a
  connection agree on every layout; what is counted is released; what is accepted by
  the log is written unless no file can be opened; a query is answered at most once, never
  to a session that is gone; nothing of a query that was reported failed is in the database,
  and all of one that succeeded, but for batches, which may be stored in part.
* **Tools**: what is shown, dumped, converted, forwarded or logged is what was there.

## 2. Modules and code

Every module begins with what it models and what it leaves out; here are the points
that shape a model.  A helper whose lines lie inside those of a definition in the `map`,
and the smallest packets, each in the file of its name, have no entry of their own there.
The theorems are in modules of their own: `AuthServerProofs`, `GsReconnectProofs`,
`ReconnectClusterProofs`, `LogWriterProofs`, `DbQueriesProofs` and `SessionServerProofs`
about the module in their name, `GameProofs` about `UploadServer`, `GameLobby`,
`ClientReconnect`, `GameReference` and `ChatGateway`, `ComponentProofs` about
`ClientSessions`, `FilterLibrary`, `FilterSessions`, `LuaSessionFilter`, `CombatLog`,
`AuctionMonitor`, `AuctionDiff` and `PacketFraming`.

### AuthServer, AccountRegistry (`src/rzauth/src/AuthServer`)

An object is named by its key - a `ClientData` by its account id, a `GameData` by
its server index - and a pointer is that key.  `cd` and `byName` are
`connectedClients` and `connectedClientsByName`, `servers` is
`GameData::servers`, `gs` and `cs` are the session objects, and `sent` holds the
packets of the last handler (for the composition).  Name, address, port, url and adult
flag of a server are one value `info` (the takeover test compares them all), a password
check is a choice between `AuthRefused` and a row of `DbAccounts`.

* A session that a handler has closed still gets the packets that are already in
  its buffer (`PacketSession::onDataReceived` does not look at the stream's
  state), so `CanRead` holds in the phase `"closing"`.
* A pointer that outlived its object is undefined behaviour: `PointsTo` lets the
  read hit nothing or any `ClientData` created since.
* A handler accepts a report about an account that the reporting server does not
  host.  `StrayReports` says whether peers may send one.

`AccountRegistry` is the abstract specification: each account is free, in the
lobby of one session, selected for a server or in game on it, and moves only
along the allowed ways.  `RegistrySpec` states that `AuthServer` implements it
under the mapping `Place`.

### GsReconnect, ReconnectCluster (`src/rzgamereconnect/src/AuthServer`)

`as` holds the `AuthSession` objects (a slot that is reused draws a new GUID),
`game` the `GameServerSession` objects.  `disconnect`, `forceClose`, `sendPacket`,
`sendAccountList` and `SentToNetwork` are functions from an object to its next
value and the packets written, because the handlers call them in sequence.  A packet
keeps the size it was created with (`room`), since the auth server compares that size
with the number of accounts in it.

`ReconnectCluster` extends `AuthServer` and instantiates `GsReconnect`; each step of one
party is the whole action of its module, and its packets enter or leave the channels `up`
and `down`.  The two ends of a connection fail separately, either because the other end
has closed or because the network broke (at most `MaxLosses` times).  `AuthRestarts`
empties the auth server.  The game server is not in the repository: `PlayerArrives`,
`PlayerLeaves`, `KickAnswered`, `GameStops` are external definitions derived from the
packets the gateway and the auth server exchange with it.

### Library (`src/librzu/src/lib`, `src/librzu/src/packets`)

* `PacketFraming`: a byte is a pair (packet, position); reading anything but the header
  bytes in place as a header gives any size.  One iteration of the loop of
  `onDataReceived` is one step, chunks have any length.
* `PacketLayout` translates the macros of `PacketDeclaration.h`: a layout is a sequence
  of fields, and `Size`, writing and reading are operators over it.  `AuthPackets`,
  `GameClientPackets` and `GameServerPackets` are the declared packets, field by field,
  with the epics in which each field exists; `PacketTable`
  sends any of them, in any of its epics, through `sendPacket`, the table of identifiers
  and `process`.  Contents are the numbers of elements and the values conditions name.
* `SessionServer`: every callback of libuv is an action; a session is used once.
* `ClientSessions`: the two sessions of a client; an answer is decided when the request
  is sent and read later, so that everything else may come in between.  `onGGTimerExpired`
  sends through a game session that may have no stream yet (section 4); the send is left out.
* `LogWriter`: locks are kept, and the flags that are read without one are read in a step
  of their own.  A writer that has no file, because none could be opened, deletes what it
  takes; `history.unopened` remembers these messages.
* `DbQueries`: a job goes from the event loop to a worker and back; a connection keeps the
  text of its statement, its batch attributes and the rows of an open transaction.  A batch
  may be executed in part and is committed all the same, and the result of a commit is
  ignored.  `foreign` says that a job was executed with the batch attributes of another.
  `ColumnCounts` says whether the columns of a result can be counted: where they cannot, the
  connection is closed under the worker that uses it, which `db_columns` shows.

### Upload server and log records (`src/rzauth/src/UploadServer`, `LogServerClient`, `src/rzlog`)

`UploadServer` uses a session object once, so that a pointer to a deleted one is seen.
`RecordLog` joins the client's queue, the connection and the server's file: a FILE keeps
what was written until it is closed or its buffer is full.  A file that cannot be opened,
whose records `rzlog` drops, and records with sizes that no client sends are left out.

### Filter proxy (`src/rzfilter`)

`FilterLibrary` has the module under its three names on disk; `Disk(c, k)` is what is
there after the first `k` operations of `loadModule`, so that `Killed` may come between
any two.  `FilterSessions` has both sides of one connection, each with the phases of its
stream, the packets that wait for the server, and the chain of filters.
`FilterListeners` has the ports that are given to clients.  `LuaFilter` models Lua's
registry as it is: a number that is given back is given out again first.
`LuaSessionFilter` leaves out the packets of id 9999, which are never given to a script.
`VersionConverter` follows one login through two key exchanges, and packets of the game
through the layouts that differ.  `CombatLog` keeps names by handles that are reused.

### Client reconnect, auction monitor, chat gateway, game server prototype

`ClientReconnect` groups what the proxy keeps by how it is taken back from the client;
`CreatureMoves` has exact positions on a line: at the end of the first leg of a way the
creature jumps to its last target, as the code makes it (section 4), and the property says
that where it is put then does not depend on the updates in between.  `AuctionDiff` has the
auction house as environment, the monitor's view and the parsers' view; `AuctionPipeline` is
the generic pipeline, instantiated for both parsers.  Its process is down, idle (a load from
the database failed, so that it never scans) or watching its directory; a scan may fail, and
then waits for the next change of the directory.  `ChatGateway` has `NamesServer`, which is FALSE
at this commit (section 4) and TRUE where the rest of the gateway is checked.  In
`GameLobby` the program is `dead` after it follows a null or dangling pointer; nothing is
claimed after that.  A character may be asked for with the empty name (`AnyName`), which
passes unchecked as long as no name was validated; a query keeps the account it was made for.

### Operators named after a fault

`ForgetsTheName`, `LogoutKeepsPointer`, `KeepsRequests`, `StaleKey` and the like stand before
the definition they distort and are used by nothing.  Put in place of that definition,
such a form makes TLC find a violation; `PROJECT.json` pairs every property of a passing
run with one, which shows that the property notices that fault.

## 3. Runs

| run | instance | checks |
|---|---|---|
| `auth_takeover` | 1 account, 2 clients, 2 game sessions, 1 index, 2 GUIDs | `TypeOK`, `SessionLink`, `NoDangling`, `MapsAgree`, `Managed`, `PlayerCount`, `RegistrySpec` |
| `cluster_agree` | 2 clients, 2 sessions, 1 loss, no restart (`RunningSpec`) | `ViewsAgree`, `NoDangling` |
| `data` | 23 instances of components that keep data in step | 15 invariants, below |
| `threads` | log writer, database jobs, registry under stray reports and under 2 names crossed with 2 ids, gateway; fairness | `QueueKept`, `AccountsKept`, `Finished`, `NoLateCallback`, `ClosingReleases`, `GoesAway` |
| `sessions` | session server, client, monitor, two pipelines, the cluster with faults and with late kick answers; fairness | `CountsKept`, `LoginKept`, `PagesKept`, `FilesKept`, `SynchronizedMeansReady`, `Removed`, `GetsInGame`, `Advances`, `Recovers`, `Processed` |
| `db_columns` | 2 jobs, 2 connections | violates `UsedWhileOpen` |
| `upload_gone` | 2 game servers, 1 client | violates `ClaimedServed` |
| `cluster_long_list` | 3 accounts, 2 per packet | violates `SynchronizedMeansReady` |
| `cluster_restart` | 1 client, 1 restart | violates `NoDangling` |
| `framing_reconnect` | 1 packet, 2 connections | violates `DispatchedInOrder` |
| `lua_client` | 2 connections, 1 Lua state | violates `ClientIsOwn` |
| `chat_unnamed` | the chat gateway as it is | violates `Bridges` |

### The three suites

`MCData`, `MCThreads` and `MCSessions` check several small components in one run each.  The
variable `active` is chosen in `Init` and never changes; `s1`, `s2`, ... are the variables
of the component it names, by `INSTANCE ... WITH`, so a behaviour of the suite is a
behaviour of one component, and a property of the suite is the component's, under
`active = ...`.  Nothing is composed here that the code does not compose.  The runs of
framing, Lua, chat, uploads and columns check one module as it is.  `SizesAssumption` has
TLC evaluate what the proofs assume of the constants of the instances.

| property of `data` | component | says |
|---|---|---|
| `Understood` | `PacketTable` | every packet, in every epic, is recognised and read back as it was written, with the size it announced |
| `Framed` | `PacketFraming` | on a connection that begins with an empty buffer, packets are dispatched whole, once, in order, and all of them |
| `RequestsKept` | `UploadServer` | a request has one owner, and one that waits leads to a live game server |
| `ShowsActive` | `ClientReconnect`, `CreatureMoves` | the client shows what the active server has, no less and no more; where a creature is put does not depend on when it was updated |
| `InStep` | `AuctionDiff` (twice) | the parser knows the auctions the monitor knows, and an estimated end contains the real one |
| `FilterKept` | `FilterLibrary`, `FilterSessions`, `FilterListeners` | filters belong to a loaded module, packets pass in order and are not sent to what is gone, ports lead to the server that was selected |
| `ScriptsKept` | `LuaFilter`, `LuaSessionFilter` | references lead to what they were made for; timers are called while they live |
| `Converted` | `VersionConverter`, `CombatLog` | a login of the client's version arrives in the server's; a line names who did what |
| `RecordsKept` | `RecordLog` | records that were accepted are written once, in order, in the file of their hour |
| `ChatKept` | `ChatGateway` (twice) | chat is said once, in order, under the name of who says it |
| `GameKept` | `GameLobby` (twice), `GameReference`, `JobLevels` | who is in game is known to be, names and handles are unique; the servers start once, when every loader has answered, with what could be read; each level of a job is counted once |
| `PoolKept` | `DbQueries` | a connection serves one job, the pool stays near its bound, no session lists a freed job but a lambda; what is stored is a whole query, or a part of a batch, that was not reported failed |
| `Linked`, `NothingOvertaken`, `LogoutOnItsWay` | `GsReconnect` | mutual pointers; deferred packets in their order; an orphan's logout waits or was sent |

### Bounds

* *Accounts and sessions.* A registry fault needs one account, its old holder and
  its new one: two clients or two game sessions of one index.  A conflict in one
  map and not in the other needs two names and two ids.
* *Lists* (`MaxList`).  Two entries are enough for two that exclude each other.
* *`CountMod = 4`* stands for 2^32: larger than the number of accounts, small
  enough that a wrap below zero is seen.
* *`MaxCount`* stands for `MAX_COUNT_PER_PACKET`: the list takes the lengths
  zero, full and more than full.
* *`MaxPending`, `MaxQueue`, `MaxChannel`, `MaxBuffer`*: queues are full with one or two
  elements, so that full, empty and in between all happen.
* *`MaxLosses`, `MaxRestarts`, `MaxFaults`, `MaxCrashes`*: one fault that the two ends
  notice separately already yields the half-open cases; a further one repeats it from a
  state the first one reaches.  Where two faults can meet, two are allowed.
* *Framing sizes* stand for less than a header, a header only, the smallest body,
  exactly `MAX_PACKET_SIZE` and one more; *packet sizes* 0, 300 and 9000 stand for none, more
  than one byte counts, and more than a packet may hold.
* *Versions*: one of each range between two epics at which some layout, or the
  converter's way, changes.
* *Times* (`MaxTime`, `Period`, `Duration`, `MaxHours`) are ticks; each interval of the code
  is at least one tick, and different ones differ.
* *Levels* are the ends of the ranges of twenty, one before and one after.
* A component that appears twice has one instance with more objects and one with more
  faults or longer sequences, where both at once would be too many states.
* Symmetry is used only where no property and no fairness condition tells the
  permuted values apart, and never in a run with a liveness property.  The `VIEW`
  of the cluster's safety runs leaves out `sent`, `out` and `toGame`, which only
  exist within a step.
* Deadlock is not checked in the suites and in five small runs (framing, Lua, chat, uploads,
  columns), whose components may come to rest when the bounds are used up; that they do not
  rest too early is what the liveness properties say.

### Fairness

* `AuthServer`: libuv completes every close it has started, the thread
  pool answers every query.  Nothing is assumed of peers.
* `GsReconnect`: closes complete, timers expire, `deleteObjects` runs in
  every iteration of the loop.  Strong fairness for `onConnected` and
  `onLoginResult` says that the auth server is not unreachable for ever and does
  not lose every connection before its answer: without it no implementation could
  deliver a logout.
* `ReconnectCluster`: connections that can be made are made,
  packets on a working connection are read, and an end whose peer is gone notices
  (both ends set a TCP keep-alive, 30 and 31 s).  Weak fairness suffices because
  losses and restarts are bounded.  Nothing is assumed of players and clients.
* `LogWriter`: the writer thread and a thread in `join` are scheduled.  `DbQueries`: a
  job whose next step can be taken takes it.
* `SessionServer`: libuv's callbacks of a closing session come.  `ClientSessions`: servers
  answer, closes complete, timers expire; faults are bounded by `MaxFaults`, which is
  what "when nothing more goes wrong" means in `GetsInGame`.
* `AuctionMonitor`: workers that can go on do, and the account timer expires.
* `AuctionPipeline`: the process is started again, a scan that is due comes, works that can
  go on do.  Nothing is assumed about failures, which `MaxFaults` bounds: after a failed load
  the process is idle for good, after a failed scan it waits for a change of the directory,
  and `Processed` says so of the files nobody looks for any more (`Unseen`).

## 4. What the runs show

The passing runs show that the takeover of a half-open session leaves no stale
link and no dangling session pointer, that inserting into and erasing from two maps
keeps one registry also when the second insertion is rolled back, that the player
count never wraps, that stray reports cannot leave an account without a manager,
that the gateway never gets stuck with an undelivered logout, that after a
loss of the connection all three parties agree again on who is in game; that a log
writer that is stopped and started loses nothing, unless no file can be opened, and
ends; that a session that is gone is never called by its query; and the properties of the table above.

`NoDangling` needs the peers to be truthful: it is checked in `auth_takeover` with
`StrayReports = FALSE`, and in `cluster_agree` where the reports are the ones a
correct game server sends.  `Managed` is what still holds without it; section 5 has both
as theorems.

### Disagreements between the code and what is said of it

1. `cluster_long_list`.  `AuthSession::sendAccountList` reuses one packet with room
   for 128 accounts for all parts of the list, so the shorter last part has the
   wrong size; `onAccountList` in rzauth drops a packet whose size does not match
   its count.  With more than 128 players in game and a number that is not a
   multiple of 128, the game server stays "not ready" after a reconnect.
2. `cluster_restart`.  After a restart of the auth server a player logs in again
   before the account list arrives.  The list keeps the new login and kicks the old player,
   but the `TS_GA_CLIENT_LOGOUT` that answers the kick erases the new login's
   `ClientData` by name, and its `ClientSession` keeps the pointer.
3. `framing_reconnect`.  `PacketSession::onConnected` resets the packet in progress
   but `Stream::recvBuffer` survives a reconnect of the same session.  `Framed` says that
   this is the only way framing goes wrong.
4. `lua_client`.  After the end of the client, the filter of `lua_global_state` goes on using
   the reference it gave back, which Lua gives to the next client.
5. `chat_unnamed`.  Nothing calls `setGameServerName`, so the chat gateway never connects to
   IRC and ends when its character enters the game.
6. `db_columns`.  When the columns of a result cannot be counted, `getColumnsMapping` deletes
   the connection (`DbQueryBinding.cpp:38`), and `process` ignores its result and fetches
   from it, where `DbConnection.cpp:97` has `assert(isUsed);`.
7. `upload_gone`.  `removeServer` is to "remove all requests from this server"
   (`UploadRequest.h:40`) but looks at the map only: a client that has claimed a request keeps
   it in `currentRequest` and its upload is answered through the game server session that was
   destroyed (`ClientSession.cpp:110`, `121`, `151`).

### Behaviour met while modelling

The models contain the following as the code has it, but for what section 2 leaves out; no
text in the repository says otherwise, so they are not findings.  Properties are stated so
that they hold beside them.

* rzfilter.  After a restart with a module that does not load under one of its two names,
  `findUsedIndexOnDisk` makes `loadModule` free the other name, which may be the good one.
  `reloadFiltersCommand` without a loaded module calls a null function.
  `EndpointProxy` caches an address that is still empty.  Packets waiting in
  `ServerSession::pendingMessages` are leaked when the server never connects.  The static
  `uploadBasePort` grows with every list; with fixed ports a server list that grows
  collides, and the client is told port 0.  `strictforward` has no effect on a packet without
  handler.
* rzfilter, Lua.  A timer that its own callback drops is deleted under it.  A script that
  changes twice in one second of its modification time is not loaded again.
  `LuaTimer.start` leaks the reference of the previous callback.
* rzfilter, converter.  In the branch for bora the AES key of the server is never taken, so
  that the one time password becomes 0.  A reload drops the keys and the account.
  The choice of the cipher changes at another epic (5.1) than the layout (5.2).
  `TS_AC_RESULT_WITH_STRING` is looked up as a packet of the game.  A second
  `TS_AC_AES_KEY_IV` sends a password of zeros.
* librzu.  `BanManager::banIp` bans the address as rzfilter hands it over, with the port of
  the peer (`ClientSession.cpp:31`), and the checks look up port 0 (`BanManager.cpp:95`),
  so that such a ban never holds; only the limit per day and the ban file refuse anyone.
  `stop` of a server that was never started follows a null pointer.
* librzu, log.  Messages taken while no file is open, because `openLogFile` failed, are
  deleted unwritten (`Log.cpp:500-505`).
* librzu, database.  A batch of which single rows fail is committed without them, with only a
  warning (`DbQueryBinding.cpp:596-651`), so that a query that was answered as done may be in
  the database in part.  The result of a commit is ignored (`DbConnection.cpp:62-64`).  The
  attributes of a batch are never reset on a statement, so that another query that gets
  the connection while the pool is full is executed with them.  A lambda job stays in the list
  of its session after it was freed and is cancelled there when the session goes, which is a
  use after free (`DbQueryJobLambda.h:23-26`); `ListedAlive` speaks of the other jobs.
* librzu, client.  `onGGTimerExpired` sends on the game session before it closes it; if that
  session was never connected its stream is null (`AutoClientSession.cpp:126-131`,
  `SocketSession.h:32-33`).
* rzclientreconnect.  `updateCreaturePosition` reads the next target after it has erased the
  one that was reached (`ConnectionToServer.cpp:855-857`, `884-887`): at the end of the first
  leg of a way a creature jumps ahead, with two legs to the last target.
* rzauctionmonitor.  When the aggregator cannot load the active auctions it either is told so
  and stays as it is, or, if the query itself fails, is never told at all
  (`P0LoadActiveAuctions.cpp:119-123`) and stays `started`: nothing is scanned until the
  process is started again.  A directory that cannot be scanned is not scanned again before
  something in it changes (`AuctionPipeline.cpp:100-107`).
* rzlog.  A file that cannot be opened loses the records that come for it.  The file of
  the hour is opened with `"wt"`, so a second session in that hour truncates what the
  first one wrote; `RecordsKept` speaks of files opened once.  The
  client drops records silently when unconnected or full and does not reconnect; the
  END of a stop while it is connecting stays in the queue.
* rzchatgateway.  The IRC buffer survives a reconnect; chat sent while the session is
  closing is lost; answers to a whisper go to the last one who wrote publicly; something
  that is no player speaks under the name of the player who had its handle before;
  `game.epic`, an integer, is read as a Boolean (`main.cpp:77`).
* rzgame.  `pendingClients` keeps a session that was deleted, and is not cleared when the
  auth server is lost, so an account may never log in again; a second login of an
  account that waits is ignored; a kick is ignored; a character is never entered in
  `dataObjectsBySid`, so that the test for a character already in game never fires; a login
  with an unknown name follows a null pointer; a character with the empty name is created
  without any check as long as no name was validated, or after one was used
  (`LobbyHandler.cpp:134`, `171`, `188`); a stale list lets a name delete a recreated
  character, and gives slots twice; a failed query for a name counts as a free name, a failed
  query for sids starts at 0, a failed reload empties the table.

## 5. Proofs

Every theorem holds for every value of the constants that satisfies its hypotheses: any
number of accounts, sessions, servers, threads, messages and queries, where the runs have
two or three.  The bounds of the models (`MaxQueue`, `MaxPending`, ...) are constants too,
so the theorems do not depend on how small they are.

### What is assumed

* `AuthServer`: `IdsAssumption` (finitely many accounts, fewer than the modulus of the
  player counter, 2^32 in the code), `KeysAssumption` (`Null` is no object, 0 is a one time
  password), `DbAssumption` (the account table holds names and ids), `FlagsAssumption` (the
  two settings are Boolean, the bound on lists is a number).
* `~StrayReports`, where it is said: no game server reports the login of an account that it
  does not host.  It is the case of a correct game server, and of the gateway:
  `cluster_agree` checks `NoDangling` where the reports are those the gateway sends.
  `TypeCorrect`, `SessionLinkCorrect`, `MapsAgreeCorrect` and `ManagedCorrect` do not need it.
* `Assumptions` of `GsReconnect` and `ClusterAssumption`: finite sets of objects, `Null` none
  of them, bounds that are numbers.  `SynchronizedMeansReadyCorrect` also assumes
  `MaxList <= MaxCount`, that an account list fits in one packet: without it
  `cluster_long_list` shows the violation.  `GatewayRefined` assumes `Ids # {}`.
* `Assumptions` of `LogWriter`, `DbQueries`, `SessionServer` and `UploadServer`: finite sets
  of jobs, connections and sessions, writers that are numbered, a queue and a pool with
  room for one element, sizes that are numbers, `Null` no object.
* `ColumnCounts \subseteq {TRUE}` for `PoolKeptCorrect` and `StoredTogetherCorrect`: the other
  case is a violation, which `db_columns` shows.
* `Polite`, for the second half of `RequestsKept`: game servers log in once, before they
  ask.  `OneOwnerCorrect` does without.
* `MonitorAssumption` (the workers are a finite set of numbers, there is a category and a
  page, `Null` is no request), `DiffAssumption` (dumps are incremental, as the parser is
  configured by default; `Null` is no record), `FramingAssumption` (a header has a byte, sizes
  are numbers), `LobbyAssumption` (sessions are positive numbers, the empty string is no
  account, names are finite), `ViewerAssumption` (0 is no handle, `Null` no connection),
  `ReferenceAssumption` (loaders are finite, disjoint, and at least one; `"words"` is no kind).
* `LoginKeptCorrect`, `LibraryKeptCorrect`, `SessionsKeptCorrect`, `SessionScriptKeptCorrect`,
  `CombatToldCorrect` and `ChatKeptCorrect` assume nothing.

TLC evaluates the assumptions of the modules, and those called `Assumptions`, for the instances
of the runs; the suites choose their instances within the others.

### The auth server (`AuthServerProofs`)

| theorem | statement | argument |
|---|---|---|
| `TypeCorrect` | `Spec => []TypeOK` | `TypeOK` is inductive.  Two cases are more than unfolding: the concatenation of list packets stays a bounded list of accounts (`ListConcat`), and the counter stays in its width (`PlayersLeftType`, from finiteness of `Ids`). |
| `SessionLinkCorrect` | `Spec => []SessionLink` | Inductive together with `TypeOK`.  Of the steps of game servers, the takeover is the case that needs both directions of the invariant, since it redirects one link and cuts the other in the same step. |
| `MapsAgreeCorrect` | `Spec => []MapsAgree` | Inductive together with `TypeOK`.  `ErasedMaps`: erasing a set of ids erases exactly their names.  `AddedDiffer` and `SyncMaps`: positions accepted from an account list differ pairwise in name and id. |
| `ManagedCorrect` | `Spec => []Managed` | Not inductive alone: a query that is answered for a session that is gone would register an account nobody manages.  `QueriesAlive` says that a session with a query in progress can be read; `SessionLink` says which server goes when a game session does.  `ManagersKept` collects what most steps leave alone. |
| `NoDanglingCorrect` | `~StrayReports`: `Spec => []NoDangling` | Inductive with `MapsAgree` (a logout by name erases the account with that id) and `Managed` (who is erased is in the lobby of nobody else). `PointsToOwn`: with the invariant, a read through the pointer is no choice any more. |
| `PlayerCountCorrect` | `~StrayReports`: `Spec => []PlayerCount` | Needs `AccountStates` (who has no server is not in game) and the lemmas that a list adds as many players as accounts (`AddedCount`) and a removal takes as many (`PlayersLeftCount`), by cardinality, below the modulus (`SmallMod`). |
| `RegistryRefined` | `~StrayReports`: `Spec => RegistrySpec` | `Init` maps to `Init` of `AccountRegistry`, and every step to a step of it or none, under `PlaceOf`: `PlacesDiffer` says that the mapped states are different ones, `ErasedOne`, `ErasedServer` and `SyncStep` which accounts a handler moves. |

### The gateway (`GsReconnectProofs`)

The invariant is `TypeOK`, `Linked` and, of each `AuthSession`, `Good`: the conjunction of
`NothingOvertaken`, `Progressing` and `LogoutOnItsWay`, none of which is inductive without
the others.  (That the queue is empty when a login result arrives depends on who sets
`pendingLogin`; that the logout goes out depends on the timer.)  Each method of
`AuthSession` has a lemma about the object it returns, because the handlers call them in
sequence; `Only` says that one object changes and its link is kept or cut on both
sides.  `LinkedCorrect`, `NothingOvertakenCorrect`, `LogoutOnItsWayCorrect`, `TypeCorrect`
and `ProgressingCorrect` are its parts.  The last entry of a name in an account list, which
`Without` chooses, exists by well-foundedness of the numbers.

### The composition (`ReconnectClusterProofs`)

`Base` is the invariant of the auth server (`AuthInv`), that of the gateway (`GatewayInv`), the
types of the packets in the channels, and `Ends`: both ends of a connection exist as long as
one of them uses it, and no connection has a third end.  From it follow `EndsCorrect`,
`ClusterLinksCorrect` (`SessionLink`, `MapsAgree` and `Managed`, with restarts of the auth
server), and the two refinements: `AuthServerRefined`, each step of the composition is one
of `AuthServer`, a stutter or a restart, and `GatewayRefined`, each is one of `GsReconnect` or a
stutter.

`SynchronizedMeansReadyCorrect` adds `Stages`.  A connection that works at both ends is in one
of three stages: `LoginSent` (the login is on its way, alone, and nothing comes back),
`LoginAnswered` (nothing is on its way to the auth server, and its result comes back first),
`Serving` (the gateway is synchronized, no logout is on its way, and either the last part of
the account list is, or the server is ready).  A step that reads or writes a packet leads
from a stage to the same one or to the next.

### The library

* `LogWriterProofs`, `QueueKeptCorrect`.  `NothingLost` and `WrittenInOrder` are states of the
  whole pipeline, so the invariant orders its three parts: what is written comes before
  what a writer holds, and that before the queue (`Ordered`); a message is in one of them
  (`Kept`); what a writer holds outside the lock is taken once (`HandsEmpty`).  With
  one writer at a time (`OneAtATime`) the order is the one of the file.  `Lifetime` counts
  threads along starts, stops and the destructor, `Renamed` follows a new name to a writer
  between its two unprotected reads, `Unfiled` says that what a writer without a
  file holds is what could not be written, because none could be opened.
* `DbQueriesProofs`, `PoolKeptCorrect`, `StoredTogetherCorrect`, `NoLateCallbackCorrect`.  `Users`
  makes jobs that run and connections in use correspond one to one, but for those the
  console command is closing; `Transactions` says what a connection holds of a job that has
  executed a part of its inputs, from which `Results` follows at the commit;
  `Attributes` follows the text of the last statement, which decides what is reset; `Pool`
  counts connections that are open and about to be opened, by cardinality, against the
  number of threads that can be between the test and the opening; `Listing` says
  that a job outlives its session only if it was cancelled.
* `SessionServerProofs`, `CountsKeptCorrect`, `KickedIdleCorrect`.  `Counted` needs that
  the limits in the cache are off only if `ban.off` remembers it (`Uncounting`).
  `IdleBound` needs the age of a session from below and above at each moment of the
  period (`Ages`), and that sessions are connected only while the timer runs (`Listening`).
  `GoesOn` is what the callbacks of a stream may do with a session.
* `LoginKeptCorrect` (`ComponentProofs`).  The two sessions of a client end normally only when
  the other has taken over (`NormalEnd`), one login is under way (`OneLogin`), and a client
  that is not at rest has something that will wake it.
* `FramedCorrect` (`ComponentProofs`).  `Following` follows the stream: the bytes in the buffer
  and on the wire are the packets that were sent after those that were dispatched, less what
  is already read of the one in progress; `Awaits` says when the loop may rest.  No induction
  over the packets is needed, because a step takes bytes from the front of one packet.

### The tools (`ComponentProofs`)

* `LibraryKeptCorrect`: a filter belongs to a module that is loaded, and the module that is
  loaded is the one on disk under its name; `Candidate` is followed through the three names.
* `SessionsKeptCorrect`: the two sides of a connection with the phases of their streams.
  `HeldTogether`, `ServerFollows` and `EndsTogether` say which pairs of phases there are,
  `NothingLost` where each packet of the client is, `ClientMisses` which ones of the server
  the client may miss.
* `SessionScriptKeptCorrect`: states, handlers and timers carry the number of the load they
  were made by, and none has a newer number than the filter.
* `CombatToldCorrect`: the name a line gives to a handle is that of the entity that has it now.
* `PagesKeptCorrect`: each page is in one place, due, with one worker, or done (`Handover`,
  `DuePlaced`), and no worker sleeps while a page is due.  Handing n pages to the first n
  workers is proved by the rank of a worker among those that wait.
* `InStepCorrect`: the monitor's auctions, the records of a dump and the parser's auctions
  are three pictures of one past; `LeadsOn` says that the records that are not parsed yet
  lead from what the parser knows to what the monitor knows.

### The game server prototype and the others (`GameProofs`)

* `OneOwnerCorrect`, `RequestsKeptCorrect`.  `OneOwner` is inductive with the types of the
  pointers; `PendingServed` needs that who waits has logged in (`Served`), since only the
  destructor of such a session removes its requests.
* `LobbyKeptCorrect`.  `AskedBy` says of each query in progress what its session and its
  account may be when it is answered; `Registered`, `Owns`, `Named`, `OneCreation`, `Handled`
  and `Counted` are the parts of the property, strengthened.
* `ShowsActiveCorrect`.  `Showing` relates what the client was shown with what the active
  connection has, under the exchange of the two handles of the player.
* `ReferenceKeptCorrect`: `WaitsFor` counts the loaders that are under way by cardinality,
  `SidsAhead` and `RowsKept` say what a loader that has answered has left.
* `ChatKeptCorrect`: `AcceptedSaid` puts each message in one place in order, `Flushed` empties
  the queue when the character is in the game, `KnownAs` follows names by handle.

The property of a suite that has one of these names, or that of its theorem without
`Correct`, is the property of the component; `PoolKept` of `data` is `PoolKept` with
`StoredTogether`, and `ShowsActive`, `InStep`, `FilterKept`, `ScriptsKept`, `Converted` and
`GameKept` have parts that are only checked (section 6).

Each proof has a lemma for each action or group of actions; what several actions do alike
(erase a set, delete the requests of a set, keep what is counted) is a lemma of its own.

## 6. What is only model-checked

* Liveness (`ClosingReleases`, `GoesAway`, `Finished`, `Removed`, `GetsInGame`, `Advances`,
  `Recovers`, `Processed`), which is beyond this prover.
* `ViewsAgree` of the composition, and its `NoDangling` without restarts: they relate the
  accounts of three parties with the contents of the channels between them, and their
  invariant has to say what every sequence of packets under way will make of the registry.
* `EndInside` of `AuctionDiff`, that an estimated end contains the real one.
* What is defined by recursion, which the prover cannot use: `Understood` (`PacketLayout`,
  `PacketTable`), `ListenersKept` (`FilterListeners`), `RecordsKept` (`RecordLog`),
  `RegistryKept` (`LuaFilter`), `LoginBridged` (`VersionConverter`), `OnTheWay` (`CreatureMoves`).
* `FilesKept` (`AuctionPipeline`) and `BonusOfEveryLevel` (`JobLevels`), which are built on folds.

`AccountsKept` of `threads` is `Managed`, with stray reports, and `MapsAgree` and `PlayerCount`,
without, together with lemmas of their proofs, on two further instances of `AuthServer`.

## 7. What is not modelled

* In the auth server: the billing interface and the console listings (they read only), the
  security number check (a query whose answer is sent back), icons, the ciphers of
  passwords, the start of the program.
* In the library: ciphers, compression, JSON and Lua output of packets,
  `EncodingScrambled`, the crash handler, configuration and console, the conversion of
  columns and parameters of queries, `ServersManager`, pipes and socket options.
* `LogPacketSession`: its loop is the one of `PacketSession` but for the sizes.
* rzclientreconnect: the login of its client and the bookkeeping of parties.
* rzgame: inventory and equipment, positions, and packets that only answer; these parts
  are unfinished in the code (`equipItem` leaves the item at its old position as well, the
  loop of `PositionManager::update` never runs).
* The binary and text formats of files, the contents of pictures, the texts of chat.
* Restart of the gateway: it keeps nothing on disk, and its game servers reconnect
  as after a first start.
* Vendored libraries (`optional.hpp`, gtest and the like) and the test tools and
  benchmarks, which drive the servers and were read for how the servers are used.

## 8. Limits of the models

Handlers are atomic because they run on one thread.  In `MCData` the components do not
interact; where the code composes them (auth server, gateway, game server), so does
`ReconnectCluster`.  An account list of 256 accounts in one packet would not end the eight
bit loop of `onAccountList`; the gateway sends at most 128, so the models have no such
list.  `ClientReconnect` has two connections and one kind of data of each group;
`AuctionDiff` one auction in one category, since differences are computed per auction.

## 9. Further work

1. `FilterListeners` and `RecordLog` without recursion, and the proofs that ports and servers
   are inverse to each other, and that records are in the queue, on the way or in the file.
2. `ViewsAgree`, from what may be in the channels at each stage of a connection.
3. Two game servers behind the gateway: no account in game on both.
4. The filter proxy composed with the converter, as the program is used.
