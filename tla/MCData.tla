------------------------------- MODULE MCData -------------------------------
(***************************************************************************)
(* Components whose properties are about what they keep, each checked on its *)
(* own in one run: a behaviour is one of the component that active names,  *)
(* whose variables are s1, s2, ...: packet layouts and dispatch            *)
(* (PacketTable), framing (PacketFraming), the upload server (UploadServer), *)
(* the client reconnect tool (ClientReconnect, CreatureMoves), the         *)
(* differences of the auction dumps (AuctionDiff twice), the packet filter proxy (FilterLibrary, *)
(* FilterSessions, FilterListeners) with its filter modules (LuaFilter,    *)
(* LuaSessionFilter, VersionConverter, CombatLog), log records (RecordLog), *)
(* the chat gateway (ChatGateway twice) and the game server prototype (GameLobby *)
(* twice, GameReference, JobLevels).                                       *)
(***************************************************************************)
EXTENDS PacketLayout, Naturals, TLC

CONSTANT Null

VARIABLES
  active,    \* the component of this behaviour
  s1, s2, s3, s4, s5, s6, s7, s8, s9    \* its variables

vars == <<active, s1, s2, s3, s4, s5, s6, s7, s8, s9>>

\* One version of each range in which layouts differ, and one with the flag bits.
PacketVersions ==
  {EPIC_2, EPIC_4_1, EPIC_5_2, EPIC_6_1, EPIC_7_3, EPIC_8_1, EPIC_9_2,
   EPIC_9_4_AR, EPIC_9_6_3, EPIC_9_8_1, EPIC_9_5 + 2^24}

\* One version of each range in which the converter goes another way.
ConverterVersions ==
  {EPIC_3, EPIC_4_1, EPIC_7_1, EPIC_8_1, EPIC_8_1_1_RSA, EPIC_9_4, EPIC_9_5_2, EPIC_9_6_7}

\* Two jobs of a query that reads rows, one of a batch; one of them a lambda.
PoolQueryOf == [j1 |-> "read", j2 |-> "write", j3 |-> "read"]
PoolModeOf == [read |-> "rows", write |-> "batch"]
PoolInputsOf == [j1 |-> 2, j2 |-> 2, j3 |-> 1]

JobBonuses ==
  [fighter |-> [per |-> <<1, 3, 7>>, default |-> 100], cleric |-> [per |-> <<2, 0, 5>>, default |-> 0]]

Packets == INSTANCE PacketTable WITH
  pkt <- s1, session <- s2, version <- s3, contents <- s4, phase <- s5,
  message <- s6, result <- s7,
  Versions <- PacketVersions, Sizes <- {0, 300, 9000}

Framing == INSTANCE PacketFraming WITH
  sent <- s1, wire <- s2, recvBuffer <- s3, currentMessageSize <- s4,
  discardPacket <- s5, inLoop <- s6, got <- s7, connections <- s8,
  residue <- s9,
  Sizes <- {0, 4, 5, 7, 8}, HeaderSize <- 4, MaxPacketSize <- 7,
  MaxPackets <- 2, MaxConnections <- 2

Upload == INSTANCE UploadServer WITH
  servers <- s1, games <- s2, uploaders <- s3, pending <- s4,
  requests <- s5,
  Games <- {"g1", "g2"}, Uploaders <- {"u1", "u2"}, Names <- {"n1"},
  ClientIds <- {"k1"}, Owners <- {"o1"}, Otps <- {1, 2}, Polite <- TRUE,
  MaxRequests <- 3

Reconnect == INSTANCE ClientReconnect WITH
  conns <- s1, active <- s2, client <- s3, shown <- s4, crashed <- s5,
  Conns <- {"a", "b"}, Handles <- {1, 2}

Moves == INSTANCE CreatureMoves WITH
  now <- s1, x <- s2, move <- s3, goal <- s4,
  Places <- {0, 1, 3}, MaxTargets <- 2, MaxTime <- 5

Diff == INSTANCE AuctionDiff WITH
  now <- s1, house <- s2, monitor <- s3, parser <- s4, files <- s5,
  ends <- s6, shifted <- s7, unseen <- s8, budget <- s9,
  Uids <- {"u1"}, CategoryOf <- [u1 |-> 0], Categories <- 1,
  Duration <- [long |-> 4, medium |-> 2, short |-> 1], MaxTime <- 5,
  MaxFiles <- 1, FullDumps <- FALSE, MaxShifts <- 1, MaxRestarts <- 0

Dumps == INSTANCE AuctionDiff WITH
  now <- s1, house <- s2, monitor <- s3, parser <- s4, files <- s5,
  ends <- s6, shifted <- s7, unseen <- s8, budget <- s9,
  Uids <- {"u1"}, CategoryOf <- [u1 |-> 0], Categories <- 1,
  Duration <- [long |-> 4, medium |-> 2, short |-> 1], MaxTime <- 3,
  MaxFiles <- 1, FullDumps <- FALSE, MaxShifts <- 1, MaxRestarts <- 1

Library == INSTANCE FilterLibrary WITH
  main <- s1, used <- s2, writing <- s3, broken <- s4, memory <- s5,
  filters <- s6, uploads <- s7, crashes <- s8, worked <- s9,
  Proxies <- {"p1", "p2"}, MaxUploads <- 3, MaxCrashes <- 2

Filter == INSTANCE FilterSessions WITH
  client <- s1, server <- s2, pendingMessages <- s3, toServer <- s4,
  toClient <- s5, chain <- s6,
  Filters <- {0, 1, 2}, MaxPackets <- 3

Listeners == INSTANCE FilterListeners WITH
  gameClientServers <- s1, base <- s2, taken <- s3, told <- s4,
  lists <- s5,
  Addresses <- {"a", "b", "u"}, Indexes <- {0, 1}, Clients <- {"c1"},
  Ports <- 1 .. 4, GameBases <- {0, 1}, UploadBases <- {0, 3},
  MaxLists <- 3

Lua == INSTANCE LuaFilter WITH
  vm <- s1, script <- s2, timers <- s3, events <- s4,
  Conns <- {"c1", "c2"}, Handlers <- <<"h">>, Timers <- {"t1"},
  MaxEvents <- 4

Script == INSTANCE LuaSessionFilter WITH
  filter <- s1, disk <- s2, timers <- s3, strict <- s4, packet <- s5,
  made <- s6,
  Timers <- {"t1"}, MaxStates <- 2

Converter == INSTANCE VersionConverter WITH
  link <- s1, filter <- s2, client <- s3, server <- s4, reloads <- s5,
  passed <- s6,
  Versions <- ConverterVersions, MaxLogins <- 2, MaxReloads <- 1

Combat == INSTANCE CombatLog WITH
  world <- s1, filter <- s2, line <- s3, count <- s4,
  Handles <- {1, 2}, MaxEntities <- 2

RecordsTo == INSTANCE RecordLog WITH
  client <- s1, pendingMessages <- s2, sessions <- s3, files <- s4,
  hour <- s5, history <- s6,
  MaxPending <- 1, MaxRecords <- 2, MaxBuffer <- 2, MaxConns <- 2,
  MaxHours <- 2

Chat == INSTANCE ChatGateway WITH
  game <- s1, irc <- s2, replies <- s3, got <- s4, told <- s5, world <- s6,
  ghost <- s7,
  Users <- {"u1"}, Players <- {"p1", "p2"}, Handles <- {1},
  NamesServer <- TRUE, MaxSaid <- 2, MaxGames <- 2, MaxLinks <- 1

Irc == INSTANCE ChatGateway WITH
  game <- s1, irc <- s2, replies <- s3, got <- s4, told <- s5, world <- s6,
  ghost <- s7,
  Users <- {"u1"}, Players <- {"p1", "p2"}, Handles <- {1},
  NamesServer <- TRUE, MaxSaid <- 1, MaxGames <- 1, MaxLinks <- 2

Lobby == INSTANCE GameLobby WITH
  cs <- s1, auth <- s2, online <- s3, queries <- s4, db <- s5, made <- s6,
  handles <- s7, dead <- s8,
  Sessions <- {1}, Accounts <- {"a"}, Names <- {"x"}, MaxCharacters <- 1,
  MaxQueries <- 2, MaxMade <- 2, MaxLosses <- 1

Game == INSTANCE GameLobby WITH
  cs <- s1, auth <- s2, online <- s3, queries <- s4, db <- s5, made <- s6,
  handles <- s7, dead <- s8,
  Sessions <- {1, 2}, Accounts <- {"a", "b"}, Names <- {"x", "y"},
  MaxCharacters <- 1, MaxQueries <- 1, MaxMade <- 2, MaxLosses <- 0

Reference == INSTANCE GameReference WITH
  state <- s1, running <- s2, loaded <- s3, data <- s4, next <- s5,
  stored <- s6, tables <- s7, ghost <- s8,
  Tables <- {"words", "jobs"}, Kinds <- {"item"}, Rows <- {"r"},
  MaxSid <- 3, MaxLoads <- 2

JobBonus == INSTANCE JobLevels WITH
  prev <- s1, jobs <- s2, done <- s3, stat <- s4,
  Levels <- {0, 1, 19, 20, 21, 35, 39, 40, 59, 60, 62}, Length <- 20,
  Bonuses <- JobBonuses

Pool == INSTANCE DbQueries WITH
  jobs <- s1, listed <- s2, session <- s3, conns <- s4, closing <- s5,
  binding <- s6, stored <- s7,
  Jobs <- {"j1", "j2", "j3"}, Lambdas <- {"j3"}, QueryOf <- PoolQueryOf,
  ModeOf <- PoolModeOf, InputsOf <- PoolInputsOf, Conns <- 1 .. 3,
  Bound <- 1, Threads <- 2, MaxBatchSize <- 1, ErrorLimit <- 0,
  ColumnCounts <- {TRUE}

Gateway == INSTANCE GsReconnect WITH
  as <- s1, game <- s2, out <- s3, toGame <- s4,
  Games <- {"g1"}, Slots <- {"a1", "a2"}, Names <- {"n1"},
  Accounts <- {<<"n1", "i1">>}, MaxCount <- 1, MaxAccounts <- 1,
  MaxPending <- 2

\* What the proofs about these three assume of the constants.
ASSUME SizesAssumption == Upload!Assumptions /\ Gateway!Assumptions /\ Pool!Assumptions

-----------------------------------------------------------------------------
\* The slots from the n-th on are not used by the component.
Free4 == s5 = Null /\ s6 = Null /\ s7 = Null /\ s8 = Null /\ s9 = Null
Rest4 == UNCHANGED <<active, s5, s6, s7, s8, s9>>
Free5 == s6 = Null /\ s7 = Null /\ s8 = Null /\ s9 = Null
Rest5 == UNCHANGED <<active, s6, s7, s8, s9>>
Free6 == s7 = Null /\ s8 = Null /\ s9 = Null
Rest6 == UNCHANGED <<active, s7, s8, s9>>
Free7 == s8 = Null /\ s9 = Null
Rest7 == UNCHANGED <<active, s8, s9>>
Free8 == s9 = Null
Rest8 == UNCHANGED <<active, s9>>
Free9 == TRUE
Rest9 == UNCHANGED <<active>>

Init ==
  \/ active = "packets" /\ Packets!packetInit /\ Free7
  \/ active = "framing" /\ Framing!Init /\ Free9
  \/ active = "upload" /\ Upload!Init /\ Free5
  \/ active = "reconnect" /\ Reconnect!Init /\ Free5
  \/ active = "moves" /\ Moves!Init /\ Free4
  \/ active = "diff" /\ Diff!Init /\ Free9
  \/ active = "dumps" /\ Dumps!Init /\ Free9
  \/ active = "library" /\ Library!Init /\ Free9
  \/ active = "filter" /\ Filter!Init /\ Free6
  \/ active = "listeners" /\ Listeners!Init /\ Free5
  \/ active = "lua" /\ Lua!Init /\ Free4
  \/ active = "script" /\ Script!Init /\ Free6
  \/ active = "versions" /\ Converter!Init /\ Free6
  \/ active = "combat" /\ Combat!Init /\ Free4
  \/ active = "records" /\ RecordsTo!Init /\ Free6
  \/ active = "chat" /\ Chat!Init /\ Free7
  \/ active = "irc" /\ Irc!Init /\ Free7
  \/ active = "lobby" /\ Lobby!Init /\ Free8
  \/ active = "game" /\ Game!Init /\ Free8
  \/ active = "reference" /\ Reference!Init /\ Free8
  \/ active = "levels" /\ JobBonus!Init /\ Free4
  \/ active = "pool" /\ Pool!Init /\ Free7
  \/ active = "gateway" /\ Gateway!Init /\ Free4

Next ==
  \/ active = "packets" /\ Packets!packetNext /\ Rest7
  \/ active = "framing" /\ Framing!Next /\ Rest9
  \/ active = "upload" /\ Upload!Next /\ Rest5
  \/ active = "reconnect" /\ Reconnect!Next /\ Rest5
  \/ active = "moves" /\ Moves!Next /\ Rest4
  \/ active = "diff" /\ Diff!Next /\ Rest9
  \/ active = "dumps" /\ Dumps!Next /\ Rest9
  \/ active = "library" /\ Library!Next /\ Rest9
  \/ active = "filter" /\ Filter!Next /\ Rest6
  \/ active = "listeners" /\ Listeners!Next /\ Rest5
  \/ active = "lua" /\ Lua!Next /\ Rest4
  \/ active = "script" /\ Script!Next /\ Rest6
  \/ active = "versions" /\ Converter!Next /\ Rest6
  \/ active = "combat" /\ Combat!Next /\ Rest4
  \/ active = "records" /\ RecordsTo!Next /\ Rest6
  \/ active = "chat" /\ Chat!Next /\ Rest7
  \/ active = "irc" /\ Irc!Next /\ Rest7
  \/ active = "lobby" /\ Lobby!Next /\ Rest8
  \/ active = "game" /\ Game!Next /\ Rest8
  \/ active = "reference" /\ Reference!Next /\ Rest8
  \/ active = "levels" /\ JobBonus!Next /\ Rest4
  \/ active = "pool" /\ Pool!Next /\ Rest7
  \/ active = "gateway" /\ Gateway!Next /\ Rest4

Spec == Init /\ [][Next]_vars

-----------------------------------------------------------------------------
\* A game server session and its auth session lead to each other.
Linked == active = "gateway" => Gateway!Linked

\* No packet overtakes one that was deferred.
NothingOvertaken == active = "gateway" => Gateway!NothingOvertaken

\* An auth session without a game server has its logout on the way.
LogoutOnItsWay == active = "gateway" => Gateway!LogoutOnItsWay

\* Every packet, in every epic, is recognised and read back as it was written.
Understood == active = "packets" => Packets!Understood

\* Packets are dispatched whole, once, in order, and all of them.
Framed == active = "framing" => Framing!Framed

\* An upload request has one owner, and one that waits for it a live game server.
RequestsKept == active = "upload" => Upload!RequestsKept

\* The client shows what the active server has, no less and no more, and a moving
\* creature on the first leg of its way, or at the end of the way after that leg.
ShowsActive == 
  /\ active = "reconnect" => Reconnect!ShowsActive
  /\ active = "moves" => Moves!OnTheWay

\* The parser knows the auctions the monitor knows, forgets them in time, and
\* estimates an end that contains the real one.
InStep == 
  /\ active = "diff" => Diff!InStep
  /\ active = "diff" => Diff!EndInside
  /\ active = "dumps" => Dumps!InStep
  /\ active = "dumps" => Dumps!EndInside

\* The proxy has a filter that lives, hands every packet to it and to the other
\* side, and leads a client to the server it selected.
FilterKept == 
  /\ active = "library" => Library!LibraryKept
  /\ active = "filter" => Filter!SessionsKept
  /\ active = "listeners" => Listeners!ListenersKept

\* What a script was given leads to what it is about, and is called while it lives.
ScriptsKept == 
  /\ active = "lua" => Lua!RegistryKept
  /\ active = "script" => Script!SessionScriptKept

\* What a filter makes of a packet says what the packet said.
Converted == 
  /\ active = "versions" => Converter!LoginBridged
  /\ active = "combat" => Combat!CombatTold

\* Log records that were accepted are written once, in order, into the file of their hour.
RecordsKept == active = "records" => RecordsTo!RecordsKept

\* Chat that was accepted is said once and in order, under the name of who says it.
ChatKept == 
  /\ active = "chat" => Chat!ChatKept
  /\ active = "irc" => Irc!ChatKept

\* The game server knows whose sessions and characters are in its game, starts when every
\* loader has answered, with what could be read, and counts every level of a job.
GameKept == 
  /\ active = "lobby" => Lobby!LobbyKept
  /\ active = "game" => Game!LobbyKept
  /\ active = "reference" => Reference!ReferenceKept
  /\ active = "levels" => JobBonus!BonusOfEveryLevel

\* A connection is in the hands of one job, their number is bounded, and what a job
\* stores is stored once, together (but for a batch), and never of a job that failed.
PoolKept == 
  /\ active = "pool" => Pool!PoolKept
  /\ active = "pool" => Pool!StoredTogether

=============================================================================
