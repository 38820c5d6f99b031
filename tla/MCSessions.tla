----------------------------- MODULE MCSessions -----------------------------
(***************************************************************************)
(* Components that have to get somewhere, each checked on its own in one   *)
(* run: a behaviour is one of the component that active names, whose       *)
(* variables are s1, s2, ...: the server socket with its sessions and bans *)
(* (SessionServer), the two sessions of a client that logs in              *)
(* (ClientSessions), the auction monitor's workers (AuctionMonitor), the   *)
(* auction parsers (AuctionPipeline, twice) and the gateway between a game *)
(* server and an auth server that restarts (ReconnectCluster).             *)
(***************************************************************************)
EXTENDS Naturals, TLC

CONSTANT Null

VARIABLES
  active,    \* the component of this behaviour
  s1, s2, s3, s4, s5, s6, s7, s8, s9, s10, s11, s12, s13, s14, s15, s16, s17    \* its variables

vars == <<active, s1, s2, s3, s4, s5, s6, s7, s8, s9, s10, s11, s12, s13, s14, s15, s16, s17>>

Step(name, max, parallel, block) ==
  [name |-> name, max |-> max, parallel |-> parallel, block |-> block]

\* The steps that matter for the order and for what is lost, with small queues.
AggregatorSteps ==
  <<Step("read", 9, 1, 1), Step("parse", 1, 1, 1), Step("filename", 1, 1, 1), Step("history", 2, 1, 2)>>
SqlWriterSteps ==
  <<Step("read", 9, 1, 2), Step("parse", 2, 1, 2), Step("insert", 2, 2, 1), Step("commit", 1, 1, 1)>>

Session == INSTANCE SessionServer WITH
  socket <- s1, openServer <- s2, timer <- s3, sessions <- s4,
  config <- s5, ban <- s6,
  Sessions <- {"s1", "s2"}, Ips <- {"a"}, Limits <- {<<0, 0>>, <<2, 1>>},
  BanFiles <- [empty |-> {}], Period <- 1, MaxPerDay <- 2

\* What the proofs about SessionServer assume of the constants.
ASSUME SizesAssumption == Session!Assumptions

Client == INSTANCE ClientSessions WITH
  method <- s1, delayTime <- s2, auth <- s3, game <- s4, replies <- s5,
  inGame <- s6, timers <- s7, http <- s8, faults <- s9,
  Methods <- {"des", "aes", "bora"}, Delays <- BOOLEAN, MaxFaults <- 3

Monitor == INSTANCE AuctionMonitor WITH
  pending <- s1, totalPages <- s2, category <- s3, clients <- s4,
  stopping <- s5, workers <- s6, accounts <- s7, answered <- s8,
  mixed <- s9, budget <- s10,
  Workers <- 1 .. 2, Categories <- 2, MaxPages <- 2, MaxFaults <- 2,
  MaxReloads <- 1

Aggregator == INSTANCE AuctionPipeline WITH
  dir <- s1, phase <- s2, due <- s3, last <- s4, queue <- s5, work <- s6,
  recorded <- s7, stored <- s8, saved <- s9, parsed <- s10, gone <- s11,
  faults <- s12,
  Tool <- "aggregator", Steps <- AggregatorSteps, Recheck <- 1,
  MaxFile <- 4, MaxFaults <- 2

SqlWriter == INSTANCE AuctionPipeline WITH
  dir <- s1, phase <- s2, due <- s3, last <- s4, queue <- s5, work <- s6,
  recorded <- s7, stored <- s8, saved <- s9, parsed <- s10, gone <- s11,
  faults <- s12,
  Tool <- "sqlwriter", Steps <- SqlWriterSteps, Recheck <- 0, MaxFile <- 3,
  MaxFaults <- 2

Cluster == INSTANCE ReconnectCluster WITH
  cd <- s1, byName <- s2, servers <- s3, gs <- s4, cs <- s5, sent <- s6,
  as <- s7, game <- s8, out <- s9, toGame <- s10, peer <- s11, up <- s12,
  down <- s13, players <- s14, kicks <- s15, losses <- s16,
  restarts <- s17,
  Names <- {"n1"}, Ids <- {"i1"}, DbAccounts <- {<<"n1", "i1">>},
  Clients <- {}, Sessions <- {"c1", "c2"}, Idx <- {"x1"}, Infos <- {"v1"},
  Guids <- {"a1"}, ZeroGuid <- "zero", Otps <- {0}, StrictKick <- TRUE,
  StrayReports <- TRUE, MaxList <- 2, CountMod <- 4, Games <- {"g1"},
  Slots <- {"a1"}, IdxOf <- [g1 |-> "x1"], InfoOf <- [g1 |-> "v1"],
  MaxCount <- 2, MaxPending <- 1, MaxChannel <- 1, MaxLosses <- 1,
  MaxRestarts <- 1, KickFailures <- FALSE

Kicks == INSTANCE ReconnectCluster WITH
  cd <- s1, byName <- s2, servers <- s3, gs <- s4, cs <- s5, sent <- s6,
  as <- s7, game <- s8, out <- s9, toGame <- s10, peer <- s11, up <- s12,
  down <- s13, players <- s14, kicks <- s15, losses <- s16,
  restarts <- s17,
  Names <- {"n1"}, Ids <- {"i1"}, DbAccounts <- {<<"n1", "i1">>},
  Clients <- {"k1"}, Sessions <- {"c1"}, Idx <- {"x1"}, Infos <- {"v1"},
  Guids <- {"a1"}, ZeroGuid <- "zero", Otps <- {0}, StrictKick <- TRUE,
  StrayReports <- TRUE, MaxList <- 2, CountMod <- 4, Games <- {"g1"},
  Slots <- {"a1"}, IdxOf <- [g1 |-> "x1"], InfoOf <- [g1 |-> "v1"],
  MaxCount <- 2, MaxPending <- 1, MaxChannel <- 1, MaxLosses <- 0,
  MaxRestarts <- 1, KickFailures <- TRUE

-----------------------------------------------------------------------------
\* The slots from the n-th on are not used by the component.
Free6 == s7 = Null /\ s8 = Null /\ s9 = Null /\ s10 = Null /\ s11 = Null /\ s12 = Null /\ s13 = Null /\ s14 = Null /\ s15 = Null /\ s16 = Null /\ s17 = Null
Rest6 == UNCHANGED <<active, s7, s8, s9, s10, s11, s12, s13, s14, s15, s16, s17>>
Free9 == s10 = Null /\ s11 = Null /\ s12 = Null /\ s13 = Null /\ s14 = Null /\ s15 = Null /\ s16 = Null /\ s17 = Null
Rest9 == UNCHANGED <<active, s10, s11, s12, s13, s14, s15, s16, s17>>
Free10 == s11 = Null /\ s12 = Null /\ s13 = Null /\ s14 = Null /\ s15 = Null /\ s16 = Null /\ s17 = Null
Rest10 == UNCHANGED <<active, s11, s12, s13, s14, s15, s16, s17>>
Free12 == s13 = Null /\ s14 = Null /\ s15 = Null /\ s16 = Null /\ s17 = Null
Rest12 == UNCHANGED <<active, s13, s14, s15, s16, s17>>
Free17 == TRUE
Rest17 == UNCHANGED <<active>>

Init ==
  \/ active = "session" /\ Session!Init /\ Free6
  \/ active = "client" /\ Client!Init /\ Free9
  \/ active = "monitor" /\ Monitor!Init /\ Free10
  \/ active = "aggregator" /\ Aggregator!Init /\ Free12
  \/ active = "sqlwriter" /\ SqlWriter!Init /\ Free12
  \/ active = "cluster" /\ Cluster!ClusterInit /\ Free17
  \/ active = "kicks" /\ Kicks!ClusterInit /\ Free17

Next ==
  \/ active = "session" /\ Session!Next /\ Rest6
  \/ active = "client" /\ Client!Next /\ Rest9
  \/ active = "monitor" /\ Monitor!Next /\ Rest10
  \/ active = "aggregator" /\ Aggregator!Next /\ Rest12
  \/ active = "sqlwriter" /\ SqlWriter!Next /\ Rest12
  \/ active = "cluster" /\ Cluster!ClusterNext /\ Rest17
  \/ active = "kicks" /\ Kicks!ClusterNext /\ Rest17

Spec == Init /\ [][Next]_vars

\* the fairness of the components' own specifications
Fairness ==
  /\ WF_vars(active = "cluster" /\ (\E s \in {"c1", "c2"} : Cluster!Connect("a1", s)) /\ Rest17)
  /\ WF_vars(active = "cluster" /\ (Cluster!GatewayLosesAuth("a1") /\ Cluster!NoLoss) /\ Rest17)
  /\ WF_vars(active = "cluster" /\ Cluster!GatewaySession("a1") /\ Rest17)
  /\ WF_vars(active = "cluster" /\ Cluster!GatewayReceives("a1") /\ Rest17)
  /\ \A s \in {"c1", "c2"} : WF_vars(active = "cluster" /\ (Cluster!AuthLosesGateway(s) /\ Cluster!NoLoss) /\ Rest17)
  /\ \A s \in {"c1", "c2"} : WF_vars(active = "cluster" /\ Cluster!AuthSessionEnds(s) /\ Rest17)
  /\ \A s \in {"c1", "c2"} : WF_vars(active = "cluster" /\ Cluster!AuthReceives(s) /\ Rest17)
  /\ WF_vars(active = "cluster" /\ Cluster!GameGone("g1") /\ Rest17)
  /\ \A s \in {"s1", "s2"} : WF_vars(active = "session" /\ Session!Callback(s) /\ Rest6)
  /\ WF_vars(active = "client" /\ Client!AuthProgress /\ Rest9)
  /\ WF_vars(active = "client" /\ (Client!AuthShutdown \/ Client!AuthUnconnected) /\ Rest9)
  /\ WF_vars(active = "client" /\ (\E ok \in BOOLEAN : Client!onGameStreamConnected(ok)) /\ Rest9)
  /\ WF_vars(active = "client" /\ Client!onGamePacketReceived /\ Rest9)
  /\ WF_vars(active = "client" /\ (Client!GameShutdown \/ Client!GameUnconnected) /\ Rest9)
  /\ \A w \in 1 .. 2 : WF_vars(active = "monitor" /\ Monitor!Step(w) /\ Rest10)
  /\ WF_vars(active = "monitor" /\ (\E found \in BOOLEAN : Monitor!onAccountReloadTimer(found)) /\ Rest10)
  /\ WF_vars(active = "aggregator" /\ Aggregator!start /\ Rest12)
  /\ WF_vars(active = "aggregator" /\ Aggregator!onScandir /\ Rest12)
  /\ WF_vars(active = "aggregator" /\ Aggregator!Work /\ Rest12)
  /\ WF_vars(active = "sqlwriter" /\ SqlWriter!start /\ Rest12)
  /\ WF_vars(active = "sqlwriter" /\ SqlWriter!onScandir /\ Rest12)
  /\ WF_vars(active = "sqlwriter" /\ SqlWriter!Work /\ Rest12)

FairSpec == Spec /\ Fairness

-----------------------------------------------------------------------------
\* The clients counted for an address are the ones it has, and none is idle for long.
CountsKept == active = "session" => Session!CountsKept

\* A client makes one login at a time, at the server it selected, and never stops trying.
LoginKept == active = "client" => Client!LoginKept

\* Every page that is due has one place, and somebody who will take it.
PagesKept == active = "monitor" => Monitor!PagesKept

\* The steps hand on every file, in order and within their room.
FilesKept == 
  /\ active = "aggregator" => Aggregator!FilesKept
  /\ active = "sqlwriter" => SqlWriter!FilesKept

\* A synchronized gateway is shown as ready.
SynchronizedMeansReady == 
  /\ active = "cluster" => Cluster!SynchronizedMeansReady
  /\ active = "kicks" => Kicks!SynchronizedMeansReady

\* A closing session is removed and deleted.
Removed == <>[](active = "session" => Session!NoneClosing)

\* A client without web login gets into the game when nothing more goes wrong.
GetsInGame == <>[](active = "client" => Client!AllPlay)

\* The monitor goes from one category to the next.
Advances == 
  \A c \in 0 .. 1 : (active = "monitor" /\ Monitor!Searched(c)) ~> (active = "monitor" /\ Monitor!Leaves(c))

\* A game server that stays with the gateway is shown as ready again.
Recovers == 
  (active = "cluster" /\ Cluster!Served("g1")) ~> (active = "cluster" /\ Cluster!BackOrGivenUp("g1"))

\* Every file is stored in the end, or was left behind, or the process has stopped
\* looking for it.
Processed == 
  <>[](/\ active = "aggregator" => Aggregator!Settled
       /\ active = "sqlwriter" => SqlWriter!Settled)

=============================================================================
