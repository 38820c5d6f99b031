----------------------------- MODULE MCThreads ------------------------------
(***************************************************************************)
(* Components that share state with threads, each checked on its own in one *)
(* run: a behaviour is one of the component that active names, whose       *)
(* variables are s1, s2, ...: the log writer (LogWriter), database         *)
(* queries (DbQueries), and the account registry of the auth server that   *)
(* sessions and game servers share, under reports of strangers and under   *)
(* crossed names (AuthServer twice).                                       *)
(***************************************************************************)
EXTENDS Naturals, TLC

CONSTANT Null

VARIABLES
  active,    \* the component of this behaviour
  s1, s2, s3, s4, s5, s6, s7, s8, s9, s10, s11    \* its variables

vars == <<active, s1, s2, s3, s4, s5, s6, s7, s8, s9, s10, s11>>

\* Jobs of a query that reads rows, one without inputs, and one of a batch.
DbQueryOf == [j1 |-> "read", j2 |-> "write", j3 |-> "read"]
DbModeOf == [read |-> "rows", write |-> "batch"]
DbInputsOf == [j1 |-> 2, j2 |-> 2, j3 |-> 0]

Log == INSTANCE LogWriter WITH
  stop <- s1, full <- s2, queue <- s3, pushed <- s4, accepted <- s5,
  written <- s6, loggers <- s7, writers <- s8, main <- s9, name <- s10,
  history <- s11,
  Writers <- 1 .. 2, Loggers <- {"l1"}, MaxQueue <- 1, MaxMessages <- 2,
  MaxNames <- 1

Db == INSTANCE DbQueries WITH
  jobs <- s1, listed <- s2, session <- s3, conns <- s4, closing <- s5,
  binding <- s6, stored <- s7,
  Jobs <- {"j1", "j2", "j3"}, Lambdas <- {"j3"}, QueryOf <- DbQueryOf,
  ModeOf <- DbModeOf, InputsOf <- DbInputsOf, Conns <- 1 .. 3, Bound <- 1,
  Threads <- 2, MaxBatchSize <- 1, ErrorLimit <- 0, ColumnCounts <- {TRUE}

Auth == INSTANCE AuthServer WITH
  cd <- s1, byName <- s2, servers <- s3, gs <- s4, cs <- s5, sent <- s6,
  Names <- {"n1"}, Ids <- {"i1"}, DbAccounts <- {<<"n1", "i1">>},
  Clients <- {"c1", "c2"}, Sessions <- {"s1"}, Idx <- {"g1"},
  Infos <- {"info"}, Guids <- {"guid1"}, ZeroGuid <- "zero", Otps <- {0},
  StrictKick <- FALSE, StrayReports <- TRUE, MaxList <- 1, CountMod <- 4

Registry == INSTANCE AuthServer WITH
  cd <- s1, byName <- s2, servers <- s3, gs <- s4, cs <- s5, sent <- s6,
  Names <- {"n1", "n2"}, Ids <- {"i1", "i2"},
  DbAccounts <- {<<"n1", "i1">>, <<"n2", "i1">>}, Clients <- {"c1"},
  Sessions <- {"s1"}, Idx <- {"g1"}, Infos <- {"info"}, Guids <- {"guid1"},
  ZeroGuid <- "zero", Otps <- {0}, StrictKick <- TRUE,
  StrayReports <- FALSE, MaxList <- 2, CountMod <- 4

Gateway == INSTANCE GsReconnect WITH
  as <- s1, game <- s2, out <- s3, toGame <- s4,
  Games <- {"g1"}, Slots <- {"a1"}, Names <- {"n1"},
  Accounts <- {<<"n1", "i1">>}, MaxCount <- 1, MaxAccounts <- 1,
  MaxPending <- 2

\* What the proofs about these three assume of the constants.
ASSUME SizesAssumption == Log!Assumptions /\ Db!Assumptions /\ Gateway!Assumptions

-----------------------------------------------------------------------------
\* The slots from the n-th on are not used by the component.
Free4 == s5 = Null /\ s6 = Null /\ s7 = Null /\ s8 = Null /\ s9 = Null /\ s10 = Null /\ s11 = Null
Rest4 == UNCHANGED <<active, s5, s6, s7, s8, s9, s10, s11>>
Free6 == s7 = Null /\ s8 = Null /\ s9 = Null /\ s10 = Null /\ s11 = Null
Rest6 == UNCHANGED <<active, s7, s8, s9, s10, s11>>
Free7 == s8 = Null /\ s9 = Null /\ s10 = Null /\ s11 = Null
Rest7 == UNCHANGED <<active, s8, s9, s10, s11>>
Free11 == TRUE
Rest11 == UNCHANGED <<active>>

Init ==
  \/ active = "log" /\ Log!Init /\ Free11
  \/ active = "db" /\ Db!Init /\ Free7
  \/ active = "stray" /\ Auth!Init /\ Free6
  \/ active = "accounts" /\ Registry!Init /\ Free6
  \/ active = "gateway" /\ Gateway!Init /\ Free4

Next ==
  \/ active = "log" /\ Log!Next /\ Rest11
  \/ active = "db" /\ Db!Next /\ Rest7
  \/ active = "stray" /\ Auth!Next /\ Rest6
  \/ active = "accounts" /\ Registry!Next /\ Rest6
  \/ active = "gateway" /\ Gateway!Next /\ Rest4

Spec == Init /\ [][Next]_vars

\* the fairness of the components' own specifications
Fairness ==
  /\ WF_vars(active = "gateway" /\ Gateway!onDisconnected("a1") /\ Rest4)
  /\ WF_vars(active = "gateway" /\ Gateway!onTimerReconnect("a1") /\ Rest4)
  /\ WF_vars(active = "gateway" /\ Gateway!DeleteAuthSession("a1") /\ Rest4)
  /\ SF_vars(active = "gateway" /\ Gateway!onConnected("a1") /\ Rest4)
  /\ SF_vars(active = "gateway" /\ (\E ok \in BOOLEAN : Gateway!onLoginResult("a1", ok)) /\ Rest4)
  /\ WF_vars(active = "gateway" /\ Gateway!GameClosed("g1") /\ Rest4)
  /\ \A s \in {"s1"} : WF_vars(active = "stray" /\ Auth!GameSessionClosed(s) /\ Rest6)
  /\ \A c \in {"c1", "c2"} : WF_vars(active = "stray" /\ Auth!ClientSessionClosed(c) /\ Rest6)
  /\ \A c \in {"c1", "c2"} : WF_vars(active = "stray" /\ Auth!clientAuthResult(c) /\ Rest6)
  /\ \A w \in 1 .. 2 : WF_vars(active = "log" /\ Log!Write(w) /\ Rest11)
  /\ WF_vars(active = "log" /\ Log!Join /\ Rest11)
  /\ \A j \in DOMAIN DbQueryOf : WF_vars(active = "db" /\ Db!Step(j) /\ Rest7)

FairSpec == Spec /\ Fairness

-----------------------------------------------------------------------------
\* Nothing is reordered, forgotten or used after its end.
QueueKept == active = "log" => Log!QueueKept

\* What is in the registry is managed by a live session or a registered server, its two
\* maps are one, and the players counted for a server are the ones in its game.
AccountsKept == 
  /\ active = "stray" => Auth!Managed
  /\ active = "stray" => Auth!QueriesAlive
  /\ active = "accounts" => Registry!MapsAgree
  /\ active = "accounts" => Registry!PlayerCount
  /\ active = "accounts" => Registry!AccountStates

\* Every message accepted by an enabled logger is written, and every queued job is
\* answered and freed; the destructor of a logger ends.
Finished == 
  /\ <>[](/\ active = "log" => Log!AllWritten
          /\ active = "db" => Db!AllAnswered)
  /\ (active = "log" /\ Log!Joining) ~> (active = "log" /\ Log!Destroyed)

\* No callback is made for a session that is gone.
NoLateCallback == [][active = "db" => Db!CallsInTime]_vars

\* A session whose socket is closing lets go of its account in the end.
ClosingReleases == 
  \A c \in {"c1", "c2"} :
    (active = "stray" /\ Auth!ClosingWith(c, "i1")) ~> (active = "stray" /\ Auth!Released(c, "i1"))

\* An auth session whose game server is gone ends, however often the connection to
\* the auth server fails in between.
GoesAway == 
  (active = "gateway" /\ Gateway!Orphan("a1")) ~> (active = "gateway" /\ ~Gateway!Exists("a1"))

=============================================================================
