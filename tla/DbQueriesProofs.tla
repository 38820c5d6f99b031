-------------------------- MODULE DbQueriesProofs --------------------------
(***************************************************************************)
(* Proofs about DbQueries, for any number of jobs, worker threads and      *)
(* connections, as long as the columns of a result can be counted          *)
(* (ColumnCounts): the pool of connections is shared without being mixed   *)
(* up and is bounded, what a job stores is stored once, together but for   *)
(* batches, and never of a job that failed, and no callback is made for a  *)
(* session that is gone.                                                   *)
(***************************************************************************)
EXTENDS DbQueries, FiniteSetTheorems, TLAPS

(* The inductive invariant                                                  *)

JobStates ==
  [st : {"none", "queued", "aborted", "started", "process", "connect", "run", "done", "gone"},
   conn : Conns \cup {Null}, left : Nat, foreign : BOOLEAN, ok : BOOLEAN, canceled : BOOLEAN, told : BOOLEAN]

ConnStates ==
  [st : {"none", "open", "deleted"}, used : BOOLEAN, last : (Queries \X Nat) \cup {Null},
   attrs : Queries \cup {Null}, mixed : BOOLEAN, tx : [Jobs -> Nat]]

Bindings == [errors : Nat, enabled : BOOLEAN]

TypeOK ==
  /\ jobs \in [Jobs -> JobStates]
  /\ listed \subseteq Jobs /\ session \in BOOLEAN
  /\ conns \in [Conns -> ConnStates] /\ closing \subseteq Conns
  /\ binding \in [Queries -> Bindings]
  /\ stored \in [Jobs -> Nat]

\* How far a job is.
Progress ==
  \A j \in Jobs :
    /\ jobs[j].left <= InputsOf[j]
    /\ jobs[j].st \in {"queued", "started", "process", "connect"} => jobs[j].left = InputsOf[j]
    /\ jobs[j].st \in {"connect", "run"} => InputsOf[j] > 0
    /\ jobs[j].st = "run" => jobs[j].conn \in Conns

\* Every connection in use, but for those the command closes, is in the use of
\* one job.
Users ==
  /\ \A j \in Jobs : jobs[j].st = "run" =>
       /\ conns[jobs[j].conn].st = "open" /\ conns[jobs[j].conn].used
       /\ jobs[j].conn \notin closing
  /\ \A j, k \in Jobs : jobs[j].st = "run" /\ jobs[k].st = "run" /\ jobs[j].conn = jobs[k].conn
                        => j = k
  /\ \A c \in Opened \ closing : conns[c].used =>
       \E j \in Jobs : jobs[j].st = "run" /\ jobs[j].conn = c
  /\ \A c \in closing : conns[c].st = "open" /\ conns[c].used

\* How many rows of job k, in state n, its transaction may hold: those it has
\* executed, and less of a batch, whose rejected rows are left out.
Held(n, k) ==
  IF n.foreign THEN Nat
  ELSE IF ModeOf[QueryOf[k]] = "batch" THEN 0 .. (InputsOf[k] - n.left)
  ELSE {InputsOf[k] - n.left}

\* A transaction holds what the job that uses the connection has executed so far.
Transactions ==
  \A c \in Conns, k \in Jobs :
    conns[c].tx[k] \in IF jobs[k].st = "run" /\ jobs[k].conn = c THEN Held(jobs[k], k) ELSE {0}

Results ==
  \A j \in Jobs :
    /\ stored[j] > 0 => jobs[j].st \in {"done", "gone"} /\ jobs[j].ok
    /\ jobs[j].foreign \/ stored[j] \in Together(j)

\* The batch attributes of a statement belong to the query that was executed last.
Attributes ==
  /\ \A c \in Conns : conns[c].st = "none" =>
       conns[c].last = Null /\ conns[c].attrs = Null
  /\ \A c \in Idle :
       /\ conns[c].last # Null
       /\ conns[c].attrs \in {Null, conns[c].last[1]} \/ conns[c].mixed
  /\ \A j \in Jobs : jobs[j].st = "run" =>
       LET c == jobs[j].conn
       IN  /\ conns[c].attrs \in {Null, QueryOf[j]} \/ conns[c].mixed
           /\ jobs[j].left < InputsOf[j] => conns[c].last # Null /\ conns[c].last[1] = QueryOf[j]

\* The session lists the jobs that are under way, and has canceled them when it
\* is gone.
Listing ==
  /\ session => \A j \in listed \ Lambdas : jobs[j].st # "gone"
  /\ \A j \in Jobs : jobs[j].st \notin {"none", "gone"} =>
       j \in listed /\ (session \/ jobs[j].canceled)

Working == {j \in Jobs : OnThread(j)}
Connecting == {j \in Jobs : jobs[j].st = "connect"}

\* What is open and what is about to be.
Pool ==
  /\ Cardinality(Working) <= Threads
  /\ Cardinality(Opened \ closing) + Cardinality(Connecting) <= Bound - 1 + Threads

Inv ==
  /\ TypeOK /\ Progress /\ Users /\ Transactions /\ Results /\ Attributes /\ Listing /\ Pool

-----------------------------------------------------------------------------
(* Counting                                                                 *)

LEMMA FiniteSets ==
  ASSUME Assumptions
  PROVE  \A S : S \subseteq Jobs \/ S \subseteq Conns =>
           IsFiniteSet(S) /\ Cardinality(S) \in Nat
BY FS_Subset, FS_CardinalityType DEF Assumptions

LEMMA Smaller ==
  ASSUME Assumptions, NEW S, NEW T, S \subseteq T, T \subseteq Jobs \/ T \subseteq Conns
  PROVE  Cardinality(S) <= Cardinality(T)
BY FiniteSets, FS_Subset

LEMMA Subsets ==
  /\ Working \subseteq Jobs /\ Connecting \subseteq Working
  /\ Opened \subseteq Conns /\ Idle \subseteq Opened
BY DEF Working, Connecting, OnThread, Opened, Idle

\* Steps after which no more is running, open or about to be open.
LEMMA PoolShrinks ==
  ASSUME Assumptions, Pool, Working' \subseteq Working, Connecting' \subseteq Connecting,
         (Opened \ closing)' \subseteq Opened \ closing
  PROVE  Pool'
<1>1. /\ Cardinality(Working') <= Cardinality(Working)
      /\ Cardinality(Connecting') <= Cardinality(Connecting)
      /\ Cardinality((Opened \ closing)') <= Cardinality(Opened \ closing)
  BY Subsets, Smaller
<1>2. /\ Cardinality(Working) \in Nat /\ Cardinality(Connecting) \in Nat
      /\ Cardinality(Opened \ closing) \in Nat
      /\ Cardinality(Working') \in Nat /\ Cardinality(Connecting') \in Nat
      /\ Cardinality((Opened \ closing)') \in Nat
  <2>1. /\ Working \subseteq Jobs /\ Connecting \subseteq Jobs /\ Opened \ closing \subseteq Conns
        /\ Working' \subseteq Jobs /\ Connecting' \subseteq Jobs
        /\ (Opened \ closing)' \subseteq Conns
    BY Subsets
  <2> QED  BY <2>1, FiniteSets
<1>3. Bound \in Nat /\ Threads \in Nat
  BY DEF Assumptions
<1>4. /\ Cardinality(Working') <= Threads
      /\ Cardinality((Opened \ closing)') + Cardinality(Connecting') <= Bound - 1 + Threads
  BY <1>1, <1>2, <1>3 DEF Pool
<1> QED  BY <1>4 DEF Pool

-----------------------------------------------------------------------------
(* Steps of the event loop and of jobs that have no connection              *)

\* Nothing happens to a job that is running, nor to the connections.
LEMMA NoneRunning ==
  ASSUME Inv, UNCHANGED <<conns, closing>>,
         \A j \in Jobs : jobs'[j].st = "run" <=> jobs[j].st = "run",
         \A j \in Jobs : jobs[j].st = "run" =>
                           /\ jobs'[j].conn = jobs[j].conn /\ jobs'[j].left = jobs[j].left
                           /\ jobs'[j].foreign = jobs[j].foreign
  PROVE  Users' /\ Transactions' /\ Attributes' /\ (Opened \ closing)' = Opened \ closing
<1>1. Opened' = Opened /\ Idle' = Idle
  BY DEF Opened, Idle
<1>2. Users'
  BY <1>1 DEF Inv, Users
<1>3. Transactions'
  BY DEF Inv, Transactions, Held
<1>4. Attributes'
  BY <1>1 DEF Inv, Attributes
<1> QED  BY <1>1, <1>2, <1>3, <1>4

\* Job j becomes n.
LEMMA OneJob ==
  ASSUME TypeOK, NEW j \in Jobs, NEW n \in JobStates, jobs' = [jobs EXCEPT ![j] = n]
  PROVE  /\ jobs' \in [Jobs -> JobStates] /\ jobs'[j] = n
         /\ \A k \in Jobs \ {j} : jobs'[k] = jobs[k]
BY DEF TypeOK

\* Nothing is stored of a job that is not done.
LEMMA NothingStored ==
  ASSUME Assumptions, Inv, NEW j \in Jobs
  PROVE  0 \in Together(j) /\ (jobs[j].st \notin {"done", "gone"} => stored[j] = 0)
<1>1. InputsOf[j] \in Nat /\ stored[j] \in Nat
  BY DEF Assumptions, Inv, TypeOK
<1>2. 0 \in Together(j)
  BY <1>1 DEF Together
<1>3. jobs[j].st \notin {"done", "gone"} => stored[j] = 0
  BY <1>1 DEF Inv, Results
<1> QED  BY <1>2, <1>3

\* What a job without a connection can do: its state changes, and it does not
\* look for a connection.
LEMMA JobStep ==
  ASSUME Assumptions, Inv, NEW j \in Jobs, NEW n \in JobStates,
         jobs' = [jobs EXCEPT ![j] = n],
         UNCHANGED <<conns, closing, stored>>, binding' \in [Queries -> Bindings],
         jobs[j].st # "run", n.st \notin {"run", "connect"},
         n.left <= InputsOf[j], n.st \in {"queued", "started", "process"} => n.left = InputsOf[j],
         n.st \in {"started", "process"} => j \in Working,
         \/ jobs[j].st \notin {"done", "gone"}
         \/ n.st = "gone" /\ n.ok = jobs[j].ok /\ n.foreign = jobs[j].foreign
  PROVE  /\ Progress' /\ Users' /\ Transactions' /\ Attributes' /\ Results' /\ Pool'
         /\ jobs' \in [Jobs -> JobStates] /\ jobs'[j] = n
         /\ \A k \in Jobs \ {j} : jobs'[k] = jobs[k]
<1>1. /\ jobs' \in [Jobs -> JobStates] /\ jobs'[j] = n
      /\ \A k \in Jobs \ {j} : jobs'[k] = jobs[k]
  BY OneJob DEF Inv
<1>2. Users' /\ Transactions' /\ Attributes' /\ (Opened \ closing)' = Opened \ closing
  BY <1>1, NoneRunning
<1>3. Progress'
  BY <1>1 DEF Inv, Progress
<1>4. Results'
  BY <1>1, NothingStored DEF Inv, Results
<1>5. Pool'
  <2>1. Working' \subseteq Working /\ Connecting' \subseteq Connecting
    BY <1>1 DEF Working, Connecting, OnThread
  <2> QED  BY <1>2, <2>1, PoolShrinks DEF Inv
<1> QED  BY <1>1, <1>2, <1>3, <1>4, <1>5

LEMMA ExecuteStep ==
  ASSUME Assumptions, Inv, NEW j \in Jobs, execute(j)
  PROVE  Inv'
<1> DEFINE n == [jobs[j] EXCEPT !.st = "queued", !.left = InputsOf[j]]
<1>1. /\ session /\ jobs[j].st = "none" /\ jobs' = [jobs EXCEPT ![j] = n]
      /\ listed' = listed \cup {j}
      /\ UNCHANGED <<session, conns, closing, binding, stored>>
  BY DEF execute
<1>2. jobs[j] \in JobStates /\ InputsOf[j] \in Nat
  BY DEF Inv, TypeOK, Assumptions
<1>3. n \in JobStates /\ n.st = "queued" /\ n.left = InputsOf[j]
  BY <1>2 DEF JobStates
<1> HIDE DEF n
<1>4. n.left <= InputsOf[j] /\ binding' \in [Queries -> Bindings]
  BY <1>1, <1>2, <1>3 DEF Inv, TypeOK
<1>5. /\ Progress' /\ Users' /\ Transactions' /\ Attributes' /\ Results' /\ Pool'
      /\ jobs' \in [Jobs -> JobStates] /\ jobs'[j] = n
      /\ \A k \in Jobs \ {j} : jobs'[k] = jobs[k]
  BY <1>1, <1>2, <1>3, <1>4, JobStep
<1>6. TypeOK'
  BY <1>1, <1>5 DEF Inv, TypeOK
<1>7. Listing'
  BY <1>1, <1>3, <1>5 DEF Inv, Listing
<1> QED  BY <1>5, <1>6, <1>7 DEF Inv

LEMMA DoneStep ==
  ASSUME Assumptions, Inv, NEW j \in Jobs, onDone(j)
  PROVE  Inv'
<1> DEFINE n == [jobs[j] EXCEPT !.st = "gone", !.told = ~jobs[j].canceled]
<1>1. /\ jobs[j].st \in {"aborted", "done"} /\ jobs' = [jobs EXCEPT ![j] = n]
      /\ listed' = IF j \in Lambdas \/ ~session THEN listed ELSE listed \ {j}
      /\ UNCHANGED <<session, conns, closing, binding, stored>>
  BY DEF onDone
<1>2. /\ n \in JobStates /\ n.st = "gone" /\ n.left = jobs[j].left
      /\ n.ok = jobs[j].ok /\ n.foreign = jobs[j].foreign
  BY DEF Inv, TypeOK, JobStates
<1> HIDE DEF n
<1>3. jobs[j].left <= InputsOf[j] /\ binding' \in [Queries -> Bindings]
  BY <1>1 DEF Inv, TypeOK, Progress
<1>4. /\ Progress' /\ Users' /\ Transactions' /\ Attributes' /\ Results' /\ Pool'
      /\ jobs' \in [Jobs -> JobStates] /\ jobs'[j] = n
      /\ \A k \in Jobs \ {j} : jobs'[k] = jobs[k]
  BY <1>1, <1>2, <1>3, JobStep
<1>5. TypeOK'
  BY <1>1, <1>4 DEF Inv, TypeOK
<1>6. Listing'
  BY <1>1, <1>2, <1>4 DEF Inv, Listing
<1> QED  BY <1>4, <1>5, <1>6 DEF Inv

LEMMA SessionGoneStep ==
  ASSUME Assumptions, Inv, SessionGone
  PROVE  Inv'
<1>1. /\ session /\ session' = FALSE
      /\ jobs' = [j \in Jobs |->
           IF j \notin listed THEN jobs[j]
           ELSE [jobs[j] EXCEPT !.canceled = TRUE, !.st = IF @ = "queued" THEN "aborted" ELSE @]]
      /\ UNCHANGED <<listed, conns, closing, binding, stored>>
  BY DEF SessionGone
<1>2. ASSUME NEW j \in Jobs
      PROVE  /\ jobs'[j] \in JobStates
             /\ jobs'[j].conn = jobs[j].conn /\ jobs'[j].left = jobs[j].left
             /\ jobs'[j].ok = jobs[j].ok /\ jobs'[j].foreign = jobs[j].foreign
             /\ jobs'[j].st = jobs[j].st \/ (jobs[j].st = "queued" /\ jobs'[j].st = "aborted")
             /\ j \in listed => jobs'[j].canceled
  <2>1. jobs[j] \in JobStates
    BY DEF Inv, TypeOK
  <2> DEFINE n == [jobs[j] EXCEPT !.canceled = TRUE, !.st = IF @ = "queued" THEN "aborted" ELSE @]
  <2>2. /\ n \in JobStates /\ n.conn = jobs[j].conn /\ n.left = jobs[j].left
        /\ n.ok = jobs[j].ok /\ n.foreign = jobs[j].foreign /\ n.canceled
        /\ n.st = IF jobs[j].st = "queued" THEN "aborted" ELSE jobs[j].st
    BY <2>1 DEF JobStates
  <2>3. jobs'[j] = IF j \notin listed THEN jobs[j] ELSE n
    BY <1>1
  <2> HIDE DEF n
  <2> QED  BY <2>1, <2>2, <2>3
<1>3. Users' /\ Transactions' /\ Attributes' /\ (Opened \ closing)' = Opened \ closing
  BY <1>1, <1>2, NoneRunning
<1>4. TypeOK'
  <2>1. jobs' \in [Jobs -> JobStates]
    BY <1>1, <1>2
  <2> QED  BY <1>1, <2>1 DEF Inv, TypeOK
<1>5. Progress'
  <2> SUFFICES ASSUME NEW j \in Jobs
               PROVE  /\ jobs'[j].left <= InputsOf[j]
                      /\ jobs'[j].st \in {"queued", "started", "process", "connect"} => jobs'[j].left = InputsOf[j]
                      /\ jobs'[j].st \in {"connect", "run"} => InputsOf[j] > 0
                      /\ jobs'[j].st = "run" => jobs'[j].conn \in Conns
    BY DEF Progress
  <2> QED  BY <1>2 DEF Inv, Progress
<1>6. Results'
  BY <1>1, <1>2 DEF Inv, Results
<1>7. Listing'
  BY <1>1, <1>2 DEF Inv, Listing
<1>8. Pool'
  <2>1. Working' \subseteq Working /\ Connecting' \subseteq Connecting
    BY <1>2 DEF Working, Connecting, OnThread
  <2> QED  BY <1>3, <2>1, PoolShrinks DEF Inv
<1> QED  BY <1>3, <1>4, <1>5, <1>6, <1>7, <1>8 DEF Inv

-----------------------------------------------------------------------------
(* Steps of a worker thread                                                 *)

\* A job that a thread works on stays listed.
LEMMA StaysListed ==
  ASSUME Inv, NEW j \in Jobs, UNCHANGED <<listed, session>>,
         \A k \in Jobs \ {j} : jobs'[k] = jobs[k],
         jobs[j].st \notin {"none", "gone"}, jobs'[j].st # "gone",
         jobs'[j].canceled = jobs[j].canceled
  PROVE  Listing'
<1>1. j \in listed /\ (session \/ jobs[j].canceled) /\ listed \subseteq Jobs
  BY DEF Inv, Listing, TypeOK
<1>2. session => \A k \in listed' \ Lambdas : jobs'[k].st # "gone"
  BY <1>1 DEF Inv, Listing
<1>3. ASSUME NEW k \in Jobs, jobs'[k].st \notin {"none", "gone"}
      PROVE  k \in listed' /\ (session' \/ jobs'[k].canceled)
  <2>1. CASE k = j
    BY <1>1, <2>1
  <2>2. CASE k # j
    <3>1. jobs'[k] = jobs[k]
      BY <2>2
    <3> QED  BY <1>3, <3>1 DEF Inv, Listing
  <2> QED  BY <2>1, <2>2
<1> QED  BY <1>2, <1>3 DEF Listing

\* Job j is done.
LEMMA DoneJob ==
  ASSUME TypeOK, NEW j \in Jobs, NEW ok \in BOOLEAN
  PROVE  \E n \in JobStates :
           /\ Done(j, ok) = [jobs EXCEPT ![j] = n]
           /\ n.st = "done" /\ n.ok = ok /\ n.left = jobs[j].left
           /\ n.canceled = jobs[j].canceled /\ n.foreign = jobs[j].foreign
<1> DEFINE n == [jobs[j] EXCEPT !.st = "done", !.ok = ok, !.conn = Null]
<1>1. jobs[j] \in JobStates
  BY DEF TypeOK
<1>2. /\ n \in JobStates /\ n.st = "done" /\ n.ok = ok /\ n.left = jobs[j].left
      /\ n.canceled = jobs[j].canceled /\ n.foreign = jobs[j].foreign
  BY <1>1 DEF JobStates
<1>3. Done(j, ok) = [jobs EXCEPT ![j] = n]
  BY DEF Done, TypeOK
<1> HIDE DEF n
<1> QED  BY <1>2, <1>3

LEMMA StartWorkStep ==
  ASSUME Assumptions, Inv, NEW j \in Jobs, StartWork(j)
  PROVE  Inv'
<1> DEFINE n == [jobs[j] EXCEPT !.st = "started"]
<1>1. /\ jobs[j].st = "queued" /\ Cardinality(Working) < Threads
      /\ jobs' = [jobs EXCEPT ![j] = n]
      /\ UNCHANGED <<listed, session, conns, closing, binding, stored>>
  BY DEF StartWork, Working
<1>2. jobs[j] \in JobStates
  BY DEF Inv, TypeOK
<1>3. /\ n \in JobStates /\ n.st = "started" /\ n.left = jobs[j].left
      /\ n.canceled = jobs[j].canceled
  BY <1>2 DEF JobStates
<1> HIDE DEF n
<1>4. /\ jobs' \in [Jobs -> JobStates] /\ jobs'[j] = n
      /\ \A k \in Jobs \ {j} : jobs'[k] = jobs[k]
  BY <1>1, <1>3, OneJob DEF Inv
<1>5. Users' /\ Transactions' /\ Attributes' /\ (Opened \ closing)' = Opened \ closing
  BY <1>1, <1>3, <1>4, NoneRunning
<1>6. TypeOK'
  BY <1>1, <1>4 DEF Inv, TypeOK
<1>7. Progress' /\ Results'
  BY <1>1, <1>3, <1>4, NothingStored DEF Inv, Progress, Results
<1>8. Listing'
  BY <1>1, <1>3, <1>4, StaysListed
<1>9. Pool'
  <2>1. Working' = Working \cup {j} /\ Connecting' = Connecting
    BY <1>1, <1>3, <1>4 DEF Working, Connecting, OnThread
  <2>2. IsFiniteSet(Working) /\ Cardinality(Working) \in Nat /\ Threads \in Nat
    BY Subsets, FiniteSets DEF Assumptions
  <2>3. Cardinality(Working') <= Threads
    BY <1>1, <2>1, <2>2, FS_AddElement
  <2> QED  BY <1>5, <2>1, <2>3 DEF Inv, Pool
<1> QED  BY <1>5, <1>6, <1>7, <1>8, <1>9 DEF Inv

LEMMA onProcessStep ==
  ASSUME Assumptions, Inv, NEW j \in Jobs, NEW go \in BOOLEAN, onProcess(j, go)
  PROVE  Inv'
<1>1. /\ jobs[j].st = "started"
      /\ jobs' = IF jobs[j].canceled \/ ~go THEN Done(j, FALSE)
                 ELSE [jobs EXCEPT ![j].st = "process"]
      /\ UNCHANGED <<listed, session, conns, closing, binding, stored>>
  BY DEF onProcess
<1>2. jobs[j] \in JobStates /\ InputsOf[j] \in Nat /\ jobs[j].left = InputsOf[j]
  BY <1>1 DEF Inv, TypeOK, Progress, Assumptions
<1>3. PICK n \in JobStates :
        /\ jobs' = [jobs EXCEPT ![j] = n] /\ n.st \in {"done", "process"}
        /\ n.left = jobs[j].left /\ n.canceled = jobs[j].canceled
  <2>1. CASE jobs[j].canceled \/ ~go
    BY <1>1, <2>1, DoneJob DEF Inv
  <2>2. CASE ~(jobs[j].canceled \/ ~go)
    <3> DEFINE n == [jobs[j] EXCEPT !.st = "process"]
    <3>1. /\ n \in JobStates /\ n.st = "process" /\ n.left = jobs[j].left
          /\ n.canceled = jobs[j].canceled
      BY <1>2 DEF JobStates
    <3>2. jobs' = [jobs EXCEPT ![j] = n]
      BY <1>1, <2>2
    <3> HIDE DEF n
    <3> QED  BY <3>1, <3>2
  <2> QED  BY <2>1, <2>2
<1>4. n.left <= InputsOf[j] /\ j \in Working /\ binding' \in [Queries -> Bindings]
  BY <1>1, <1>2, <1>3 DEF Working, OnThread, Inv, TypeOK
<1>5. /\ Progress' /\ Users' /\ Transactions' /\ Attributes' /\ Results' /\ Pool'
      /\ jobs' \in [Jobs -> JobStates] /\ jobs'[j] = n
      /\ \A k \in Jobs \ {j} : jobs'[k] = jobs[k]
  BY <1>1, <1>2, <1>3, <1>4, JobStep
<1>6. TypeOK'
  BY <1>1, <1>5 DEF Inv, TypeOK
<1>7. Listing'
  BY <1>1, <1>3, <1>5, StaysListed
<1> QED  BY <1>5, <1>6, <1>7 DEF Inv

-----------------------------------------------------------------------------
(* A job takes a connection                                                 *)

\* Nobody uses an idle connection, and its transaction is empty.
LEMMA IdleFree ==
  ASSUME Inv, NEW c \in Conns, c \in Idle \/ conns[c].st = "none"
  PROVE  /\ c \notin closing /\ \A k \in Jobs : ~(jobs[k].st = "run" /\ jobs[k].conn = c)
         /\ \A k \in Jobs : conns[c].tx[k] = 0
<1>1. c \notin closing /\ \A k \in Jobs : ~(jobs[k].st = "run" /\ jobs[k].conn = c)
  BY DEF Inv, Users, Idle, Opened
<1> QED  BY <1>1 DEF Inv, Transactions

\* The statement's batch attributes are those of the job, or the connection is
\* marked as mixed.
LEMMA TakenConn ==
  ASSUME Assumptions, Inv, NEW j \in Jobs, NEW c \in Conns,
         \/ c \in Idle /\ (conns[c].last = Text(j) \/ Exhausted)
         \/ conns[c].st = "none"
  PROVE  \E n \in ConnStates :
           /\ Taken(c, j) = [conns EXCEPT ![c] = n]
           /\ n.st = "open" /\ n.used /\ n.tx = conns[c].tx
           /\ n.attrs \in {Null, QueryOf[j]} \/ n.mixed
<1> DEFINE m == conns[c].mixed \/ (Exhausted /\ conns[c].last # Null /\ conns[c].last[1] # QueryOf[j])
           n == [conns[c] EXCEPT !.st = "open", !.used = TRUE, !.mixed = m,
                                 !.attrs = BatchAttributes(c, j)]
<1>1. conns[c] \in ConnStates /\ QueryOf[j] \in Queries
  BY DEF Inv, TypeOK, Queries
<1>2. BatchAttributes(c, j) \in {conns[c].attrs, QueryOf[j]}
  BY DEF BatchAttributes
<1>3. m \in BOOLEAN
  OBVIOUS
<1>4. Taken(c, j) = [conns EXCEPT ![c] = n]
  BY DEF Taken, Inv, TypeOK
<1>5. BatchAttributes(c, j) \in {Null, QueryOf[j]} \/ m
  <2>1. CASE conns[c].st = "none"
    BY <1>2, <2>1 DEF Inv, Attributes
  <2>2. CASE c \in Idle /\ (conns[c].last = Text(j) \/ Exhausted)
    <3>1. conns[c].last # Null /\ (conns[c].attrs \in {Null, conns[c].last[1]} \/ conns[c].mixed)
      BY <2>2 DEF Inv, Attributes
    <3>2. conns[c].last[1] = QueryOf[j] \/ Exhausted
      BY <2>2 DEF Text
    <3> QED  BY <1>2, <3>1, <3>2
  <2> QED  BY <2>1, <2>2
<1> HIDE DEF m
<1>6. /\ n \in ConnStates /\ n.st = "open" /\ n.used /\ n.tx = conns[c].tx
      /\ n.attrs = BatchAttributes(c, j) /\ n.mixed = m
  BY <1>1, <1>2, <1>3 DEF ConnStates
<1> HIDE DEF n
<1> QED  BY <1>4, <1>5, <1>6

LEMMA TakeStep ==
  ASSUME Assumptions, Inv, NEW j \in Jobs, NEW c \in Conns,
         jobs[j].st \in {"process", "connect"}, InputsOf[j] > 0,
         jobs' = Runs(c, j), conns' = Taken(c, j),
         \/ c \in Idle /\ (conns[c].last = Text(j) \/ Exhausted)
         \/ conns[c].st = "none",
         UNCHANGED <<listed, session, closing, binding, stored>>
  PROVE  /\ TypeOK' /\ Progress' /\ Users' /\ Transactions' /\ Results' /\ Attributes' /\ Listing'
         /\ (Opened \ closing)' = (Opened \ closing) \cup {c}
         /\ Working' = Working /\ Connecting' = Connecting \ {j}
<1> DEFINE f == BatchAttributes(c, j) \notin {Null, QueryOf[j]}
           m == [jobs[j] EXCEPT !.st = "run", !.conn = c, !.foreign = f]
<1>1. /\ jobs[j] \in JobStates /\ jobs[j].left = InputsOf[j] /\ InputsOf[j] \in Nat
      /\ conns \in [Conns -> ConnStates] /\ jobs \in [Jobs -> JobStates]
  BY DEF Inv, TypeOK, Progress, Assumptions
<1>2. /\ m \in JobStates /\ m.st = "run" /\ m.conn = c /\ m.left = InputsOf[j]
      /\ m.canceled = jobs[j].canceled
  <2>1. f \in BOOLEAN
    OBVIOUS
  <2> HIDE DEF f
  <2> QED  BY <1>1, <2>1 DEF JobStates
<1>3. jobs' = [jobs EXCEPT ![j] = m]
  BY <1>1 DEF Runs
<1> HIDE DEF m
<1>4. /\ jobs' \in [Jobs -> JobStates] /\ jobs'[j] = m
      /\ \A k \in Jobs \ {j} : jobs'[k] = jobs[k]
  BY <1>2, <1>3, OneJob DEF Inv
<1>5. PICK n \in ConnStates :
        /\ conns' = [conns EXCEPT ![c] = n]
        /\ n.st = "open" /\ n.used /\ n.tx = conns[c].tx
        /\ n.attrs \in {Null, QueryOf[j]} \/ n.mixed
  BY TakenConn
<1>6. /\ conns' \in [Conns -> ConnStates] /\ conns'[c] = n
      /\ \A d \in Conns \ {c} : conns'[d] = conns[d]
  BY <1>1, <1>5
<1>7. /\ c \notin closing /\ \A k \in Jobs : ~(jobs[k].st = "run" /\ jobs[k].conn = c)
      /\ \A k \in Jobs : conns[c].tx[k] = 0
  BY IdleFree
<1>8. Opened' = Opened \cup {c} /\ Idle' = Idle \ {c}
  BY <1>5, <1>6 DEF Opened, Idle
<1>9. TypeOK'
  BY <1>4, <1>6 DEF Inv, TypeOK
<1>10. Progress'
  BY <1>1, <1>2, <1>4 DEF Inv, Progress
<1>11. Users'
  <2>1. ASSUME NEW k \in Jobs, jobs'[k].st = "run"
        PROVE  /\ conns'[jobs'[k].conn].st = "open" /\ conns'[jobs'[k].conn].used
               /\ jobs'[k].conn \notin closing'
    BY <1>2, <1>4, <1>5, <1>6, <1>7, <2>1 DEF Inv, Users, Progress
  <2>2. ASSUME NEW k \in Jobs, NEW l \in Jobs, jobs'[k].st = "run", jobs'[l].st = "run",
               jobs'[k].conn = jobs'[l].conn
        PROVE  k = l
    BY <1>2, <1>4, <1>7, <2>2 DEF Inv, Users
  <2>3. ASSUME NEW d \in (Opened \ closing)', conns'[d].used
        PROVE  \E k \in Jobs : jobs'[k].st = "run" /\ jobs'[k].conn = d
    <3>1. CASE d = c
      BY <1>2, <1>4, <3>1
    <3>2. CASE d # c
      <4>1. d \in Opened \ closing /\ conns[d].used
        BY <1>6, <1>8, <2>3, <3>2 DEF Opened
      <4>2. PICK k \in Jobs : jobs[k].st = "run" /\ jobs[k].conn = d
        BY <4>1 DEF Inv, Users
      <4>3. jobs'[k] = jobs[k]
        BY <1>4, <4>2
      <4> QED  BY <4>2, <4>3
    <3> QED  BY <3>1, <3>2
  <2>4. \A d \in closing' : conns'[d].st = "open" /\ conns'[d].used
    BY <1>6, <1>7 DEF Inv, Users, TypeOK
  <2>5. \A k \in Jobs : jobs'[k].st = "run" =>
          /\ conns'[jobs'[k].conn].st = "open" /\ conns'[jobs'[k].conn].used
          /\ jobs'[k].conn \notin closing'
    BY <2>1
  <2>6. \A k, l \in Jobs : jobs'[k].st = "run" /\ jobs'[l].st = "run" /\ jobs'[k].conn = jobs'[l].conn
                           => k = l
    BY <2>2
  <2>7. \A d \in Opened' \ closing' : conns'[d].used =>
          \E k \in Jobs : jobs'[k].st = "run" /\ jobs'[k].conn = d
    BY <2>3
  <2> QED  BY <2>4, <2>5, <2>6, <2>7, Zenon DEF Users
<1>12. Transactions'
  <2> SUFFICES ASSUME NEW d \in Conns, NEW k \in Jobs
               PROVE  conns'[d].tx[k] \in IF jobs'[k].st = "run" /\ jobs'[k].conn = d
                                          THEN Held(jobs'[k], k) ELSE {0}
    BY DEF Transactions
  <2>1. conns'[d].tx[k] = conns[d].tx[k]
    BY <1>5, <1>6
  <2>2. conns[d].tx[k] \in IF jobs[k].st = "run" /\ jobs[k].conn = d
                           THEN Held(jobs[k], k) ELSE {0}
    BY DEF Inv, Transactions
  <2>3. CASE k = j
    <3>1. 0 \in Held(m, j)
      BY <1>1, <1>2 DEF Held
    <3>2. conns[d].tx[k] = 0
      BY <1>1, <2>2, <2>3
    <3> QED  BY <1>2, <1>4, <2>1, <2>3, <3>1, <3>2
  <2>4. CASE k # j
    BY <1>4, <2>1, <2>2, <2>4
  <2> QED  BY <2>3, <2>4
<1>13. Results'
  BY <1>2, <1>4, NothingStored DEF Inv, Results
<1>14. Attributes'
  <2>1. \A d \in Conns : conns'[d].st = "none" => conns'[d].last = Null /\ conns'[d].attrs = Null
    BY <1>5, <1>6 DEF Inv, Attributes
  <2>2. \A d \in Idle' : /\ conns'[d].last # Null
                         /\ conns'[d].attrs \in {Null, conns'[d].last[1]} \/ conns'[d].mixed
    BY <1>6, <1>8 DEF Inv, Attributes, Idle, Opened
  <2>3. ASSUME NEW k \in Jobs, jobs'[k].st = "run"
        PROVE  LET d == jobs'[k].conn
               IN  /\ conns'[d].attrs \in {Null, QueryOf[k]} \/ conns'[d].mixed
                   /\ jobs'[k].left < InputsOf[k] =>
                        conns'[d].last # Null /\ conns'[d].last[1] = QueryOf[k]
    <3>1. CASE k = j
      BY <1>1, <1>2, <1>4, <1>5, <1>6, <3>1
    <3>2. CASE k # j
      <4>1. jobs'[k] = jobs[k] /\ jobs[k].conn \in Conns \ {c}
        BY <1>4, <1>7, <2>3, <3>2 DEF Inv, Progress
      <4>2. conns'[jobs[k].conn] = conns[jobs[k].conn]
        BY <1>6, <4>1
      <4>3. /\ conns[jobs[k].conn].attrs \in {Null, QueryOf[k]} \/ conns[jobs[k].conn].mixed
            /\ jobs[k].left < InputsOf[k] =>
                 conns[jobs[k].conn].last # Null /\ conns[jobs[k].conn].last[1] = QueryOf[k]
        BY <2>3, <4>1 DEF Inv, Attributes
      <4> QED  BY <4>1, <4>2, <4>3
    <3> QED  BY <3>1, <3>2
  <2> QED  BY <2>1, <2>2, <2>3 DEF Attributes
<1>15. Listing'
  BY <1>2, <1>4, StaysListed
<1>16. Working' = Working /\ Connecting' = Connecting \ {j}
  BY <1>2, <1>4 DEF Working, Connecting, OnThread
<1>17. (Opened \ closing)' = (Opened \ closing) \cup {c}
  BY <1>7, <1>8
<1> QED  BY <1>9, <1>10, <1>11, <1>12, <1>13, <1>14, <1>15, <1>16, <1>17

-----------------------------------------------------------------------------
(* getConnection and addConnection                                          *)

\* Every connection of the pool is the one of a running job, when none is idle.
LEMMA NoMoreThanRunning ==
  ASSUME Assumptions, Inv, Idle = {}
  PROVE  Cardinality(Opened \ closing) <= Cardinality({k \in Jobs : jobs[k].st = "run"})
<1> DEFINE R == {k \in Jobs : jobs[k].st = "run"}
           f == [k \in R |-> jobs[k].conn]
<1>1. IsFiniteSet(R)
  BY FiniteSets
<1>2. \A k \in R : f[k] \in Opened \ closing
  BY DEF Inv, Progress, Users, Opened
<1>3. \A c \in Opened \ closing : \E k \in R : f[k] = c
  BY DEF Inv, Users, Idle
<1>4. f \in Surjection(R, Opened \ closing)
  BY <1>2, <1>3 DEF Surjection
<1> QED  BY <1>1, <1>4, FS_Surjection

\* A job goes on to open a connection only while there is room for one more.
LEMMA RoomForOne ==
  ASSUME Assumptions, Inv, NEW j \in Jobs, jobs[j].st = "process", ~Exhausted \/ Idle = {}
  PROVE  Cardinality(Opened \ closing) + Cardinality(Connecting \cup {j}) <= Bound - 1 + Threads
<1> DEFINE R == {k \in Jobs : jobs[k].st = "run"}
           C == Connecting \cup {j}
<1>1. /\ R \subseteq Jobs /\ C \subseteq Jobs /\ Working \subseteq Jobs
      /\ R \cup C \subseteq Working /\ R \cap C = {}
  BY DEF Working, OnThread, Connecting
<1>2. /\ IsFiniteSet(R) /\ IsFiniteSet(C) /\ IsFiniteSet(Working)
      /\ Cardinality(R) \in Nat /\ Cardinality(C) \in Nat /\ Cardinality(Working) \in Nat
      /\ Cardinality(Opened) \in Nat /\ Cardinality(Opened \ closing) \in Nat
  <2>1. Opened \subseteq Conns /\ Opened \ closing \subseteq Conns
    BY DEF Opened
  <2> HIDE DEF R, C
  <2> QED  BY <1>1, <2>1, FiniteSets
<1>3. Bound \in Nat \ {0} /\ Threads \in Nat /\ Cardinality(Working) <= Threads
  BY DEF Assumptions, Inv, Pool
<1>4. CASE ~Exhausted
  <2>1. Cardinality(Opened) <= Bound - 1
    BY <1>2, <1>3, <1>4 DEF Exhausted
  <2>2. Cardinality(Opened \ closing) <= Cardinality(Opened)
    BY Subsets, Smaller
  <2>3. Cardinality(C) <= Cardinality(Working)
    BY <1>1, Smaller
  <2> QED  BY <1>2, <1>3, <2>1, <2>2, <2>3
<1>5. CASE Idle = {}
  <2>1. Cardinality(Opened \ closing) <= Cardinality(R)
    BY <1>5, NoMoreThanRunning
  <2>2. Cardinality(R \cup C) = Cardinality(R) + Cardinality(C)
    <3> HIDE DEF R, C
    <3>1. Cardinality(R \cup C) = Cardinality(R) + Cardinality(C) - Cardinality(R \cap C)
      BY <1>2, FS_Union
    <3>2. Cardinality(R \cap C) = 0
      BY <1>1, FS_EmptySet
    <3> QED  BY <1>2, <3>1, <3>2
  <2>3. Cardinality(R \cup C) <= Cardinality(Working)
    BY <1>1, Smaller
  <2> QED  BY <1>2, <1>3, <2>1, <2>2, <2>3
<1> QED  BY <1>4, <1>5

LEMMA getConnectionStep ==
  ASSUME Assumptions, Inv, NEW j \in Jobs, getConnection(j)
  PROVE  Inv'
<1>1. /\ jobs[j].st = "process" /\ UNCHANGED <<listed, session, closing, stored>>
      /\ jobs[j] \in JobStates /\ InputsOf[j] \in Nat /\ jobs[j].left = InputsOf[j]
      /\ QueryOf[j] \in Queries /\ binding \in [Queries -> Bindings]
  BY DEF getConnection, Inv, TypeOK, Progress, Assumptions, Queries
\* The query is disabled, or there is nothing to execute.
<1>2. ASSUME NEW ok \in BOOLEAN, jobs' = Done(j, ok), UNCHANGED conns,
             binding' \in [Queries -> Bindings]
      PROVE  Inv'
  <2>1. PICK n \in JobStates :
          /\ jobs' = [jobs EXCEPT ![j] = n]
          /\ n.st = "done" /\ n.ok = ok /\ n.left = jobs[j].left /\ n.canceled = jobs[j].canceled
    BY <1>2, DoneJob DEF Inv
  <2>2. n.left <= InputsOf[j]
    BY <1>1, <2>1
  <2>3. /\ Progress' /\ Users' /\ Transactions' /\ Attributes' /\ Results' /\ Pool'
        /\ jobs' \in [Jobs -> JobStates] /\ jobs'[j] = n
        /\ \A k \in Jobs \ {j} : jobs'[k] = jobs[k]
    BY <1>1, <1>2, <2>1, <2>2, JobStep
  <2>4. TypeOK'
    BY <1>1, <1>2, <2>3 DEF Inv, TypeOK
  <2>5. Listing'
    BY <1>1, <2>1, <2>3, StaysListed
  <2> QED  BY <2>3, <2>4, <2>5 DEF Inv
<1>3. CASE ~binding[QueryOf[j]].enabled
  <2>1. binding' = [binding EXCEPT ![QueryOf[j]].errors = 0] /\ jobs' = Done(j, FALSE) /\ UNCHANGED conns
    BY <1>3 DEF getConnection
  <2>2. binding[QueryOf[j]] \in Bindings
    BY <1>1
  <2>3. [binding[QueryOf[j]] EXCEPT !.errors = 0] \in Bindings
    BY <2>2 DEF Bindings
  <2>4. binding' \in [Queries -> Bindings]
    BY <1>1, <2>1, <2>3
  <2> QED  BY <1>2, <2>1, <2>4
<1>4. CASE binding[QueryOf[j]].enabled /\ InputsOf[j] = 0
  <2>1. UNCHANGED binding /\ jobs' = Done(j, TRUE) /\ UNCHANGED conns
    BY <1>4 DEF getConnection
  <2> QED  BY <1>1, <1>2, <2>1
<1>5. CASE /\ binding[QueryOf[j]].enabled /\ InputsOf[j] # 0 /\ Reusable(Text(j)) = {}
  <2> DEFINE n == [jobs[j] EXCEPT !.st = "connect"]
  <2>1. UNCHANGED <<binding, conns>> /\ jobs' = [jobs EXCEPT ![j] = n]
    BY <1>5 DEF getConnection
  <2>2. /\ n \in JobStates /\ n.st = "connect" /\ n.left = InputsOf[j]
        /\ n.canceled = jobs[j].canceled
    BY <1>1 DEF JobStates
  <2> HIDE DEF n
  <2>3. /\ jobs' \in [Jobs -> JobStates] /\ jobs'[j] = n
        /\ \A k \in Jobs \ {j} : jobs'[k] = jobs[k]
    BY <2>1, <2>2, OneJob DEF Inv
  <2>4. Users' /\ Transactions' /\ Attributes' /\ (Opened \ closing)' = Opened \ closing
    BY <1>1, <2>1, <2>2, <2>3, NoneRunning
  <2>5. TypeOK'
    BY <1>1, <2>1, <2>3 DEF Inv, TypeOK
  <2>6. Progress' /\ Results'
    BY <1>1, <1>5, <2>2, <2>3, NothingStored DEF Inv, Progress, Results
  <2>7. Listing'
    BY <1>1, <2>2, <2>3, StaysListed
  <2>8. Pool'
    <3>1. Working' = Working /\ Connecting' = Connecting \cup {j}
      BY <1>1, <2>2, <2>3 DEF Working, Connecting, OnThread
    <3>2. ~Exhausted \/ Idle = {}
      BY <1>5 DEF Reusable
    <3>3. Cardinality(Opened \ closing) + Cardinality(Connecting \cup {j}) <= Bound - 1 + Threads
      BY <1>1, <3>2, RoomForOne
    <3> QED  BY <2>4, <3>1, <3>3 DEF Inv, Pool
  <2> QED  BY <2>4, <2>5, <2>6, <2>7, <2>8 DEF Inv
<1>6. CASE /\ binding[QueryOf[j]].enabled /\ InputsOf[j] # 0 /\ Reusable(Text(j)) # {}
  <2>1. PICK c \in Reusable(Text(j)) :
          /\ jobs' = Runs(c, j) /\ conns' = Taken(c, j)
          /\ UNCHANGED binding
    BY <1>6 DEF getConnection
  <2>2. c \in Conns /\ c \in Idle /\ (conns[c].last = Text(j) \/ Exhausted)
    BY DEF Reusable, Idle, Opened
  <2>3. InputsOf[j] > 0
    BY <1>1, <1>6
  <2>4. /\ TypeOK' /\ Progress' /\ Users' /\ Transactions' /\ Results' /\ Attributes' /\ Listing'
        /\ (Opened \ closing)' = (Opened \ closing) \cup {c}
        /\ Working' = Working /\ Connecting' = Connecting \ {j}
    BY <1>1, <2>1, <2>2, <2>3, TakeStep
  <2>5. c \in Opened \ closing
    BY <2>2, IdleFree DEF Idle
  <2>6. Pool'
    BY <2>4, <2>5, PoolShrinks DEF Inv
  <2> QED  BY <2>4, <2>6 DEF Inv
<1> QED  BY <1>3, <1>4, <1>5, <1>6

LEMMA addConnectionStep ==
  ASSUME Assumptions, Inv, NEW j \in Jobs, NEW ok \in BOOLEAN, addConnection(j, ok)
  PROVE  Inv'
<1>1. /\ jobs[j].st = "connect" /\ UNCHANGED <<listed, session, closing, binding, stored>>
      /\ InputsOf[j] \in Nat /\ jobs[j].left = InputsOf[j] /\ InputsOf[j] > 0
      /\ binding \in [Queries -> Bindings]
  BY DEF addConnection, Inv, TypeOK, Progress, Assumptions
<1>2. CASE ~ok
  <2>1. jobs' = Done(j, FALSE) /\ UNCHANGED conns
    BY <1>2 DEF addConnection
  <2>2. PICK n \in JobStates :
          /\ jobs' = [jobs EXCEPT ![j] = n]
          /\ n.st = "done" /\ n.left = jobs[j].left /\ n.canceled = jobs[j].canceled
    BY <2>1, DoneJob DEF Inv
  <2>3. n.left <= InputsOf[j]
    BY <1>1, <2>2
  <2>4. /\ Progress' /\ Users' /\ Transactions' /\ Attributes' /\ Results' /\ Pool'
        /\ jobs' \in [Jobs -> JobStates] /\ jobs'[j] = n
        /\ \A k \in Jobs \ {j} : jobs'[k] = jobs[k]
    BY <1>1, <2>1, <2>2, <2>3, JobStep
  <2>5. TypeOK'
    BY <1>1, <2>1, <2>4 DEF Inv, TypeOK
  <2>6. Listing'
    BY <1>1, <2>2, <2>4, StaysListed
  <2> QED  BY <2>4, <2>5, <2>6 DEF Inv
<1>3. CASE ok
  <2>1. PICK c \in Conns :
          /\ conns[c].st = "none"
          /\ jobs' = Runs(c, j) /\ conns' = Taken(c, j)
    <3> DEFINE c == CHOOSE n \in Conns : conns[n].st = "none"
    <3>1. /\ \E n \in Conns : conns[n].st = "none"
          /\ jobs' = Runs(c, j) /\ conns' = Taken(c, j)
      BY <1>3 DEF addConnection
    <3>2. c \in Conns /\ conns[c].st = "none"
      BY <3>1
    <3> HIDE DEF c
    <3> QED  BY <3>1, <3>2
  <2>2. /\ TypeOK' /\ Progress' /\ Users' /\ Transactions' /\ Results' /\ Attributes' /\ Listing'
        /\ (Opened \ closing)' = (Opened \ closing) \cup {c}
        /\ Working' = Working /\ Connecting' = Connecting \ {j}
    BY <1>1, <2>1, TakeStep
  <2>3. Pool'
    <3>1. /\ IsFiniteSet(Opened \ closing) /\ Cardinality(Opened \ closing) \in Nat
          /\ IsFiniteSet(Connecting) /\ Cardinality(Connecting) \in Nat
          /\ Bound \in Nat /\ Threads \in Nat
      <4>1. Opened \ closing \subseteq Conns /\ Connecting \subseteq Jobs
        BY DEF Opened, Connecting
      <4> QED  BY <4>1, FiniteSets DEF Assumptions
    <3>2. j \in Connecting /\ c \notin Opened \ closing
      BY <1>1, <2>1 DEF Connecting, Opened
    <3>3. Cardinality((Opened \ closing) \cup {c}) = Cardinality(Opened \ closing) + 1
      BY <3>1, <3>2, FS_AddElement
    <3>4. Cardinality(Connecting \ {j}) = Cardinality(Connecting) - 1
      BY <3>1, <3>2, FS_RemoveElement
    <3>5. /\ Cardinality(Working) <= Threads
          /\ Cardinality(Opened \ closing) + Cardinality(Connecting) <= Bound - 1 + Threads
      BY DEF Inv, Pool
    <3>6. Cardinality((Opened \ closing)') + Cardinality(Connecting') <= Bound - 1 + Threads
      <4> DEFINE x == Cardinality(Opened \ closing)
                 y == Cardinality(Connecting)
      <4>1. x \in Nat /\ y \in Nat /\ x + y <= Bound - 1 + Threads
        BY <3>1, <3>5
      <4>2. Cardinality((Opened \ closing)') = x + 1 /\ Cardinality(Connecting') = y - 1
        BY <2>2, <3>3, <3>4, Zenon
      <4> HIDE DEF x, y
      <4>3. (x + 1) + (y - 1) <= Bound - 1 + Threads
        BY <3>1, <4>1
      <4> QED  BY <4>2, <4>3
    <3>7. Cardinality(Working') <= Threads
      BY <2>2, <3>5
    <3> QED  BY <3>6, <3>7 DEF Pool
  <2> QED  BY <2>2, <2>3 DEF Inv
<1> QED  BY <1>2, <1>3

-----------------------------------------------------------------------------
(* Statements, and the end of a job                                         *)

\* Job j is done with its connection c, which is closed or idle afterwards.
LEMMA LeaveStep ==
  ASSUME Assumptions, Inv, NEW j \in Jobs, NEW ok \in BOOLEAN, NEW c \in Conns, NEW n \in ConnStates,
         jobs[j].st = "run", c = jobs[j].conn,
         jobs' = Done(j, ok), conns' = [conns EXCEPT ![c] = n], n.tx = NoTx,
         \/ n.st = "deleted"
         \/ /\ n.st = "open" /\ ~n.used /\ n.last # Null
            /\ n.attrs \in {Null, n.last[1]} \/ n.mixed,
         UNCHANGED <<listed, session, closing>>, binding' \in [Queries -> Bindings],
         stored' \in [Jobs -> Nat], \A k \in Jobs \ {j} : stored'[k] = stored[k],
         jobs[j].foreign \/ stored'[j] \in Together(j), ~ok => stored'[j] = 0
  PROVE  Inv'
<1>1. PICK m \in JobStates :
        /\ jobs' = [jobs EXCEPT ![j] = m]
        /\ m.st = "done" /\ m.ok = ok /\ m.left = jobs[j].left /\ m.canceled = jobs[j].canceled
        /\ m.foreign = jobs[j].foreign
  BY DoneJob DEF Inv
<1>2. /\ jobs' \in [Jobs -> JobStates] /\ jobs'[j] = m
      /\ \A k \in Jobs \ {j} : jobs'[k] = jobs[k]
  BY <1>1, OneJob DEF Inv
<1>3. conns \in [Conns -> ConnStates]
  BY DEF Inv, TypeOK
<1>4. /\ conns' \in [Conns -> ConnStates] /\ conns'[c] = n
      /\ \A d \in Conns \ {c} : conns'[d] = conns[d]
  BY <1>3
<1>5. /\ c \notin closing /\ conns[c].st = "open" /\ conns[c].used
      /\ \A k \in Jobs \ {j} : jobs[k].st = "run" => jobs[k].conn \in Conns \ {c}
  BY DEF Inv, Users, Progress
<1>6. Opened' \subseteq Opened /\ Idle' \subseteq Idle \cup {c} /\ (c \in Idle' => n.st = "open")
  BY <1>4, <1>5 DEF Opened, Idle
<1>7. TypeOK'
  BY <1>2, <1>4 DEF Inv, TypeOK
<1>8. Progress'
  BY <1>1, <1>2 DEF Inv, Progress
<1>9. Users'
  <2>1. \A k \in Jobs : jobs'[k].st = "run" =>
          /\ conns'[jobs'[k].conn].st = "open" /\ conns'[jobs'[k].conn].used
          /\ jobs'[k].conn \notin closing'
    BY <1>1, <1>2, <1>4, <1>5 DEF Inv, Users
  <2>2. \A k, l \in Jobs : jobs'[k].st = "run" /\ jobs'[l].st = "run" /\ jobs'[k].conn = jobs'[l].conn
                           => k = l
    BY <1>1, <1>2 DEF Inv, Users
  <2>3. ASSUME NEW d \in Opened' \ closing', conns'[d].used
        PROVE  \E k \in Jobs : jobs'[k].st = "run" /\ jobs'[k].conn = d
    <3>1. d # c
      BY <1>4, <2>3 DEF Opened
    <3>2. d \in Opened \ closing /\ conns[d].used
      BY <1>4, <1>6, <2>3, <3>1 DEF Opened
    <3>3. PICK k \in Jobs : jobs[k].st = "run" /\ jobs[k].conn = d
      BY <3>2 DEF Inv, Users
    <3>4. jobs'[k] = jobs[k]
      BY <1>2, <3>1, <3>3
    <3> QED  BY <3>3, <3>4
  <2>4. \A d \in Opened' \ closing' : conns'[d].used =>
          \E k \in Jobs : jobs'[k].st = "run" /\ jobs'[k].conn = d
    BY <2>3
  <2>5. \A d \in closing' : conns'[d].st = "open" /\ conns'[d].used
    BY <1>4, <1>5 DEF Inv, Users, TypeOK
  <2> QED  BY <2>1, <2>2, <2>4, <2>5, Zenon DEF Users
<1>10. Transactions'
  <2> SUFFICES ASSUME NEW d \in Conns, NEW k \in Jobs
               PROVE  conns'[d].tx[k] \in IF jobs'[k].st = "run" /\ jobs'[k].conn = d
                                          THEN Held(jobs'[k], k) ELSE {0}
    BY DEF Transactions
  <2>1. conns[d].tx[k] \in IF jobs[k].st = "run" /\ jobs[k].conn = d
                           THEN Held(jobs[k], k) ELSE {0}
    BY DEF Inv, Transactions
  <2>2. CASE d = c
    <3>1. conns'[d].tx[k] = 0
      BY <1>4, <2>2 DEF NoTx
    <3>2. ~(jobs'[k].st = "run" /\ jobs'[k].conn = d)
      BY <1>1, <1>2, <1>5, <2>2
    <3> QED  BY <3>1, <3>2
  <2>3. CASE d # c
    <3>1. conns'[d] = conns[d]
      BY <1>4, <2>3
    <3>2. (jobs'[k].st = "run" /\ jobs'[k].conn = d) <=> (jobs[k].st = "run" /\ jobs[k].conn = d)
      BY <1>1, <1>2, <2>3
    <3>3. Held(jobs'[k], k) = Held(jobs[k], k)
      BY <1>1, <1>2 DEF Held
    <3> QED  BY <2>1, <3>1, <3>2, <3>3
  <2> QED  BY <2>2, <2>3
<1>11. Results'
  <2> SUFFICES ASSUME NEW k \in Jobs
               PROVE  /\ stored'[k] > 0 => jobs'[k].st \in {"done", "gone"} /\ jobs'[k].ok
                      /\ jobs'[k].foreign \/ stored'[k] \in Together(k)
    BY DEF Results
  <2>1. CASE k = j
    BY <1>1, <1>2, <2>1
  <2>2. CASE k # j
    <3>1. jobs'[k] = jobs[k] /\ stored'[k] = stored[k]
      BY <1>2, <2>2
    <3> QED  BY <3>1 DEF Inv, Results
  <2> QED  BY <2>1, <2>2
<1>12. Attributes'
  <2>1. \A d \in Conns : conns'[d].st = "none" => conns'[d].last = Null /\ conns'[d].attrs = Null
    BY <1>4 DEF Inv, Attributes
  <2>2. \A d \in Idle' : /\ conns'[d].last # Null
                         /\ conns'[d].attrs \in {Null, conns'[d].last[1]} \/ conns'[d].mixed
    BY <1>4, <1>6 DEF Inv, Attributes, Idle, Opened
  <2>3. ASSUME NEW k \in Jobs, jobs'[k].st = "run"
        PROVE  LET d == jobs'[k].conn
               IN  /\ conns'[d].attrs \in {Null, QueryOf[k]} \/ conns'[d].mixed
                   /\ jobs'[k].left < InputsOf[k] =>
                        conns'[d].last # Null /\ conns'[d].last[1] = QueryOf[k]
    <3>1. k # j
      BY <1>1, <1>2, <2>3
    <3>2. jobs'[k] = jobs[k] /\ jobs[k].conn \in Conns \ {c}
      BY <1>2, <1>5, <2>3, <3>1
    <3>3. conns'[jobs[k].conn] = conns[jobs[k].conn]
      BY <1>4, <3>2
    <3>4. /\ conns[jobs[k].conn].attrs \in {Null, QueryOf[k]} \/ conns[jobs[k].conn].mixed
          /\ jobs[k].left < InputsOf[k] =>
               conns[jobs[k].conn].last # Null /\ conns[jobs[k].conn].last[1] = QueryOf[k]
      BY <2>3, <3>2 DEF Inv, Attributes
    <3> QED  BY <3>2, <3>3, <3>4
  <2> QED  BY <2>1, <2>2, <2>3 DEF Attributes
<1>13. Listing'
  BY <1>1, <1>2, StaysListed
<1>14. Pool'
  <2>1. Working' \subseteq Working /\ Connecting' \subseteq Connecting
    BY <1>1, <1>2 DEF Working, Connecting, OnThread
  <2>2. (Opened \ closing)' \subseteq Opened \ closing
    BY <1>6
  <2> QED  BY <2>1, <2>2, PoolShrinks DEF Inv
<1> QED  BY <1>7, <1>8, <1>9, <1>10, <1>11, <1>12, <1>13, <1>14 DEF Inv

\* A closed connection.
LEMMA ClosedConn ==
  ASSUME Inv, NEW c \in Conns
  PROVE  \E n \in ConnStates :
           /\ Closed({c}) = [conns EXCEPT ![c] = n]
           /\ n.st = "deleted" /\ n.tx = NoTx
<1> DEFINE n == [conns[c] EXCEPT !.st = "deleted", !.used = FALSE, !.tx = NoTx]
<1>1. conns[c] \in ConnStates /\ conns \in [Conns -> ConnStates]
  BY DEF Inv, TypeOK
<1>2. NoTx \in [Jobs -> Nat]
  BY DEF NoTx
<1>3. n \in ConnStates /\ n.st = "deleted" /\ n.tx = NoTx
  BY <1>1, <1>2 DEF ConnStates
<1>4. Closed({c}) = [conns EXCEPT ![c] = n]
  <2>1. Closed({c}) = [d \in Conns |-> IF d \in {c} THEN [conns[d] EXCEPT !.st = "deleted", !.used = FALSE, !.tx = NoTx]
                                       ELSE conns[d]]
    BY DEF Closed
  <2>2. [conns EXCEPT ![c] = n] = [d \in Conns |-> IF d = c THEN n ELSE conns[d]]
    BY <1>1
  <2> QED  BY <2>1, <2>2
<1> HIDE DEF n
<1> QED  BY <1>3, <1>4

\* What a statement adds to the transaction is what the job has less to do.
LEMMA RowsOfJob ==
  ASSUME Assumptions, Inv, NEW j \in Jobs, jobs[j].left > 0
  PROVE  Rows(j) \in Nat /\ Rows(j) <= jobs[j].left
<1>1. jobs[j].left \in Nat /\ MaxBatchSize \in Nat
  BY DEF Inv, TypeOK, JobStates, Assumptions
<1> QED  BY <1>1 DEF Rows, Least

LEMMA ExecuteFailedStep ==
  ASSUME Assumptions, Inv, NEW j \in Jobs, jobs[j].st = "run", ExecuteFailed(j),
         UNCHANGED <<listed, session, closing>>
  PROVE  Inv'
<1> DEFINE c == jobs[j].conn
           q == QueryOf[j]
<1>1. /\ c \in Conns /\ q \in Queries /\ binding \in [Queries -> Bindings] /\ stored[j] = 0
      /\ stored \in [Jobs -> Nat]
  BY NothingStored DEF Inv, Progress, TypeOK, Queries
<1>2. jobs' = Done(j, FALSE) /\ conns' = Closed({c}) /\ UNCHANGED stored
  BY DEF ExecuteFailed
<1>3. PICK n \in ConnStates : conns' = [conns EXCEPT ![c] = n] /\ n.st = "deleted" /\ n.tx = NoTx
  BY <1>1, <1>2, ClosedConn
<1>4. binding' \in [Queries -> Bindings]
  <2>1. PICK b \in Failed(q) : binding' = [binding EXCEPT ![q] = b]
    BY DEF ExecuteFailed
  <2>2. binding[q] \in Bindings
    BY <1>1
  <2>3. b \in Bindings
    <3> DEFINE errors == binding[q].errors + 1
    <3>1. errors \in Nat
      BY <2>2 DEF Bindings
    <3>2. [binding[q] EXCEPT !.errors = errors] \in Bindings
      BY <2>2, <3>1 DEF Bindings
    <3>3. [errors |-> 0, enabled |-> FALSE] \in Bindings
      BY DEF Bindings
    <3>4. b \in {[errors |-> 0, enabled |-> FALSE], [binding[q] EXCEPT !.errors = errors], binding[q]}
      BY <2>1 DEF Failed
    <3> HIDE DEF errors
    <3> QED  BY <2>2, <3>2, <3>3, <3>4
  <2> HIDE DEF q
  <2> QED  BY <1>1, <2>1, <2>3
<1> HIDE DEF q
<1>5. /\ FALSE \in BOOLEAN /\ c = jobs[j].conn /\ stored' \in [Jobs -> Nat] /\ stored'[j] = 0
      /\ stored'[j] \in Together(j)
      /\ \A k \in Jobs \ {j} : stored'[k] = stored[k]
  BY <1>1, <1>2, NothingStored
<1> HIDE DEF c
<1> QED  BY <1>1, <1>2, <1>3, <1>4, <1>5, LeaveStep

LEMMA FinishStep ==
  ASSUME Assumptions, Inv, NEW j \in Jobs, NEW readable \in BOOLEAN, NEW commits \in BOOLEAN,
         Finish(j, readable, commits)
  PROVE  Inv'
<1> DEFINE c == jobs[j].conn
           n == [conns[c] EXCEPT !.used = FALSE, !.tx = NoTx]
<1>1. /\ jobs[j].st = "run"
      /\ IF readable THEN jobs[j].left = 0 ELSE jobs[j].left < InputsOf[j] /\ ~commits
      /\ stored' = [k \in Jobs |-> stored[k] + IF commits THEN conns[c].tx[k] ELSE 0]
      /\ conns' = [conns EXCEPT ![c].used = FALSE, ![c].tx = NoTx]
      /\ jobs' = Done(j, TRUE)
      /\ UNCHANGED <<listed, session, closing, binding>>
  BY DEF Finish
<1>2. /\ c \in Conns /\ binding \in [Queries -> Bindings] /\ stored \in [Jobs -> Nat]
      /\ stored[j] = 0 /\ 0 \in Together(j) /\ InputsOf[j] \in Nat /\ InputsOf[j] > 0
      /\ conns[c] \in ConnStates /\ conns \in [Conns -> ConnStates]
      /\ conns[c].st = "open"
  BY <1>1, NothingStored DEF Inv, TypeOK, Progress, Users, Assumptions
<1>3. jobs[j].left < InputsOf[j]
  BY <1>1, <1>2
<1>4. /\ conns[c].last # Null /\ conns[c].last[1] = QueryOf[j]
      /\ conns[c].attrs \in {Null, QueryOf[j]} \/ conns[c].mixed
  BY <1>1, <1>3 DEF Inv, Attributes
<1>5. NoTx \in [Jobs -> Nat]
  BY DEF NoTx
<1>6. conns' = [conns EXCEPT ![c] = n]
  BY <1>1, <1>2
<1>7. /\ \A k \in Jobs \ {j} : stored'[k] = stored[k]
      /\ stored'[j] \in Nat /\ (jobs[j].foreign \/ stored'[j] \in Together(j))
  <2>1. ASSUME NEW k \in Jobs \ {j}
        PROVE  conns[c].tx[k] = 0
    <3>1. ~(jobs[k].st = "run" /\ jobs[k].conn = c)
      BY <1>1 DEF Inv, Users
    <3> QED  BY <1>2, <3>1 DEF Inv, Transactions
  <2>2. conns[c].tx[j] \in Held(jobs[j], j)
    BY <1>1, <1>2 DEF Inv, Transactions
  <2>3. conns[c].tx[j] \in Nat /\ stored \in [Jobs -> Nat]
    BY <1>2 DEF ConnStates
  <2> HIDE DEF c, n
  <2>4. stored'[j] = IF commits THEN conns[c].tx[j] ELSE 0
    BY <1>1, <1>2, <2>3
  <2>5. \A k \in Jobs \ {j} : stored'[k] = stored[k]
    BY <1>1, <2>1, <2>3
  <2>6. commits /\ ~jobs[j].foreign => conns[c].tx[j] \in Together(j)
    BY <1>1, <1>2, <2>2 DEF Held, Together
  <2> QED  BY <1>2, <2>3, <2>4, <2>5, <2>6
<1>8. stored' \in [Jobs -> Nat] /\ binding' \in [Queries -> Bindings]
  <2>1. /\ stored' = [k \in Jobs |-> stored'[k]]
    BY <1>1
  <2> HIDE DEF c, n
  <2>2. \A k \in Jobs : stored'[k] \in Nat
    BY <1>2, <1>7
  <2>3. stored' \in [Jobs -> Nat]
    BY <2>1, <2>2
  <2> QED  BY <1>1, <1>2, <2>3
<1>9. /\ n \in ConnStates /\ n.st = "open" /\ ~n.used /\ n.tx = NoTx
      /\ n.last = conns[c].last /\ n.attrs = conns[c].attrs /\ n.mixed = conns[c].mixed
  BY <1>2, <1>5 DEF ConnStates
<1>10. c = jobs[j].conn
  OBVIOUS
<1> HIDE DEF n, c
<1>11. /\ n.st = "open" /\ ~n.used /\ n.last # Null
       /\ n.attrs \in {Null, n.last[1]} \/ n.mixed
  BY <1>4, <1>9
<1> QED  BY <1>1, <1>2, <1>6, <1>7, <1>8, <1>9, <1>10, <1>11, LeaveStep

\* What a statement may have stored.
LEMMA RowsStored ==
  ASSUME Assumptions, Inv, NEW j \in Jobs, jobs[j].left > 0, NEW r \in StoredRows(j)
  PROVE  /\ r \in Nat
         /\ ~jobs[j].foreign => IF ModeOf[QueryOf[j]] = "batch"
                                THEN r <= jobs[j].left /\ Rows(j) = jobs[j].left ELSE r = Rows(j)
<1>1. Rows(j) \in Nat /\ \A k \in Jobs : InputsOf[k] \in Nat
  BY RowsOfJob DEF Assumptions
<1>2. CASE jobs[j].foreign
  <2>1. PICK k \in Jobs : r \in 0 .. InputsOf[k]
    BY <1>2 DEF StoredRows
  <2> QED  BY <1>1, <1>2, <2>1
<1>3. CASE ~jobs[j].foreign
  <2>1. CASE ModeOf[QueryOf[j]] = "batch"
    <3>1. Rows(j) = jobs[j].left /\ r \in 1 .. Rows(j)
      BY <1>3, <2>1 DEF StoredRows, Rows
    <3> QED  BY <1>1, <2>1, <3>1
  <2>2. CASE ModeOf[QueryOf[j]] # "batch"
    BY <1>1, <1>3, <2>2 DEF StoredRows
  <2> QED  BY <2>1, <2>2
<1> QED  BY <1>2, <1>3

LEMMA ExecutedStep ==
  ASSUME Assumptions, Inv, NEW j \in Jobs, jobs[j].st = "run", jobs[j].left > 0,
         NEW r \in StoredRows(j),
         conns' = Executed(j, r), jobs' = [jobs EXCEPT ![j].left = @ - Rows(j)],
         UNCHANGED <<listed, session, closing, binding, stored>>
  PROVE  Inv'
<1> DEFINE c == jobs[j].conn
           m == [jobs[j] EXCEPT !.left = jobs[j].left - Rows(j)]
           n == [conns[c] EXCEPT !.last = Text(j),
                                 !.tx = [conns[c].tx EXCEPT ![j] = conns[c].tx[j] + r]]
<1>1. /\ c \in Conns /\ jobs[j] \in JobStates /\ jobs \in [Jobs -> JobStates]
      /\ conns[c] \in ConnStates /\ conns \in [Conns -> ConnStates]
      /\ conns[c].st = "open" /\ conns[c].used /\ c \notin closing
      /\ InputsOf[j] \in Nat /\ jobs[j].left \in Nat /\ jobs[j].left <= InputsOf[j]
  BY DEF Inv, TypeOK, JobStates, Progress, Users, Assumptions
<1>2. /\ Rows(j) \in Nat /\ jobs[j].left - Rows(j) \in Nat
      /\ jobs[j].left - Rows(j) <= InputsOf[j]
  BY <1>1, RowsOfJob
<1> r \in Nat
  BY RowsStored
<1>3. Text(j) \in Queries \X Nat /\ Text(j)[1] = QueryOf[j] /\ Text(j) # Null
  <2>1. Text(j) \in Queries \X Nat /\ Text(j)[1] = QueryOf[j]
    BY <1>2 DEF Text, Queries
  <2> QED  BY <2>1 DEF Queries, Assumptions
<1>4. conns[c].tx \in [Jobs -> Nat]
  BY <1>1 DEF ConnStates
<1>5. [conns[c].tx EXCEPT ![j] = conns[c].tx[j] + r] \in [Jobs -> Nat]
  BY <1>2, <1>4
<1>6. /\ m \in JobStates /\ m.st = jobs[j].st /\ m.conn = jobs[j].conn
      /\ m.canceled = jobs[j].canceled /\ m.ok = jobs[j].ok /\ m.foreign = jobs[j].foreign
      /\ m.left = jobs[j].left - Rows(j)
  BY <1>1, <1>2 DEF JobStates
<1>7. /\ n \in ConnStates /\ n.st = conns[c].st /\ n.used = conns[c].used /\ n.last = Text(j)
      /\ n.attrs = conns[c].attrs /\ n.mixed = conns[c].mixed
      /\ \A k \in Jobs : n.tx[k] = conns[c].tx[k] + IF k = j THEN r ELSE 0
  <2>1. /\ n \in ConnStates /\ n.st = conns[c].st /\ n.used = conns[c].used /\ n.last = Text(j)
        /\ n.attrs = conns[c].attrs /\ n.mixed = conns[c].mixed
        /\ n.tx = [conns[c].tx EXCEPT ![j] = conns[c].tx[j] + r]
    BY <1>1, <1>3, <1>5 DEF ConnStates
  <2> HIDE DEF n
  <2> QED  BY <1>1, <1>2, <1>4, <2>1
<1>8. jobs' = [jobs EXCEPT ![j] = m]
  BY <1>1
<1>9. conns' = [conns EXCEPT ![c] = n]
  BY <1>1 DEF Executed
<1> HIDE DEF m, n
<1>10. /\ jobs' \in [Jobs -> JobStates] /\ jobs'[j] = m
       /\ \A k \in Jobs \ {j} : jobs'[k] = jobs[k]
  BY <1>6, <1>8, OneJob DEF Inv
<1>11. /\ conns' \in [Conns -> ConnStates] /\ conns'[c] = n
       /\ \A d \in Conns \ {c} : conns'[d] = conns[d]
  BY <1>1, <1>7, <1>9
<1>12. /\ \A k \in Jobs : jobs'[k].st = jobs[k].st /\ jobs'[k].conn = jobs[k].conn
       /\ \A d \in Conns : conns'[d].st = conns[d].st /\ conns'[d].used = conns[d].used
       /\ \A k \in Jobs \ {j} : jobs[k].st = "run" => jobs[k].conn \in Conns \ {c}
  <2>1. \A k \in Jobs : jobs'[k].st = jobs[k].st /\ jobs'[k].conn = jobs[k].conn
    BY <1>6, <1>10
  <2>2. \A d \in Conns : conns'[d].st = conns[d].st /\ conns'[d].used = conns[d].used
    <3>1. ASSUME NEW d \in Conns
          PROVE  conns'[d].st = conns[d].st /\ conns'[d].used = conns[d].used
      <4>1. CASE d = c
        BY <1>7, <1>11, <4>1
      <4>2. CASE d # c
        BY <1>11, <4>2
      <4> QED  BY <4>1, <4>2
    <3> QED  BY <3>1
  <2>3. \A k \in Jobs \ {j} : jobs[k].st = "run" => jobs[k].conn \in Conns \ {c}
    BY DEF Inv, Users, Progress
  <2> QED  BY <2>1, <2>2, <2>3
<1>13. Opened' = Opened /\ Idle' = Idle /\ c \notin Idle
  BY <1>1, <1>12 DEF Opened, Idle
<1>14. TypeOK'
  BY <1>10, <1>11 DEF Inv, TypeOK
<1>15. Progress'
  BY <1>2, <1>6, <1>10 DEF Inv, Progress
<1>16. Users'
  <2>1. \A k \in Jobs : jobs'[k].st = "run" =>
          /\ conns'[jobs'[k].conn].st = "open" /\ conns'[jobs'[k].conn].used
          /\ jobs'[k].conn \notin closing'
    BY <1>12 DEF Inv, Users, Progress
  <2>2. \A k, l \in Jobs : jobs'[k].st = "run" /\ jobs'[l].st = "run" /\ jobs'[k].conn = jobs'[l].conn
                           => k = l
    BY <1>12 DEF Inv, Users
  <2>3. \A d \in Opened' \ closing' : conns'[d].used =>
          \E k \in Jobs : jobs'[k].st = "run" /\ jobs'[k].conn = d
    BY <1>12, <1>13 DEF Inv, Users, Opened
  <2>4. \A d \in closing' : conns'[d].st = "open" /\ conns'[d].used
    BY <1>12 DEF Inv, Users, TypeOK
  <2> QED  BY <2>1, <2>2, <2>3, <2>4, Zenon DEF Users
<1>17. Transactions'
  <2> SUFFICES ASSUME NEW d \in Conns, NEW k \in Jobs
               PROVE  conns'[d].tx[k] \in IF jobs'[k].st = "run" /\ jobs'[k].conn = d
                                          THEN Held(jobs'[k], k) ELSE {0}
    BY DEF Transactions
  <2>1. conns[d].tx[k] \in IF jobs[k].st = "run" /\ jobs[k].conn = d
                           THEN Held(jobs[k], k) ELSE {0}
    BY DEF Inv, Transactions
  <2>2. CASE d = c /\ k = j
    <3> DEFINE x == conns[c].tx[j]
    <3>1. x \in Held(jobs[j], j) /\ x \in Nat
      BY <1>4, <2>1, <2>2
    <3>2. conns'[d].tx[k] = x + r
      BY <1>7, <1>11, <2>2
    <3>3. jobs'[k] = m /\ m.st = "run" /\ m.conn = c
      BY <1>6, <1>10, <2>2
    <3> HIDE DEF x
    <3>4. x + r \in Held(m, j)
      <4>1. CASE jobs[j].foreign
        BY <1>6, <3>1, <4>1 DEF Held
      <4>2. CASE ~jobs[j].foreign /\ ModeOf[QueryOf[j]] = "batch"
        <5>1. r <= jobs[j].left /\ m.left = 0
          BY <1>1, <1>6, <4>2, RowsStored
        <5>2. x \in 0 .. (InputsOf[j] - jobs[j].left)
          BY <3>1, <4>2 DEF Held
        <5>3. x + r \in 0 .. (InputsOf[j] - 0)
          BY <1>1, <3>1, <5>1, <5>2
        <5> QED  BY <1>6, <4>2, <5>1, <5>3 DEF Held
      <4>3. CASE ~jobs[j].foreign /\ ModeOf[QueryOf[j]] # "batch"
        <5>1. r = Rows(j)
          BY <4>3, RowsStored
        <5>2. x = InputsOf[j] - jobs[j].left
          BY <3>1, <4>3 DEF Held
        <5>3. x + r = InputsOf[j] - (jobs[j].left - Rows(j))
          BY <1>1, <1>2, <5>1, <5>2
        <5> QED  BY <1>6, <4>3, <5>3 DEF Held
      <4> QED  BY <4>1, <4>2, <4>3
    <3> QED  BY <2>2, <3>2, <3>3, <3>4
  <2>3. CASE d # c /\ k = j
    BY <1>11, <1>12, <2>1, <2>3
  <2>4. CASE d = c /\ k # j
    <3>1. conns[d].tx[k] = 0 /\ conns[d].tx[k] + 0 = 0
      BY <1>12, <2>1, <2>4
    <3> QED  BY <1>7, <1>11, <1>12, <2>4, <3>1
  <2>5. CASE d # c /\ k # j
    BY <1>10, <1>11, <2>1, <2>5
  <2> QED  BY <2>2, <2>3, <2>4, <2>5
<1>18. Results'
  BY <1>6, <1>10 DEF Inv, Results
<1>19. Attributes'
  <2>1. ASSUME NEW d \in Conns, conns'[d].st = "none"
        PROVE  conns'[d].last = Null /\ conns'[d].attrs = Null
    <3>1. d # c
      BY <1>1, <1>12, <2>1
    <3>2. conns'[d] = conns[d]
      BY <1>11, <3>1
    <3> QED  BY <2>1, <3>2 DEF Inv, Attributes
  <2>2. \A d \in Idle' : /\ conns'[d].last # Null
                         /\ conns'[d].attrs \in {Null, conns'[d].last[1]} \/ conns'[d].mixed
    <3>1. \A d \in Idle' : d \in Idle /\ conns'[d] = conns[d]
      BY <1>11, <1>13 DEF Idle, Opened
    <3> QED  BY <3>1 DEF Inv, Attributes
  <2>3. ASSUME NEW k \in Jobs, jobs'[k].st = "run"
        PROVE  LET d == jobs'[k].conn
               IN  /\ conns'[d].attrs \in {Null, QueryOf[k]} \/ conns'[d].mixed
                   /\ jobs'[k].left < InputsOf[k] =>
                        conns'[d].last # Null /\ conns'[d].last[1] = QueryOf[k]
    <3>1. /\ conns[jobs[k].conn].attrs \in {Null, QueryOf[k]} \/ conns[jobs[k].conn].mixed
          /\ jobs[k].left < InputsOf[k] =>
               conns[jobs[k].conn].last # Null /\ conns[jobs[k].conn].last[1] = QueryOf[k]
      BY <1>12, <2>3 DEF Inv, Attributes
    <3>2. CASE k = j
      BY <1>3, <1>7, <1>11, <1>12, <3>1, <3>2
    <3>3. CASE k # j
      <4>1. jobs'[k] = jobs[k] /\ conns'[jobs[k].conn] = conns[jobs[k].conn]
        BY <1>10, <1>11, <1>12, <2>3, <3>3
      <4> QED  BY <3>1, <4>1
    <3> QED  BY <3>2, <3>3
  <2> QED  BY <2>1, <2>2, <2>3 DEF Attributes
<1>20. Listing'
  BY <1>6, <1>10, StaysListed
<1>21. Pool'
  <2>1. Working' \subseteq Working /\ Connecting' \subseteq Connecting
    BY <1>12 DEF Working, Connecting, OnThread
  <2> QED  BY <1>13, <2>1, PoolShrinks DEF Inv
<1> QED  BY <1>14, <1>15, <1>16, <1>17, <1>18, <1>19, <1>20, <1>21 DEF Inv

-----------------------------------------------------------------------------
(* Closing the connections                                                  *)

LEMMA closeAllStep ==
  ASSUME Assumptions, Inv, closeAllConnections
  PROVE  Inv'
<1>1. /\ closing = {} /\ closing' = Idle
      /\ conns' = [c \in Conns |-> IF c \in Idle THEN [conns[c] EXCEPT !.used = TRUE] ELSE conns[c]]
      /\ UNCHANGED <<jobs, listed, session, binding, stored>>
  BY DEF closeAllConnections
<1>2. ASSUME NEW c \in Conns
      PROVE  /\ conns'[c] \in ConnStates /\ conns'[c].st = conns[c].st
             /\ conns'[c].tx = conns[c].tx /\ conns'[c].last = conns[c].last
             /\ conns'[c].attrs = conns[c].attrs /\ conns'[c].mixed = conns[c].mixed
             /\ c \in Idle => conns'[c].used
             /\ c \notin Idle => conns'[c] = conns[c]
  <2> DEFINE n == [conns[c] EXCEPT !.used = TRUE]
  <2>1. conns[c] \in ConnStates
    BY DEF Inv, TypeOK
  <2>2. /\ n \in ConnStates /\ n.st = conns[c].st /\ n.tx = conns[c].tx /\ n.last = conns[c].last
        /\ n.attrs = conns[c].attrs /\ n.mixed = conns[c].mixed /\ n.used
    BY <2>1 DEF ConnStates
  <2>3. conns'[c] = IF c \in Idle THEN n ELSE conns[c]
    BY <1>1
  <2> HIDE DEF n
  <2> QED  BY <2>1, <2>2, <2>3
<1>3. Opened' = Opened /\ Idle' = {} /\ Idle \subseteq Conns
  BY <1>2 DEF Opened, Idle
<1>4. TypeOK'
  <2>1. conns' \in [Conns -> ConnStates]
    BY <1>1, <1>2
  <2> QED  BY <1>1, <1>3, <2>1 DEF Inv, TypeOK
<1>5. Progress' /\ Results'
  BY <1>1 DEF Inv, Progress, Results
<1>6. Users'
  <2>1. ASSUME NEW k \in Jobs, jobs'[k].st = "run"
        PROVE  /\ conns'[jobs'[k].conn].st = "open" /\ conns'[jobs'[k].conn].used
               /\ jobs'[k].conn \notin closing'
    <3>1. /\ jobs' = jobs /\ jobs[k].conn \in Conns /\ conns[jobs[k].conn].st = "open"
          /\ conns[jobs[k].conn].used /\ jobs[k].conn \notin Idle
      BY <1>1, <2>1 DEF Inv, Users, Progress, Idle
    <3>2. conns'[jobs[k].conn] = conns[jobs[k].conn]
      BY <1>2, <3>1
    <3> QED  BY <1>1, <3>1, <3>2
  <2>2. \A k, l \in Jobs : jobs'[k].st = "run" /\ jobs'[l].st = "run" /\ jobs'[k].conn = jobs'[l].conn
                           => k = l
    BY <1>1 DEF Inv, Users
  <2>3. \A d \in Opened' \ closing' : conns'[d].used =>
          \E k \in Jobs : jobs'[k].st = "run" /\ jobs'[k].conn = d
    <3>1. \A d \in Opened \ Idle : d \in Conns /\ conns[d].used
      BY DEF Opened, Idle
    <3>2. \A d \in Opened \ Idle : \E k \in Jobs : jobs[k].st = "run" /\ jobs[k].conn = d
      BY <1>1, <3>1 DEF Inv, Users
    <3> QED  BY <1>1, <1>3, <3>2
  <2>4. \A d \in closing' : conns'[d].st = "open" /\ conns'[d].used
    BY <1>1, <1>2, <1>3 DEF Idle, Opened
  <2> QED  BY <2>1, <2>2, <2>3, <2>4, Zenon DEF Users
<1>7. Transactions'
  BY <1>1, <1>2 DEF Inv, Transactions
<1>8. Attributes'
  <2>1. \A d \in Conns : conns'[d].st = "none" => conns'[d].last = Null /\ conns'[d].attrs = Null
    BY <1>2 DEF Inv, Attributes
  <2>2. ASSUME NEW k \in Jobs, jobs'[k].st = "run"
        PROVE  LET d == jobs'[k].conn
               IN  /\ conns'[d].attrs \in {Null, QueryOf[k]} \/ conns'[d].mixed
                   /\ jobs'[k].left < InputsOf[k] =>
                        conns'[d].last # Null /\ conns'[d].last[1] = QueryOf[k]
    <3>1. jobs' = jobs /\ jobs[k].conn \in Conns
      BY <1>1, <2>2 DEF Inv, Progress
    <3>2. /\ conns[jobs[k].conn].attrs \in {Null, QueryOf[k]} \/ conns[jobs[k].conn].mixed
          /\ jobs[k].left < InputsOf[k] =>
               conns[jobs[k].conn].last # Null /\ conns[jobs[k].conn].last[1] = QueryOf[k]
      BY <2>2, <3>1 DEF Inv, Attributes
    <3> QED  BY <1>2, <3>1, <3>2
  <2> QED  BY <1>3, <2>1, <2>2 DEF Attributes
<1>9. Listing'
  BY <1>1 DEF Inv, Listing
<1>10. Pool'
  <2>1. Working' \subseteq Working /\ Connecting' \subseteq Connecting
    BY <1>1 DEF Working, Connecting, OnThread
  <2>2. (Opened \ closing)' \subseteq Opened \ closing
    BY <1>1, <1>3
  <2> QED  BY <2>1, <2>2, PoolShrinks DEF Inv
<1> QED  BY <1>4, <1>5, <1>6, <1>7, <1>8, <1>9, <1>10 DEF Inv

LEMMA CloseNextStep ==
  ASSUME Assumptions, Inv, NEW c \in Conns, CloseNext(c)
  PROVE  Inv'
<1>1. /\ c \in closing /\ closing' = closing \ {c}
      /\ UNCHANGED <<jobs, listed, session, binding, stored>>
      /\ conns[c].st = "open" /\ conns \in [Conns -> ConnStates]
      /\ \A k \in Jobs : ~(jobs[k].st = "run" /\ jobs[k].conn = c)
  BY DEF CloseNext, Inv, Users, TypeOK
<1>2. PICK n \in ConnStates : conns' = [conns EXCEPT ![c] = n] /\ n.st = "deleted" /\ n.tx = NoTx
  BY ClosedConn DEF CloseNext
<1>3. /\ conns' \in [Conns -> ConnStates] /\ conns'[c] = n
      /\ \A d \in Conns \ {c} : conns'[d] = conns[d]
  BY <1>1, <1>2
<1>4. Opened' = Opened \ {c} /\ Idle' = Idle \ {c}
  BY <1>2, <1>3 DEF Opened, Idle
<1>5. TypeOK'
  BY <1>1, <1>3 DEF Inv, TypeOK
<1>6. Progress' /\ Results'
  BY <1>1 DEF Inv, Progress, Results
<1>7. Users'
  <2>1. \A k \in Jobs : jobs'[k].st = "run" =>
          /\ conns'[jobs'[k].conn].st = "open" /\ conns'[jobs'[k].conn].used
          /\ jobs'[k].conn \notin closing'
    BY <1>1, <1>3 DEF Inv, Users, Progress
  <2>2. \A k, l \in Jobs : jobs'[k].st = "run" /\ jobs'[l].st = "run" /\ jobs'[k].conn = jobs'[l].conn
                           => k = l
    BY <1>1 DEF Inv, Users
  <2>3. \A d \in Opened' \ closing' : conns'[d].used =>
          \E k \in Jobs : jobs'[k].st = "run" /\ jobs'[k].conn = d
    BY <1>1, <1>3, <1>4 DEF Inv, Users, Opened
  <2>4. \A d \in closing' : conns'[d].st = "open" /\ conns'[d].used
    BY <1>1, <1>3 DEF Inv, Users, TypeOK
  <2> QED  BY <2>1, <2>2, <2>3, <2>4, Zenon DEF Users
<1>8. Transactions'
  <2> SUFFICES ASSUME NEW d \in Conns, NEW k \in Jobs
               PROVE  conns'[d].tx[k] \in IF jobs'[k].st = "run" /\ jobs'[k].conn = d
                                          THEN Held(jobs'[k], k) ELSE {0}
    BY DEF Transactions
  <2>1. CASE d = c
    BY <1>1, <1>2, <1>3, <2>1 DEF NoTx
  <2>2. CASE d # c
    BY <1>1, <1>3, <2>2 DEF Inv, Transactions
  <2> QED  BY <2>1, <2>2
<1>9. Attributes'
  <2>1. \A d \in Conns : conns'[d].st = "none" => conns'[d].last = Null /\ conns'[d].attrs = Null
    BY <1>2, <1>3 DEF Inv, Attributes
  <2>2. \A d \in Idle' : /\ conns'[d].last # Null
                         /\ conns'[d].attrs \in {Null, conns'[d].last[1]} \/ conns'[d].mixed
    BY <1>3, <1>4 DEF Inv, Attributes, Idle, Opened
  <2>3. ASSUME NEW k \in Jobs, jobs'[k].st = "run"
        PROVE  LET d == jobs'[k].conn
               IN  /\ conns'[d].attrs \in {Null, QueryOf[k]} \/ conns'[d].mixed
                   /\ jobs'[k].left < InputsOf[k] =>
                        conns'[d].last # Null /\ conns'[d].last[1] = QueryOf[k]
    <3>1. jobs' = jobs /\ jobs[k].conn \in Conns \ {c}
      BY <1>1, <2>3 DEF Inv, Progress
    <3>2. /\ conns[jobs[k].conn].attrs \in {Null, QueryOf[k]} \/ conns[jobs[k].conn].mixed
          /\ jobs[k].left < InputsOf[k] =>
               conns[jobs[k].conn].last # Null /\ conns[jobs[k].conn].last[1] = QueryOf[k]
      BY <2>3, <3>1 DEF Inv, Attributes
    <3> QED  BY <1>3, <3>1, <3>2
  <2> QED  BY <2>1, <2>2, <2>3 DEF Attributes
<1>10. Listing'
  BY <1>1 DEF Inv, Listing
<1>11. Pool'
  <2>1. Working' \subseteq Working /\ Connecting' \subseteq Connecting
    BY <1>1 DEF Working, Connecting, OnThread
  <2>2. (Opened \ closing)' \subseteq Opened \ closing
    BY <1>1, <1>4
  <2> QED  BY <2>1, <2>2, PoolShrinks DEF Inv
<1> QED  BY <1>5, <1>6, <1>7, <1>8, <1>9, <1>10, <1>11 DEF Inv

-----------------------------------------------------------------------------
(* The theorems                                                             *)

LEMMA InitInv ==
  ASSUME Assumptions, Init
  PROVE  Inv
<1>1. /\ jobs = [j \in Jobs |-> [st |-> "none", conn |-> Null, left |-> 0, foreign |-> FALSE, ok |-> FALSE, canceled |-> FALSE, told |-> FALSE]]
      /\ listed = {} /\ session = TRUE
      /\ conns = [c \in Conns |-> [st |-> "none", used |-> FALSE, last |-> Null, attrs |-> Null, mixed |-> FALSE, tx |-> NoTx]]
      /\ closing = {} /\ binding = [q \in Queries |-> [errors |-> 0, enabled |-> TRUE]]
      /\ stored = [j \in Jobs |-> 0]
  BY DEF Init
<1>2. ASSUME NEW j \in Jobs
      PROVE  /\ jobs[j] \in JobStates /\ jobs[j].st = "none" /\ jobs[j].left = 0 /\ stored[j] = 0
             /\ InputsOf[j] \in Nat
  BY <1>1 DEF JobStates, Assumptions
<1>3. ASSUME NEW c \in Conns
      PROVE  /\ conns[c] \in ConnStates /\ conns[c].st = "none" /\ conns[c].last = Null
             /\ conns[c].attrs = Null /\ conns[c].tx = NoTx
  BY <1>1 DEF ConnStates, NoTx
<1>4. Opened = {} /\ Idle = {} /\ Working = {} /\ Connecting = {} /\ Opened \ closing = {}
  BY <1>2, <1>3 DEF Opened, Idle, Working, Connecting, OnThread
<1>5. TypeOK
  <2>1. jobs \in [Jobs -> JobStates] /\ conns \in [Conns -> ConnStates] /\ stored \in [Jobs -> Nat]
    BY <1>1, <1>2, <1>3
  <2>2. binding \in [Queries -> Bindings]
    BY <1>1 DEF Bindings
  <2> QED  BY <1>1, <2>1, <2>2 DEF TypeOK
<1>6. Progress /\ Results
  BY <1>2 DEF Progress, Results, Together
<1>7. Users /\ Attributes
  BY <1>1, <1>2, <1>3, <1>4 DEF Users, Attributes
<1>8. Transactions
  BY <1>2, <1>3 DEF Transactions, NoTx
<1>9. Listing
  BY <1>1, <1>2 DEF Listing
<1>10. Pool
  BY <1>4, FS_EmptySet DEF Pool, Assumptions
<1> QED  BY <1>5, <1>6, <1>7, <1>8, <1>9, <1>10 DEF Inv

LEMMA Invariance ==
  ASSUME Assumptions, ColumnCounts \subseteq {TRUE}, Inv, [Next]_vars
  PROVE  Inv'
<1>1. CASE SessionGone
  BY <1>1, SessionGoneStep
<1>2. CASE closeAllConnections
  BY <1>2, closeAllStep
<1>3. CASE \E c \in Conns : CloseNext(c)
  BY <1>3, CloseNextStep
<1>4. ASSUME NEW j \in Jobs, execute(j) \/ onDone(j) \/ StartWork(j) \/ getConnection(j)
      PROVE  Inv'
  BY <1>4, ExecuteStep, DoneStep, StartWorkStep, getConnectionStep
<1>5. ASSUME NEW j \in Jobs, NEW go \in BOOLEAN, onProcess(j, go) \/ addConnection(j, go)
      PROVE  Inv'
  BY <1>5, onProcessStep, addConnectionStep
<1>8. ASSUME NEW j \in Jobs, NEW readable \in BOOLEAN, NEW commits \in BOOLEAN,
             Finish(j, readable, commits)
      PROVE  Inv'
  BY <1>8, FinishStep
<1>6. ASSUME NEW j \in Jobs, NEW ok \in BOOLEAN, NEW counts \in ColumnCounts,
             ExecuteStatement(j, ok, counts)
      PROVE  Inv'
  <2>1. /\ jobs[j].st = "run" /\ jobs[j].left > 0 /\ UNCHANGED <<listed, session, closing>>
        /\ IF ~ok THEN ExecuteFailed(j)
           ELSE /\ \E r \in StoredRows(j) : conns' = Executed(j, r)
                /\ jobs' = [jobs EXCEPT ![j].left = @ - Rows(j)]
                /\ UNCHANGED <<binding, stored>>
    BY <1>6 DEF ExecuteStatement
  <2>2. CASE ~ok
    BY <2>1, <2>2, ExecuteFailedStep
  <2>3. CASE ok
    BY <2>1, <2>3, ExecutedStep
  <2> QED  BY <2>2, <2>3
<1>7. CASE UNCHANGED vars
  <2>1. /\ jobs' = jobs /\ listed' = listed /\ session' = session /\ conns' = conns /\ closing' = closing
        /\ binding' = binding /\ stored' = stored
    BY <1>7 DEF vars
  <2>2. Users' /\ Transactions' /\ Attributes' /\ (Opened \ closing)' = Opened \ closing
    BY <2>1, NoneRunning
  <2>3. Working' = Working /\ Connecting' = Connecting
    BY <2>1 DEF Working, Connecting, OnThread
  <2>4. Pool'
    BY <2>2, <2>3, PoolShrinks DEF Inv
  <2> QED  BY <2>1, <2>2, <2>4 DEF Inv, TypeOK, Progress, Results, Listing
<1> QED  BY <1>1, <1>2, <1>3, <1>4, <1>5, <1>6, <1>7, <1>8 DEF Next

\* As long as the columns of every result can be counted, the connections, the
\* transactions and the jobs are in accord: whatever the threads do in between
\* one another, whatever fails, and whenever the session goes.
THEOREM InvCorrect ==
  ASSUME Assumptions, ColumnCounts \subseteq {TRUE}
  PROVE  Spec => []Inv
<1>1. Init => Inv
  BY InitInv
<1>2. Inv /\ [Next]_vars => Inv'
  BY Invariance
<1> QED  BY <1>1, <1>2, PTL DEF Spec

\* The pool of connections (getConnection, addConnection, closeAllConnections):
\* a connection is in the hands of one job, the pool has at most Threads - 1
\* connections more than the Bound it wishes, and a statement meets foreign
\* batch attributes only where the pool was exhausted.
THEOREM PoolKeptCorrect ==
  ASSUME Assumptions, ColumnCounts \subseteq {TRUE}
  PROVE  Spec => []PoolKept
<1>1. ASSUME Inv
      PROVE  PoolKept
  <2>1. OneUser
    BY <1>1 DEF Inv, Users, OneUser, UsedWhileOpen
  <2>2. PoolBound
    <3>1. Opened \ closing \subseteq Conns /\ Connecting \subseteq Jobs
      BY DEF Opened, Connecting
    <3>2. Cardinality(Opened \ closing) \in Nat /\ Cardinality(Connecting) \in Nat
      BY <3>1, FiniteSets
    <3>3. Cardinality(Opened \ closing) + Cardinality(Connecting) <= Bound - 1 + Threads
      BY <1>1 DEF Inv, Pool
    <3> QED  BY <3>2, <3>3 DEF PoolBound, Assumptions
  <2>3. OwnAttributes
    BY <1>1 DEF Inv, Attributes, OwnAttributes
  <2>4. ListedAlive
    BY <1>1 DEF Inv, Listing, ListedAlive
  <2> QED  BY <2>1, <2>2, <2>3, <2>4 DEF PoolKept
<1>2. Inv => PoolKept
  BY <1>1
<1> QED  BY <1>2, InvCorrect, PTL

\* What endTransaction commits: never a row of a job whose caller is told of an
\* error (releaseWithError), never a row twice or of another job, and the inputs
\* of a job together, but for a batch, of which processBatch commits what the
\* database accepted, and for statements with foreign batch attributes.
THEOREM StoredTogetherCorrect ==
  ASSUME Assumptions, ColumnCounts \subseteq {TRUE}
  PROVE  Spec => []StoredTogether
<1>1. ASSUME Inv
      PROVE  StoredTogether
  <2>1. \A c \in Conns, j \in Jobs :
          conns[c].tx[j] > 0 => jobs[j].st = "run" /\ jobs[j].conn = c
    BY <1>1 DEF Inv, Transactions
  <2> QED  BY <1>1, <2>1 DEF Inv, Results, StoredTogether
<1>2. Inv => StoredTogether
  BY <1>1
<1> QED  BY <1>2, InvCorrect, PTL

\* onDoneStatic calls nobody back for a session that is gone: ~DbQueryJobRef
\* canceled every job that was under way.
THEOREM NoLateCallbackCorrect ==
  ASSUME Assumptions, ColumnCounts \subseteq {TRUE}
  PROVE  Spec => NoLateCallback
<1>1. ASSUME Inv, [Next]_vars
      PROVE  [CallsInTime]_vars
  <2>1. ASSUME NEW j \in Jobs, jobs'[j].told, ~jobs[j].told
        PROVE  session
    <3>1. jobs \in [Jobs -> JobStates]
      BY <1>1 DEF Inv, TypeOK
    <3>2. jobs' # jobs
      BY <2>1
    <3>3. PICK k \in Jobs : onDone(k)
      <4>1. \A k \in Jobs, ok \in BOOLEAN : Done(k, ok)[j].told = jobs[j].told
        BY <3>1 DEF Done, JobStates
      <4>2. ~SessionGone
        <5> SUFFICES ASSUME SessionGone
                     PROVE  FALSE
          OBVIOUS
        <5> DEFINE n == [jobs[j] EXCEPT !.canceled = TRUE, !.st = IF @ = "queued" THEN "aborted" ELSE @]
        <5>1. jobs'[j] = IF j \notin listed THEN jobs[j] ELSE n
          BY DEF SessionGone
        <5>2. n.told = jobs[j].told
          BY <3>1 DEF JobStates
        <5> HIDE DEF n
        <5> QED  BY <2>1, <5>1, <5>2
      <4>3. ~closeAllConnections /\ \A c \in Conns : ~CloseNext(c)
        BY <3>2 DEF closeAllConnections, CloseNext
      <4>4. \A k \in Jobs : ~execute(k) /\ ~StartWork(k)
        BY <2>1, <3>1 DEF execute, StartWork, JobStates
      <4>5. \A k \in Jobs, go \in BOOLEAN : ~onProcess(k, go)
        BY <2>1, <3>1, <4>1, ZenonT(40) DEF onProcess, JobStates
      <4>6. \A k \in Jobs : \A c : /\ Runs(c, k)[j].told = jobs[j].told
                                  /\ [jobs EXCEPT ![k].st = "connect"][j].told = jobs[j].told
        BY <3>1 DEF JobStates, Runs
      <4>7. \A k \in Jobs : ~getConnection(k)
        <5> SUFFICES ASSUME NEW k \in Jobs, getConnection(k)
                     PROVE  FALSE
          OBVIOUS
        <5>1. \/ \E ok \in BOOLEAN : jobs' = Done(k, ok)
              \/ jobs' = [jobs EXCEPT ![k].st = "connect"]
              \/ \E c : jobs' = Runs(c, k)
          BY DEF getConnection
        <5>2. ASSUME NEW ok \in BOOLEAN, jobs' = Done(k, ok)
              PROVE  FALSE
          BY <2>1, <4>1, <5>2
        <5>3. ASSUME NEW c, jobs' = Runs(c, k)
              PROVE  FALSE
          BY <2>1, <4>6, <5>3
        <5>4. CASE jobs' = [jobs EXCEPT ![k].st = "connect"]
          BY <2>1, <4>6, <5>4
        <5> QED  BY <5>1, <5>2, <5>3, <5>4
      <4>8. \A k \in Jobs, ok \in BOOLEAN : ~addConnection(k, ok)
        <5> SUFFICES ASSUME NEW k \in Jobs, NEW ok \in BOOLEAN, addConnection(k, ok)
                     PROVE  FALSE
          OBVIOUS
        <5>1. \/ jobs' = Done(k, FALSE)
              \/ \E c : jobs' = Runs(c, k)
          BY DEF addConnection
        <5>2. CASE jobs' = Done(k, FALSE)
          BY <2>1, <4>1, <5>2
        <5>3. ASSUME NEW c, jobs' = Runs(c, k)
              PROVE  FALSE
          BY <2>1, <4>6, <5>3
        <5> QED  BY <5>1, <5>2, <5>3
      <4>9. \A k \in Jobs, ok \in BOOLEAN, counts \in ColumnCounts : ~ExecuteStatement(k, ok, counts)
        BY <2>1, <3>1, <4>1 DEF ExecuteStatement, ExecuteFailed, JobStates
      <4>10. \A k \in Jobs, readable, commits \in BOOLEAN : ~Finish(k, readable, commits)
        BY <2>1, <3>1, <4>1 DEF Finish, JobStates
      <4> QED  BY <1>1, <3>2, <4>2, <4>3, <4>4, <4>5, <4>7, <4>8, <4>9, <4>10 DEF Next, vars
    <3>4. /\ jobs[k].st \in {"aborted", "done"}
          /\ jobs' = [jobs EXCEPT ![k].st = "gone", ![k].told = ~jobs[k].canceled]
      BY <3>3 DEF onDone
    <3>5. k = j
      BY <2>1, <3>1, <3>4
    <3>6. ~jobs[j].canceled
      BY <2>1, <3>1, <3>4, <3>5 DEF JobStates
    <3> QED  BY <1>1, <3>4, <3>5, <3>6 DEF Inv, Listing
  <2> QED  BY <2>1 DEF CallsInTime
<1>2. Inv /\ [Next]_vars => [CallsInTime]_vars
  BY <1>1
<1> QED  BY <1>2, InvCorrect, PTL DEF Spec, NoLateCallback

=============================================================================
