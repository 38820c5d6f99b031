------------------------------ MODULE DbQueries ------------------------------
(***************************************************************************)
(* The database layer of librzu (lib/Database): query jobs that the event  *)
(* loop queues and answers, the worker threads that run them, the pool of  *)
(* connections the threads share.                                          *)
(*                                                                         *)
(* A connection holds the rows of a transaction that is not finished yet   *)
(* (tx: how many of each job), the text of its prepared statement and the  *)
(* query whose batch attributes the statement has.  All jobs use one       *)
(* connection string.  Definitions marked mutant are mutated forms of the  *)
(* ones that follow them.                                                  *)
(***************************************************************************)
EXTENDS Integers, FiniteSets

CONSTANTS
  Jobs,           \* DbQueryJob objects
  Lambdas,        \* those of them that are DbQueryJobLambda
  QueryOf,        \* the query (DbQueryBinding) of a job
  ModeOf,         \* "rows", "insert" or "batch": how process executes a query
  InputsOf,       \* the number of inputs of a job
  Conns,          \* DbConnection objects
  Bound,          \* 8: connections from which on any idle one is reused
  Threads,        \* the size of the thread pool
  MaxBatchSize,   \* rows of one multivalue insert
  ErrorLimit,     \* 100: errors after which a query is disabled
  ColumnCounts,   \* the outcomes of getColumnNum
  Null

\* What the sizes are, and Null is neither a connection nor a statement.
Assumptions ==
  /\ IsFiniteSet(Jobs) /\ IsFiniteSet(Conns) /\ Null \notin Conns
  /\ Null \notin {QueryOf[j] : j \in Jobs} \X Nat
  /\ InputsOf \in [Jobs -> Nat] /\ MaxBatchSize \in Nat /\ ErrorLimit \in Nat
  /\ Bound \in Nat \ {0} /\ Threads \in Nat

VARIABLES
  jobs,      \* the query jobs
  listed,    \* DbQueryJobRef::dbQueryJobs of the session that asks
  session,   \* does the session, and with it its DbQueryJobRef, exist?
  conns,     \* the connections
  closing,   \* connections that closeAllConnections has locked
  binding,   \* errorCount and enabled of each query
  stored     \* the rows of each job that the database has committed
\* (a job keeps whether it ran with the batch attributes of another query: foreign)

vars == <<jobs, listed, session, conns, closing, binding, stored>>

Queries == {QueryOf[j] : j \in Jobs}

NoTx == [j \in Jobs |-> 0]

Init ==
  /\ jobs = [j \in Jobs |-> [st |-> "none", conn |-> Null, left |-> 0, foreign |-> FALSE, ok |-> FALSE, canceled |-> FALSE, told |-> FALSE]]
  /\ listed = {} /\ session = TRUE
  /\ conns = [c \in Conns |-> [st |-> "none", used |-> FALSE, last |-> Null, attrs |-> Null, mixed |-> FALSE, tx |-> NoTx]]
  /\ closing = {}
  /\ binding = [q \in Queries |-> [errors |-> 0, enabled |-> TRUE]]
  /\ stored = [j \in Jobs |-> 0]

\* openedConnections.
Opened == {c \in Conns : conns[c].st = "open"}
IgnoresLock == Opened                                                \* mutant
Idle == {c \in Opened : ~conns[c].used}

OnThread(j) == jobs[j].st \in {"started", "process", "connect", "run"}

-----------------------------------------------------------------------------
(* The event loop: DbQueryJobRef and DbQueryJob. *)

\* executeDbQuery: the job is listed and queued (uv_queue_work).
execute(j) ==
  /\ session /\ jobs[j].st = "none"
  /\ jobs' = [jobs EXCEPT ![j].st = "queued", ![j].left = InputsOf[j]]
  /\ listed' = listed \cup {j}
  /\ UNCHANGED <<session, conns, closing, binding, stored>>

\* ~DbQueryJobRef cancels what is listed; uv_cancel succeeds for a job that no
\* thread has begun.  A lambda job that is done is still listed.
SessionGone ==
  /\ session
  /\ session' = FALSE
  /\ jobs' = [j \in Jobs |->
       IF j \notin listed THEN jobs[j]
       ELSE [jobs[j] EXCEPT !.canceled = TRUE, !.st = IF @ = "queued" THEN "aborted" ELSE @]]
  /\ UNCHANGED <<listed, conns, closing, binding, stored>>

TellsAnyway(j) ==                                                    \* mutant
  /\ jobs[j].st \in {"aborted", "done"}
  /\ jobs' = [jobs EXCEPT ![j].st = "gone", ![j].told = TRUE]
  /\ listed' = IF j \in Lambdas \/ ~session THEN listed ELSE listed \ {j}
  /\ UNCHANGED <<session, conns, closing, binding, stored>>

\* onDoneStatic, onDone and the delete.  DbQueryJobLambda::onDone does not tell
\* the DbQueryJobRef.
onDone(j) ==
  /\ jobs[j].st \in {"aborted", "done"}
  /\ jobs' = [jobs EXCEPT ![j].st = "gone",
                          ![j].told = ~jobs[j].canceled]
  /\ listed' = IF j \in Lambdas \/ ~session THEN listed ELSE listed \ {j}
  /\ UNCHANGED <<session, conns, closing, binding, stored>>

-----------------------------------------------------------------------------
(* A worker thread: DbQueryJob::onProcess and DbQueryBinding::process.      *)

StartWork(j) ==
  /\ jobs[j].st = "queued"
  /\ Cardinality({k \in Jobs : OnThread(k)}) < Threads
  /\ jobs' = [jobs EXCEPT ![j].st = "started"]
  /\ UNCHANGED <<listed, session, conns, closing, binding, stored>>

Done(j, ok) == [jobs EXCEPT ![j].st = "done", ![j].ok = ok, ![j].conn = Null]

\* onProcess: a job canceled in the meantime, or that onPreProcess stops, does
\* not reach the database.
onProcess(j, go) ==
  /\ jobs[j].st = "started"
  /\ jobs' = IF jobs[j].canceled \/ ~go THEN Done(j, FALSE) ELSE [jobs EXCEPT ![j].st = "process"]
  /\ UNCHANGED <<listed, session, conns, closing, binding, stored>>

\* The text of the statement a job prepares next: that of a multivalue insert
\* depends on the number of rows.
Least(a, b) == IF a < b THEN a ELSE b
Rows(j) == IF ModeOf[QueryOf[j]] = "insert" THEN Least(jobs[j].left, MaxBatchSize)
           ELSE IF ModeOf[QueryOf[j]] = "batch" THEN jobs[j].left ELSE 1
Text(j) == <<QueryOf[j], IF ModeOf[QueryOf[j]] = "insert" THEN Rows(j) ELSE 0>>

\* From here on the pool hands out any connection.
Exhausted == Cardinality(Opened) >= Bound

\* The connections getConnection may return without opening one: an idle one
\* with this statement prepared, or any once Bound connections are open.
Reusable(wanted) ==
  LET cached == {c \in Idle : conns[c].last = wanted}
  IN IF cached # {} THEN cached ELSE IF Exhausted THEN Idle ELSE {}

\* processBatch sets the attributes of the batch, which nothing resets.
BatchAttributes(c, j) == IF ModeOf[QueryOf[j]] = "batch" THEN QueryOf[j] ELSE conns[c].attrs

\* A connection c for job j: locked, in a transaction.
Runs(c, j) ==
  [jobs EXCEPT ![j].st = "run", ![j].conn = c,
               ![j].foreign = BatchAttributes(c, j) \notin {Null, QueryOf[j]}]
Taken(c, j) ==
  [conns EXCEPT ![c].st = "open", ![c].used = TRUE,
                ![c].mixed = @ \/ (Exhausted /\ conns[c].last # Null /\ conns[c].last[1] # QueryOf[j]),
                ![c].attrs = BatchAttributes(c, j)]

\* process up to getConnection; the lock of the list makes the search atomic.
getConnection(j) ==
  LET q == QueryOf[j]
  IN /\ jobs[j].st = "process"
     /\ IF ~binding[q].enabled
        THEN /\ binding' = [binding EXCEPT ![q].errors = 0]
             /\ jobs' = Done(j, FALSE)
             /\ UNCHANGED conns
        ELSE /\ UNCHANGED binding
             /\ IF InputsOf[j] = 0 THEN jobs' = Done(j, TRUE) /\ UNCHANGED conns
                ELSE IF Reusable(Text(j)) = {} THEN jobs' = [jobs EXCEPT ![j].st = "connect"] /\ UNCHANGED conns
                ELSE \E c \in Reusable(Text(j)) :
                       /\ jobs' = Runs(c, j)
                       /\ conns' = Taken(c, j)
     /\ UNCHANGED <<listed, session, closing, stored>>

\* addConnection, which may fail.
addConnection(j, ok) ==
  /\ jobs[j].st = "connect"
  /\ IF ~ok THEN jobs' = Done(j, FALSE) /\ UNCHANGED conns
     ELSE LET c == CHOOSE n \in Conns : conns[n].st = "none"
          IN /\ \E n \in Conns : conns[n].st = "none"
             /\ jobs' = Runs(c, j)
             /\ conns' = Taken(c, j)
  /\ UNCHANGED <<listed, session, closing, binding, stored>>

\* releaseAndClose: the destructor rolls back, and the object is freed.
Closed(S) ==
  [c \in Conns |-> IF c \in S THEN [conns[c] EXCEPT !.st = "deleted", !.used = FALSE, !.tx = NoTx] ELSE conns[c]]

\* A failed statement.  errorCount is not protected: an increment is lost when
\* another thread makes one at the same time.
Failed(q) ==
  LET errors == binding[q].errors + 1
      counted == IF errors > ErrorLimit THEN [errors |-> 0, enabled |-> FALSE] ELSE [binding[q] EXCEPT !.errors = errors]
  IN {counted} \cup
     IF Cardinality({k \in Jobs : jobs[k].st = "run" /\ QueryOf[k] = q}) > 1 THEN {binding[q]} ELSE {}

\* execute returned false: releaseWithError.
ExecuteFailed(j) ==
  /\ conns' = Closed({jobs[j].conn})
  /\ jobs' = Done(j, FALSE)
  /\ \E b \in Failed(QueryOf[j]) : binding' = [binding EXCEPT ![QueryOf[j]] = b]
  /\ UNCHANGED stored

\* How many rows a statement that succeeds may have stored.  A batch succeeds
\* when one of its rows does: processBatch only logs the others.  A statement
\* with foreign batch attributes runs with the parameter sets of that batch.
StoredRows(j) ==
  IF jobs[j].foreign
  THEN UNION {0 .. InputsOf[k] : k \in {k \in Jobs : QueryOf[k] = conns[jobs[j].conn].attrs}}
  ELSE IF ModeOf[QueryOf[j]] = "batch" THEN 1 .. Rows(j) ELSE {Rows(j)}

\* A statement that was executed, prepared first if its text is another one: n
\* rows are in the transaction.
Executed(j, n) ==
  [conns EXCEPT ![jobs[j].conn].last = Text(j),
                ![jobs[j].conn].tx[j] = @ + n]

\* One round of the loops of process, processInserts and processBatch.  When the
\* columns cannot be counted, getColumnsMapping closes the connection, and
\* process goes on with it.
ExecuteStatement(j, ok, counts) ==
  /\ jobs[j].st = "run" /\ jobs[j].left > 0
  /\ ~counts => ok /\ ModeOf[QueryOf[j]] = "rows"
  /\ IF ~ok THEN ExecuteFailed(j)
     ELSE /\ IF counts THEN \E n \in StoredRows(j) : conns' = Executed(j, n)
             ELSE conns' = Closed({jobs[j].conn})
          /\ jobs' = [jobs EXCEPT ![j].left = @ - Rows(j)]
          /\ UNCHANGED <<binding, stored>>
  /\ UNCHANGED <<listed, session, closing>>

\* endTransaction and release: of everything, or of nothing when a column could
\* not be read (which ends the loop early, and is no error to the caller), or
\* when the commit fails, whose result endTransaction ignores.
Finish(j, readable, commits) ==
  LET c == jobs[j].conn
  IN /\ jobs[j].st = "run"
     /\ IF readable THEN jobs[j].left = 0
        ELSE ModeOf[QueryOf[j]] = "rows" /\ jobs[j].left < InputsOf[j] /\ ~commits
     /\ stored' = [k \in Jobs |-> stored[k] + IF commits THEN conns[c].tx[k] ELSE 0]
     /\ conns' = [conns EXCEPT ![c].used = FALSE, ![c].tx = NoTx]
     /\ jobs' = Done(j, TRUE)
     /\ UNCHANGED <<listed, session, closing, binding>>

-----------------------------------------------------------------------------
(* Commands. *)

\* closeAllConnections locks what is idle, and then closes it.
closeAllConnections ==
  /\ closing = {} /\ Idle # {}
  /\ closing' = Idle
  /\ conns' = [c \in Conns |-> IF c \in Idle THEN [conns[c] EXCEPT !.used = TRUE] ELSE conns[c]]
  /\ UNCHANGED <<jobs, listed, session, binding, stored>>

CloseNext(c) ==
  /\ c \in closing
  /\ closing' = closing \ {c}
  /\ conns' = Closed({c})
  /\ UNCHANGED <<jobs, listed, session, binding, stored>>

Next ==
  \/ SessionGone
  \/ closeAllConnections
  \/ \E c \in Conns : CloseNext(c)
  \/ \E j \in Jobs :
       \/ execute(j)
       \/ onDone(j)
       \/ StartWork(j)
       \/ \E go \in BOOLEAN : onProcess(j, go)
       \/ getConnection(j)
       \/ \E ok \in BOOLEAN : addConnection(j, ok)
       \/ \E ok \in BOOLEAN, counts \in ColumnCounts : ExecuteStatement(j, ok, counts)
       \/ \E readable, commits \in BOOLEAN : Finish(j, readable, commits)

\* The loop and the threads run; every call of the database returns.
Step(j) ==
  \/ onDone(j) \/ StartWork(j) \/ onProcess(j, TRUE) \/ getConnection(j) \/ addConnection(j, FALSE)
  \/ ExecuteStatement(j, TRUE, TRUE) \/ Finish(j, TRUE, TRUE)

Spec == Init /\ [][Next]_vars
FairSpec == Spec /\ \A j \in Jobs : WF_vars(Step(j))

-----------------------------------------------------------------------------
(* Properties *)

\* A thread works on a connection that is open and in use, as the assertions of
\* DbConnection want it (isUsed).
UsedWhileOpen ==
  \A j \in Jobs : jobs[j].st = "run" => conns[jobs[j].conn].st = "open" /\ conns[jobs[j].conn].used

\* A connection serves one job at a time, and no thread works on one that is
\* closed: whatever is executed, fails, or is closed by the command meanwhile.
OneUser ==
  /\ UsedWhileOpen
  /\ \A j \in Jobs : jobs[j].st = "run" =>
       /\ jobs[j].conn \notin closing
       /\ \A k \in Jobs \ {j} : jobs[k].st = "run" => jobs[k].conn # jobs[j].conn

\* What of a job may be stored: a batch in part, the rows that the database
\* rejects being left out; anything else as a whole or not at all.
Together(j) == IF ModeOf[QueryOf[j]] = "batch" THEN 0 .. InputsOf[j] ELSE {0, InputsOf[j]}

\* No row is stored twice, nor of a job whose caller is told of an error, though
\* its connection is used again; and the inputs of a job are stored together,
\* but for those of a batch.  (Of a statement that is executed with the batch
\* attributes of another query nothing is claimed.)  A transaction holds rows of
\* the job that uses the connection alone.
StoredTogether ==
  /\ \A j \in Jobs : /\ stored[j] > 0 => jobs[j].st \in {"done", "gone"} /\ jobs[j].ok
                     /\ jobs[j].foreign \/ stored[j] \in Together(j)
  /\ \A c \in Conns, j \in Jobs : conns[c].tx[j] > 0 => jobs[j].st = "run" /\ jobs[j].conn = c

\* The wish of getConnection for at most Bound connections is missed by no more
\* than the other threads that look for one at the same time.
PoolBound == Cardinality(Opened \ closing) <= Bound - 1 + Threads

\* A statement is executed with the batch attributes of another query only on a
\* connection that was reused because Bound connections were open.
OwnAttributes ==
  \A j \in Jobs : jobs[j].st = "run" =>
    conns[jobs[j].conn].attrs \in {Null, QueryOf[j]} \/ conns[jobs[j].conn].mixed

\* A DbQueryJobRef, which cancels what it lists, lists live jobs.  Lambda jobs are
\* excepted: theirs stay listed when they are freed (DbQueryJobLambda::onDone does
\* not tell it), so that ~DbQueryJobRef, and a cancel before, meets freed memory.
ListedAlive == session => \A j \in listed \ Lambdas : jobs[j].st # "gone"

\* A connection is in the hands of one job, the number of connections is bounded,
\* a statement has batch attributes of another query only where the pool was
\* exhausted, and no session lists a job, other than a lambda, that is freed.
PoolKept == OneUser /\ PoolBound /\ OwnAttributes /\ ListedAlive

\* No callback is made for a session that is gone, though its queries may be
\* running when it goes.
CallsInTime == \A j \in Jobs : jobs'[j].told /\ ~jobs[j].told => session
NoLateCallback == [][CallsInTime]_vars

\* A job that was queued is answered and freed in the end.
AllAnswered == \A j \in Jobs : jobs[j].st \in {"none", "gone"}
Answered == <>[]AllAnswered
=============================================================================
