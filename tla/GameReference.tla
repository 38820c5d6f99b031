---------------------------- MODULE GameReference ----------------------------
(***************************************************************************)
(* rzgame: reference data.  ReferenceDataMgr has loaders for tables of the *)
(* reference database, read again at every reload, and loaders for the     *)
(* highest sid of each kind of object, read once.  The servers are started *)
(* when the first load is complete.                                        *)
(***************************************************************************)
EXTENDS Integers, FiniteSets

CONSTANTS
  Tables,     \* loaders of tables (RefDataLoaderHelper, BannedWordsBinding)
  Kinds,      \* loaders of sids (ObjectSidStateBinding)
  Rows,       \* rows of a table
  MaxSid,     \* bound: sids
  MaxLoads    \* bound: loads, and changes of a table

VARIABLES
  state,    \* LoadingState: inProgress, loadedCallback, remaining
  running,  \* the loaders whose query is on its way
  loaded,   \* the sid loaders that have asked (loaded)
  data,     \* the rows of the tables in memory
  next,     \* next_sid of the sid loaders
  stored,   \* the highest sid in the database, 0 for none
  tables,   \* the rows of the tables in the reference database
  ghost     \* sids given out, rows read last, servers started, loaders that answered and
            \* that failed, loads, changes

vars == <<state, running, loaded, data, next, stored, tables, ghost>>

Loaders == Tables \union Kinds

Init ==
  /\ state = [inProgress |-> FALSE, callback |-> FALSE, remaining |-> 0]
  /\ running = {} /\ loaded = {}
  /\ data = [t \in Tables |-> {}] /\ next = [k \in Kinds |-> 0]
  /\ stored \in [Kinds -> 0 .. 1] /\ tables \in [Tables -> SUBSET Rows]
  /\ ghost = [given |-> [k \in Kinds |-> {}], read |-> [t \in Tables |-> {}], started |-> 0, answered |-> {}, failed |-> {}, loads |-> 0, changes |-> 0]

-----------------------------------------------------------------------------

\* The loaders that do not call dataLoaded within load: all but the sid loaders
\* that have asked before.
Awaited == Cardinality(Loaders \ loaded)

\* ReferenceDataMgr::load and the load of every loader.  While one is in progress
\* another is refused.
load(callback) ==
  /\ ghost.loads < MaxLoads
  /\ IF state.inProgress THEN UNCHANGED <<state, running, loaded>>
     ELSE /\ state' = [inProgress |-> Awaited > 0, callback |-> callback, remaining |-> Awaited]
          /\ running' = Loaders \ loaded
          /\ loaded' = Kinds
  /\ ghost' = [ghost EXCEPT !.loads = @ + 1]
  /\ UNCHANGED <<data, next, stored, tables>>

runServers == ghost.loads = 0 /\ load(TRUE)

commandReload == ghost.loads > 0 /\ load(FALSE)

\* onDataLoaded of the loaders: banned words are replaced, rows of the other tables are
\* added and replaced but never removed, and sids go on after the highest one.  A query
\* that failed has no rows.
Words(rows) == [data EXCEPT !["words"] = rows]
Merged(t, rows) == [data EXCEPT ![t] = @ \union rows]
NextSid(k, ok) == [next EXCEPT ![k] = IF ok THEN stored[k] + 1 ELSE 0]

\* The servers are started when nothing remains and there is a callback.
signalDataLoaded(l, ok) ==
  /\ state' = [state EXCEPT !.remaining = @ - 1, !.inProgress = state.remaining - 1 > 0]
  /\ ghost' = [ghost EXCEPT !.started = IF state.remaining - 1 <= 0 /\ state.callback THEN @ + 1 ELSE @,
                            !.read = IF l \in Tables /\ ok THEN [@ EXCEPT ![l] = tables[l]] ELSE @,
                            !.answered = @ \union {l}, !.failed = IF ok THEN @ ELSE @ \union {l}]

onDataLoaded(l, ok) ==
  /\ l \in running
  /\ running' = running \ {l}
  /\ \E rows \in {IF ok /\ l \in Tables THEN tables[l] ELSE {}} :
       data' = CASE l = "words" -> Words(rows) [] l \in Kinds -> data [] OTHER -> Merged(l, rows)
  /\ next' = IF l \in Kinds THEN NextSid(l, ok) ELSE next
  /\ signalDataLoaded(l, ok)
  /\ UNCHANGED <<loaded, stored, tables>>

\* getNextSid, by a client of a server that is started; the object is stored, or the
\* query that stores it fails.
getNextSid(k, ok) ==
  /\ ghost.started > 0 /\ next[k] < MaxSid
  /\ next' = [next EXCEPT ![k] = @ + 1]
  /\ stored' = IF ok /\ next[k] > stored[k] THEN [stored EXCEPT ![k] = next[k]] ELSE stored
  /\ ghost' = [ghost EXCEPT !.given[k] = @ \union {next[k]}]
  /\ UNCHANGED <<state, running, loaded, data, tables>>

\* Somebody edits the reference database.
Edit(t, rows) ==
  /\ ghost.changes < MaxLoads
  /\ tables' = [tables EXCEPT ![t] = rows]
  /\ ghost' = [ghost EXCEPT !.changes = @ + 1]
  /\ UNCHANGED <<state, running, loaded, data, next, stored>>

Next ==
  \/ runServers \/ commandReload
  \/ \E l \in Loaders, ok \in BOOLEAN : onDataLoaded(l, ok)
  \/ \E k \in Kinds, ok \in BOOLEAN : getNextSid(k, ok)
  \/ \E t \in Tables, rows \in SUBSET Rows : Edit(t, rows)

Spec == Init /\ [][Next]_vars

-----------------------------------------------------------------------------
\* What was read is kept: a load waits for exactly the loaders that are under way; the
\* servers are started once, when every loader has answered, if only that its query
\* failed; no sid is given out twice, or is one of an object stored before, if the highest
\* one could be read; and a table has the rows that were read last, if none of its queries
\* failed.  After a failure the servers run with what is left: a table may be empty, and
\* sids begin at 0.
ReferenceKept ==
  /\ state.inProgress = (running # {}) /\ (state.inProgress => state.remaining = Cardinality(running))
  /\ ghost.started <= 1 /\ (ghost.started = 1 => ghost.answered = Loaders)
  /\ ghost.answered = Loaders => ghost.started = 1
  /\ \A k \in Kinds \ ghost.failed : ghost.started > 0 =>
       next[k] > stored[k] /\ \A n \in ghost.given[k] : n < next[k]
  /\ \A t \in Tables \ ghost.failed : ghost.read[t] \subseteq data[t] /\ (t = "words" => data[t] = ghost.read[t])
=============================================================================
