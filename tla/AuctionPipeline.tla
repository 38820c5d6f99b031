--------------------------- MODULE AuctionPipeline ---------------------------
(***************************************************************************)
(* The auction parsers: files of a directory go through a pipeline of      *)
(* steps (IPipeline.h), each with a queue, at most parallel works at a     *)
(* time, and a block of inputs per work.  A step starts nothing while the  *)
(* next one is full.                                                       *)
(*   aggregator  reads a file, deserializes it, parses it, records its     *)
(*               name, inserts its data, inserts its history; it starts    *)
(*               again a few files before the last name of the database    *)
(*   sqlwriter   reads, deserializes, parses, inserts up to ten files at   *)
(*               a time, then saves a state file from time to time; it     *)
(*               starts again after the file of that state                 *)
(* The process may end at any time (killed, or stopped by a failed work)   *)
(* and be started again.  A start that cannot load from the database       *)
(* leaves it idle, and a scan that fails waits for the next change of the  *)
(* directory.  Files are numbers, in the order of their names.             *)
(***************************************************************************)
EXTENDS Integers, Sequences, FiniteSetsExt, SequencesExt

CONSTANTS Tool,         \* "aggregator" or "sqlwriter"
          Steps,        \* the steps: name, max (maxSize), parallel, block
          Recheck,      \* offset of DB_NextAuctionFileToParse, 3 in the code
          MaxFile,      \* bound on the files
          MaxFaults     \* bound on the ends of the process, failed loads and failed scans

VARIABLES
  dir,          \* environment: the files 1 .. dir exist
  phase,        \* the process is "down", "idle" after a failed load, or "watching" the directory
  due,          \* a scan of the directory is to come: its timer runs
  last,         \* lastQueuedFile
  queue,        \* inputQueue of each step
  work,         \* workInProgress of each step: a sequence of blocks of files
  recorded,     \* database: the file names, in the order of their uid
  stored,       \* database: the files whose history or auctions are inserted
  saved,        \* lastParsedFile of the state file
  parsed,       \* history: the files parsed since the start, in order
  gone,         \* history: the files that an end of the process has skipped
  faults

vars == <<dir, phase, due, last, queue, work, recorded, stored, saved, parsed, gone, faults>>

N == Len(Steps)
None == [i \in 1 .. N |-> << >>]

-----------------------------------------------------------------------------
(* PipelineStep.  p is the queues and works, and whether prev is notified. *)
(* What a call makes of it is a set of one element, to be evaluated once.  *)

\* inputAvailable: the room of this step and of those that follow
Room(p, j) == Steps[j].max - Len(p.work[j]) - Len(p.queue[j])
inputAvailable(p, i) == MapThenSumSet(LAMBDA j : Room(p, j), i .. N)

isNextFull(p, i) == i < N /\ inputAvailable(p, i + 1) <= 0

\* the works that doNextWork starts: each takes a block of what is queued
Startable(p, i) ==
  IF isNextFull(p, i) THEN 0
  ELSE Min({Steps[i].parallel - Len(p.work[i]),
            (Len(p.queue[i]) + Steps[i].block - 1) \div Steps[i].block})

Launch(p, i) ==
  LET size == Steps[i].block
      n    == Startable(p, i)
      q    == p.queue[i]
  IN [p EXCEPT !.queue[i] = SubSeq(q, n * size + 1, Len(q)),
               !.work[i] = @ \o [k \in 1 .. n |->
                 SubSeq(q, (k - 1) * size + 1, Min({k * size, Len(q)}))]]

\* doNextWork, then notifyOutputAvailable of the step before, as long as there
\* is room
Notified(p, j) == [p EXCEPT !.notify = inputAvailable(p, j) > 0]
doNextWork(P, i) ==
  FoldLeft(LAMBDA R, j : {IF s.notify THEN Notified(s, j) ELSE s :
                            s \in {IF r.notify THEN Launch(r, j) ELSE r : r \in R}},
           {[p EXCEPT !.notify = TRUE] : p \in P}, [k \in 1 .. i |-> i + 1 - k])

Queue(P, i, f) == doNextWork({[p EXCEPT !.queue[i] = Append(@, f)] : p \in P}, i)

LeavesQueue(p, i, k, outputs) ==                                    \* mutant
  {IF i = N THEN [p EXCEPT !.work[i] = RemoveAt(@, k)]
   ELSE [p EXCEPT !.work[i] = RemoveAt(@, k), !.queue[i + 1] = @ \o outputs]}

\* workDone with status 0: the outputs go to the next step one by one
workDone(p, i, k, outputs) ==
  LET free == {[p EXCEPT !.work[i] = RemoveAt(@, k)]}
  IN doNextWork(IF i = N THEN free
                ELSE FoldLeft(LAMBDA R, f : Queue(R, i + 1, f), free, outputs), i)

Pipeline == [queue |-> queue, work |-> work, notify |-> FALSE]
Set(P) == \E p \in P : queue' = p.queue /\ work' = p.work

-----------------------------------------------------------------------------
(* What the works of a step do outside the process *)

\* DB_InsertFilename: on conflict do nothing; a known file keeps its uid
Recorded(names, b) == FoldLeft(LAMBDA s, f : IF f \in Range(s) THEN s ELSE Append(s, f), names, b)

Stores(i) == Steps[i].name \in {"history", "insert"}
Outside(i) == Stores(i) \/ Steps[i].name \in {"filename", "commit"}

\* the files of step i, one of the named steps, whose works are in reach
Reaching(reach, i, names) ==
  IF Steps[i].name \notin names THEN << >>
  ELSE FlattenSeq([k \in DOMAIN work[i] |-> IF <<i, k>> \in reach THEN work[i][k] ELSE << >>])
Files(blocks) == UNION {Range(b) : b \in Range(blocks)}

FromLatest(names, state) ==                                         \* mutant
  IF Tool = "sqlwriter" THEN state
  ELSE IF names = << >> THEN 0 ELSE Last(names)

\* P0LoadActiveAuctions, importState: the file after which a start reads
ResumeFrom(names, state) ==
  IF Tool = "sqlwriter" THEN state
  ELSE IF Len(names) > Recheck THEN names[Len(names) - Recheck] ELSE 0

-----------------------------------------------------------------------------
(* AuctionPipeline *)

Init ==
  /\ dir = 0 /\ phase = "down" /\ due = FALSE /\ last = 0
  /\ queue = None /\ work = None
  /\ recorded = << >> /\ stored = {} /\ saved = 0
  /\ parsed = << >> /\ gone = {} /\ faults = 0

\* The monitor writes one more file; who watches the directory gets an event.
NewFile ==
  /\ dir < MaxFile
  /\ dir' = dir + 1
  /\ due' = (phase = "watching")
  /\ UNCHANGED <<phase, last, queue, work, recorded, stored, saved, parsed, gone, faults>>

\* onScandir: the files after lastQueuedFile, in order
Scanned(p, from) == FoldLeft(LAMBDA R, f : Queue(R, 1, f), {p}, [k \in 1 .. dir - from |-> from + k])

Fault == faults < MaxFaults /\ faults' = faults + 1

Empty == [Pipeline EXCEPT !.queue = None, !.work = None]

Watches == phase = "down" /\ phase' = "watching" /\ due' = FALSE /\ parsed' = << >>

\* start, up to the first scan of the directory.
start ==
  /\ Watches
  /\ last' = dir
  /\ Set(Scanned(Empty, ResumeFrom(recorded, saved)))
  /\ UNCHANGED <<dir, recorded, stored, saved, gone, faults>>

\* start, with a first scan that fails.
StartUnseeing ==
  /\ Watches /\ Fault
  /\ last' = ResumeFrom(recorded, saved)
  /\ Set({Empty})
  /\ UNCHANGED <<dir, recorded, stored, saved, gone>>

\* start, with a load of the aggregator that fails.  Whether the callback is called,
\* with FALSE, or not at all: nothing watches the directory, and nothing starts again.
StartIdle ==
  /\ phase = "down" /\ Tool = "aggregator" /\ Fault
  /\ phase' = "idle"
  /\ UNCHANGED <<dir, due, last, queue, work, recorded, stored, saved, parsed, gone>>

\* onFsEvent, onTimeout, onScandir.
onScandir ==
  /\ phase = "watching" /\ due
  /\ due' = FALSE
  /\ Set(Scanned(Pipeline, last))
  /\ last' = dir
  /\ UNCHANGED <<dir, phase, recorded, stored, saved, parsed, gone, faults>>

\* A directory that cannot be read is read again at the next event only.
ScanFails ==
  /\ phase = "watching" /\ due /\ Fault
  /\ due' = FALSE
  /\ UNCHANGED <<dir, phase, last, queue, work, recorded, stored, saved, parsed, gone>>

\* The work k of step i succeeds.  P3ParseAuction keeps no file without changes;
\* P5Commit writes the state of a file that carries a full dump.
WorkDone(i, k) ==
  /\ phase = "watching"
  /\ k \in DOMAIN work[i]
  /\ \E b \in {work[i][k]} :
       \E kept \in (IF Tool = "sqlwriter" /\ Steps[i].name = "parse"
                    THEN {SelectSeq(b, LAMBDA f : f \in s) : s \in SUBSET Range(b)} ELSE {b}),
          dump \in (IF Steps[i].name = "commit" THEN BOOLEAN ELSE {FALSE}) :
         /\ Set(workDone(Pipeline, i, k, kept))
         /\ parsed' = IF Steps[i].name = "parse" THEN parsed \o b ELSE parsed
         /\ recorded' = IF Steps[i].name = "filename" THEN Recorded(recorded, b) ELSE recorded
         /\ stored' = stored \union (IF Stores(i) THEN Range(b) ELSE Range(b) \ Range(kept))
         /\ saved' = IF dump THEN Last(b) ELSE saved
  /\ UNCHANGED <<dir, phase, due, last, gone, faults>>

\* The process is killed, or a work fails: notifyError, forceStop, stop, cancel.
\* Of the works in progress any may still reach the database, or nothing of it.
Ends ==
  /\ phase # "down" /\ Fault
  /\ phase' = "down" /\ due' = FALSE
  /\ \E reach \in SUBSET {<<i, k>> \in (1 .. N) \X (1 .. MaxFile) : k \in DOMAIN work[i] /\ Outside(i)} :
       \E names \in {Recorded(recorded, FlattenSeq([i \in 1 .. N |-> Reaching(reach, i, {"filename"})]))},
          store \in {stored \union UNION {Range(Reaching(reach, i, {"history", "insert"})) : i \in 1 .. N}},
          state \in {IF <<N, 1>> \in reach /\ Steps[N].name = "commit" THEN Last(work[N][1]) ELSE saved} :
         /\ recorded' = names /\ stored' = store /\ saved' = state
         /\ gone' = gone \union
              ((IF Tool = "sqlwriter" THEN 1 .. state
                ELSE Range(SubSeq(names, 1, Len(names) - Recheck))) \ store)
  /\ queue' = None /\ work' = None
  /\ UNCHANGED <<dir, last, parsed>>

Work == \E i \in 1 .. N : \E k \in 1 .. Steps[i].parallel : WorkDone(i, k)

Next == NewFile \/ start \/ StartUnseeing \/ StartIdle \/ onScandir \/ ScanFails \/ Work \/ Ends

Spec == Init /\ [][Next]_vars

\* The process is started again, the timer of a directory change expires, and a
\* work ends.
FairSpec == Spec /\ WF_vars(start) /\ WF_vars(onScandir) /\ WF_vars(Work)

-----------------------------------------------------------------------------
(* Properties *)

\* The state the differences are computed from is that of the file before: the
\* parse step is given every file, one after the other, from the one after the
\* file that start resumed from.  Neither blocks, parallel works nor a full next
\* step change the order.
InOrder == \A k \in DOMAIN parsed : k > 1 => parsed[k] = parsed[k - 1] + 1

\* A file that was queued is stored, on its way, or was left behind by an end of
\* the process: by the aggregator when more than Recheck names were recorded
\* ahead of its history, by the sqlwriter when a later file's state was saved.
NothingElseLost ==
  phase = "watching" => 1 .. last \subseteq stored \union gone
          \union UNION {Range(queue[i]) \union Files(work[i]) : i \in 1 .. N}

\* What a step was given but has not finished is bounded by the room of the steps
\* from it on, plus what one work of the step before may deliver at once.
Bounded ==
  \A i \in 2 .. N :
    inputAvailable(Pipeline, i) >= 0 - Steps[i - 1].block * Steps[i - 1].parallel

\* The steps hand on every file, in order and within their room, across kills
\* and failing works.
FilesKept == InOrder /\ NothingElseLost /\ Bounded

\* The files that nobody looks for: all, after a failed load, or those since the last
\* scan, if it failed and no file came after.
Unseen ==
  CASE phase = "idle" -> 1 .. dir
    [] phase = "watching" /\ ~due -> last + 1 .. dir
    [] OTHER -> {}

\* Every file is stored in the end, or was left behind by an end of the process, or
\* the process has stopped looking.
Settled == 1 .. dir \subseteq stored \union gone \union Unseen
Processed == <>[]Settled

=============================================================================
