------------------------------ MODULE LogWriter ------------------------------
(***************************************************************************)
(* Log (lib/Core/Log.cpp): threads log messages into a bounded queue, a    *)
(* writer thread takes all of it at once and writes it to a file.  The     *)
(* logger can be disabled and enabled again while it runs, and the name of *)
(* the file can be changed.                                                *)
(*                                                                         *)
(* stop, messageQueueFull and updateFileRequested are read, and the last   *)
(* one written, without the lock.  A message is the number of its place in *)
(* the order of the pushes.  Messages taken while no file could be opened  *)
(* are deleted unwritten (Log.cpp:500-505): history keeps which ones.      *)
(* Days, levels, the console and the text are left out.  Unsignalled and   *)
(* StaysFull are mutated forms of the definitions that follow them.        *)
(***************************************************************************)
EXTENDS Integers, Sequences, FiniteSets

CONSTANTS
  Writers,       \* threads that startWriter may create, in this order: 1..n
  Loggers,       \* threads that log
  MaxQueue,      \* maxQueueSize
  MaxMessages,   \* bound: messages pushed
  MaxNames       \* bound: changes of the file name

\* Threads are counted, and there is room for a message.
Assumptions == Writers \subseteq Nat /\ MaxQueue \in Nat \ {0}

VARIABLES
  stop, full,    \* stop, messageQueueFull
  queue,         \* messageQueue
  pushed,        \* messages pushed so far
  accepted,      \* those pushed while the logger was enabled
  written,       \* what was written, in order
  loggers,       \* does a logger stand between the checks of logv and the lock?
  writers,       \* the writer threads
  main,          \* what the main thread is doing with the logger
  name,          \* the configured name, updateFileRequested, is the listener yet to be called?
  history        \* were two writers alive at a time, was the logger ever disabled, and
                 \* which messages did a writer hold when it could open no file at all?

vars == <<stop, full, queue, pushed, accepted, written, loggers, writers, main, name, history>>

NoWriter == [pc |-> "none", batch |-> << >>, end |-> FALSE, update |-> FALSE, file |-> -1, failed |-> FALSE]

Init ==
  /\ stop = TRUE /\ full = FALSE
  /\ queue = << >> /\ pushed = 0 /\ accepted = {} /\ written = << >>
  /\ loggers = [l \in Loggers |-> FALSE]
  /\ writers = [w \in Writers |-> NoWriter]
  /\ main = "idle"
  /\ name = [value |-> 0, requested |-> FALSE, notify |-> FALSE]
  /\ history = [overlap |-> FALSE, disabled |-> FALSE, unopened |-> {}]

Created == {w \in Writers : writers[w].pc # "none"}
Alive == {w \in Created : writers[w].pc # "ended"}

\* The thread of logWritterThreadId.
Latest == CHOOSE w \in Created : \A v \in Created : v <= w

\* uv_cond_signal wakes one of the threads that wait, if any.
Signalled ==
  LET waiting == {w \in Writers : writers[w].pc = "waiting"}
  IN  IF waiting = {} THEN {writers} ELSE {[writers EXCEPT ![w].pc = "woken"] : w \in waiting}

-----------------------------------------------------------------------------
(* The threads that log: logv. *)

\* wouldLog and messageQueueFull, before the lock.
logv(l) ==
  /\ main # "destroyed" /\ ~loggers[l] /\ ~stop /\ ~full /\ pushed < MaxMessages
  /\ loggers' = [loggers EXCEPT ![l] = TRUE]
  /\ UNCHANGED <<stop, full, queue, pushed, accepted, written, writers, main, name, history>>

\* What a push does to the queue and to messageQueueFull.
Pushed == IF Len(queue) < MaxQueue THEN Append(queue, pushed + 1) ELSE queue
Fills == full \/ Len(queue) >= MaxQueue

Unsignalled == {writers}

\* uv_cond_signal at the end of logv.
Wakes == Signalled

Push(l) ==
  /\ main # "destroyed" /\ loggers[l] /\ pushed < MaxMessages
  /\ loggers' = [loggers EXCEPT ![l] = FALSE]
  /\ queue' = Pushed
  /\ pushed' = IF Pushed = queue THEN pushed ELSE pushed + 1
  /\ accepted' = IF Pushed = queue \/ stop THEN accepted ELSE accepted \cup {pushed + 1}
  /\ full' = Fills
  /\ writers' \in Wakes
  /\ UNCHANGED <<stop, written, main, name, history>>

-----------------------------------------------------------------------------
(* The main thread: the configuration, and the end of the program. *)

\* updateEnabled and startWriter.
startWriter ==
  /\ main = "idle" /\ stop
  /\ \E w \in Writers :
       /\ writers[w].pc = "none" /\ \A v \in Writers : v < w => v \in Created
       /\ writers' = [writers EXCEPT ![w] = [NoWriter EXCEPT !.pc = "check"]]
  /\ stop' = FALSE /\ full' = FALSE
  /\ name' = [name EXCEPT !.requested = TRUE]
  /\ history' = [history EXCEPT !.overlap = @ \/ Alive # {}]
  /\ UNCHANGED <<queue, pushed, accepted, written, loggers, main>>

\* stopWriter under the lock: stop, and the writer is woken.
Notice(wait) ==
  /\ stop' = TRUE
  /\ main' = IF wait THEN "joining" ELSE main
  /\ writers' \in Signalled

\* updateEnabled when the logger is disabled: the thread is not waited for.
Disable ==
  /\ main = "idle" /\ ~stop
  /\ Notice(FALSE)
  /\ history' = [history EXCEPT !.disabled = TRUE]
  /\ UNCHANGED <<full, queue, pushed, accepted, written, loggers, name>>

\* uv_thread_join returns.
Joined == Latest \notin Alive /\ main' = "destroyed"

\* ~Log: stopWriter returns at once when the logger is stopped.
Destroy ==
  /\ main = "idle"
  /\ IF stop THEN main' = "destroyed" /\ UNCHANGED <<stop, writers>> ELSE Notice(TRUE)
  /\ UNCHANGED <<full, queue, pushed, accepted, written, loggers, name, history>>

Join ==
  /\ main = "joining" /\ Joined
  /\ UNCHANGED <<stop, full, queue, pushed, accepted, written, loggers, writers, name, history>>

\* The name is changed in the configuration, and then updateFile is called.
SetName ==
  /\ main = "idle" /\ ~name.notify /\ name.value < MaxNames
  /\ name' = [name EXCEPT !.value = @ + 1, !.notify = TRUE]
  /\ UNCHANGED <<stop, full, queue, pushed, accepted, written, loggers, writers, main, history>>

updateFile ==
  /\ name.notify
  /\ name' = [name EXCEPT !.requested = TRUE, !.notify = FALSE]
  /\ UNCHANGED <<stop, full, queue, pushed, accepted, written, loggers, writers, main, history>>

-----------------------------------------------------------------------------
(* logWritterThread. *)

\* The condition of the wait loop is looked at with the lock held.
WaitsOn == queue = << >> /\ ~stop

wait(w) ==
  /\ writers[w].pc \in {"check", "woken"} /\ WaitsOn
  /\ writers' = [writers EXCEPT ![w].pc = "waiting"]
  /\ UNCHANGED <<stop, full, queue, pushed, accepted, written, loggers, main, name, history>>

StaysFull == full

\* messageQueueFull after the swap.
NotFull == FALSE

\* endLoop, willUpdateFile and the swap of the queue.
Swapped(w) == [writers[w] EXCEPT !.pc = "batch", !.batch = queue, !.end = stop, !.update = name.requested]

swap(w) ==
  /\ writers[w].pc \in {"check", "woken"} /\ ~WaitsOn
  /\ writers' = [writers EXCEPT ![w] = Swapped(w)]
  /\ queue' = writers[w].batch
  /\ full' = NotFull
  /\ UNCHANGED <<stop, pushed, accepted, written, loggers, main, name, history>>

\* Is updateFileRequested cleared, and the file opened, for this batch?
Reopens(w) == writers[w].batch # << >> /\ (writers[w].update \/ writers[w].file = -1)

clearRequest(w) ==
  /\ writers[w].pc = "batch"
  /\ writers' = [writers EXCEPT ![w].pc = IF Reopens(w) THEN "open" ELSE "write"]
  /\ name' = IF Reopens(w) THEN [name EXCEPT !.requested = FALSE] ELSE name
  /\ UNCHANGED <<stop, full, queue, pushed, accepted, written, loggers, main, history>>

Batch(w) == {writers[w].batch[i] : i \in DOMAIN writers[w].batch}

\* openLogFile, with the name as it is now; the old file, if any, is kept when
\* it fails.
openLogFile(w, ok) ==
  /\ writers[w].pc = "open"
  /\ writers' = [writers EXCEPT ![w].pc = "write", ![w].failed = ~ok, ![w].file = IF ok THEN name.value ELSE @]
  /\ history' = IF ok \/ writers[w].file # -1 THEN history ELSE [history EXCEPT !.unopened = @ \cup Batch(w)]
  /\ UNCHANGED <<stop, full, queue, pushed, accepted, written, loggers, main, name>>

\* messagesToWrite->clear().
Cleared(w) == << >>

\* The messages of the batch, which are deleted also when there is no file; the
\* loop ends if stop was set at the swap.
writeMessages(w) ==
  /\ writers[w].pc = "write"
  /\ written' = IF writers[w].file # -1 THEN written \o writers[w].batch ELSE written
  /\ writers' = [writers EXCEPT ![w].batch = Cleared(w), ![w].pc = IF writers[w].end THEN "ended" ELSE "check"]
  /\ UNCHANGED <<stop, full, queue, pushed, accepted, loggers, main, name, history>>

Write(w) == wait(w) \/ swap(w) \/ clearRequest(w) \/ (\E ok \in BOOLEAN : openLogFile(w, ok)) \/ writeMessages(w)

Next ==
  \/ \E l \in Loggers : logv(l) \/ Push(l)
  \/ startWriter \/ Disable \/ Destroy \/ Join \/ SetName \/ updateFile
  \/ \E w \in Writers : Write(w)

Spec == Init /\ [][Next]_vars
FairSpec == Spec /\ (\A w \in Writers : WF_vars(Write(w))) /\ WF_vars(Join)

-----------------------------------------------------------------------------
(* Properties *)

Done == {written[i] : i \in DOMAIN written}

\* Every message that was pushed while the logger was enabled is written, also
\* when the logger is stopped right after, or enabled again before the old
\* writer has seen that it was disabled.  The one exception: the messages that
\* a writer without a file held when it failed to open one, which the code
\* deletes (Log.cpp:500-505).
AllWritten == accepted \subseteq Done \cup history.unopened
AcceptedWritten == <>[]AllWritten

\* What is on its way from the queue to the file.
Taken == UNION {Batch(w) : w \in Writers}
Queued == {queue[i] : i \in DOMAIN queue}

\* No message of an enabled logger is lost on its way, whatever happens to the
\* logger before a writer gets to it, unless the writer had no file and could
\* open none: those are lost, and only those.
NothingLost == accepted \subseteq Done \cup Taken \cup Queued \cup history.unopened

\* With one writer at a time the file has the messages in the order of the queue.
WrittenInOrder == ~history.overlap => \A i, j \in DOMAIN written : i < j => written[i] < written[j]

\* A logger that drops messages because the queue was full has something for the
\* writer to take, after which it takes messages again: full with an empty queue
\* would silence it for good.
QueueRecovers == full => queue # << >>

\* The destructor ends: it joins a thread that ends.  Not so when the logger was
\* disabled and enabled before the old thread looked: two threads wait then, and
\* one signal wakes one of them.
Joining == main = "joining"
Destroyed == main = "destroyed" \/ history.overlap
Joins == Joining ~> Destroyed

\* No writer uses the logger after it was destroyed, unless it was disabled
\* (then nobody waits for the thread).
DestroyedQuiet == main = "destroyed" /\ ~history.disabled => Alive = {}

\* A new file name is not forgotten: a writer that waits with a file of another
\* name will be told, though updateFileRequested is not protected by the lock.
\* (A file that cannot be opened is not tried again.)
NameFollows ==
  ~history.overlap =>
  \A w \in Writers : writers[w].pc = "waiting" /\ writers[w].file # -1 /\ ~writers[w].failed /\ writers[w].file # name.value
    => name.requested \/ name.notify

\* Between loggers and writers nothing is reordered, forgotten or used after its
\* end, whatever is enabled, disabled or renamed meanwhile (Log::logWritterThread).
QueueKept == NothingLost /\ WrittenInOrder /\ QueueRecovers /\ DestroyedQuiet /\ NameFollows
=============================================================================
