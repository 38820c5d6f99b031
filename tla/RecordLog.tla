------------------------------ MODULE RecordLog ------------------------------
(***************************************************************************)
(* Log records from the auth server to the log server: LogServerClient     *)
(* with its queue, the connections it makes, and a ClientSession of rzlog  *)
(* for each of them, which writes the file of the hour.                    *)
(*                                                                         *)
(* Records are numbered as sendLog is called; Login, the name of the       *)
(* program and that it starts, goes before them.  A FILE keeps what was    *)
(* written to it until it is closed or its buffer is full; a file is a     *)
(* function from positions to records, with a hole where nothing was       *)
(* written.  Left out: a file of rzlog that cannot be opened, without      *)
(* which records are dropped (rzlog ClientSession.cpp:52-55, 139), records *)
(* whose sizes do not add up (81-84) and a login whose name is refused     *)
(* (129).  StaysQueued is a mutated form of the definition that follows    *)
(* it.                                                                     *)
(***************************************************************************)
EXTENDS Integers, Sequences, FiniteSets

CONSTANTS
  MaxPending,   \* size of the queue (100 in the code)
  MaxBuffer,    \* records in the buffer of a FILE
  MaxRecords,   \* bound: calls of sendLog
  MaxConns,     \* bound: connections made
  MaxHours      \* bound: hours

VARIABLES
  client,           \* LogServerClient: state of its stream, calls of sendLog, number of connections
  pendingMessages,
  sessions,         \* connection -> ClientSession: wire, is it ending or gone, name known, hour of its file, buffer, position
  files,            \* hour -> what is on disk
  hour,
  history           \* accepted and lost records; what each connection's session received in each hour; openings

vars == <<client, pendingMessages, sessions, files, hour, history>>

Login == 0
End == -1

Hours == 1 .. MaxHours
NoFile == 0
NoSession == [st |-> "none", wire |-> << >>, named |-> FALSE, file |-> NoFile, buffer |-> << >>, position |-> 0]

Init ==
  /\ client = [st |-> "unconnected", calls |-> 0, conns |-> 0]
  /\ pendingMessages = << >>
  /\ sessions = [k \in 1 .. MaxConns |-> NoSession]
  /\ files = [h \in Hours |-> << >>]
  /\ hour = 1
  /\ history = [accepted |-> << >>, lost |-> {}, received |-> [h \in Hours |-> << >>], opened |-> [h \in Hours |-> 0]]

-----------------------------------------------------------------------------
(* LogServerClient *)

start ==
  /\ client.st = "unconnected" /\ client.conns < MaxConns
  /\ client' = [client EXCEPT !.st = "connecting"]
  /\ UNCHANGED <<pendingMessages, sessions, files, hour, history>>

StaysQueued(queue) == queue

\* What is left in the queue after it was sent.
Cleared(queue) == << >>

\* onConnected: the name, then what waited.
onConnected ==
  /\ client.st = "connecting"
  /\ client' = [client EXCEPT !.st = "connected", !.conns = @ + 1]
  /\ sessions' = [sessions EXCEPT ![client.conns + 1] =
                    [NoSession EXCEPT !.st = "open", !.wire = <<Login>> \o pendingMessages]]
  /\ pendingMessages' = Cleared(pendingMessages)
  /\ UNCHANGED <<files, hour, history>>

\* The connection cannot be made; what waited goes on waiting.
ConnectFails ==
  /\ client.st = "connecting"
  /\ client' = [client EXCEPT !.st = "unconnected"]
  /\ UNCHANGED <<pendingMessages, sessions, files, hour, history>>

\* sendLog: dropped when there is no stream, or no room; it also waits while the
\* stream is closing.
sendLog ==
  LET record == client.calls + 1
      queued == client.st \in {"connecting", "closing"} /\ Len(pendingMessages) < MaxPending
      written == client.st = "connected"
  IN  /\ client.calls < MaxRecords
      /\ client' = [client EXCEPT !.calls = record]
      /\ pendingMessages' = IF queued THEN Append(pendingMessages, record) ELSE pendingMessages
      /\ sessions' = IF written THEN [sessions EXCEPT ![client.conns].wire = Append(@, record)] ELSE sessions
      /\ history' = IF queued \/ written THEN [history EXCEPT !.accepted = Append(@, record)] ELSE history
      /\ UNCHANGED <<files, hour>>

\* stop: what was written still goes out before the stream is closed.
stop ==
  /\ client.st \in {"connecting", "connected"}
  /\ client' = [client EXCEPT !.st = "closing"]
  /\ IF client.st = "connected"
     THEN /\ sessions' = [sessions EXCEPT ![client.conns].wire = Append(@, End), ![client.conns].st = "ending"]
          /\ UNCHANGED pendingMessages
     ELSE /\ UNCHANGED sessions
          /\ pendingMessages' = IF Len(pendingMessages) < MaxPending THEN Append(pendingMessages, End) ELSE pendingMessages
  /\ UNCHANGED <<files, hour, history>>

Closed ==
  /\ client.st = "closing"
  /\ client' = [client EXCEPT !.st = "unconnected"]
  /\ UNCHANGED <<pendingMessages, sessions, files, hour, history>>

\* The connection is lost, with a part of what is on the way; the log server
\* notices it later.
Lost ==
  /\ client.st = "connected"
  /\ client' = [client EXCEPT !.st = "unconnected"]
  /\ \E n \in 0 .. Len(sessions[client.conns].wire) :
       LET wire == sessions[client.conns].wire
       IN  /\ sessions' = [sessions EXCEPT ![client.conns].st = "ending", ![client.conns].wire = SubSeq(wire, 1, n)]
           /\ history' = [history EXCEPT !.lost = @ \cup {wire[i] : i \in n + 1 .. Len(wire)}]
  /\ UNCHANGED <<pendingMessages, files, hour>>

-----------------------------------------------------------------------------
(* ClientSession *)

\* fflush: the buffer goes to the place in the file that the session is at.
Flushed(disk, s) ==
  IF s.file = NoFile THEN disk
  ELSE LET end == s.position + Len(s.buffer)
           old == disk[s.file]
       IN  [disk EXCEPT ![s.file] = [i \in DOMAIN old \cup (s.position + 1 .. end) |->
              IF i \in s.position + 1 .. end THEN s.buffer[i - s.position] ELSE old[i]]]
Empty(s) == [s EXCEPT !.buffer = << >>, !.position = @ + Len(s.buffer)]

isDateNeedNewFile(s) == s.file # hour

\* onPacketReceived: the first login gives the session its name, and a session
\* with a name writes; the file of a new hour is made, or emptied.
onPacketReceived(k) ==
  /\ sessions[k].st \in {"open", "ending"} /\ sessions[k].wire # << >>
  /\ LET record == Head(sessions[k].wire)
         s == [sessions[k] EXCEPT !.wire = Tail(@), !.named = @ \/ record = Login]
         opens == s.named /\ isDateNeedNewFile(s)
         closed == IF opens THEN Flushed(files, s) ELSE files
         ready == IF opens THEN [s EXCEPT !.file = hour, !.buffer = << >>, !.position = 0] ELSE s
     IN  /\ files' = IF opens THEN [closed EXCEPT ![hour] = << >>] ELSE closed
         /\ sessions' = [sessions EXCEPT ![k] = IF ready.file = NoFile THEN ready ELSE [ready EXCEPT !.buffer = Append(@, record)]]
         /\ Len(ready.buffer) < MaxBuffer
         /\ history' = [history EXCEPT !.received[hour] = Append(@, record),
                                       !.opened[hour] = @ + IF opens THEN 1 ELSE 0]
  /\ UNCHANGED <<client, pendingMessages, hour>>

\* The buffer of the FILE is full.
Flush(k) ==
  /\ Len(sessions[k].buffer) = MaxBuffer
  /\ files' = Flushed(files, sessions[k])
  /\ sessions' = [sessions EXCEPT ![k] = Empty(@)]
  /\ UNCHANGED <<client, pendingMessages, hour, history>>

\* ~ClientSession: fclose.
Disconnected(k) ==
  /\ sessions[k].st = "ending" /\ sessions[k].wire = << >>
  /\ files' = Flushed(files, sessions[k])
  /\ sessions' = [sessions EXCEPT ![k] = [NoSession EXCEPT !.st = "gone"]]
  /\ UNCHANGED <<client, pendingMessages, hour, history>>

Tick ==
  /\ hour < MaxHours
  /\ hour' = hour + 1
  /\ UNCHANGED <<client, pendingMessages, sessions, files, history>>

Next ==
  \/ start \/ Closed \/ onConnected \/ ConnectFails \/ sendLog \/ stop \/ Lost \/ Tick
  \/ \E k \in 1 .. MaxConns : onPacketReceived(k) \/ Flush(k) \/ Disconnected(k)

-----------------------------------------------------------------------------
(* Properties *)

Records(seq) == SelectSeq(seq, LAMBDA r : r > 0)
Times(r, seq) == Cardinality({i \in DOMAIN seq : seq[i] = r})
RECURSIVE SumOver(_, _)
SumOver(f, set) == IF set = {} THEN 0 ELSE LET x == CHOOSE x \in set : TRUE IN f[x] + SumOver(f, set \ {x})

\* A record that was accepted waits, is on the way, was lost with its
\* connection, or was received: one of these, and once.
Once ==
  \A r \in {history.accepted[i] : i \in DOMAIN history.accepted} :
    Times(r, pendingMessages)
    + SumOver([k \in 1 .. MaxConns |-> Times(r, sessions[k].wire)], 1 .. MaxConns)
    + SumOver([h \in Hours |-> Times(r, history.received[h])], Hours)
    + (IF r \in history.lost THEN 1 ELSE 0) = 1

\* Records of a connection are written in the order they were made in.
InOrder ==
  \A k \in 1 .. MaxConns : LET q == Records(sessions[k].buffer \o sessions[k].wire) IN
    \A i, j \in DOMAIN q : i < j => q[i] < q[j]

\* The file of an hour that was opened by one connection has all that was
\* received in it: the rest is in the buffer of the session that has it open.
WholeHours ==
  \A h \in Hours : history.opened[h] = 1 =>
    LET writers == {k \in 1 .. MaxConns : sessions[k].file = h}
        buffered == IF writers = {} THEN << >> ELSE sessions[CHOOSE k \in writers : TRUE].buffer
    IN  Cardinality(writers) <= 1 /\ files[h] \o buffered = history.received[h]

RecordsKept == Once /\ InOrder /\ WholeHours
=============================================================================
