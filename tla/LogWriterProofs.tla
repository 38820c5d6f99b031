-------------------------- MODULE LogWriterProofs --------------------------
(***************************************************************************)
(* Proofs about LogWriter, for any number of threads that log, any number  *)
(* of writer threads, and any sequence of enabling, disabling, renaming    *)
(* and destroying the logger: nothing is lost or reordered between the     *)
(* queue and the file, the queue recovers from being full, and the logger  *)
(* is not used after its end.                                              *)
(***************************************************************************)
EXTENDS LogWriter, SequenceTheorems, TLAPS

(* The inductive invariant                                                  *)

WriterStates ==
  [pc : {"none", "check", "waiting", "woken", "batch", "open", "write", "ended"},
   batch : Seq(Nat), end : BOOLEAN, update : BOOLEAN, file : Int, failed : BOOLEAN]

TypeOK ==
  /\ stop \in BOOLEAN /\ full \in BOOLEAN
  /\ queue \in Seq(Nat) /\ pushed \in Nat /\ written \in Seq(Nat)
  /\ loggers \in [Loggers -> BOOLEAN]
  /\ writers \in [Writers -> WriterStates]
  /\ main \in {"idle", "joining", "destroyed"}
  /\ name \in [value : Nat, requested : BOOLEAN, notify : BOOLEAN]
  /\ history \in [overlap : BOOLEAN, disabled : BOOLEAN, unopened : SUBSET Nat]

\* Only a writer between its swap and its clear holds messages.
HandsEmpty ==
  \A w \in Writers : writers[w].pc \notin {"batch", "open", "write"} => writers[w].batch = << >>

Ascending(s) == \A i, j \in DOMAIN s : i < j => s[i] < s[j]

Before(s, t) == \A i \in DOMAIN s, j \in DOMAIN t : s[i] < t[j]

UpTo(s, n) == \A i \in DOMAIN s : s[i] <= n

Elems(s) == {s[i] : i \in DOMAIN s}

\* NothingLost, message by message.
Kept ==
  \A m \in accepted :
    \/ m \in Elems(written)
    \/ m \in Elems(queue)
    \/ m \in history.unopened
    \/ \E w \in Writers : m \in Elems(writers[w].batch)

\* A writer that gets to its messages without a file has failed to open one.
Unfiled ==
  \A w \in Writers :
    writers[w].pc = "write" /\ writers[w].file = -1 => Elems(writers[w].batch) \subseteq history.unopened

\* The queue, what a writer has taken, and what is written follow each other.
Ordered ==
  /\ Ascending(queue) /\ UpTo(queue, pushed)
  /\ \A w \in Writers :
       /\ Ascending(writers[w].batch) /\ UpTo(writers[w].batch, pushed)
       /\ Before(writers[w].batch, queue)
  /\ ~history.overlap =>
       /\ Ascending(written) /\ UpTo(written, pushed) /\ Before(written, queue)
       /\ \A w \in Writers : Before(written, writers[w].batch)

OneAtATime == ~history.overlap => \A v, w \in Alive : v = w

\* A logger that was never disabled has at most one thread, which it joins.
Lifetime ==
  ~history.disabled =>
    /\ \A v, w \in Created : v = w
    /\ main = "idle" /\ stop => Created = {}
    /\ ~stop \/ main = "joining" => Created # {}
    /\ main = "destroyed" => Alive = {}

\* Wherever a writer stands, a new file name reaches it.
Renamed ==
  ~history.overlap =>
  \A w \in Alive :
    /\ writers[w].pc # "open"
    /\ writers[w].file # -1 /\ ~writers[w].failed /\ writers[w].file # name.value
    => name.requested \/ name.notify

Inv ==
  /\ TypeOK /\ HandsEmpty /\ Kept /\ Unfiled /\ Ordered /\ OneAtATime
  /\ QueueRecovers /\ Lifetime /\ Renamed

-----------------------------------------------------------------------------
(* Sequences of messages                                                    *)

LEMMA EmptyFacts ==
  /\ << >> \in Seq(Nat) /\ Elems(<< >>) = {} /\ Ascending(<< >>)
  /\ \A n : UpTo(<< >>, n)
  /\ \A s : Before(s, << >>) /\ Before(<< >>, s)
BY DEF Elems, Ascending, UpTo, Before

LEMMA AppendFacts ==
  ASSUME NEW q \in Seq(Nat), NEW p \in Nat, Ascending(q), UpTo(q, p)
  PROVE  /\ Append(q, p + 1) \in Seq(Nat)
         /\ Append(q, p + 1) # << >>
         /\ Elems(Append(q, p + 1)) = Elems(q) \cup {p + 1}
         /\ Ascending(Append(q, p + 1)) /\ UpTo(Append(q, p + 1), p + 1)
         /\ \A s \in Seq(Nat) :
              Before(s, q) /\ UpTo(s, p) => Before(s, Append(q, p + 1)) /\ UpTo(s, p + 1)
<1> DEFINE r == Append(q, p + 1)
           n == Len(q)
<1>1. /\ n \in Nat /\ DOMAIN q = 1 .. n /\ \A i \in 1 .. n : q[i] \in Nat
      /\ r \in Seq(Nat) /\ DOMAIN r = 1 .. n + 1
      /\ \A i \in 1 .. n : r[i] = q[i]
      /\ r[n + 1] = p + 1
  BY AppendProperties, LenProperties, ElementOfSeq
<1>2. r # << >>
  <2>1. Len(r) = n + 1
    BY AppendProperties
  <2>2. Len(r) > 0
    BY <1>1, <2>1
  <2> QED  BY <2>2, EmptySeq
<1> HIDE DEF r, n
<1>3. \A i \in 1 .. n + 1 : i \in 1 .. n \/ i = n + 1
  BY <1>1
<1>4. n + 1 \in 1 .. n + 1 /\ \A i \in 1 .. n : i \in 1 .. n + 1
  BY <1>1
<1>5. Elems(r) = Elems(q) \cup {p + 1}
  BY <1>1, <1>3, <1>4 DEF Elems
<1>6. \A i \in 1 .. n : r[i] <= p
  BY <1>1 DEF UpTo
<1>7. UpTo(r, p + 1)
  BY <1>1, <1>3, <1>6 DEF UpTo
<1>8. Ascending(r)
  <2>1. ASSUME NEW i \in 1 .. n + 1, NEW j \in 1 .. n + 1, i < j
        PROVE  r[i] < r[j]
    <3>1. i \in 1 .. n
      BY <1>1, <2>1
    <3>2. CASE j \in 1 .. n
      BY <1>1, <2>1, <3>1, <3>2 DEF Ascending
    <3>3. CASE j = n + 1
      BY <1>1, <1>6, <3>1, <3>3
    <3> QED  BY <1>3, <3>2, <3>3
  <2> QED  BY <1>1, <2>1 DEF Ascending
<1>9. ASSUME NEW s \in Seq(Nat), Before(s, q), UpTo(s, p)
      PROVE  Before(s, r) /\ UpTo(s, p + 1)
  <2>1. \A i \in DOMAIN s : s[i] \in Nat /\ s[i] <= p
    BY <1>9, LenProperties, ElementOfSeq DEF UpTo
  <2>2. ASSUME NEW i \in DOMAIN s, NEW j \in 1 .. n + 1
        PROVE  s[i] < r[j]
    <3>1. CASE j \in 1 .. n
      BY <1>1, <1>9, <3>1 DEF Before
    <3>2. CASE j = n + 1
      BY <1>1, <2>1, <3>2
    <3> QED  BY <1>3, <3>1, <3>2
  <2> QED  BY <1>1, <2>1, <2>2 DEF Before, UpTo
<1> QED  BY <1>1, <1>2, <1>5, <1>7, <1>8, <1>9 DEF r

LEMMA ConcatFacts ==
  ASSUME NEW s \in Seq(Nat), NEW b \in Seq(Nat)
  PROVE  /\ s \o b \in Seq(Nat)
         /\ Elems(s \o b) = Elems(s) \cup Elems(b)
         /\ Ascending(s) /\ Ascending(b) /\ Before(s, b) => Ascending(s \o b)
         /\ \A p : UpTo(s, p) /\ UpTo(b, p) => UpTo(s \o b, p)
         /\ \A t : Before(s, t) /\ Before(b, t) => Before(s \o b, t)
<1> DEFINE r == s \o b
           m == Len(s)
           n == Len(b)
<1>1. /\ m \in Nat /\ n \in Nat /\ DOMAIN s = 1 .. m /\ DOMAIN b = 1 .. n
      /\ r \in Seq(Nat) /\ DOMAIN r = 1 .. m + n
      /\ \A i \in 1 .. m + n : r[i] = IF i <= m THEN s[i] ELSE b[i - m]
  BY ConcatProperties, LenProperties
<1> HIDE DEF r, m, n
<1>2. ASSUME NEW i \in 1 .. m + n
      PROVE  \/ i \in 1 .. m /\ r[i] = s[i]
             \/ i - m \in 1 .. n /\ ~(i <= m) /\ r[i] = b[i - m]
  BY <1>1
<1>3. ASSUME NEW i \in 1 .. m PROVE i \in 1 .. m + n /\ r[i] = s[i]
  <2>1. i \in 1 .. m + n /\ i <= m
    BY <1>1
  <2>2. r[i] = IF i <= m THEN s[i] ELSE b[i - m]
    BY <1>1, <2>1
  <2> QED  BY <2>1, <2>2
<1>4. ASSUME NEW j \in 1 .. n PROVE j + m \in 1 .. m + n /\ r[j + m] = b[j]
  <2>1. j + m \in 1 .. m + n /\ ~(j + m <= m) /\ j + m - m = j
    BY <1>1
  <2>2. r[j + m] = IF j + m <= m THEN s[j + m] ELSE b[j + m - m]
    BY <1>1, <2>1
  <2> QED  BY <2>1, <2>2
<1>5. Elems(r) = Elems(s) \cup Elems(b)
  <2>1. \A i \in 1 .. m + n : r[i] \in Elems(s) \cup Elems(b)
    BY <1>1, <1>2 DEF Elems
  <2>2. \A i \in 1 .. m : s[i] \in Elems(r)
    BY <1>1, <1>3 DEF Elems
  <2>3. \A j \in 1 .. n : b[j] \in Elems(r)
    BY <1>1, <1>4 DEF Elems
  <2> QED  BY <1>1, <2>1, <2>2, <2>3 DEF Elems
<1>6. ASSUME Ascending(s), Ascending(b), Before(s, b) PROVE Ascending(r)
  <2>1. ASSUME NEW i \in 1 .. m + n, NEW j \in 1 .. m + n, i < j
        PROVE  r[i] < r[j]
    <3>1. CASE i \in 1 .. m /\ j \in 1 .. m
      BY <1>1, <1>3, <1>6, <2>1, <3>1 DEF Ascending
    <3>2. CASE i \in 1 .. m /\ j \notin 1 .. m
      <4>1. j - m \in 1 .. n /\ r[j] = b[j - m] /\ r[i] = s[i]
        BY <1>2, <1>3, <3>2
      <4> QED  BY <1>1, <1>6, <3>2, <4>1 DEF Before
    <3>3. CASE i \notin 1 .. m
      <4>1. j \notin 1 .. m
        BY <1>1, <2>1, <3>3
      <4>2. i - m \in 1 .. n /\ j - m \in 1 .. n /\ i - m < j - m
            /\ r[i] = b[i - m] /\ r[j] = b[j - m]
        BY <1>1, <1>2, <2>1, <3>3, <4>1
      <4> QED  BY <1>1, <1>6, <4>2 DEF Ascending
    <3> QED  BY <3>1, <3>2, <3>3
  <2> QED  BY <1>1, <2>1 DEF Ascending
<1>7. ASSUME NEW p, UpTo(s, p), UpTo(b, p) PROVE UpTo(r, p)
  BY <1>1, <1>2, <1>7 DEF UpTo
<1>8. ASSUME NEW t, Before(s, t), Before(b, t) PROVE Before(r, t)
  BY <1>1, <1>2, <1>8 DEF Before
<1> QED  BY <1>1, <1>5, <1>6, <1>7, <1>8 DEF r

-----------------------------------------------------------------------------
(* Steps that move no message                                               *)

Free == {"check", "waiting", "woken"}

\* The writers do what they did, or fall asleep, or are woken.
SameWriters ==
  \A w \in Writers :
    /\ writers'[w] \in WriterStates
    /\ writers'[w].batch = writers[w].batch /\ writers'[w].file = writers[w].file
    /\ writers'[w].failed = writers[w].failed
    /\ writers'[w].pc = writers[w].pc \/ {writers[w].pc, writers'[w].pc} \subseteq Free

LEMMA SignalledSame ==
  ASSUME TypeOK, writers' \in Signalled
  PROVE  SameWriters /\ writers' \in [Writers -> WriterStates]
<1>1. writers \in [Writers -> WriterStates]
  BY DEF TypeOK
<1>2. CASE writers' = writers
  BY <1>1, <1>2 DEF SameWriters
<1>3. CASE writers' # writers
  <2>1. PICK v \in Writers : /\ writers[v].pc = "waiting"
                             /\ writers' = [writers EXCEPT ![v].pc = "woken"]
    BY <1>3 DEF Signalled
  <2>2. \A w \in Writers : writers'[w] = IF w = v THEN [writers[v] EXCEPT !.pc = "woken"]
                                         ELSE writers[w]
    BY <1>1, <2>1
  <2>3. LET n == [writers[v] EXCEPT !.pc = "woken"]
        IN  n \in WriterStates /\ n.pc = "woken" /\ n.batch = writers[v].batch
            /\ n.file = writers[v].file /\ n.failed = writers[v].failed
    BY <1>1 DEF WriterStates
  <2>4. ASSUME NEW w \in Writers
        PROVE  /\ writers'[w] \in WriterStates
               /\ writers'[w].batch = writers[w].batch /\ writers'[w].file = writers[w].file
               /\ writers'[w].failed = writers[w].failed
               /\ writers'[w].pc = writers[w].pc \/ {writers[w].pc, writers'[w].pc} \subseteq Free
    BY <1>1, <2>1, <2>2, <2>3 DEF Free
  <2>5. writers' \in [Writers -> WriterStates]
    BY <1>1, <2>1, <2>3
  <2> QED  BY <2>4, <2>5 DEF SameWriters
<1> QED  BY <1>2, <1>3

LEMMA UnchangedSame ==
  ASSUME TypeOK, UNCHANGED writers
  PROVE  SameWriters
BY DEF TypeOK, SameWriters

LEMMA Quiet ==
  ASSUME Inv, SameWriters, UNCHANGED <<queue, pushed, accepted, written>>,
         history'.overlap = history.overlap, history'.unopened = history.unopened
  PROVE  /\ HandsEmpty' /\ Kept' /\ Unfiled' /\ Ordered' /\ OneAtATime'
         /\ Created' = Created /\ Alive' = Alive
<1>1. Created' = Created /\ Alive' = Alive
  BY DEF SameWriters, Created, Alive, Free
<1>2. HandsEmpty'
  <2>1. ASSUME NEW w \in Writers, writers'[w].pc \notin {"batch", "open", "write"}
        PROVE  writers'[w].batch = << >>
    <3>1. writers[w].pc \notin {"batch", "open", "write"}
      BY <2>1 DEF SameWriters, Free
    <3> QED  BY <3>1 DEF Inv, HandsEmpty, SameWriters
  <2> QED  BY <2>1 DEF HandsEmpty
<1>3. Kept'
  BY DEF Inv, Kept, SameWriters
<1>4. Ordered'
  BY DEF Inv, Ordered, SameWriters
<1>5. OneAtATime'
  BY <1>1 DEF Inv, OneAtATime
<1>6. Unfiled'
  <2>1. ASSUME NEW w \in Writers, writers'[w].pc = "write", writers'[w].file = -1
        PROVE  Elems(writers'[w].batch) \subseteq history.unopened
    <3>1. /\ writers[w].pc = "write" /\ writers[w].file = -1
          /\ writers'[w].batch = writers[w].batch
      BY <2>1 DEF SameWriters, Free
    <3> QED  BY <3>1 DEF Inv, Unfiled
  <2> QED  BY <2>1 DEF Unfiled
<1> QED  BY <1>1, <1>2, <1>3, <1>4, <1>5, <1>6

-----------------------------------------------------------------------------
(* The steps                                                                *)

\* What logv, the main thread and the change of the name keep.
LEMMA MainSteps ==
  ASSUME Assumptions, Inv, [Next]_vars,
         ~(\E l \in Loggers : Push(l)), ~startWriter,
         ~(\E w \in Writers : swap(w) \/ clearRequest(w) \/ writeMessages(w)
                              \/ \E ok \in BOOLEAN : openLogFile(w, ok))
  PROVE  Inv'
<1> USE DEF Inv
<1>1. CASE UNCHANGED vars
  <2>1. SameWriters
    BY <1>1, UnchangedSame DEF vars
  <2>2. HandsEmpty' /\ Kept' /\ Unfiled' /\ Ordered' /\ OneAtATime' /\ Created' = Created /\ Alive' = Alive
    BY <1>1, <2>1, Quiet DEF vars
  <2> QED  BY <1>1, <2>2 DEF vars, TypeOK, QueueRecovers, Lifetime, Renamed
<1>2. ASSUME NEW l \in Loggers, logv(l) PROVE Inv'
  <2>1. SameWriters
    BY <1>2, UnchangedSame DEF logv
  <2>2. HandsEmpty' /\ Kept' /\ Unfiled' /\ Ordered' /\ OneAtATime' /\ Created' = Created /\ Alive' = Alive
    BY <1>2, <2>1, Quiet DEF logv
  <2>3. TypeOK'
    BY <1>2 DEF logv, TypeOK
  <2> QED  BY <1>2, <2>2, <2>3 DEF logv, QueueRecovers, Lifetime, Renamed
<1>3. CASE Disable
  <2>1. SameWriters /\ writers' \in [Writers -> WriterStates]
    BY <1>3, SignalledSame DEF Disable, Notice
  <2>2. history' = [history EXCEPT !.disabled = TRUE] /\ main = "idle" /\ main' = main
    BY <1>3 DEF Disable, Notice
  <2>3. history'.overlap = history.overlap /\ history'.disabled
        /\ history'.unopened = history.unopened
        /\ history' \in [overlap : BOOLEAN, disabled : BOOLEAN, unopened : SUBSET Nat]
    BY <2>2 DEF TypeOK
  <2>4. HandsEmpty' /\ Kept' /\ Unfiled' /\ Ordered' /\ OneAtATime' /\ Created' = Created /\ Alive' = Alive
    BY <1>3, <2>1, <2>3, Quiet DEF Disable
  <2>5. TypeOK'
    BY <1>3, <2>1, <2>2, <2>3 DEF Disable, Notice, TypeOK
  <2>6. Renamed'
    BY <1>3, <2>1, <2>3, <2>4 DEF Disable, Renamed, SameWriters, Alive, Created, Free
  <2> QED  BY <1>3, <2>3, <2>4, <2>5, <2>6 DEF Disable, QueueRecovers, Lifetime
<1>4. CASE Destroy
  <2>1. SameWriters /\ writers' \in [Writers -> WriterStates]
    <3>1. UNCHANGED writers \/ writers' \in Signalled
      BY <1>4 DEF Destroy, Notice
    <3> QED  BY <3>1, UnchangedSame, SignalledSame DEF TypeOK
  <2>2. HandsEmpty' /\ Kept' /\ Unfiled' /\ Ordered' /\ OneAtATime' /\ Created' = Created /\ Alive' = Alive
    BY <1>4, <2>1, Quiet DEF Destroy
  <2>3. TypeOK'
    BY <1>4, <2>1 DEF Destroy, Notice, TypeOK
  <2>4. Renamed'
    BY <1>4, <2>1, <2>2 DEF Destroy, Renamed, SameWriters, Alive, Created, Free
  <2>5. Lifetime'
    <3>1. CASE stop
      <4>1. ~history.disabled => Created = {} /\ Alive = {}
        BY <1>4, <3>1 DEF Destroy, Lifetime, Alive
      <4> QED  BY <1>4, <2>2, <3>1, <4>1 DEF Destroy, Lifetime
    <3>2. CASE ~stop
      <4>1. main = "idle" /\ main' = "joining" /\ history' = history
        BY <1>4, <3>2 DEF Destroy, Notice
      <4>2. ~history.disabled => Created # {}
        BY <3>2, <4>1 DEF Lifetime
      <4> QED  BY <2>2, <4>1, <4>2 DEF Lifetime
    <3> QED  BY <3>1, <3>2
  <2> QED  BY <1>4, <2>2, <2>3, <2>4, <2>5 DEF Destroy, QueueRecovers
<1>5. CASE Join
  <2>1. SameWriters
    BY <1>5, UnchangedSame DEF Join
  <2>2. HandsEmpty' /\ Kept' /\ Unfiled' /\ Ordered' /\ OneAtATime' /\ Created' = Created /\ Alive' = Alive
    BY <1>5, <2>1, Quiet DEF Join
  <2>3. ASSUME ~history.disabled PROVE Alive = {}
    <3>1. PICK w \in Created : \A v \in Created : v = w
      BY <1>5, <2>3 DEF Join, Lifetime
    <3>2. w \in Nat /\ Created = {w}
      BY <3>1 DEF Created, Assumptions
    <3>3. Latest = w
      BY <3>2 DEF Latest
    <3>4. Alive \subseteq Created
      BY DEF Alive
    <3> QED  BY <1>5, <3>2, <3>3, <3>4 DEF Join, Joined
  <2> QED  BY <1>5, <2>2, <2>3 DEF Join, Joined, TypeOK, QueueRecovers, Lifetime, Renamed
<1>6. CASE SetName
  <2>1. SameWriters
    BY <1>6, UnchangedSame DEF SetName
  <2>2. HandsEmpty' /\ Kept' /\ Unfiled' /\ Ordered' /\ OneAtATime' /\ Created' = Created /\ Alive' = Alive
    BY <1>6, <2>1, Quiet DEF SetName
  <2>3. name' \in [value : Nat, requested : BOOLEAN, notify : BOOLEAN] /\ name'.notify
    <3>1. /\ name \in [value : Nat, requested : BOOLEAN, notify : BOOLEAN]
          /\ name' = [name EXCEPT !.value = @ + 1, !.notify = TRUE]
      BY <1>6 DEF SetName, TypeOK
    <3>2. name.value + 1 \in Nat
      BY <3>1
    <3> QED  BY <3>1, <3>2
  <2>4. TypeOK'
    BY <1>6, <2>3 DEF SetName, TypeOK
  <2> QED  BY <1>6, <2>2, <2>3, <2>4 DEF SetName, QueueRecovers, Lifetime, Renamed
<1>7. CASE updateFile
  <2>1. SameWriters
    BY <1>7, UnchangedSame DEF updateFile
  <2>2. HandsEmpty' /\ Kept' /\ Unfiled' /\ Ordered' /\ OneAtATime' /\ Created' = Created /\ Alive' = Alive
    BY <1>7, <2>1, Quiet DEF updateFile
  <2>3. name' \in [value : Nat, requested : BOOLEAN, notify : BOOLEAN] /\ name'.requested
    BY <1>7 DEF updateFile, TypeOK
  <2>4. TypeOK'
    BY <1>7, <2>3 DEF updateFile, TypeOK
  <2> QED  BY <1>7, <2>2, <2>3, <2>4 DEF updateFile, QueueRecovers, Lifetime, Renamed
<1>8. ASSUME NEW w \in Writers, wait(w) PROVE Inv'
  <2>1. /\ writers[w].pc \in {"check", "woken"}
        /\ writers' = [writers EXCEPT ![w].pc = "waiting"]
        /\ writers \in [Writers -> WriterStates]
    BY <1>8 DEF wait, TypeOK
  <2>2. LET n == [writers[w] EXCEPT !.pc = "waiting"]
        IN  n \in WriterStates /\ n.pc = "waiting" /\ n.batch = writers[w].batch
            /\ n.file = writers[w].file /\ n.failed = writers[w].failed
    BY <2>1 DEF WriterStates
  <2>3. SameWriters /\ writers' \in [Writers -> WriterStates]
    BY <2>1, <2>2 DEF SameWriters, Free
  <2>4. HandsEmpty' /\ Kept' /\ Unfiled' /\ Ordered' /\ OneAtATime' /\ Created' = Created /\ Alive' = Alive
    BY <1>8, <2>3, Quiet DEF wait
  <2>5. TypeOK'
    BY <1>8, <2>3 DEF wait, TypeOK
  <2>6. Renamed'
    BY <1>8, <2>3, <2>4 DEF wait, Renamed, SameWriters, Alive, Created, Free
  <2> QED  BY <1>8, <2>4, <2>5, <2>6 DEF wait, QueueRecovers, Lifetime
<1> QED  BY <1>1, <1>2, <1>3, <1>4, <1>5, <1>6, <1>7, <1>8 DEF Next, Write

LEMMA PushStep ==
  ASSUME Assumptions, Inv, NEW l \in Loggers, Push(l)
  PROVE  Inv'
<1> USE DEF Inv
<1>1. /\ queue \in Seq(Nat) /\ pushed \in Nat /\ written \in Seq(Nat)
      /\ writers \in [Writers -> WriterStates] /\ Len(queue) \in Nat
      /\ \A w \in Writers : writers[w].batch \in Seq(Nat)
  BY LenProperties DEF TypeOK, WriterStates
<1>2. SameWriters /\ writers' \in [Writers -> WriterStates]
  BY SignalledSame DEF Push, Wakes
<1>3. /\ written' = written /\ history' = history /\ stop' = stop /\ name' = name
      /\ main' = main /\ full' = Fills /\ queue' = Pushed
  BY DEF Push
<1>4. Ascending(queue) /\ UpTo(queue, pushed)
  BY DEF Ordered
<1>5. Created' = Created /\ Alive' = Alive
  BY <1>2 DEF SameWriters, Created, Alive, Free
<1>6. HandsEmpty'
  <2>1. ASSUME NEW w \in Writers, writers'[w].pc \notin {"batch", "open", "write"}
        PROVE  writers'[w].batch = << >>
    <3>1. writers[w].pc \notin {"batch", "open", "write"}
      BY <1>2, <2>1 DEF SameWriters, Free
    <3> QED  BY <1>2, <3>1 DEF HandsEmpty, SameWriters
  <2> QED  BY <2>1 DEF HandsEmpty
<1>7. OneAtATime' /\ Lifetime'
  BY <1>3, <1>5 DEF OneAtATime, Lifetime
<1>8. Renamed' /\ Unfiled'
  <2>1. ASSUME NEW w \in Writers, writers'[w].pc = "write", writers'[w].file = -1
        PROVE  Elems(writers'[w].batch) \subseteq history.unopened
    <3>1. /\ writers[w].pc = "write" /\ writers[w].file = -1
          /\ writers'[w].batch = writers[w].batch
      BY <1>2, <2>1 DEF SameWriters, Free
    <3> QED  BY <3>1 DEF Unfiled
  <2>2. Unfiled'
    BY <1>3, <2>1 DEF Unfiled
  <2> QED  BY <1>2, <1>3, <1>5, <2>2 DEF Renamed, SameWriters, Alive, Created, Free
<1>9. CASE Len(queue) < MaxQueue
  <2> DEFINE r == Append(queue, pushed + 1)
  <2>1. /\ r \in Seq(Nat) /\ r # << >> /\ Elems(r) = Elems(queue) \cup {pushed + 1}
        /\ Ascending(r) /\ UpTo(r, pushed + 1)
        /\ \A s \in Seq(Nat) :
             Before(s, queue) /\ UpTo(s, pushed) => Before(s, r) /\ UpTo(s, pushed + 1)
    BY <1>1, <1>4, AppendFacts
  <2>2. queue' = r /\ r # queue
    <3>1. Len(r) = Len(queue) + 1
      BY <1>1, AppendProperties
    <3>2. r # queue
      BY <1>1, <3>1
    <3> QED  BY <1>3, <1>9, <3>2 DEF Pushed
  <2>3. pushed' = pushed + 1 /\ accepted' \subseteq accepted \cup {pushed + 1}
    BY <1>3, <2>2 DEF Push
  <2> HIDE DEF r
  <2>4. TypeOK'
    BY <1>1, <1>2, <1>3, <2>1, <2>2, <2>3 DEF Push, TypeOK, Fills
  <2>5. Kept'
    BY <1>2, <1>3, <2>1, <2>2, <2>3 DEF Kept, SameWriters
  <2>6. Ordered'
    <3>1. ASSUME NEW w \in Writers
          PROVE  /\ Ascending(writers'[w].batch) /\ UpTo(writers'[w].batch, pushed + 1)
                 /\ Before(writers'[w].batch, r)
      BY <1>1, <1>2, <2>1 DEF Ordered, SameWriters
    <3>2. ASSUME ~history.overlap
          PROVE  /\ Ascending(written) /\ UpTo(written, pushed + 1) /\ Before(written, r)
                 /\ \A w \in Writers : Before(written, writers'[w].batch)
      BY <1>1, <1>2, <2>1, <3>2 DEF Ordered, SameWriters
    <3> QED  BY <1>3, <2>1, <2>2, <2>3, <3>1, <3>2 DEF Ordered
  <2>7. QueueRecovers'
    BY <2>1, <2>2 DEF QueueRecovers
  <2> QED  BY <1>6, <1>7, <1>8, <2>4, <2>5, <2>6, <2>7
<1>10. CASE ~(Len(queue) < MaxQueue)
  <2>1. queue' = queue /\ pushed' = pushed /\ accepted' = accepted
    BY <1>3, <1>10 DEF Push, Pushed
  <2>2. queue # << >>
    BY <1>1, <1>10, EmptySeq DEF Assumptions
  <2>3. Kept' /\ Ordered'
    BY <1>2, <1>3, <2>1, Quiet
  <2>4. TypeOK'
    BY <1>1, <1>2, <1>3, <2>1 DEF Push, TypeOK, Fills
  <2> QED  BY <1>6, <1>7, <1>8, <2>1, <2>2, <2>3, <2>4 DEF QueueRecovers
<1> QED  BY <1>9, <1>10

LEMMA NoWriterType ==
  /\ NoWriter \in WriterStates
  /\ NoWriter.pc = "none" /\ NoWriter.batch = << >> /\ NoWriter.file = -1
<1>1. << >> \in Seq(Nat) /\ -1 \in Int
  BY EmptyFacts
<1> QED  BY <1>1 DEF NoWriter, WriterStates

LEMMA StartStep ==
  ASSUME Inv, startWriter
  PROVE  Inv'
<1> USE DEF Inv
<1>1. PICK w \in Writers :
        /\ writers[w].pc = "none"
        /\ writers' = [writers EXCEPT ![w] = [NoWriter EXCEPT !.pc = "check"]]
  BY DEF startWriter
<1> DEFINE n == [NoWriter EXCEPT !.pc = "check"]
<1>2. n \in WriterStates /\ n.pc = "check" /\ n.batch = << >> /\ n.file = -1
  BY NoWriterType DEF WriterStates
<1>3. /\ writers' \in [Writers -> WriterStates] /\ writers'[w] = n
      /\ \A v \in Writers \ {w} : writers'[v] = writers[v]
  BY <1>1, <1>2 DEF TypeOK
<1> HIDE DEF n
<1>4. /\ main = "idle" /\ stop /\ stop' = FALSE /\ full' = FALSE /\ main' = main
      /\ UNCHANGED <<queue, pushed, accepted, written, loggers>>
      /\ name' = [name EXCEPT !.requested = TRUE]
      /\ history' = [history EXCEPT !.overlap = @ \/ Alive # {}]
  BY DEF startWriter
<1>5. /\ history' \in [overlap : BOOLEAN, disabled : BOOLEAN, unopened : SUBSET Nat]
      /\ history'.disabled = history.disabled /\ history'.unopened = history.unopened
      /\ ~history'.overlap => ~history.overlap /\ Alive = {}
      /\ name' \in [value : Nat, requested : BOOLEAN, notify : BOOLEAN]
      /\ name'.requested
  BY <1>4 DEF TypeOK
<1>6. TypeOK'
  BY <1>3, <1>4, <1>5 DEF TypeOK
<1>7. w \notin Alive /\ Alive' = Alive \cup {w} /\ Created' = Created \cup {w}
  BY <1>1, <1>2, <1>3 DEF Alive, Created
<1>8. HandsEmpty'
  BY <1>2, <1>3 DEF HandsEmpty
<1>9. writers[w].batch = << >>
  BY <1>1 DEF HandsEmpty
<1>10. Kept' /\ Unfiled'
  <2>1. \A v \in Writers : writers'[v].batch = writers[v].batch
    BY <1>2, <1>3, <1>9
  <2>2. ASSUME NEW v \in Writers, writers'[v].pc = "write", writers'[v].file = -1
        PROVE  Elems(writers'[v].batch) \subseteq history.unopened
    BY <1>2, <1>3, <2>2 DEF Unfiled
  <2> QED  BY <1>4, <1>5, <2>1, <2>2 DEF Kept, Unfiled
<1>11. Ordered'
  <2>1. \A v \in Writers : writers'[v].batch = writers[v].batch
    BY <1>2, <1>3, <1>9
  <2> QED  BY <1>4, <1>5, <2>1 DEF Ordered
<1>12. OneAtATime'
  BY <1>5, <1>7 DEF OneAtATime
<1>13. Lifetime'
  <2>1. ~history.disabled => Created = {}
    BY <1>4 DEF Lifetime
  <2> QED  BY <1>4, <1>5, <1>7, <2>1 DEF Lifetime
<1>14. Renamed'
  BY <1>5 DEF Renamed
<1> QED  BY <1>4, <1>6, <1>8, <1>10, <1>11, <1>12, <1>13, <1>14 DEF QueueRecovers

\* Steps of one writer that does not end.
LEMMA WriterSteps ==
  ASSUME Inv, NEW w \in Writers, NEW n \in WriterStates,
         writers[w].pc \notin {"none", "ended"}, n.pc \notin {"none", "ended"},
         writers' = [writers EXCEPT ![w] = n]
  PROVE  /\ writers' \in [Writers -> WriterStates] /\ writers'[w] = n
         /\ \A v \in Writers \ {w} : writers'[v] = writers[v]
         /\ w \in Alive /\ Created' = Created /\ Alive' = Alive
<1>1. /\ writers' \in [Writers -> WriterStates] /\ writers'[w] = n
      /\ \A v \in Writers \ {w} : writers'[v] = writers[v]
  BY DEF Inv, TypeOK
<1>2. w \in Alive /\ Created' = Created /\ Alive' = Alive
  BY <1>1 DEF Alive, Created
<1> QED  BY <1>1, <1>2

LEMMA SwapStep ==
  ASSUME Inv, NEW w \in Writers, swap(w)
  PROVE  Inv'
<1> USE DEF Inv
<1> DEFINE n == Swapped(w)
<1>1. /\ writers[w].pc \in {"check", "woken"} /\ writers' = [writers EXCEPT ![w] = n]
      /\ queue' = writers[w].batch /\ full' = FALSE
      /\ UNCHANGED <<stop, pushed, accepted, written, loggers, main, name, history>>
  BY DEF swap, NotFull
<1>2. /\ writers[w] \in WriterStates /\ writers \in [Writers -> WriterStates]
      /\ queue \in Seq(Nat) /\ stop \in BOOLEAN /\ name.requested \in BOOLEAN
  BY DEF TypeOK
<1>3. /\ n \in WriterStates /\ n.pc = "batch" /\ n.batch = queue
      /\ n.file = writers[w].file /\ n.failed = writers[w].failed
  BY <1>2 DEF Swapped, WriterStates
<1> HIDE DEF n
<1>4. /\ writers' \in [Writers -> WriterStates] /\ writers'[w] = n
      /\ \A v \in Writers \ {w} : writers'[v] = writers[v]
      /\ w \in Alive /\ Created' = Created /\ Alive' = Alive
  BY <1>1, <1>3, WriterSteps
<1>5. queue' = << >>
  BY <1>1 DEF HandsEmpty
<1>6. TypeOK'
  BY <1>1, <1>4, <1>5, EmptyFacts DEF TypeOK
<1>7. HandsEmpty'
  BY <1>3, <1>4 DEF HandsEmpty
<1>8. Kept'
  <2>1. ASSUME NEW m \in accepted
        PROVE  \/ m \in Elems(written) \/ m \in history.unopened
               \/ \E v \in Writers : m \in Elems(writers'[v].batch)
    <3>1. CASE m \in Elems(written)
      BY <3>1
    <3>2. CASE m \in Elems(queue)
      BY <1>3, <1>4, <3>2
    <3>3. ASSUME NEW v \in Writers, m \in Elems(writers[v].batch) PROVE v # w
      BY <1>1, <3>3, EmptyFacts DEF HandsEmpty
    <3> QED  BY <1>4, <3>1, <3>2, <3>3 DEF Kept
  <2> QED  BY <1>1, <2>1 DEF Kept
<1>9. Ordered'
  <2>1. ASSUME NEW v \in Writers
        PROVE  /\ Ascending(writers'[v].batch) /\ UpTo(writers'[v].batch, pushed)
               /\ Before(writers'[v].batch, << >>)
               /\ ~history.overlap => Before(written, writers'[v].batch)
    BY <1>3, <1>4, EmptyFacts DEF Ordered
  <2> QED  BY <1>1, <1>5, <2>1, EmptyFacts DEF Ordered
<1>10. Renamed' /\ Unfiled'
  <2>1. Renamed'
    BY <1>1, <1>3, <1>4 DEF Renamed
  <2>2. ASSUME NEW v \in Writers, writers'[v].pc = "write", writers'[v].file = -1
        PROVE  Elems(writers'[v].batch) \subseteq history.unopened
    BY <1>3, <1>4, <2>2 DEF Unfiled
  <2> QED  BY <1>1, <2>1, <2>2 DEF Unfiled
<1> QED  BY <1>1, <1>4, <1>6, <1>7, <1>8, <1>9, <1>10 DEF OneAtATime, Lifetime, QueueRecovers

LEMMA ClearRequestStep ==
  ASSUME Inv, NEW w \in Writers, clearRequest(w)
  PROVE  Inv'
<1> USE DEF Inv
<1> DEFINE n == [writers[w] EXCEPT !.pc = IF Reopens(w) THEN "open" ELSE "write"]
<1>1. /\ writers[w].pc = "batch" /\ writers' = [writers EXCEPT ![w] = n]
      /\ name' = IF Reopens(w) THEN [name EXCEPT !.requested = FALSE] ELSE name
      /\ UNCHANGED <<stop, full, queue, pushed, accepted, written, loggers, main, history>>
  BY DEF clearRequest
<1>2. writers[w] \in WriterStates /\ name \in [value : Nat, requested : BOOLEAN, notify : BOOLEAN]
  BY DEF TypeOK
<1>3. /\ n \in WriterStates /\ n.pc = IF Reopens(w) THEN "open" ELSE "write"
      /\ n.batch = writers[w].batch /\ n.file = writers[w].file
      /\ n.failed = writers[w].failed
  BY <1>2 DEF WriterStates
<1> HIDE DEF n
<1>4. /\ writers' \in [Writers -> WriterStates] /\ writers'[w] = n
      /\ \A v \in Writers \ {w} : writers'[v] = writers[v]
      /\ w \in Alive /\ Created' = Created /\ Alive' = Alive
  BY <1>1, <1>3, WriterSteps
<1>5. /\ name' \in [value : Nat, requested : BOOLEAN, notify : BOOLEAN]
      /\ name'.value = name.value /\ name'.notify = name.notify
      /\ ~Reopens(w) => name' = name
  BY <1>1, <1>2
<1>6. TypeOK'
  BY <1>1, <1>4, <1>5 DEF TypeOK
<1>7. HandsEmpty'
  BY <1>3, <1>4 DEF HandsEmpty
<1>8. \A v \in Writers : writers'[v].batch = writers[v].batch
  BY <1>3, <1>4
<1>9. Kept' /\ Ordered' /\ Unfiled'
  <2>1. ASSUME NEW v \in Writers, writers'[v].pc = "write", writers'[v].file = -1
        PROVE  Elems(writers'[v].batch) \subseteq history.unopened
    <3>1. CASE v = w
      <4>1. writers[w].batch = << >>
        BY <1>3, <1>4, <2>1, <3>1 DEF Reopens
      <4> QED  BY <1>8, <3>1, <4>1, EmptyFacts
    <3>2. CASE v # w
      BY <1>4, <2>1, <3>2 DEF Unfiled
    <3> QED  BY <3>1, <3>2
  <2> QED  BY <1>1, <1>8, <2>1 DEF Kept, Ordered, Unfiled
<1>10. Renamed'
  <2>1. ASSUME ~history.overlap, NEW v \in Alive,
               writers'[v].pc # "open", writers'[v].file # -1, ~writers'[v].failed,
               writers'[v].file # name.value
        PROVE  name'.requested \/ name'.notify
    <3>1. v = w
      BY <1>4, <2>1 DEF OneAtATime
    <3>2. ~Reopens(w)
      BY <1>3, <1>4, <2>1, <3>1
    <3>3. writers[w].file # -1 /\ ~writers[w].failed /\ writers[w].file # name.value
      BY <1>3, <1>4, <2>1, <3>1
    <3> QED  BY <1>1, <1>4, <1>5, <2>1, <3>2, <3>3 DEF Renamed
  <2> QED  BY <1>1, <1>4, <1>5, <2>1 DEF Renamed
<1> QED  BY <1>1, <1>4, <1>6, <1>7, <1>9, <1>10 DEF OneAtATime, Lifetime, QueueRecovers

LEMMA OpenStep ==
  ASSUME Inv, NEW w \in Writers, NEW ok \in BOOLEAN, openLogFile(w, ok)
  PROVE  Inv'
<1> USE DEF Inv
<1> DEFINE n == [writers[w] EXCEPT !.pc = "write", !.failed = ~ok,
                                   !.file = IF ok THEN name.value ELSE @]
<1> DEFINE lost == [history EXCEPT !.unopened = @ \cup Batch(w)]
<1>1. /\ writers[w].pc = "open" /\ writers' = [writers EXCEPT ![w] = n]
      /\ history' = IF ok \/ writers[w].file # -1 THEN history ELSE lost
      /\ UNCHANGED <<stop, full, queue, pushed, accepted, written, loggers, main, name>>
  BY DEF openLogFile
<1>2. /\ writers[w] \in WriterStates /\ name.value \in Nat /\ name.value \in Int
      /\ Batch(w) = Elems(writers[w].batch)
      /\ history \in [overlap : BOOLEAN, disabled : BOOLEAN, unopened : SUBSET Nat]
  BY DEF TypeOK, Batch, Elems
<1>3. /\ n \in WriterStates /\ n.pc = "write" /\ n.batch = writers[w].batch
      /\ (ok => n.file = name.value) /\ (~ok => n.failed /\ n.file = writers[w].file)
  BY <1>2 DEF WriterStates
<1>10. Batch(w) \subseteq Nat
  <2>1. writers[w].batch \in Seq(Nat)
    BY <1>2 DEF WriterStates
  <2>2. DOMAIN writers[w].batch = 1 .. Len(writers[w].batch)
    BY <2>1, LenProperties
  <2>3. \A i \in 1 .. Len(writers[w].batch) : writers[w].batch[i] \in Nat
    BY <2>1, ElementOfSeq
  <2> QED  BY <1>2, <2>2, <2>3 DEF Elems
<1>11. /\ lost \in [overlap : BOOLEAN, disabled : BOOLEAN, unopened : SUBSET Nat]
       /\ lost.overlap = history.overlap /\ lost.disabled = history.disabled
       /\ lost.unopened = history.unopened \cup Batch(w)
  BY <1>2, <1>10
<1> HIDE DEF lost
<1>12. /\ history' \in [overlap : BOOLEAN, disabled : BOOLEAN, unopened : SUBSET Nat]
       /\ history'.overlap = history.overlap /\ history'.disabled = history.disabled
       /\ history.unopened \subseteq history'.unopened
       /\ ~ok /\ writers[w].file = -1 => Batch(w) \subseteq history'.unopened
  BY <1>1, <1>2, <1>11
<1> HIDE DEF n
<1>4. /\ writers' \in [Writers -> WriterStates] /\ writers'[w] = n
      /\ \A v \in Writers \ {w} : writers'[v] = writers[v]
      /\ w \in Alive /\ Created' = Created /\ Alive' = Alive
  BY <1>1, <1>3, WriterSteps
<1>5. TypeOK'
  BY <1>1, <1>4, <1>12 DEF TypeOK
<1>6. HandsEmpty'
  BY <1>3, <1>4 DEF HandsEmpty
<1>7. \A v \in Writers : writers'[v].batch = writers[v].batch
  BY <1>3, <1>4
<1>8. Kept' /\ Ordered' /\ Unfiled'
  <2>1. Kept'
    BY <1>1, <1>7, <1>12 DEF Kept
  <2>2. Ordered'
    BY <1>1, <1>7, <1>12 DEF Ordered
  <2>3. ASSUME NEW v \in Writers, writers'[v].pc = "write", writers'[v].file = -1
        PROVE  Elems(writers'[v].batch) \subseteq history'.unopened
    <3>1. CASE v = w
      <4>1. n.file = -1
        BY <1>4, <2>3, <3>1
      <4>2. name.value # -1
        BY <1>2
      <4>3. ~ok /\ writers[w].file = -1
        BY <1>3, <4>1, <4>2
      <4> QED  BY <1>2, <1>7, <1>12, <3>1, <4>3
    <3>2. CASE v # w
      BY <1>4, <1>12, <2>3, <3>2 DEF Unfiled
    <3> QED  BY <3>1, <3>2
  <2> QED  BY <2>1, <2>2, <2>3 DEF Unfiled
<1>9. Renamed'
  <2>1. ASSUME ~history.overlap, NEW v \in Alive,
               writers'[v].pc # "open", writers'[v].file # -1, ~writers'[v].failed,
               writers'[v].file # name.value
        PROVE  name.requested \/ name.notify
    <3>1. v # w
      BY <1>3, <1>4, <2>1
    <3> QED  BY <1>4, <2>1, <3>1 DEF OneAtATime
  <2> QED  BY <1>1, <1>4, <1>12, <2>1 DEF Renamed
<1> QED  BY <1>1, <1>4, <1>5, <1>6, <1>8, <1>9, <1>12 DEF OneAtATime, Lifetime, QueueRecovers

LEMMA WriteStep ==
  ASSUME Inv, NEW w \in Writers, writeMessages(w)
  PROVE  Inv'
<1> USE DEF Inv
<1> DEFINE b == writers[w].batch
           n == [writers[w] EXCEPT !.batch = << >>,
                                   !.pc = IF writers[w].end THEN "ended" ELSE "check"]
<1> DEFINE r == IF writers[w].file # -1 THEN written \o b ELSE written
<1>1. /\ writers[w].pc = "write" /\ written' = r
      /\ writers' = [writers EXCEPT ![w] = n]
      /\ UNCHANGED <<stop, full, queue, pushed, accepted, loggers, main, name, history>>
  BY DEF writeMessages, Cleared
<1>2. writers[w] \in WriterStates /\ b \in Seq(Nat) /\ written \in Seq(Nat)
  BY DEF TypeOK, WriterStates
<1>3. /\ n \in WriterStates /\ n.pc \in {"ended", "check"} /\ n.batch = << >>
      /\ n.file = writers[w].file /\ n.failed = writers[w].failed
  BY <1>2, EmptyFacts DEF WriterStates
<1> HIDE DEF n
<1>4. /\ writers' \in [Writers -> WriterStates] /\ writers'[w] = n
      /\ \A v \in Writers \ {w} : writers'[v] = writers[v]
  BY <1>1, <1>3 DEF TypeOK
<1>5. w \in Alive /\ Created' = Created /\ Alive' \subseteq Alive
  BY <1>1, <1>3, <1>4 DEF Alive, Created
<1>6. /\ r \in Seq(Nat) /\ Elems(written) \subseteq Elems(r)
      /\ Elems(b) \subseteq Elems(r) \cup history.unopened
      /\ Ascending(written) /\ Ascending(b) /\ Before(written, b) => Ascending(r)
      /\ \A p : UpTo(written, p) /\ UpTo(b, p) => UpTo(r, p)
      /\ \A t : Before(written, t) /\ Before(b, t) => Before(r, t)
  <2>1. CASE writers[w].file # -1
    BY <1>2, <2>1, ConcatFacts
  <2>2. CASE writers[w].file = -1
    <3>1. r = written
      BY <2>2
    <3>2. Elems(b) \subseteq history.unopened
      BY <1>1, <2>2 DEF Unfiled
    <3> QED  BY <1>2, <3>1, <3>2
  <2> QED  BY <2>1, <2>2
<1>7. written' = r
  BY <1>1
<1> HIDE DEF r, b
<1>8. TypeOK'
  BY <1>1, <1>4, <1>6, <1>7 DEF TypeOK
<1>9. HandsEmpty'
  BY <1>3, <1>4 DEF HandsEmpty
<1>10. Kept'
  <2>1. ASSUME NEW m \in accepted
        PROVE  \/ m \in Elems(r) \/ m \in Elems(queue) \/ m \in history.unopened
               \/ \E v \in Writers : m \in Elems(writers'[v].batch)
    <3>1. ASSUME NEW v \in Writers, m \in Elems(writers[v].batch)
          PROVE  m \in Elems(r) \/ m \in history.unopened \/ m \in Elems(writers'[v].batch)
      BY <1>4, <1>6, <3>1 DEF b
    <3> QED  BY <1>6, <3>1 DEF Kept
  <2> QED  BY <1>1, <1>7, <2>1 DEF Kept
<1>11. Ordered'
  <2>1. ASSUME NEW v \in Writers
        PROVE  /\ Ascending(writers'[v].batch) /\ UpTo(writers'[v].batch, pushed)
               /\ Before(writers'[v].batch, queue)
    BY <1>3, <1>4, EmptyFacts DEF Ordered
  <2>2. ASSUME ~history.overlap
        PROVE  /\ Ascending(r) /\ UpTo(r, pushed) /\ Before(r, queue)
               /\ \A v \in Writers : Before(r, writers'[v].batch)
    <3>1. Ascending(r) /\ UpTo(r, pushed) /\ Before(r, queue)
      BY <1>6, <2>2 DEF Ordered, b
    <3>2. ASSUME NEW v \in Writers PROVE writers'[v].batch = << >>
      <4>1. CASE v = w
        BY <1>3, <1>4, <4>1
      <4>2. CASE v # w
        <5>1. v \notin Alive
          BY <1>5, <2>2, <4>2 DEF OneAtATime
        <5> QED  BY <1>4, <4>2, <5>1 DEF HandsEmpty, Alive, Created
      <4> QED  BY <4>1, <4>2
    <3> QED  BY <3>1, <3>2, EmptyFacts
  <2> QED  BY <1>1, <1>7, <2>1, <2>2 DEF Ordered
<1>12. OneAtATime'
  BY <1>1, <1>5 DEF OneAtATime
<1>13. Lifetime'
  BY <1>1, <1>5 DEF Lifetime
<1>14. Renamed' /\ Unfiled'
  <2>1. Renamed'
    BY <1>1, <1>3, <1>4, <1>5 DEF Renamed
  <2>2. ASSUME NEW v \in Writers, writers'[v].pc = "write", writers'[v].file = -1
        PROVE  Elems(writers'[v].batch) \subseteq history.unopened
    BY <1>3, <1>4, <2>2 DEF Unfiled
  <2> QED  BY <1>1, <2>1, <2>2 DEF Unfiled
<1> QED  BY <1>1, <1>8, <1>9, <1>10, <1>11, <1>12, <1>13, <1>14 DEF QueueRecovers

-----------------------------------------------------------------------------
(* Theorems                                                                 *)

LEMMA InvInit == Init => Inv
<1> SUFFICES ASSUME Init PROVE Inv
  OBVIOUS
<1>1. NoWriter \in WriterStates /\ NoWriter.pc = "none" /\ NoWriter.batch = << >>
  BY NoWriterType
<1>2. TypeOK
  BY <1>1, EmptyFacts DEF Init, TypeOK
<1>3. Created = {} /\ Alive = {}
  BY <1>1 DEF Init, Created, Alive
<1>4. HandsEmpty /\ Kept /\ Ordered /\ Unfiled
  BY <1>1, EmptyFacts DEF Init, HandsEmpty, Kept, Ordered, Unfiled
<1> QED  BY <1>2, <1>3, <1>4 DEF Init, Inv, OneAtATime, QueueRecovers, Lifetime, Renamed

LEMMA Invariance == ASSUME Assumptions PROVE Spec => []Inv
<1>1. Inv /\ [Next]_vars => Inv'
  BY MainSteps, PushStep, StartStep, SwapStep, ClearRequestStep, OpenStep, WriteStep
<1> QED  BY InvInit, <1>1, PTL DEF Spec

\* For any number of threads that log and of writers: no message accepted by an
\* enabled logger is lost between queue and file, except those a writer held when
\* it had no file and could open none (they are deleted unwritten), the file has the messages in the
\* order of the queue as long as one writer lives at a time, a full queue has
\* something to take, and the logger is left alone after ~Log unless its thread was
\* not waited for (Log::logv, Log::logWritterThread, Log::stopWriter).
THEOREM QueueKeptCorrect == ASSUME Assumptions PROVE Spec => []QueueKept
<1>1. Inv => QueueKept
  <2> SUFFICES ASSUME Inv PROVE QueueKept
    OBVIOUS
  <2>1. NothingLost
    BY DEF Inv, Kept, NothingLost, Elems, Done, Taken, Queued, Batch
  <2>2. WrittenInOrder
    BY DEF Inv, Ordered, Ascending, WrittenInOrder
  <2>3. DestroyedQuiet
    BY DEF Inv, Lifetime, DestroyedQuiet
  <2>4. NameFollows
    BY DEF Inv, Renamed, NameFollows, Alive, Created
  <2> QED  BY <2>1, <2>2, <2>3, <2>4 DEF Inv, QueueKept
<1> QED  BY <1>1, Invariance, PTL

=============================================================================
