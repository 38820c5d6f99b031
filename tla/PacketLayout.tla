---------------------------- MODULE PacketLayout ----------------------------
(***************************************************************************)
(* The declarative packet descriptions of librzu (PacketDeclaration.h) and *)
(* the buffer they are written to and read from (MessageBuffer).           *)
(*                                                                         *)
(* A layout is a sequence of fields.  Of a field only what the generated   *)
(* getSize, serialize and deserialize branch on is kept: its bytes, the    *)
(* versions it exists in, and, for the fields others depend on, a name.    *)
(* Consecutive fields of fixed size with the same condition are one field; *)
(* Bytes stands for simple, array and string fields alike, and a pair of   *)
(* (impl) lines for the versions before and since an epic is a Changed.    *)
(*                                                                         *)
(* The contents of a packet are abstracted to the number of elements n of  *)
(* each of its vectors and strings and to the values of the fields that    *)
(* conditions name (tags).  What is on the wire is a sequence of chunks: a *)
(* number of bytes, a value, or a number of equal elements.                *)
(***************************************************************************)
EXTENDS Integers, Sequences, SequencesExt

-----------------------------------------------------------------------------
(* The versions of the protocol (PacketEpics.h): one byte each for major,   *)
(* minor and patch, and a flag above them                                   *)

EPIC_2 == \H020100
EPIC_3 == \H030100
EPIC_4_1 == \H040100
EPIC_4_1_1 == \H040101
EPIC_5_1 == \H050100
EPIC_5_2 == \H050200
EPIC_6_1 == \H060100
EPIC_6_2 == \H060200
EPIC_6_3 == \H060300
EPIC_7_1 == \H070100
EPIC_7_2 == \H070200
EPIC_7_3 == \H070300
EPIC_7_4 == \H070400
EPIC_8_1 == \H080100
EPIC_8_1_1_RSA == \H080101
EPIC_8_2 == \H080200
EPIC_8_3 == \H080300
EPIC_9_1 == \H090100
EPIC_9_2 == \H090200
EPIC_9_3 == \H090300
EPIC_9_4 == \H090400
EPIC_9_4_AR == \H090401
EPIC_9_4_2 == \H090402
EPIC_9_5 == \H090500
EPIC_9_5_1 == \H090501
EPIC_9_5_2 == \H090502
EPIC_9_5_3 == \H090503
EPIC_9_6 == \H090600
EPIC_9_6_1 == \H090601
EPIC_9_6_2 == \H090602
EPIC_9_6_3 == \H090603
EPIC_9_6_4 == \H090604
EPIC_9_6_5 == \H090605
EPIC_9_6_6 == \H090606
EPIC_9_6_7 == \H090607
EPIC_9_6_8 == \H090608
EPIC_9_7_0 == \H090700
EPIC_9_7_1 == \H090701
EPIC_9_7_2 == \H090702
EPIC_9_8_0 == \H090800
EPIC_9_8_1 == \H090801

EPIC_LATEST == EPIC_9_8_1
EPIC_FLAG_TESTSERVER == 1

\* Every version the code names.
Epics == {EPIC_2, EPIC_3, EPIC_4_1, EPIC_4_1_1, EPIC_5_1, EPIC_5_2,
          EPIC_6_1, EPIC_6_2, EPIC_6_3, EPIC_7_1, EPIC_7_2, EPIC_7_3,
          EPIC_7_4, EPIC_8_1, EPIC_8_1_1_RSA, EPIC_8_2, EPIC_8_3, EPIC_9_1,
          EPIC_9_2, EPIC_9_3, EPIC_9_4, EPIC_9_4_AR, EPIC_9_4_2, EPIC_9_5,
          EPIC_9_5_1, EPIC_9_5_2, EPIC_9_5_3, EPIC_9_6, EPIC_9_6_1, EPIC_9_6_2,
          EPIC_9_6_3, EPIC_9_6_4, EPIC_9_6_5, EPIC_9_6_6, EPIC_9_6_7, EPIC_9_6_8,
          EPIC_9_7_0, EPIC_9_7_1, EPIC_9_7_2, EPIC_9_8_0, EPIC_9_8_1}

-----------------------------------------------------------------------------
(* Fields and layouts                                                       *)


\* The open ends of a range of versions.
Oldest == 0
Newest == 2^24

\* A field of n bytes; the same for a range of versions.
Bytes(n) == [kind |-> "bytes", n |-> n]
In(a, b, L) == [kind |-> "in", from |-> a, to |-> b, of |-> L]
Since(a, n) == In(a, Newest, <<Bytes(n)>>)
Before(b, n) == In(Oldest, b, <<Bytes(n)>>)
Within(a, b, n) == In(a, b, <<Bytes(n)>>)
Part(L) == [kind |-> "part", of |-> L]
Changed(e, old, new) == [kind |-> "changed", at |-> e, old |-> old, new |-> new]

\* A simple field that later conditions read, and a structure under such a
\* condition.
Tag(name, n) == [kind |-> "tag", name |-> name, n |-> n]
When(name, values, L) == [kind |-> "when", name |-> name, values |-> values, of |-> L]

\* A fixed array of structures, and arrays and strings whose size is in a
\* (count) field: of primitives of n bytes, of structures, of characters.
Repeat(n, L) == [kind |-> "repeat", n |-> n, of |-> L]
Array(ref, n) == [kind |-> "array", ref |-> ref, n |-> n]
List(ref, L) == [kind |-> "list", ref |-> ref, of |-> L]
Str(ref, nul) == [kind |-> "str", ref |-> ref, nul |-> nul]

\* Count fields: their bytes and the largest count they hold.  Counts of four
\* bytes are limited to the integers TLC has, which no packet reaches.
I8 == [n |-> 1, max |-> 127]
U8 == [n |-> 1, max |-> 255]
I16 == [n |-> 2, max |-> 32767]
U16 == [n |-> 2, max |-> 65535]
I32 == [n |-> 4, max |-> 2147483647]
U32 == I32
CountOr(t, ref, from, default) ==
  [kind |-> "count", type |-> t, ref |-> ref, from |-> from, default |-> default]
Count(t, ref) == CountOr(t, ref, Oldest, 0)

\* Arrays and strings that take the rest of the packet.
EndArray(n) == [kind |-> "endarray", n |-> n]
EndList(L) == [kind |-> "endlist", of |-> L]
EndStr(nul) == [kind |-> "endstr", nul |-> nul]

\* Padding up to a number of bytes after a mark, or so many per element.
Mark(m) == [kind |-> "mark", mark |-> m]
PadPer(n, ref, m) == [kind |-> "pad", n |-> n, ref |-> ref, mark |-> m]
Pad(n, m) == PadPer(n, "", m)

\* packet_version_t: comparisons with an epic ignore the flags in the upper
\* eight bits.
Epic(v) == v % 2^24
Flag(v, flag) == (v \div 2^24) % (2 * flag) >= flag
InRange(v, a, b) == Epic(v) >= a /\ Epic(v) < b

\* Names seen so far in the structure at hand.
Nothing == [x \in {} |-> 0]
Bind(env, name, value) == [x \in DOMAIN env \cup {name} |-> IF x = name THEN value ELSE env[x]]
Lookup(env, name, default) == IF name \in DOMAIN env THEN env[name] ELSE default

Unclamped(t, n) == n                                                  \* mutant

\* getClampedCount: a count that does not fit is the largest that does.
CastCount(t, n) == IF n <= t.max THEN n ELSE n % (t.max + 1)
Clamped(t, n) == IF n < t.max THEN n ELSE t.max

\* The fields that exist in version v: each (condition) on the version decided.
RECURSIVE AtVersion(_, _)
AtVersion(L, v) ==
  LET Present(f) ==
        CASE f.kind = "in" -> IF InRange(v, f.from, f.to) THEN AtVersion(f.of, v) ELSE <<>>
          [] f.kind = "changed" -> <<Bytes(IF Epic(v) < f.at THEN f.old ELSE f.new)>>
          [] f.kind = "count" /\ Epic(v) < f.from -> <<[f EXCEPT !.kind = "default"]>>
          [] OTHER -> <<f>>
  IN FoldLeft(LAMBDA fields, f : fields \o Present(f), <<>>, L)

\* addNullTerminator of the field a count refers to.
NulOf(F, ref) == IF \E i \in DOMAIN F : F[i].kind = "str" /\ F[i].ref = ref /\ F[i].nul = 1 THEN 1 ELSE 0

\* The value a count field gets for a vector or string of n elements.
RefSize(F, f, n) == Clamped(f.type, n + NulOf(F, f.ref))

\* The end of a padding: marker + size.
PadEnd(f, s, elements) == s.marks[f.mark] + f.n * (IF f.ref = "" THEN 1 ELSE elements)

\* getSize(version) of a structure with contents c.
RECURSIVE getSize(_, _, _)
getSize(L, v, c) ==
  LET F == AtVersion(L, v)
      Add(s, n) == [s EXCEPT !.size = @ + n]
      Step(s, f) ==
        CASE f.kind \in {"bytes", "tag"} -> Add(s, f.n)
          [] f.kind = "part" -> Add(s, getSize(f.of, v, c))
          [] f.kind = "when" -> Add(s, IF c.tags[f.name] \in f.values THEN getSize(f.of, v, c) ELSE 0)
          [] f.kind = "repeat" -> Add(s, f.n * getSize(f.of, v, c))
          [] f.kind = "count" -> [Add(s, f.type.n) EXCEPT !.env = Bind(@, f.ref, RefSize(F, f, c.n))]
          [] f.kind = "default" -> [s EXCEPT !.env = Bind(@, f.ref, f.default)]
          [] f.kind = "array" -> Add(s, f.n * Lookup(s.env, f.ref, 0))
          [] f.kind = "list" -> Add(s, Lookup(s.env, f.ref, 0) * getSize(f.of, v, c))
          [] f.kind = "str" -> Add(s, Lookup(s.env, f.ref, 0))
          [] f.kind = "endarray" -> Add(s, f.n * c.n)
          [] f.kind = "endlist" -> Add(s, c.n * getSize(f.of, v, c))
          [] f.kind = "endstr" -> Add(s, c.n + f.nul)
          [] f.kind = "mark" -> [s EXCEPT !.marks = Bind(@, f.mark, s.size)]
          [] f.kind = "pad" -> IF s.size < PadEnd(f, s, c.n) THEN [s EXCEPT !.size = PadEnd(f, s, c.n)] ELSE s
  IN FoldLeft(Step, [size |-> 0, env |-> Nothing, marks |-> Nothing], F).size

-----------------------------------------------------------------------------
(* Writing.  The state of a MessageBuffer being written: the chunks and     *)
(* bytes so far, the size of the buffer, bufferOverflow; put lists the      *)
(* sizes and tags as they were written, for comparison.                     *)

Chunk(t, n, v, of) == [t |-> t, n |-> n, v |-> v, of |-> of]

\* checkAvailableBuffer.
Available(s, n) == ~s.over /\ n < 65536 /\ s.pos + n <= s.total

\* A write of n bytes at once.
Put(s, chunk, n) ==
  IF ~Available(s, n) THEN [s EXCEPT !.over = TRUE]
  ELSE [s EXCEPT !.pos = @ + n, !.wire = IF n > 0 THEN Append(@, chunk) ELSE @]

Noted(s, what, n) == [s EXCEPT !.said = Append(@, <<what, n>>)]

\* k elements, each written as e was.
PutAll(s, k, e) ==
  LET n == e.pos - s.pos
  IN IF k = 0 THEN s
     ELSE IF e.over \/ s.pos + k * n > s.total THEN [s EXCEPT !.over = TRUE]
     ELSE [s EXCEPT !.pos = @ + k * n, !.said = e.said,
                    !.wire = IF n > 0 THEN Append(@, Chunk("elements", k, 0, e.wire)) ELSE @]

\* serialize(buffer) of a structure with contents c.
RECURSIVE serialize(_, _, _, _)
serialize(L, v, c, buffer) ==
  LET F == AtVersion(L, v)
      Inner(s, of) == [serialize(of, v, c, s) EXCEPT !.env = s.env, !.marks = s.marks]
      One(s, of) == serialize(of, v, c, [s EXCEPT !.wire = <<>>])
      Step(s, f) ==
        CASE f.kind = "bytes" -> Put(s, Chunk("bytes", f.n, 0, <<>>), f.n)
          [] f.kind = "tag" -> Noted(Put(s, Chunk("value", f.n, c.tags[f.name], <<>>), f.n), f.name, c.tags[f.name])
          [] f.kind = "part" -> Inner(s, f.of)
          [] f.kind = "when" -> IF c.tags[f.name] \in f.values THEN Inner(s, f.of) ELSE s
          [] f.kind = "repeat" -> PutAll(s, f.n, One(s, f.of))
          [] f.kind = "count" ->
               LET k == RefSize(F, f, c.n)
               IN [Put(s, Chunk("value", f.type.n, CastCount(f.type, k), <<>>), f.type.n) EXCEPT !.env = Bind(@, f.ref, k)]
          [] f.kind = "default" -> [s EXCEPT !.env = Bind(@, f.ref, f.default)]
          [] f.kind = "array" ->
               LET k == Lookup(s.env, f.ref, 0)
               IN Noted(IF k = 0 THEN s ELSE Put(s, Chunk("bytes", k * f.n, 0, <<>>), k * f.n), f.ref, k)
          [] f.kind = "list" ->
               LET k == Lookup(s.env, f.ref, 0) IN Noted(PutAll(s, k, One(s, f.of)), f.ref, k)
          [] f.kind = "str" ->
               LET k == Lookup(s.env, f.ref, 0)
               IN Noted(Put(s, Chunk("bytes", k, 0, <<>>), k), f.ref, IF k > 0 THEN k - f.nul ELSE 0)
          [] f.kind = "endarray" -> Noted(Put(s, Chunk("bytes", c.n * f.n, 0, <<>>), c.n * f.n), "end", c.n)
          [] f.kind = "endlist" -> Noted(PutAll(s, c.n, One(s, f.of)), "end", c.n)
          [] f.kind = "endstr" -> Noted(Put(s, Chunk("bytes", c.n + f.nul, 0, <<>>), c.n + f.nul), "end", c.n)
          [] f.kind = "mark" -> [s EXCEPT !.marks = Bind(@, f.mark, s.pos)]
          [] f.kind = "pad" ->
               LET n == PadEnd(f, s, c.n) - s.pos
               IN IF n > 0 THEN Put(s, Chunk("bytes", n, 0, <<>>), n) ELSE s
  IN FoldLeft(Step, [buffer EXCEPT !.env = Nothing, !.marks = Nothing], F)

-----------------------------------------------------------------------------
(* Reading.  wire is what is left; astray says that bytes were taken for    *)
(* something else than what was written, after which nothing read means    *)
(* anything.                                                               *)

\* A read of n bytes at once, expected to be a chunk of kind t.
Get(r, t, n) ==
  IF ~Available(r, n) THEN [r EXCEPT !.over = TRUE]
  ELSE IF n = 0 THEN r
  ELSE IF r.wire # <<>> /\ Head(r.wire).t = t /\ Head(r.wire).n = n
       THEN [r EXCEPT !.pos = @ + n, !.wire = Tail(@)]
       ELSE [r EXCEPT !.astray = TRUE, !.over = TRUE]

\* The value of the field about to be read, when it is one.
Peek(r) == IF r.wire # <<>> /\ Head(r.wire).t = "value" THEN Head(r.wire).v ELSE 0

\* k elements: what is written for one of them, and the reader after all of
\* them when one is the reader after the first.
Elements(r, k) ==
  IF r.wire # <<>> /\ Head(r.wire).t = "elements" /\ Head(r.wire).n = k THEN Head(r.wire).of ELSE <<>>
GetAll(r, k, one) ==
  LET hit == r.wire # <<>> /\ Head(r.wire).t = "elements" /\ Head(r.wire).n = k
      n == one.pos - r.pos
  IN IF k = 0 \/ r.over THEN r
     ELSE IF one.over \/ one.wire # <<>> \/ r.pos + k * n > r.total
          THEN [r EXCEPT !.over = TRUE, !.astray = @ \/ one.astray \/ one.wire # <<>>]
     ELSE [r EXCEPT !.pos = @ + k * n, !.said = one.said, !.wire = IF hit THEN Tail(@) ELSE @]

\* deserialize(buffer): counts and tags are known from what was read.
RECURSIVE deserialize(_, _, _)
deserialize(L, v, buffer) ==
  LET F == AtVersion(L, v)
      Inner(r, of) == [deserialize(of, v, r) EXCEPT !.env = r.env, !.marks = r.marks]
      One(r, of, k) == deserialize(of, v, [r EXCEPT !.wire = Elements(r, k)])
      Rest(r) == r.total - r.pos
      Step(r, f) ==
        CASE f.kind = "bytes" -> Get(r, "bytes", f.n)
          [] f.kind = "tag" -> Noted([Get(r, "value", f.n) EXCEPT !.env = Bind(@, f.name, Peek(r))], f.name, Peek(r))
          [] f.kind = "part" -> Inner(r, f.of)
          [] f.kind = "when" ->
               IF f.name \notin DOMAIN r.env THEN [r EXCEPT !.astray = TRUE]
               ELSE IF r.env[f.name] \in f.values THEN Inner(r, f.of) ELSE r
          [] f.kind = "repeat" -> GetAll(r, f.n, One(r, f.of, f.n))
          [] f.kind = "count" -> [Get(r, "value", f.type.n) EXCEPT !.env = Bind(@, f.ref, Peek(r))]
          [] f.kind = "default" -> [r EXCEPT !.env = Bind(@, f.ref, f.default)]
          [] f.kind = "array" ->
               LET k == Lookup(r.env, f.ref, 0)
               IN Noted(IF k = 0 THEN r ELSE Get(r, "bytes", k * f.n), f.ref, k)
          [] f.kind = "list" ->
               LET k == Lookup(r.env, f.ref, 0)
               IN IF ~Available(r, k) THEN [r EXCEPT !.over = TRUE]
                  ELSE Noted(GetAll(r, k, One(r, f.of, k)), f.ref, k)
          [] f.kind = "str" ->
               LET k == Lookup(r.env, f.ref, 0)
               IN Noted(Get(r, "bytes", k), f.ref, IF k > 0 THEN k - f.nul ELSE 0)
          [] f.kind = "endarray" -> LET k == Rest(r) \div f.n IN Noted(Get(r, "bytes", k), "end", k)
          [] f.kind = "endlist" ->
               LET k == IF r.wire # <<>> /\ Head(r.wire).t = "elements" THEN Head(r.wire).n ELSE 0
               IN Noted(GetAll(r, k, One(r, f.of, k)), "end", k)
          [] f.kind = "endstr" ->
               Noted(Get(r, "bytes", Rest(r)), "end", IF Rest(r) > 0 THEN Rest(r) - f.nul ELSE 0)
          [] f.kind = "mark" -> [r EXCEPT !.marks = Bind(@, f.mark, r.pos)]
          [] f.kind = "pad" ->
               LET n == PadEnd(f, r, Lookup(r.env, f.ref, 0)) - r.pos
               IN IF n > 0 THEN Get(r, "bytes", n) ELSE r
  IN FoldLeft(Step, [buffer EXCEPT !.env = Nothing, !.marks = Nothing], F)

\* A MessageBuffer of the given size, past the header of a packet.
HeaderBytes == 7
MessageBuffer(total, wire) ==
  [wire |-> wire, pos |-> HeaderBytes, total |-> total, over |-> FALSE, astray |-> FALSE,
   env |-> Nothing, marks |-> Nothing, said |-> <<>>]

\* checkPacketFinalSize: everything fits and nothing is left.
checkPacketFinalSize(b) == ~b.over /\ b.pos = b.total

-----------------------------------------------------------------------------
(* Packets: CREATE_PACKET and CREATE_PACKET_VER_ID. *)

\* An identifier and the versions that use it.
Alias(id, a, b) == [id |-> id, from |-> a, to |-> b, flag |-> 0]
OnFlag(id, flag) == [id |-> id, from |-> Oldest, to |-> Newest, flag |-> flag]
Id(id) == <<Alias(id, Oldest, Newest)>>
Ids(old, e, new) == <<Alias(old, Oldest, e), Alias(new, e, Newest)>>
Packet(session, origin, ids, L) == [session |-> session, origin |-> origin, ids |-> ids, of |-> L]

\* getId(version): the last identifier whose condition holds.
Selected(a, v) == InRange(v, a.from, a.to) /\ (a.flag # 0 => Flag(v, a.flag))
getId(p, v) == FoldLeft(LAMBDA id, a : IF Selected(a, v) THEN a.id ELSE id, -1, p.ids)

\* packetID and PACKET_IDS.
packetID(p) == p.ids[Len(p.ids)].id
PACKET_IDS(p) == {p.ids[i].id : i \in DOMAIN p.ids}
=============================================================================
