----------------------- MODULE ReconnectClusterProofs -----------------------
(***************************************************************************)
(* Proofs about ReconnectCluster, for all values of its constants: however *)
(* often connections are lost, the game servers stop and the auth server   *)
(* is restarted, the pointers and the maps of the auth server stay         *)
(* consistent when it is driven by the gateway, and an idle connection     *)
(* over which the gateway is synchronized is one over which the auth       *)
(* server shows the game server as ready.                                  *)
(***************************************************************************)
EXTENDS ReconnectCluster, AuthServerProofs, NaturalsInduction, WellFoundedInduction

(* Sequences of packets                                                     *)

HasLogout(ps) == \E i \in DOMAIN ps : ps[i].kind = "LOGOUT"

\* A queue of packets and its first one, or what is added to it.
LEMMA QueueTail ==
  ASSUME NEW S, NEW q \in Seq(S), q # << >>
  PROVE  /\ Head(q) \in S /\ Head(q) = q[1] /\ 1 \in DOMAIN q
         /\ Tail(q) \in Seq(S)
         /\ \A i \in DOMAIN q : i # 1 => i - 1 \in DOMAIN Tail(q) /\ Tail(q)[i - 1] = q[i]
         /\ HasLogout(Tail(q)) => HasLogout(q)
<1>1. /\ Head(q) \in S /\ Tail(q) \in Seq(S)
      /\ Len(Tail(q)) = Len(q) - 1
      /\ \A i \in 1 .. Len(Tail(q)) : Tail(q)[i] = q[i + 1]
  BY HeadTailProperties
<1>2. /\ Len(q) \in Nat /\ Len(q) > 0 /\ DOMAIN q = 1 .. Len(q)
      /\ DOMAIN Tail(q) = 1 .. Len(Tail(q))
  BY <1>1, LenProperties, EmptySeq
<1>3. Head(q) = q[1]
  OBVIOUS
<1>4. \A i \in DOMAIN q : i # 1 => i - 1 \in DOMAIN Tail(q) /\ Tail(q)[i - 1] = q[i]
  BY <1>1, <1>2
<1>5. HasLogout(Tail(q)) => HasLogout(q)
  BY <1>1, <1>2 DEF HasLogout
<1> QED  BY <1>1, <1>2, <1>3, <1>4, <1>5

LEMMA QueueConcat ==
  ASSUME NEW S, NEW q \in Seq(S), NEW r \in Seq(S)
  PROVE  /\ q \o r \in Seq(S)
         /\ \A i \in DOMAIN q : i \in DOMAIN (q \o r) /\ (q \o r)[i] = q[i]
         /\ HasLogout(q \o r) => HasLogout(q) \/ HasLogout(r)
         /\ r = << >> => q \o r = q
         /\ q # << >> => q \o r # << >> /\ Head(q \o r) = Head(q)
<1>1. /\ q \o r \in Seq(S)
      /\ Len(q \o r) = Len(q) + Len(r)
      /\ \A i \in 1 .. Len(q) + Len(r) :
           (q \o r)[i] = IF i <= Len(q) THEN q[i] ELSE r[i - Len(q)]
  BY ConcatProperties
<1>2. /\ Len(q) \in Nat /\ DOMAIN q = 1 .. Len(q)
      /\ Len(r) \in Nat /\ DOMAIN r = 1 .. Len(r)
      /\ DOMAIN (q \o r) = 1 .. Len(q) + Len(r)
  BY <1>1, LenProperties
<1>3. \A i \in DOMAIN q : i \in DOMAIN (q \o r) /\ (q \o r)[i] = q[i]
  BY <1>1, <1>2
<1>4. ASSUME HasLogout(q \o r) PROVE HasLogout(q) \/ HasLogout(r)
  <2>1. PICK i \in DOMAIN (q \o r) : (q \o r)[i].kind = "LOGOUT"
    BY <1>4 DEF HasLogout
  <2>2. CASE i <= Len(q)
    BY <1>1, <1>2, <2>1, <2>2 DEF HasLogout
  <2>3. CASE ~(i <= Len(q))
    <3>1. i - Len(q) \in DOMAIN r /\ r[i - Len(q)].kind = "LOGOUT"
      BY <1>1, <1>2, <2>1, <2>3
    <3> QED  BY <3>1 DEF HasLogout
  <2> QED  BY <2>2, <2>3
<1>5. r = << >> => q \o r = q
  BY ConcatEmptySeq
<1>6. q # << >> => q \o r # << >> /\ Head(q \o r) = Head(q)
  <2>1. q # << >> => 1 \in DOMAIN q
    BY <1>2, EmptySeq
  <2>2. q # << >> => q \o r # << >>
    BY <1>1, <1>2, EmptySeq
  <2> QED  BY <1>3, <2>1, <2>2
<1> QED  BY <1>1, <1>3, <1>4, <1>5, <1>6

LEMMA OneElement ==
  ASSUME NEW S, NEW p \in S
  PROVE  <<p>> \in Seq(S) /\ (HasLogout(<<p>>) <=> p.kind = "LOGOUT")
<1>1. <<p>> \in Seq(S)
  OBVIOUS
<1>2. HasLogout(<<p>>) <=> p.kind = "LOGOUT"
  BY DEF HasLogout
<1> QED  BY <1>1, <1>2

LEMMA NoPackets == ASSUME NEW S PROVE << >> \in Seq(S) /\ ~HasLogout(<< >>)
<1>1. << >> \in Seq(S)
  BY EmptySeq
<1>2. ~HasLogout(<< >>)
  BY DEF HasLogout
<1> QED  BY <1>1, <1>2

LEMMA QueueAppend ==
  ASSUME NEW S, NEW q \in Seq(S), NEW p \in S
  PROVE  /\ Append(q, p) \in Seq(S)
         /\ HasLogout(Append(q, p)) => HasLogout(q) \/ p.kind = "LOGOUT"
<1>1. Append(q, p) = q \o <<p>>
  BY AppendIsConcat
<1>2. <<p>> \in Seq(S) /\ (HasLogout(<<p>>) <=> p.kind = "LOGOUT")
  BY OneElement
<1>3. q \o <<p>> \in Seq(S) /\ (HasLogout(q \o <<p>>) => HasLogout(q) \/ HasLogout(<<p>>))
  BY <1>2, QueueConcat
<1> QED  BY <1>1, <1>2, <1>3

\* SetToSeq of a finite set is a sequence of its elements.
LEMMA SequenceOfSet ==
  ASSUME NEW S, IsFiniteSet(S)
  PROVE  SetToSeq(S) \in Seq(S) /\ (S = {} => SetToSeq(S) = << >>)
<1>1. /\ Cardinality(S) \in Nat
      /\ \E f \in [1 .. Cardinality(S) -> S] : IsInjective(f)
  <2>1. /\ Cardinality(S) \in Nat
        /\ ExistsBijection(1 .. Cardinality(S), S)
    BY FS_CardinalityType
  <2>2. PICK f \in Bijection(1 .. Cardinality(S), S) : TRUE
    BY <2>1 DEF ExistsBijection
  <2> QED  BY <2>1, <2>2 DEF Bijection, Injection, IsInjective
<1>2. SetToSeq(S) \in [1 .. Cardinality(S) -> S]
  BY <1>1 DEF SetToSeq
<1>3. SetToSeq(S) \in Seq(S)
  BY <1>1, <1>2, SeqDef
<1>4. S = {} => SetToSeq(S) = << >>
  BY <1>3, EmptySeq
<1> QED  BY <1>3, <1>4

(* A finite, non-empty set of positions has a first and a last one.         *)
LEMMA FirstPosition ==
  ASSUME NEW n \in Nat, NEW at \in SUBSET (1 .. n), at # {}
  PROVE  \E i \in at : \A j \in at : i <= j
<1> DEFINE R == {p \in Nat \X Nat : p[1] < p[2]}
<1>1. IsWellFoundedOn(R, Nat)
  BY NatLessThanWellFounded DEF OpToRel
<1>2. at \subseteq Nat /\ at # {}
  OBVIOUS
<1>3. \E i \in at : \A j \in at : <<j, i>> \notin R
  <2> HIDE DEF R
  <2> QED  BY <1>1, <1>2, WFMin
<1>4. PICK i \in at : \A j \in at : ~(j < i)
  BY <1>2, <1>3
<1>5. ASSUME NEW j \in at PROVE i <= j
  <2>1. i \in Nat /\ j \in Nat /\ ~(j < i)
    BY <1>2, <1>4
  <2> QED  BY <2>1
<1> QED  BY <1>5

LEMMA LastPosition ==
  ASSUME NEW n \in Nat, NEW at \in SUBSET (1 .. n), at # {}
  PROVE  \E i \in at : \A j \in at : j <= i
<1> DEFINE mirrored == {n + 1 - i : i \in at}
<1>1. \A i \in at : i \in 1 .. n
  OBVIOUS
<1>2. mirrored \in SUBSET (1 .. n) /\ mirrored # {}
  <2>1. \A i \in at : n + 1 - i \in 1 .. n
    BY <1>1
  <2>2. PICK i \in at : TRUE
    OBVIOUS
  <2>3. n + 1 - i \in mirrored
    OBVIOUS
  <2> QED  BY <2>1, <2>3
<1> HIDE DEF mirrored
<1>3. PICK k \in mirrored : \A j \in mirrored : k <= j
  BY <1>2, FirstPosition
<1> USE DEF mirrored
<1>4. PICK i \in at : k = n + 1 - i
  BY <1>3
<1>5. ASSUME NEW j \in at PROVE j <= i
  <2>1. n + 1 - j \in mirrored
    OBVIOUS
  <2>2. k <= n + 1 - j
    BY <1>3, <2>1
  <2> QED  BY <1>1, <1>4, <2>2
<1> QED  BY <1>5

-----------------------------------------------------------------------------
(* The packets in flight and the sessions of the gateway                    *)

Packets(kinds, abouts) ==
  [kind : kinds, about : abouts, accounts : Seq(Accounts), final : BOOLEAN, room : Nat]

\* What the gateway writes to the auth server ...
UpPackets ==
  Packets({"LOGIN"}, Games \X Slots)
    \cup Packets({"ACCOUNT_LIST", "LOGOUT"}, {Null})
    \cup Packets({"CLIENT_LOGIN", "CLIENT_LOGOUT", "KICK_FAILED"}, Names)

\* ... and what comes back.
DownPackets ==
  Packets({"LOGIN_RESULT_OK", "LOGIN_RESULT_FAILED"}, {Null})
    \cup Packets({"LOGIN_OK"}, Accounts)
    \cup Packets({"LOGIN_DENIED", "KICK"}, Names \X {Null})

GatewaySessions ==
  [game : Games \cup {Null}, server : Games \cup {Null}, stream : GW!Streams,
   remote : BOOLEAN, timer : BOOLEAN, doomed : BOOLEAN, sentLogin : BOOLEAN,
   pendingLogin : BOOLEAN, sync : BOOLEAN, pending : Seq(UpPackets), list : Seq(Accounts)]

\* The AuthSession s has, or had, a connection.
Attached(s) == s.stream \in {"connected", "closing"}

\* What holds of an AuthSession alone.
Good(s) ==
  /\ s.game # Null => s.server = s.game
  /\ s.stream # "absent" => s.server # Null
  /\ s.pendingLogin \/ s.sync => Attached(s)
  /\ s.sync => ~s.pendingLogin
  /\ s.game # Null => ~HasLogout(s.pending)
  /\ Len(s.list) <= MaxList

LEMMA PlainPacket ==
  ASSUME NEW kind, NEW about
  PROVE  /\ GW!Packet(kind, about).kind = kind
         /\ GW!Packet(kind, about).about = about
         /\ GW!Packet(kind, about) \in Packets({kind}, {about})
<1>1. << >> \in Seq(Accounts)
  BY EmptySeq
<1> QED  BY <1>1 DEF GW!Packet, Packets

LEMMA UpPacketTypes ==
  /\ GW!Logout \in UpPackets /\ GW!Logout.kind = "LOGOUT"
  /\ \A kind \in {"CLIENT_LOGIN", "CLIENT_LOGOUT", "KICK_FAILED"}, name \in Names :
       GW!Packet(kind, name) \in UpPackets /\ GW!Packet(kind, name).kind = kind
<1>1. GW!Logout \in UpPackets /\ GW!Logout.kind = "LOGOUT"
  <2>1. GW!Logout \in Packets({"LOGOUT"}, {Null}) /\ GW!Logout.kind = "LOGOUT"
    BY PlainPacket DEF GW!Logout
  <2> QED  BY <2>1 DEF UpPackets, Packets
<1>2. ASSUME NEW kind \in {"CLIENT_LOGIN", "CLIENT_LOGOUT", "KICK_FAILED"}, NEW name \in Names
      PROVE  GW!Packet(kind, name) \in UpPackets /\ GW!Packet(kind, name).kind = kind
  <2>1. GW!Packet(kind, name) \in Packets({kind}, {name}) /\ GW!Packet(kind, name).kind = kind
    BY PlainPacket
  <2> QED  BY <2>1 DEF UpPackets, Packets
<1> QED  BY <1>1, <1>2

\* sendAccountList cuts the list into packets; one is enough for a list that is
\* not longer than a packet.
LEMMA ListPacketsType ==
  ASSUME NEW list \in Seq(Accounts), Len(list) <= MaxList
  PROVE  /\ GW!ListPackets(list) \in Seq(UpPackets)
         /\ ~HasLogout(GW!ListPackets(list))
         /\ MaxList <= MaxCount =>
              \E i \in DOMAIN GW!ListPackets(list) :
                LET p == GW!ListPackets(list)[i]
                IN  p.kind = "ACCOUNT_LIST" /\ p.final /\ Len(p.accounts) = p.room
<1> DEFINE n == Len(list)
           P == GW!PerPacket(list)
           c == GW!PacketCount(list)
           L == GW!ListPackets(list)
<1>1. n \in Nat /\ \A i \in 1 .. n : list[i] \in Accounts
  BY LenProperties, ElementOfSeq
<1>2. list = << >> <=> n = 0
  BY EmptySeq
<1>3. P \in Nat /\ (n # 0 => P > 0) /\ (n <= MaxCount => P = n) /\ P <= n
  BY <1>1, ClusterAssumption DEF GW!PerPacket
<1>4. c \in Nat /\ c >= 1 /\ (c - 1) * P <= n /\ (P = n => c = 1)
  <2>1. CASE n = 0
    BY <1>2, <1>3, <2>1 DEF GW!PacketCount
  <2>2. CASE n # 0
    <3>1. c = (n + P - 1) \div P
      BY <1>2, <2>2 DEF GW!PacketCount
    <3> HIDE DEF n, P, c
    <3>2. /\ (n + P - 1) \div P \in Nat
          /\ ((n + P - 1) \div P) * P <= n + P - 1
          /\ (n + P - 1) \div P >= 1
      BY <1>1, <1>3, <2>2
    <3>3. c * P <= n + P - 1 /\ c \in Nat /\ c >= 1
      BY <3>1, <3>2
    <3>4. (c - 1) * P = c * P - P
      BY <1>3, <3>3
    <3>5. P = n => c = 1
      BY <1>1, <1>3, <2>2, <3>1
    <3> QED  BY <1>1, <1>3, <3>3, <3>4, <3>5
  <2> QED  BY <2>1, <2>2
<1>5. /\ L = [k \in 1 .. c |-> L[k]]
      /\ \A k \in 1 .. c :
           L[k] = [kind |-> "ACCOUNT_LIST", about |-> Null,
                   accounts |-> SubSeq(list, (k - 1) * P + 1, IF k = c THEN n ELSE k * P),
                   final |-> (k = c), room |-> P]
  BY DEF GW!ListPackets, GW!Packet
<1> HIDE DEF n, P, c, L
<1>6. ASSUME NEW k \in 1 .. c
      PROVE  SubSeq(list, (k - 1) * P + 1, IF k = c THEN n ELSE k * P) \in Seq(Accounts)
  <2> DEFINE from == (k - 1) * P + 1
             to == IF k = c THEN n ELSE k * P
  <2>1. from \in Int /\ from >= 1
    BY <1>3, <1>4
  <2>2. to \in Int /\ to <= n
    <3>1. CASE k = c
      BY <1>1, <3>1
    <3>2. CASE k # c
      <4>1. k <= c - 1 /\ k \in Nat
        BY <1>4, <3>2
      <4>2. k * P <= (c - 1) * P /\ k * P \in Int
        BY <1>3, <1>4, <4>1
      <4> QED  BY <1>1, <1>3, <1>4, <3>2, <4>2
    <3> QED  BY <3>1, <3>2
  <2>3. \A i \in from .. to : list[i] \in Accounts
    <3> HIDE DEF from, to
    <3> QED  BY <1>1, <2>1, <2>2
  <2> HIDE DEF from, to
  <2>4. SubSeq(list, from, to) \in Seq(Accounts)
    BY <2>1, <2>2, <2>3, SubSeqProperties
  <2> QED  BY <2>4 DEF from, to
<1>7. ASSUME NEW k \in 1 .. c
      PROVE  L[k] \in UpPackets /\ L[k].kind = "ACCOUNT_LIST"
  <2>1. PICK accounts \in Seq(Accounts), final \in BOOLEAN :
          L[k] = [kind |-> "ACCOUNT_LIST", about |-> Null, accounts |-> accounts,
                  final |-> final, room |-> P]
    <3>1. (k = c) \in BOOLEAN
      OBVIOUS
    <3> QED  BY <1>5, <1>6, <3>1
  <2>2. L[k] \in Packets({"ACCOUNT_LIST"}, {Null}) /\ L[k].kind = "ACCOUNT_LIST"
    BY <1>3, <2>1 DEF Packets
  <2> QED  BY <2>2 DEF UpPackets, Packets
<1>8. L \in Seq(UpPackets) /\ DOMAIN L = 1 .. c
  <2>1. L \in [1 .. c -> UpPackets] /\ DOMAIN L = 1 .. c
    BY <1>5, <1>7
  <2> QED  BY <1>4, <2>1, SeqDef
<1>9. ~HasLogout(L)
  BY <1>7, <1>8 DEF HasLogout
<1>10. ASSUME MaxList <= MaxCount
       PROVE  L[1].kind = "ACCOUNT_LIST" /\ L[1].final /\ Len(L[1].accounts) = L[1].room
  <2>1. P = n /\ c = 1
    BY <1>1, <1>3, <1>4, <1>10, FlagsAssumption, ClusterAssumption DEF n
  <2>2. /\ L[1].kind = "ACCOUNT_LIST" /\ L[1].final /\ L[1].room = n
        /\ L[1].accounts = SubSeq(list, (1 - 1) * n + 1, n)
    <3>1. 1 \in 1 .. c /\ 1 = c
      BY <2>1
    <3> DEFINE accounts == SubSeq(list, (1 - 1) * P + 1, IF 1 = c THEN n ELSE 1 * P)
    <3>2. L[1] = [kind |-> "ACCOUNT_LIST", about |-> Null, accounts |-> accounts,
                  final |-> (1 = c), room |-> P]
      BY <1>5, <3>1
    <3>3. accounts = SubSeq(list, (1 - 1) * n + 1, n)
      BY <2>1, <3>1
    <3> HIDE DEF accounts
    <3>4. L[1].kind = "ACCOUNT_LIST" /\ L[1].final = (1 = c) /\ L[1].room = P
          /\ L[1].accounts = accounts
      BY <3>2
    <3> QED  BY <2>1, <3>1, <3>3, <3>4
  <2>3. SubSeq(list, 1, n) = list
    BY SubSeqFull DEF n
  <2>4. (1 - 1) * n + 1 = 1
    BY <1>1
  <2> QED  BY <2>2, <2>3, <2>4 DEF n
<1> QED  BY <1>4, <1>8, <1>9, <1>10 DEF L

-----------------------------------------------------------------------------
(* What the methods of AuthSession make of a sound session                  *)

Sound(s) == s \in GatewaySessions /\ Good(s)

\* A step from s to t that writes ps breaks no connection that works afterwards,
\* and over a connection that waits for its login nothing is written.
Steady(s, t, ps) ==
  /\ Attached(s) => Attached(t)
  /\ t.game # Null /\ t.stream = "connected" =>
       /\ s.game = t.game /\ s.stream = "connected"
       /\ t.sync = s.sync /\ t.pendingLogin = s.pendingLogin
       /\ ~HasLogout(ps)
       /\ ~s.sync => ps = << >>

LEMMA ClosedSession ==
  ASSUME NEW s, Sound(s)
  PROVE  LET t == GW!closeSession(s)
         IN  /\ Sound(t)
             /\ t.game = s.game /\ t.pending = s.pending /\ t.stream # "connected"
             /\ Attached(s) => Attached(t)
<1> DEFINE u == [s EXCEPT !.stream = "closing", !.remote = FALSE]
<1>1. CASE s.stream \in {"connecting", "connected"}
  <2>1. GW!closeSession(s) = u
    BY <1>1 DEF GW!closeSession
  <2>2. u \in GatewaySessions
    BY DEF Sound, GatewaySessions, GW!Streams
  <2>3. /\ u.game = s.game /\ u.server = s.server /\ u.pending = s.pending
        /\ u.stream = "closing" /\ u.pendingLogin = s.pendingLogin /\ u.sync = s.sync
        /\ u.list = s.list
    BY DEF Sound, GatewaySessions
  <2> HIDE DEF u
  <2>4. Good(u) /\ Attached(u)
    BY <1>1, <2>3 DEF Sound, Good, Attached
  <2> QED  BY <2>1, <2>2, <2>3, <2>4 DEF Sound
<1>2. CASE s.stream \notin {"connecting", "connected"}
  BY <1>2 DEF GW!closeSession
<1> QED  BY <1>1, <1>2

LEMMA SentPackets ==
  ASSUME NEW s, Sound(s), NEW ps \in Seq(UpPackets)
  PROVE  LET r == GW!SentToNetwork(s, ps)
         IN  /\ Sound(r.session) /\ r.packets \in Seq(UpPackets)
             /\ r.session.game = s.game
             /\ Attached(s) => Attached(r.session)
             /\ ~HasLogout(ps) =>
                  /\ r.session = s
                  /\ r.packets = IF s.stream = "connected" THEN ps ELSE << >>
<1> DEFINE logouts == {i \in DOMAIN ps : ps[i].kind = "LOGOUT"}
           first == CHOOSE i \in logouts : \A j \in logouts : i <= j
<1>1. Len(ps) \in Nat /\ DOMAIN ps = 1 .. Len(ps) /\ \A i \in 1 .. Len(ps) : ps[i] \in UpPackets
  BY LenProperties, ElementOfSeq
<1>2. logouts = {} <=> ~HasLogout(ps)
  BY DEF HasLogout
<1>3. CASE logouts = {}
  <2>1. SubSeq(ps, 1, Len(ps)) = ps
    BY SubSeqFull
  <2>2. /\ GW!SentToNetwork(s, ps).session = s
        /\ GW!SentToNetwork(s, ps).packets = IF s.stream = "connected" THEN ps ELSE << >>
    BY <1>3, <2>1 DEF GW!SentToNetwork
  <2> QED  BY <2>2, NoPackets
<1>4. CASE logouts # {}
  <2>1. first \in 1 .. Len(ps)
    <3>1. logouts \in SUBSET (1 .. Len(ps))
      BY <1>1
    <3> HIDE DEF logouts
    <3>2. \E i \in logouts : \A j \in logouts : i <= j
      BY <1>1, <1>4, <3>1, FirstPosition
    <3>3. first \in logouts
      BY <3>2
    <3> QED  BY <3>1, <3>3
  <2>2. /\ GW!SentToNetwork(s, ps).session = GW!closeSession(s)
        /\ GW!SentToNetwork(s, ps).packets =
             IF s.stream = "connected" THEN SubSeq(ps, 1, first) ELSE << >>
    BY <1>4 DEF GW!SentToNetwork
  <2> HIDE DEF first, logouts
  <2>3. SubSeq(ps, 1, first) \in Seq(UpPackets)
    <3>1. 1 \in Int /\ first \in Int /\ \A i \in 1 .. first : ps[i] \in UpPackets
      BY <1>1, <2>1
    <3> QED  BY <3>1, SubSeqProperties
  <2> QED  BY <1>2, <1>4, <2>2, <2>3, NoPackets, ClosedSession
<1> QED  BY <1>3, <1>4

\* sendPacket: a LOGOUT is sent only for a game server that has left.
LEMMA SentPacket ==
  ASSUME NEW s, Sound(s), NEW p \in UpPackets, p.kind = "LOGOUT" => s.game = Null
  PROVE  LET r == GW!sendPacket(s, p)
         IN  /\ Sound(r.session) /\ r.packets \in Seq(UpPackets)
             /\ r.session.game = s.game
             /\ Steady(s, r.session, r.packets)
<1>1. CASE s.stream = "connected" /\ s.sync
  <2>1. GW!sendPacket(s, p) = GW!SentToNetwork(s, <<p>>)
    BY <1>1 DEF GW!sendPacket
  <2>2. <<p>> \in Seq(UpPackets) /\ (HasLogout(<<p>>) <=> p.kind = "LOGOUT")
    BY OneElement
  <2> DEFINE r == GW!SentToNetwork(s, <<p>>)
  <2>3. /\ Sound(r.session) /\ r.packets \in Seq(UpPackets)
        /\ r.session.game = s.game
        /\ Attached(s) => Attached(r.session)
        /\ p.kind # "LOGOUT" => r.session = s /\ r.packets = <<p>>
    BY <1>1, <2>2, SentPackets
  <2> HIDE DEF r
  <2>4. Steady(s, r.session, r.packets)
    BY <1>1, <2>2, <2>3 DEF Steady
  <2> QED  BY <2>1, <2>3, <2>4 DEF r
<1>2. CASE ~(s.stream = "connected" /\ s.sync)
  <2> DEFINE t == [s EXCEPT !.pending = Append(@, p)]
  <2>1. GW!sendPacket(s, p).session = t /\ GW!sendPacket(s, p).packets = << >>
    BY <1>2 DEF GW!sendPacket
  <2>2. s.pending \in Seq(UpPackets)
    BY DEF Sound, GatewaySessions
  <2>3. /\ Append(s.pending, p) \in Seq(UpPackets)
        /\ HasLogout(Append(s.pending, p)) => HasLogout(s.pending) \/ p.kind = "LOGOUT"
    BY <2>2, QueueAppend
  <2>4. t \in GatewaySessions
    BY <2>3 DEF Sound, GatewaySessions
  <2>5. /\ t.game = s.game /\ t.server = s.server /\ t.stream = s.stream
        /\ t.pending = Append(s.pending, p)
        /\ t.pendingLogin = s.pendingLogin /\ t.sync = s.sync /\ t.list = s.list
    BY DEF Sound, GatewaySessions
  <2> HIDE DEF t
  <2>6. Good(t) /\ Steady(s, t, << >>)
    BY <1>2, <2>3, <2>5, NoPackets DEF Sound, Good, Attached, Steady
  <2> QED  BY <2>1, <2>4, <2>5, <2>6, NoPackets DEF Sound
<1> QED  BY <1>1, <1>2

\* A session that has lost its game server.
LEMMA AloneSession ==
  ASSUME NEW s, Sound(s), NEW timer \in BOOLEAN
  PROVE  LET t == [s EXCEPT !.game = Null, !.pending = << >>, !.timer = timer]
         IN  Sound(t) /\ t.game = Null /\ (Attached(s) <=> Attached(t))
<1> DEFINE t == [s EXCEPT !.game = Null, !.pending = << >>, !.timer = timer]
<1>1. t \in GatewaySessions
  BY NoPackets DEF Sound, GatewaySessions
<1>2. /\ t.game = Null /\ t.server = s.server /\ t.stream = s.stream
      /\ t.pendingLogin = s.pendingLogin /\ t.sync = s.sync /\ t.list = s.list
  BY DEF Sound, GatewaySessions
<1> HIDE DEF t
<1>3. Good(t) /\ (Attached(s) <=> Attached(t))
  BY <1>2 DEF Sound, Good, Attached
<1> QED  BY <1>1, <1>2, <1>3 DEF Sound, t

LEMMA DoomedSession ==
  ASSUME NEW s, Sound(s), s.game = Null
  PROVE  LET t == [s EXCEPT !.timer = FALSE, !.doomed = TRUE]
         IN  Sound(t) /\ t.game = Null /\ (Attached(s) <=> Attached(t))
<1> DEFINE t == [s EXCEPT !.timer = FALSE, !.doomed = TRUE]
<1>1. t \in GatewaySessions
  BY DEF Sound, GatewaySessions
<1>2. /\ t.game = Null /\ t.server = s.server /\ t.stream = s.stream
      /\ t.pendingLogin = s.pendingLogin /\ t.sync = s.sync /\ t.list = s.list
  BY DEF Sound, GatewaySessions
<1> HIDE DEF t
<1>3. Good(t) /\ (Attached(s) <=> Attached(t))
  BY <1>2 DEF Sound, Good, Attached
<1> QED  BY <1>1, <1>2, <1>3 DEF Sound, t

\* disconnect and forceClose leave a session without a game server.
LEMMA LeftSession ==
  ASSUME NEW s, Sound(s), NEW r \in {GW!disconnect(s), GW!forceClose(s)}
  PROVE  /\ Sound(r.session) /\ r.packets \in Seq(UpPackets)
         /\ r.session.game = Null
         /\ Steady(s, r.session, r.packets)
<1>1. ASSUME NEW u, Sound(u), u.game = Null, Attached(s) => Attached(u),
             \/ r = GW!sendPacket(u, GW!Logout)
             \/ /\ r.session = [GW!closeSession(u) EXCEPT !.timer = FALSE, !.doomed = TRUE]
                /\ r.packets = << >>
      PROVE  /\ Sound(r.session) /\ r.packets \in Seq(UpPackets)
             /\ r.session.game = Null
             /\ Attached(s) => Attached(r.session)
  <2>1. CASE r = GW!sendPacket(u, GW!Logout)
    BY <1>1, <2>1, UpPacketTypes, SentPacket DEF Steady
  <2>2. CASE /\ r.session = [GW!closeSession(u) EXCEPT !.timer = FALSE, !.doomed = TRUE]
             /\ r.packets = << >>
    <3>1. PICK v : v = GW!closeSession(u)
      OBVIOUS
    <3>2. Sound(v) /\ v.game = Null /\ (Attached(u) => Attached(v))
      BY <1>1, <3>1, ClosedSession
    <3>3. r.session = [v EXCEPT !.timer = FALSE, !.doomed = TRUE]
      BY <2>2, <3>1
    <3> QED  BY <1>1, <2>2, <3>2, <3>3, DoomedSession, NoPackets
  <2> QED  BY <1>1, <2>1, <2>2
<1>2. CASE r = GW!disconnect(s)
  <2> DEFINE u == [s EXCEPT !.game = Null, !.pending = << >>]
  <2>1. PICK timer \in BOOLEAN : timer = s.timer
    BY DEF Sound, GatewaySessions
  <2>2. u = [s EXCEPT !.game = Null, !.pending = << >>, !.timer = timer]
    BY <2>1 DEF Sound, GatewaySessions
  <2>3. \/ r = GW!sendPacket(u, GW!Logout)
        \/ /\ r.session = [GW!closeSession(u) EXCEPT !.timer = FALSE, !.doomed = TRUE]
           /\ r.packets = << >>
    BY <1>2 DEF GW!disconnect
  <2> HIDE DEF u
  <2>4. Sound(u) /\ u.game = Null /\ (Attached(s) => Attached(u))
    BY <2>2, AloneSession
  <2> QED  BY <1>1, <2>3, <2>4 DEF Steady
<1>3. CASE r = GW!forceClose(s)
  <2> DEFINE u == [s EXCEPT !.game = Null, !.pending = << >>, !.timer = FALSE]
  <2>1. Sound(u) /\ u.game = Null /\ (Attached(s) => Attached(u))
    BY AloneSession
  <2>2. u.timer = FALSE
    BY DEF Sound, GatewaySessions
  <2>3. \/ r = GW!sendPacket(u, GW!Logout)
        \/ /\ r.session = [GW!closeSession(u) EXCEPT !.doomed = TRUE]
           /\ r.packets = << >>
    BY <1>3 DEF GW!forceClose
  <2> HIDE DEF u
  <2>4. [GW!closeSession(u) EXCEPT !.doomed = TRUE]
          = [GW!closeSession(u) EXCEPT !.timer = FALSE, !.doomed = TRUE]
    <3>1. u \in GatewaySessions
      BY <2>1 DEF Sound
    <3> QED  BY <2>2, <3>1 DEF GW!closeSession, GatewaySessions
  <2> QED  BY <1>1, <2>1, <2>3, <2>4 DEF Steady
<1> QED  BY <1>2, <1>3

\* A list that goes out whole: the final packet, as full as it announces.
Complete(p) == p.kind = "ACCOUNT_LIST" /\ p.final /\ Len(p.accounts) = p.room

HasList(ps) == \E i \in DOMAIN ps : Complete(ps[i])

LEMMA ConcatList ==
  ASSUME NEW S, NEW q \in Seq(S), NEW r \in Seq(S), HasList(q)
  PROVE  HasList(q \o r)
<1>1. \A i \in DOMAIN q : i \in DOMAIN (q \o r) /\ (q \o r)[i] = q[i]
  BY QueueConcat
<1> QED  BY <1>1 DEF HasList

\* The answer to an accepted login: the session is synchronized, and the account
\* list is on its way.
LEMMA SentAccountList ==
  ASSUME NEW s, Sound(s), Attached(s), ~s.pendingLogin
  PROVE  LET r == GW!sendAccountList(s)
         IN  /\ Sound(r.session) /\ r.packets \in Seq(UpPackets)
             /\ r.session.game = s.game
             /\ Attached(r.session)
             /\ s.game # Null =>
                  /\ r.session.stream = s.stream
                  /\ r.session.sync /\ ~r.session.pendingLogin
                  /\ ~HasLogout(r.packets)
                  /\ s.stream = "connected" /\ MaxList <= MaxCount => HasList(r.packets)
<1> DEFINE u == [s EXCEPT !.sync = TRUE, !.pending = << >>]
           L == GW!ListPackets(s.list)
           ps == L \o s.pending
           r == GW!SentToNetwork(u, ps)
<1>1. GW!sendAccountList(s) = r
  BY DEF GW!sendAccountList
<1>2. s.list \in Seq(Accounts) /\ s.pending \in Seq(UpPackets) /\ Len(s.list) <= MaxList
  BY DEF Sound, GatewaySessions, Good
<1>3. /\ L \in Seq(UpPackets) /\ ~HasLogout(L)
      /\ MaxList <= MaxCount => HasList(L)
  BY <1>2, ListPacketsType DEF HasList, Complete
<1>4. u \in GatewaySessions
  BY NoPackets DEF Sound, GatewaySessions
<1>5. /\ u.game = s.game /\ u.server = s.server /\ u.stream = s.stream
      /\ u.sync /\ u.pendingLogin = s.pendingLogin /\ u.list = s.list /\ u.pending = << >>
  BY DEF Sound, GatewaySessions
<1> HIDE DEF u, L
<1>6. Sound(u) /\ Attached(u)
  BY <1>4, <1>5, NoPackets DEF Sound, Good, Attached
<1>7. /\ ps \in Seq(UpPackets)
      /\ HasLogout(ps) => HasLogout(s.pending)
      /\ HasList(L) => HasList(ps)
  BY <1>2, <1>3, QueueConcat, ConcatList
<1>8. s.game # Null => ~HasLogout(s.pending)
  BY DEF Sound, Good
<1> HIDE DEF ps
<1>9. /\ Sound(r.session) /\ r.packets \in Seq(UpPackets)
      /\ r.session.game = u.game
      /\ Attached(r.session)
      /\ ~HasLogout(ps) =>
           /\ r.session = u
           /\ r.packets = IF u.stream = "connected" THEN ps ELSE << >>
  BY <1>6, <1>7, SentPackets
<1> HIDE DEF r
<1> QED  BY <1>1, <1>3, <1>5, <1>7, <1>8, <1>9, NoPackets

\* logoutClient leaves a list of accounts that is not longer.
LEMMA WithoutAccount ==
  ASSUME NEW list \in Seq(Accounts), NEW name
  PROVE  GW!Without(list, name) \in Seq(Accounts) /\ Len(GW!Without(list, name)) <= Len(list)
<1> DEFINE at == {i \in DOMAIN list : list[i][1] = name}
           last == CHOOSE i \in at : \A j \in at : j <= i
           before == SubSeq(list, 1, last - 1)
           after == SubSeq(list, last + 1, Len(list))
<1>1. Len(list) \in Nat /\ DOMAIN list = 1 .. Len(list)
      /\ \A i \in 1 .. Len(list) : list[i] \in Accounts
  BY LenProperties, ElementOfSeq
<1>2. CASE at = {}
  BY <1>1, <1>2 DEF GW!Without
<1>3. CASE at # {}
  <2>1. last \in 1 .. Len(list)
    <3>1. at \in SUBSET (1 .. Len(list))
      BY <1>1
    <3> HIDE DEF at
    <3>2. \E i \in at : \A j \in at : j <= i
      BY <1>1, <1>3, <3>1, LastPosition
    <3>3. last \in at
      BY <3>2
    <3> QED  BY <3>1, <3>3
  <2>2. GW!Without(list, name) = before \o after
    BY <1>3 DEF GW!Without
  <2> HIDE DEF last, at
  <2>3. before \in Seq(Accounts) /\ Len(before) = last - 1
    <3>1. 1 \in Int /\ last - 1 \in Int /\ \A i \in 1 .. last - 1 : list[i] \in Accounts
      BY <1>1, <2>1
    <3>2. Len(before) = IF 1 <= last - 1 THEN last - 1 - 1 + 1 ELSE 0
      BY <3>1, SubSeqProperties
    <3> QED  BY <2>1, <3>1, <3>2, SubSeqProperties
  <2>4. after \in Seq(Accounts) /\ Len(after) = Len(list) - last
    <3>1. /\ last + 1 \in Int /\ Len(list) \in Int
          /\ \A i \in last + 1 .. Len(list) : list[i] \in Accounts
      BY <1>1, <2>1
    <3>2. Len(after) = IF last + 1 <= Len(list) THEN Len(list) - (last + 1) + 1 ELSE 0
      BY <3>1, SubSeqProperties
    <3> QED  BY <1>1, <2>1, <3>1, <3>2, SubSeqProperties
  <2> HIDE DEF before, after
  <2>5. before \o after \in Seq(Accounts) /\ Len(before \o after) = Len(before) + Len(after)
    BY <2>3, <2>4, ConcatProperties
  <2> QED  BY <1>1, <2>1, <2>2, <2>3, <2>4, <2>5
<1> QED  BY <1>2, <1>3

\* Another account list in an otherwise unchanged session.
LEMMA ListedSession ==
  ASSUME NEW s, Sound(s), NEW list \in Seq(Accounts), Len(list) <= MaxList
  PROVE  LET t == [s EXCEPT !.list = list]
         IN  /\ Sound(t) /\ t.game = s.game
             /\ t.stream = s.stream /\ t.sync = s.sync /\ t.pendingLogin = s.pendingLogin
<1> DEFINE t == [s EXCEPT !.list = list]
<1>1. t \in GatewaySessions
  BY DEF Sound, GatewaySessions
<1>2. /\ t.game = s.game /\ t.server = s.server /\ t.stream = s.stream
      /\ t.pending = s.pending
      /\ t.pendingLogin = s.pendingLogin /\ t.sync = s.sync /\ t.list = list
  BY DEF Sound, GatewaySessions
<1> HIDE DEF t
<1>3. Good(t)
  BY <1>2 DEF Sound, Good, Attached
<1> QED  BY <1>1, <1>2, <1>3 DEF Sound, t

LEMMA BlankSessions ==
  /\ \A g \in Games : Sound(GW!NewAuthSession(g)) /\ GW!NewAuthSession(g).stream = "connecting"
  /\ Sound(GW!Absent)
<1> USE NoPackets
<1>1. Len(<< >>) <= MaxList
  BY FlagsAssumption
<1>2. ASSUME NEW g \in Games \cup {Null}
      PROVE  /\ GW!NewAuthSession(g) \in GatewaySessions
             /\ GW!NewAuthSession(g).stream = "connecting"
             /\ GW!NewAuthSession(g).game = g /\ GW!NewAuthSession(g).server = g
             /\ ~GW!NewAuthSession(g).pendingLogin /\ ~GW!NewAuthSession(g).sync
             /\ GW!NewAuthSession(g).pending = << >> /\ GW!NewAuthSession(g).list = << >>
  BY DEF GW!NewAuthSession, GatewaySessions, GW!Streams
<1>3. ASSUME NEW g \in Games PROVE Sound(GW!NewAuthSession(g))
  <2>1. g # Null
    BY ClusterAssumption
  <2> QED  BY <1>1, <1>2, <2>1 DEF Sound, Good
<1>4. Sound(GW!Absent)
  <2> DEFINE n == GW!NewAuthSession(Null)
  <2>1. /\ n \in GatewaySessions /\ n.game = Null /\ ~n.pendingLogin /\ ~n.sync
        /\ n.list = << >>
    BY <1>2
  <2>2. GW!Absent = [n EXCEPT !.stream = "absent"]
    BY DEF GW!Absent
  <2> HIDE DEF n
  <2>3. /\ GW!Absent \in GatewaySessions /\ GW!Absent.game = Null /\ GW!Absent.stream = "absent"
        /\ ~GW!Absent.pendingLogin /\ ~GW!Absent.sync /\ GW!Absent.list = << >>
    BY <2>1, <2>2 DEF GatewaySessions, GW!Streams
  <2> QED  BY <1>1, <2>3 DEF Sound, Good
<1> QED  BY <1>2, <1>3, <1>4

-----------------------------------------------------------------------------
(* The invariant of the whole                                               *)

AuthInv == TypeOK /\ SessionLink /\ MapsAgree /\ Managed /\ QueriesAlive

GatewayInv ==
  /\ as \in [Slots -> GatewaySessions]
  /\ \A a \in Slots : Sound(as[a])
  /\ game \in [Games -> GW!GameSessions]

ChannelTypes ==
  /\ up \in [Sessions -> Seq(UpPackets)]
  /\ down \in [Sessions -> Seq(DownPackets)]

\* An AuthSession and a session of the auth server that are at the two ends of a
\* connection exist, and no connection has a third end.
Ends ==
  /\ peer \in [Slots -> Sessions \cup {Null}]
  /\ \A a \in Slots :
       peer[a] # Null =>
         /\ gs[peer[a]].phase # "none"
         /\ Attached(as[a])
         /\ \A b \in Slots : peer[b] = peer[a] => b = a

Base == AuthInv /\ GatewayInv /\ ChannelTypes /\ Ends

\* Both ends of the connection of a work, and there is a game server to serve.
Working(a) ==
  /\ peer[a] # Null
  /\ gs[peer[a]].phase = "connected"
  /\ as[a].stream = "connected"
  /\ as[a].game # Null

\* The three stages of such a connection, where t is the AuthSession, u and d are
\* the packets in flight, g is the auth server's gameData and ready its state:
\* the login is on its way ...
LoginSent(t, a, u, d, g) ==
  /\ t.pendingLogin /\ ~t.sync
  /\ u = <<GW!Packet("LOGIN", <<t.game, a>>)>>
  /\ d = << >>
  /\ g = Null

\* ... its result is on its way ...
LoginAnswered(t, u, d, g) ==
  /\ t.pendingLogin /\ ~t.sync
  /\ u = << >>
  /\ d # << >>
  /\ \/ Head(d).kind = "LOGIN_RESULT_OK" /\ g = IdxOf[t.game]
     \/ Head(d).kind = "LOGIN_RESULT_FAILED" /\ g = Null

\* ... or the gateway is synchronized, and the auth server has received the whole
\* account list or will receive it.
Serving(t, u, g, ready) ==
  /\ t.sync /\ ~t.pendingLogin
  /\ g = IdxOf[t.game]
  /\ ~HasLogout(u)
  /\ ready \/ HasList(u)

Stage(t, a, u, d, g, ready) ==
  LoginSent(t, a, u, d, g) \/ LoginAnswered(t, u, d, g) \/ Serving(t, u, g, ready)

StageOf(a) ==
  Stage(as[a], a, up[peer[a]], down[peer[a]], gs[peer[a]].gameData,
        servers[IdxOf[as[a].game]].ready)

Stages == \A a \in Slots : Working(a) => StageOf(a)

LEMMA AuthUnchanged ==
  ASSUME AuthInv, UNCHANGED <<cd, byName, servers, gs, cs>>, sent' \subseteq Messages
  PROVE  AuthInv'
<1>1. TypeOK'
  BY DEF AuthInv, TypeOK
<1>2. SessionLink'
  BY DEF AuthInv, SessionLink, Registered
<1>3. MapsAgree'
  BY DEF AuthInv, MapsAgree, Connected
<1>4. Managed'
  BY DEF AuthInv, Managed, ServerKnown, Connected, Registered
<1>5. QueriesAlive'
  BY DEF AuthInv, QueriesAlive
<1> QED  BY <1>1, <1>2, <1>3, <1>4, <1>5 DEF AuthInv

LEMMA AuthInit == Init => AuthInv
<1> SUFFICES ASSUME Init PROVE AuthInv
  OBVIOUS
<1>1. TypeOK
  BY BlankTypes DEF Init, TypeOK
<1>2. SessionLink
  BY KeysAssumption DEF Init, SessionLink, NewGameSession, NoServer
<1>3. MapsAgree
  BY DEF Init, MapsAgree, Connected, NoClient
<1>4. Managed /\ QueriesAlive
  BY DEF Init, Managed, ServerKnown, QueriesAlive, Connected, NoClient, NewClientSession
<1> QED  BY <1>1, <1>2, <1>3, <1>4 DEF AuthInv

\* A handler of the auth server keeps what its own specification keeps.
LEMMA AuthStep ==
  ASSUME AuthInv, Next
  PROVE  AuthInv'
<1>1. ASSUME NEW s \in Sessions, GameServerNext(s) PROVE AuthInv'
  <2>1. UNCHANGED cs
    BY <1>1 DEF GameServerNext, AcceptGameServer, GameConnectionLost,
       GameSessionClosed, onServerLogin, onAccountList, onServerLogout,
       onClientLogin, onClientLogout, onClientKickFailed, ClientReported
  <2>2. QueriesAlive'
    BY <2>1 DEF AuthInv, QueriesAlive
  <2>3. TypeOK' /\ SessionLink' /\ MapsAgree' /\ Managed'
    BY <1>1, TypeGameServerStep, LinkGameServerStep, MapsGameServerStep,
       ManagedGameServerStep DEF AuthInv
  <2> QED  BY <2>2, <2>3 DEF AuthInv
<1>2. ASSUME NEW c \in Clients, ClientNext(c) PROVE AuthInv'
  BY <1>2, TypeClientStep, ClientStepKeepsLinks, SameLinksPreserve, MapsClientStep,
     ManagedClientStep DEF AuthInv
<1> QED  BY <1>1, <1>2 DEF Next

-----------------------------------------------------------------------------
(* Steps of the gateway                                                     *)

\* A step of the AuthSession a, which becomes t and writes ps, leaves the
\* connections of the others as they are.
LEMMA MovedStep ==
  ASSUME Base, NEW a \in Slots, NEW t, NEW ps \in Seq(UpPackets),
         Sound(t), Attached(as[a]) => Attached(t), as' = [as EXCEPT ![a] = t],
         UNCHANGED <<vars, peer>>, game' \in [Games -> GW!GameSessions],
         up' = IF ps = << >> \/ peer[a] = Null THEN up ELSE [up EXCEPT ![peer[a]] = @ \o ps],
         down' \in [Sessions -> Seq(DownPackets)],
         \A s \in Sessions : s # peer[a] => down'[s] = down[s]
  PROVE  /\ Base'
         /\ as'[a] = t
         /\ peer[a] # Null =>
              /\ peer[a] \in Sessions
              /\ up[peer[a]] \in Seq(UpPackets)
              /\ up'[peer[a]] = IF ps = << >> THEN up[peer[a]] ELSE up[peer[a]] \o ps
         /\ Stages => \A b \in Slots : b # a /\ Working(b)' => StageOf(b)'
<1>1. AuthInv'
  BY AuthUnchanged DEF Base, AuthInv, TypeOK, vars
<1>2. GatewayInv'
  BY DEF Base, GatewayInv, Sound
<1>3. PICK end : end = peer[a] /\ end \in Sessions \cup {Null}
  BY DEF Base, Ends
<1>4. \A s \in Sessions :
        /\ up[s] \in Seq(UpPackets) /\ up'[s] \in Seq(UpPackets)
        /\ s # end => up'[s] = up[s]
        /\ s = end => up'[s] = IF ps = << >> THEN up[s] ELSE up[s] \o ps
  <2>1. up \in [Sessions -> Seq(UpPackets)]
    BY DEF Base, ChannelTypes
  <2>2. \A s \in Sessions : up[s] \o ps \in Seq(UpPackets)
    BY <2>1, ConcatProperties
  <2> QED  BY <1>3, <2>1, <2>2, KeysAssumption
<1>5. ChannelTypes'
  <2>1. up \in [Sessions -> Seq(UpPackets)]
    BY DEF Base, ChannelTypes
  <2>2. up' \in [Sessions -> Seq(UpPackets)]
    BY <1>3, <1>4, <2>1
  <2> QED  BY <2>2 DEF ChannelTypes
<1>6. as'[a] = t /\ \A b \in Slots : b # a => as'[b] = as[b]
  BY DEF Base, GatewayInv
<1>7. UNCHANGED <<gs, servers, peer>>
  BY DEF vars
<1>8. Ends'
  <2>1. \A b \in Slots : Attached(as[b]) => Attached(as'[b])
    BY <1>6
  <2> QED  BY <1>7, <2>1 DEF Base, Ends, Attached
<1>9. ASSUME Stages, NEW b \in Slots, b # a, Working(b)' PROVE StageOf(b)'
  <2>1. PICK s \in Sessions : s = peer[b] /\ s = peer'[b]
    BY <1>7, <1>9 DEF Working, Base, Ends
  <2>2. s # end /\ as'[b] = as[b]
    BY <1>3, <1>6, <1>9, <2>1, KeysAssumption DEF Base, Ends
  <2>3. Working(b)
    BY <1>7, <1>9, <2>2 DEF Working
  <2>4. Stage(as[b], b, up[s], down[s], gs[s].gameData, servers[IdxOf[as[b].game]].ready)
    BY <1>9, <2>1, <2>3 DEF Stages, StageOf
  <2>5. up'[s] = up[s] /\ down'[s] = down[s]
    BY <1>3, <1>4, <2>2
  <2> QED  BY <1>7, <2>1, <2>2, <2>4, <2>5 DEF StageOf
<1> QED  BY <1>1, <1>2, <1>3, <1>4, <1>5, <1>6, <1>8, <1>9, KeysAssumption DEF Base

\* A step that leaves a working connection as it is.
LEMMA SteadyStep ==
  ASSUME Base, NEW a \in Slots, NEW t, NEW ps \in Seq(UpPackets),
         Sound(t), Steady(as[a], t, ps), as' = [as EXCEPT ![a] = t],
         UNCHANGED <<vars, peer>>, game' \in [Games -> GW!GameSessions],
         up' = IF ps = << >> \/ peer[a] = Null THEN up ELSE [up EXCEPT ![peer[a]] = @ \o ps],
         down' \in [Sessions -> Seq(DownPackets)],
         \A s \in Sessions : s # peer[a] => down'[s] = down[s],
         Stages /\ Working(a) /\ t.game # Null => as[a].sync \/ down' = down
  PROVE  Base' /\ (Stages => Stages')
<1>1. /\ Base'
      /\ as'[a] = t
      /\ peer[a] # Null =>
           /\ peer[a] \in Sessions
           /\ up[peer[a]] \in Seq(UpPackets)
           /\ up'[peer[a]] = IF ps = << >> THEN up[peer[a]] ELSE up[peer[a]] \o ps
      /\ Stages => \A b \in Slots : b # a /\ Working(b)' => StageOf(b)'
  BY MovedStep DEF Steady
<1>2. UNCHANGED <<gs, servers, peer>>
  BY DEF vars
<1>3. ASSUME Stages, Working(a)' PROVE StageOf(a)'
  <2>1. PICK s : s = peer[a] /\ s = peer'[a]
    BY <1>2
  <2>2. /\ as[a].game = t.game /\ as[a].stream = "connected"
        /\ t.sync = as[a].sync /\ t.pendingLogin = as[a].pendingLogin
        /\ ~HasLogout(ps) /\ (~as[a].sync => ps = << >>)
        /\ t.game # Null
    BY <1>1, <1>3 DEF Working, Steady
  <2>3. Working(a)
    BY <1>2, <1>3, <2>2 DEF Working
  <2>4. Stage(as[a], a, up[s], down[s], gs[s].gameData, servers[IdxOf[as[a].game]].ready)
    BY <1>3, <2>1, <2>3 DEF Stages, StageOf
  <2>5. /\ up[s] \in Seq(UpPackets)
        /\ up'[s] = IF ps = << >> THEN up[s] ELSE up[s] \o ps
        /\ ~as[a].sync => down'[s] = down[s]
    BY <1>1, <1>3, <2>1, <2>2, <2>3 DEF Working
  <2>6. /\ HasLogout(up'[s]) => HasLogout(up[s])
        /\ HasList(up[s]) => HasList(up'[s])
    BY <2>2, <2>5, QueueConcat, ConcatList
  <2>7. Stage(t, a, up'[s], down'[s], gs[s].gameData, servers[IdxOf[t.game]].ready)
    <3>1. CASE LoginSent(as[a], a, up[s], down[s], gs[s].gameData)
      BY <2>2, <2>5, <3>1 DEF LoginSent, Stage
    <3>2. CASE LoginAnswered(as[a], up[s], down[s], gs[s].gameData)
      BY <2>2, <2>5, <3>2 DEF LoginAnswered, Stage
    <3>3. CASE Serving(as[a], up[s], gs[s].gameData, servers[IdxOf[as[a].game]].ready)
      BY <2>2, <2>6, <3>3 DEF Serving, Stage
    <3> QED  BY <2>4, <3>1, <3>2, <3>3 DEF Stage
  <2> QED  BY <1>1, <1>2, <2>1, <2>7 DEF StageOf
<1> QED  BY <1>1, <1>3 DEF Stages

\* A step that ends the connection of a.
LEMMA DetachedStep ==
  ASSUME Base, NEW a \in Slots, NEW t, Sound(t), as' = [as EXCEPT ![a] = t],
         peer' = [peer EXCEPT ![a] = Null], UNCHANGED <<vars, game, up, down>>
  PROVE  Base' /\ (Stages => Stages')
<1>1. AuthInv'
  BY AuthUnchanged DEF Base, AuthInv, TypeOK, vars
<1>2. GatewayInv'
  BY DEF Base, GatewayInv, Sound
<1>3. ChannelTypes'
  BY DEF Base, ChannelTypes
<1>4. /\ UNCHANGED <<gs, servers, up, down>>
      /\ peer'[a] = Null
      /\ \A b \in Slots : b # a => as'[b] = as[b] /\ peer'[b] = peer[b]
  BY DEF Base, GatewayInv, Ends, vars
<1>5. Ends'
  <2>1. peer' \in [Slots -> Sessions \cup {Null}]
    BY DEF Base, Ends
  <2> QED  BY <1>4, <2>1 DEF Base, Ends, Attached
<1>6. ASSUME Stages, NEW b \in Slots, Working(b)' PROVE StageOf(b)'
  <2>1. b # a
    BY <1>4, <1>6 DEF Working
  <2>2. Working(b)
    BY <1>4, <1>6, <2>1 DEF Working
  <2> QED  BY <1>4, <1>6, <2>1, <2>2 DEF Stages, StageOf
<1>7. Stages => Stages'
  BY <1>6 DEF Stages
<1> QED  BY <1>1, <1>2, <1>3, <1>5, <1>7 DEF Base

\* A step that touches neither the AuthSessions nor the connections.
LEMMA IdleStep ==
  ASSUME Base, UNCHANGED <<vars, as, peer, up, down>>, game' \in [Games -> GW!GameSessions]
  PROVE  Base' /\ (Stages => Stages')
<1>1. AuthInv'
  BY AuthUnchanged DEF Base, AuthInv, TypeOK, vars
<1>2. GatewayInv' /\ ChannelTypes'
  BY DEF Base, GatewayInv, ChannelTypes
<1>3. UNCHANGED <<gs, servers>>
  BY DEF vars
<1>4. Ends' /\ (Stages => Stages')
  BY <1>3 DEF Base, Ends, Stages, StageOf, Working
<1> QED  BY <1>1, <1>2, <1>4 DEF Base

-----------------------------------------------------------------------------
(* The actions of the gateway                                               *)

\* What Apply and Become do.
LEMMA Applied ==
  /\ \A a, r : GW!Apply(a, r) =>
       /\ as' = [as EXCEPT ![a] = r.session]
       /\ out' = [slot |-> a, packets |-> r.packets]
  /\ \A a, s : GW!Become(a, s) =>
       /\ as' = [as EXCEPT ![a] = s]
       /\ out' = [slot |-> a, packets |-> << >>]
BY DEF GW!Apply, GW!Become

LEMMA Uplinked ==
  ASSUME NEW a, NEW ps, out' = [slot |-> a, packets |-> ps], Uplink(up)
  PROVE  up' = IF ps = << >> \/ peer[a] = Null THEN up ELSE [up EXCEPT ![peer[a]] = @ \o ps]
BY DEF Uplink

\* Nothing is written.
LEMMA SilentStep ==
  ASSUME Base, NEW a \in Slots, NEW t, Sound(t), as' = [as EXCEPT ![a] = t],
         Steady(as[a], t, << >>),
         UNCHANGED <<vars, peer, up, down>>, game' \in [Games -> GW!GameSessions]
  PROVE  Base' /\ (Stages => Stages')
<1>1. down' \in [Sessions -> Seq(DownPackets)]
  BY DEF Base, ChannelTypes
<1>2. << >> \in Seq(UpPackets)
  BY NoPackets
<1> QED  BY <1>1, <1>2, SteadyStep

LEMMA GatewayTypes ==
  ASSUME Base
  PROVE  /\ \A a \in Slots : Sound(as[a]) /\ as[a] \in GatewaySessions /\ Good(as[a])
         /\ \A g \in Games : game[g] \in GW!GameSessions /\ game[g].auth \in Slots \cup {Null}
         /\ game \in [Games -> GW!GameSessions]
BY DEF Base, GatewayInv, Sound, GW!GameSessions

LEMMA LosesAuthStep ==
  ASSUME Base, NEW a \in Slots, GatewayLosesAuth(a)
  PROVE  Base' /\ (Stages => Stages')
<1> DEFINE t == [as[a] EXCEPT !.stream = "closing", !.remote = TRUE]
<1>1. as' = [as EXCEPT ![a] = t] /\ UNCHANGED game
  BY Applied DEF GatewayLosesAuth, GW!AuthConnectionLost
<1>2. Sound(t)
  <2>1. Sound(as[a]) /\ as[a].stream # "absent"
    BY GatewayTypes DEF GatewayLosesAuth, GW!AuthConnectionLost
  <2>2. t \in GatewaySessions
    BY <2>1 DEF Sound, GatewaySessions, GW!Streams
  <2>3. /\ t.game = as[a].game /\ t.server = as[a].server /\ t.stream = "closing"
        /\ t.pending = as[a].pending /\ t.pendingLogin = as[a].pendingLogin
        /\ t.sync = as[a].sync /\ t.list = as[a].list
    BY <2>1 DEF Sound, GatewaySessions
  <2> HIDE DEF t
  <2> QED  BY <2>1, <2>2, <2>3 DEF Sound, Good, Attached
<1>3. peer' = [peer EXCEPT ![a] = Null] /\ UNCHANGED <<vars, up, down>>
  BY DEF GatewayLosesAuth
<1> HIDE DEF t
<1> QED  BY <1>1, <1>2, <1>3, DetachedStep

LEMMA SessionStep ==
  ASSUME Base, NEW a \in Slots, GatewaySession(a)
  PROVE  Base' /\ (Stages => Stages')
<1>0. Sound(as[a]) /\ UNCHANGED <<vars, up, down>>
  BY GatewayTypes DEF GatewaySession
<1>1. CASE GW!onDisconnected(a) /\ peer' = [peer EXCEPT ![a] = Null]
  <2> DEFINE s == [as[a] EXCEPT !.stream = "unconnected", !.remote = FALSE,
                                !.sync = FALSE, !.pendingLogin = FALSE]
  <2>1. PICK timer \in BOOLEAN, doomed \in BOOLEAN :
          as' = [as EXCEPT ![a] = [s EXCEPT !.timer = timer, !.doomed = doomed]]
    <3>0. s \in GatewaySessions
      BY <1>0 DEF Sound, GatewaySessions, GW!Streams
    <3>1. \/ as' = [as EXCEPT ![a] = [s EXCEPT !.timer = TRUE]]
          \/ as' = [as EXCEPT ![a] = [s EXCEPT !.doomed = @ \/ s.game = Null]]
      BY <1>1, Applied DEF GW!onDisconnected
    <3> HIDE DEF s
    <3>2. /\ [s EXCEPT !.timer = TRUE] = [s EXCEPT !.timer = TRUE, !.doomed = s.doomed]
          /\ [s EXCEPT !.doomed = @ \/ s.game = Null]
               = [s EXCEPT !.timer = s.timer, !.doomed = s.doomed \/ s.game = Null]
          /\ s.timer \in BOOLEAN /\ s.doomed \in BOOLEAN
      BY <3>0 DEF GatewaySessions
    <3>3. (s.doomed \/ s.game = Null) \in BOOLEAN
      BY <3>2
    <3> QED  BY <3>1, <3>2, <3>3
  <2> DEFINE t == [s EXCEPT !.timer = timer, !.doomed = doomed]
  <2>2. t \in GatewaySessions
    BY <1>0 DEF Sound, GatewaySessions, GW!Streams
  <2>3. /\ t.game = as[a].game /\ t.server = as[a].server /\ t.stream = "unconnected"
        /\ t.pending = as[a].pending /\ ~t.pendingLogin /\ ~t.sync /\ t.list = as[a].list
    BY <1>0 DEF Sound, GatewaySessions
  <2>4. as[a].stream # "absent"
    BY <1>1 DEF GW!onDisconnected
  <2> HIDE DEF t
  <2>5. Sound(t)
    BY <1>0, <2>2, <2>3, <2>4 DEF Sound, Good, Attached
  <2>6. UNCHANGED game
    BY <1>1 DEF GW!onDisconnected
  <2> QED  BY <1>0, <1>1, <2>1, <2>5, <2>6, DetachedStep DEF t
<1>2. CASE GW!onTimerReconnect(a) /\ UNCHANGED peer
  <2>1. PICK stream \in GW!Streams :
          /\ as' = [as EXCEPT ![a] = [as[a] EXCEPT !.timer = FALSE, !.stream = stream]]
          /\ \/ as[a].stream = "unconnected" /\ stream = "connecting"
             \/ stream = as[a].stream
    <3>1. as[a].stream \in GW!Streams
      BY <1>0 DEF Sound, GatewaySessions
    <3>2. as' = [as EXCEPT ![a] = [as[a] EXCEPT !.timer = FALSE,
                   !.stream = IF as[a].stream = "unconnected" THEN "connecting" ELSE as[a].stream]]
      BY <1>0, <1>2, Applied DEF GW!onTimerReconnect, Sound, GatewaySessions
    <3> QED  BY <3>1, <3>2 DEF GW!Streams
  <2> DEFINE t == [as[a] EXCEPT !.timer = FALSE, !.stream = stream]
  <2>2. t \in GatewaySessions
    BY <1>0 DEF Sound, GatewaySessions
  <2>3. /\ t.game = as[a].game /\ t.server = as[a].server /\ t.stream = stream
        /\ t.pending = as[a].pending /\ t.pendingLogin = as[a].pendingLogin
        /\ t.sync = as[a].sync /\ t.list = as[a].list
    BY <1>0 DEF Sound, GatewaySessions
  <2> HIDE DEF t
  <2>4. Sound(t) /\ Steady(as[a], t, << >>)
    BY <1>0, <2>1, <2>2, <2>3, NoPackets DEF Sound, Good, Attached, Steady
  <2>5. UNCHANGED game
    BY <1>2 DEF GW!onTimerReconnect
  <2> QED  BY <1>0, <1>2, <2>1, <2>4, <2>5, GatewayTypes, SilentStep DEF t
<1>3. CASE GW!DeleteAuthSession(a) /\ peer' = [peer EXCEPT ![a] = Null]
  <2>1. as' = [as EXCEPT ![a] = GW!Absent] /\ UNCHANGED game
    BY <1>3, Applied DEF GW!DeleteAuthSession
  <2> QED  BY <1>0, <1>3, <2>1, BlankSessions, DetachedStep
<1> QED  BY <1>1, <1>2, <1>3 DEF GatewaySession

\* A method of AuthSession writes to the auth server.
LEMMA WritingStep ==
  ASSUME Base, NEW a \in Slots, NEW r,
         Sound(r.session), r.packets \in Seq(UpPackets), Steady(as[a], r.session, r.packets),
         GW!Apply(a, r), Uplink(up),
         UNCHANGED <<vars, peer, down>>, game' \in [Games -> GW!GameSessions]
  PROVE  Base' /\ (Stages => Stages')
<1>1. PICK t : t = r.session
  OBVIOUS
<1>2. PICK ps \in Seq(UpPackets) : ps = r.packets
  OBVIOUS
<1>3. as' = [as EXCEPT ![a] = t] /\ out' = [slot |-> a, packets |-> ps]
  BY <1>1, <1>2, Applied
<1>4. up' = IF ps = << >> \/ peer[a] = Null THEN up ELSE [up EXCEPT ![peer[a]] = @ \o ps]
  BY <1>3, Uplinked
<1>5. down' \in [Sessions -> Seq(DownPackets)]
  BY DEF Base, ChannelTypes
<1> QED  BY <1>1, <1>2, <1>3, <1>4, <1>5, SteadyStep

LEMMA GameConnectsStep ==
  ASSUME Base, NEW g \in Games, GameConnects(g)
  PROVE  Base' /\ (Stages => Stages')
<1>0. game \in [Games -> GW!GameSessions] /\ UNCHANGED <<vars, peer, up, down>>
  BY GatewayTypes DEF GameConnects, netVars
<1>1. CASE GW!AcceptGame(g)
  <2>1. game' \in [Games -> GW!GameSessions]
    BY <1>0, <1>1 DEF GW!AcceptGame, GW!GameSessions
  <2> QED  BY <1>0, <1>1, <2>1, IdleStep DEF GW!AcceptGame
<1>2. ASSUME NEW a \in Slots, GW!onServerLogin(g, a) PROVE Base' /\ (Stages => Stages')
  <2>1. game' \in [Games -> GW!GameSessions]
    BY <1>0, <1>2 DEF GW!onServerLogin, GW!GameSessions
  <2>2. as' = [as EXCEPT ![a] = GW!NewAuthSession(g)] /\ as[a].stream = "absent"
    BY <1>2, Applied DEF GW!onServerLogin, GW!Exists
  <2>3. Sound(GW!NewAuthSession(g)) /\ GW!NewAuthSession(g).stream = "connecting"
    BY BlankSessions
  <2>4. Steady(as[a], GW!NewAuthSession(g), << >>)
    BY <2>2, <2>3 DEF Steady, Attached
  <2> QED  BY <1>0, <2>1, <2>2, <2>3, <2>4, SilentStep
<1> QED  BY <1>1, <1>2 DEF GameConnects

LEMMA GameStopsStep ==
  ASSUME Base, NEW g \in Games, GameStops(g)
  PROVE  Base' /\ (Stages => Stages')
<1>1. game \in [Games -> GW!GameSessions]
  BY GatewayTypes
<1>2. game' \in [Games -> GW!GameSessions]
  BY <1>1 DEF GameStops, GW!CloseGame, GW!GameSessions
<1> QED  BY <1>2, IdleStep DEF GameStops, GW!CloseGame, netVars

LEMMA GameGoneStep ==
  ASSUME Base, NEW g \in Games, GameGone(g)
  PROVE  Base' /\ (Stages => Stages')
<1>0. UNCHANGED <<vars, peer, down>> /\ Uplink(up) /\ GW!GameClosed(g)
  BY DEF GameGone
<1>1. game' \in [Games -> GW!GameSessions]
  <2>1. game' = [game EXCEPT ![g] = GW!NoGame]
    BY <1>0 DEF GW!GameClosed
  <2> QED  BY <2>1, GatewayTypes DEF GW!NoGame, GW!GameSessions
<1>2. PICK a \in Slots \cup {Null} : a = game[g].auth
  BY GatewayTypes
<1>3. CASE a = Null
  <2>1. out' = [slot |-> Null, packets |-> << >>] /\ UNCHANGED as
    BY <1>0, <1>2, <1>3 DEF GW!GameClosed
  <2>2. UNCHANGED up
    BY <1>0, <2>1 DEF Uplink
  <2> QED  BY <1>0, <1>1, <2>1, <2>2, IdleStep
<1>4. CASE a # Null
  <2>1. PICK r \in {GW!disconnect(as[a]), GW!forceClose(as[a])} : GW!Apply(a, r)
    BY <1>0, <1>2, <1>4 DEF GW!GameClosed
  <2>2. a \in Slots /\ Sound(as[a])
    BY <1>4, GatewayTypes
  <2>3. /\ Sound(r.session) /\ r.packets \in Seq(UpPackets)
        /\ Steady(as[a], r.session, r.packets)
    BY <2>2, LeftSession
  <2> QED  BY <1>0, <1>1, <2>1, <2>2, <2>3, WritingStep
<1> QED  BY <1>3, <1>4

\* A packet of the game server is passed on.
LEMMA PassedOnStep ==
  ASSUME Base, NEW a \in Slots, NEW kind \in {"CLIENT_LOGIN", "KICK_FAILED"}, NEW name \in Names,
         GW!Apply(a, GW!sendPacket(as[a], GW!Packet(kind, name))), Uplink(up),
         UNCHANGED <<vars, game, peer, down>>
  PROVE  Base' /\ (Stages => Stages')
<1> DEFINE p == GW!Packet(kind, name)
<1>1. p \in UpPackets /\ p.kind # "LOGOUT"
  BY UpPacketTypes
<1>2. Sound(as[a]) /\ game' \in [Games -> GW!GameSessions]
  BY GatewayTypes
<1> HIDE DEF p
<1>3. PICK r : r = GW!sendPacket(as[a], p)
  OBVIOUS
<1>4. /\ Sound(r.session) /\ r.packets \in Seq(UpPackets)
      /\ Steady(as[a], r.session, r.packets)
  BY <1>1, <1>2, <1>3, SentPacket
<1>5. GW!Apply(a, r)
  BY <1>3 DEF p
<1> QED  BY <1>2, <1>4, <1>5, WritingStep

LEMMA PlayerArrivesStep ==
  ASSUME Base, NEW g \in Games, NEW name \in Names, PlayerArrives(g, name)
  PROVE  Base' /\ (Stages => Stages')
<1>0. /\ UNCHANGED <<vars, game, peer, down>> /\ Uplink(up)
      /\ GW!onClientLogin(g, name)
  BY DEF PlayerArrives, GW!onClientLogin
<1>1. PICK a \in Slots : a = game[g].auth
  <2>1. game[g].auth \in Slots \cup {Null}
    BY GatewayTypes
  <2> QED  BY <1>0, <2>1 DEF GW!onClientLogin
<1>2. CASE GW!Apply(a, GW!sendPacket(as[a], GW!Packet("CLIENT_LOGIN", name)))
  BY <1>0, <1>2, PassedOnStep
<1>3. CASE GW!Become(a, as[a])
  <2>1. as' = [as EXCEPT ![a] = as[a]] /\ out' = [slot |-> a, packets |-> << >>]
    BY <1>3, Applied
  <2>2. UNCHANGED <<as, up>>
    BY <1>0, <2>1 DEF Uplink, Base, GatewayInv
  <2> QED  BY <1>0, <2>2, GatewayTypes, IdleStep
<1> QED  BY <1>0, <1>1, <1>2, <1>3 DEF GW!onClientLogin

LEMMA PlayerLeavesStep ==
  ASSUME Base, NEW g \in Games, NEW name \in Names, PlayerLeaves(g, name)
  PROVE  Base' /\ (Stages => Stages')
<1>0. UNCHANGED <<vars, peer, down>>
  BY DEF PlayerLeaves
<1>1. CASE game[g].auth = Null
  <2>1. UNCHANGED <<as, game, up>>
    BY <1>1 DEF PlayerLeaves, gwVars
  <2> QED  BY <1>0, <2>1, GatewayTypes, IdleStep
<1>2. CASE game[g].auth # Null
  <2>1. PICK a \in Slots : a = game[g].auth
    BY <1>2, GatewayTypes
  <2>2. Sound(as[a]) /\ as[a].list \in Seq(Accounts) /\ Len(as[a].list) <= MaxList
    BY GatewayTypes DEF GatewaySessions, Good
  <2> DEFINE list == GW!Without(as[a].list, name)
             s == [as[a] EXCEPT !.list = list]
             p == GW!Packet("CLIENT_LOGOUT", name)
             r == IF s.stream = "connected" /\ s.sync THEN GW!SentToNetwork(s, <<p>>)
                  ELSE [session |-> s, packets |-> << >>]
  <2>3. GW!Apply(a, r) /\ UNCHANGED game /\ Uplink(up)
    BY <1>2, <2>1 DEF PlayerLeaves, GW!onClientLogout
  <2>4. list \in Seq(Accounts) /\ Len(list) <= MaxList
    <3>1. list \in Seq(Accounts) /\ Len(list) <= Len(as[a].list)
      BY <2>2, WithoutAccount
    <3> HIDE DEF list
    <3>2. PICK m \in Nat, n \in Nat : m = Len(list) /\ n = Len(as[a].list)
      BY <2>2, <3>1, LenProperties
    <3>3. m <= n /\ n <= MaxList
      BY <2>2, <3>1, <3>2
    <3>4. m <= MaxList
      BY <3>3, FlagsAssumption
    <3> QED  BY <3>1, <3>2, <3>4
  <2> HIDE DEF list
  <2>5. /\ Sound(s) /\ s.game = as[a].game /\ s.stream = as[a].stream
        /\ s.sync = as[a].sync /\ s.pendingLogin = as[a].pendingLogin
    BY <2>2, <2>4, ListedSession
  <2> HIDE DEF s
  <2>6. <<p>> \in Seq(UpPackets) /\ ~HasLogout(<<p>>)
    <3>1. p \in UpPackets /\ p.kind # "LOGOUT"
      BY UpPacketTypes
    <3> HIDE DEF p
    <3> QED  BY <3>1, OneElement
  <2>7. /\ r.session = s
        /\ r.packets = IF s.stream = "connected" /\ s.sync THEN <<p>> ELSE << >>
    <3> HIDE DEF p
    <3> QED  BY <2>5, <2>6, SentPackets
  <2> HIDE DEF r, p
  <2>8. r.packets \in Seq(UpPackets) /\ Steady(as[a], r.session, r.packets)
    BY <2>5, <2>6, <2>7, NoPackets DEF Steady, Attached
  <2> QED  BY <1>0, <2>3, <2>5, <2>7, <2>8, GatewayTypes, WritingStep
<1> QED  BY <1>1, <1>2

LEMMA KickAnsweredStep ==
  ASSUME Base, NEW g \in Games, NEW name \in Names, KickAnswered(g, name)
  PROVE  Base' /\ (Stages => Stages')
<1>0. UNCHANGED <<vars, peer, down>>
  BY DEF KickAnswered
<1>1. CASE UNCHANGED <<gwVars, up>>
  BY <1>0, <1>1, GatewayTypes, IdleStep DEF gwVars
<1>2. CASE GW!ForwardToAuth(g, "KICK_FAILED", name) /\ Uplink(up)
  <2>1. game[g].auth \in Slots \cup {Null}
    BY GatewayTypes
  <2>2. PICK a \in Slots : a = game[g].auth
    BY <1>2, <2>1 DEF GW!ForwardToAuth
  <2>3. /\ GW!Apply(a, GW!sendPacket(as[a], GW!Packet("KICK_FAILED", name)))
        /\ UNCHANGED game
    BY <1>2, <2>2 DEF GW!ForwardToAuth
  <2> QED  BY <1>0, <1>2, <2>3, PassedOnStep
<1> QED  BY <1>1, <1>2 DEF KickAnswered

-----------------------------------------------------------------------------
(* Packets of the auth server, and a new connection                         *)

\* The login is accepted: the account list goes out.
LEMMA AcceptedStep ==
  ASSUME Base, NEW a \in Slots, as[a].pendingLogin, as[a].game # Null,
         NEW r, Sound(r.session), r.packets \in Seq(UpPackets),
         r.session.game = as[a].game, Attached(r.session),
         r.session.stream = as[a].stream,
         r.session.sync, ~r.session.pendingLogin, ~HasLogout(r.packets),
         as[a].stream = "connected" /\ MaxList <= MaxCount => HasList(r.packets),
         GW!Apply(a, r), Uplink(up), UNCHANGED <<vars, peer, game>>,
         down' \in [Sessions -> Seq(DownPackets)],
         \A s \in Sessions : s # peer[a] => down'[s] = down[s],
         peer[a] # Null => down[peer[a]] # << >> /\ Head(down[peer[a]]).kind = "LOGIN_RESULT_OK"
  PROVE  Base' /\ (MaxList <= MaxCount /\ Stages => Stages')
<1>1. PICK t : t = r.session
  OBVIOUS
<1>2. PICK ps \in Seq(UpPackets) : ps = r.packets
  OBVIOUS
<1>3. as' = [as EXCEPT ![a] = t] /\ out' = [slot |-> a, packets |-> ps]
  <2>1. as' = [as EXCEPT ![a] = r.session] /\ out' = [slot |-> a, packets |-> r.packets]
    BY Applied
  <2> QED  BY <1>1, <1>2, <2>1
<1>4. up' = IF ps = << >> \/ peer[a] = Null THEN up ELSE [up EXCEPT ![peer[a]] = @ \o ps]
  BY <1>3, Uplinked
<1>5. /\ Base'
      /\ as'[a] = t
      /\ peer[a] # Null =>
           /\ peer[a] \in Sessions
           /\ up[peer[a]] \in Seq(UpPackets)
           /\ up'[peer[a]] = IF ps = << >> THEN up[peer[a]] ELSE up[peer[a]] \o ps
      /\ Stages => \A b \in Slots : b # a /\ Working(b)' => StageOf(b)'
  BY <1>1, <1>3, <1>4, GatewayTypes, MovedStep
<1>6. UNCHANGED <<gs, servers, peer>>
  BY DEF vars
<1>7. ASSUME MaxList <= MaxCount, Stages, Working(a)' PROVE StageOf(a)'
  <2>1. PICK s : s = peer[a] /\ s = peer'[a]
    BY <1>6
  <2>2. Working(a)
    BY <1>1, <1>5, <1>6, <1>7 DEF Working
  <2>3. Stage(as[a], a, up[s], down[s], gs[s].gameData, servers[IdxOf[as[a].game]].ready)
    BY <1>7, <2>1, <2>2 DEF Stages, StageOf
  <2>4. down[s] # << >> /\ Head(down[s]).kind = "LOGIN_RESULT_OK"
    BY <2>1, <2>2 DEF Working
  <2>5. up[s] = << >> /\ gs[s].gameData = IdxOf[as[a].game]
    BY <2>3, <2>4 DEF Stage, LoginSent, LoginAnswered, Serving
  <2>6. up'[s] = ps
    BY <1>5, <2>1, <2>2, <2>5, ConcatEmptySeq DEF Working
  <2>7. Serving(t, ps, gs[s].gameData, servers[IdxOf[t.game]].ready)
    BY <1>1, <1>2, <1>7, <2>2, <2>5 DEF Serving, Working
  <2> QED  BY <1>5, <1>6, <2>1, <2>6, <2>7 DEF StageOf, Stage
<1> QED  BY <1>5, <1>7 DEF Stages

LEMMA GatewayReceivesStep ==
  ASSUME Base, NEW a \in Slots, GatewayReceives(a)
  PROVE  Base' /\ (MaxList <= MaxCount /\ Stages => Stages')
<1>1. PICK s \in Sessions : s = peer[a]
  BY DEF GatewayReceives, Base, Ends
<1>2. PICK q \in Seq(DownPackets) : q = down[s] /\ q # << >>
  BY <1>1 DEF GatewayReceives, Base, ChannelTypes
<1>3. PICK p \in DownPackets : p = Head(q)
  BY <1>2, HeadTailProperties
<1>4. /\ down' \in [Sessions -> Seq(DownPackets)]
      /\ \A t \in Sessions : t # peer[a] => down'[t] = down[t]
  <2>1. down' = [down EXCEPT ![s] = Tail(@)]
    BY <1>1 DEF GatewayReceives
  <2>2. Tail(down[s]) \in Seq(DownPackets)
    BY <1>2, HeadTailProperties
  <2> QED  BY <1>1, <2>1, <2>2 DEF Base, ChannelTypes
<1>5. /\ UNCHANGED <<vars, peer>> /\ Uplink(up)
      /\ \/ GatewayHandles(a, p)
         \/ GatewayIgnores(a, p) /\ GW!Become(a, as[a]) /\ UNCHANGED game
  BY <1>1, <1>2, <1>3 DEF GatewayReceives
<1>6. /\ Sound(as[a]) /\ as[a] \in GatewaySessions /\ Good(as[a])
      /\ game \in [Games -> GW!GameSessions]
  BY GatewayTypes
<1>7. Stages /\ Working(a) /\ ~as[a].sync =>
        as[a].pendingLogin /\ p.kind \in {"LOGIN_RESULT_OK", "LOGIN_RESULT_FAILED"}
  BY <1>1, <1>2, <1>3 DEF Stages, StageOf, Stage, LoginSent, LoginAnswered, Serving
<1>8. ASSUME NEW r, Sound(r.session), r.packets \in Seq(UpPackets),
             Steady(as[a], r.session, r.packets), GW!Apply(a, r),
             game' \in [Games -> GW!GameSessions],
             Stages /\ Working(a) /\ r.session.game # Null => as[a].sync
      PROVE  Base' /\ (Stages => Stages')
  <2>1. PICK t : t = r.session
    OBVIOUS
  <2>2. PICK ps \in Seq(UpPackets) : ps = r.packets
    BY <1>8
  <2>3. as' = [as EXCEPT ![a] = t] /\ out' = [slot |-> a, packets |-> ps]
    BY <1>8, <2>1, <2>2, Applied
  <2>4. up' = IF ps = << >> \/ peer[a] = Null THEN up ELSE [up EXCEPT ![peer[a]] = @ \o ps]
    BY <1>5, <2>3, Uplinked
  <2> QED  BY <1>4, <1>5, <1>8, <2>1, <2>2, <2>3, <2>4, SteadyStep
<1>9. ASSUME NEW t, Sound(t), Steady(as[a], t, << >>), GW!Become(a, t), UNCHANGED game,
             Stages /\ Working(a) => as[a].sync
      PROVE  Base' /\ (Stages => Stages')
  <2> DEFINE r == [session |-> t, packets |-> << >>]
  <2>1. r.session = t /\ r.packets = << >> /\ GW!Apply(a, r)
    BY <1>9 DEF GW!Become
  <2> HIDE DEF r
  <2> QED  BY <1>6, <1>8, <1>9, <2>1, NoPackets
<1>10. Steady(as[a], as[a], << >>)
  BY NoPackets DEF Steady
<1>11. CASE GatewayIgnores(a, p) /\ GW!Become(a, as[a]) /\ UNCHANGED game
  <2>1. Stages /\ Working(a) => as[a].sync
    BY <1>7, <1>11 DEF GatewayIgnores, Working
  <2> QED  BY <1>6, <1>9, <1>10, <1>11, <2>1
<1>12. CASE p.kind = "LOGIN_RESULT_OK" /\ GW!onLoginResult(a, TRUE)
  <2> DEFINE u == [as[a] EXCEPT !.pendingLogin = FALSE, !.sentLogin = @ /\ TRUE]
             r == GW!sendAccountList(u)
  <2>1. as[a].pendingLogin /\ GW!Apply(a, r) /\ UNCHANGED game
    BY <1>12 DEF GW!onLoginResult
  <2>2. u \in GatewaySessions
    BY <1>6 DEF GatewaySessions
  <2>3. /\ u.game = as[a].game /\ u.server = as[a].server /\ u.stream = as[a].stream
        /\ u.pending = as[a].pending /\ ~u.pendingLogin /\ u.sync = as[a].sync
        /\ u.list = as[a].list
    BY <1>6 DEF GatewaySessions
  <2> HIDE DEF u
  <2>4. Sound(u) /\ Attached(u)
    BY <1>6, <2>1, <2>2, <2>3 DEF Sound, Good, Attached
  <2>5. /\ Sound(r.session) /\ r.packets \in Seq(UpPackets)
        /\ r.session.game = u.game
        /\ Attached(r.session)
        /\ u.game # Null =>
             /\ r.session.stream = u.stream
             /\ r.session.sync /\ ~r.session.pendingLogin
             /\ ~HasLogout(r.packets)
             /\ u.stream = "connected" /\ MaxList <= MaxCount => HasList(r.packets)
    BY <2>3, <2>4, SentAccountList
  <2> HIDE DEF r
  <2>6. CASE as[a].game = Null
    <3>1. Steady(as[a], r.session, r.packets)
      BY <2>3, <2>5, <2>6 DEF Steady
    <3> QED  BY <1>6, <1>8, <2>1, <2>5, <2>6, <3>1 DEF Working
  <2>7. CASE as[a].game # Null
    <3>1. down[peer[a]] # << >> /\ Head(down[peer[a]]).kind = "LOGIN_RESULT_OK"
      BY <1>1, <1>2, <1>3, <1>12
    <3> QED  BY <1>4, <1>5, <2>1, <2>3, <2>5, <2>7, <3>1, AcceptedStep
  <2> QED  BY <2>6, <2>7
<1>13. CASE p.kind = "LOGIN_RESULT_FAILED" /\ GW!onLoginResult(a, FALSE)
  <2> DEFINE u == [as[a] EXCEPT !.pendingLogin = FALSE, !.sentLogin = @ /\ FALSE]
             r == GW!disconnect(u)
  <2>1. as[a].pendingLogin /\ ~as[a].sync
    BY <1>6, <1>13 DEF GW!onLoginResult, Good
  <2>2. GW!Apply(a, r)
    BY <1>13, <2>1 DEF GW!onLoginResult
  <2>3. game' \in [Games -> GW!GameSessions]
    <3>1. PICK C \in [Games -> BOOLEAN] :
            game' = [h \in Games |-> IF C[h] THEN [game[h] EXCEPT !.auth = Null] ELSE game[h]]
      <4> DEFINE C == [h \in Games |-> h = as[a].game /\ ~(as[a].game # Null /\ as[a].sync)]
      <4>1. C \in [Games -> BOOLEAN]
        OBVIOUS
      <4>2. game' = [h \in Games |-> IF C[h] THEN [game[h] EXCEPT !.auth = Null] ELSE game[h]]
        BY <1>13 DEF GW!onLoginResult
      <4> QED  BY <4>1, <4>2
    <3>2. \A h \in Games : [game[h] EXCEPT !.auth = Null] \in GW!GameSessions
      BY <1>6 DEF GW!GameSessions
    <3> QED  BY <1>6, <3>1, <3>2
  <2>4. u \in GatewaySessions
    BY <1>6 DEF GatewaySessions
  <2>5. /\ u.game = as[a].game /\ u.server = as[a].server /\ u.stream = as[a].stream
        /\ u.pending = as[a].pending /\ ~u.pendingLogin /\ u.sync = as[a].sync
        /\ u.list = as[a].list
    BY <1>6 DEF GatewaySessions
  <2> HIDE DEF u
  <2>6. Sound(u)
    BY <1>6, <2>1, <2>4, <2>5 DEF Sound, Good, Attached
  <2>7. /\ Sound(r.session) /\ r.packets \in Seq(UpPackets)
        /\ r.session.game = Null
        /\ Steady(u, r.session, r.packets)
    BY <2>6, LeftSession
  <2> HIDE DEF r
  <2>8. Steady(as[a], r.session, r.packets)
    BY <2>5, <2>7 DEF Steady, Attached
  <2> QED  BY <1>8, <2>2, <2>3, <2>7, <2>8
<1>14. CASE p.kind = "LOGIN_OK" /\ GW!onClientLoginResult(a, p.about, TRUE)
  <2> DEFINE list == Append(as[a].list, p.about)
             t == [as[a] EXCEPT !.list = list]
  <2>1. GW!Become(a, t) /\ UNCHANGED game /\ Len(as[a].list) < MaxList
    BY <1>14 DEF GW!onClientLoginResult
  <2>2. p.about \in Accounts
    BY <1>14 DEF DownPackets, Packets
  <2>3. list \in Seq(Accounts) /\ Len(list) <= MaxList
    <3>1. as[a].list \in Seq(Accounts)
      BY <1>6 DEF GatewaySessions
    <3>2. PICK n \in Nat : n = Len(as[a].list)
      BY <3>1, LenProperties
    <3>3. list \in Seq(Accounts) /\ Len(list) = n + 1
      BY <2>2, <3>1, <3>2, AppendProperties
    <3>4. n < MaxList /\ MaxList \in Nat
      BY <2>1, <3>2, FlagsAssumption
    <3> HIDE DEF list
    <3>5. Len(list) <= MaxList
      BY <3>3, <3>4
    <3> QED  BY <3>3, <3>5
  <2> HIDE DEF list
  <2>4. /\ Sound(t) /\ t.game = as[a].game
        /\ t.stream = as[a].stream /\ t.sync = as[a].sync /\ t.pendingLogin = as[a].pendingLogin
    BY <1>6, <2>3, ListedSession
  <2> HIDE DEF t
  <2>5. Steady(as[a], t, << >>)
    BY <2>4, NoPackets DEF Steady, Attached
  <2>6. Stages /\ Working(a) => as[a].sync
    BY <1>7, <1>14
  <2> QED  BY <1>9, <2>1, <2>4, <2>5, <2>6
<1>15. CASE \/ p.kind = "LOGIN_DENIED" /\ GW!onClientLoginResult(a, p.about, FALSE)
            \/ p.kind = "KICK" /\ GW!ForwardToGame(a, p.about[1])
  <2>1. GW!Become(a, as[a]) /\ UNCHANGED game
    BY <1>15 DEF GW!onClientLoginResult, GW!ForwardToGame
  <2>2. Stages /\ Working(a) => as[a].sync
    BY <1>7, <1>15
  <2> QED  BY <1>6, <1>9, <1>10, <2>1, <2>2
<1> QED  BY <1>5, <1>11, <1>12, <1>13, <1>14, <1>15 DEF GatewayHandles

-----------------------------------------------------------------------------
(* The auth server's side of the connections                                *)

\* What a handler sends is finite, and a client that is let in is known.
Deliverable ==
  /\ sent' \subseteq Messages
  /\ IsFiniteSet(sent')
  /\ \A m \in sent' : m.account \in Names /\ (m.kind = "LOGIN_OK" => byName[m.account] \in Ids)

\* A step leaves what t knows of its game server as it is, unless it closes t,
\* and sends nothing over t before its game server has logged in.
Undisturbed(t) ==
  gs'[t].phase = "connected" =>
    /\ gs'[t] = gs[t]
    /\ gs[t].gameData # Null /\ servers[gs[t].gameData].ready
         => servers'[gs[t].gameData].ready
    /\ gs[t].gameData = Null => \A m \in sent' : m.to # t

Remains(t) == gs[t].phase # "none" => gs'[t].phase # "none"

LEMMA SendFinite ==
  ASSUME NEW s, NEW kind, NEW account
  PROVE  /\ IsFiniteSet(Send(s, kind, account))
         /\ \A m \in Send(s, kind, account) : m.to = s /\ m.kind = kind /\ m.account = account
<1>1. PICK m : m = [to |-> s, kind |-> kind, account |-> account]
  OBVIOUS
<1>2. m.to = s /\ m.kind = kind /\ m.account = account
  BY <1>1
<1>3. Send(s, kind, account) = {m} \/ Send(s, kind, account) = {}
  BY <1>1 DEF Send
<1>4. IsFiniteSet({m}) /\ IsFiniteSet({})
  BY FS_Singleton, FS_EmptySet
<1>5. CASE Send(s, kind, account) = {m}
  BY <1>2, <1>4, <1>5
<1>6. CASE Send(s, kind, account) = {}
  BY <1>4, <1>6
<1> QED  BY <1>3, <1>5, <1>6

\* The accounts of a list that are connected elsewhere are kicked.
Kicked(s, list, S) == UNION {Send(s, "KICK", list[k][1]) : k \in S}

LEMMA KicksFinite ==
  ASSUME NEW all \in Lists, NEW S \in SUBSET DOMAIN all, NEW s
  PROVE  /\ IsFiniteSet(Kicked(s, all, S))
         /\ \A m \in Kicked(s, all, S) : m.to = s /\ m.kind = "KICK" /\ m.account \in Names
<1> DEFINE T == {[to |-> s, kind |-> "KICK", account |-> all[k][1]] : k \in DOMAIN all}
           f == [k \in DOMAIN all |-> [to |-> s, kind |-> "KICK", account |-> all[k][1]]]
           kicked == UNION {Send(s, "KICK", all[k][1]) : k \in S}
<1>1. IsFiniteSet(DOMAIN all)
  <2>1. PICK n \in 0 .. MaxList : all \in [1 .. n -> Accounts]
    BY DEF Lists
  <2>2. DOMAIN all = 1 .. n /\ n \in Int
    BY <2>1
  <2> QED  BY <2>2, FS_Interval
<1>2. f \in Surjection(DOMAIN all, T)
  BY DEF Surjection
<1>3. IsFiniteSet(T)
  <2> HIDE DEF f, T
  <2> QED  BY <1>1, <1>2, FS_Surjection
<1>4. kicked \in SUBSET T
  <2> SUFFICES ASSUME NEW m \in kicked PROVE m \in T
    OBVIOUS
  <2>1. PICK k \in S : m \in Send(s, "KICK", all[k][1])
    OBVIOUS
  <2>2. m = [to |-> s, kind |-> "KICK", account |-> all[k][1]] /\ k \in DOMAIN all
    BY <2>1 DEF Send
  <2> QED  BY <2>2
<1>5. IsFiniteSet(kicked)
  <2> HIDE DEF kicked, T
  <2> QED  BY <1>3, <1>4, FS_Subset
<1>6. \A m \in T : m.to = s /\ m.kind = "KICK" /\ m.account \in Names
  <2>1. \A k \in DOMAIN all : all[k][1] \in Names
    BY DEF Lists, Accounts
  <2> QED  BY <2>1
<1> QED  BY <1>4, <1>5, <1>6 DEF Kicked

LEMMA DestroyKeepsReady ==
  ASSUME TypeOK, NEW S, removeClients(S)
  PROVE  \A g \in Idx : servers'[g].ready = servers[g].ready
BY DEF TypeOK, removeClients, GameDatas

\* A step of the session s.
LEMMA GameServerEffects ==
  ASSUME AuthInv, NEW s \in Sessions, GameServerNext(s)
  PROVE  /\ Deliverable
         /\ \A t \in Sessions : t # s => Undisturbed(t) /\ Remains(t)
<1>0. /\ TypeOK /\ SessionLink
      /\ gs \in [Sessions -> GameServerSessions]
      /\ servers \in [Idx -> GameDatas]
      /\ \A t \in Sessions : gs[t].gameData \in Idx \cup {Null}
      /\ Null \notin Sessions /\ Null \notin Idx
  BY KeysAssumption DEF AuthInv, TypeOK, GameServerSessions
<1>1. sent' \subseteq Messages
  BY TypeGameServerStep DEF AuthInv, TypeOK
<1>2. ASSUME sent' = {} PROVE Deliverable /\ \A m \in sent' : m.to = s
  BY <1>1, <1>2, FS_EmptySet DEF Deliverable
<1>3. ASSUME \A m \in sent' : m.to = s,
             \A t \in Sessions : t # s => gs'[t] = gs[t],
             \A x \in Idx : servers[x].session # s => (servers[x].ready => servers'[x].ready)
      PROVE  \A t \in Sessions : t # s => Undisturbed(t) /\ Remains(t)
  <2> SUFFICES ASSUME NEW t \in Sessions, t # s PROVE Undisturbed(t) /\ Remains(t)
    OBVIOUS
  <2>1. gs[t].gameData # Null => servers[gs[t].gameData].session = t
    BY <1>0 DEF SessionLink
  <2> QED  BY <1>0, <1>3, <2>1 DEF Undisturbed, Remains
<1>4. CASE AcceptGameServer(s) \/ GameConnectionLost(s)
  <2>1. /\ sent' = {} /\ UNCHANGED servers
        /\ \A t \in Sessions : t # s => gs'[t] = gs[t]
    BY <1>0, <1>4 DEF AcceptGameServer, GameConnectionLost
  <2> QED  BY <1>2, <1>3, <2>1
<1>5. CASE GameSessionClosed(s)
  <2>1. /\ sent' = {}
        /\ \A t \in Sessions : t # s => gs'[t] = gs[t]
    BY <1>0, <1>5 DEF GameSessionClosed
  <2>2. \A x \in Idx : servers[x].session # s => servers'[x].ready = servers[x].ready
    BY <1>0, <1>5 DEF GameSessionClosed, removeGameData, GameDatas
  <2> QED  BY <1>2, <1>3, <2>1, <2>2
<1>6. ASSUME NEW kind \in LoginKinds, NEW g \in Idx, NEW info \in Infos, NEW guid \in Guids,
             onServerLogin(s, kind, g, info, guid)
      PROVE  /\ Deliverable
             /\ \A t \in Sessions : t # s => Undisturbed(t) /\ Remains(t)
  <2>1. sent' = {}
    BY <1>6 DEF onServerLogin
  <2>2. CASE servers' = servers /\ \A t \in Sessions : t # s => gs'[t] = gs[t]
    BY <1>2, <1>3, <2>1, <2>2
  <2>3. CASE /\ g \notin Registered
             /\ \A x \in Idx : x # g => servers'[x] = servers[x]
             /\ \A t \in Sessions : t # s => gs'[t] = gs[t]
    <3> SUFFICES ASSUME NEW t \in Sessions, t # s PROVE Undisturbed(t) /\ Remains(t)
      BY <1>2, <2>1
    <3>1. gs[t].gameData # g
      BY <1>0, <2>3 DEF SessionLink
    <3> QED  BY <1>0, <2>1, <2>3, <3>1 DEF Undisturbed, Remains
  <2>4. CASE /\ g \in Registered
             /\ \A x \in Idx : x # g => servers'[x] = servers[x]
             /\ gs' = [t \in Sessions |->
                  CASE t = s -> [gs[s] EXCEPT !.auto = kind # "LOGIN", !.gameData = g]
                    [] t # s /\ t = servers[g].session -> Closed([gs[t] EXCEPT !.gameData = Null])
                    [] OTHER -> gs[t]]
    <3> SUFFICES ASSUME NEW t \in Sessions, t # s PROVE Undisturbed(t) /\ Remains(t)
      BY <1>2, <2>1
    <3>1. CASE t = servers[g].session
      <4>1. gs'[t] = Closed([gs[t] EXCEPT !.gameData = Null])
        BY <2>4, <3>1
      <4>2. gs'[t].phase = IF gs[t].phase = "connected" THEN "closing" ELSE gs[t].phase
        BY <1>0, <4>1 DEF Closed, GameServerSessions
      <4> QED  BY <4>2 DEF Undisturbed, Remains
    <3>2. CASE t # servers[g].session
      <4>1. gs'[t] = gs[t] /\ gs[t].gameData # g
        BY <1>0, <2>4, <3>2 DEF SessionLink
      <4> QED  BY <1>0, <2>1, <2>4, <4>1 DEF Undisturbed, Remains
    <3> QED  BY <3>1, <3>2
  <2> QED  BY <1>0, <1>6, <2>2, <2>3, <2>4 DEF onServerLogin
<1>7. ASSUME NEW chunk \in Lists, NEW final \in BOOLEAN, onAccountList(s, chunk, final)
      PROVE  /\ Deliverable
             /\ \A t \in Sessions : t # s => Undisturbed(t) /\ Remains(t)
  <2> DEFINE all == gs[s].list \o chunk
             g == gs[s].gameData
  <2>1. all \in Lists /\ g \in Idx
    BY <1>0, <1>7, AccountListType
  <2>2. \A t \in Sessions : t # s => gs'[t] = gs[t]
    BY <1>0, <1>7 DEF onAccountList
  <2>3. CASE ~final /\ sent' = {} /\ UNCHANGED servers
    BY <1>2, <1>3, <2>2, <2>3
  <2>4. CASE final /\ \E added \in SUBSET DOMAIN all : SyncAccounts(s, g, all, added)
    <3>1. PICK added \in SUBSET DOMAIN all : SyncAccounts(s, g, all, added)
      BY <2>4
    <3>2. PICK S \in SUBSET DOMAIN all : S = DOMAIN all \ added
      OBVIOUS
    <3>3. sent' = UNION {Send(s, "KICK", all[k][1]) : k \in S}
      BY <3>1, <3>2 DEF SyncAccounts
    <3>4. IsFiniteSet(sent') /\ \A m \in sent' : m.to = s /\ m.kind = "KICK" /\ m.account \in Names
      <4>1. PICK list \in Lists : list = all
        BY <2>1
      <4> HIDE DEF all
      <4>2. sent' = Kicked(s, list, S) /\ S \in SUBSET DOMAIN list
        BY <3>2, <3>3, <4>1 DEF Kicked
      <4>3. /\ IsFiniteSet(Kicked(s, list, S))
            /\ \A m \in Kicked(s, list, S) : m.to = s /\ m.kind = "KICK" /\ m.account \in Names
        BY <4>2, KicksFinite
      <4> QED  BY <4>2, <4>3
    <3> HIDE DEF all, g
    <3>5. Deliverable
      BY <1>1, <3>4 DEF Deliverable
    <3>6. \A x \in Idx : servers[x].ready => servers'[x].ready
      <4>1. PICK n : servers' = [servers EXCEPT ![g] = [@ EXCEPT !.ready = TRUE, !.playerCount = n]]
        BY <3>1 DEF SyncAccounts
      <4> QED  BY <1>0, <2>1, <4>1 DEF GameDatas
    <3> QED  BY <1>3, <2>2, <3>4, <3>5, <3>6
  <2> QED  BY <1>7, <2>3, <2>4 DEF onAccountList
<1>8. CASE onServerLogout(s)
  <2>1. /\ sent' = {} /\ gs[s].gameData # Null
        /\ servers' = [servers EXCEPT ![gs[s].gameData] = NoServer]
        /\ \A t \in Sessions : t # s => gs'[t] = gs[t]
    BY <1>0, <1>8 DEF onServerLogout, removeGameData
  <2>2. \A x \in Idx : servers[x].session # s => servers'[x] = servers[x]
    BY <1>0, <2>1 DEF SessionLink
  <2> QED  BY <1>2, <1>3, <2>1, <2>2
<1>9. ASSUME NEW name \in Names, NEW otp \in Otps, onClientLogin(s, name, otp)
      PROVE  /\ Deliverable
             /\ \A t \in Sessions : t # s => Undisturbed(t) /\ Remains(t)
  <2>1. /\ UNCHANGED gs
        /\ \A x \in Idx : servers'[x].ready = servers[x].ready
    BY <1>0, <1>9 DEF onClientLogin, GameDatas
  <2>2. CASE MayEnter(s, name, otp) /\ sent' = Send(s, "LOGIN_OK", name)
    <3>1. IsFiniteSet(sent') /\ \A m \in sent' : m.to = s /\ m.account = name
      BY <2>2, SendFinite
    <3>2. byName[name] \in Ids
      BY <1>0, <2>2 DEF MayEnter, TypeOK
    <3>3. Deliverable
      BY <1>1, <3>1, <3>2 DEF Deliverable
    <3> QED  BY <1>3, <2>1, <3>1, <3>3
  <2>3. CASE sent' = Send(s, "LOGIN_DENIED", name)
    <3>1. IsFiniteSet(sent') /\ \A m \in sent' : m.to = s /\ m.kind = "LOGIN_DENIED" /\ m.account = name
      BY <2>3, SendFinite
    <3>2. Deliverable
      BY <1>1, <3>1 DEF Deliverable
    <3> QED  BY <1>3, <2>1, <3>1, <3>2
  <2> QED  BY <1>9, <2>2, <2>3 DEF onClientLogin
<1>10. ASSUME NEW name \in Names, ClientReported(s, name)
       PROVE  /\ Deliverable
              /\ \A t \in Sessions : t # s => Undisturbed(t) /\ Remains(t)
  <2>1. /\ UNCHANGED gs /\ sent' = {}
        /\ \A x \in Idx : servers'[x].ready = servers[x].ready
    BY <1>0, <1>10, DestroyKeepsReady DEF ClientReported
  <2> QED  BY <1>2, <1>3, <2>1
<1> QED  BY <1>4, <1>5, <1>6, <1>7, <1>8, <1>9, <1>10
         DEF GameServerNext, onClientLogout, onClientKickFailed

\* A step of a client.
LEMMA ClientEffects ==
  ASSUME AuthInv, NEW c \in Clients, ClientNext(c)
  PROVE  /\ Deliverable
         /\ \A t \in Sessions : Undisturbed(t) /\ Remains(t)
<1>0. /\ TypeOK /\ SessionLink
      /\ \A t \in Sessions : gs[t].gameData \in Idx \cup {Null}
      /\ Null \notin Sessions /\ Null \notin Idx
  BY KeysAssumption DEF AuthInv, TypeOK, GameServerSessions
<1>1. sent' \subseteq Messages
  BY TypeClientStep DEF AuthInv, TypeOK
<1>2. UNCHANGED gs
  BY DEF ClientNext, AcceptClient, ClientConnectionLost, ClientSessionClosed,
         onAccount, clientAuthResult, AuthRefused, AuthAccepted, AuthDuplicate,
         onServerList, onSelectServer, AbortClient
<1>3. ASSUME \A x \in Idx : servers[x].ready => servers'[x].ready,
             sent' = {} \/ \E t \in Sessions, n \in Names : sent' = Send(t, "KICK", n) /\ gs[t].gameData # Null
      PROVE  Deliverable /\ \A t \in Sessions : Undisturbed(t) /\ Remains(t)
  <2>1. CASE sent' = {}
    BY <1>0, <1>2, <1>3, <2>1, FS_EmptySet DEF Deliverable, Undisturbed, Remains
  <2>2. CASE \E t \in Sessions, n \in Names : sent' = Send(t, "KICK", n) /\ gs[t].gameData # Null
    <3>1. PICK t \in Sessions, n \in Names : sent' = Send(t, "KICK", n) /\ gs[t].gameData # Null
      BY <2>2
    <3>2. IsFiniteSet(sent') /\ \A m \in sent' : m.to = t /\ m.kind = "KICK" /\ m.account = n
      BY <3>1, SendFinite
    <3> QED  BY <1>0, <1>1, <1>2, <1>3, <3>1, <3>2 DEF Deliverable, Undisturbed, Remains
  <2> QED  BY <1>3, <2>1, <2>2
<1>4. ASSUME NEW S, removeClients(S), sent' = {}
      PROVE  Deliverable /\ \A t \in Sessions : Undisturbed(t) /\ Remains(t)
  BY <1>0, <1>3, <1>4, DestroyKeepsReady
<1>5. ASSUME UNCHANGED servers, sent' = {}
      PROVE  Deliverable /\ \A t \in Sessions : Undisturbed(t) /\ Remains(t)
  BY <1>3, <1>5
<1>6. CASE \/ AcceptClient(c) \/ ClientConnectionLost(c) \/ onServerList(c)
           \/ \E name \in Names : onAccount(c, name)
           \/ \E g \in Idx, otp \in Otps : onSelectServer(c, g, otp)
           \/ AuthRefused(c) \/ \E id \in Ids : AuthAccepted(c, id)
  <2>1. UNCHANGED servers /\ sent' = {}
    BY <1>6 DEF AcceptClient, ClientConnectionLost, onServerList, AbortClient, onAccount,
       onSelectServer, AuthRefused, AuthAccepted
  <2> QED  BY <1>5, <2>1
<1>7. CASE ClientSessionClosed(c)
  <2>1. sent' = {} /\ (UNCHANGED servers \/ \E S : removeClients(S))
    BY <1>7 DEF ClientSessionClosed
  <2> QED  BY <1>4, <1>5, <2>1
<1>8. ASSUME NEW id \in Ids, ~CanAdd(cs[c].query, id), cs[c].query # Null,
             AuthDuplicate(c, OldClient(cs[c].query, id))
      PROVE  Deliverable /\ \A t \in Sessions : Undisturbed(t) /\ Remains(t)
  <2>1. cs[c].query \in Names
    BY <1>0, <1>8 DEF TypeOK, ClientSessions
  <2>2. PICK old \in Ids : old = OldClient(cs[c].query, id)
    BY <1>0, <1>8, <2>1, OldClientType
  <2>3. cd[old].server \in Idx \cup {Null} /\ cd[old].account \in Names
    <3>1. /\ cd[old].server \in Idx \cup {Null} /\ cd[old].account \in Names \cup {Null}
          /\ \A n \in Names : byName[n] # Null => cd[byName[n]].account = n
      BY <1>0 DEF AuthInv, TypeOK, ClientDatas, MapsAgree
    <3>2. cd[old].account # Null \/ (old = byName[cs[c].query] /\ byName[cs[c].query] # Null)
      BY <1>8, <2>2 DEF OldClient, CanAdd
    <3> QED  BY <2>1, <3>1, <3>2
  <2>4. AuthDuplicate(c, old)
    BY <1>8, <2>2
  <2>5. CASE UNCHANGED servers /\ sent' = {}
    BY <1>5, <2>5
  <2>6. CASE removeClients({old}) /\ sent' = {}
    BY <1>4, <2>6
  <2>7. CASE cd[old].server # Null /\ kickClient(cd[old].server, old)
    <3>1. PICK g \in Idx : g = cd[old].server
      BY <2>3, <2>7
    <3>2. CASE servers[g].session = Null
      BY <1>5, <2>7, <3>1, <3>2 DEF kickClient
    <3>3. CASE servers[g].session # Null
      <4>1. PICK t \in Sessions : t = servers[g].session
        BY <1>0, <3>3 DEF TypeOK, GameDatas
      <4>2. gs[t].gameData = g
        BY <3>3, <4>1 DEF AuthInv, SessionLink
      <4>3. sent' = Send(t, "KICK", cd[old].account)
        BY <2>7, <3>1, <3>3, <4>1 DEF kickClient
      <4>4. UNCHANGED servers \/ removeClients({old})
        BY <2>7, <3>1, <3>3 DEF kickClient
      <4>5. \A x \in Idx : servers[x].ready => servers'[x].ready
        BY <1>0, <4>4, DestroyKeepsReady
      <4>6. gs[t].gameData # Null /\ cd[old].account \in Names
        BY <1>0, <2>3, <4>2
      <4> QED  BY <1>3, <4>3, <4>5, <4>6
    <3> QED  BY <3>2, <3>3
  <2> QED  BY <2>4, <2>5, <2>6, <2>7 DEF AuthDuplicate
<1> QED  BY <1>6, <1>7, <1>8 DEF ClientNext, clientAuthResult

\* What is sent reaches the end of the queues, and only the ones it is sent to.
LEMMA Downlinked ==
  ASSUME Deliverable, down \in [Sessions -> Seq(DownPackets)], Downlink(down)
  PROVE  /\ down' \in [Sessions -> Seq(DownPackets)]
         /\ \A t \in Sessions :
              /\ (\A m \in sent' : m.to # t) => down'[t] = down[t]
              /\ down[t] # << >> => down'[t] # << >> /\ Head(down'[t]) = Head(down[t])
<1> DEFINE To(t) == {n \in sent' : n.to = t}
           Added(t) == {AuthPacket(m) : m \in To(t)}
<1>1. ASSUME NEW m \in sent' PROVE AuthPacket(m) \in DownPackets
  <2>1. m \in Messages /\ m.account \in Names /\ (m.kind = "LOGIN_OK" => byName[m.account] \in Ids)
    BY DEF Deliverable
  <2>2. m.kind \in {"KICK", "LOGIN_OK", "LOGIN_DENIED"}
    BY <2>1 DEF Messages
  <2>3. CASE m.kind = "LOGIN_OK"
    <3> DEFINE about == <<m.account, byName[m.account]>>
    <3>1. about \in Accounts
      BY <2>1, <2>3 DEF Accounts
    <3>2. AuthPacket(m) = GW!Packet("LOGIN_OK", about)
      BY <2>3 DEF AuthPacket
    <3> HIDE DEF about
    <3>3. AuthPacket(m) \in Packets({"LOGIN_OK"}, {about})
      BY <3>2, PlainPacket
    <3> QED  BY <3>1, <3>3 DEF DownPackets, Packets
  <2>4. CASE m.kind \in {"KICK", "LOGIN_DENIED"}
    <3> DEFINE about == <<m.account, Null>>
    <3>1. about \in Names \X {Null}
      BY <2>1
    <3>2. AuthPacket(m) = GW!Packet(m.kind, about)
      BY <2>4 DEF AuthPacket
    <3> HIDE DEF about
    <3>3. AuthPacket(m) \in Packets({m.kind}, {about})
      BY <3>2, PlainPacket
    <3> QED  BY <2>4, <3>1, <3>3 DEF DownPackets, Packets
  <2> QED  BY <2>2, <2>3, <2>4
<1>2. ASSUME NEW t \in Sessions
      PROVE  /\ SetToSeq(Added(t)) \in Seq(DownPackets)
             /\ (\A m \in sent' : m.to # t) => SetToSeq(Added(t)) = << >>
  <2>1. IsFiniteSet(To(t))
    <3>1. To(t) \in SUBSET sent' /\ IsFiniteSet(sent')
      BY DEF Deliverable
    <3> HIDE DEF To
    <3> QED  BY <3>1, FS_Subset
  <2> DEFINE f == [m \in To(t) |-> AuthPacket(m)]
  <2>2. f \in Surjection(To(t), Added(t))
    BY DEF Surjection
  <2>3. Added(t) \subseteq DownPackets
    BY <1>1
  <2>4. (\A m \in sent' : m.to # t) => Added(t) = {}
    OBVIOUS
  <2> HIDE DEF f, Added, To
  <2>5. IsFiniteSet(Added(t))
    BY <2>1, <2>2, FS_Surjection
  <2>6. PICK S : S = Added(t)
    OBVIOUS
  <2>7. SetToSeq(S) \in Seq(S) /\ (S = {} => SetToSeq(S) = << >>)
    BY <2>5, <2>6, SequenceOfSet
  <2>8. Seq(S) \subseteq Seq(DownPackets)
    BY <2>3, <2>6
  <2> QED  BY <2>4, <2>6, <2>7, <2>8
<1>3. down' = [t \in Sessions |-> down[t] \o SetToSeq(Added(t))]
  BY DEF Downlink
<1> HIDE DEF To, Added
<1>4. ASSUME NEW t \in Sessions
      PROVE  /\ down'[t] \in Seq(DownPackets)
             /\ (\A m \in sent' : m.to # t) => down'[t] = down[t]
             /\ down[t] # << >> => down'[t] # << >> /\ Head(down'[t]) = Head(down[t])
  <2>1. PICK q \in Seq(DownPackets) : q = down[t]
    OBVIOUS
  <2>2. PICK r \in Seq(DownPackets) : r = SetToSeq(Added(t))
    BY <1>2
  <2>3. down'[t] = q \o r
    BY <1>3, <2>1, <2>2
  <2>4. /\ q \o r \in Seq(DownPackets)
        /\ r = << >> => q \o r = q
        /\ q # << >> => q \o r # << >> /\ Head(q \o r) = Head(q)
    BY QueueConcat
  <2> QED  BY <1>2, <2>1, <2>2, <2>3, <2>4
<1>5. down' \in [Sessions -> Seq(DownPackets)]
  <2>1. DOMAIN down' = Sessions /\ down' = [t \in Sessions |-> down'[t]]
    BY <1>3
  <2> QED  BY <1>4, <2>1
<1> QED  BY <1>4, <1>5

\* The connection of a, when a step of the auth server concerns another one.
LEMMA OtherConnection ==
  ASSUME Base, Stages, NEW a \in Slots, UNCHANGED as,
         NEW t \in Sessions, t = peer[a], t = peer'[a], Undisturbed(t), up'[t] = up[t],
         (\A m \in sent' : m.to # t) => down'[t] = down[t],
         down[t] # << >> => down'[t] # << >> /\ Head(down'[t]) = Head(down[t]),
         Working(a)'
  PROVE  StageOf(a)'
<1>1. gs'[t].phase = "connected" /\ as[a].stream = "connected" /\ as[a].game \in Games
  BY DEF Working, Base, GatewayInv, GatewaySessions
<1>2. /\ gs'[t] = gs[t]
      /\ gs[t].gameData # Null /\ servers[gs[t].gameData].ready
           => servers'[gs[t].gameData].ready
      /\ gs[t].gameData = Null => \A m \in sent' : m.to # t
  BY <1>1 DEF Undisturbed
<1>3. Working(a)
  BY <1>1, <1>2 DEF Working
<1>4. IdxOf[as[a].game] # Null
  <2>1. PICK g \in Games : g = as[a].game
    BY <1>1
  <2>2. IdxOf[g] \in Idx /\ Null \notin Idx
    BY ClusterAssumption, KeysAssumption
  <2> QED  BY <2>1, <2>2
<1>5. Stage(as[a], a, up[t], down[t], gs[t].gameData, servers[IdxOf[as[a].game]].ready)
  BY <1>3 DEF Stages, StageOf
<1>6. Stage(as[a], a, up[t], down'[t], gs[t].gameData, servers'[IdxOf[as[a].game]].ready)
  <2>1. CASE LoginSent(as[a], a, up[t], down[t], gs[t].gameData)
    BY <1>2, <2>1 DEF LoginSent, Stage
  <2>2. CASE LoginAnswered(as[a], up[t], down[t], gs[t].gameData)
    BY <2>2 DEF LoginAnswered, Stage
  <2>3. CASE Serving(as[a], up[t], gs[t].gameData, servers[IdxOf[as[a].game]].ready)
    BY <1>2, <1>4, <2>3 DEF Serving, Stage
  <2> QED  BY <1>5, <2>1, <2>2, <2>3 DEF Stage
<1> QED  BY <1>2, <1>6 DEF StageOf

\* The auth server's end of a connection has read the packet p of a session
\* that is logged in: its game server is still the same, and it is shown as
\* ready if it was or if p completes the account list.
Answers(s, p) ==
  gs'[s].phase = "connected" =>
    /\ gs[s].phase = "connected"
    /\ gs[s].gameData # Null /\ p.kind # "LOGOUT" =>
         /\ gs'[s].gameData = gs[s].gameData
         /\ servers[gs[s].gameData].ready \/ Complete(p) => servers'[gs[s].gameData].ready

LEMMA OwnConnection ==
  ASSUME Base, Stages, NEW a \in Slots, UNCHANGED <<as, peer>>,
         NEW s \in Sessions, s = peer[a], NEW q \in Seq(UpPackets), q = up[s], q # << >>,
         up'[s] = Tail(q), Answers(s, Head(q)),
         Head(q).kind = "LOGIN" => gs[s].gameData # Null,
         Working(a)'
  PROVE  StageOf(a)'
<1>1. gs'[s].phase = "connected" /\ as[a].stream = "connected" /\ as[a].game \in Games
  BY DEF Working, Base, GatewayInv, GatewaySessions
<1>2. Working(a)
  BY <1>1 DEF Working, Answers
<1>3. IdxOf[as[a].game] # Null
  <2>1. PICK g \in Games : g = as[a].game
    BY <1>1
  <2>2. IdxOf[g] \in Idx /\ Null \notin Idx
    BY ClusterAssumption, KeysAssumption
  <2> QED  BY <2>1, <2>2
<1>4. Stage(as[a], a, q, down[s], gs[s].gameData, servers[IdxOf[as[a].game]].ready)
  BY <1>2 DEF Stages, StageOf
<1>5. /\ Head(q) = q[1] /\ 1 \in DOMAIN q
      /\ \A i \in DOMAIN q : i # 1 => i - 1 \in DOMAIN Tail(q) /\ Tail(q)[i - 1] = q[i]
      /\ HasLogout(Tail(q)) => HasLogout(q)
  BY QueueTail
<1>6. Serving(as[a], q, gs[s].gameData, servers[IdxOf[as[a].game]].ready)
  <2>1. ~LoginAnswered(as[a], q, down[s], gs[s].gameData)
    BY DEF LoginAnswered
  <2>2. ~LoginSent(as[a], a, q, down[s], gs[s].gameData)
    <3>1. ASSUME LoginSent(as[a], a, q, down[s], gs[s].gameData) PROVE FALSE
      <4>1. q = <<GW!Packet("LOGIN", <<as[a].game, a>>)>> /\ gs[s].gameData = Null
        BY <3>1 DEF LoginSent
      <4>2. PICK p : p = GW!Packet("LOGIN", <<as[a].game, a>>)
        OBVIOUS
      <4>3. p.kind = "LOGIN"
        BY <4>2, PlainPacket
      <4>4. Head(q) = p
        BY <1>5, <4>1, <4>2
      <4> QED  BY <4>1, <4>3, <4>4
    <3> QED  BY <3>1
  <2> QED  BY <1>4, <2>1, <2>2 DEF Stage
<1>7. Head(q).kind # "LOGOUT"
  BY <1>5, <1>6 DEF Serving, HasLogout
<1>8. /\ gs'[s].gameData = gs[s].gameData
      /\ servers[gs[s].gameData].ready \/ Complete(Head(q)) => servers'[gs[s].gameData].ready
  BY <1>1, <1>3, <1>6, <1>7 DEF Serving, Answers
<1>9. HasList(q) => Complete(Head(q)) \/ HasList(Tail(q))
  BY <1>5 DEF HasList
<1>10. Serving(as[a], Tail(q), gs[s].gameData, servers'[IdxOf[as[a].game]].ready)
  BY <1>5, <1>6, <1>8, <1>9 DEF Serving
<1> QED  BY <1>8, <1>10 DEF StageOf, Stage

\* What is left to show of a step in which the auth server and the queues move.
LEMMA AuthServerStep ==
  ASSUME Base, AuthInv', UNCHANGED <<as, game, peer>>,
         up' \in [Sessions -> Seq(UpPackets)], down' \in [Sessions -> Seq(DownPackets)],
         \A t \in Sessions : Remains(t)
  PROVE  /\ Base'
         /\ (Stages => \A a \in Slots : Working(a)' => StageOf(a)') => (Stages => Stages')
<1>1. GatewayInv' /\ ChannelTypes'
  BY DEF Base, GatewayInv, ChannelTypes
<1>2. Ends'
  BY DEF Base, Ends, Remains
<1> QED  BY <1>1, <1>2 DEF Base, Stages

LEMMA ClientsStep ==
  ASSUME Base, NEW c \in Clients, ClientStep(c)
  PROVE  Base' /\ (Stages => Stages')
<1>1. /\ UNCHANGED <<as, game, peer, up>> /\ ClientNext(c) /\ Downlink(down)
  BY DEF ClientStep, gwVars
<1>2. /\ AuthInv /\ up \in [Sessions -> Seq(UpPackets)]
      /\ down \in [Sessions -> Seq(DownPackets)]
  BY DEF Base, ChannelTypes
<1>3. Deliverable /\ \A t \in Sessions : Undisturbed(t) /\ Remains(t)
  BY <1>1, <1>2, ClientEffects
<1>4. AuthInv'
  BY <1>1, <1>2, AuthStep DEF Next
<1>5. /\ down' \in [Sessions -> Seq(DownPackets)]
      /\ \A t \in Sessions :
           /\ (\A m \in sent' : m.to # t) => down'[t] = down[t]
           /\ down[t] # << >> => down'[t] # << >> /\ Head(down'[t]) = Head(down[t])
  BY <1>1, <1>2, <1>3, Downlinked
<1>6. ASSUME Stages, NEW a \in Slots, Working(a)' PROVE StageOf(a)'
  <2>1. PICK t \in Sessions : t = peer[a]
    BY <1>1, <1>6 DEF Working, Base, Ends
  <2> QED  BY <1>1, <1>3, <1>5, <1>6, <2>1, OtherConnection
<1> QED  BY <1>1, <1>2, <1>3, <1>4, <1>5, <1>6, AuthServerStep

\* The contents of a packet the auth server reads.
LEMMA ReadPacket ==
  ASSUME NEW p \in UpPackets
  PROVE  /\ p.kind = "LOGIN" => p.about \in Games \X Slots
         /\ p.kind = "ACCOUNT_LIST" => p.accounts \in Seq(Accounts) /\ p.final \in BOOLEAN
         /\ p.kind \in {"CLIENT_LOGIN", "CLIENT_LOGOUT", "KICK_FAILED"} => p.about \in Names
BY DEF UpPackets, Packets

LEMMA ReadChunk ==
  ASSUME TypeOK, NEW s \in Sessions, NEW chunk \in Seq(Accounts),
         Len(gs[s].list \o chunk) <= MaxList
  PROVE  chunk \in Lists
<1>1. gs[s].list \in Seq(Accounts)
  <2>0. gs[s].list \in Lists
    BY DEF TypeOK, GameServerSessions
  <2>1. PICK n \in 0 .. MaxList : gs[s].list \in [1 .. n -> Accounts]
    BY <2>0 DEF Lists
  <2>2. PICK list : list = gs[s].list
    OBVIOUS
  <2>3. n \in Nat /\ list \in [1 .. n -> Accounts]
    BY <2>1, <2>2, FlagsAssumption
  <2>4. list \in Seq(Accounts)
    BY <2>3, SeqDef
  <2> QED  BY <2>2, <2>4
<1>5. PICK m \in Nat : m = Len(chunk)
  BY LenProperties
<1>6. PICK n \in Nat : n = Len(gs[s].list)
  BY <1>1, LenProperties
<1>2. Len(gs[s].list \o chunk) = n + m
  BY <1>1, <1>5, <1>6, ConcatProperties
<1>3. m \in 0 .. MaxList
  BY <1>2, FlagsAssumption
<1>4. chunk \in [1 .. m -> Accounts]
  BY <1>5, LenProperties
<1> QED  BY <1>3, <1>4 DEF Lists

\* What the handlers make of their own session, when it is logged in.
LEMMA HandledAnswers ==
  ASSUME AuthInv, NEW s \in Sessions, NEW p,
         \/ /\ p.kind = "ACCOUNT_LIST" /\ onAccountList(s, p.accounts, p.final)
            /\ p.accounts \in Lists
         \/ p.kind = "LOGOUT" /\ onServerLogout(s)
         \/ p.kind = "CLIENT_LOGIN" /\ \E otp \in Otps : onClientLogin(s, p.about, otp)
         \/ /\ p.kind \in {"CLIENT_LOGOUT", "KICK_FAILED"}
            /\ onClientLogout(s, p.about) \/ onClientKickFailed(s, p.about)
  PROVE  Answers(s, p) /\ Remains(s)
<1>0. /\ TypeOK
      /\ gs \in [Sessions -> GameServerSessions]
      /\ servers \in [Idx -> GameDatas]
      /\ gs[s].gameData \in Idx \cup {Null}
  BY DEF AuthInv, TypeOK, GameServerSessions
<1>1. CASE p.kind = "ACCOUNT_LIST" /\ onAccountList(s, p.accounts, p.final) /\ p.accounts \in Lists
  <2> DEFINE all == gs[s].list \o p.accounts
             g == gs[s].gameData
  <2>1. g \in Idx
    BY <1>0, <1>1 DEF onAccountList
  <2>2. PICK list : gs' = [gs EXCEPT ![s].list = list]
    BY <1>1 DEF onAccountList
  <2>3. gs'[s].phase = gs[s].phase /\ gs'[s].gameData = g
    BY <1>0, <2>2 DEF GameServerSessions
  <2>4. CASE ~p.final /\ UNCHANGED servers
    BY <2>3, <2>4 DEF Answers, Remains, Complete
  <2>5. CASE \E added \in SUBSET DOMAIN all : SyncAccounts(s, g, all, added)
    <3>1. PICK n : servers' = [servers EXCEPT ![g] = [@ EXCEPT !.ready = TRUE, !.playerCount = n]]
      BY <2>5 DEF SyncAccounts
    <3>2. servers'[g].ready
      BY <1>0, <2>1, <3>1 DEF GameDatas
    <3> QED  BY <2>3, <3>2 DEF Answers, Remains
  <2> QED  BY <1>1, <2>4, <2>5 DEF onAccountList
<1>2. CASE p.kind = "LOGOUT" /\ onServerLogout(s)
  <2>1. gs'[s].phase = gs[s].phase
    BY <1>0, <1>2 DEF onServerLogout, GameServerSessions
  <2> QED  BY <1>2, <2>1 DEF Answers, Remains
<1>3. ASSUME p.kind # "LOGOUT", p.kind # "ACCOUNT_LIST", UNCHANGED gs,
             \A x \in Idx : servers'[x].ready = servers[x].ready
      PROVE  Answers(s, p) /\ Remains(s)
  BY <1>0, <1>3 DEF Answers, Remains, Complete
<1>4. CASE p.kind = "CLIENT_LOGIN" /\ \E otp \in Otps : onClientLogin(s, p.about, otp)
  <2>1. UNCHANGED gs /\ \A x \in Idx : servers'[x].ready = servers[x].ready
    BY <1>0, <1>4 DEF onClientLogin, GameDatas
  <2> QED  BY <1>3, <1>4, <2>1
<1>5. CASE /\ p.kind \in {"CLIENT_LOGOUT", "KICK_FAILED"}
           /\ onClientLogout(s, p.about) \/ onClientKickFailed(s, p.about)
  <2>1. UNCHANGED gs /\ \A x \in Idx : servers'[x].ready = servers[x].ready
    BY <1>0, <1>5, DestroyKeepsReady DEF onClientLogout, onClientKickFailed, ClientReported
  <2> QED  BY <1>3, <1>5, <2>1
<1> QED  BY <1>1, <1>2, <1>4, <1>5

\* The login of the session itself.
LEMMA LoginAnswers ==
  ASSUME AuthInv, NEW s \in Sessions, NEW kind, NEW g \in Idx, NEW info, NEW guid,
         onServerLogin(s, kind, g, info, guid)
  PROVE  /\ gs'[s].phase = gs[s].phase
         /\ gs'[s].gameData # gs[s].gameData => gs'[s].gameData = g
         /\ gs[s].gameData # Null => gs'[s].gameData = gs[s].gameData /\ UNCHANGED servers
<1>1. gs \in [Sessions -> GameServerSessions]
  BY DEF AuthInv, TypeOK
<1>2. CASE gs' = [gs EXCEPT ![s].auto = kind # "LOGIN"] /\ UNCHANGED servers
  BY <1>1, <1>2 DEF GameServerSessions
<1>3. CASE /\ gs[s].gameData = Null
           /\ gs'[s] = [gs[s] EXCEPT !.auto = kind # "LOGIN", !.gameData = g]
  BY <1>1, <1>3 DEF GameServerSessions
<1> QED  BY <1>1, <1>2, <1>3 DEF onServerLogin

\* Handling a packet is a step of the auth server's own specification.
LEMMA HandlerStep ==
  ASSUME TypeOK, NEW s \in Sessions, NEW p \in UpPackets, AuthHandles(s, p)
  PROVE  /\ GameServerNext(s)
         /\ p.kind = "ACCOUNT_LIST" => p.accounts \in Lists
         /\ p.kind = "LOGIN" => /\ IdxOf[p.about[1]] \in Idx
                                /\ InfoOf[p.about[1]] \in Infos /\ p.about[2] \in Guids
<1>1. CASE p.kind = "LOGIN"
  <2>1. IdxOf[p.about[1]] \in Idx /\ InfoOf[p.about[1]] \in Infos /\ p.about[2] \in Guids
    <3>1. PICK g \in Games, a \in Slots : p.about = <<g, a>>
      BY <1>1, ReadPacket
    <3>2. p.about[1] = g /\ p.about[2] = a
      BY <3>1
    <3>3. IdxOf[g] \in Idx /\ InfoOf[g] \in Infos /\ a \in Guids
      BY ClusterAssumption
    <3> QED  BY <3>2, <3>3
  <2>2. onServerLogin(s, "WITH_LOGOUT_EXT", IdxOf[p.about[1]], InfoOf[p.about[1]], p.about[2])
    BY <1>1 DEF AuthHandles
  <2>3. GameServerNext(s)
    BY <2>1, <2>2 DEF GameServerNext, LoginKinds
  <2> QED  BY <1>1, <2>1, <2>3
<1>2. CASE p.kind = "ACCOUNT_LIST"
  <2>1. onAccountList(s, p.accounts, p.final)
    BY <1>2 DEF AuthHandles
  <2>2. p.accounts \in Seq(Accounts) /\ p.final \in BOOLEAN
    BY <1>2, ReadPacket
  <2>3. Len(gs[s].list \o p.accounts) <= MaxList
    BY <2>1 DEF onAccountList
  <2>4. p.accounts \in Lists
    BY <2>2, <2>3, ReadChunk
  <2>5. GameServerNext(s)
    BY <2>1, <2>2, <2>4 DEF GameServerNext
  <2> QED  BY <1>2, <2>4, <2>5
<1>3. CASE p.kind \notin {"LOGIN", "ACCOUNT_LIST"}
  <2>1. GameServerNext(s)
    BY <1>3, ReadPacket DEF AuthHandles, GameServerNext
  <2> QED  BY <1>3, <2>1
<1> QED  BY <1>1, <1>2, <1>3

LEMMA AuthReceivesStep ==
  ASSUME Base, NEW s \in Sessions, AuthReceives(s)
  PROVE  Base' /\ (Stages => Stages')
<1>0. /\ AuthInv
      /\ up \in [Sessions -> Seq(UpPackets)] /\ down \in [Sessions -> Seq(DownPackets)]
      /\ UNCHANGED <<as, game, peer>>
      /\ CanRead(gs[s])
  BY DEF AuthReceives, Base, ChannelTypes, gwVars
<1>1. PICK q \in Seq(UpPackets) : q = up[s] /\ q # << >>
  BY <1>0 DEF AuthReceives
<1>2. PICK p \in UpPackets : p = Head(q)
  BY <1>1, QueueTail
<1>3. /\ up' \in [Sessions -> Seq(UpPackets)]
      /\ up'[s] = Tail(q)
      /\ \A t \in Sessions : t # s => up'[t] = up[t]
  <2>1. up' = [up EXCEPT ![s] = Tail(@)]
    BY DEF AuthReceives
  <2>2. Tail(q) \in Seq(UpPackets)
    BY <1>1, QueueTail
  <2> QED  BY <1>0, <1>1, <2>1, <2>2
<1>4. ASSUME AuthInv', down' \in [Sessions -> Seq(DownPackets)], Remains(s),
             \A t \in Sessions : t # s =>
               /\ Undisturbed(t) /\ Remains(t)
               /\ (\A m \in sent' : m.to # t) => down'[t] = down[t]
               /\ down[t] # << >> => down'[t] # << >> /\ Head(down'[t]) = Head(down[t]),
             ASSUME Stages, NEW a \in Slots, peer[a] = s, Working(a)' PROVE StageOf(a)'
      PROVE  Base' /\ (Stages => Stages')
  <2>1. ASSUME Stages, NEW a \in Slots, Working(a)' PROVE StageOf(a)'
    <3>1. PICK t \in Sessions : t = peer[a]
      BY <1>0, <2>1 DEF Working, Base, Ends
    <3>2. CASE t = s
      BY <1>4, <2>1, <3>1, <3>2
    <3>3. CASE t # s
      BY <1>0, <1>3, <1>4, <2>1, <3>1, <3>3, OtherConnection
    <3> QED  BY <3>2, <3>3
  <2>2. \A t \in Sessions : Remains(t)
    BY <1>4
  <2> QED  BY <1>0, <1>3, <1>4, <2>1, <2>2, AuthServerStep
<1>5. ASSUME GameServerNext(s), Downlink(down), Answers(s, p), p.kind # "LOGIN", Remains(s)
      PROVE  Base' /\ (Stages => Stages')
  <2>1. AuthInv'
    BY <1>0, <1>5, AuthStep DEF Next
  <2>2. Deliverable /\ \A t \in Sessions : t # s => Undisturbed(t) /\ Remains(t)
    BY <1>0, <1>5, GameServerEffects
  <2>3. /\ down' \in [Sessions -> Seq(DownPackets)]
        /\ \A t \in Sessions :
             /\ (\A m \in sent' : m.to # t) => down'[t] = down[t]
             /\ down[t] # << >> => down'[t] # << >> /\ Head(down'[t]) = Head(down[t])
    BY <1>0, <1>5, <2>2, Downlinked
  <2>4. ASSUME Stages, NEW a \in Slots, peer[a] = s, Working(a)' PROVE StageOf(a)'
    BY <1>0, <1>1, <1>2, <1>3, <1>5, <2>4, OwnConnection
  <2> QED  BY <1>4, <1>5, <2>1, <2>2, <2>3, <2>4
<1>6. CASE p.kind = "LOGIN" /\ AuthHandles(s, p)
  <2> DEFINE idx == IdxOf[p.about[1]]
             info == InfoOf[p.about[1]]
             guid == p.about[2]
             result == GW!Packet(IF gs'[s].gameData # gs[s].gameData THEN "LOGIN_RESULT_OK"
                                 ELSE "LOGIN_RESULT_FAILED", Null)
  <2>1. /\ onServerLogin(s, "WITH_LOGOUT_EXT", idx, info, guid)
        /\ down' = [down EXCEPT ![s] = Append(@, result)]
    BY <1>6 DEF AuthHandles
  <2>2. idx \in Idx /\ GameServerNext(s)
    BY <1>0, <1>6, HandlerStep DEF AuthInv
  <2> HIDE DEF idx, info, guid
  <2>3. GameServerNext(s)
    BY <2>2
  <2>4. AuthInv'
    BY <1>0, <2>3, AuthStep DEF Next
  <2>5. /\ \A t \in Sessions : t # s => Undisturbed(t) /\ Remains(t)
        /\ gs'[s].phase = gs[s].phase
        /\ gs'[s].gameData # gs[s].gameData => gs'[s].gameData = idx
        /\ gs[s].gameData # Null => gs'[s].gameData = gs[s].gameData /\ UNCHANGED servers
    BY <1>0, <2>1, <2>2, <2>3, GameServerEffects, LoginAnswers
  <2>6. PICK r \in DownPackets :
          /\ r = result
          /\ r.kind = IF gs'[s].gameData # gs[s].gameData THEN "LOGIN_RESULT_OK"
                      ELSE "LOGIN_RESULT_FAILED"
    <3>1. PICK kind \in {"LOGIN_RESULT_OK", "LOGIN_RESULT_FAILED"} :
            kind = IF gs'[s].gameData # gs[s].gameData THEN "LOGIN_RESULT_OK"
                   ELSE "LOGIN_RESULT_FAILED"
      OBVIOUS
    <3>2. PICK r : r = GW!Packet(kind, Null)
      OBVIOUS
    <3>3. r = result
      BY <3>1, <3>2
    <3>4. r.kind = kind /\ r \in Packets({kind}, {Null})
      BY <3>2, PlainPacket
    <3>5. r \in DownPackets
      BY <3>4 DEF DownPackets, Packets
    <3> QED  BY <3>1, <3>3, <3>4, <3>5
  <2> HIDE DEF result
  <2>7. /\ down' \in [Sessions -> Seq(DownPackets)]
        /\ down'[s] = Append(down[s], r)
        /\ \A t \in Sessions : t # s => down'[t] = down[t]
    <3>1. Append(down[s], r) \in Seq(DownPackets)
      BY <1>0, AppendProperties
    <3> QED  BY <1>0, <2>1, <2>6, <3>1
  <2>8. ASSUME Stages, NEW a \in Slots, peer[a] = s, Working(a)' PROVE StageOf(a)'
    <3>1. CASE gs[s].gameData # Null
      <4>1. Answers(s, p)
        BY <1>6, <2>5, <3>1 DEF Answers, Complete
      <4> QED  BY <1>0, <1>1, <1>2, <1>3, <2>8, <3>1, <4>1, OwnConnection
    <3>2. CASE gs[s].gameData = Null
      <4>1. Working(a)
        BY <1>0, <2>5, <2>8 DEF Working
      <4>2. Stage(as[a], a, q, down[s], gs[s].gameData, servers[IdxOf[as[a].game]].ready)
        BY <1>1, <2>8, <4>1 DEF Stages, StageOf
      <4>3. as[a].game \in Games /\ IdxOf[as[a].game] # Null
        <5>1. PICK g \in Games : g = as[a].game
          BY <4>1 DEF Working, Base, GatewayInv, GatewaySessions
        <5>2. IdxOf[g] \in Idx /\ Null \notin Idx
          BY ClusterAssumption, KeysAssumption
        <5> QED  BY <5>1, <5>2
      <4>4. LoginSent(as[a], a, q, down[s], gs[s].gameData)
        BY <1>1, <3>2, <4>2, <4>3 DEF Stage, LoginAnswered, Serving
      <4>5. PICK sentPacket : sentPacket = GW!Packet("LOGIN", <<as[a].game, a>>)
        OBVIOUS
      <4>6. q = <<sentPacket>> /\ down[s] = << >> /\ as[a].pendingLogin /\ ~as[a].sync
        BY <4>4, <4>5 DEF LoginSent
      <4>7. Tail(q) = << >> /\ Head(q) = sentPacket
        BY <4>6
      <4>8. p.about = <<as[a].game, a>>
        <5>1. PICK about : about = <<as[a].game, a>>
          OBVIOUS
        <5>2. sentPacket.about = about
          BY <4>5, <5>1, PlainPacket
        <5> QED  BY <1>2, <4>7, <5>1, <5>2
      <4>9. idx = IdxOf[as[a].game]
        BY <4>8 DEF idx
      <4>10. down'[s] = <<r>>
        BY <2>7, <4>6
      <4>11. down'[s] # << >> /\ Head(down'[s]) = r
        BY <4>10
      <4>12. LoginAnswered(as[a], Tail(q), down'[s], gs'[s].gameData)
        BY <2>5, <2>6, <3>2, <4>6, <4>7, <4>9, <4>11 DEF LoginAnswered
      <4> QED  BY <1>0, <1>3, <2>8, <4>12 DEF StageOf, Stage
    <3> QED  BY <3>1, <3>2
  <2>9. Remains(s)
    BY <2>5 DEF Remains
  <2> QED  BY <1>4, <2>4, <2>5, <2>7, <2>8, <2>9
<1>7. CASE p.kind # "LOGIN" /\ AuthHandles(s, p)
  <2>1. GameServerNext(s) /\ (p.kind = "ACCOUNT_LIST" => p.accounts \in Lists)
    BY <1>0, <1>7, HandlerStep DEF AuthInv
  <2>2. Downlink(down)
    BY <1>7 DEF AuthHandles
  <2>3. Answers(s, p) /\ Remains(s)
    BY <1>0, <1>7, <2>1, HandledAnswers DEF AuthHandles
  <2> QED  BY <1>5, <1>7, <2>1, <2>2, <2>3
<1>8. CASE AuthIgnores(s, p) /\ sent' = {} /\ UNCHANGED <<cd, byName, servers, gs, cs, down>>
  <2>1. AuthInv'
    BY <1>0, <1>8, AuthUnchanged
  <2>2. \A t \in Sessions : Undisturbed(t) /\ Remains(t)
    BY <1>8 DEF Undisturbed, Remains
  <2>3. Answers(s, p) /\ p.kind # "LOGIN"
    BY <1>8 DEF Answers, AuthIgnores, Complete
  <2>4. ASSUME Stages, NEW a \in Slots, peer[a] = s, Working(a)' PROVE StageOf(a)'
    BY <1>0, <1>1, <1>2, <1>3, <2>3, <2>4, OwnConnection
  <2> QED  BY <1>0, <1>4, <1>8, <2>1, <2>2, <2>4
<1>9. \/ AuthHandles(s, p)
      \/ AuthIgnores(s, p) /\ sent' = {} /\ UNCHANGED <<cd, byName, servers, gs, cs, down>>
  BY <1>1, <1>2 DEF AuthReceives
<1> QED  BY <1>6, <1>7, <1>8, <1>9

\* The auth server's end of a connection is closed.
LEMMA AuthLosesStep ==
  ASSUME Base, NEW s \in Sessions, AuthLosesGateway(s)
  PROVE  Base' /\ (Stages => Stages')
<1>1. /\ AuthInv
      /\ up \in [Sessions -> Seq(UpPackets)] /\ down \in [Sessions -> Seq(DownPackets)]
      /\ UNCHANGED <<as, game, peer, down>>
      /\ up' = [up EXCEPT ![s] = << >>]
      /\ GameConnectionLost(s)
  BY DEF AuthLosesGateway, Base, ChannelTypes, gwVars
<1>2. GameServerNext(s)
  BY <1>1 DEF GameServerNext
<1>3. AuthInv'
  BY <1>1, <1>2, AuthStep DEF Next
<1>4. up' \in [Sessions -> Seq(UpPackets)] /\ \A t \in Sessions : t # s => up'[t] = up[t]
  BY <1>1, NoPackets
<1>5. gs'[s].phase = "closing"
  <2>1. gs \in [Sessions -> GameServerSessions]
    BY <1>1 DEF AuthInv, TypeOK
  <2> QED  BY <1>1, <2>1 DEF GameConnectionLost, Closed, GameServerSessions
<1>6. \A t \in Sessions : Remains(t) /\ (t # s => Undisturbed(t))
  BY <1>1, <1>2, <1>5, GameServerEffects DEF Remains
<1>7. ASSUME Stages, NEW a \in Slots, Working(a)' PROVE StageOf(a)'
  <2>1. PICK t \in Sessions : t = peer[a] /\ t = peer'[a]
    BY <1>1, <1>7 DEF Working, Base, Ends
  <2>2. t # s
    BY <1>5, <1>7, <2>1 DEF Working
  <2> QED  BY <1>1, <1>4, <1>6, <1>7, <2>1, <2>2, OtherConnection
<1> QED  BY <1>1, <1>3, <1>4, <1>6, <1>7, AuthServerStep

LEMMA AuthSessionEndsStep ==
  ASSUME Base, NEW s \in Sessions, AuthSessionEnds(s)
  PROVE  Base' /\ (Stages => Stages')
<1>1. /\ AuthInv
      /\ up \in [Sessions -> Seq(UpPackets)] /\ down \in [Sessions -> Seq(DownPackets)]
      /\ UNCHANGED <<as, game>>
      /\ up' = [up EXCEPT ![s] = << >>]
      /\ down' = [down EXCEPT ![s] = << >>]
      /\ peer' = [a \in Slots |-> IF peer[a] = s THEN Null ELSE peer[a]]
      /\ GameSessionClosed(s)
  BY DEF AuthSessionEnds, Base, ChannelTypes, gwVars
<1>2. GameServerNext(s)
  BY <1>1 DEF GameServerNext
<1>3. AuthInv'
  BY <1>1, <1>2, AuthStep DEF Next
<1>4. /\ up' \in [Sessions -> Seq(UpPackets)] /\ down' \in [Sessions -> Seq(DownPackets)]
      /\ \A t \in Sessions : t # s => up'[t] = up[t] /\ down'[t] = down[t]
  BY <1>1, EmptySeq
<1>5. \A t \in Sessions : t # s => Undisturbed(t) /\ Remains(t)
  BY <1>1, <1>2, GameServerEffects
<1>6. GatewayInv' /\ ChannelTypes'
  BY <1>1, <1>4 DEF Base, GatewayInv, ChannelTypes
<1>7. \A a \in Slots : peer'[a] # Null => peer'[a] # s /\ peer'[a] = peer[a]
  BY <1>1, KeysAssumption
<1>8. Ends'
  <2>1. peer' \in [Slots -> Sessions \cup {Null}]
    BY <1>1 DEF Base, Ends
  <2>2. ASSUME NEW a \in Slots, peer'[a] # Null
        PROVE  /\ gs'[peer'[a]].phase # "none"
               /\ Attached(as'[a])
               /\ \A b \in Slots : peer'[b] = peer'[a] => b = a
    <3>1. PICK t \in Sessions : t = peer[a] /\ t = peer'[a] /\ t # s
      BY <1>7, <2>2 DEF Base, Ends
    <3>2. gs[t].phase # "none" /\ Attached(as[a]) /\ \A b \in Slots : peer[b] = t => b = a
      BY <1>7, <2>2, <3>1 DEF Base, Ends
    <3>3. \A b \in Slots : peer'[b] = t => peer[b] = t
      BY <1>7, <2>2, <3>1
    <3> QED  BY <1>1, <1>5, <3>1, <3>2, <3>3 DEF Remains
  <2> QED  BY <2>1, <2>2 DEF Ends, Attached
<1>9. ASSUME Stages, NEW a \in Slots, Working(a)' PROVE StageOf(a)'
  <2>1. PICK t \in Sessions : t = peer[a] /\ t = peer'[a] /\ t # s
    BY <1>7, <1>9 DEF Working, Base, Ends
  <2> QED  BY <1>1, <1>4, <1>5, <1>9, <2>1, OtherConnection
<1> QED  BY <1>3, <1>6, <1>8, <1>9 DEF Base, Stages

\* The auth server starts again, with no connections.
LEMMA AuthInitNext == Init' => AuthInv'
BY AuthInit, PTL

LEMMA AuthRestartsStep ==
  ASSUME Base, AuthRestarts
  PROVE  Base' /\ Stages'
<1>1. AuthInv'
  <2>1. Init'
    BY DEF AuthRestarts, Init
  <2> QED  BY <2>1, AuthInitNext
<1>2. /\ up' = [s \in Sessions |-> << >>] /\ down' = [s \in Sessions |-> << >>]
      /\ peer' = [a \in Slots |-> Null] /\ UNCHANGED <<as, game>>
  BY DEF AuthRestarts, gwVars
<1>3. GatewayInv'
  BY <1>2 DEF Base, GatewayInv
<1>4. ChannelTypes'
  BY <1>2, EmptySeq DEF ChannelTypes
<1>5. Ends' /\ Stages'
  BY <1>2 DEF Ends, Stages, Working
<1> QED  BY <1>1, <1>3, <1>4, <1>5 DEF Base

\* A connection is made: the login is the first packet on it.
LEMMA ConnectStep ==
  ASSUME Base, NEW a \in Slots, NEW s \in Sessions, Connect(a, s)
  PROVE  Base' /\ (Stages => Stages')
<1>1. /\ AuthInv
      /\ up \in [Sessions -> Seq(UpPackets)] /\ down \in [Sessions -> Seq(DownPackets)]
      /\ peer \in [Slots -> Sessions \cup {Null}]
      /\ gs[s].phase = "none" /\ AcceptGameServer(s) /\ UNCHANGED game
      /\ peer' = [peer EXCEPT ![a] = s]
      /\ up' = [up EXCEPT ![s] = out'.packets]
      /\ down' = [down EXCEPT ![s] = << >>]
      /\ as[a].stream = "connecting"
      /\ GW!Apply(a, GW!sendLogin(a, [as[a] EXCEPT !.stream = "connected"]))
  BY DEF Connect, GW!onConnected, Base, ChannelTypes, Ends
<1>2. Sound(as[a]) /\ as[a] \in GatewaySessions /\ Good(as[a])
  BY GatewayTypes
<1> DEFINE c == [as[a] EXCEPT !.stream = "connected"]
           t == [c EXCEPT !.pendingLogin = TRUE, !.sentLogin = TRUE]
           login == GW!Login(a)
<1>3. c \in GatewaySessions /\ ~c.pendingLogin /\ ~c.sync
  BY <1>1, <1>2 DEF Good, Attached, GatewaySessions, GW!Streams
<1>4. /\ t \in GatewaySessions
      /\ t.game = as[a].game /\ t.server = as[a].server /\ t.stream = "connected"
      /\ t.pending = as[a].pending /\ t.pendingLogin /\ ~t.sync /\ t.list = as[a].list
  BY <1>2, <1>3 DEF GatewaySessions, GW!Streams
<1>5. GW!sendLogin(a, c) = GW!SentToNetwork(t, <<login>>)
  BY <1>3 DEF GW!sendLogin
<1> HIDE DEF c, t
<1>6. Sound(t)
  BY <1>1, <1>2, <1>4 DEF Sound, Good, Attached
<1>7. /\ login = GW!Packet("LOGIN", <<as[a].server, a>>)
      /\ login \in UpPackets /\ login.kind = "LOGIN"
  <2>1. as[a].server \in Games
    BY <1>1, <1>2 DEF Good, GatewaySessions
  <2>2. PICK about \in Games \X Slots : about = <<as[a].server, a>>
    BY <2>1
  <2>3. login = GW!Packet("LOGIN", about)
    BY <2>2 DEF GW!Login
  <2> HIDE DEF login
  <2>4. login.kind = "LOGIN" /\ login \in Packets({"LOGIN"}, {about})
    BY <2>3, PlainPacket
  <2>5. login \in UpPackets
    BY <2>4 DEF UpPackets, Packets
  <2> QED  BY <2>2, <2>3, <2>4, <2>5
<1> HIDE DEF login
<1>8. <<login>> \in Seq(UpPackets) /\ ~HasLogout(<<login>>)
  BY <1>7, OneElement
<1>9. as' = [as EXCEPT ![a] = t] /\ out'.packets = <<login>>
  <2>1. PICK r : r = GW!SentToNetwork(t, <<login>>)
    OBVIOUS
  <2>2. r.session = t /\ r.packets = <<login>>
    BY <1>4, <1>6, <1>8, <2>1, SentPackets
  <2>3. GW!Apply(a, r)
    BY <1>1, <1>5, <2>1 DEF c
  <2>4. as' = [as EXCEPT ![a] = r.session] /\ out' = [slot |-> a, packets |-> r.packets]
    BY <2>3, Applied
  <2> QED  BY <2>2, <2>4
<1>10. /\ as'[a] = t /\ \A b \in Slots : b # a => as'[b] = as[b]
       /\ peer'[a] = s /\ \A b \in Slots : b # a => peer'[b] = peer[b]
       /\ up'[s] = <<login>> /\ \A x \in Sessions : x # s => up'[x] = up[x]
       /\ down'[s] = << >> /\ \A x \in Sessions : x # s => down'[x] = down[x]
  BY <1>1, <1>9 DEF Base, GatewayInv
<1>11. /\ gs'[s] = NewGameSession /\ \A x \in Sessions : x # s => gs'[x] = gs[x]
       /\ UNCHANGED servers
  BY <1>1 DEF AcceptGameServer, AuthInv, TypeOK
<1>12. \A b \in Slots : peer[b] # s
  BY <1>1, KeysAssumption DEF Base, Ends
<1>13. AuthInv'
  BY <1>1, AuthStep DEF Next, GameServerNext
<1>14. GatewayInv'
  BY <1>1, <1>6, <1>9 DEF Base, GatewayInv, Sound
<1>15. ChannelTypes'
  BY <1>1, <1>8, <1>9, EmptySeq DEF ChannelTypes
<1>16. Ends'
  <2>1. peer' \in [Slots -> Sessions \cup {Null}]
    BY <1>1
  <2>2. gs'[s].phase # "none" /\ Attached(as'[a])
    BY <1>4, <1>10, <1>11 DEF NewGameSession, Attached
  <2>3. \A b \in Slots : b # a /\ peer[b] # Null =>
          /\ gs'[peer[b]].phase # "none" /\ Attached(as'[b])
          /\ \A d \in Slots : peer[d] = peer[b] => d = b
    BY <1>10, <1>11, <1>12, ZenonT(40) DEF Base, Ends, Attached
  <2>4. ASSUME NEW b \in Slots, peer'[b] # Null
        PROVE  /\ gs'[peer'[b]].phase # "none"
               /\ Attached(as'[b])
               /\ \A d \in Slots : peer'[d] = peer'[b] => d = b
    <3>1. CASE b = a
      BY <1>10, <1>12, <2>2, <3>1
    <3>2. CASE b # a
      BY <1>10, <1>12, <2>3, <2>4, <3>2
    <3> QED  BY <3>1, <3>2
  <2> QED  BY <2>1, <2>4 DEF Ends, Attached
<1>17. ASSUME Stages, NEW b \in Slots, Working(b)' PROVE StageOf(b)'
  <2>1. CASE b = a
    <3>1. t.game # Null
      BY <1>10, <1>17, <2>1 DEF Working
    <3>2. as[a].server = t.game
      BY <1>2, <1>4, <3>1 DEF Good
    <3>3. gs'[s].gameData = Null
      BY <1>11 DEF NewGameSession
    <3>4. LoginSent(t, a, up'[s], down'[s], gs'[s].gameData)
      BY <1>4, <1>7, <1>10, <3>2, <3>3 DEF LoginSent
    <3> QED  BY <1>10, <2>1, <3>4 DEF StageOf, Stage
  <2>2. CASE b # a
    <3>1. PICK x \in Sessions : x = peer[b] /\ x = peer'[b] /\ x # s
      BY <1>1, <1>10, <1>12, <1>17, <2>2 DEF Working
    <3>2. Working(b)
      BY <1>10, <1>11, <1>17, <2>2, <3>1 DEF Working
    <3>3. Stage(as[b], b, up[x], down[x], gs[x].gameData, servers[IdxOf[as[b].game]].ready)
      BY <1>17, <3>1, <3>2 DEF Stages, StageOf
    <3> QED  BY <1>10, <1>11, <2>2, <3>1, <3>3 DEF StageOf
  <2> QED  BY <2>1, <2>2
<1> QED  BY <1>13, <1>14, <1>15, <1>16, <1>17 DEF Base, Stages

-----------------------------------------------------------------------------
(* The whole                                                                *)

LEMMA ClusterStart == ClusterInit => Base /\ Stages
<1> SUFFICES ASSUME ClusterInit PROVE Base /\ Stages
  OBVIOUS
<1>1. AuthInv
  BY AuthInit DEF ClusterInit
<1>2. /\ as = [a \in Slots |-> GW!Absent] /\ game = [g \in Games |-> GW!NoGame]
      /\ peer = [a \in Slots |-> Null]
      /\ up = [s \in Sessions |-> << >>] /\ down = [s \in Sessions |-> << >>]
  BY DEF ClusterInit, GW!Init
<1>3. GatewayInv
  <2>1. Sound(GW!Absent) /\ GW!Absent \in GatewaySessions
    BY BlankSessions DEF Sound
  <2>2. GW!NoGame \in GW!GameSessions
    BY DEF GW!NoGame, GW!GameSessions
  <2> QED  BY <1>2, <2>1, <2>2 DEF GatewayInv
<1>4. ChannelTypes
  BY <1>2, EmptySeq DEF ChannelTypes
<1>5. Ends /\ Stages
  BY <1>2 DEF Ends, Stages, Working
<1> QED  BY <1>1, <1>3, <1>4, <1>5 DEF Base

LEMMA ClusterStep ==
  ASSUME Base, [ClusterNext]_clusterVars
  PROVE  Base' /\ (MaxList <= MaxCount /\ Stages => Stages')
<1>1. CASE UNCHANGED clusterVars
  <2>1. UNCHANGED <<vars, as, peer, up, down, game>>
    BY <1>1 DEF clusterVars, gwVars, netVars
  <2> QED  BY <2>1, GatewayTypes, IdleStep
<1>2. CASE NetworkNext
  <2>1. ASSUME NEW a \in Slots, NEW s \in Sessions, Connect(a, s)
        PROVE  Base' /\ (Stages => Stages')
    BY <2>1, ConnectStep
  <2>2. ASSUME NEW a \in Slots, GatewayLosesAuth(a) PROVE Base' /\ (Stages => Stages')
    BY <2>2, LosesAuthStep
  <2>3. ASSUME NEW a \in Slots, GatewaySession(a) PROVE Base' /\ (Stages => Stages')
    BY <2>3, SessionStep
  <2>4. ASSUME NEW a \in Slots, GatewayReceives(a)
        PROVE  Base' /\ (MaxList <= MaxCount /\ Stages => Stages')
    BY <2>4, GatewayReceivesStep
  <2>5. ASSUME NEW s \in Sessions, AuthLosesGateway(s) PROVE Base' /\ (Stages => Stages')
    BY <2>5, AuthLosesStep
  <2>6. ASSUME NEW s \in Sessions, AuthSessionEnds(s) PROVE Base' /\ (Stages => Stages')
    BY <2>6, AuthSessionEndsStep
  <2>7. ASSUME NEW s \in Sessions, AuthReceives(s) PROVE Base' /\ (Stages => Stages')
    BY <2>7, AuthReceivesStep
  <2> QED  BY <1>2, <2>1, <2>2, <2>3, <2>4, <2>5, <2>6, <2>7 DEF NetworkNext
<1>3. ASSUME NEW g \in Games, GameNext(g) PROVE Base' /\ (Stages => Stages')
  <2>1. CASE GameConnects(g)
    BY <2>1, GameConnectsStep
  <2>2. CASE GameStops(g)
    BY <2>2, GameStopsStep
  <2>3. CASE GameGone(g)
    BY <2>3, GameGoneStep
  <2>4. ASSUME NEW name \in Names,
               PlayerArrives(g, name) \/ PlayerLeaves(g, name) \/ KickAnswered(g, name)
        PROVE  Base' /\ (Stages => Stages')
    BY <2>4, PlayerArrivesStep, PlayerLeavesStep, KickAnsweredStep
  <2> QED  BY <1>3, <2>1, <2>2, <2>3, <2>4 DEF GameNext
<1>4. ASSUME NEW c \in Clients, ClientStep(c) PROVE Base' /\ (Stages => Stages')
  BY <1>4, ClientsStep
<1>5. CASE AuthRestarts
  BY <1>5, AuthRestartsStep
<1> QED  BY <1>1, <1>2, <1>3, <1>4, <1>5 DEF ClusterNext, RunningNext

\* The pointers between the auth server's sessions and servers, its two maps of
\* accounts and the managers of its clients stay consistent when it is driven by
\* the gateway, over connections that break, and when it is restarted under the
\* gateway's feet.
THEOREM ClusterLinksCorrect == ClusterSpec => [](SessionLink /\ MapsAgree /\ Managed)
<1>1. ClusterInit => Base
  BY ClusterStart
<1>2. Base /\ [ClusterNext]_clusterVars => Base'
  BY ClusterStep
<1>3. Base => SessionLink /\ MapsAgree /\ Managed
  BY DEF Base, AuthInv
<1> QED  BY <1>1, <1>2, <1>3, PTL DEF ClusterSpec

\* A connection has one session at each end: both exist, however the other end
\* went away, and no two AuthSessions of the gateway share a GameServerSession.
THEOREM EndsCorrect == ClusterSpec => []Ends
<1>1. ClusterInit => Base
  BY ClusterStart
<1>2. Base /\ [ClusterNext]_clusterVars => Base'
  BY ClusterStep
<1>3. Base => Ends
  BY DEF Base
<1> QED  BY <1>1, <1>2, <1>3, PTL DEF ClusterSpec

\* What the auth server does behind its connections to the gateway is what its
\* own specification allows, or a restart of the process.
THEOREM AuthServerRefined ==
  ClusterSpec => Init /\ [][Next \/ Init']_<<cd, byName, servers, gs, cs>>
<1>1. ClusterInit => Base /\ Init
  BY ClusterStart DEF ClusterInit
<1>2. Base /\ [ClusterNext]_clusterVars => Base'
  BY ClusterStep
<1>3. ASSUME Base, [ClusterNext]_clusterVars
      PROVE  [Next \/ Init']_<<cd, byName, servers, gs, cs>>
  <2> DEFINE Kept == UNCHANGED <<cd, byName, servers, gs, cs>>
  <2>1. UNCHANGED vars => Kept
    BY DEF vars
  <2>2. CASE UNCHANGED clusterVars
    BY <2>1, <2>2 DEF clusterVars
  <2>3. CASE AuthRestarts
    BY <2>3 DEF AuthRestarts, Init
  <2>4. ASSUME NEW a \in Slots, NEW s \in Sessions, Connect(a, s) PROVE Next
    BY <2>4 DEF Connect, Next, GameServerNext
  <2>5. ASSUME NEW a \in Slots, GatewayLosesAuth(a) \/ GatewaySession(a) \/ GatewayReceives(a)
        PROVE  Kept
    BY <2>1, <2>5 DEF GatewayLosesAuth, GatewaySession, GatewayReceives
  <2>6. ASSUME NEW s \in Sessions, AuthLosesGateway(s) \/ AuthSessionEnds(s) PROVE Next
    BY <2>6 DEF AuthLosesGateway, AuthSessionEnds, Next, GameServerNext
  <2>7. ASSUME NEW s \in Sessions, AuthReceives(s) PROVE Next \/ Kept
    <3>1. Head(up[s]) \in UpPackets
      <4>1. up[s] \in Seq(UpPackets) /\ up[s] # << >>
        BY <1>3, <2>7 DEF AuthReceives, Base, ChannelTypes
      <4> QED  BY <4>1, HeadTailProperties
    <3>2. PICK p \in UpPackets : p = Head(up[s])
      BY <3>1
    <3>3. AuthHandles(s, p) \/ Kept
      BY <2>7, <3>2 DEF AuthReceives
    <3>4. AuthHandles(s, p) => GameServerNext(s)
      BY <1>3, HandlerStep DEF Base, AuthInv
    <3> QED  BY <3>3, <3>4 DEF Next
  <2>8. ASSUME NEW g \in Games, GameNext(g) PROVE Kept
    BY <2>1, <2>8 DEF GameNext, GameConnects, GameStops, GameGone, PlayerArrives,
       PlayerLeaves, KickAnswered
  <2>9. ASSUME NEW c \in Clients, ClientStep(c) PROVE Next
    BY <2>9 DEF ClientStep, Next
  <2>10. CASE NetworkNext
    BY <2>4, <2>5, <2>6, <2>7, <2>10 DEF NetworkNext
  <2>11. CASE UNCHANGED clusterVars \/ \E g \in Games : GameNext(g)
    BY <2>2, <2>8, <2>11
  <2>12. CASE \E c \in Clients : ClientStep(c)
    BY <2>9, <2>12
  <2> QED  BY <1>3, <2>3, <2>10, <2>11, <2>12 DEF ClusterNext, RunningNext
<1> QED  BY <1>1, <1>2, <1>3, PTL DEF ClusterSpec

\* What the gateway does between the game servers and the auth server is what its
\* own specification allows: every packet that reaches it is one that it expects,
\* or one that it ignores.
THEOREM GatewayRefined ==
  ASSUME Ids # {}
  PROVE  ClusterSpec => GW!Init /\ [][GW!Next]_<<as, game>>
<1>1. ClusterInit => Base /\ GW!Init
  BY ClusterStart DEF ClusterInit
<1>2. Base /\ [ClusterNext]_clusterVars => Base'
  BY ClusterStep
<1>3. ASSUME Base, [ClusterNext]_clusterVars
      PROVE  [GW!Next]_<<as, game>>
  <2> DEFINE Kept == UNCHANGED <<as, game>>
  <2>1. UNCHANGED gwVars => Kept
    BY DEF gwVars
  <2>2. ASSUME NEW a \in Slots, GW!AuthSessionNext(a) PROVE GW!Next
    BY <2>2 DEF GW!Next
  <2>3. ASSUME NEW g \in Games, GW!GameSessionNext(g) PROVE GW!Next
    BY <2>3 DEF GW!Next
  <2>4. ASSUME NEW a \in Slots, NEW s \in Sessions, Connect(a, s) PROVE GW!Next
    BY <2>2, <2>4 DEF Connect, GW!AuthSessionNext
  <2>5. ASSUME NEW a \in Slots, GatewayLosesAuth(a) \/ GatewaySession(a) PROVE GW!Next
    BY <2>2, <2>5 DEF GatewayLosesAuth, GatewaySession, GW!AuthSessionNext
  <2>6. ASSUME NEW a \in Slots, GatewayReceives(a) PROVE GW!Next \/ Kept
    <3>1. PICK p \in DownPackets :
            \/ GatewayHandles(a, p)
            \/ GW!Become(a, as[a]) /\ UNCHANGED game
      <4>1. PICK s \in Sessions : s = peer[a]
        BY <1>3, <2>6 DEF GatewayReceives, Base, Ends
      <4>2. PICK q \in Seq(DownPackets) : q = down[s] /\ q # << >>
        BY <1>3, <2>6, <4>1 DEF GatewayReceives, Base, ChannelTypes
      <4>3. Head(q) \in DownPackets
        BY <4>2, HeadTailProperties
      <4> QED  BY <2>6, <4>1, <4>2, <4>3 DEF GatewayReceives
    <3>2. ASSUME GW!Become(a, as[a]), UNCHANGED game PROVE Kept
      <4>1. as' = [as EXCEPT ![a] = as[a]]
        BY <3>2 DEF GW!Become, GW!Apply
      <4> QED  BY <1>3, <3>2, <4>1 DEF Base, GatewayInv
    <3>3. ASSUME NEW ok \in BOOLEAN, GW!onLoginResult(a, ok) PROVE GW!Next
      BY <2>2, <3>3 DEF GW!AuthSessionNext
    <3>4. ASSUME NEW account \in Names \X Ids, NEW ok \in BOOLEAN, GW!onClientLoginResult(a, account, ok)
          PROVE  GW!Next
      BY <2>2, <3>4 DEF GW!AuthSessionNext
    <3>5. CASE p.kind = "LOGIN_OK" /\ GW!onClientLoginResult(a, p.about, TRUE)
      <4>1. p.about \in Names \X Ids
        BY <3>5 DEF DownPackets, Packets, Accounts
      <4> QED  BY <3>4, <3>5, <4>1
    <3>6. CASE p.kind = "LOGIN_DENIED" /\ GW!onClientLoginResult(a, p.about, FALSE)
      <4>1. p.about \in Names \X {Null}
        BY <3>6 DEF DownPackets, Packets
      <4>2. PICK i : i \in Ids
        OBVIOUS
      <4>3. PICK account : account = <<p.about[1], i>>
        OBVIOUS
      <4>4. account \in Names \X Ids /\ account[1] = p.about[1]
        BY <4>1, <4>2, <4>3
      <4>5. GW!onClientLoginResult(a, account, FALSE)
        BY <3>6, <4>4 DEF GW!onClientLoginResult
      <4> QED  BY <3>4, <4>4, <4>5
    <3>7. CASE p.kind = "KICK" /\ GW!ForwardToGame(a, p.about[1])
      <4>1. p.about[1] \in Names
        BY <3>7 DEF DownPackets, Packets
      <4> QED  BY <2>2, <3>7, <4>1 DEF GW!AuthSessionNext
    <3> QED  BY <3>1, <3>2, <3>3, <3>5, <3>6, <3>7 DEF GatewayHandles
  <2>7. ASSUME NEW s \in Sessions, AuthLosesGateway(s) \/ AuthSessionEnds(s) \/ AuthReceives(s)
        PROVE  Kept
    BY <2>1, <2>7 DEF AuthLosesGateway, AuthSessionEnds, AuthReceives
  <2>8. ASSUME NEW g \in Games, GameConnects(g) \/ GameStops(g) \/ GameGone(g) PROVE GW!Next
    BY <2>3, <2>8 DEF GameConnects, GameStops, GameGone, GW!GameSessionNext
  <2>9. ASSUME NEW g \in Games, NEW name \in Names,
               PlayerArrives(g, name) \/ PlayerLeaves(g, name) \/ KickAnswered(g, name)
        PROVE  GW!Next \/ Kept
    BY <2>1, <2>3, <2>9 DEF PlayerArrives, PlayerLeaves, KickAnswered,
       GW!GameSessionNext, GW!Forwarded
  <2>10. CASE UNCHANGED clusterVars \/ AuthRestarts \/ \E c \in Clients : ClientStep(c)
    BY <2>1, <2>10 DEF clusterVars, AuthRestarts, ClientStep
  <2>11. CASE \E g \in Games : GameNext(g)
    BY <2>8, <2>9, <2>11 DEF GameNext
  <2>12. CASE NetworkNext
    BY <2>4, <2>5, <2>6, <2>7, <2>10, <2>12 DEF NetworkNext
  <2> QED  BY <1>3, <2>10, <2>11, <2>12 DEF ClusterNext, RunningNext
<1> QED  BY <1>1, <1>2, <1>3, PTL DEF ClusterSpec

\* An idle connection over which the gateway is synchronized is one over which
\* the auth server shows the game server as ready, however often connections were
\* lost, the game server left and came back and the auth server was restarted, as
\* long as an account list fits into one packet (a longer one can be dropped).
THEOREM SynchronizedMeansReadyCorrect ==
  ASSUME MaxList <= MaxCount
  PROVE  ClusterSpec => []SynchronizedMeansReady
<1> DEFINE Inv == Base /\ Stages
<1>1. ClusterInit => Inv
  BY ClusterStart
<1>2. Inv /\ [ClusterNext]_clusterVars => Inv'
  BY ClusterStep
<1>3. ASSUME Inv PROVE SynchronizedMeansReady
  <2> SUFFICES ASSUME NEW a \in Slots, NEW s \in Sessions, Quiet(a, s), as[a].game # Null
               PROVE  /\ servers[IdxOf[as[a].game]].session = s
                      /\ servers[IdxOf[as[a].game]].ready
    BY DEF SynchronizedMeansReady
  <2>1. Working(a) /\ peer[a] = s /\ up[s] = << >> /\ as[a].sync
    BY KeysAssumption DEF Quiet, Working
  <2>2. Stage(as[a], a, up[s], down[s], gs[s].gameData, servers[IdxOf[as[a].game]].ready)
    BY <1>3, <2>1 DEF Stages, StageOf
  <2>3. Serving(as[a], up[s], gs[s].gameData, servers[IdxOf[as[a].game]].ready)
    BY <2>1, <2>2 DEF Stage, LoginSent, LoginAnswered
  <2>4. ~HasList(up[s])
    <3>1. DOMAIN << >> = {}
      OBVIOUS
    <3> QED  BY <2>1, <3>1 DEF HasList
  <2>5. gs[s].gameData = IdxOf[as[a].game] /\ servers[IdxOf[as[a].game]].ready
    BY <2>3, <2>4 DEF Serving
  <2>6. IdxOf[as[a].game] # Null
    <3>1. PICK g \in Games : g = as[a].game
      BY <1>3, <2>1 DEF Working, Base, GatewayInv, GatewaySessions
    <3>2. IdxOf[g] \in Idx /\ Null \notin Idx
      BY ClusterAssumption, KeysAssumption
    <3> QED  BY <3>1, <3>2
  <2>7. servers[gs[s].gameData].session = s
    BY <1>3, <2>5, <2>6 DEF Base, AuthInv, SessionLink
  <2> QED  BY <2>5, <2>7
<1> HIDE DEF Inv
<1> QED  BY <1>1, <1>2, <1>3, PTL DEF ClusterSpec

=============================================================================
