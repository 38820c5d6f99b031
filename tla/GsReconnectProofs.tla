------------------------- MODULE GsReconnectProofs -------------------------
(***************************************************************************)
(* Proofs about GsReconnect, for all values of its constants: the types,   *)
(* and that a GameServerSession and its AuthSession stay linked, that no   *)
(* packet is overtaken while the auth server is synchronized, and that an  *)
(* AuthSession without a game server does not get stuck.                   *)
(***************************************************************************)
EXTENDS GsReconnect, SequenceTheorems, NaturalsInduction, WellFoundedInduction, TLAPS

(* What the methods of AuthSession make of the object                       *)

\* closeSession touches the stream alone.
LEMMA CloseSession ==
  ASSUME NEW s \in AuthSessions
  PROVE  /\ closeSession(s) \in AuthSessions
         /\ \/ closeSession(s) = s /\ s.stream \notin {"connecting", "connected"}
            \/ closeSession(s) = [s EXCEPT !.stream = "closing", !.remote = FALSE]
<1>1. CASE s.stream \in {"connecting", "connected"}
  <2>1. closeSession(s) = [s EXCEPT !.stream = "closing", !.remote = FALSE]
    BY <1>1 DEF closeSession
  <2>2. [s EXCEPT !.stream = "closing", !.remote = FALSE] \in AuthSessions
    BY DEF AuthSessions, Streams
  <2> QED  BY <2>1, <2>2
<1>2. CASE s.stream \notin {"connecting", "connected"}
  BY <1>2 DEF closeSession
<1> QED  BY <1>1, <1>2

HasLogout(ps) == \E i \in DOMAIN ps : ps[i].kind = "LOGOUT"

\* A LOGOUT that is written closes the session; other packets leave it alone.
LEMMA SentSession ==
  ASSUME NEW s, NEW ps
  PROVE  SentToNetwork(s, ps).session = IF HasLogout(ps) THEN closeSession(s) ELSE s
<1>1. {i \in DOMAIN ps : ps[i].kind = "LOGOUT"} = {} <=> ~HasLogout(ps)
  BY DEF HasLogout
<1> QED  BY <1>1 DEF SentToNetwork

LEMMA OnePacket ==
  ASSUME NEW p
  PROVE  HasLogout(<<p>>) <=> p.kind = "LOGOUT"
BY DEF HasLogout

LEMMA DeferredPackets ==
  ASSUME NEW kind \in Forwarded \cup {"CLIENT_LOGIN", "LOGOUT"},
         NEW about \in Names \cup {Null}
  PROVE  Packet(kind, about) \in Deferred /\ Packet(kind, about).kind = kind
<1>1. Packet(kind, about) \in Deferred
  BY DEF Deferred
<1>2. Packet(kind, about).kind = kind
  BY DEF Packet
<1> QED  BY <1>1, <1>2

LEMMA NothingDeferred == << >> \in Seq(Deferred)
BY EmptySeq

\* A packet that is appended to pendingMessages.
LEMMA AppendPending ==
  ASSUME NEW q \in Seq(Deferred), NEW p \in Deferred
  PROVE  /\ Append(q, p) \in Seq(Deferred)
         /\ HasLogout(Append(q, p)) <=> HasLogout(q) \/ p.kind = "LOGOUT"
<1>1. /\ Append(q, p) \in Seq(Deferred)
      /\ Len(q) \in Nat
      /\ DOMAIN q = 1 .. Len(q) /\ DOMAIN Append(q, p) = 1 .. Len(q) + 1
      /\ \A i \in 1 .. Len(q) : Append(q, p)[i] = q[i]
      /\ Append(q, p)[Len(q) + 1] = p
  BY AppendProperties, LenProperties
<1>2. 1 .. Len(q) + 1 = (1 .. Len(q)) \cup {Len(q) + 1}
  BY <1>1
<1> QED  BY <1>1, <1>2 DEF HasLogout

\* sendPacket: written at once when the auth server is synchronized, deferred
\* otherwise.
LEMMA SendPacket ==
  ASSUME NEW s \in AuthSessions, NEW p \in Deferred
  PROVE  LET t == sendPacket(s, p).session
         IN  /\ t \in AuthSessions
             /\ s.stream = "connected" /\ s.sync =>
                  t = IF p.kind = "LOGOUT" THEN closeSession(s) ELSE s
             /\ ~(s.stream = "connected" /\ s.sync) =>
                  t = [s EXCEPT !.pending = Append(@, p)]
<1>1. CASE s.stream = "connected" /\ s.sync
  <2>1. sendPacket(s, p) = SentToNetwork(s, <<p>>)
    BY <1>1 DEF sendPacket
  <2>2. sendPacket(s, p).session = IF p.kind = "LOGOUT" THEN closeSession(s) ELSE s
    BY <2>1, SentSession, OnePacket
  <2> QED  BY <1>1, <2>2, CloseSession
<1>2. CASE ~(s.stream = "connected" /\ s.sync)
  <2>1. s.pending \in Seq(Deferred)
    BY DEF AuthSessions
  <2>2. [s EXCEPT !.pending = Append(@, p)] \in AuthSessions
    BY <2>1, AppendPending DEF AuthSessions
  <2> QED  BY <1>2, <2>2 DEF sendPacket
<1> QED  BY <1>1, <1>2

\* The account list goes out in packets of its own kind, at least one.
LEMMA ListIsSequence ==
  ASSUME Assumptions, NEW list \in Seq(Accounts)
  PROVE  \E n \in Nat :
           /\ DOMAIN ListPackets(list) = 1 .. n
           /\ \A k \in 1 .. n : ListPackets(list)[k].kind = "ACCOUNT_LIST"
<1>1. Len(list) \in Nat /\ (list # << >> => Len(list) > 0)
  BY LenProperties, EmptySeq
<1>2. PacketCount(list) \in Nat
  <2>1. CASE list = << >>
    BY <2>1 DEF PacketCount
  <2>2. CASE list # << >>
    <3>1. PerPacket(list) \in Nat /\ PerPacket(list) > 0
      BY <1>1, <2>2 DEF Assumptions, PerPacket
    <3>2. Len(list) + PerPacket(list) - 1 \in Nat
      BY <1>1, <3>1
    <3>3. \A x, y \in Nat : y > 0 => x \div y \in Nat
      OBVIOUS
    <3>4. (Len(list) + PerPacket(list) - 1) \div PerPacket(list) \in Nat
      BY <3>1, <3>2, <3>3
    <3> QED  BY <2>2, <3>4 DEF PacketCount
  <2> QED  BY <2>1, <2>2
<1>3. DOMAIN ListPackets(list) = 1 .. PacketCount(list)
  BY DEF ListPackets
<1>4. ASSUME NEW k \in 1 .. PacketCount(list)
      PROVE  ListPackets(list)[k].kind = "ACCOUNT_LIST"
  BY DEF ListPackets, Packet
<1> QED  BY <1>2, <1>3, <1>4

\* What is flushed after the account list holds a LOGOUT exactly when
\* pendingMessages does.
LEMMA FlushedLogout ==
  ASSUME Assumptions, NEW list \in Seq(Accounts), NEW q \in Seq(Deferred)
  PROVE  HasLogout(ListPackets(list) \o q) <=> HasLogout(q)
<1> DEFINE L == ListPackets(list)
<1>1. PICK n \in Nat : /\ DOMAIN L = 1 .. n
                       /\ \A k \in 1 .. n : L[k].kind = "ACCOUNT_LIST"
  BY ListIsSequence
<1>2. L \in Seq({L[k] : k \in 1 .. n}) /\ Len(L) = n
  <2>1. L = [k \in 1 .. n |-> L[k]]
    BY <1>1 DEF ListPackets
  <2> HIDE DEF L
  <2>2. L \in [1 .. n -> {L[k] : k \in 1 .. n}]
    BY <2>1
  <2>3. L \in Seq({L[k] : k \in 1 .. n})
    BY <2>2, SeqDef, SMTT(30)
  <2> QED  BY <1>1, <2>3, LenProperties
<1> HIDE DEF L
<1>3. Len(q) \in Nat /\ DOMAIN q = 1 .. Len(q)
  BY LenProperties
<1> DEFINE S == {L[k] : k \in 1 .. n} \cup Deferred
<1>4. L \in Seq(S) /\ q \in Seq(S)
  BY <1>2
<1> HIDE DEF S
<1>5. /\ Len(L \o q) = n + Len(q)
      /\ DOMAIN (L \o q) = 1 .. n + Len(q)
      /\ \A i \in 1 .. n + Len(q) :
           (L \o q)[i] = IF i <= n THEN L[i] ELSE q[i - n]
  <2>1. /\ Len(L \o q) = Len(L) + Len(q)
        /\ \A i \in 1 .. Len(L) + Len(q) :
             (L \o q)[i] = IF i <= Len(L) THEN L[i] ELSE q[i - Len(L)]
        /\ L \o q \in Seq(S)
    BY <1>4, ConcatProperties
  <2>2. DOMAIN (L \o q) = 1 .. Len(L \o q)
    BY <2>1, LenProperties
  <2> QED  BY <1>2, <1>3, <2>1, <2>2
<1>6. ASSUME HasLogout(L \o q) PROVE HasLogout(q)
  <2>1. PICK i \in 1 .. n + Len(q) : (L \o q)[i].kind = "LOGOUT"
    BY <1>5, <1>6 DEF HasLogout
  <2>2. ~(i <= n)
    BY <1>1, <1>5, <2>1
  <2>3. i - n \in 1 .. Len(q) /\ q[i - n].kind = "LOGOUT"
    BY <1>3, <1>5, <2>1, <2>2
  <2> QED  BY <1>3, <2>3 DEF HasLogout
<1>7. ASSUME HasLogout(q) PROVE HasLogout(L \o q)
  <2>1. PICK i \in 1 .. Len(q) : q[i].kind = "LOGOUT"
    BY <1>3, <1>7 DEF HasLogout
  <2>2. i + n \in 1 .. n + Len(q) /\ ~(i + n <= n) /\ i + n - n = i
    BY <1>3
  <2>3. (L \o q)[i + n].kind = "LOGOUT"
    BY <1>5, <2>1, <2>2
  <2> QED  BY <1>5, <2>2, <2>3 DEF HasLogout
<1> QED  BY <1>6, <1>7 DEF L

(* A finite list of positions has a last one.                               *)
LEMMA LastPosition ==
  ASSUME NEW n \in Nat, NEW at \in SUBSET (1 .. n), at # {}
  PROVE  \E i \in at : \A j \in at : j <= i
<1> DEFINE T == {n - i : i \in at}
<1>1. T \subseteq Nat /\ T # {}
  <2>1. \A i \in at : i \in 1 .. n
    OBVIOUS
  <2>2. \A i \in at : n - i \in Nat
    BY <2>1
  <2>3. T \subseteq Nat
    BY <2>2
  <2>4. PICK i \in at : TRUE
    OBVIOUS
  <2>5. n - i \in T
    OBVIOUS
  <2> QED  BY <2>3, <2>5
<1> DEFINE R == {p \in Nat \X Nat : p[1] < p[2]}
<1>2. IsWellFoundedOn(R, Nat)
  BY NatLessThanWellFounded DEF OpToRel
<1>3. PICK x \in T : \A y \in T : ~(y < x)
  <2>1. \E x \in T : \A y \in T : <<y, x>> \notin R
    <3> HIDE DEF R, T
    <3> QED  BY <1>1, <1>2, WFMin
  <2> QED  BY <1>1, <2>1
<1>4. PICK i \in at : x = n - i
  BY <1>2
<1>5. ASSUME NEW j \in at PROVE j <= i
  BY <1>3, <1>4, n - j \in T
<1> QED  BY <1>5

\* logoutClient leaves a list of accounts.
LEMMA WithoutType ==
  ASSUME NEW list \in Seq(Accounts), NEW name
  PROVE  Without(list, name) \in Seq(Accounts)
<1> DEFINE at == {i \in DOMAIN list : list[i][1] = name}
           last == CHOOSE i \in at : \A j \in at : j <= i
<1>1. Len(list) \in Nat /\ DOMAIN list = 1 .. Len(list)
      /\ \A i \in 1 .. Len(list) : list[i] \in Accounts
  BY LenProperties, ElementOfSeq
<1>2. CASE at = {}
  BY <1>2 DEF Without
<1>3. CASE at # {}
  <2>1. \E i \in at : \A j \in at : j <= i
    <3>1. at \in SUBSET (1 .. Len(list))
      BY <1>1
    <3> HIDE DEF at
    <3> QED  BY <1>1, <1>3, <3>1, LastPosition
  <2>2. last \in 1 .. Len(list)
    <3>1. last \in at
      <4> HIDE DEF at
      <4> QED  BY <2>1
    <3> HIDE DEF last
    <3> QED  BY <1>1, <3>1
  <2>3. Without(list, name) = SubSeq(list, 1, last - 1) \o SubSeq(list, last + 1, Len(list))
    BY <1>3 DEF Without
  <2> HIDE DEF last, at
  <2>4. SubSeq(list, 1, last - 1) \in Seq(Accounts)
    <3>1. \A i \in 1 .. last - 1 : list[i] \in Accounts
      BY <1>1, <2>2
    <3>2. 1 \in Int /\ last - 1 \in Int
      BY <1>1, <2>2
    <3> QED  BY <3>1, <3>2, SubSeqProperties
  <2>5. SubSeq(list, last + 1, Len(list)) \in Seq(Accounts)
    <3>1. \A i \in last + 1 .. Len(list) : list[i] \in Accounts
      BY <1>1, <2>2
    <3>2. last + 1 \in Int /\ Len(list) \in Int
      BY <1>1, <2>2
    <3> QED  BY <3>1, <3>2, SubSeqProperties
  <2> QED  BY <2>3, <2>4, <2>5, ConcatProperties
<1> QED  BY <1>2, <1>3

-----------------------------------------------------------------------------
(* The handlers of AuthSession as functions of the object                   *)

LEMMA SendLogin ==
  ASSUME NEW a, NEW s \in AuthSessions
  PROVE  LET t == sendLogin(a, s).session
         IN  \/ t = s /\ s.pendingLogin
             \/ t = [s EXCEPT !.pendingLogin = TRUE, !.sentLogin = TRUE]
<1>1. Login(a).kind = "LOGIN"
  BY DEF Login, Packet
<1>2. CASE s.pendingLogin
  BY <1>2 DEF sendLogin
<1>3. CASE ~s.pendingLogin
  <2> DEFINE u == [s EXCEPT !.pendingLogin = TRUE, !.sentLogin = TRUE]
  <2>1. sendLogin(a, s) = SentToNetwork(u, <<Login(a)>>)
    BY <1>3 DEF sendLogin
  <2> HIDE DEF u
  <2>2. sendLogin(a, s).session = u
    BY <1>1, <2>1, SentSession, OnePacket
  <2> QED  BY <2>2 DEF u
<1> QED  BY <1>2, <1>3

\* After the account list the AuthSession is synchronized and nothing is
\* deferred; if a LOGOUT was, the connection is closed.
LEMMA SendAccountList ==
  ASSUME Assumptions, NEW s \in AuthSessions
  PROVE  LET t == sendAccountList(s).session
             u == [s EXCEPT !.sync = TRUE, !.pending = << >>]
         IN  /\ u \in AuthSessions
             /\ t = IF HasLogout(s.pending) THEN closeSession(u) ELSE u
<1> DEFINE u == [s EXCEPT !.sync = TRUE, !.pending = << >>]
           ps == ListPackets(s.list) \o s.pending
<1>1. u \in AuthSessions
  BY NothingDeferred DEF AuthSessions
<1>2. sendAccountList(s) = SentToNetwork(u, ps)
  BY DEF sendAccountList
<1>3. s.list \in Seq(Accounts) /\ s.pending \in Seq(Deferred)
  BY DEF AuthSessions
<1>4. HasLogout(ps) <=> HasLogout(s.pending)
  BY <1>3, FlushedLogout
<1> HIDE DEF u, ps
<1>5. sendAccountList(s).session = IF HasLogout(s.pending) THEN closeSession(u) ELSE u
  BY <1>2, <1>4, SentSession
<1> QED  BY <1>1, <1>5 DEF u

\* The object that has been told goodbye: it is closed, or its LOGOUT waits.
LEMMA SendLogout ==
  ASSUME NEW s \in AuthSessions, s.pending = << >>
  PROVE  LET t == sendPacket(s, Logout).session
         IN  /\ t \in AuthSessions
             /\ s.stream = "connected" /\ s.sync =>
                  t = [s EXCEPT !.stream = "closing", !.remote = FALSE]
             /\ ~(s.stream = "connected" /\ s.sync) =>
                  t = [s EXCEPT !.pending = <<Logout>>]
<1>1. Logout \in Deferred /\ Logout.kind = "LOGOUT"
  BY DeferredPackets DEF Logout
<1>2. Append(<< >>, Logout) = <<Logout>>
  OBVIOUS
<1>3. CASE s.stream = "connected" /\ s.sync
  BY <1>1, <1>3, SendPacket, CloseSession
<1>4. CASE ~(s.stream = "connected" /\ s.sync)
  <2>1. [s EXCEPT !.pending = Append(@, Logout)] = [s EXCEPT !.pending = <<Logout>>]
    BY <1>2
  <2> QED  BY <1>1, <1>4, <2>1, SendPacket
<1> QED  BY <1>3, <1>4

LEMMA Disconnect ==
  ASSUME NEW s \in AuthSessions
  PROVE  LET t == disconnect(s).session
         IN  /\ t \in AuthSessions
             /\ t.game = Null /\ t.sync = s.sync /\ t.pendingLogin = s.pendingLogin
             /\ \/ /\ t.doomed /\ t.pending = << >>
                   /\ \/ t.stream = "closing"
                      \/ t.stream = s.stream /\ s.stream \notin {"connecting", "connected"}
                \/ /\ s.sentLogin /\ t.doomed = s.doomed /\ t.timer = s.timer
                   /\ \/ /\ s.stream = "connected" /\ s.sync
                         /\ t.stream = "closing" /\ ~t.remote /\ t.pending = << >>
                      \/ /\ ~(s.stream = "connected" /\ s.sync)
                         /\ t.stream = s.stream /\ t.remote = s.remote
                         /\ t.pending = <<Logout>>
<1> DEFINE alone == [s EXCEPT !.game = Null, !.pending = << >>]
<1>1. /\ alone \in AuthSessions
      /\ alone.game = Null /\ alone.pending = << >> /\ alone.sync = s.sync
      /\ alone.pendingLogin = s.pendingLogin /\ alone.doomed = s.doomed
      /\ alone.timer = s.timer /\ alone.stream = s.stream /\ alone.remote = s.remote
  BY NothingDeferred DEF AuthSessions
<1>2. disconnect(s) =
        IF ~s.sentLogin
        THEN [session |-> [closeSession(alone) EXCEPT !.timer = FALSE, !.doomed = TRUE],
              packets |-> << >>]
        ELSE sendPacket(alone, Logout)
  BY DEF disconnect
<1> HIDE DEF alone
<1>3. CASE ~s.sentLogin
  <2> DEFINE u == closeSession(alone)
  <2>1. /\ u \in AuthSessions
        /\ \/ u = alone /\ s.stream \notin {"connecting", "connected"}
           \/ u = [alone EXCEPT !.stream = "closing", !.remote = FALSE]
    BY <1>1, CloseSession
  <2>2. disconnect(s).session = [u EXCEPT !.timer = FALSE, !.doomed = TRUE]
    BY <1>2, <1>3
  <2> HIDE DEF u
  <2>3. [u EXCEPT !.timer = FALSE, !.doomed = TRUE] \in AuthSessions
    BY <2>1 DEF AuthSessions
  <2>4. /\ u.game = Null /\ u.pending = << >> /\ u.sync = s.sync
        /\ u.pendingLogin = s.pendingLogin
        /\ \/ u.stream = "closing"
           \/ u.stream = s.stream /\ s.stream \notin {"connecting", "connected"}
    BY <1>1, <2>1 DEF AuthSessions
  <2>5. LET t == [u EXCEPT !.timer = FALSE, !.doomed = TRUE]
        IN  t.game = u.game /\ t.pending = u.pending /\ t.sync = u.sync
            /\ t.pendingLogin = u.pendingLogin /\ t.stream = u.stream /\ t.doomed
    BY <2>1 DEF AuthSessions
  <2> QED  BY <2>2, <2>3, <2>4, <2>5
<1>4. CASE s.sentLogin
  <2> DEFINE t == sendPacket(alone, Logout).session
  <2>1. /\ t \in AuthSessions
        /\ s.stream = "connected" /\ s.sync =>
             t = [alone EXCEPT !.stream = "closing", !.remote = FALSE]
        /\ ~(s.stream = "connected" /\ s.sync) => t = [alone EXCEPT !.pending = <<Logout>>]
    BY <1>1, SendLogout
  <2>2. disconnect(s).session = t
    BY <1>2, <1>4
  <2> HIDE DEF t
  <2>3. CASE s.stream = "connected" /\ s.sync
    <3>1. /\ t.game = alone.game /\ t.sync = alone.sync /\ t.doomed = alone.doomed
          /\ t.pendingLogin = alone.pendingLogin /\ t.timer = alone.timer
          /\ t.stream = "closing" /\ ~t.remote /\ t.pending = alone.pending
      BY <1>1, <2>1, <2>3 DEF AuthSessions
    <3> QED  BY <1>1, <1>4, <2>1, <2>2, <2>3, <3>1
  <2>4. CASE ~(s.stream = "connected" /\ s.sync)
    <3>1. /\ t.game = alone.game /\ t.sync = alone.sync /\ t.doomed = alone.doomed
          /\ t.pendingLogin = alone.pendingLogin /\ t.timer = alone.timer
          /\ t.stream = alone.stream /\ t.remote = alone.remote /\ t.pending = <<Logout>>
      BY <1>1, <2>1, <2>4 DEF AuthSessions
    <3> QED  BY <1>1, <1>4, <2>1, <2>2, <2>4, <3>1
  <2> QED  BY <2>3, <2>4
<1> QED  BY <1>3, <1>4

LEMMA ForceClose ==
  ASSUME NEW s \in AuthSessions
  PROVE  LET t == forceClose(s).session
         IN  /\ t \in AuthSessions
             /\ t.game = Null /\ t.sync = s.sync /\ t.pendingLogin = s.pendingLogin
             /\ \/ /\ t.doomed /\ t.pending = << >> /\ s.stream # "connected"
                   /\ \/ t.stream = "closing"
                      \/ t.stream = s.stream /\ s.stream \notin {"connecting", "connected"}
                \/ /\ s.stream = "connected" /\ s.sync /\ t.doomed = s.doomed
                   /\ t.stream = "closing" /\ ~t.remote /\ t.pending = << >>
                \/ /\ s.stream = "connected" /\ ~s.sync /\ t.doomed = s.doomed
                   /\ t.stream = "connected" /\ t.pending = <<Logout>>
<1> DEFINE alone == [s EXCEPT !.game = Null, !.pending = << >>, !.timer = FALSE]
<1>1. /\ alone \in AuthSessions
      /\ alone.game = Null /\ alone.pending = << >> /\ alone.sync = s.sync
      /\ alone.pendingLogin = s.pendingLogin /\ alone.doomed = s.doomed
      /\ alone.stream = s.stream /\ alone.remote = s.remote
  BY NothingDeferred DEF AuthSessions
<1>2. forceClose(s) =
        IF s.stream = "connected" THEN sendPacket(alone, Logout)
        ELSE [session |-> [closeSession(alone) EXCEPT !.doomed = TRUE], packets |-> << >>]
  BY DEF forceClose
<1> HIDE DEF alone
<1>3. CASE s.stream # "connected"
  <2> DEFINE u == closeSession(alone)
  <2>1. /\ u \in AuthSessions
        /\ \/ u = alone /\ s.stream \notin {"connecting", "connected"}
           \/ u = [alone EXCEPT !.stream = "closing", !.remote = FALSE]
    BY <1>1, CloseSession
  <2>2. forceClose(s).session = [u EXCEPT !.doomed = TRUE]
    BY <1>2, <1>3
  <2> HIDE DEF u
  <2>3. [u EXCEPT !.doomed = TRUE] \in AuthSessions
    BY <2>1 DEF AuthSessions
  <2>4. /\ u.game = Null /\ u.pending = << >> /\ u.sync = s.sync
        /\ u.pendingLogin = s.pendingLogin
        /\ \/ u.stream = "closing"
           \/ u.stream = s.stream /\ s.stream \notin {"connecting", "connected"}
    BY <1>1, <2>1 DEF AuthSessions
  <2>5. LET t == [u EXCEPT !.doomed = TRUE]
        IN  t.game = u.game /\ t.pending = u.pending /\ t.sync = u.sync
            /\ t.pendingLogin = u.pendingLogin /\ t.stream = u.stream /\ t.doomed
    BY <2>1 DEF AuthSessions
  <2> QED  BY <1>3, <2>2, <2>3, <2>4, <2>5
<1>4. CASE s.stream = "connected"
  <2> DEFINE t == sendPacket(alone, Logout).session
  <2>1. /\ t \in AuthSessions
        /\ s.sync => t = [alone EXCEPT !.stream = "closing", !.remote = FALSE]
        /\ ~s.sync => t = [alone EXCEPT !.pending = <<Logout>>]
    BY <1>1, <1>4, SendLogout
  <2>2. forceClose(s).session = t
    BY <1>2, <1>4
  <2> HIDE DEF t
  <2>3. /\ t.game = alone.game /\ t.sync = alone.sync /\ t.doomed = alone.doomed
        /\ t.pendingLogin = alone.pendingLogin
        /\ s.sync => t.stream = "closing" /\ ~t.remote /\ t.pending = alone.pending
        /\ ~s.sync => t.stream = alone.stream /\ t.pending = <<Logout>>
    BY <1>1, <2>1 DEF AuthSessions
  <2> QED  BY <1>1, <1>4, <2>1, <2>2, <2>3
<1> QED  BY <1>3, <1>4

-----------------------------------------------------------------------------
(* Type correctness                                                         *)

\* What Apply leaves behind, object by object.
LEMMA Applied ==
  ASSUME TypeOK, NEW a \in Slots, NEW result, result.session \in AuthSessions,
         Apply(a, result)
  PROVE  /\ as'[a] = result.session
         /\ \A b \in Slots \ {a} : as'[b] = as[b]
         /\ as' \in [Slots -> AuthSessions]
         /\ \A b \in Slots : Len(as'[b].pending) <= MaxPending
<1>1. /\ as' = [as EXCEPT ![a] = result.session]
      /\ Len(result.session.pending) <= MaxPending
  BY DEF Apply
<1>2. as \in [Slots -> AuthSessions] /\ \A b \in Slots : Len(as[b].pending) <= MaxPending
  BY DEF TypeOK
<1>3. as'[a] = result.session /\ \A b \in Slots \ {a} : as'[b] = as[b]
  BY <1>1, <1>2
<1>4. as' \in [Slots -> AuthSessions]
  BY <1>1, <1>2
<1> QED  BY <1>1, <1>2, <1>3, <1>4

LEMMA Became ==
  ASSUME TypeOK, NEW a \in Slots, NEW t \in AuthSessions, Become(a, t)
  PROVE  /\ as'[a] = t
         /\ \A b \in Slots \ {a} : as'[b] = as[b]
         /\ as' \in [Slots -> AuthSessions]
         /\ \A b \in Slots : Len(as'[b].pending) <= MaxPending
<1> DEFINE r == [session |-> t, packets |-> << >>]
<1>1. r.session = t /\ Apply(a, r)
  BY DEF Become
<1> HIDE DEF r
<1> QED  BY <1>1, Applied

LEMMA BlankTypes ==
  /\ Absent \in AuthSessions /\ Absent.stream = "absent" /\ Absent.game = Null
  /\ Absent.pending = << >> /\ ~Absent.sync
  /\ NoGame \in GameSessions /\ NoGame.auth = Null
  /\ \A g \in Games :
       /\ NewAuthSession(g) \in AuthSessions
       /\ NewAuthSession(g).game = g /\ NewAuthSession(g).stream = "connecting"
       /\ NewAuthSession(g).pending = << >> /\ ~NewAuthSession(g).sync
       /\ ~NewAuthSession(g).doomed
<1>1. << >> \in Seq(Accounts)
  BY EmptySeq
<1>2. ASSUME NEW g \in Games \cup {Null} PROVE NewAuthSession(g) \in AuthSessions
  BY <1>1, <1>2, NothingDeferred DEF NewAuthSession, AuthSessions, Streams
<1>3. \A g \in Games \cup {Null} :
        /\ NewAuthSession(g).game = g /\ NewAuthSession(g).stream = "connecting"
        /\ NewAuthSession(g).pending = << >> /\ ~NewAuthSession(g).sync
        /\ ~NewAuthSession(g).doomed
  BY DEF NewAuthSession
<1>4. /\ Absent \in AuthSessions /\ Absent.stream = "absent" /\ Absent.game = Null
      /\ Absent.pending = << >> /\ ~Absent.sync
  <2> DEFINE n == NewAuthSession(Null)
  <2>1. n \in AuthSessions /\ n.game = Null /\ n.pending = << >> /\ ~n.sync
    BY <1>2, <1>3
  <2>2. Absent = [n EXCEPT !.stream = "absent"]
    BY DEF Absent
  <2> HIDE DEF n
  <2> QED  BY <2>1, <2>2 DEF AuthSessions, Streams
<1>5. NoGame \in GameSessions /\ NoGame.auth = Null
  BY DEF NoGame, GameSessions
<1> QED  BY <1>2, <1>3, <1>4, <1>5

\* The object after a successful and a refused login.
Answered(s, ok) == [s EXCEPT !.pendingLogin = FALSE, !.sentLogin = @ /\ ok]

LEMMA AnsweredType ==
  ASSUME NEW s \in AuthSessions, NEW ok \in BOOLEAN
  PROVE  LET t == Answered(s, ok)
         IN  /\ t \in AuthSessions
             /\ t.game = s.game /\ t.stream = s.stream /\ t.remote = s.remote
             /\ t.sync = s.sync /\ t.doomed = s.doomed /\ t.pending = s.pending
             /\ ~t.pendingLogin /\ (t.sentLogin <=> s.sentLogin /\ ok)
BY DEF Answered, AuthSessions

\* The object that onDisconnected leaves behind.
Retry(s) ==
  LET t == [s EXCEPT !.stream = "unconnected", !.remote = FALSE,
                     !.sync = FALSE, !.pendingLogin = FALSE]
  IN  IF s.remote /\ (t.game # Null \/ t.pending # << >>)
      THEN [t EXCEPT !.timer = TRUE]
      ELSE [t EXCEPT !.doomed = @ \/ t.game = Null]

LEMMA RetryType ==
  ASSUME NEW s \in AuthSessions
  PROVE  LET t == Retry(s)
         IN  /\ t \in AuthSessions
             /\ t.game = s.game /\ t.stream = "unconnected" /\ ~t.sync
             /\ t.pending = s.pending
             /\ \/ /\ s.remote /\ (s.game # Null \/ s.pending # << >>)
                   /\ t.timer /\ t.doomed = s.doomed
                \/ /\ ~(s.remote /\ (s.game # Null \/ s.pending # << >>))
                   /\ t.doomed = (s.doomed \/ s.game = Null)
<1> DEFINE u == [s EXCEPT !.stream = "unconnected", !.remote = FALSE,
                          !.sync = FALSE, !.pendingLogin = FALSE]
<1>1. /\ u \in AuthSessions /\ u.stream = "unconnected" /\ ~u.sync
      /\ u.game = s.game /\ u.pending = s.pending /\ u.doomed = s.doomed
  BY DEF AuthSessions, Streams
<1>2. Retry(s) = IF s.remote /\ (u.game # Null \/ u.pending # << >>)
                 THEN [u EXCEPT !.timer = TRUE]
                 ELSE [u EXCEPT !.doomed = @ \/ u.game = Null]
  BY DEF Retry
<1> HIDE DEF u
<1>3. CASE s.remote /\ (u.game # Null \/ u.pending # << >>)
  <2>1. Retry(s) = [u EXCEPT !.timer = TRUE]
    BY <1>2, <1>3
  <2>2. LET t == [u EXCEPT !.timer = TRUE]
        IN  t \in AuthSessions /\ t.game = u.game /\ t.stream = u.stream /\ t.timer
            /\ t.sync = u.sync /\ t.pending = u.pending /\ t.doomed = u.doomed
    BY <1>1 DEF AuthSessions
  <2> QED  BY <1>1, <1>3, <2>1, <2>2
<1>4. CASE ~(s.remote /\ (u.game # Null \/ u.pending # << >>))
  <2>1. Retry(s) = [u EXCEPT !.doomed = @ \/ u.game = Null]
    BY <1>2, <1>4
  <2>2. LET t == [u EXCEPT !.doomed = @ \/ u.game = Null]
        IN  t \in AuthSessions /\ t.game = u.game /\ t.stream = u.stream
            /\ t.sync = u.sync /\ t.pending = u.pending
            /\ t.doomed = (u.doomed \/ u.game = Null)
    BY <1>1 DEF AuthSessions
  <2> QED  BY <1>1, <1>4, <2>1, <2>2
<1> QED  BY <1>3, <1>4

-----------------------------------------------------------------------------
(* One AuthSession at a time                                                *)

\* What the invariants say of one object: NothingOvertaken, Progressing and
\* LogoutOnItsWay.
Good(s) ==
  /\ s.sync => /\ ~s.pendingLogin
               /\ s.stream = "connected" => s.pending = << >>
               /\ s.stream \in {"connected", "closing"}
  /\ s.stream = "connected" => s.sync \/ s.pendingLogin
  /\ s.stream = "unconnected" => s.timer \/ s.doomed
  /\ s.stream = "closing" /\ ~s.remote => s.game = Null
  /\ HasLogout(s.pending) => s.game = Null
  /\ s.stream # "absent" /\ s.game = Null /\ ~s.doomed =>
       \/ s.stream = "closing" /\ ~s.remote
       \/ /\ HasLogout(s.pending)
          /\ \/ s.stream = "unconnected" /\ s.timer
             \/ s.stream = "connecting"
             \/ s.stream = "connected" /\ s.pendingLogin
             \/ s.stream = "closing" /\ s.remote

LEMMA GoodSessions ==
  (\A a \in Slots : Good(as[a])) <=> NothingOvertaken /\ Progressing /\ LogoutOnItsWay
BY DEF Good, HasLogout, NothingOvertaken, Progressing, LogoutOnItsWay, LogoutWaits, Exists

LEMMA LogoutIn == ~HasLogout(<< >>) /\ HasLogout(<<Logout>>)
<1>1. Logout.kind = "LOGOUT"
  BY DEF Logout, Packet
<1>2. ~HasLogout(<< >>)
  BY DEF HasLogout
<1> QED  BY <1>1, <1>2, OnePacket

\* The link to the game server is as good as before.
KeepsLink(s, t) ==
  t.game = s.game /\ (s.game # Null => t.doomed = s.doomed /\ (s.stream # "absent" => t.stream # "absent"))

\* Only the object of slot a has changed, and it has its type.
Only(a) ==
  /\ as' \in [Slots -> AuthSessions]
  /\ \A b \in Slots \ {a} : as'[b] = as[b]
  /\ \A b \in Slots : Len(as'[b].pending) <= MaxPending

LEMMA SessionType == ASSUME TypeOK, NEW a \in Slots PROVE as[a] \in AuthSessions
BY DEF TypeOK

LEMMA ConnectedStep ==
  ASSUME TypeOK, NEW a \in Slots, Good(as[a]), onConnected(a)
  PROVE  Only(a) /\ KeepsLink(as[a], as'[a]) /\ Good(as'[a])
<1> DEFINE s == as[a]
           u == [s EXCEPT !.stream = "connected"]
           t == sendLogin(a, u).session
<1>1. s \in AuthSessions /\ s.stream = "connecting" /\ Apply(a, sendLogin(a, u))
  BY SessionType DEF onConnected
<1>2. /\ u \in AuthSessions /\ u.stream = "connected" /\ u.game = s.game
      /\ u.sync = s.sync /\ u.pending = s.pending /\ u.doomed = s.doomed
      /\ u.timer = s.timer /\ u.remote = s.remote
  BY <1>1 DEF AuthSessions, Streams
<1>3. (t = u /\ u.pendingLogin) \/ t = [u EXCEPT !.pendingLogin = TRUE, !.sentLogin = TRUE]
  BY <1>2, SendLogin, ZenonT(40)
<1>4. /\ t \in AuthSessions /\ t.stream = "connected" /\ t.game = s.game
      /\ t.sync = s.sync /\ t.pending = s.pending /\ t.doomed = s.doomed
      /\ t.pendingLogin
  <2> HIDE DEF t, u, s
  <2> QED  BY <1>2, <1>3 DEF AuthSessions
<1>5. Only(a) /\ as'[a] = t
  BY <1>1, <1>4, Applied DEF Only
<1> HIDE DEF t, u
<1> QED  BY <1>1, <1>4, <1>5 DEF Good, KeepsLink

LEMMA ConnectionLostStep ==
  ASSUME TypeOK, NEW a \in Slots, Good(as[a]), AuthConnectionLost(a)
  PROVE  Only(a) /\ KeepsLink(as[a], as'[a]) /\ Good(as'[a])
<1> DEFINE s == as[a]
           t == [s EXCEPT !.stream = "closing", !.remote = TRUE]
<1>1. s \in AuthSessions /\ s.stream \in {"connecting", "connected"} /\ Become(a, t)
  BY SessionType DEF AuthConnectionLost
<1>2. /\ t \in AuthSessions /\ t.stream = "closing" /\ t.remote /\ t.game = s.game
      /\ t.sync = s.sync /\ t.pending = s.pending /\ t.doomed = s.doomed
      /\ t.pendingLogin = s.pendingLogin
  BY <1>1 DEF AuthSessions, Streams
<1> HIDE DEF t
<1>3. Only(a) /\ as'[a] = t
  BY <1>1, <1>2, Became DEF Only
<1> QED  BY <1>1, <1>2, <1>3 DEF Good, KeepsLink

LEMMA DisconnectedStep ==
  ASSUME TypeOK, NEW a \in Slots, Good(as[a]), onDisconnected(a)
  PROVE  Only(a) /\ as'[a].game = as[a].game /\ Good(as'[a])
         /\ KeepsLink(as[a], as'[a])
<1> DEFINE s == as[a]
           t == Retry(s)
<1>1. s \in AuthSessions /\ s.stream = "closing" /\ Become(a, t)
  BY SessionType DEF onDisconnected, Retry
<1>2. /\ t \in AuthSessions
      /\ t.game = s.game /\ t.stream = "unconnected" /\ ~t.sync
      /\ t.pending = s.pending
      /\ \/ /\ s.remote /\ (s.game # Null \/ s.pending # << >>)
            /\ t.timer /\ t.doomed = s.doomed
         \/ /\ ~(s.remote /\ (s.game # Null \/ s.pending # << >>))
            /\ t.doomed = (s.doomed \/ s.game = Null)
  BY <1>1, RetryType
<1> HIDE DEF t
<1>3. Only(a) /\ as'[a] = t
  BY <1>1, <1>2, Became DEF Only
<1>4. s.doomed \in BOOLEAN /\ s.remote \in BOOLEAN
  BY <1>1 DEF AuthSessions
<1> QED  BY <1>1, <1>2, <1>3, <1>4, LogoutIn DEF Good, KeepsLink

LEMMA TimerStep ==
  ASSUME TypeOK, NEW a \in Slots, Good(as[a]), onTimerReconnect(a)
  PROVE  Only(a) /\ KeepsLink(as[a], as'[a]) /\ Good(as'[a])
<1> DEFINE s == as[a]
           t == [s EXCEPT !.timer = FALSE,
                          !.stream = IF @ = "unconnected" THEN "connecting" ELSE @]
<1>1. s \in AuthSessions /\ Become(a, t)
  BY SessionType DEF onTimerReconnect
<1>2. /\ t \in AuthSessions /\ t.game = s.game /\ t.remote = s.remote
      /\ t.sync = s.sync /\ t.pending = s.pending /\ t.doomed = s.doomed
      /\ t.pendingLogin = s.pendingLogin
      /\ t.stream = IF s.stream = "unconnected" THEN "connecting" ELSE s.stream
  BY <1>1 DEF AuthSessions, Streams
<1> HIDE DEF t
<1>3. Only(a) /\ as'[a] = t
  BY <1>1, <1>2, Became DEF Only
<1> QED  BY <1>1, <1>2, <1>3 DEF Good, KeepsLink

LEMMA DeleteStep ==
  ASSUME Assumptions, TypeOK, Linked, NEW a \in Slots, DeleteAuthSession(a)
  PROVE  Only(a) /\ KeepsLink(as[a], as'[a]) /\ Good(as'[a])
<1>1. as[a].doomed /\ Become(a, Absent)
  BY DEF DeleteAuthSession
<1>2. Only(a) /\ as'[a] = Absent
  BY <1>1, BlankTypes, Became DEF Only
<1>3. as[a].game = Null
  <2>1. as[a] \in AuthSessions
    BY SessionType
  <2>2. as[a].game # Null => as[a].game \in Games /\ game[as[a].game].auth = a
    BY <2>1 DEF AuthSessions, Linked
  <2>3. a # Null
    BY DEF Assumptions
  <2> QED  BY <1>1, <2>2, <2>3 DEF Linked
<1> QED  BY <1>2, <1>3, BlankTypes, LogoutIn DEF Good, KeepsLink

LEMMA ClientResultStep ==
  ASSUME TypeOK, NEW a \in Slots, Good(as[a]),
         NEW account \in Accounts, NEW ok, onClientLoginResult(a, account, ok)
  PROVE  Only(a) /\ KeepsLink(as[a], as'[a]) /\ Good(as'[a])
<1> DEFINE s == as[a]
           u == [s EXCEPT !.list = Append(@, account)]
           t == IF ok THEN u ELSE s
<1>1. s \in AuthSessions /\ Become(a, t)
  BY SessionType DEF onClientLoginResult
<1>2. Append(s.list, account) \in Seq(Accounts)
  BY <1>1, AppendProperties DEF AuthSessions
<1>3. /\ u \in AuthSessions /\ u.game = s.game /\ u.remote = s.remote
      /\ u.sync = s.sync /\ u.pending = s.pending /\ u.doomed = s.doomed
      /\ u.pendingLogin = s.pendingLogin /\ u.stream = s.stream /\ u.timer = s.timer
  BY <1>1, <1>2 DEF AuthSessions
<1> HIDE DEF u
<1>4. /\ t \in AuthSessions /\ t.game = s.game /\ t.remote = s.remote
      /\ t.sync = s.sync /\ t.pending = s.pending /\ t.doomed = s.doomed
      /\ t.pendingLogin = s.pendingLogin /\ t.stream = s.stream /\ t.timer = s.timer
  BY <1>1, <1>3
<1> HIDE DEF t
<1>5. Only(a) /\ as'[a] = t
  BY <1>1, <1>4, Became DEF Only
<1> QED  BY <1>4, <1>5 DEF Good, KeepsLink

LEMMA SameStep ==
  ASSUME TypeOK, NEW a \in Slots, Good(as[a]), Become(a, as[a])
  PROVE  Only(a) /\ KeepsLink(as[a], as'[a]) /\ Good(as'[a])
<1>1. as[a] \in AuthSessions
  BY SessionType
<1>2. Only(a) /\ as'[a] = as[a]
  BY <1>1, Became DEF Only
<1> QED  BY <1>2 DEF KeepsLink

\* The auth server accepts the login: everything deferred is flushed.
LEMMA AcceptedStep ==
  ASSUME Assumptions, TypeOK, NEW a \in Slots, Good(as[a]), CanRead(as[a]), as[a].pendingLogin,
         Apply(a, sendAccountList(Answered(as[a], TRUE)))
  PROVE  Only(a) /\ KeepsLink(as[a], as'[a]) /\ Good(as'[a])
<1> DEFINE s == as[a]
           u == Answered(s, TRUE)
           v == [u EXCEPT !.sync = TRUE, !.pending = << >>]
           t == sendAccountList(u).session
<1>1. s \in AuthSessions
  BY SessionType
<1>2. /\ u \in AuthSessions /\ u.game = s.game /\ u.stream = s.stream
      /\ u.remote = s.remote /\ u.doomed = s.doomed /\ u.pending = s.pending
      /\ ~u.pendingLogin
  BY <1>1, AnsweredType
<1>3. v \in AuthSessions /\ t = IF HasLogout(u.pending) THEN closeSession(v) ELSE v
  BY <1>2, SendAccountList
<1>4. /\ v.game = s.game /\ v.stream = s.stream /\ v.remote = s.remote
      /\ v.doomed = s.doomed /\ v.pending = << >> /\ v.sync /\ ~v.pendingLogin
  <2> HIDE DEF u
  <2> QED  BY <1>2 DEF AuthSessions
<1> HIDE DEF v, u
<1>5. CASE HasLogout(s.pending)
  <2> DEFINE w == closeSession(v)
  <2>1. /\ w \in AuthSessions
        /\ \/ w = v /\ v.stream \notin {"connecting", "connected"}
           \/ w = [v EXCEPT !.stream = "closing", !.remote = FALSE]
    BY <1>3, CloseSession
  <2>2. t = w
    BY <1>2, <1>3, <1>5
  <2> HIDE DEF w, t
  <2>3. /\ w.game = v.game /\ w.doomed = v.doomed /\ w.pending = v.pending
        /\ w.sync = v.sync /\ w.pendingLogin = v.pendingLogin
        /\ w.stream = "closing" /\ ~w.remote
    BY <1>1, <1>3, <1>4, <2>1 DEF AuthSessions, CanRead
  <2>4. Only(a) /\ as'[a] = w
    BY <2>1, <2>2, Applied DEF Only, t, u
  <2> QED  BY <1>4, <1>5, <2>3, <2>4, LogoutIn DEF Good, KeepsLink
<1>6. CASE ~HasLogout(s.pending)
  <2>1. t = v
    BY <1>2, <1>3, <1>6
  <2>2. Only(a) /\ as'[a] = v
    BY <1>3, <2>1, Applied DEF Only, u
  <2>3. s.stream = "connected" \/ (s.stream = "closing" /\ ~s.remote)
    BY DEF CanRead
  <2> QED  BY <1>4, <1>6, <2>2, <2>3, LogoutIn DEF Good, KeepsLink
<1> QED  BY <1>5, <1>6

\* The auth server refuses it: an AuthSession that waited for this answer is not
\* synchronized, and ends.
LEMMA RefusedStep ==
  ASSUME TypeOK, NEW a \in Slots, Good(as[a]), CanRead(as[a]), as[a].pendingLogin,
         Apply(a, disconnect(Answered(as[a], FALSE)))
  PROVE  Only(a) /\ as'[a].game = Null /\ Good(as'[a])
<1> DEFINE s == as[a]
           u == Answered(s, FALSE)
           t == disconnect(u).session
<1>1. s \in AuthSessions
  BY SessionType
<1>2. /\ u \in AuthSessions /\ u.stream = s.stream /\ u.sync = s.sync
      /\ ~u.pendingLogin /\ ~u.sentLogin
  BY <1>1, AnsweredType
<1> HIDE DEF u
<1>3. /\ t \in AuthSessions /\ t.game = Null /\ t.sync = s.sync /\ ~t.pendingLogin
      /\ t.doomed /\ t.pending = << >>
      /\ \/ t.stream = "closing"
         \/ t.stream = s.stream /\ s.stream \notin {"connecting", "connected"}
  BY <1>2, Disconnect
<1> HIDE DEF t
<1>4. Only(a) /\ as'[a] = t
  BY <1>3, Applied DEF Only, t, u
<1>5. ~s.sync
  BY DEF Good
<1> QED  BY <1>3, <1>4, <1>5, LogoutIn DEF Good

\* A packet of the game server, deferred or sent.
LEMMA PacketStep ==
  ASSUME TypeOK, NEW a \in Slots, Good(as[a]), as[a].game # Null,
         NEW p \in Deferred, p.kind # "LOGOUT", Apply(a, sendPacket(as[a], p))
  PROVE  Only(a) /\ KeepsLink(as[a], as'[a]) /\ Good(as'[a])
<1> DEFINE s == as[a]
           t == sendPacket(s, p).session
<1>1. s \in AuthSessions /\ s.pending \in Seq(Deferred)
  BY SessionType DEF AuthSessions
<1>2. /\ t \in AuthSessions
      /\ s.stream = "connected" /\ s.sync => t = s
      /\ ~(s.stream = "connected" /\ s.sync) => t = [s EXCEPT !.pending = Append(@, p)]
  BY <1>1, SendPacket
<1> HIDE DEF t
<1>3. Only(a) /\ as'[a] = t
  BY <1>2, Applied DEF Only, t
<1>4. CASE s.stream = "connected" /\ s.sync
  BY <1>2, <1>3, <1>4 DEF KeepsLink
<1>5. CASE ~(s.stream = "connected" /\ s.sync)
  <2>1. /\ t.game = s.game /\ t.stream = s.stream /\ t.remote = s.remote
        /\ t.sync = s.sync /\ t.doomed = s.doomed /\ t.timer = s.timer
        /\ t.pendingLogin = s.pendingLogin /\ t.pending = Append(s.pending, p)
    BY <1>1, <1>2, <1>5 DEF AuthSessions
  <2>2. HasLogout(t.pending) <=> HasLogout(s.pending)
    BY <1>1, <2>1, AppendPending
  <2> QED  BY <1>3, <1>5, <2>1, <2>2 DEF Good, KeepsLink
<1> QED  BY <1>4, <1>5

LEMMA LogoutStep ==
  ASSUME TypeOK, NEW a \in Slots, Good(as[a]), NEW g \in Games, game[g].auth = a,
         NEW name, onClientLogout(g, name)
  PROVE  Only(a) /\ KeepsLink(as[a], as'[a]) /\ Good(as'[a])
<1> DEFINE s == as[a]
           u == [s EXCEPT !.list = Without(@, name)]
           p == Packet("CLIENT_LOGOUT", name)
           r == IF u.stream = "connected" /\ u.sync THEN SentToNetwork(u, <<p>>)
                ELSE [session |-> u, packets |-> << >>]
<1>1. s \in AuthSessions /\ Apply(a, r)
  BY SessionType DEF onClientLogout
<1>2. Without(s.list, name) \in Seq(Accounts)
  BY <1>1, WithoutType DEF AuthSessions
<1>3. /\ u \in AuthSessions /\ u.game = s.game /\ u.remote = s.remote
      /\ u.sync = s.sync /\ u.pending = s.pending /\ u.doomed = s.doomed
      /\ u.pendingLogin = s.pendingLogin /\ u.stream = s.stream /\ u.timer = s.timer
  BY <1>1, <1>2 DEF AuthSessions
<1> HIDE DEF u
<1>4. p.kind # "LOGOUT"
  BY DEF Packet
<1> HIDE DEF p
<1>5. r.session = u
  BY <1>4, SentSession, OnePacket
<1> HIDE DEF r
<1>6. Only(a) /\ as'[a] = u
  BY <1>1, <1>3, <1>5, Applied DEF Only
<1> QED  BY <1>3, <1>6 DEF Good, KeepsLink

\* The game server hangs up.
LEMMA HangUpStep ==
  ASSUME TypeOK, NEW a \in Slots, Good(as[a]), as[a].game # Null,
         Apply(a, disconnect(as[a]))
  PROVE  Only(a) /\ as'[a].game = Null /\ Good(as'[a])
<1> DEFINE s == as[a]
           t == disconnect(s).session
<1>1. s \in AuthSessions
  BY SessionType
<1>2. /\ t \in AuthSessions
      /\ t.game = Null /\ t.sync = s.sync /\ t.pendingLogin = s.pendingLogin
      /\ \/ /\ t.doomed /\ t.pending = << >>
            /\ \/ t.stream = "closing"
               \/ t.stream = s.stream /\ s.stream \notin {"connecting", "connected"}
         \/ /\ t.doomed = s.doomed /\ t.timer = s.timer
            /\ \/ /\ s.stream = "connected" /\ s.sync
                  /\ t.stream = "closing" /\ ~t.remote /\ t.pending = << >>
               \/ /\ ~(s.stream = "connected" /\ s.sync)
                  /\ t.stream = s.stream /\ t.remote = s.remote
                  /\ t.pending = <<Logout>>
  BY <1>1, Disconnect
<1> HIDE DEF t
<1>3. Only(a) /\ as'[a] = t
  BY <1>2, Applied DEF Only, t
<1>4. s.stream \in Streams
  BY <1>1 DEF AuthSessions
<1> QED  BY <1>2, <1>3, <1>4, LogoutIn DEF Good, Streams

\* This side closes the connection of the game server.
LEMMA ForceCloseStep ==
  ASSUME TypeOK, NEW a \in Slots, Good(as[a]), as[a].game # Null,
         Apply(a, forceClose(as[a]))
  PROVE  Only(a) /\ as'[a].game = Null /\ Good(as'[a])
<1> DEFINE s == as[a]
           t == forceClose(s).session
<1>1. s \in AuthSessions
  BY SessionType
<1>2. /\ t \in AuthSessions
      /\ t.game = Null /\ t.sync = s.sync /\ t.pendingLogin = s.pendingLogin
      /\ \/ /\ t.doomed /\ t.pending = << >> /\ s.stream # "connected"
            /\ \/ t.stream = "closing"
               \/ t.stream = s.stream /\ s.stream \notin {"connecting", "connected"}
         \/ /\ s.stream = "connected" /\ s.sync /\ t.doomed = s.doomed
            /\ t.stream = "closing" /\ ~t.remote /\ t.pending = << >>
         \/ /\ s.stream = "connected" /\ ~s.sync /\ t.doomed = s.doomed
            /\ t.stream = "connected" /\ t.pending = <<Logout>>
  BY <1>1, ForceClose
<1> HIDE DEF t
<1>3. Only(a) /\ as'[a] = t
  BY <1>2, Applied DEF Only, t
<1> QED  BY <1>2, <1>3, LogoutIn DEF Good

-----------------------------------------------------------------------------
(* The link between the two kinds of session                                *)

\* A step of one AuthSession that keeps its link.
LEMMA LinkKept ==
  ASSUME Assumptions, TypeOK, Linked, NEW a \in Slots, Only(a), KeepsLink(as[a], as'[a]),
         UNCHANGED game
  PROVE  Linked'
<1>1. ASSUME NEW b \in Slots
      PROVE  /\ as'[b].game = as[b].game
             /\ as[b].game # Null =>
                  /\ as'[b].doomed = as[b].doomed
                  /\ Exists(b) => as'[b].stream # "absent"
  BY DEF Only, KeepsLink, Exists
<1>2. ASSUME NEW g \in Games, game[g].auth # Null
      PROVE  /\ as'[game[g].auth].stream # "absent"
             /\ ~as'[game[g].auth].doomed
             /\ as'[game[g].auth].game = g
  <2>1. game[g].auth \in Slots /\ g # Null
    BY <1>2 DEF Assumptions, TypeOK, GameSessions
  <2> QED  BY <1>1, <1>2, <2>1 DEF Linked
<1> QED  BY <1>1, <1>2, ZenonT(40) DEF Linked, Exists

\* A step in which an AuthSession and its game server, if it has one, forget
\* each other.
LEMMA LinkCut ==
  ASSUME Assumptions, TypeOK, Linked, NEW a \in Slots, Only(a), as'[a].game = Null,
         game' \in [Games -> GameSessions],
         \A h \in Games : game'[h] = game[h] \/ game'[h].auth = Null,
         as[a].game # Null => game'[as[a].game].auth = Null,
         \A h \in Games : game'[h] # game[h] => h = as[a].game
  PROVE  Linked'
<1>1. ASSUME NEW g \in Games, game'[g].auth # Null
      PROVE  /\ as'[game'[g].auth].stream # "absent"
             /\ ~as'[game'[g].auth].doomed
             /\ as'[game'[g].auth].game = g
  <2>1. game'[g] = game[g]
    BY <1>1
  <2>2. game[g].auth \in Slots /\ game[g].auth # Null
    BY <1>1, <2>1 DEF TypeOK, GameSessions
  <2>3. game[g].auth # a
    <3>1. ASSUME game[g].auth = a PROVE FALSE
      <4>1. as[a].game = g /\ g # Null
        BY <2>2, <3>1 DEF Assumptions, Linked
      <4> QED  BY <1>1, <4>1
    <3> QED  BY <3>1
  <2>4. as'[game[g].auth] = as[game[g].auth]
    BY <2>2, <2>3 DEF Only
  <2>5. /\ as[game[g].auth].stream # "absent" /\ ~as[game[g].auth].doomed
        /\ as[game[g].auth].game = g
    BY <2>2 DEF Linked, Exists
  <2> QED  BY <2>1, <2>4, <2>5
<1>2. ASSUME NEW b \in Slots, as'[b].game # Null
      PROVE  game'[as'[b].game].auth = b /\ game'[as'[b].game].phase # "none"
  <2>1. b # a /\ as'[b] = as[b]
    BY <1>2 DEF Only
  <2>2. as[b].game \in Games /\ game[as[b].game].auth = b
        /\ game[as[b].game].phase # "none"
    <3>1. as[b].game # Null
      BY <1>2, <2>1
    <3>2. as[b].game \in Games
      BY <3>1, SessionType DEF AuthSessions
    <3> QED  BY <3>1, <3>2 DEF Linked
  <2>3. as[b].game # as[a].game
    BY <2>1, <2>2, <1>2 DEF Linked
  <2> QED  BY <2>1, <2>2, <2>3
<1> QED  BY <1>1, <1>2 DEF Linked, Exists

-----------------------------------------------------------------------------
(* The inductive invariant                                                  *)

Inv == TypeOK /\ Linked /\ (\A a \in Slots : Good(as[a]))

LEMMA GoodKept ==
  ASSUME \A b \in Slots : Good(as[b]), NEW a \in Slots, Only(a), Good(as'[a])
  PROVE  \A b \in Slots : Good(as'[b])
BY DEF Only

LEMMA InvInit ==
  ASSUME Assumptions
  PROVE  Init => Inv
<1> SUFFICES ASSUME Init PROVE Inv
  OBVIOUS
<1>1. /\ \A a \in Slots : as[a] = Absent
      /\ \A g \in Games : game[g] = NoGame
  BY DEF Init
<1>2. TypeOK
  <2>1. Len(Absent.pending) <= MaxPending
    BY BlankTypes DEF Assumptions
  <2> QED  BY <1>1, <2>1, BlankTypes DEF Init, TypeOK
<1>3. Linked
  BY <1>1, BlankTypes DEF Linked
<1>4. \A a \in Slots : Good(as[a])
  BY <1>1, BlankTypes, LogoutIn DEF Good
<1> QED  BY <1>2, <1>3, <1>4 DEF Inv

\* A step of an AuthSession that leaves the game servers alone.
LEMMA InvAlone ==
  ASSUME Assumptions, Inv, NEW a \in Slots, Only(a), KeepsLink(as[a], as'[a]), Good(as'[a]),
         UNCHANGED game
  PROVE  Inv'
<1>1. TypeOK'
  BY DEF Inv, TypeOK, Only
<1>2. Linked'
  BY LinkKept DEF Inv
<1>3. \A b \in Slots : Good(as'[b])
  BY GoodKept DEF Inv
<1> QED  BY <1>1, <1>2, <1>3 DEF Inv

LEMMA InvAuthSession ==
  ASSUME Assumptions, Inv, NEW a \in Slots, AuthSessionNext(a)
  PROVE  Inv'
<1>1. TypeOK /\ Linked /\ Good(as[a])
  BY DEF Inv
<1>2. CASE onConnected(a)
  BY <1>1, <1>2, ConnectedStep, InvAlone DEF onConnected
<1>3. CASE AuthConnectionLost(a)
  BY <1>1, <1>3, ConnectionLostStep, InvAlone DEF AuthConnectionLost
<1>4. CASE onDisconnected(a)
  BY <1>1, <1>4, DisconnectedStep, InvAlone DEF onDisconnected
<1>5. CASE onTimerReconnect(a)
  BY <1>1, <1>5, TimerStep, InvAlone DEF onTimerReconnect
<1>6. CASE DeleteAuthSession(a)
  BY <1>1, <1>6, DeleteStep, InvAlone DEF DeleteAuthSession
<1>7. ASSUME NEW account \in Accounts, NEW ok \in BOOLEAN, onClientLoginResult(a, account, ok)
      PROVE  Inv'
  BY <1>1, <1>7, ClientResultStep, InvAlone DEF onClientLoginResult
<1>8. ASSUME NEW name \in Names, ForwardToGame(a, name)
      PROVE  Inv'
  BY <1>1, <1>8, SameStep, InvAlone DEF ForwardToGame
<1>9. ASSUME NEW ok \in BOOLEAN, onLoginResult(a, ok)
      PROVE  Inv'
  <2> DEFINE g == as[a].game
             kept == g # Null /\ as[a].sync
             s == Answered(as[a], ok)
  <2>1. /\ CanRead(as[a]) /\ as[a].pendingLogin
        /\ \/ ok /\ Apply(a, sendAccountList(s)) /\ UNCHANGED game
           \/ /\ ~ok
              /\ Apply(a, IF kept THEN [session |-> s, packets |-> << >>] ELSE disconnect(s))
              /\ game' = [h \in Games |->
                            IF h = g /\ ~kept THEN [game[h] EXCEPT !.auth = Null] ELSE game[h]]
    BY <1>9 DEF onLoginResult, Answered
  <2>2. CASE ok
    <3>1. ok = TRUE
      BY <2>2
    <3> QED  BY <1>1, <2>1, <3>1, AcceptedStep, InvAlone
  <2>3. CASE ~ok
    <3>1. ok = FALSE /\ ~kept
      BY <1>1, <2>1, <2>3 DEF Good
    <3>2. Apply(a, disconnect(Answered(as[a], FALSE)))
      BY <2>1, <3>1
    <3>3. Only(a) /\ as'[a].game = Null /\ Good(as'[a])
      BY <1>1, <2>1, <3>2, RefusedStep
    <3>4. game' = [h \in Games |-> IF h = g THEN [game[h] EXCEPT !.auth = Null] ELSE game[h]]
      BY <2>1, <3>1
    <3>5. ASSUME NEW h \in Games
          PROVE  /\ game'[h] \in GameSessions
                 /\ h = g => game'[h].auth = Null
                 /\ h # g => game'[h] = game[h]
      <4>1. game[h] \in GameSessions
        BY <1>1 DEF TypeOK
      <4>2. [game[h] EXCEPT !.auth = Null] \in GameSessions
            /\ [game[h] EXCEPT !.auth = Null].auth = Null
        BY <4>1 DEF GameSessions
      <4> QED  BY <3>4, <4>1, <4>2
    <3>6. game' \in [Games -> GameSessions]
      BY <3>4, <3>5
    <3>7. g # Null => g \in Games
      BY <1>1, SessionType DEF AuthSessions
    <3>8. Linked'
      BY <1>1, <3>3, <3>5, <3>6, <3>7, LinkCut
    <3>9. TypeOK'
      BY <3>3, <3>6 DEF TypeOK, Only
    <3> QED  BY <3>3, <3>8, <3>9, GoodKept DEF Inv
  <2> QED  BY <2>2, <2>3
<1> QED  BY <1>2, <1>3, <1>4, <1>5, <1>6, <1>7, <1>8, <1>9 DEF AuthSessionNext

\* A game server that is about to lose its authSession.
LEMMA GameLost ==
  ASSUME Assumptions, Inv, NEW g \in Games, game[g].auth # Null, Only(game[g].auth),
         as'[game[g].auth].game = Null, Good(as'[game[g].auth]),
         game' = [game EXCEPT ![g] = NoGame]
  PROVE  Inv'
<1> DEFINE a == game[g].auth
<1>1. TypeOK /\ Linked
  BY DEF Inv
<1>2. a \in Slots /\ as[a].game = g
  BY <1>1 DEF TypeOK, GameSessions, Linked
<1>3. game' \in [Games -> GameSessions] /\ game'[g].auth = Null
      /\ \A h \in Games \ {g} : game'[h] = game[h]
  BY <1>1, BlankTypes DEF TypeOK
<1>4. TypeOK'
  BY <1>3 DEF TypeOK, Only
<1>5. Linked'
  <2>1. PICK b \in Slots : b = game[g].auth
    BY <1>2
  <2> QED  BY <1>1, <1>2, <1>3, <2>1, LinkCut
<1>6. \A b \in Slots : Good(as'[b])
  BY <1>2, GoodKept DEF Inv
<1> QED  BY <1>4, <1>5, <1>6 DEF Inv

LEMMA InvGameClosed ==
  ASSUME Assumptions, Inv, NEW g \in Games, GameClosed(g)
  PROVE  Inv'
<1> DEFINE a == game[g].auth
<1>1. TypeOK /\ Linked
  BY DEF Inv
<1>2. /\ game' = [game EXCEPT ![g] = NoGame]
      /\ \/ a = Null /\ UNCHANGED as
         \/ a # Null /\ Apply(a, disconnect(as[a]))
         \/ a # Null /\ Apply(a, forceClose(as[a]))
  BY DEF GameClosed
<1>3. CASE a # Null
  <2>1. PICK b \in Slots : b = game[g].auth
    BY <1>1, <1>3 DEF TypeOK, GameSessions
  <2>2. as[b].game # Null /\ Good(as[b])
    BY <1>1, <1>3, <2>1 DEF Assumptions, Linked, Inv
  <2>3. Only(b) /\ as'[b].game = Null /\ Good(as'[b])
    BY <1>1, <1>2, <1>3, <2>1, <2>2, HangUpStep, ForceCloseStep
  <2> QED  BY <1>2, <1>3, <2>1, <2>3, GameLost
<1>4. CASE a = Null
  <2>1. UNCHANGED as
    BY <1>2, <1>4
  <2>2. game' \in [Games -> GameSessions] /\ game'[g] = NoGame
        /\ \A h \in Games \ {g} : game'[h] = game[h]
    BY <1>1, <1>2, BlankTypes DEF TypeOK
  <2>3. TypeOK'
    BY <1>1, <2>1, <2>2 DEF TypeOK
  <2>4. ASSUME NEW h \in Games, game'[h].auth # Null
        PROVE  game'[h] = game[h]
    BY <2>2, <2>4, BlankTypes
  <2>5. ASSUME NEW b \in Slots, as[b].game # Null
        PROVE  game'[as[b].game] = game[as[b].game]
    <3>1. as[b].game \in Games /\ game[as[b].game].auth = b /\ b # Null
      BY <1>1, <2>5, SessionType DEF Assumptions, AuthSessions, Linked
    <3> QED  BY <1>4, <2>2, <3>1
  <2>6. Linked'
    BY <1>1, <2>1, <2>4, <2>5 DEF Linked, Exists
  <2> QED  BY <2>1, <2>3, <2>6 DEF Inv
<1> QED  BY <1>3, <1>4

LEMMA InvServerLogin ==
  ASSUME Assumptions, Inv, NEW g \in Games, NEW a \in Slots, onServerLogin(g, a)
  PROVE  Inv'
<1> DEFINE t == NewAuthSession(g)
<1>1. TypeOK /\ Linked
  BY DEF Inv
<1>2. /\ game[g].phase # "none" /\ game[g].auth = Null /\ ~Exists(a)
      /\ game' = [game EXCEPT ![g].auth = a] /\ Become(a, t)
  BY DEF onServerLogin, GameCanSend
<1>3. /\ t \in AuthSessions /\ t.game = g /\ t.stream = "connecting"
      /\ t.pending = << >> /\ ~t.sync /\ ~t.doomed
  BY BlankTypes
<1> HIDE DEF t
<1>4. Only(a) /\ as'[a] = t
  BY <1>1, <1>2, <1>3, Became DEF Only
<1>5. g # Null /\ a # Null
  BY DEF Assumptions
<1>6. /\ game' \in [Games -> GameSessions]
      /\ game'[g].auth = a /\ game'[g].phase # "none"
      /\ \A h \in Games \ {g} : game'[h] = game[h]
  <2>1. game[g] \in GameSessions /\ game \in [Games -> GameSessions]
    BY <1>1 DEF TypeOK
  <2>2. game'[g] = [game[g] EXCEPT !.auth = a]
    BY <1>2, <2>1
  <2>3. [game[g] EXCEPT !.auth = a] \in GameSessions
    BY <2>1 DEF GameSessions
  <2>4. game'[g].auth = a /\ game'[g].phase = game[g].phase
    BY <2>1, <2>2 DEF GameSessions
  <2> QED  BY <1>2, <2>1, <2>2, <2>3, <2>4
<1>7. TypeOK'
  BY <1>4, <1>6 DEF TypeOK, Only
<1>8. \A b \in Slots : Good(as'[b])
  BY <1>3, <1>4, <1>5, GoodKept, LogoutIn DEF Inv, Good
<1>9. Linked'
  <2>1. ASSUME NEW h \in Games, h # g, game[h].auth # Null
        PROVE  game[h].auth \in Slots \ {a}
    <3>1. game[h].auth \in Slots
      BY <1>1, <2>1 DEF TypeOK, GameSessions
    <3>2. Exists(game[h].auth)
      BY <1>1, <2>1 DEF Linked
    <3> QED  BY <1>2, <3>1, <3>2
  <2>2. ASSUME NEW h \in Games, game'[h].auth # Null
        PROVE  /\ as'[game'[h].auth].stream # "absent"
               /\ ~as'[game'[h].auth].doomed
               /\ as'[game'[h].auth].game = h
    <3>1. CASE h = g
      BY <1>3, <1>4, <1>6, <3>1
    <3>2. CASE h # g
      <4>1. game'[h] = game[h] /\ game[h].auth \in Slots \ {a}
        BY <1>6, <2>1, <2>2, <3>2
      <4>2. as'[game[h].auth] = as[game[h].auth]
        BY <1>4, <4>1 DEF Only
      <4>3. /\ as[game[h].auth].stream # "absent" /\ ~as[game[h].auth].doomed
            /\ as[game[h].auth].game = h
        BY <1>1, <2>2, <4>1 DEF Linked, Exists
      <4> QED  BY <4>1, <4>2, <4>3
    <3> QED  BY <3>1, <3>2
  <2>3. ASSUME NEW b \in Slots, as'[b].game # Null
        PROVE  game'[as'[b].game].auth = b /\ game'[as'[b].game].phase # "none"
    <3>1. CASE b = a
      BY <1>3, <1>4, <1>6, <3>1
    <3>2. CASE b # a
      <4>1. as'[b] = as[b] /\ as[b].game # Null
        BY <1>4, <2>3, <3>2 DEF Only
      <4>2. as[b].game \in Games /\ game[as[b].game].auth = b /\ b # Null
        BY <1>1, <4>1, SessionType DEF Assumptions, AuthSessions, Linked
      <4>3. as[b].game # g
        BY <1>2, <4>2
      <4>4. game[as[b].game].phase # "none"
        BY <1>1, <4>1 DEF Linked
      <4>5. game'[as[b].game] = game[as[b].game]
        BY <1>6, <4>2, <4>3
      <4> QED  BY <4>1, <4>2, <4>4, <4>5
    <3> QED  BY <3>1, <3>2
  <2> QED  BY <2>2, <2>3 DEF Linked, Exists
<1> QED  BY <1>7, <1>8, <1>9 DEF Inv

\* Steps of a GameServerSession that touch neither its link nor an AuthSession.
LEMMA InvGameAlone ==
  ASSUME Inv, NEW g \in Games, UNCHANGED as, game' \in [Games -> GameSessions],
         game'[g].auth = game[g].auth, game'[g].phase # "none",
         \A h \in Games \ {g} : game'[h] = game[h]
  PROVE  Inv'
<1>1. TypeOK'
  BY DEF Inv, TypeOK
<1>2. \A h \in Games : game'[h].auth = game[h].auth
      /\ (game[h].phase # "none" => game'[h].phase # "none")
  OBVIOUS
<1>3. \A b \in Slots : as[b].game # Null => as[b].game \in Games
  BY SessionType DEF Inv, AuthSessions
<1>4. Linked'
  BY <1>2, <1>3 DEF Inv, Linked, Exists
<1> QED  BY <1>1, <1>4 DEF Inv

LEMMA InvGameSession ==
  ASSUME Assumptions, Inv, NEW g \in Games, GameSessionNext(g)
  PROVE  Inv'
<1>1. TypeOK /\ Linked /\ game[g] \in GameSessions /\ game \in [Games -> GameSessions]
  BY DEF Inv, TypeOK
<1>2. CASE \E name \in Names :
             \/ onClientLogin(g, name)
             \/ onClientLogout(g, name)
             \/ \E kind \in Forwarded : ForwardToAuth(g, kind, name)
  <2>0. game[g].auth # Null
    BY <1>2 DEF onClientLogin, onClientLogout, ForwardToAuth
  <2>1. PICK a \in Slots : a = game[g].auth
    BY <1>1, <2>0 DEF GameSessions
  <2>2. Good(as[a]) /\ as[a].game # Null
    BY <1>1, <2>0, <2>1, ZenonT(40) DEF Assumptions, Inv, Linked
  <2>3. ASSUME NEW name \in Names, onClientLogin(g, name)
        PROVE  Inv'
    <3> DEFINE p == Packet("CLIENT_LOGIN", name)
    <3>1. p \in Deferred /\ p.kind # "LOGOUT"
      BY DeferredPackets
    <3>2. /\ UNCHANGED game
          /\ Apply(a, sendPacket(as[a], p)) \/ Become(a, as[a])
      BY <2>1, <2>3 DEF onClientLogin
    <3> HIDE DEF p
    <3> QED  BY <1>1, <2>2, <3>1, <3>2, PacketStep, SameStep, InvAlone
  <2>4. ASSUME NEW name \in Names, onClientLogout(g, name)
        PROVE  Inv'
    <3>1. UNCHANGED game
      BY <2>4 DEF onClientLogout
    <3>2. Only(a) /\ KeepsLink(as[a], as'[a]) /\ Good(as'[a])
      BY <1>1, <2>1, <2>2, <2>4, LogoutStep
    <3> QED  BY <3>1, <3>2, InvAlone
  <2>5. ASSUME NEW name \in Names, NEW kind \in Forwarded, ForwardToAuth(g, kind, name)
        PROVE  Inv'
    <3> DEFINE p == Packet(kind, name)
    <3>1. p \in Deferred /\ p.kind # "LOGOUT"
      BY DeferredPackets DEF Forwarded
    <3>2. UNCHANGED game /\ Apply(a, sendPacket(as[a], p))
      BY <2>1, <2>5 DEF ForwardToAuth
    <3> HIDE DEF p
    <3> QED  BY <1>1, <2>2, <3>1, <3>2, PacketStep, InvAlone
  <2> QED  BY <1>2, <2>3, <2>4, <2>5
<1>3. CASE AcceptGame(g)
  <2>1. UNCHANGED as /\ game' = [game EXCEPT ![g].phase = "connected"]
    BY <1>3 DEF AcceptGame
  <2>2. LET n == [game[g] EXCEPT !.phase = "connected"]
        IN  n \in GameSessions /\ n.auth = game[g].auth /\ n.phase # "none"
    BY <1>1 DEF GameSessions
  <2> QED  BY <1>1, <2>1, <2>2, InvGameAlone
<1>4. ASSUME NEW remote \in BOOLEAN, CloseGame(g, remote)
      PROVE  Inv'
  <2> DEFINE n == [game[g] EXCEPT !.phase = "closing", !.remote = remote]
  <2>1. UNCHANGED as /\ game' = [game EXCEPT ![g] = n]
    BY <1>4 DEF CloseGame
  <2>2. n \in GameSessions /\ n.auth = game[g].auth /\ n.phase # "none"
    BY <1>1 DEF GameSessions
  <2> HIDE DEF n
  <2> QED  BY <1>1, <2>1, <2>2, InvGameAlone
<1> QED  BY <1>2, <1>3, <1>4, InvGameClosed, InvServerLogin DEF GameSessionNext

-----------------------------------------------------------------------------
(* Theorems                                                                 *)

LEMMA Invariance ==
  ASSUME Assumptions
  PROVE  Spec => []Inv
<1>1. Inv /\ [Next]_vars => Inv'
  <2> SUFFICES ASSUME Inv, [Next]_vars PROVE Inv'
    OBVIOUS
  <2>1. CASE UNCHANGED vars
    BY <2>1 DEF vars, Inv, TypeOK, Linked, Exists
  <2>2. CASE Next
    BY <2>2, InvAuthSession, InvGameSession DEF Next
  <2> QED  BY <2>1, <2>2
<1> QED  BY InvInit, <1>1, PTL DEF Spec

\* Every GameServerSession and AuthSession has its type, whatever the two peers
\* send and whenever a connection is lost, and pendingMessages keeps to packets
\* that may be deferred.
THEOREM TypeCorrect ==
  ASSUME Assumptions
  PROVE  Spec => []TypeOK
<1>1. Inv => TypeOK /\ Linked
  BY DEF Inv
<1> QED  BY <1>1, Invariance, PTL

\* gameServerSession and authSession are inverse to each other and neither dangles,
\* for any number of game servers and AuthSessions (GsReconnect: onServerLogin,
\* GameClosed, onLoginResult, DeleteAuthSession).
THEOREM LinkedCorrect ==
  ASSUME Assumptions
  PROVE  Spec => []Linked
<1>1. Inv => TypeOK /\ Linked
  BY DEF Inv
<1> QED  BY <1>1, Invariance, PTL

\* While an AuthSession is synchronized nothing waits in its pendingMessages and
\* no login is pending: sendPacket never overtakes a deferred packet.
THEOREM NothingOvertakenCorrect ==
  ASSUME Assumptions
  PROVE  Spec => []NothingOvertaken
<1>1. Inv => NothingOvertaken
  BY GoodSessions DEF Inv
<1> QED  BY <1>1, Invariance, PTL

\* An AuthSession whose game server is gone is closing or has its LOGOUT in
\* pendingMessages with a connection attempt or a login under way.
THEOREM LogoutOnItsWayCorrect ==
  ASSUME Assumptions
  PROVE  Spec => []LogoutOnItsWay
<1>1. Inv => LogoutOnItsWay
  BY GoodSessions DEF Inv
<1> QED  BY <1>1, Invariance, PTL

\* A connected AuthSession waits for a login result or is synchronized, and one
\* without a connection has its timer running or is about to be deleted.
THEOREM ProgressingCorrect ==
  ASSUME Assumptions
  PROVE  Spec => []Progressing
<1>1. Inv => Progressing
  BY GoodSessions DEF Inv
<1> QED  BY <1>1, Invariance, PTL

=============================================================================
