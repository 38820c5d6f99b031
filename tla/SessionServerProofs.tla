------------------------- MODULE SessionServerProofs -------------------------
(***************************************************************************)
(* Proofs about SessionServer, for any number of sessions and addresses:   *)
(* the counters of BanManager agree with the connections there are, and    *)
(* the idle check ends the connections that were idle for a period, all of *)
(* them, and no other ones.                                                *)
(***************************************************************************)
EXTENDS SessionServer, FiniteSetTheorems, TLAPS

(* The inductive invariant                                                  *)

SessionStates ==
  [st : {"none", "connected", "shutdown", "closing", "gone"}, ip : Ips, flag : BOOLEAN,
   age : Nat, writes : BOOLEAN]

BanStates ==
  [limits : Limits, banned : SUBSET (Ips \X {"any", "port"}), clients : [Ips -> Nat],
   today : [Ips -> Nat], off : BOOLEAN]

TypeOK ==
  /\ socket \in {"none", "listening", "closing", "unconnected"}
  /\ openServer \in BOOLEAN
  /\ timer \in 0 .. Period \cup {-1}
  /\ sessions \in [Sessions -> SessionStates]
  /\ config \in Limits
  /\ ban \in BanStates

\* Sessions are connected only while the server listens and checks for idle ones.
Listening ==
  /\ socket = "listening" => timer # -1
  /\ socket # "listening" => \A s \in Sessions : sessions[s].st # "connected"

\* Without limits nothing is counted, and ban remembers that it was so.
Uncounting == socket # "none" /\ ban.limits = <<0, 0>> => ban.off

\* How long a session can and must have been idle at this moment of the period.
Ages ==
  \A s \in Sessions : sessions[s].st = "connected" =>
    IF sessions[s].flag THEN sessions[s].age <= Period - timer
    ELSE Period - timer <= sessions[s].age /\ sessions[s].age <= 2 * Period - timer

Inv == TypeOK /\ Listening /\ Uncounting /\ Counted /\ Ages

-----------------------------------------------------------------------------
(* Sessions that no step makes or removes                                   *)

There(m) == m.st \notin {"none", "gone"}

\* A session goes on: it stays where it is counted, and if it stays connected, it
\* was idle as long as before or has just transferred something.
GoesOn(m, n) ==
  /\ n.ip = m.ip /\ (There(n) <=> There(m))
  /\ n.st = "connected" =>
       /\ m.st = "connected"
       /\ (n.flag /\ n.age = 0) \/ (n.flag = m.flag /\ n.age = m.age)

\* ss may follow sessions.
AllGoOn(ss) ==
  /\ ss \in [Sessions -> SessionStates]
  /\ \A s \in Sessions : GoesOn(sessions[s], ss[s])

LEMMA SameGoesOn == \A m : GoesOn(m, m)
BY DEF GoesOn

LEMMA OneGoesOn ==
  ASSUME TypeOK, NEW s \in Sessions, NEW n \in SessionStates, GoesOn(sessions[s], n)
  PROVE  AllGoOn([sessions EXCEPT ![s] = n])
BY SameGoesOn DEF TypeOK, AllGoOn

\* Stream::close of the sessions in S.
LEMMA ClosingGoesOn ==
  ASSUME TypeOK, NEW S
  PROVE  AllGoOn(Closing(S))
<1>1. ASSUME NEW s \in Sessions
      PROVE  Closing(S)[s] \in SessionStates /\ GoesOn(sessions[s], Closing(S)[s])
  <2> DEFINE n == [sessions[s] EXCEPT !.st = "shutdown"]
  <2>1. sessions[s] \in SessionStates
    BY DEF TypeOK
  <2>2. n \in SessionStates /\ n.st = "shutdown" /\ n.ip = sessions[s].ip
    BY <2>1 DEF SessionStates
  <2>3. Closing(S)[s] = IF s \in S \cap Connected THEN n ELSE sessions[s]
    BY DEF Closing
  <2>4. s \in Connected => sessions[s].st = "connected"
    BY DEF Connected
  <2> HIDE DEF n
  <2> QED  BY <2>1, <2>2, <2>3, <2>4, SameGoesOn DEF GoesOn, There
<1>2. Closing(S) = [s \in Sessions |-> Closing(S)[s]]
  BY DEF Closing
<1> QED  BY <1>1, <1>2 DEF AllGoOn

\* The same sockets are counted.
LEMMA CountedKept ==
  ASSUME Counted, \A s \in Sessions : sessions'[s].ip = sessions[s].ip /\ (There(sessions'[s]) <=> There(sessions[s])),
         ban'.clients = ban.clients, ban.off => ban'.off
  PROVE  Counted'
<1>1. \A ip \in Ips : Listed(ip)' = Listed(ip)
  BY DEF Listed, There
<1> QED  BY <1>1 DEF Counted

LEMMA GoOnStep ==
  ASSUME Assumptions, Inv, AllGoOn(sessions'), UNCHANGED <<socket, openServer, timer, config, ban>>
  PROVE  Inv'
<1>1. \A s \in Sessions : GoesOn(sessions[s], sessions'[s]) /\ sessions[s].age \in Nat
  BY DEF AllGoOn, Inv, TypeOK, SessionStates
<1>2. TypeOK'
  BY DEF Inv, TypeOK, AllGoOn
<1>3. Listening' /\ Uncounting'
  BY <1>1 DEF Inv, Listening, Uncounting, GoesOn
<1>4. Counted'
  BY <1>1, CountedKept DEF Inv, GoesOn
<1>5. Ages'
  <2> SUFFICES ASSUME NEW s \in Sessions, sessions'[s].st = "connected"
               PROVE  IF sessions'[s].flag THEN sessions'[s].age <= Period - timer
                      ELSE Period - timer <= sessions'[s].age /\ sessions'[s].age <= 2 * Period - timer
    BY DEF Ages
  <2>1. sessions[s].st = "connected" /\ socket = "listening"
    BY <1>1 DEF GoesOn, Inv, Listening
  <2>2. Period \in Nat /\ timer \in 0 .. Period
    BY <2>1 DEF Assumptions, Inv, TypeOK, Listening
  <2>3. CASE sessions'[s].flag /\ sessions'[s].age = 0
    BY <2>2, <2>3
  <2>4. CASE sessions'[s].flag = sessions[s].flag /\ sessions'[s].age = sessions[s].age
    BY <2>1, <2>4 DEF Inv, Ages
  <2> QED  BY <1>1, <2>3, <2>4 DEF GoesOn
<1> QED  BY <1>2, <1>3, <1>4, <1>5 DEF Inv

-----------------------------------------------------------------------------
(* The streams of sessions                                                  *)

\* abort.
LEMMA AbortedGoesOn ==
  ASSUME TypeOK, NEW s \in Sessions
  PROVE  AllGoOn(Aborted(s))
<1> DEFINE n == [sessions[s] EXCEPT !.st = "closing", !.writes = FALSE]
<1>1. sessions[s] \in SessionStates
  BY DEF TypeOK
<1>2. n \in SessionStates /\ n.st = "closing" /\ n.ip = sessions[s].ip
  BY <1>1 DEF SessionStates
<1>3. Aborted(s) = IF s \in Connected THEN [sessions EXCEPT ![s] = n] ELSE sessions
  BY DEF Aborted, TypeOK
<1> HIDE DEF n
<1>4. CASE s \in Connected
  <2>1. GoesOn(sessions[s], n)
    BY <1>2, <1>4 DEF GoesOn, There, Connected
  <2> QED  BY <1>2, <1>3, <1>4, <2>1, OneGoesOn
<1>5. CASE s \notin Connected
  BY <1>3, <1>5, SameGoesOn DEF AllGoOn, TypeOK
<1> QED  BY <1>4, <1>5

LEMMA StreamStep ==
  ASSUME Assumptions, Inv, NEW s \in Sessions,
         \/ \E nread \in {"data", "eof", "error"} : onReadCompleted(s, nread)
         \/ \E ok \in BOOLEAN : onWriteCompleted(s, ok)
         \/ write(s) \/ SessionCloses(s)
         \/ \E ok \in BOOLEAN : onShutdownDone(s, ok)
  PROVE  Inv'
<1>1. sessions[s] \in SessionStates /\ TypeOK /\ sessions \in [Sessions -> SessionStates]
  BY DEF Inv, TypeOK
<1>2. ASSUME NEW nread \in {"data", "eof", "error"}, onReadCompleted(s, nread)
      PROVE  Inv'
  <2>1. CASE nread = "data"
    <3> DEFINE n == [sessions[s] EXCEPT !.flag = TRUE, !.age = 0]
    <3>1. /\ n \in SessionStates /\ n.st = sessions[s].st /\ n.ip = sessions[s].ip
          /\ n.flag /\ n.age = 0
      BY <1>1 DEF SessionStates
    <3>2. sessions' = [sessions EXCEPT ![s] = n] /\ UNCHANGED <<socket, openServer, timer, config, ban>>
      BY <1>1, <1>2, <2>1 DEF onReadCompleted
    <3> HIDE DEF n
    <3>3. GoesOn(sessions[s], n)
      BY <3>1 DEF GoesOn, There
    <3> QED  BY <1>1, <3>1, <3>2, <3>3, OneGoesOn, GoOnStep
  <2>2. CASE nread = "eof"
    BY <1>1, <1>2, <2>2, ClosingGoesOn, GoOnStep DEF onReadCompleted
  <2>3. CASE nread = "error"
    BY <1>1, <1>2, <2>3, AbortedGoesOn, GoOnStep DEF onReadCompleted
  <2> QED  BY <2>1, <2>2, <2>3
<1>3. CASE onWriteCompleted(s, TRUE)
  <2> DEFINE n == [sessions[s] EXCEPT !.writes = FALSE, !.flag = TRUE, !.age = 0]
  <2>1. /\ n \in SessionStates /\ n.st = sessions[s].st /\ n.ip = sessions[s].ip
        /\ n.flag /\ n.age = 0
    BY <1>1 DEF SessionStates
  <2>2. sessions' = [sessions EXCEPT ![s] = n] /\ UNCHANGED <<socket, openServer, timer, config, ban>>
    BY <1>1, <1>3 DEF onWriteCompleted, Transferred
  <2> HIDE DEF n
  <2>3. GoesOn(sessions[s], n)
    BY <2>1 DEF GoesOn, There
  <2> QED  BY <1>1, <2>1, <2>2, <2>3, OneGoesOn, GoOnStep
<1>4. CASE onWriteCompleted(s, FALSE)
  <2> DEFINE m == Aborted(s)[s]
             n == [m EXCEPT !.writes = FALSE]
  <2>1. /\ Aborted(s) \in [Sessions -> SessionStates] /\ m \in SessionStates
        /\ \A r \in Sessions : GoesOn(sessions[r], Aborted(s)[r])
    BY <1>1, AbortedGoesOn DEF AllGoOn
  <2>2. /\ n \in SessionStates /\ n.st = m.st /\ n.ip = m.ip /\ n.flag = m.flag /\ n.age = m.age
    BY <2>1 DEF SessionStates
  <2>3. sessions' = [Aborted(s) EXCEPT ![s] = n] /\ UNCHANGED <<socket, openServer, timer, config, ban>>
    BY <1>4, <2>1 DEF onWriteCompleted
  <2>4. GoesOn(sessions[s], m)
    BY <2>1
  <2> HIDE DEF m, n
  <2>5. GoesOn(sessions[s], n)
    BY <2>2, <2>4 DEF GoesOn, There
  <2>6. AllGoOn(sessions')
    BY <2>1, <2>2, <2>3, <2>5 DEF AllGoOn
  <2> QED  BY <2>3, <2>6, GoOnStep
<1>5. CASE write(s)
  <2> DEFINE n == [sessions[s] EXCEPT !.writes = TRUE]
  <2>1. /\ n \in SessionStates /\ n.st = sessions[s].st /\ n.ip = sessions[s].ip
        /\ n.flag = sessions[s].flag /\ n.age = sessions[s].age
    BY <1>1 DEF SessionStates
  <2>2. sessions' = [sessions EXCEPT ![s] = n] /\ UNCHANGED <<socket, openServer, timer, config, ban>>
    BY <1>5 DEF write
  <2> HIDE DEF n
  <2>3. GoesOn(sessions[s], n)
    BY <2>1 DEF GoesOn, There
  <2> QED  BY <1>1, <2>1, <2>2, <2>3, OneGoesOn, GoOnStep
<1>6. CASE SessionCloses(s)
  BY <1>1, <1>6, ClosingGoesOn, GoOnStep DEF SessionCloses
<1>7. ASSUME NEW ok \in BOOLEAN, onShutdownDone(s, ok)
      PROVE  Inv'
  <2> DEFINE n == [sessions[s] EXCEPT !.st = "closing"]
  <2>1. n \in SessionStates /\ n.st = "closing" /\ n.ip = sessions[s].ip
    BY <1>1 DEF SessionStates
  <2>2. /\ sessions' = [sessions EXCEPT ![s] = n] /\ UNCHANGED <<socket, openServer, timer, config, ban>>
        /\ sessions[s].st = "shutdown"
    BY <1>7 DEF onShutdownDone
  <2> HIDE DEF n
  <2>3. GoesOn(sessions[s], n)
    BY <2>1, <2>2 DEF GoesOn, There
  <2> QED  BY <1>1, <2>1, <2>2, <2>3, OneGoesOn, GoOnStep
<1> QED  BY <1>2, <1>3, <1>4, <1>5, <1>6, <1>7

-----------------------------------------------------------------------------
(* BanManager and the listening stream                                      *)

\* The sessions stay as they are.
LEMMA SameSessionsStep ==
  ASSUME Inv, TypeOK', Listening', Uncounting', sessions' = sessions,
         ban'.clients = ban.clients, ban.off => ban'.off,
         timer' = timer \/ socket # "listening"
  PROVE  Inv'
<1>1. Counted'
  BY CountedKept DEF Inv
<1>2. Ages'
  BY DEF Inv, Ages, Listening
<1> QED  BY <1>1, <1>2 DEF Inv

LEMMA BanIpStep ==
  ASSUME Inv, NEW s \in Sessions, banIp(s)
  PROVE  Inv'
<1> DEFINE banned == ban.banned \cup {<<sessions[s].ip, "port">>}
<1>1. ban \in BanStates /\ sessions[s].ip \in Ips
  BY DEF Inv, TypeOK, SessionStates
<1>2. banned \in SUBSET (Ips \X {"any", "port"})
  BY <1>1 DEF BanStates
<1>3. ban' = [ban EXCEPT !.banned = banned] /\ UNCHANGED <<socket, openServer, timer, sessions, config>>
  BY DEF banIp
<1> HIDE DEF banned
<1>4. ban' \in BanStates /\ ban'.clients = ban.clients /\ ban'.off = ban.off /\ ban'.limits = ban.limits
  BY <1>1, <1>2, <1>3 DEF BanStates
<1>5. TypeOK' /\ Listening' /\ Uncounting'
  BY <1>3, <1>4 DEF Inv, TypeOK, Listening, Uncounting
<1> QED  BY <1>3, <1>4, <1>5, SameSessionsStep

LEMMA DayStep ==
  ASSUME Inv, onTimerExpire
  PROVE  Inv'
<1>1. ban \in BanStates /\ Zero \in [Ips -> Nat]
  BY DEF Inv, TypeOK, Zero
<1>2. ban' = [ban EXCEPT !.today = Zero] /\ UNCHANGED <<socket, openServer, timer, sessions, config>>
  BY DEF onTimerExpire
<1>3. ban' \in BanStates /\ ban'.clients = ban.clients /\ ban'.off = ban.off /\ ban'.limits = ban.limits
  BY <1>1, <1>2 DEF BanStates
<1>4. TypeOK' /\ Listening' /\ Uncounting'
  BY <1>2, <1>3 DEF Inv, TypeOK, Listening, Uncounting
<1> QED  BY <1>2, <1>3, <1>4, SameSessionsStep

LEMMA SetConfigStep ==
  ASSUME Inv, NEW limits \in Limits, SetConfig(limits)
  PROVE  Inv'
<1>1. TypeOK' /\ Listening' /\ Uncounting'
  BY DEF SetConfig, Inv, TypeOK, Listening, Uncounting
<1> QED  BY <1>1, SameSessionsStep DEF SetConfig

LEMMA ServerClosedStep ==
  ASSUME Inv, ServerClosed
  PROVE  Inv'
<1>1. TypeOK' /\ Listening' /\ Uncounting'
  BY DEF ServerClosed, Inv, TypeOK, Listening, Uncounting
<1> QED  BY <1>1, SameSessionsStep DEF ServerClosed

\* When the limits are off, BanManager remembers that connections are not counted.
LEMMA StartStep ==
  ASSUME Assumptions, Inv, NEW file \in DOMAIN BanFiles \cup {"none"}, NEW free \in BOOLEAN, start(file, free)
  PROVE  Inv'
<1> DEFINE banned == IF file = "none" THEN ban.banned ELSE {<<ip, "any">> : ip \in BanFiles[file]}
           off == ban.off \/ config = <<0, 0>>
<1>1. ban \in BanStates /\ config \in Limits
  BY DEF Inv, TypeOK
<1>2. banned \in SUBSET (Ips \X {"any", "port"})
  <2>1. CASE file = "none"
    BY <1>1, <2>1 DEF BanStates
  <2>2. CASE file # "none"
    <3>1. BanFiles[file] \in SUBSET Ips
      BY <2>2 DEF Assumptions
    <3> QED  BY <2>2, <3>1
  <2> QED  BY <2>1, <2>2
<1>3. off \in BOOLEAN
  BY <1>1 DEF BanStates
<1>4. ban' = [ban EXCEPT !.limits = config, !.off = off, !.banned = banned]
  BY DEF start, loadFile
<1> HIDE DEF banned
<1>5. /\ ban' \in BanStates /\ ban'.clients = ban.clients
      /\ ban'.limits = config /\ (ban.off => ban'.off) /\ (config = <<0, 0>> => ban'.off)
  <2> HIDE DEF off
  <2>1. /\ ban' \in BanStates /\ ban'.clients = ban.clients
        /\ ban'.limits = config /\ ban'.off = off
    BY <1>1, <1>2, <1>3, <1>4 DEF BanStates
  <2> QED  BY <2>1 DEF off
<1>6. /\ socket # "listening" /\ openServer' = TRUE /\ timer' = Period
      /\ socket' \in {"listening", "closing"} /\ UNCHANGED <<sessions, config>>
  BY DEF start
<1>7. TypeOK'
  BY <1>5, <1>6 DEF Inv, TypeOK, Assumptions
<1>8. Listening' /\ Uncounting'
  BY <1>5, <1>6 DEF Inv, Listening, Uncounting, Assumptions
<1> QED  BY <1>5, <1>6, <1>7, <1>8, SameSessionsStep

-----------------------------------------------------------------------------
(* Sessions that come and go                                                *)

LEMMA ListedFinite ==
  ASSUME Assumptions, NEW ip
  PROVE  IsFiniteSet(Listed(ip)) /\ Cardinality(Listed(ip)) \in Nat
<1>1. Listed(ip) \in SUBSET Sessions
  BY DEF Listed
<1> QED  BY <1>1, FS_Subset, FS_CardinalityType DEF Assumptions

LEMMA ClosedStep ==
  ASSUME Assumptions, Inv, NEW s \in Sessions, onConnectionClosed(s)
  PROVE  Inv'
<1>0. PICK ip \in Ips : sessions[s].ip = ip
  BY DEF Inv, TypeOK, SessionStates
<1> DEFINE n == [sessions[s] EXCEPT !.st = "gone", !.flag = FALSE, !.age = 0]
           left == IF ban.clients[ip] > 0 THEN ban.clients[ip] - 1 ELSE ban.clients[ip]
           clients == [ban.clients EXCEPT ![ip] = left]
<1>1. sessions[s] \in SessionStates /\ sessions[s].st = "closing" /\ ban \in BanStates
  BY DEF Inv, TypeOK, onConnectionClosed
<1>2. n \in SessionStates /\ n.st = "gone" /\ n.ip = ip
  BY <1>0, <1>1 DEF SessionStates
<1>3. /\ sessions' = [sessions EXCEPT ![s] = n] /\ ban' = [ban EXCEPT !.clients = clients]
      /\ UNCHANGED <<socket, openServer, timer, config>>
  BY <1>0 DEF onConnectionClosed, closedClient
<1>4. ban.clients \in [Ips -> Nat] /\ left \in Nat /\ clients \in [Ips -> Nat]
  BY <1>1 DEF BanStates
<1> HIDE DEF n
<1>5. sessions' \in [Sessions -> SessionStates] /\ sessions'[s] = n /\ \A r \in Sessions \ {s} : sessions'[r] = sessions[r]
  BY <1>2, <1>3 DEF Inv, TypeOK
<1>6. ban' \in BanStates /\ ban'.clients = clients /\ ban'.limits = ban.limits /\ ban'.off = ban.off
  <2> HIDE DEF clients
  <2> QED  BY <1>1, <1>3, <1>4 DEF BanStates
<1>7. s \in Listed(ip) /\ Listed(ip)' = Listed(ip) \ {s} /\ \A other \in Ips \ {ip} : Listed(other)' = Listed(other)
  BY <1>0, <1>1, <1>2, <1>5 DEF Listed
<1>8. Counted'
  <2> SUFFICES ASSUME NEW x \in Ips
               PROVE  /\ ban'.clients[x] <= Cardinality(Listed(x)')
                      /\ ~ban'.off => ban'.clients[x] = Cardinality(Listed(x)')
    BY DEF Counted
  <2>1. CASE x # ip
    BY <1>4, <1>6, <1>7, <2>1 DEF Inv, Counted
  <2>2. CASE x = ip
    <3> DEFINE k == Cardinality(Listed(ip))
    <3>1. Cardinality(Listed(ip)') = k - 1 /\ k \in Nat /\ k - 1 \in Nat
      <4>1. IsFiniteSet(Listed(ip)) /\ k \in Nat /\ IsFiniteSet(Listed(ip) \ {s})
        BY ListedFinite, FS_RemoveElement
      <4>2. Cardinality(Listed(ip) \ {s}) = k - 1 /\ Cardinality(Listed(ip) \ {s}) \in Nat
        BY <1>7, <4>1, FS_RemoveElement, FS_CardinalityType
      <4> QED  BY <1>7, <4>1, <4>2
    <3>2. ban.clients[ip] <= k /\ (~ban.off => ban.clients[ip] = k) /\ ban.clients[ip] \in Nat
      BY <1>1, <1>4 DEF Inv, Counted
    <3>3. ban'.clients[ip] = left
      BY <1>1, <1>4, <1>6
    <3> HIDE DEF k
    <3>4. left <= k - 1 /\ (~ban.off => left = k - 1)
      BY <3>1, <3>2
    <3> HIDE DEF left
    <3> QED  BY <1>6, <2>2, <3>1, <3>3, <3>4
  <2> QED  BY <2>1, <2>2
<1>9. TypeOK' /\ Listening' /\ Uncounting'
  BY <1>2, <1>3, <1>5, <1>6 DEF Inv, TypeOK, Listening, Uncounting
<1>10. Ages'
  BY <1>2, <1>3, <1>5 DEF Inv, Ages
<1> QED  BY <1>8, <1>9, <1>10 DEF Inv

\* What checkAcceptNewClient may answer: the address is counted exactly when the
\* connection is accepted, unless there are no limits.
LEMMA AnswerFacts ==
  ASSUME ban \in BanStates, NEW ip \in Ips
  PROVE  LET answer == checkAcceptNewClient(ip)
         IN  /\ answer.ban \in BanStates
             /\ answer.ban.limits = ban.limits /\ answer.ban.off = ban.off
             /\ answer.ok \in BOOLEAN
             /\ \/ answer.ok /\ answer.ban.clients = [ban.clients EXCEPT ![ip] = @ + 1]
                \/ answer.ban.clients = ban.clients /\ (answer.ok => ban.limits = <<0, 0>>)
<1> DEFINE today == [ban.today EXCEPT ![ip] = @ + 1]
           counted == [ban EXCEPT !.today = today]
           clients == [ban.clients EXCEPT ![ip] = @ + 1]
           refused == [ban EXCEPT !.banned = ban.banned \cup {<<ip, "any">>}]
           added == [counted EXCEPT !.clients = clients]
           answer == checkAcceptNewClient(ip)
<1>1. /\ today \in [Ips -> Nat] /\ clients \in [Ips -> Nat]
      /\ ban.banned \cup {<<ip, "any">>} \in SUBSET (Ips \X {"any", "port"})
  BY DEF BanStates
<1>2. \/ answer = [ok |-> FALSE, ban |-> ban]
      \/ answer = [ok |-> TRUE, ban |-> ban] /\ ban.limits = <<0, 0>>
      \/ answer = [ok |-> FALSE, ban |-> refused]
      \/ answer = [ok |-> FALSE, ban |-> counted]
      \/ answer = [ok |-> TRUE, ban |-> added]
  <2>1. added = [counted EXCEPT !.clients[ip] = @ + 1]
    <3>1. counted.clients = ban.clients
      BY DEF BanStates
    <3> QED  BY <3>1
  <2> HIDE DEF added
  <2> QED  BY <2>1 DEF checkAcceptNewClient
<1> HIDE DEF today, clients, answer
<1>3. /\ counted \in BanStates /\ counted.limits = ban.limits
      /\ counted.off = ban.off /\ counted.clients = ban.clients
  BY <1>1 DEF BanStates
<1>4. /\ refused \in BanStates /\ refused.limits = ban.limits
      /\ refused.off = ban.off /\ refused.clients = ban.clients
  BY <1>1 DEF BanStates
<1> HIDE DEF counted
<1>5. added \in BanStates /\ added.limits = ban.limits /\ added.off = ban.off /\ added.clients = clients
  BY <1>1, <1>3 DEF BanStates
<1> HIDE DEF refused, added
<1>6. /\ answer.ban \in BanStates
      /\ answer.ban.limits = ban.limits /\ answer.ban.off = ban.off
      /\ answer.ok \in BOOLEAN
      /\ \/ answer.ok /\ answer.ban.clients = clients
         \/ answer.ban.clients = ban.clients /\ (answer.ok => ban.limits = <<0, 0>>)
  <2>1. CASE answer = [ok |-> FALSE, ban |-> ban]
    BY <2>1
  <2>2. CASE answer = [ok |-> TRUE, ban |-> ban] /\ ban.limits = <<0, 0>>
    BY <2>2
  <2>3. CASE answer = [ok |-> FALSE, ban |-> refused]
    BY <1>4, <2>3
  <2>4. CASE answer = [ok |-> FALSE, ban |-> counted]
    BY <1>3, <2>4
  <2>5. CASE answer = [ok |-> TRUE, ban |-> added]
    BY <1>5, <2>5
  <2> QED  BY <1>2, <2>1, <2>2, <2>3, <2>4, <2>5
<1> QED  BY <1>6 DEF answer, clients

LEMMA NewConnectionStep ==
  ASSUME Assumptions, Inv, NEW s \in Sessions, NEW ip \in Ips, onNewConnection(s, ip)
  PROVE  Inv'
<1> DEFINE answer == checkAcceptNewClient(ip)
           n == NewSession(ip)
<1>1. /\ ban \in BanStates /\ sessions[s].st = "none" /\ socket = "listening"
      /\ UNCHANGED <<socket, openServer, timer, config>>
  BY DEF Inv, TypeOK, onNewConnection
<1>2. ban' = answer.ban /\ sessions' = IF answer.ok THEN [sessions EXCEPT ![s] = n] ELSE sessions
  BY DEF onNewConnection
<1>3. n \in SessionStates /\ n.st = "connected" /\ n.ip = ip /\ n.flag /\ n.age = 0
  BY DEF NewSession, SessionStates
<1> HIDE DEF answer, n
<1>4. /\ ban' \in BanStates /\ ban'.limits = ban.limits /\ ban'.off = ban.off /\ answer.ok \in BOOLEAN
      /\ \/ answer.ok /\ ban'.clients = [ban.clients EXCEPT ![ip] = @ + 1]
         \/ ban'.clients = ban.clients /\ (answer.ok => ban.limits = <<0, 0>>)
  BY <1>1, <1>2, AnswerFacts DEF answer
<1>5. Uncounting'
  BY <1>1, <1>4 DEF Inv, Uncounting
<1>6. CASE ~answer.ok
  <2>1. TypeOK' /\ Listening'
    BY <1>1, <1>2, <1>4, <1>6 DEF Inv, TypeOK, Listening
  <2> QED  BY <1>1, <1>2, <1>4, <1>5, <1>6, <2>1, SameSessionsStep
<1>7. CASE answer.ok
  <2>1. /\ sessions' \in [Sessions -> SessionStates] /\ sessions'[s] = n
        /\ \A r \in Sessions \ {s} : sessions'[r] = sessions[r]
    BY <1>2, <1>3, <1>7 DEF Inv, TypeOK
  <2>2. TypeOK' /\ Listening'
    BY <1>1, <1>4, <2>1 DEF Inv, TypeOK, Listening
  <2>3. s \notin Listed(ip) /\ Listed(ip)' = Listed(ip) \cup {s} /\ \A other \in Ips \ {ip} : Listed(other)' = Listed(other)
    BY <1>1, <1>3, <2>1 DEF Listed
  <2>4. Counted'
    <3> SUFFICES ASSUME NEW x \in Ips
                 PROVE  /\ ban'.clients[x] <= Cardinality(Listed(x)')
                        /\ ~ban'.off => ban'.clients[x] = Cardinality(Listed(x)')
      BY DEF Counted
    <3>1. ban.clients \in [Ips -> Nat]
      BY <1>1 DEF BanStates
    <3>2. CASE x # ip
      BY <1>4, <2>3, <3>1, <3>2 DEF Inv, Counted
    <3>3. CASE x = ip
      <4> DEFINE k == Cardinality(Listed(ip))
      <4>1. Cardinality(Listed(ip)') = k + 1 /\ k \in Nat
        BY <2>3, ListedFinite, FS_AddElement
      <4>2. ban.clients[ip] <= k /\ (~ban.off => ban.clients[ip] = k) /\ ban.clients[ip] \in Nat
        BY <3>1 DEF Inv, Counted
      <4> HIDE DEF k
      <4>3. CASE ban'.clients = [ban.clients EXCEPT ![ip] = @ + 1]
        BY <1>4, <3>1, <3>3, <4>1, <4>2, <4>3
      <4>4. CASE ban'.clients = ban.clients /\ ban.limits = <<0, 0>>
        <5>1. ban'.off
          BY <1>1, <1>4, <4>4 DEF Inv, Uncounting
        <5> QED  BY <1>4, <3>3, <4>1, <4>2, <4>4, <5>1
      <4> QED  BY <1>4, <1>7, <4>3, <4>4
    <3> QED  BY <3>2, <3>3
  <2>5. Ages'
    <3> SUFFICES ASSUME NEW r \in Sessions, sessions'[r].st = "connected"
                 PROVE  IF sessions'[r].flag THEN sessions'[r].age <= Period - timer
                        ELSE Period - timer <= sessions'[r].age /\ sessions'[r].age <= 2 * Period - timer
      BY <1>1 DEF Ages
    <3>1. timer \in 0 .. Period /\ Period \in Nat
      BY <1>1 DEF Inv, TypeOK, Listening, Assumptions
    <3>2. CASE r = s
      BY <1>3, <2>1, <3>1, <3>2
    <3>3. CASE r # s
      BY <2>1, <3>3 DEF Inv, Ages
    <3> QED  BY <3>2, <3>3
  <2> QED  BY <1>5, <2>2, <2>4, <2>5 DEF Inv
<1> QED  BY <1>4, <1>6, <1>7

-----------------------------------------------------------------------------
(* stop, and the passing of time                                            *)

LEMMA StopStep ==
  ASSUME Assumptions, Inv, stop
  PROVE  Inv'
<1>1. AllGoOn(Closing(Sessions))
  BY ClosingGoesOn DEF Inv
<1>2. /\ timer' = -1 /\ openServer' = FALSE /\ socket # "none" /\ UNCHANGED <<config, ban>>
      /\ sessions' = Closing(Sessions) /\ socket' \in {"closing", "unconnected"}
  BY DEF stop, Inv, TypeOK
<1>3. \A s \in Sessions : sessions'[s].st # "connected"
  <2> SUFFICES ASSUME NEW s \in Sessions
               PROVE  sessions'[s].st # "connected"
    OBVIOUS
  <2> DEFINE n == [sessions[s] EXCEPT !.st = "shutdown"]
  <2>1. n.st = "shutdown"
    BY DEF Inv, TypeOK, SessionStates
  <2> HIDE DEF n
  <2>2. sessions'[s] = IF sessions[s].st = "connected" THEN n ELSE sessions[s]
    BY <1>2 DEF Closing, Connected, n
  <2> QED  BY <2>1, <2>2
<1>4. TypeOK'
  BY <1>1, <1>2 DEF AllGoOn, Inv, TypeOK
<1>5. Listening' /\ Ages' /\ Uncounting'
  BY <1>2, <1>3 DEF Listening, Ages, Uncounting, Inv
<1>6. Counted'
  BY <1>1, <1>2, CountedKept DEF AllGoOn, GoesOn, Inv
<1> QED  BY <1>4, <1>5, <1>6 DEF Inv

\* The idle check, session by session.
LEMMA CheckFacts ==
  ASSUME TypeOK, onCheckIdleSockets, NEW s \in Sessions
  PROVE  LET m == sessions[s]
             n == sessions'[s]
         IN  /\ n \in SessionStates /\ n.ip = m.ip /\ n.age = m.age
             /\ \/ m.st = "connected" /\ m.flag /\ n.st = "connected" /\ ~n.flag
                \/ m.st = "connected" /\ ~m.flag /\ n.st = "shutdown"
                \/ m.st # "connected" /\ n.st = m.st
<1> DEFINE kept == [sessions[s] EXCEPT !.flag = FALSE]
           kicked == [sessions[s] EXCEPT !.st = "shutdown"]
<1>1. sessions[s] \in SessionStates
  BY DEF TypeOK
<1>2. /\ kept \in SessionStates /\ kept.ip = sessions[s].ip /\ kept.age = sessions[s].age
      /\ kept.st = sessions[s].st /\ kept.flag = FALSE
  BY <1>1 DEF SessionStates
<1>3. /\ kicked \in SessionStates /\ kicked.ip = sessions[s].ip /\ kicked.age = sessions[s].age
      /\ kicked.st = "shutdown"
  BY <1>1 DEF SessionStates
<1>4. sessions[s].flag \in BOOLEAN
  BY <1>1 DEF SessionStates
<1> HIDE DEF kept, kicked
<1>5. sessions'[s] = IF s \in Connected \ Idle THEN kept ELSE Closing(Idle)[s]
  BY DEF onCheckIdleSockets, kept
<1>6. Closing(Idle)[s] = IF s \in Idle \cap Connected THEN kicked ELSE sessions[s]
  BY DEF Closing, kicked
<1>7. (s \in Connected <=> sessions[s].st = "connected") /\ (s \in Idle <=> s \in Connected /\ ~sessions[s].flag)
  BY DEF Connected, Idle
<1>8. CASE sessions[s].st = "connected" /\ sessions[s].flag
  BY <1>2, <1>5, <1>7, <1>8
<1>9. CASE sessions[s].st = "connected" /\ ~sessions[s].flag
  BY <1>3, <1>5, <1>6, <1>7, <1>9
<1>10. CASE sessions[s].st # "connected"
  BY <1>1, <1>5, <1>6, <1>7, <1>10
<1> QED  BY <1>4, <1>8, <1>9, <1>10

LEMMA CheckStep ==
  ASSUME Assumptions, Inv, onCheckIdleSockets
  PROVE  Inv'
<1>1. /\ timer = 0 /\ timer' = Period /\ Period \in Nat
      /\ UNCHANGED <<socket, openServer, config, ban>>
  BY DEF onCheckIdleSockets, Assumptions
<1>2. \A s \in Sessions : /\ sessions'[s] \in SessionStates /\ sessions'[s].ip = sessions[s].ip
                          /\ (There(sessions'[s]) <=> There(sessions[s]))
                          /\ sessions'[s].st = "connected" => sessions[s].st = "connected"
  BY CheckFacts DEF Inv, There
<1>3. sessions' \in [Sessions -> SessionStates]
  BY <1>2 DEF onCheckIdleSockets
<1>4. TypeOK'
  BY <1>1, <1>3 DEF Inv, TypeOK
<1>5. Listening' /\ Uncounting'
  BY <1>1, <1>2 DEF Inv, Listening, Uncounting
<1>6. Counted'
  BY <1>1, <1>2, CountedKept DEF Inv
<1>7. Ages'
  <2> SUFFICES ASSUME NEW s \in Sessions, sessions'[s].st = "connected"
               PROVE  IF sessions'[s].flag THEN sessions'[s].age <= Period - timer'
                      ELSE Period - timer' <= sessions'[s].age /\ sessions'[s].age <= 2 * Period - timer'
    BY DEF Ages
  <2>1. /\ sessions[s].st = "connected" /\ sessions[s].flag /\ ~sessions'[s].flag
        /\ sessions'[s].age = sessions[s].age
    BY CheckFacts DEF Inv
  <2>2. sessions[s].age <= Period - 0 /\ sessions[s].age \in Nat
    BY <1>1, <2>1 DEF Inv, Ages, TypeOK, SessionStates
  <2> QED  BY <1>1, <2>1, <2>2
<1> QED  BY <1>4, <1>5, <1>6, <1>7 DEF Inv

LEMMA TickStep ==
  ASSUME Assumptions, Inv, Tick
  PROVE  Inv'
<1>1. /\ timer # 0 /\ timer' = (IF timer > 0 THEN timer - 1 ELSE timer) /\ Connected # {}
      /\ UNCHANGED <<socket, openServer, config, ban>>
  BY DEF Tick
<1>2. socket = "listening" /\ timer \in 1 .. Period /\ timer' = timer - 1 /\ Period \in Nat
  BY <1>1 DEF Inv, TypeOK, Listening, Connected, Assumptions
<1>3. ASSUME NEW s \in Sessions
      PROVE  /\ sessions'[s] \in SessionStates /\ sessions'[s].ip = sessions[s].ip
             /\ sessions'[s].st = sessions[s].st /\ sessions'[s].flag = sessions[s].flag
             /\ sessions[s].st = "connected" => sessions'[s].age = sessions[s].age + 1
             /\ sessions[s].age \in Nat
  <2> DEFINE n == [sessions[s] EXCEPT !.age = @ + 1]
  <2>1. sessions[s] \in SessionStates
    BY DEF Inv, TypeOK
  <2>2. /\ n \in SessionStates /\ n.ip = sessions[s].ip /\ n.st = sessions[s].st
        /\ n.flag = sessions[s].flag /\ n.age = sessions[s].age + 1 /\ sessions[s].age \in Nat
    BY <2>1 DEF SessionStates
  <2> HIDE DEF n
  <2>3. sessions'[s] = IF s \in Connected THEN n ELSE sessions[s]
    BY DEF Tick, n
  <2> QED  BY <2>1, <2>2, <2>3 DEF Connected
<1>4. sessions' \in [Sessions -> SessionStates]
  BY <1>3 DEF Tick
<1>5. TypeOK'
  BY <1>1, <1>2, <1>4 DEF Inv, TypeOK
<1>6. Listening' /\ Uncounting'
  BY <1>1, <1>2, <1>3 DEF Inv, Listening, Uncounting
<1>7. Counted'
  BY <1>1, <1>3, CountedKept DEF Inv, There
<1>8. Ages'
  BY <1>2, <1>3 DEF Inv, Ages
<1> QED  BY <1>5, <1>6, <1>7, <1>8 DEF Inv

-----------------------------------------------------------------------------
(* The theorems                                                             *)

LEMMA Initially ==
  ASSUME Assumptions, Init
  PROVE  Inv
<1> DEFINE somewhere == CHOOSE ip \in Ips : TRUE
           m == [st |-> "none", ip |-> somewhere, flag |-> FALSE, age |-> 0, writes |-> FALSE]
<1>1. somewhere \in Ips /\ Zero \in [Ips -> Nat]
  BY DEF Assumptions, Zero
<1> HIDE DEF somewhere
<1>2. m \in SessionStates /\ m.st = "none"
  BY <1>1 DEF SessionStates
<1>3. sessions = [s \in Sessions |-> m]
  BY DEF Init, somewhere
<1> HIDE DEF m
<1>4. /\ ban \in BanStates /\ ban.clients = Zero /\ ban.limits = config /\ config \in Limits
      /\ socket = "none" /\ openServer = FALSE /\ timer = -1
  BY <1>1 DEF Init, BanStates
<1>5. TypeOK
  BY <1>2, <1>3, <1>4 DEF TypeOK
<1>6. Listening /\ Uncounting /\ Ages
  BY <1>2, <1>3, <1>4 DEF Listening, Uncounting, Ages
<1>7. Counted
  <2>1. \A ip \in Ips : Listed(ip) = {}
    BY <1>2, <1>3 DEF Listed
  <2>2. \A ip \in Ips : ban.clients[ip] = 0
    BY <1>4 DEF Zero
  <2> QED  BY <2>1, <2>2, FS_EmptySet DEF Counted
<1> QED  BY <1>5, <1>6, <1>7 DEF Inv

LEMMA Invariance ==
  ASSUME Assumptions, Inv, [Next]_vars
  PROVE  Inv'
<1>1. CASE UNCHANGED vars
  <2>1. AllGoOn(sessions)
    BY SameGoesOn DEF AllGoOn, Inv, TypeOK
  <2> QED  BY <1>1, <2>1, GoOnStep DEF vars
<1>2. ASSUME NEW file \in DOMAIN BanFiles \cup {"none"}, NEW free \in BOOLEAN, start(file, free)
      PROVE  Inv'
  BY <1>2, StartStep
<1>3. CASE stop
  BY <1>3, StopStep
<1>4. CASE ServerClosed
  BY <1>4, ServerClosedStep
<1>5. CASE onTimerExpire
  BY <1>5, DayStep
<1>6. CASE onCheckIdleSockets
  BY <1>6, CheckStep
<1>7. CASE Tick
  BY <1>7, TickStep
<1>8. ASSUME NEW limits \in Limits, SetConfig(limits)
      PROVE  Inv'
  BY <1>8, SetConfigStep
<1>9. ASSUME NEW s \in Sessions,
             \/ \E ip \in Ips : onNewConnection(s, ip)
             \/ \E nread \in {"data", "eof", "error"} : onReadCompleted(s, nread)
             \/ \E ok \in BOOLEAN : onWriteCompleted(s, ok)
             \/ write(s) \/ SessionCloses(s) \/ banIp(s)
             \/ (\E ok \in BOOLEAN : onShutdownDone(s, ok)) \/ onConnectionClosed(s)
      PROVE  Inv'
  BY <1>9, NewConnectionStep, StreamStep, BanIpStep, ClosedStep
<1> QED  BY <1>1, <1>2, <1>3, <1>4, <1>5, <1>6, <1>7, <1>8, <1>9 DEF Next

LEMMA InvCorrect == ASSUME Assumptions PROVE Spec => []Inv
<1>1. Init => Inv
  BY Initially
<1>2. Inv /\ [Next]_vars => Inv'
  BY Invariance
<1> QED  BY <1>1, <1>2, PTL DEF Spec

\* The books of the server are right: the counters of BanManager agree with the
\* connections (checkAcceptNewClient, closedClient), and no connection is idle
\* for more than two periods (onCheckIdleSockets).
THEOREM CountsKeptCorrect == ASSUME Assumptions PROVE Spec => []CountsKept
<1>1. Inv => CountsKept
  <2> SUFFICES ASSUME Inv PROVE CountsKept
    OBVIOUS
  <2>1. \A s \in Connected : sessions[s].age <= 2 * Period
    <3> SUFFICES ASSUME NEW s \in Connected
                 PROVE  sessions[s].age <= 2 * Period
      OBVIOUS
    <3>1. sessions[s].st = "connected" /\ s \in Sessions /\ sessions[s].age \in Nat /\ sessions[s].flag \in BOOLEAN
      BY DEF Connected, Inv, TypeOK, SessionStates
    <3>2. Period \in Nat /\ timer \in 0 .. Period
      BY <3>1 DEF Inv, TypeOK, Listening, Assumptions
    <3>3. sessions[s].age <= Period - timer \/ sessions[s].age <= 2 * Period - timer
      BY <3>1 DEF Inv, Ages
    <3> QED  BY <3>1, <3>2, <3>3
  <2> QED  BY <2>1 DEF CountsKept, IdleBound, Inv
<1> QED  BY <1>1, InvCorrect, PTL

\* onCheckIdleSockets closes no connection that was idle for less than a period.
THEOREM KickedIdleCorrect == ASSUME Assumptions PROVE Spec => KickedIdle
<1>1. Inv /\ [Next]_vars => [KicksIdle]_vars
  <2> SUFFICES ASSUME Inv, [Next]_vars PROVE [KicksIdle]_vars
    OBVIOUS
  <2> SUFFICES ASSUME Next, timer = 0, timer' = Period, NEW s \in Connected, sessions'[s].st = "shutdown"
               PROVE  sessions[s].age >= Period
    BY DEF KicksIdle
  <2>1. /\ s \in Sessions /\ sessions[s].st = "connected" /\ sessions[s].age \in Nat
        /\ Period \in Nat /\ socket = "listening"
    BY DEF Connected, Inv, TypeOK, SessionStates, Assumptions, Listening
  <2>2. CASE Period = 0
    BY <2>1, <2>2
  <2>3. CASE onCheckIdleSockets
    <3>1. ~sessions[s].flag
      BY <2>1, <2>3, CheckFacts DEF Inv
    <3>2. Period - timer <= sessions[s].age
      BY <2>1, <3>1 DEF Inv, Ages
    <3> QED  BY <2>1, <3>2
  <2>4. CASE Period # 0 /\ ~onCheckIdleSockets
    <3>1. \/ \E file \in DOMAIN BanFiles \cup {"none"}, free \in BOOLEAN : start(file, free)
          \/ timer' = -1
          \/ timer' = timer
      <4>1. CASE Tick
        BY <4>1 DEF Tick
      <4>2. CASE stop \/ ServerClosed \/ onTimerExpire \/ \E limits \in Limits : SetConfig(limits)
        BY <4>2 DEF stop, ServerClosed, onTimerExpire, SetConfig
      <4>3. ASSUME NEW r \in Sessions,
                   \/ \E ip \in Ips : onNewConnection(r, ip)
                   \/ \E nread \in {"data", "eof", "error"} : onReadCompleted(r, nread)
                   \/ \E ok \in BOOLEAN : onWriteCompleted(r, ok)
                   \/ write(r) \/ SessionCloses(r) \/ banIp(r)
                   \/ (\E ok \in BOOLEAN : onShutdownDone(r, ok)) \/ onConnectionClosed(r)
            PROVE  timer' = timer
        BY <4>3 DEF onNewConnection, onReadCompleted, onWriteCompleted, write, SessionCloses, banIp,
                    onShutdownDone, onConnectionClosed
      <4> QED  BY <2>4, <4>1, <4>2, <4>3 DEF Next
    <3>2. ASSUME NEW file \in DOMAIN BanFiles \cup {"none"}, NEW free \in BOOLEAN, start(file, free)
          PROVE  FALSE
      BY <2>1, <3>2 DEF start
    <3> QED  BY <2>1, <2>4, <3>1, <3>2
  <2> QED  BY <2>2, <2>3, <2>4
<1> QED  BY <1>1, InvCorrect, PTL DEF Spec, KickedIdle

=============================================================================
