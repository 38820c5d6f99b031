--------------------------- MODULE ComponentProofs ---------------------------
(***************************************************************************)
(* Proofs about components that keep to themselves, for all values of      *)
(* their constants: the client that logs in by itself (ClientSessions),    *)
(* of the packet filter proxy the filter module on disk                    *)
(* (FilterLibrary), a client and its server with the filters between them  *)
(* (FilterSessions), the Lua state of a connection (LuaSessionFilter) and  *)
(* the combat log (CombatLog); the auction monitor with its workers        *)
(* (AuctionMonitor) and the differences of its dumps (AuctionDiff); and    *)
(* how packets are cut out of the bytes of a connection (PacketFraming).   *)
(*                                                                         *)
(* A component is an instance on variables of its own, declared where its  *)
(* part of the module begins; a part has the inductive invariant, one      *)
(* lemma for each action, and the theorem.                                 *)
(***************************************************************************)
EXTENDS Integers, Sequences, FiniteSets, SequenceTheorems, FiniteSetTheorems,
        FunctionTheorems, TLAPS

-----------------------------------------------------------------------------
(* The client that logs in by itself                                        *)

CONSTANTS Methods, Delays, MaxFaults

VARIABLES method, delayTime, auth, game, replies, inGame, timers, http, faults

Client == INSTANCE ClientSessions

Streams == {"unconnected", "connecting", "connected", "shutdown", "closing"}

AuthAnswers == {"key", "ok", "fail", "list", "other_list", "select"}

GameAnswers == {"ok", "fail", "characters", "login", "kicked"}

ClientTypes ==
  /\ auth \in [st : Streams, normal : BOOLEAN, listed : BOOLEAN]
  /\ game \in Streams
  /\ replies \in [auth : Seq(AuthAnswers), game : Seq(GameAnswers)]
  /\ inGame \in BOOLEAN
  /\ timers \in [delay : BOOLEAN, gg : BOOLEAN]
  /\ http \in [now : Nat, stale : Nat]

\* The auth session closes normally only while the game session, or the delay
\* before the next login, goes on.
NormalEnd ==
  auth.normal =>
    /\ auth.st \in {"shutdown", "closing"}
    /\ game # "unconnected" \/ timers.delay

AtMostOne(q) == q = << >> \/ \E x \in AuthAnswers : q = <<x>>

\* Without web login: a login that is under way, at the auth server, in the game
\* or waiting to begin, excludes any other.
OneLogin ==
  method # "bora" =>
    /\ http.now = 0 /\ http.stale = 0
    /\ AtMostOne(replies.auth)
    /\ auth.st \in {"unconnected", "connecting"} \/ auth.normal => replies.auth = << >>
    /\ auth.st # "unconnected" /\ ~auth.normal => game = "unconnected" /\ ~timers.delay
    /\ timers.delay => game = "unconnected"
    /\ replies.auth = <<"select">> /\ Client!Readable(auth.st) => auth.listed

ClientInv ==
  ClientTypes /\ NormalEnd /\ OneLogin /\ Client!Alive /\ Client!InGameConnected

LEMMA ClientStart == Client!Init => ClientInv
<1> SUFFICES ASSUME Client!Init PROVE ClientInv
  OBVIOUS
<1>1. ClientTypes
  <2>1. << >> \in Seq(AuthAnswers) /\ << >> \in Seq(GameAnswers)
    OBVIOUS
  <2>2. replies \in [auth : Seq(AuthAnswers), game : Seq(GameAnswers)]
    BY <2>1 DEF Client!Init
  <2> QED  BY <2>2 DEF Client!Init, ClientTypes, Streams
<1>2. NormalEnd /\ Client!Alive /\ Client!InGameConnected
  BY DEF Client!Init, NormalEnd, Client!Alive, Client!InGameConnected
<1>3. OneLogin
  BY DEF Client!Init, OneLogin, AtMostOne
<1> QED  BY <1>1, <1>2, <1>3 DEF ClientInv

\* The queue of answers of a login that is the only one.
LEMMA AnswerQueue ==
  ASSUME NEW q \in Seq(AuthAnswers), NEW x \in AuthAnswers, NEW st
  PROVE  /\ q # << >> => Head(q) \in AuthAnswers /\ Tail(q) \in Seq(AuthAnswers)
         /\ AtMostOne(q) /\ q # << >> => q = <<Head(q)>> /\ Tail(q) = << >>
         /\ Client!Asked(q, st, x) \in Seq(AuthAnswers)
         /\ Client!Asked(<< >>, st, x) \in {<< >>, <<x>>}
<1>1. q # << >> => Head(q) \in AuthAnswers /\ Tail(q) \in Seq(AuthAnswers)
  BY HeadTailProperties
<1>2. AtMostOne(q) /\ q # << >> => q = <<Head(q)>> /\ Tail(q) = << >>
  <2>1. ASSUME AtMostOne(q), q # << >> PROVE q = <<Head(q)>> /\ Tail(q) = << >>
    <3>1. PICK y \in AuthAnswers : q = <<y>>
      BY <2>1 DEF AtMostOne
    <3> QED  BY <3>1
  <2> QED  BY <2>1
<1>3. Append(q, x) \in Seq(AuthAnswers)
  OBVIOUS
<1>4. Client!Asked(<< >>, st, x) \in {<< >>, <<x>>}
  BY DEF Client!Asked
<1> QED  BY <1>1, <1>2, <1>3, <1>4 DEF Client!Asked

\* What connect does to an auth session.
LEMMA ConnectingSession ==
  ASSUME NEW a \in [st : Streams, normal : BOOLEAN, listed : BOOLEAN]
  PROVE  /\ Client!Connecting(a) \in [st : Streams, normal : BOOLEAN, listed : BOOLEAN]
         /\ ~Client!Connecting(a).normal
         /\ Client!Connecting(a).listed = a.listed
         /\ Client!Connecting(a).st = IF a.st = "unconnected" THEN "connecting" ELSE a.st
BY DEF Client!Connecting, Client!Connect, Streams

LEMMA AnswersReplaced ==
  ASSUME ClientTypes, NEW q \in Seq(AuthAnswers), replies' = [replies EXCEPT !.auth = q]
  PROVE  replies' \in [auth : Seq(AuthAnswers), game : Seq(GameAnswers)] /\ replies'.auth = q
BY DEF ClientTypes

\* A single answer.
LEMMA OneAnswer ==
  ASSUME NEW x \in AuthAnswers
  PROVE  << >> \in Seq(AuthAnswers) /\ <<x>> \in Seq(AuthAnswers) /\ AtMostOne(<<x>>)
         /\ AtMostOne(<< >>) /\ << >> # <<"select">> /\ (<<x>> = <<"select">> => x = "select")
BY DEF AtMostOne

\* The invariant after a step, from what the step makes of the sessions.
LEMMA ClientKept ==
  ASSUME ClientTypes', NormalEnd', OneLogin', Client!Alive', Client!InGameConnected'
  PROVE  ClientInv'
BY DEF ClientInv

LEMMA AuthConnectedStep ==
  ASSUME ClientInv, NEW ok \in BOOLEAN, Client!onAuthConnected(ok)
  PROVE  ClientInv'
<1> USE DEF ClientInv
<1>1. /\ auth.st = "connecting" /\ ~auth.normal
      /\ method # "bora" => replies.auth = << >>
      /\ replies.auth \in Seq(AuthAnswers) /\ replies.game \in Seq(GameAnswers)
  BY DEF Client!onAuthConnected, NormalEnd, OneLogin, ClientTypes
<1>2. /\ auth' = [auth EXCEPT !.st = IF ok THEN "connected" ELSE "closing"]
      /\ \/ \E x \in {"ok", "fail"} :
              replies' = [replies EXCEPT !.auth = Client!Asked(@, "connected", x)]
         \/ \E q \in {<<"key">>, << >>} : replies' = [replies EXCEPT !.auth = q]
  <2>1. CASE ok /\ method = "des"
    BY <2>1 DEF Client!onAuthConnected, Client!Either, Client!Login, ClientTypes
  <2>2. CASE ~(ok /\ method = "des")
    BY <2>2 DEF Client!onAuthConnected
  <2> QED  BY <2>1, <2>2
<1>3. /\ auth' \in [st : Streams, normal : BOOLEAN, listed : BOOLEAN]
      /\ auth'.st \in {"connected", "closing"} /\ ~auth'.normal
  BY <1>1, <1>2 DEF ClientTypes, Streams
<1>4. /\ replies' \in [auth : Seq(AuthAnswers), game : Seq(GameAnswers)]
      /\ method # "bora" => AtMostOne(replies'.auth) /\ replies'.auth # <<"select">>
  <2>1. CASE \E x \in {"ok", "fail"} :
               replies' = [replies EXCEPT !.auth = Client!Asked(@, "connected", x)]
    <3>1. PICK x \in {"ok", "fail"} :
            replies' = [replies EXCEPT !.auth = Client!Asked(@, "connected", x)]
      BY <2>1
    <3>2. x \in AuthAnswers
      BY DEF AuthAnswers
    <3>3. PICK q \in Seq(AuthAnswers) : q = Client!Asked(replies.auth, "connected", x)
      BY <1>1, <3>2, AnswerQueue
    <3>4. replies' \in [auth : Seq(AuthAnswers), game : Seq(GameAnswers)] /\ replies'.auth = q
      BY <3>1, <3>3, AnswersReplaced
    <3>5. method # "bora" => q \in {<< >>, <<x>>}
      BY <1>1, <3>2, <3>3, AnswerQueue
    <3> QED  BY <3>1, <3>2, <3>4, <3>5, OneAnswer
  <2>2. CASE \E q \in {<<"key">>, << >>} : replies' = [replies EXCEPT !.auth = q]
    <3>1. "key" \in AuthAnswers
      BY DEF AuthAnswers
    <3>2. PICK q \in {<<"key">>, << >>} : replies' = [replies EXCEPT !.auth = q]
      BY <2>2
    <3>3. q \in Seq(AuthAnswers) /\ AtMostOne(q) /\ q # <<"select">>
      BY <3>1, OneAnswer
    <3> QED  BY <3>2, <3>3, AnswersReplaced
  <2> QED  BY <1>2, <2>1, <2>2
<1>5. /\ http' \in [now : Nat, stale : Nat]
      /\ method # "bora" => http'.now = 0 /\ http'.stale = 0
  BY DEF Client!onAuthConnected, ClientTypes, OneLogin
<1>6. UNCHANGED <<method, delayTime, game, inGame, timers>>
  BY DEF Client!onAuthConnected
<1>7. ClientTypes' /\ NormalEnd' /\ Client!Alive' /\ Client!InGameConnected'
  BY <1>3, <1>4, <1>5, <1>6 DEF ClientTypes, NormalEnd, Client!Alive, Client!InGameConnected
<1>8. OneLogin'
  BY <1>1, <1>3, <1>4, <1>5, <1>6 DEF OneLogin
<1> QED  BY <1>7, <1>8

\* An answer of the auth server is read, the next request is sent, and the session
\* goes on or is closed.
LEMMA AnswerReadStep ==
  ASSUME ClientInv, Client!AuthReads, NEW q,
         replies' = [replies EXCEPT !.auth = q],
         \/ q = Tail(replies.auth)
         \/ \E x \in AuthAnswers : /\ q = Client!Asked(Tail(replies.auth), auth.st, x)
                                   /\ x = "select" => auth'.listed,
         auth' \in [st : Streams, normal : BOOLEAN, listed : BOOLEAN],
         auth'.st \in {auth.st, "shutdown", "closing"}, auth'.normal = auth.normal,
         timers' \in [delay : BOOLEAN, gg : BOOLEAN], timers'.delay = timers.delay,
         http' \in [now : Nat, stale : Nat], method # "bora" => http' = http,
         UNCHANGED <<method, game, inGame>>
  PROVE  ClientInv'
<1>1. /\ replies.auth # << >> /\ auth.st \in {"connected", "shutdown"}
      /\ replies.auth \in Seq(AuthAnswers)
  BY DEF Client!AuthReads, Client!Readable, ClientInv, ClientTypes
<1>2. q \in Seq(AuthAnswers)
  <2>1. Tail(replies.auth) \in Seq(AuthAnswers)
    BY <1>1, HeadTailProperties
  <2>2. ASSUME NEW x \in AuthAnswers PROVE Client!Asked(Tail(replies.auth), auth.st, x) \in Seq(AuthAnswers)
    BY <2>1, AnswerQueue
  <2> QED  BY <2>1, <2>2
<1>3. replies' \in [auth : Seq(AuthAnswers), game : Seq(GameAnswers)] /\ replies'.auth = q
  BY <1>2, AnswersReplaced DEF ClientInv
<1>4. ASSUME method # "bora"
      PROVE  AtMostOne(q) /\ (q = <<"select">> => auth'.listed) /\ ~auth.normal
  <2>1. Tail(replies.auth) = << >> /\ ~auth.normal
    BY <1>1, <1>4, AnswerQueue DEF ClientInv, OneLogin, AuthAnswers
  <2>2. CASE q = Tail(replies.auth)
    <3>1. "key" \in AuthAnswers
      BY DEF AuthAnswers
    <3> QED  BY <2>1, <2>2, <3>1, OneAnswer
  <2>3. CASE q # Tail(replies.auth)
    <3>1. PICK x \in AuthAnswers : /\ q = Client!Asked(<< >>, auth.st, x)
                                   /\ x = "select" => auth'.listed
      BY <2>1, <2>3
    <3>2. q \in {<< >>, <<x>>}
      BY <3>1 DEF Client!Asked
    <3> QED  BY <2>1, <3>1, <3>2, OneAnswer
  <2> QED  BY <2>2, <2>3
<1>5. ClientTypes' /\ NormalEnd' /\ Client!Alive' /\ Client!InGameConnected'
  BY <1>1, <1>3 DEF ClientInv, ClientTypes, NormalEnd, Client!Alive, Client!InGameConnected
<1>6. OneLogin'
  BY <1>1, <1>3, <1>4 DEF ClientInv, OneLogin
<1> QED  BY <1>5, <1>6, ClientKept

\* The auth session is closed, or its shutdown is done.
LEMMA AuthClosesStep ==
  ASSUME ClientInv, auth.st \in {"connected", "shutdown"},
         auth' \in [st : Streams, normal : BOOLEAN, listed : BOOLEAN],
         auth'.st \in {"shutdown", "closing"},
         auth'.normal = auth.normal, auth'.listed = auth.listed,
         UNCHANGED <<method, delayTime, game, replies, inGame, timers, http>>
  PROVE  ClientInv'
<1>1. ClientTypes' /\ NormalEnd' /\ Client!Alive' /\ Client!InGameConnected'
  BY DEF ClientInv, ClientTypes, NormalEnd, Client!Alive, Client!InGameConnected
<1>2. OneLogin'
  BY DEF ClientInv, OneLogin, Client!Readable
<1> QED  BY <1>1, <1>2, ClientKept

\* The game session goes on, or is closed, without being unconnected yet.
LEMMA GameGoesOnStep ==
  ASSUME ClientInv, game' \in Streams, game' = "unconnected" <=> game = "unconnected",
         inGame' \in BOOLEAN, inGame' => game' # "unconnected",
         replies' \in [auth : Seq(AuthAnswers), game : Seq(GameAnswers)],
         replies'.auth = replies.auth,
         timers' \in [delay : BOOLEAN, gg : BOOLEAN], timers'.delay = timers.delay,
         UNCHANGED <<method, delayTime, auth, http>>
  PROVE  ClientInv'
<1>1. ClientTypes' /\ NormalEnd' /\ Client!Alive' /\ Client!InGameConnected'
  BY DEF ClientInv, ClientTypes, NormalEnd, Client!Alive, Client!InGameConnected
<1>2. OneLogin'
  BY DEF ClientInv, OneLogin
<1> QED  BY <1>1, <1>2, ClientKept

\* Reading goes on with the auth session that is read, or closes it.
LEMMA PasswordKeyStep ==
  ASSUME ClientInv, NEW ok \in BOOLEAN, Client!onPacketAuthPasswordKey(ok)
  PROVE  ClientInv'
<1>1. /\ Client!AuthReads
      /\ auth.st \in {"connected", "shutdown"}
      /\ auth \in [st : Streams, normal : BOOLEAN, listed : BOOLEAN]
  BY DEF Client!onPacketAuthPasswordKey, Client!AuthReads, Client!Readable, ClientInv, ClientTypes
<1>2. UNCHANGED <<method, game, inGame, timers>>
  BY DEF Client!onPacketAuthPasswordKey
<1>3. /\ auth' \in [st : Streams, normal : BOOLEAN, listed : BOOLEAN]
      /\ auth'.st \in {auth.st, "shutdown", "closing"} /\ auth'.normal = auth.normal
  BY <1>1 DEF Client!onPacketAuthPasswordKey, Client!Close, Streams
<1>4. http' \in [now : Nat, stale : Nat] /\ (method # "bora" => http' = http)
  BY DEF Client!onPacketAuthPasswordKey, ClientInv, ClientTypes
<1>5. \/ replies' = [replies EXCEPT !.auth = Tail(replies.auth)]
      \/ \E x \in {"ok", "fail"} :
           replies' = [replies EXCEPT !.auth = Client!Asked(Tail(replies.auth), auth.st, x)]
  BY DEF Client!onPacketAuthPasswordKey, Client!Either, ClientInv, ClientTypes
<1>6. timers' \in [delay : BOOLEAN, gg : BOOLEAN] /\ timers'.delay = timers.delay
  BY <1>2 DEF ClientInv, ClientTypes
<1>7. CASE replies' = [replies EXCEPT !.auth = Tail(replies.auth)]
  BY <1>1, <1>2, <1>3, <1>4, <1>6, <1>7, AnswerReadStep
<1>8. ASSUME NEW x \in {"ok", "fail"},
             replies' = [replies EXCEPT !.auth = Client!Asked(Tail(replies.auth), auth.st, x)]
      PROVE  ClientInv'
  <2>1. x \in AuthAnswers /\ x # "select"
    BY DEF AuthAnswers
  <2> QED  BY <1>1, <1>2, <1>3, <1>4, <1>6, <1>8, <2>1, AnswerReadStep
<1> QED  BY <1>5, <1>7, <1>8

LEMMA AuthResultStep ==
  ASSUME ClientInv, Client!onAuthResult
  PROVE  ClientInv'
<1>1. /\ Client!AuthReads
      /\ auth.st \in {"connected", "shutdown"}
      /\ auth \in [st : Streams, normal : BOOLEAN, listed : BOOLEAN]
  BY DEF Client!onAuthResult, Client!AuthReads, Client!Readable, ClientInv, ClientTypes
<1>2. UNCHANGED <<method, game, inGame, timers, http>>
  BY DEF Client!onAuthResult
<1>3. /\ auth' \in [st : Streams, normal : BOOLEAN, listed : BOOLEAN]
      /\ auth'.st \in {auth.st, "shutdown", "closing"} /\ auth'.normal = auth.normal
  BY <1>1 DEF Client!onAuthResult, Client!Abort, Streams
<1>4. http' \in [now : Nat, stale : Nat] /\ (method # "bora" => http' = http)
  BY <1>2 DEF ClientInv, ClientTypes
<1>5. \/ replies' = [replies EXCEPT !.auth = Tail(replies.auth)]
      \/ \E x \in {"list", "other_list"} :
           replies' = [replies EXCEPT !.auth = Client!Asked(Tail(replies.auth), auth.st, x)]
  BY DEF Client!onAuthResult, Client!Either, ClientInv, ClientTypes
<1>6. timers' \in [delay : BOOLEAN, gg : BOOLEAN] /\ timers'.delay = timers.delay
  BY <1>2 DEF ClientInv, ClientTypes
<1>7. CASE replies' = [replies EXCEPT !.auth = Tail(replies.auth)]
  BY <1>1, <1>2, <1>3, <1>4, <1>6, <1>7, AnswerReadStep
<1>8. ASSUME NEW x \in {"list", "other_list"},
             replies' = [replies EXCEPT !.auth = Client!Asked(Tail(replies.auth), auth.st, x)]
      PROVE  ClientInv'
  <2>1. x \in AuthAnswers /\ x # "select"
    BY DEF AuthAnswers
  <2> QED  BY <1>1, <1>2, <1>3, <1>4, <1>6, <1>8, <2>1, AnswerReadStep
<1> QED  BY <1>5, <1>7, <1>8

LEMMA ServerListStep ==
  ASSUME ClientInv, Client!onServerList
  PROVE  ClientInv'
<1>1. /\ Client!AuthReads
      /\ auth.st \in {"connected", "shutdown"}
      /\ auth \in [st : Streams, normal : BOOLEAN, listed : BOOLEAN]
  BY DEF Client!onServerList, Client!AuthReads, Client!Readable, ClientInv, ClientTypes
<1>2. UNCHANGED <<method, game, inGame, http>>
  BY DEF Client!onServerList
<1>3. /\ auth' \in [st : Streams, normal : BOOLEAN, listed : BOOLEAN]
      /\ auth'.st \in {auth.st, "shutdown", "closing"} /\ auth'.normal = auth.normal
      /\ auth'.listed
  BY <1>1 DEF Client!onServerList, Client!ListKept, Client!Close, Streams
<1>4. http' \in [now : Nat, stale : Nat] /\ (method # "bora" => http' = http)
  BY <1>2 DEF ClientInv, ClientTypes
<1>5. \/ replies' = [replies EXCEPT !.auth = Tail(replies.auth)]
      \/ replies' = [replies EXCEPT !.auth = Client!Asked(Tail(replies.auth), auth.st, "select")]
  BY DEF Client!onServerList, ClientInv, ClientTypes
<1>6. timers' \in [delay : BOOLEAN, gg : BOOLEAN] /\ timers'.delay = timers.delay
  BY DEF Client!onServerList, ClientInv, ClientTypes
<1>7. CASE replies' = [replies EXCEPT !.auth = Tail(replies.auth)]
  BY <1>1, <1>2, <1>3, <1>4, <1>6, <1>7, AnswerReadStep
<1>8. CASE replies' = [replies EXCEPT !.auth = Client!Asked(Tail(replies.auth), auth.st, "select")]
  <2>1. "select" \in AuthAnswers
    BY DEF AuthAnswers
  <2> QED  BY <1>1, <1>2, <1>3, <1>4, <1>6, <1>8, <2>1, AnswerReadStep
<1> QED  BY <1>5, <1>7, <1>8

\* The password for the game server: the auth session has done its work.
LEMMA SelectServerStep ==
  ASSUME ClientInv, NEW ok \in BOOLEAN, Client!onPacketSelectServerResult(ok)
  PROVE  ClientInv'
<1>1. /\ Client!AuthReads
      /\ replies.auth # << >> /\ replies.auth \in Seq(AuthAnswers)
      /\ auth.st \in {"connected", "shutdown"}
      /\ auth \in [st : Streams, normal : BOOLEAN, listed : BOOLEAN]
      /\ game \in Streams
  BY DEF Client!onPacketSelectServerResult, Client!AuthReads, Client!Readable, ClientInv, ClientTypes
<1>2. /\ UNCHANGED <<method, inGame, timers, http>>
      /\ replies' = [replies EXCEPT !.auth = Tail(replies.auth)]
  BY DEF Client!onPacketSelectServerResult, ClientInv, ClientTypes
<1>3. CASE ~ok
  <2>1. /\ auth' \in [st : Streams, normal : BOOLEAN, listed : BOOLEAN]
        /\ auth'.st \in {auth.st, "shutdown", "closing"} /\ auth'.normal = auth.normal
        /\ game' = game
    BY <1>1, <1>3 DEF Client!onPacketSelectServerResult, Client!Close, Streams
  <2>2. /\ http' \in [now : Nat, stale : Nat] /\ (method # "bora" => http' = http)
        /\ timers' \in [delay : BOOLEAN, gg : BOOLEAN] /\ timers'.delay = timers.delay
    BY <1>2 DEF ClientInv, ClientTypes
  <2> QED  BY <1>1, <1>2, <2>1, <2>2, AnswerReadStep
<1>4. CASE ok
  <2>1. /\ auth' \in [st : Streams, normal : BOOLEAN, listed : BOOLEAN]
        /\ auth'.st = "shutdown" /\ auth'.normal
    BY <1>1, <1>4 DEF Client!onPacketSelectServerResult, Client!ClosedNormally, Client!Close, Streams
  <2>2. /\ game' \in Streams /\ game' # "unconnected"
    BY <1>1, <1>4 DEF Client!onPacketSelectServerResult, Client!Connect, Streams
  <2>3. /\ Tail(replies.auth) \in Seq(AuthAnswers)
        /\ method # "bora" => Tail(replies.auth) = << >> /\ ~timers.delay
    BY <1>1, AnswerQueue, HeadTailProperties DEF ClientInv, OneLogin, AuthAnswers
  <2>4. /\ replies' \in [auth : Seq(AuthAnswers), game : Seq(GameAnswers)]
        /\ replies'.auth = Tail(replies.auth)
    BY <1>2, <2>3, AnswersReplaced DEF ClientInv
  <2>5. ClientTypes' /\ NormalEnd' /\ Client!Alive' /\ Client!InGameConnected'
    BY <1>2, <2>1, <2>2, <2>4 DEF ClientInv, ClientTypes, NormalEnd, Client!Alive, Client!InGameConnected
  <2>6. method # "bora" => AtMostOne(<< >>) /\ << >> # <<"select">>
    BY OneAnswer DEF AuthAnswers
  <2>7. OneLogin'
    BY <1>2, <2>1, <2>3, <2>4, <2>6 DEF ClientInv, OneLogin
  <2> QED  BY <2>5, <2>7, ClientKept
<1> QED  BY <1>3, <1>4

\* The answer of the web server, maybe to an earlier connection.
LEMMA HttpAnswerStep ==
  ASSUME ClientInv, NEW stale \in BOOLEAN, NEW ok \in BOOLEAN, Client!HttpAnswer(stale, ok)
  PROVE  ClientInv'
<1>1. method = "bora"
  BY DEF Client!HttpAnswer, ClientInv, OneLogin
<1>2. UNCHANGED <<method, delayTime, game, inGame, timers>>
  BY DEF Client!HttpAnswer
<1>3. http' \in [now : Nat, stale : Nat]
  BY DEF Client!HttpAnswer, ClientInv, ClientTypes
<1>4. /\ auth' \in [st : Streams, normal : BOOLEAN, listed : BOOLEAN]
      /\ auth'.st \in {auth.st, "shutdown", "closing"} /\ auth'.normal = auth.normal
  <2>1. auth' \in {auth, [auth EXCEPT !.st = Client!Close(@)]}
    BY DEF Client!HttpAnswer, Client!Login
  <2> QED  BY <2>1 DEF ClientInv, ClientTypes, Client!Close, Streams
<1>5. replies' \in [auth : Seq(AuthAnswers), game : Seq(GameAnswers)]
  <2>1. CASE ok
    <3>1. PICK x \in {"ok", "fail"} :
            replies' = [replies EXCEPT !.auth = Client!Asked(replies.auth, auth.st, x)]
      BY <2>1 DEF Client!HttpAnswer, Client!Login, Client!Either, ClientInv, ClientTypes
    <3>2. x \in AuthAnswers /\ replies.auth \in Seq(AuthAnswers)
      BY DEF AuthAnswers, ClientInv, ClientTypes
    <3>3. PICK q \in Seq(AuthAnswers) : q = Client!Asked(replies.auth, auth.st, x)
      BY <3>2, AnswerQueue
    <3> QED  BY <3>1, <3>3, AnswersReplaced DEF ClientInv
  <2>2. CASE ~ok
    BY <2>2 DEF Client!HttpAnswer, ClientInv, ClientTypes
  <2> QED  BY <2>1, <2>2
<1>6. ClientTypes' /\ NormalEnd' /\ Client!Alive' /\ Client!InGameConnected'
  BY <1>2, <1>3, <1>4, <1>5 DEF ClientInv, ClientTypes, NormalEnd, Client!Alive, Client!InGameConnected
<1>7. OneLogin'
  BY <1>1, <1>2 DEF OneLogin
<1> QED  BY <1>6, <1>7, ClientKept

\* delayedConnect: the next login begins, or the delay before it.
LEMMA DelayedConnect ==
  ASSUME NEW a \in [st : Streams, normal : BOOLEAN, listed : BOOLEAN],
         timers \in [delay : BOOLEAN, gg : BOOLEAN],
         NEW d, d = Client!delayedConnect(a),
         auth' = d.auth, timers' = [timers EXCEPT !.delay = d.delay]
  PROVE  /\ auth' \in [st : Streams, normal : BOOLEAN, listed : BOOLEAN]
         /\ timers' \in [delay : BOOLEAN, gg : BOOLEAN]
         /\ auth'.listed = a.listed
         /\ \/ auth' = a /\ timers'.delay
            \/ /\ auth'.st = (IF a.st = "unconnected" THEN "connecting" ELSE a.st)
               /\ ~auth'.normal
               /\ timers'.delay = timers.delay
<1>1. CASE delayTime
  BY <1>1 DEF Client!delayedConnect
<1>2. CASE ~delayTime
  <2>1. auth' = Client!Connecting(a) /\ timers' = [timers EXCEPT !.delay = timers.delay]
    BY <1>2 DEF Client!delayedConnect
  <2> QED  BY <2>1, ConnectingSession
<1> QED  BY <1>1, <1>2

LEMMA AuthUnconnectedStep ==
  ASSUME ClientInv, Client!AuthUnconnected
  PROVE  ClientInv'
<1>1. /\ auth.st = "closing"
      /\ auth \in [st : Streams, normal : BOOLEAN, listed : BOOLEAN]
      /\ timers \in [delay : BOOLEAN, gg : BOOLEAN]
      /\ UNCHANGED <<method, game, inGame, http>>
  BY DEF Client!AuthUnconnected, ClientInv, ClientTypes
<1>2. /\ replies' \in [auth : Seq(AuthAnswers), game : Seq(GameAnswers)]
      /\ replies'.auth = << >>
      /\ AtMostOne(<< >>) /\ << >> # <<"select">>
  <2>1. << >> \in Seq(AuthAnswers) /\ AtMostOne(<< >>) /\ << >> # <<"select">>
    BY OneAnswer DEF AuthAnswers
  <2> QED  BY <2>1, AnswersReplaced DEF Client!AuthUnconnected, ClientInv
<1>3. CASE auth.normal
  <2>1. /\ auth' \in [st : Streams, normal : BOOLEAN, listed : BOOLEAN]
        /\ auth'.st = "unconnected" /\ ~auth'.normal /\ timers' = timers
    BY <1>1, <1>3 DEF Client!AuthUnconnected, Streams
  <2>2. ClientTypes' /\ NormalEnd' /\ Client!Alive' /\ Client!InGameConnected'
    BY <1>1, <1>2, <1>3, <2>1 DEF ClientInv, ClientTypes, NormalEnd, Client!Alive, Client!InGameConnected
  <2>3. OneLogin'
    BY <1>1, <1>2, <1>3, <2>1 DEF ClientInv, OneLogin, Client!Readable
  <2> QED  BY <2>2, <2>3, ClientKept
<1>4. CASE ~auth.normal
  <2>0. PICK a : a = [auth EXCEPT !.st = "unconnected"]
    OBVIOUS
  <2>1. /\ a \in [st : Streams, normal : BOOLEAN, listed : BOOLEAN]
        /\ a.st = "unconnected" /\ ~a.normal
    BY <1>1, <1>4, <2>0 DEF Streams
  <2>2. PICK d : d = Client!delayedConnect(a) /\ auth' = d.auth
                 /\ timers' = [timers EXCEPT !.delay = d.delay]
    BY <1>4, <2>0 DEF Client!AuthUnconnected
  <2>3. /\ auth' \in [st : Streams, normal : BOOLEAN, listed : BOOLEAN]
        /\ timers' \in [delay : BOOLEAN, gg : BOOLEAN]
        /\ ~auth'.normal
        /\ \/ auth'.st = "unconnected" /\ timers'.delay
           \/ auth'.st = "connecting" /\ timers'.delay = timers.delay
    BY <1>1, <2>1, <2>2, DelayedConnect
  <2>4. ClientTypes' /\ NormalEnd' /\ Client!Alive' /\ Client!InGameConnected'
    BY <1>1, <1>2, <2>3 DEF ClientInv, ClientTypes, NormalEnd, Client!Alive, Client!InGameConnected
  <2>5. OneLogin'
    BY <1>1, <1>2, <1>4, <2>3 DEF ClientInv, OneLogin, Client!Readable
  <2> QED  BY <2>4, <2>5, ClientKept
<1> QED  BY <1>3, <1>4

LEMMA GameUnconnectedStep ==
  ASSUME ClientInv, Client!GameUnconnected
  PROVE  ClientInv'
<1>1. /\ game = "closing" /\ game' = "unconnected" /\ inGame' = FALSE
      /\ auth \in [st : Streams, normal : BOOLEAN, listed : BOOLEAN]
      /\ timers \in [delay : BOOLEAN, gg : BOOLEAN]
      /\ UNCHANGED <<method, http>>
  BY DEF Client!GameUnconnected, Client!StopsPlaying, ClientInv, ClientTypes
<1>2. /\ replies' \in [auth : Seq(AuthAnswers), game : Seq(GameAnswers)]
      /\ replies'.auth = replies.auth
  <2>1. << >> \in Seq(GameAnswers)
    OBVIOUS
  <2> QED  BY <2>1 DEF Client!GameUnconnected, ClientInv, ClientTypes
<1>3. PICK d : d = Client!delayedConnect(auth) /\ auth' = d.auth
               /\ timers' = [timers EXCEPT !.delay = d.delay]
  BY DEF Client!GameUnconnected
<1>4. /\ auth' \in [st : Streams, normal : BOOLEAN, listed : BOOLEAN]
      /\ timers' \in [delay : BOOLEAN, gg : BOOLEAN]
      /\ auth'.listed = auth.listed
      /\ \/ auth' = auth /\ timers'.delay
         \/ /\ auth'.st = (IF auth.st = "unconnected" THEN "connecting" ELSE auth.st)
            /\ ~auth'.normal
            /\ timers'.delay = timers.delay
  BY <1>1, <1>3, DelayedConnect
<1>5. ClientTypes' /\ NormalEnd' /\ Client!Alive' /\ Client!InGameConnected'
  <2>1. ClientTypes' /\ Client!InGameConnected'
    BY <1>1, <1>2, <1>4 DEF ClientInv, ClientTypes, Client!InGameConnected, Streams
  <2>2. NormalEnd' /\ Client!Alive'
    BY <1>1, <1>4 DEF ClientInv, NormalEnd, Client!Alive
  <2> QED  BY <2>1, <2>2
<1>6. OneLogin'
  <2> SUFFICES ASSUME method # "bora" PROVE OneLogin'
    BY <1>1 DEF OneLogin
  <2>1. /\ http.now = 0 /\ http.stale = 0 /\ AtMostOne(replies.auth)
        /\ replies.auth = << >>
        /\ auth.st = "unconnected" \/ auth.normal
        /\ ~timers.delay
    BY <1>1 DEF ClientInv, OneLogin
  <2>2. << >> # <<"select">>
    BY OneAnswer DEF AuthAnswers
  <2> QED  BY <1>1, <1>2, <1>4, <2>1, <2>2 DEF OneLogin, ClientInv, NormalEnd
<1> QED  BY <1>5, <1>6, ClientKept

LEMMA DelayExpiredStep ==
  ASSUME ClientInv, Client!onDelayRecoExpired
  PROVE  ClientInv'
<1>1. /\ timers.delay
      /\ timers' \in [delay : BOOLEAN, gg : BOOLEAN] /\ ~timers'.delay
      /\ auth' = Client!Connecting(auth)
      /\ auth \in [st : Streams, normal : BOOLEAN, listed : BOOLEAN]
      /\ UNCHANGED <<method, game, replies, inGame, http>>
  BY DEF Client!onDelayRecoExpired, ClientInv, ClientTypes
<1>2. /\ auth' \in [st : Streams, normal : BOOLEAN, listed : BOOLEAN]
      /\ ~auth'.normal /\ auth'.listed = auth.listed
      /\ auth'.st = IF auth.st = "unconnected" THEN "connecting" ELSE auth.st
  BY <1>1, ConnectingSession
<1>3. ClientTypes' /\ NormalEnd' /\ Client!Alive' /\ Client!InGameConnected'
  BY <1>1, <1>2 DEF ClientInv, ClientTypes, NormalEnd, Client!Alive, Client!InGameConnected
<1>4. OneLogin'
  <2>1. << >> # <<"select">>
    BY OneAnswer DEF AuthAnswers
  <2> QED  BY <1>1, <1>2, <2>1 DEF ClientInv, OneLogin, NormalEnd
<1> QED  BY <1>3, <1>4, ClientKept

\* What the game session does by itself.
LEMMA GameStreamStep ==
  ASSUME ClientInv,
         \/ \E ok \in BOOLEAN : Client!onGameStreamConnected(ok)
         \/ Client!onGamePacketReceived \/ Client!Kicks
         \/ Client!onGGTimerExpired \/ Client!GameShutdown
         \/ \E reset \in BOOLEAN : Client!GameLost(reset)
  PROVE  ClientInv'
<1>1. /\ game \in Streams /\ inGame \in BOOLEAN
      /\ inGame => game # "unconnected"
      /\ timers \in [delay : BOOLEAN, gg : BOOLEAN]
      /\ replies \in [auth : Seq(AuthAnswers), game : Seq(GameAnswers)]
  BY DEF ClientInv, ClientTypes, Client!InGameConnected
<1>2. ASSUME NEW ok \in BOOLEAN, Client!onGameStreamConnected(ok)
      PROVE  ClientInv'
  <2>1. /\ game' \in Streams /\ (game' = "unconnected" <=> game = "unconnected")
        /\ game' # "unconnected"
        /\ UNCHANGED <<method, delayTime, auth, inGame, timers, http>>
    BY <1>2 DEF Client!onGameStreamConnected, Streams
  <2>2. /\ replies' \in [auth : Seq(AuthAnswers), game : Seq(GameAnswers)]
        /\ replies'.auth = replies.auth
    <3>1. \A x \in {"ok", "fail"} : <<x>> \in Seq(GameAnswers)
      BY DEF GameAnswers
    <3>2. replies' = replies \/ \E x \in {"ok", "fail"} : replies' = [replies EXCEPT !.game = <<x>>]
      BY <1>2 DEF Client!onGameStreamConnected, Client!Either
    <3> QED  BY <1>1, <3>1, <3>2
  <2> QED  BY <1>1, <2>1, <2>2, GameGoesOnStep
<1>3. CASE Client!onGamePacketReceived
  <2>1. /\ game' \in Streams /\ (game' = "unconnected" <=> game = "unconnected")
        /\ game' # "unconnected"
        /\ inGame' \in BOOLEAN
        /\ UNCHANGED <<method, delayTime, auth, timers, http>>
    BY <1>1, <1>3 DEF Client!onGamePacketReceived, Client!Readable, Client!Abort, Client!Playing, Streams
  <2>2. PICK answer : /\ answer = Head(replies.game)
                      /\ replies' = [replies EXCEPT !.game =
                           CASE answer = "ok" -> Client!Asked(Tail(@), game, "characters")
                             [] answer = "characters" -> Client!Asked(Tail(@), game, "login")
                             [] OTHER -> Tail(@)]
    BY <1>3 DEF Client!onGamePacketReceived
  <2>3. PICK q : q = Tail(replies.game)
    OBVIOUS
  <2>4. q \in Seq(GameAnswers)
    BY <1>1, <1>3, <2>3, HeadTailProperties DEF Client!onGamePacketReceived
  <2>5. Append(q, "characters") \in Seq(GameAnswers) /\ Append(q, "login") \in Seq(GameAnswers)
    BY <2>4 DEF GameAnswers
  <2>6. \E r \in Seq(GameAnswers) : replies' = [replies EXCEPT !.game = r]
    BY <1>1, <2>2, <2>3, <2>4, <2>5 DEF Client!Asked
  <2>7. /\ replies' \in [auth : Seq(AuthAnswers), game : Seq(GameAnswers)]
        /\ replies'.auth = replies.auth
    BY <1>1, <2>6
  <2> QED  BY <1>1, <2>1, <2>7, GameGoesOnStep
<1>4. CASE Client!Kicks
  <2>1. <<"kicked">> \in Seq(GameAnswers)
    BY DEF GameAnswers
  <2>2. /\ replies' \in [auth : Seq(AuthAnswers), game : Seq(GameAnswers)]
        /\ replies'.auth = replies.auth
        /\ UNCHANGED <<method, delayTime, auth, game, inGame, timers, http>>
    BY <1>1, <1>4, <2>1 DEF Client!Kicks
  <2> QED  BY <1>1, <2>2, GameGoesOnStep
<1>5. CASE Client!onGGTimerExpired
  <2>1. /\ game' \in Streams /\ (game' = "unconnected" <=> game = "unconnected")
        /\ timers' \in [delay : BOOLEAN, gg : BOOLEAN] /\ timers'.delay = timers.delay
        /\ UNCHANGED <<method, delayTime, auth, replies, inGame, http>>
    BY <1>1, <1>5 DEF Client!onGGTimerExpired, Client!Close, Streams
  <2> QED  BY <1>1, <2>1, GameGoesOnStep
<1>6. CASE Client!GameShutdown \/ \E reset \in BOOLEAN : Client!GameLost(reset)
  <2>1. /\ game' \in Streams /\ (game' = "unconnected" <=> game = "unconnected")
        /\ UNCHANGED <<method, delayTime, auth, replies, inGame, timers, http>>
    BY <1>1, <1>6 DEF Client!GameShutdown, Client!GameLost, Client!Close, Client!Abort, Streams
  <2> QED  BY <1>1, <2>1, GameGoesOnStep
<1> QED  BY <1>2, <1>3, <1>4, <1>5, <1>6

LEMMA AuthStreamStep ==
  ASSUME ClientInv, Client!AuthShutdown \/ \E reset \in BOOLEAN : Client!AuthLost(reset)
  PROVE  ClientInv'
<1>1. auth \in [st : Streams, normal : BOOLEAN, listed : BOOLEAN]
  BY DEF ClientInv, ClientTypes
<1>2. /\ auth.st \in {"connected", "shutdown"}
      /\ auth' \in [st : Streams, normal : BOOLEAN, listed : BOOLEAN]
      /\ auth'.st \in {"shutdown", "closing"}
      /\ auth'.normal = auth.normal /\ auth'.listed = auth.listed
      /\ UNCHANGED <<method, delayTime, game, replies, inGame, timers, http>>
  BY <1>1 DEF Client!AuthShutdown, Client!AuthLost, Client!Close, Client!Abort, Streams
<1> QED  BY <1>2, AuthClosesStep

\* A client makes one login at a time and never stops trying: it always waits for a
\* connection or for the delay, the delay excludes a login under way, the server is
\* selected from the list of the same login, and it is in the game only while it is
\* connected, in whatever order its two connections end and whatever fails.
THEOREM LoginKeptCorrect == Client!Spec => []Client!LoginKept
<1>1. Client!Init => ClientInv
  BY ClientStart
<1>2. ClientInv /\ [Client!Next]_Client!vars => ClientInv'
  <2> SUFFICES ASSUME ClientInv, [Client!Next]_Client!vars PROVE ClientInv'
    OBVIOUS
  <2>1. CASE UNCHANGED Client!vars
    BY <2>1 DEF Client!vars, ClientInv, ClientTypes, NormalEnd, OneLogin, Client!Alive, Client!InGameConnected
  <2>2. CASE Client!Next
    BY <2>2, AuthConnectedStep, PasswordKeyStep, SelectServerStep, HttpAnswerStep,
       AuthResultStep, ServerListStep, AuthUnconnectedStep, GameStreamStep,
       GameUnconnectedStep, DelayExpiredStep, AuthStreamStep DEF Client!Next
  <2> QED  BY <2>1, <2>2
<1>3. ClientInv => Client!LoginKept
  <2> SUFFICES ASSUME ClientInv PROVE Client!LoginKept
    OBVIOUS
  <2>1. Client!OneAttempt
    BY DEF ClientInv, OneLogin, NormalEnd, Client!OneAttempt
  <2>2. Client!ServerSelected
    <3> SUFFICES ASSUME method # "bora", NEW i \in DOMAIN replies.auth, replies.auth[i] = "select",
                        Client!Readable(auth.st)
                 PROVE  auth.listed
      BY DEF Client!ServerSelected
    <3>1. AtMostOne(replies.auth)
      BY DEF ClientInv, OneLogin
    <3>2. replies.auth = <<"select">>
      BY <3>1 DEF AtMostOne
    <3> QED  BY <3>2 DEF ClientInv, OneLogin
  <2> QED  BY <2>1, <2>2 DEF ClientInv, Client!LoginKept
<1> QED  BY <1>1, <1>2, <1>3, PTL DEF Client!Spec

-----------------------------------------------------------------------------
(* The filter module on disk and in the filters                             *)

CONSTANTS Proxies, MaxUploads, MaxCrashes

VARIABLES main, used, writing, broken, memory, filters, uploads, crashes, worked

Library == INSTANCE FilterLibrary

LibraryTypes ==
  /\ main \in Nat /\ uploads \in Nat
  /\ used \in [0 .. 1 -> Nat]
  /\ memory \in [current : 0 .. 1, last : Int, loaded : Nat]
  /\ filters \in [Proxies -> Int]

\* As LibraryKept, but a file can be found again whatever was uploaded.
LibraryInv ==
  /\ LibraryTypes
  /\ Library!FiltersAlive
  /\ Library!LoadedOnDisk
  /\ worked => main # 0 \/ used[0] # 0 \/ used[1] # 0

\* The file that is taken next, and the name it is kept under.
LEMMA CandidateFile ==
  ASSUME LibraryInv, NEW c, c = Library!Candidate, NEW file, file = Library!Taken(c)
  PROVE  /\ c.from \in {"main", "used", "none"} /\ c.current \in 0 .. 1 /\ c.last \in Int
         /\ file \in Nat
         /\ c.from = "main" => file # 0 /\ file = main
         /\ c.from \in {"main", "none"} => c.current = memory.current
         /\ c.from = "used" => memory.loaded = 0 /\ main = 0
         /\ c.from = "used" /\ file = 0 => used[0] = 0 /\ used[1] = 0
<1>1. /\ memory.current \in 0 .. 1 /\ memory.last \in Int
      /\ Library!FileSize \in {0, 1, 2}
      /\ Library!FileSize = 0 <=> main = 0
  BY DEF LibraryInv, LibraryTypes, Library!FileSize
<1>2. /\ Library!findUsedIndexOnDisk(used, memory.current) \in 0 .. 1
      /\ used[Library!findUsedIndexOnDisk(used, memory.current)] = 0 => used[0] = 0 /\ used[1] = 0
  BY <1>1 DEF Library!findUsedIndexOnDisk, LibraryInv, LibraryTypes
<1>3. CASE Library!FileSize > 0 /\ memory.last \in {Library!FileSize, -1}
  <2>1. c = [from |-> "main", current |-> memory.current, last |-> Library!FileSize]
    BY <1>3 DEF Library!Candidate
  <2> QED  BY <1>1, <1>3, <2>1 DEF Library!Taken, LibraryInv, LibraryTypes
<1>4. CASE ~(Library!FileSize > 0 /\ memory.last \in {Library!FileSize, -1})
           /\ memory.loaded = 0 /\ Library!FileSize = 0
  <2>1. c = [from |-> "used", current |-> Library!findUsedIndexOnDisk(used, memory.current),
             last |-> memory.last]
    BY <1>4 DEF Library!Candidate
  <2> QED  BY <1>1, <1>2, <1>4, <2>1 DEF Library!Taken, LibraryInv, LibraryTypes
<1>5. CASE ~(Library!FileSize > 0 /\ memory.last \in {Library!FileSize, -1})
           /\ ~(memory.loaded = 0 /\ Library!FileSize = 0)
  <2>1. c = [from |-> "none", current |-> memory.current, last |-> Library!FileSize]
    BY <1>5 DEF Library!Candidate
  <2> QED  BY <1>1, <1>5, <2>1 DEF Library!Taken, LibraryInv, LibraryTypes
<1> QED  BY <1>3, <1>4, <1>5

\* What is on disk after any number of the operations: a file to find, if there
\* was one; and the loaded module, unless a new one was taken under its name.
LEMMA DiskKept ==
  ASSUME LibraryInv, NEW c, c = Library!Candidate, NEW file, file = Library!Taken(c),
         NEW k \in 0 .. 3, k = 0 \/ c.from # "none",
         k = 3 => file # 0,
         NEW d, d = Library!Disk(c, k)
  PROVE  /\ d.main \in Nat /\ d.used \in [0 .. 1 -> Nat]
         /\ worked => d.main # 0 \/ d.used[0] # 0 \/ d.used[1] # 0
         /\ k < 3 /\ c.from # "used" => d.used[memory.current] = used[memory.current]
         /\ k = 3 => d.used[1 - c.current] = file
<1>1. /\ c.from \in {"main", "used", "none"} /\ c.current \in 0 .. 1
      /\ file \in Nat
      /\ c.from = "main" => file # 0 /\ file = main
      /\ c.from \in {"main", "none"} => c.current = memory.current
      /\ c.from = "used" => main = 0 /\ file = used[c.current]
      /\ c.from = "used" /\ file = 0 => used[0] = 0 /\ used[1] = 0
  BY CandidateFile DEF Library!Taken
<1>2. main \in Nat /\ used \in [0 .. 1 -> Nat]
  BY DEF LibraryInv, LibraryTypes
<1>3. worked => main # 0 \/ used[0] # 0 \/ used[1] # 0
  BY DEF LibraryInv
<1>4. CASE k = 0
  BY <1>1, <1>2, <1>3, <1>4 DEF Library!Disk
<1>5. CASE k = 1
  <2>1. d = [main |-> main, used |-> [used EXCEPT ![1 - c.current] = 0]]
    BY <1>5 DEF Library!Disk
  <2> QED  BY <1>1, <1>2, <1>3, <1>5, <2>1
<1>6. PICK m : m = IF file = 0 THEN [used EXCEPT ![1 - c.current] = 0]
                   ELSE IF c.from = "main" THEN [[used EXCEPT ![1 - c.current] = 0] EXCEPT ![1 - c.current] = file]
                   ELSE [[used EXCEPT ![1 - c.current] = 0] EXCEPT ![1 - c.current] = file, ![c.current] = 0]
  OBVIOUS
<1>7. /\ m \in [0 .. 1 -> Nat] /\ m[1 - c.current] = file
      /\ c.from = "main" => m[c.current] = used[c.current]
  BY <1>1, <1>2, <1>6
<1>8. CASE k = 2
  <2>1. d = [main |-> IF c.from = "main" THEN 0 ELSE main, used |-> m]
    BY <1>6, <1>8 DEF Library!Disk
  <2> QED  BY <1>1, <1>2, <1>3, <1>7, <1>8, <2>1
<1>9. CASE k = 3
  <2>1. d = [main |-> IF c.from = "main" THEN 0 ELSE main, used |-> [m EXCEPT ![c.current] = 0]]
    BY <1>6, <1>9 DEF Library!Disk
  <2> QED  BY <1>1, <1>2, <1>3, <1>7, <1>9, <2>1
<1> QED  BY <1>4, <1>5, <1>8, <1>9

LEMMA LoadStep ==
  ASSUME LibraryInv, Library!loadModule
  PROVE  LibraryInv'
<1>1. PICK c : c = Library!Candidate
  OBVIOUS
<1>2. PICK file : file = Library!Taken(c)
  OBVIOUS
<1>3. PICK loads \in BOOLEAN : loads = (c.from # "none" /\ Library!CanLoad(file))
  OBVIOUS
<1>4. PICK k \in 0 .. 3 : k = IF c.from = "none" THEN 0 ELSE IF loads THEN 3 ELSE 2
  OBVIOUS
<1>5. PICK d : d = Library!Disk(c, k)
  OBVIOUS
<1>6. /\ main' = d.main /\ used' = d.used
      /\ memory' = IF loads THEN [current |-> 1 - c.current, last |-> c.last, loaded |-> file]
                   ELSE [memory EXCEPT !.current = c.current, !.last = c.last]
      /\ filters' = IF loads THEN Library!reloadAllFilters(file) ELSE filters
      /\ worked' = (worked \/ loads)
      /\ UNCHANGED uploads
  BY <1>1, <1>2, <1>3, <1>4, <1>5 DEF Library!loadModule
<1>7. /\ c.from \in {"main", "used", "none"} /\ c.current \in 0 .. 1 /\ c.last \in Int
      /\ file \in Nat
      /\ c.from \in {"main", "none"} => c.current = memory.current
      /\ c.from = "used" => memory.loaded = 0
  BY <1>1, <1>2, CandidateFile
<1>8. loads => file # 0 /\ k = 3
  BY <1>3, <1>4 DEF Library!CanLoad
<1>9. k = 3 => loads
  BY <1>4
<1>10. /\ d.main \in Nat /\ d.used \in [0 .. 1 -> Nat]
       /\ worked => d.main # 0 \/ d.used[0] # 0 \/ d.used[1] # 0
       /\ k < 3 /\ c.from # "used" => d.used[memory.current] = used[memory.current]
       /\ k = 3 => d.used[1 - c.current] = file
  <2>1. k = 0 \/ c.from # "none"
    BY <1>4
  <2> QED  BY <1>1, <1>2, <1>5, <1>8, <1>9, <2>1, DiskKept
<1>11. /\ memory \in [current : 0 .. 1, last : Int, loaded : Nat]
       /\ filters \in [Proxies -> Int] /\ uploads \in Nat
       /\ \A p \in Proxies : filters[p] \in {-1, memory.loaded}
       /\ memory.loaded # 0 => used[memory.current] = memory.loaded
  BY DEF LibraryInv, LibraryTypes, Library!FiltersAlive, Library!LoadedOnDisk, Library!None
<1>12. CASE loads
  <2>1. /\ memory' \in [current : 0 .. 1, last : Int, loaded : Nat]
        /\ memory'.loaded = file /\ memory'.current = 1 - c.current
    BY <1>6, <1>7, <1>12
  <2>2. /\ filters' \in [Proxies -> Int]
        /\ \A p \in Proxies : filters'[p] \in {-1, file}
    BY <1>6, <1>7, <1>11, <1>12 DEF Library!reloadAllFilters, Library!None
  <2>3. used'[0] # 0 \/ used'[1] # 0
    BY <1>6, <1>7, <1>8, <1>10, <1>12
  <2> QED
    BY <1>6, <1>8, <1>10, <1>11, <1>12, <2>1, <2>2, <2>3
       DEF LibraryInv, LibraryTypes, Library!FiltersAlive, Library!LoadedOnDisk, Library!None
<1>13. CASE ~loads
  <2>1. /\ memory' \in [current : 0 .. 1, last : Int, loaded : Nat]
        /\ memory'.loaded = memory.loaded /\ memory'.current = c.current
        /\ filters' = filters
    BY <1>6, <1>7, <1>11, <1>13
  <2>2. memory.loaded # 0 => used'[memory'.current] = memory.loaded
    BY <1>4, <1>6, <1>7, <1>10, <1>11, <1>13, <2>1
  <2> QED
    BY <1>6, <1>10, <1>11, <1>13, <2>1, <2>2
       DEF LibraryInv, LibraryTypes, Library!FiltersAlive, Library!LoadedOnDisk, Library!None
<1> QED  BY <1>12, <1>13

\* The process starts again from what it left on disk.
LEMMA RestartStep ==
  ASSUME LibraryInv, NEW d, Library!Restart(d),
         d.main \in Nat, d.used \in [0 .. 1 -> Nat],
         worked => d.main # 0 \/ d.used[0] # 0 \/ d.used[1] # 0
  PROVE  LibraryInv'
<1>1. /\ main' = d.main /\ used' = d.used
      /\ memory' = [current |-> 0, last |-> -1, loaded |-> 0]
      /\ filters' = [p \in Proxies |-> -1]
      /\ UNCHANGED <<uploads, worked>>
  BY DEF Library!Restart, Library!Started, Library!None
<1>2. memory' \in [current : 0 .. 1, last : Int, loaded : Nat] /\ memory'.loaded = 0
  BY <1>1
<1>3. filters' \in [Proxies -> Int] /\ \A p \in Proxies : filters'[p] = -1
  BY <1>1
<1> QED
  BY <1>1, <1>2, <1>3
     DEF LibraryInv, LibraryTypes, Library!FiltersAlive, Library!LoadedOnDisk, Library!None

LEMMA KilledStep ==
  ASSUME LibraryInv, Library!Killed
  PROVE  LibraryInv'
<1>1. PICK c : c = Library!Candidate
  OBVIOUS
<1>2. PICK file : file = Library!Taken(c)
  OBVIOUS
<1>3. PICK k \in IF c.from = "none" THEN {0} ELSE IF Library!CanLoad(file) THEN 0 .. 3 ELSE 0 .. 2 :
        Library!Restart(Library!Disk(c, k))
  BY <1>1, <1>2 DEF Library!Killed
<1>4. PICK d : d = Library!Disk(c, k)
  OBVIOUS
<1>5. k \in 0 .. 3 /\ (k = 0 \/ c.from # "none") /\ (k = 3 => file # 0)
  BY DEF Library!CanLoad
<1>6. /\ d.main \in Nat /\ d.used \in [0 .. 1 -> Nat]
      /\ worked => d.main # 0 \/ d.used[0] # 0 \/ d.used[1] # 0
  BY <1>1, <1>2, <1>4, <1>5, DiskKept
<1> QED  BY <1>3, <1>4, <1>6, RestartStep

LEMMA FiltersStep ==
  ASSUME LibraryInv,
         \/ \E p \in Proxies : Library!createFilter(p) \/ Library!unregisterFilter(p)
         \/ Library!reloadFiltersCommand
  PROVE  LibraryInv'
<1>1. /\ filters \in [Proxies -> Int] /\ memory.loaded \in Nat
      /\ \A p \in Proxies : filters[p] \in {-1, memory.loaded}
      /\ main \in Nat /\ used \in [0 .. 1 -> Nat]
      /\ worked => main # 0 \/ used[0] # 0 \/ used[1] # 0
  BY DEF LibraryInv, LibraryTypes, Library!FiltersAlive, Library!None
<1>2. ASSUME /\ filters' \in [Proxies -> Int]
             /\ \A p \in Proxies : filters'[p] \in {-1, memory.loaded}
             /\ UNCHANGED <<main, used, memory, uploads, worked>>
      PROVE  LibraryInv'
  BY <1>2 DEF LibraryInv, LibraryTypes, Library!FiltersAlive, Library!LoadedOnDisk, Library!None
<1>3. ASSUME NEW p \in Proxies, Library!createFilter(p) \/ Library!unregisterFilter(p)
      PROVE  LibraryInv'
  <2>1. UNCHANGED <<main, used, memory, uploads, worked>>
    BY <1>3 DEF Library!createFilter, Library!unregisterFilter
  <2>2. \E x \in {-1, memory.loaded} : filters' = [filters EXCEPT ![p] = x]
    BY <1>3 DEF Library!createFilter, Library!unregisterFilter, Library!None
  <2>3. /\ filters' \in [Proxies -> Int]
        /\ \A q \in Proxies : filters'[q] \in {-1, memory.loaded}
    BY <1>1, <2>2
  <2> QED  BY <1>2, <2>1, <2>3
<1>4. CASE Library!reloadFiltersCommand
  <2>1. CASE memory.loaded = 0 /\ \E p \in Proxies : filters[p] # Library!None
    <3>1. PICK d : d = [main |-> main, used |-> used] /\ Library!Restart(d)
      BY <1>4, <2>1 DEF Library!reloadFiltersCommand
    <3>2. d.main = main /\ d.used = used
      BY <3>1
    <3> QED  BY <1>1, <3>1, <3>2, RestartStep
  <2>2. CASE ~(memory.loaded = 0 /\ \E p \in Proxies : filters[p] # Library!None)
    <3>1. /\ filters' = Library!reloadAllFilters(memory.loaded)
          /\ UNCHANGED <<main, used, memory, uploads, worked>>
      BY <1>4, <2>2 DEF Library!reloadFiltersCommand
    <3>2. /\ filters' \in [Proxies -> Int]
          /\ \A q \in Proxies : filters'[q] \in {-1, memory.loaded}
      BY <1>1, <3>1 DEF Library!reloadAllFilters, Library!None
    <3> QED  BY <1>2, <3>1, <3>2
  <2> QED  BY <2>1, <2>2
<1> QED  BY <1>3, <1>4

LEMMA UploadStep ==
  ASSUME LibraryInv,
         (\E ok \in BOOLEAN : Library!Upload(ok)) \/ \E m \in writing : Library!Uploaded(m)
  PROVE  LibraryInv'
<1>1. UNCHANGED <<used, memory, filters, worked>>
  BY DEF Library!Upload, Library!Uploaded
<1>2. /\ main' \in Nat /\ uploads' \in Nat
      /\ main' = main \/ main' # 0
  BY DEF Library!Upload, Library!Uploaded, LibraryInv, LibraryTypes
<1> QED
  BY <1>1, <1>2 DEF LibraryInv, LibraryTypes, Library!FiltersAlive, Library!LoadedOnDisk

\* The filters are always those of the library that is loaded; its file stays on disk
\* under the name it was loaded from; and once a module has worked the process finds
\* one again, whenever it is killed between two operations of loadModule on the files.
THEOREM LibraryKeptCorrect ==
  Library!Init /\ [][Library!Next]_Library!vars => []Library!LibraryKept
<1>1. Library!Init => LibraryInv
  <2> SUFFICES ASSUME Library!Init PROVE LibraryInv
    OBVIOUS
  <2>1. /\ main = 0 /\ uploads = 0 /\ worked = FALSE
        /\ used = [i \in 0 .. 1 |-> 0]
        /\ memory = [current |-> 0, last |-> -1, loaded |-> 0]
        /\ filters = [p \in Proxies |-> -1]
    BY DEF Library!Init, Library!Started, Library!None
  <2> QED
    BY <2>1 DEF LibraryInv, LibraryTypes, Library!FiltersAlive, Library!LoadedOnDisk, Library!None
<1>2. LibraryInv /\ [Library!Next]_Library!vars => LibraryInv'
  <2> SUFFICES ASSUME LibraryInv, [Library!Next]_Library!vars PROVE LibraryInv'
    OBVIOUS
  <2>1. CASE UNCHANGED Library!vars
    BY <2>1 DEF Library!vars, LibraryInv, LibraryTypes, Library!FiltersAlive, Library!LoadedOnDisk
  <2>2. CASE Library!Next
    BY <2>2, LoadStep, KilledStep, FiltersStep, UploadStep DEF Library!Next
  <2> QED  BY <2>1, <2>2
<1>3. LibraryInv => Library!LibraryKept
  BY DEF LibraryInv, Library!LibraryKept, Library!FoundAgain
<1> QED  BY <1>1, <1>2, <1>3, PTL

-----------------------------------------------------------------------------
(* A client and its server, with the filters between them                   *)

CONSTANTS Filters, MaxPackets

VARIABLES client, server, pendingMessages, toServer, toClient, chain

Pair == INSTANCE FilterSessions

ClientStates == {"accepted", "connected", "shutdown", "aborted", "gone"}

ServerStates == {"none", "connecting", "connected", "shutdown", "aborted", "scheduled", "deleted"}

Packets == [sent : Nat, through : Seq(Nat), written : Seq(Nat)]

PairTypes ==
  /\ client \in [st : ClientStates, peer : BOOLEAN]
  /\ server \in [st : ServerStates, peer : BOOLEAN, proxy : BOOLEAN]
  /\ pendingMessages \in Seq(Nat)
  /\ toServer \in Packets /\ toClient \in Packets
  /\ chain.keepsServer \in BOOLEAN

\* Either both sessions hold each other or neither does, and the filters hold
\* the client as long as its server session does.
HeldTogether ==
  /\ client.peer = server.peer /\ server.proxy = server.peer
  /\ client.peer => client.st # "gone" /\ server.st \notin {"scheduled", "deleted"}
  /\ ~client.peer => server.st # "none"
  /\ ~server.peer => client.st = "gone" \/ server.st \in {"scheduled", "deleted"}

\* The server session connects once the client is connected.
ServerFollows == client.st = "accepted" <=> server.st = "none"

\* What the client did not get is the end of what was let through to it, and
\* there is none as long as it is connected.
ClientMisses ==
  /\ \E rest \in Seq(Nat) : toClient.through = toClient.written \o rest
  /\ client.st \in {"accepted", "connected"} => toClient.written = toClient.through

PairInv ==
  /\ PairTypes
  /\ HeldTogether
  /\ ServerFollows
  /\ Pair!EndsTogether
  /\ Pair!NothingLost
  /\ ClientMisses

PacketVars == <<pendingMessages, toServer, toClient, chain>>

\* What is added to a part is added to the whole.
LEMMA AppendToBoth ==
  ASSUME NEW s \in Seq(Nat), NEW t \in Seq(Nat), NEW n \in Nat
  PROVE  Append(s \o t, n) = s \o Append(t, n)
<1> DEFINE l == Append(s \o t, n)
           r == s \o Append(t, n)
<1>1. l \in Seq(Nat) /\ r \in Seq(Nat) /\ Len(l) = Len(r)
  OBVIOUS
<1>2. \A i \in 1 .. Len(l) : l[i] = r[i]
  OBVIOUS
<1> QED
  BY <1>1, <1>2, SeqEqual

\* What is written to the client is a prefix of what was let through.
LEMMA PairFacts == PairInv => Pair!SessionsKept
<1> SUFFICES ASSUME PairInv PROVE Pair!SessionsKept
  OBVIOUS
<1>1. Pair!NoneDangling
  BY DEF PairInv, PairTypes, HeldTogether, Pair!NoneDangling
<1>2. Pair!ClientInOrder
  <2>1. PICK rest \in Seq(Nat) : toClient.through = toClient.written \o rest
    BY DEF PairInv, ClientMisses
  <2>2. toClient.written \in Seq(Nat)
    BY DEF PairInv, PairTypes, Packets
  <2>3. SubSeq(toClient.written \o rest, 1, Len(toClient.written)) = toClient.written
    BY <2>1, <2>2
  <2> QED
    BY <2>1, <2>3 DEF Pair!ClientInOrder
<1> QED
  BY <1>1, <1>2 DEF PairInv, Pair!SessionsKept

LEMMA PairStart == Pair!Init => PairInv
<1> SUFFICES ASSUME Pair!Init PROVE PairInv
  OBVIOUS
<1>1. << >> \in Seq(Nat) /\ << >> \o << >> = << >>
  OBVIOUS
<1>2. /\ client = [st |-> "accepted", peer |-> TRUE]
      /\ server = [st |-> "none", peer |-> TRUE, proxy |-> TRUE]
      /\ pendingMessages = << >>
      /\ toServer = [sent |-> 0, through |-> << >>, written |-> << >>]
      /\ toClient = [sent |-> 0, through |-> << >>, written |-> << >>]
  BY DEF Pair!Init, Pair!NoPackets
<1>3. chain.keepsServer \in BOOLEAN
  BY DEF Pair!Init
<1>4. PairTypes
  BY <1>1, <1>2, <1>3 DEF PairTypes, ClientStates, ServerStates, Packets
<1>5. HeldTogether /\ ServerFollows /\ Pair!EndsTogether
  BY <1>2 DEF HeldTogether, ServerFollows, Pair!EndsTogether, Pair!Open
<1>6. Pair!NothingLost
  BY <1>1, <1>2 DEF Pair!NothingLost
<1>7. ClientMisses
  BY <1>1, <1>2 DEF ClientMisses
<1> QED
  BY <1>4, <1>5, <1>6, <1>7 DEF PairInv

\* A step of the two sessions that no packet takes part in.
LEMMA SessionsStep ==
  ASSUME PairInv, UNCHANGED PacketVars,
         PairTypes', HeldTogether', ServerFollows', Pair!EndsTogether',
         server'.st = "connected" => server.st = "connected",
         client'.st \in {"accepted", "connected"} => client.st \in {"accepted", "connected"}
  PROVE  PairInv'
<1>1. Pair!NothingLost'
  BY DEF PairInv, Pair!NothingLost, PacketVars
<1>2. ClientMisses'
  BY DEF PairInv, ClientMisses, PacketVars
<1> QED
  BY <1>1, <1>2 DEF PairInv

LEMMA ClientConnectedStep == PairInv /\ Pair!onClientConnected => PairInv'
<1> SUFFICES ASSUME PairInv, Pair!onClientConnected PROVE PairInv'
  OBVIOUS
<1>1. /\ client.st = "accepted" /\ server.st = "none"
      /\ client' = [client EXCEPT !.st = "connected"]
      /\ server' = [server EXCEPT !.st = "connecting"]
      /\ UNCHANGED PacketVars
  BY DEF Pair!onClientConnected, PacketVars, PairInv, ServerFollows
<1>2. PairTypes'
  BY <1>1 DEF PairInv, PairTypes, ClientStates, ServerStates, PacketVars
<1>3. /\ client'.st = "connected" /\ client'.peer = client.peer
      /\ server'.st = "connecting" /\ server'.peer = server.peer /\ server'.proxy = server.proxy
  BY <1>1 DEF PairInv, PairTypes
<1>4. HeldTogether' /\ ServerFollows' /\ Pair!EndsTogether'
  BY <1>1, <1>3 DEF PairInv, HeldTogether, ServerFollows, Pair!EndsTogether
<1> QED
  BY <1>1, <1>2, <1>3, <1>4, SessionsStep

LEMMA ClientClosesStep == PairInv /\ Pair!ClientCloses => PairInv'
<1> SUFFICES ASSUME PairInv, Pair!ClientCloses PROVE PairInv'
  OBVIOUS
<1>1. /\ client.st = "connected" /\ UNCHANGED server /\ UNCHANGED PacketVars
      /\ client' = [client EXCEPT !.st = "shutdown"] \/ client' = [client EXCEPT !.st = "aborted"]
  BY DEF Pair!ClientCloses, PacketVars, Pair!Close, Pair!Aborted
<1>2. PairTypes'
  BY <1>1 DEF PairInv, PairTypes, ClientStates, PacketVars
<1>3. client'.st \in {"shutdown", "aborted"} /\ client'.peer = client.peer
  BY <1>1 DEF PairInv, PairTypes
<1>4. HeldTogether' /\ ServerFollows' /\ Pair!EndsTogether'
  BY <1>1, <1>3 DEF PairInv, HeldTogether, ServerFollows, Pair!EndsTogether, PacketVars
<1> QED
  BY <1>1, <1>2, <1>3, <1>4, SessionsStep

LEMMA ClientDisconnectedStep == PairInv /\ Pair!onClientDisconnected => PairInv'
<1> SUFFICES ASSUME PairInv, Pair!onClientDisconnected PROVE PairInv'
  OBVIOUS
<1> DEFINE detached == [server EXCEPT !.peer = FALSE, !.proxy = FALSE]
<1>1. /\ client.st \in {"shutdown", "aborted"} /\ UNCHANGED PacketVars
      /\ client' = [client EXCEPT !.st = "gone", !.peer = FALSE]
  BY DEF Pair!onClientDisconnected, PacketVars, Pair!Ending
<1>2. server' = IF ~client.peer THEN server
                ELSE IF chain.keepsServer THEN detached ELSE Pair!Close(detached)
  BY DEF Pair!onClientDisconnected, Pair!detachClient
<1>3. client'.st = "gone" /\ client'.peer = FALSE /\ client' \in [st : ClientStates, peer : BOOLEAN]
  BY <1>1 DEF PairInv, PairTypes, ClientStates
<1>4. /\ detached \in [st : ServerStates, peer : BOOLEAN, proxy : BOOLEAN]
      /\ detached.st = server.st /\ detached.peer = FALSE /\ detached.proxy = FALSE
  BY DEF PairInv, PairTypes
<1>5. /\ Pair!Close(detached) \in [st : ServerStates, peer : BOOLEAN, proxy : BOOLEAN]
      /\ Pair!Close(detached).peer = FALSE /\ Pair!Close(detached).proxy = FALSE
      /\ Pair!Close(detached).st = IF server.st = "connected" THEN "shutdown"
                                   ELSE IF server.st = "connecting" THEN "aborted" ELSE server.st
  BY <1>4 DEF Pair!Close, ServerStates
<1>6. /\ server' \in [st : ServerStates, peer : BOOLEAN, proxy : BOOLEAN]
      /\ server'.peer = FALSE /\ server'.proxy = FALSE
      /\ server'.st \in {server.st, "shutdown", "aborted"}
      /\ server'.st = "connected" => server.st = "connected"
      /\ server'.st = "none" => server.st = "none"
  <2>1. CASE ~client.peer
    BY <1>2, <2>1 DEF PairInv, PairTypes, HeldTogether
  <2>2. CASE client.peer
    BY <1>2, <1>4, <1>5, <2>2
  <2> QED
    BY <2>1, <2>2 DEF PairInv, PairTypes
<1>7. PairTypes'
  BY <1>1, <1>3, <1>6 DEF PairInv, PairTypes, PacketVars
<1>8. HeldTogether' /\ ServerFollows'
  BY <1>1, <1>3, <1>6 DEF PairInv, HeldTogether, ServerFollows
<1>9. Pair!EndsTogether'
  <2>1. ~chain.keepsServer => server'.st \notin {"connecting", "connected"}
    <3>1. CASE client.peer
      BY <1>2, <1>5, <3>1
    <3>2. CASE ~client.peer
      BY <1>1, <1>2, <3>2 DEF PairInv, PairTypes, HeldTogether
    <3> QED
      BY <3>1, <3>2 DEF PairInv, PairTypes
  <2> QED
    BY <1>1, <1>3, <2>1 DEF Pair!EndsTogether, Pair!Open, PacketVars
<1> QED
  BY <1>1, <1>3, <1>6, <1>7, <1>8, <1>9, SessionsStep

LEMMA ServerClosesStep == PairInv /\ Pair!ServerCloses => PairInv'
<1> SUFFICES ASSUME PairInv, Pair!ServerCloses PROVE PairInv'
  OBVIOUS
<1>1. /\ server.st \in {"connecting", "connected"} /\ UNCHANGED client /\ UNCHANGED PacketVars
      /\ server' = [server EXCEPT !.st = "shutdown"] \/ server' = [server EXCEPT !.st = "aborted"]
  BY DEF Pair!ServerCloses, PacketVars, Pair!Close, Pair!Aborted, Pair!Open
<1>2. PairTypes'
  BY <1>1 DEF PairInv, PairTypes, ServerStates, PacketVars
<1>3. server'.st \in {"shutdown", "aborted"} /\ server'.peer = server.peer /\ server'.proxy = server.proxy
  BY <1>1 DEF PairInv, PairTypes
<1>4. HeldTogether' /\ ServerFollows' /\ Pair!EndsTogether'
  BY <1>1, <1>3 DEF PairInv, HeldTogether, ServerFollows, Pair!EndsTogether, Pair!Open, PacketVars
<1> QED
  BY <1>1, <1>2, <1>3, <1>4, SessionsStep

LEMMA ServerDisconnectedStep == PairInv /\ Pair!onServerDisconnected => PairInv'
<1> SUFFICES ASSUME PairInv, Pair!onServerDisconnected PROVE PairInv'
  OBVIOUS
<1>1. /\ server.st \in {"shutdown", "aborted"} /\ UNCHANGED PacketVars
      /\ client' = Pair!DetachServer
  BY DEF Pair!onServerDisconnected, PacketVars, Pair!Ending
<1>2. /\ server' \in [st : ServerStates, peer : BOOLEAN, proxy : BOOLEAN]
      /\ server'.st = "scheduled" /\ server'.peer = FALSE /\ server'.proxy = FALSE
  BY DEF Pair!onServerDisconnected, Pair!detachClient, PairInv, PairTypes, HeldTogether, ServerStates
<1>3. /\ client' \in [st : ClientStates, peer : BOOLEAN]
      /\ client'.peer = FALSE
      /\ client'.st \notin {"accepted", "connected"}
      /\ client'.st = "gone" => client.st = "gone"
  <2>1. CASE server.peer
    <3> DEFINE c == [client EXCEPT !.peer = FALSE]
    <3>1. c \in [st : ClientStates, peer : BOOLEAN] /\ c.st = client.st /\ c.peer = FALSE
      BY DEF PairInv, PairTypes
    <3>2. client' = Pair!Close(c) /\ client.st # "accepted"
      BY <1>1, <2>1 DEF Pair!DetachServer, PairInv, ServerFollows
    <3>3. client.st # "connecting"
      BY DEF PairInv, PairTypes, ClientStates
    <3>4. CASE client.st = "connected"
      <4>1. client' = [c EXCEPT !.st = "shutdown"]
        BY <3>1, <3>2, <3>4 DEF Pair!Close
      <4> QED
        BY <3>1, <3>4, <4>1 DEF ClientStates
    <3>5. CASE client.st # "connected"
      <4>1. client' = c
        BY <3>1, <3>2, <3>3, <3>5 DEF Pair!Close
      <4> QED
        BY <3>1, <3>2, <3>5, <4>1
    <3> QED
      BY <3>4, <3>5
  <2>2. CASE ~server.peer
    BY <1>1, <2>2 DEF Pair!DetachServer, PairInv, PairTypes, HeldTogether
  <2> QED
    BY <2>1, <2>2 DEF PairInv, PairTypes
<1>4. PairTypes'
  BY <1>1, <1>2, <1>3 DEF PairInv, PairTypes, PacketVars
<1>5. HeldTogether' /\ ServerFollows' /\ Pair!EndsTogether'
  BY <1>2, <1>3 DEF HeldTogether, ServerFollows, Pair!EndsTogether, Pair!Open
<1> QED
  BY <1>1, <1>2, <1>3, <1>4, <1>5, SessionsStep

LEMMA DeleteStep == PairInv /\ Pair!deleteObjects => PairInv'
<1> SUFFICES ASSUME PairInv, Pair!deleteObjects PROVE PairInv'
  OBVIOUS
<1>1. /\ server.st = "scheduled" /\ UNCHANGED client /\ UNCHANGED PacketVars
      /\ server' = [server EXCEPT !.st = "deleted"]
  BY DEF Pair!deleteObjects, PacketVars
<1>2. PairTypes'
  BY <1>1 DEF PairInv, PairTypes, ServerStates, PacketVars
<1>3. server'.st = "deleted" /\ server'.peer = server.peer /\ server'.proxy = server.proxy
  BY <1>1 DEF PairInv, PairTypes
<1>4. HeldTogether' /\ ServerFollows' /\ Pair!EndsTogether'
  BY <1>1, <1>3 DEF PairInv, HeldTogether, ServerFollows, Pair!EndsTogether, Pair!Open, PacketVars
<1> QED
  BY <1>1, <1>2, <1>3, <1>4, SessionsStep

\* A connection that is made takes everything that waited for it, in order.
LEMMA ServerConnectedStep == PairInv /\ Pair!onServerConnected => PairInv'
<1> SUFFICES ASSUME PairInv, Pair!onServerConnected PROVE PairInv'
  OBVIOUS
<1>1. /\ server.st = "connecting" /\ UNCHANGED <<client, toClient, chain>>
      /\ server' = [server EXCEPT !.st = "connected"]
      /\ toServer' = [toServer EXCEPT !.written = @ \o pendingMessages]
      /\ pendingMessages' = << >>
  BY DEF Pair!onServerConnected
<1>2. /\ toServer.written \in Seq(Nat) /\ pendingMessages \in Seq(Nat) /\ toServer \in Packets
      /\ toServer.through = toServer.written \o pendingMessages
  BY DEF PairInv, PairTypes, Packets, Pair!NothingLost
<1>3. toServer.written \o pendingMessages \in Seq(Nat) /\ << >> \in Seq(Nat)
  BY <1>2
<1>4. /\ toServer' \in Packets /\ toServer'.through = toServer.through
      /\ toServer'.written = toServer.written \o pendingMessages
  BY <1>1, <1>2, <1>3 DEF Packets
<1>5. PairTypes'
  BY <1>1, <1>3, <1>4 DEF PairInv, PairTypes, ServerStates
<1>6. server'.st = "connected" /\ server'.peer = server.peer /\ server'.proxy = server.proxy
  BY <1>1 DEF PairInv, PairTypes
<1>7. HeldTogether' /\ ServerFollows' /\ Pair!EndsTogether'
  BY <1>1, <1>6 DEF PairInv, HeldTogether, ServerFollows, Pair!EndsTogether, Pair!Open
<1>8. Pair!NothingLost'
  <2>1. (toServer.written \o pendingMessages) \o << >> = toServer.written \o pendingMessages
    BY <1>3
  <2> QED
    BY <1>1, <1>2, <1>4, <2>1 DEF Pair!NothingLost
<1>9. ClientMisses'
  BY <1>1 DEF PairInv, ClientMisses
<1> QED
  BY <1>5, <1>7, <1>8, <1>9 DEF PairInv

LEMMA ClientPacketStep == PairInv /\ Pair!onClientPacketReceived => PairInv'
<1> SUFFICES ASSUME PairInv, Pair!onClientPacketReceived PROVE PairInv'
  OBVIOUS
<1> DEFINE n == toServer.sent + 1
<1>1. UNCHANGED <<client, server, toClient, chain>>
  BY DEF Pair!onClientPacketReceived
<1>2. Pair!SendPacket(n) \/ (toServer' = [toServer EXCEPT !.sent = @ + 1] /\ UNCHANGED pendingMessages)
  BY DEF Pair!onClientPacketReceived
<1>3. /\ toServer \in Packets /\ pendingMessages \in Seq(Nat) /\ n \in Nat
      /\ toServer.written \in Seq(Nat) /\ toServer.through \in Seq(Nat)
      /\ toServer.through = toServer.written \o pendingMessages
      /\ server.st = "connected" => pendingMessages = << >>
  BY DEF PairInv, PairTypes, Packets, Pair!NothingLost
<1>4. /\ toServer' \in Packets /\ pendingMessages' \in Seq(Nat)
      /\ toServer'.through = toServer'.written \o pendingMessages'
      /\ server.st = "connected" => pendingMessages' = << >>
  <2>1. CASE toServer' = [toServer EXCEPT !.sent = @ + 1] /\ UNCHANGED pendingMessages
    BY <1>3, <2>1 DEF Packets
  <2>2. CASE Pair!SendPacket(n) /\ server.st = "connected"
    <3>1. /\ toServer' = [toServer EXCEPT !.sent = n, !.through = Append(toServer.through, n),
                                          !.written = Append(toServer.written, n)]
          /\ pendingMessages' = pendingMessages
      BY <2>2 DEF Pair!SendPacket
    <3>2. Append(toServer.through, n) \in Seq(Nat) /\ Append(toServer.written, n) \in Seq(Nat)
      BY <1>3
    <3>3. toServer' \in Packets
      BY <1>3, <3>1, <3>2 DEF Packets
    <3>4. toServer'.through = Append(toServer.through, n) /\ toServer'.written = Append(toServer.written, n)
      BY <1>3, <3>1 DEF Packets
    <3>5. toServer.through = toServer.written
      BY <1>3, <2>2
    <3>6. Append(toServer.written, n) \o << >> = Append(toServer.written, n)
      BY <3>2
    <3>7. pendingMessages = << >> /\ pendingMessages' = << >>
      BY <1>3, <2>2, <3>1
    <3>8. toServer'.through = toServer'.written \o pendingMessages'
      BY <3>4, <3>5, <3>6, <3>7
    <3>9. pendingMessages' \in Seq(Nat)
      BY <1>3, <3>1
    <3> QED
      BY <3>3, <3>7, <3>8, <3>9
  <2>3. CASE Pair!SendPacket(n) /\ server.st # "connected"
    <3>1. /\ toServer' = [toServer EXCEPT !.sent = n, !.through = Append(toServer.through, n),
                                          !.written = toServer.written]
          /\ pendingMessages' = Append(pendingMessages, n)
      BY <2>3 DEF Pair!SendPacket
    <3>2. Append(toServer.through, n) \in Seq(Nat) /\ Append(pendingMessages, n) \in Seq(Nat)
      BY <1>3
    <3>3. toServer' \in Packets
      BY <1>3, <3>1, <3>2 DEF Packets
    <3>4. toServer'.through = Append(toServer.through, n) /\ toServer'.written = toServer.written
      BY <1>3, <3>1 DEF Packets
    <3>5. Append(toServer.written \o pendingMessages, n) = toServer.written \o Append(pendingMessages, n)
      BY <1>3, AppendToBoth
    <3> QED
      BY <1>3, <2>3, <3>1, <3>2, <3>3, <3>4, <3>5
  <2> QED
    BY <1>2, <2>1, <2>2, <2>3
<1>5. PairTypes'
  BY <1>1, <1>4 DEF PairInv, PairTypes
<1>6. HeldTogether' /\ ServerFollows' /\ Pair!EndsTogether'
  BY <1>1 DEF PairInv, HeldTogether, ServerFollows, Pair!EndsTogether
<1>7. Pair!NothingLost'
  BY <1>1, <1>4 DEF Pair!NothingLost
<1>8. ClientMisses'
  BY <1>1 DEF PairInv, ClientMisses
<1> QED
  BY <1>5, <1>6, <1>7, <1>8 DEF PairInv

\* A packet may be let through to a client that is closing, which does not get
\* it, nor any packet after it.
LEMMA ServerPacketStep == PairInv /\ Pair!onServerPacketReceived => PairInv'
<1> SUFFICES ASSUME PairInv, Pair!onServerPacketReceived PROVE PairInv'
  OBVIOUS
<1> DEFINE n == toClient.sent + 1
<1>1. UNCHANGED <<client, server, pendingMessages, toServer, chain>>
  BY DEF Pair!onServerPacketReceived
<1>2. PICK pass \in BOOLEAN :
        toClient' = [toClient EXCEPT !.sent = n,
                       !.through = IF pass /\ server.proxy THEN Append(@, n) ELSE @,
                       !.written = IF pass /\ server.proxy /\ client.st = "connected" THEN Append(@, n) ELSE @]
  BY DEF Pair!onServerPacketReceived, Pair!Verdicts
<1>3. /\ toClient \in Packets /\ n \in Nat
      /\ toClient.written \in Seq(Nat) /\ toClient.through \in Seq(Nat)
  BY DEF PairInv, PairTypes, Packets
<1>4. PICK rest \in Seq(Nat) : toClient.through = toClient.written \o rest
  BY DEF PairInv, ClientMisses
<1>5. client.st # "accepted"
  BY DEF PairInv, ServerFollows, Pair!onServerPacketReceived, Pair!Readable
<1>6. client.st = "connected" => toClient.written = toClient.through
  BY DEF PairInv, ClientMisses
<1>7. toClient' \in Packets /\ ClientMisses'
  <2>1. CASE ~(pass /\ server.proxy)
    <3>1. toClient' = [toClient EXCEPT !.sent = n]
      BY <1>2, <1>3, <2>1 DEF Packets
    <3>2. toClient' \in Packets /\ toClient'.through = toClient.through /\ toClient'.written = toClient.written
      BY <1>3, <3>1 DEF Packets
    <3> QED
      BY <1>1, <3>2 DEF PairInv, ClientMisses
  <2>2. CASE pass /\ server.proxy /\ client.st = "connected"
    <3>1. Append(toClient.through, n) \in Seq(Nat) /\ Append(toClient.written, n) \in Seq(Nat)
      BY <1>3
    <3>2. /\ toClient' \in Packets
          /\ toClient'.through = Append(toClient.through, n)
          /\ toClient'.written = Append(toClient.written, n)
      BY <1>2, <1>3, <2>2, <3>1 DEF Packets
    <3>3. toClient'.written = toClient'.through
      BY <1>6, <2>2, <3>2
    <3>4. toClient'.through = toClient'.written \o << >> /\ << >> \in Seq(Nat)
      <4>1. Append(toClient.written, n) \o << >> = Append(toClient.written, n)
        BY <3>1
      <4>2. << >> \in Seq(Nat)
        OBVIOUS
      <4> QED
        BY <3>2, <3>3, <4>1, <4>2
    <3> QED
      BY <3>2, <3>3, <3>4 DEF ClientMisses
  <2>3. CASE pass /\ server.proxy /\ client.st # "connected"
    <3>1. Append(toClient.through, n) \in Seq(Nat) /\ Append(rest, n) \in Seq(Nat)
      BY <1>3, <1>4
    <3>2. /\ toClient' \in Packets
          /\ toClient'.through = Append(toClient.through, n)
          /\ toClient'.written = toClient.written
      BY <1>2, <1>3, <2>3, <3>1 DEF Packets
    <3>3. toClient'.through = toClient'.written \o Append(rest, n)
      BY <1>3, <1>4, <3>2, AppendToBoth, ZenonT(40)
    <3>4. client'.st \notin {"accepted", "connected"}
      BY <1>1, <1>5, <2>3
    <3> QED
      BY <3>1, <3>2, <3>3, <3>4 DEF ClientMisses
  <2> QED
    BY <2>1, <2>2, <2>3
<1>8. PairTypes'
  BY <1>1, <1>7 DEF PairInv, PairTypes
<1>9. HeldTogether' /\ ServerFollows' /\ Pair!EndsTogether' /\ Pair!NothingLost'
  BY <1>1 DEF PairInv, HeldTogether, ServerFollows, Pair!EndsTogether, Pair!NothingLost
<1> QED
  BY <1>7, <1>8, <1>9 DEF PairInv

LEMMA PairSteps == PairInv /\ [Pair!Next]_Pair!vars => PairInv'
<1> SUFFICES ASSUME PairInv, [Pair!Next]_Pair!vars PROVE PairInv'
  OBVIOUS
<1>1. CASE UNCHANGED Pair!vars
  BY <1>1 DEF Pair!vars, PairInv, PairTypes, HeldTogether, ServerFollows, Pair!EndsTogether,
              Pair!NothingLost, ClientMisses
<1>2. CASE Pair!onClientConnected \/ Pair!onClientPacketReceived \/ Pair!ClientCloses \/ Pair!onClientDisconnected
  BY <1>2, ClientConnectedStep, ClientPacketStep, ClientClosesStep, ClientDisconnectedStep
<1>3. CASE Pair!onServerConnected \/ Pair!onServerPacketReceived \/ Pair!ServerCloses \/ Pair!onServerDisconnected
           \/ Pair!deleteObjects
  BY <1>3, ServerConnectedStep, ServerPacketStep, ServerClosesStep, ServerDisconnectedStep, DeleteStep
<1> QED
  BY <1>1, <1>2, <1>3 DEF Pair!Next

\* Neither session holds one that is deleted, what the filters let through to
\* the server is written to it in order and without a loss, one end that is gone
\* takes the other with it, and the client gets a prefix of what was let through
\* to it (ClientSession, ServerSession and EndpointProxy of rzfilter).
THEOREM SessionsKeptCorrect ==
  Pair!Init /\ [][Pair!Next]_Pair!vars => []Pair!SessionsKept
<1>1. Pair!Init => PairInv
  BY PairStart
<1>2. PairInv /\ [Pair!Next]_Pair!vars => PairInv'
  BY PairSteps
<1>3. PairInv => Pair!SessionsKept
  BY PairFacts
<1> QED
  BY <1>1, <1>2, <1>3, PTL

-----------------------------------------------------------------------------
(* The Lua state of a connection                                            *)

CONSTANTS Timers, MaxStates

VARIABLES filter, disk, luaTimers, strict, packet, made

Script == INSTANCE LuaSessionFilter WITH timers <- luaTimers

ScriptFiles == [ok : BOOLEAN, defines : SUBSET {"onPacket", "onUnknownPacket"}]

LuaTimers == [of : Nat, running : BOOLEAN, repeats : BOOLEAN]

ScriptTypes ==
  /\ made \in Nat
  /\ filter \in [state : Nat, handlers : SUBSET {"onPacket", "onUnknownPacket"},
                 current : Nat, new : Nat, loaded : ScriptFiles]
  /\ disk \in [time : Nat, script : ScriptFiles]
  /\ luaTimers \in [Timers -> LuaTimers]

\* Lua states are numbered in the order they were made, and no script is from
\* after the file on disk.
ScriptInv ==
  /\ ScriptTypes
  /\ filter.state <= made /\ filter.current <= disk.time
  /\ Script!SessionScriptKept

PacketUnchanged == UNCHANGED <<strict, packet>>

LEMMA ScriptStart == Script!Init => ScriptInv
<1> SUFFICES ASSUME Script!Init PROVE ScriptInv
  OBVIOUS
<1>1. /\ filter = [state |-> 0, handlers |-> {}, current |-> 0, new |-> 0, loaded |-> [ok |-> FALSE, defines |-> {}]]
      /\ luaTimers = [t \in Timers |-> [of |-> 0, running |-> FALSE, repeats |-> FALSE]]
      /\ made = 0
  BY DEF Script!Init, Script!NoTimer
<1>2. PICK script \in Script!Scripts : disk = [time |-> 1, script |-> script]
  BY DEF Script!Init
<1>3. script \in ScriptFiles
  BY DEF Script!Scripts, ScriptFiles
<1>4. [ok |-> FALSE, defines |-> {}] \in ScriptFiles
  BY DEF ScriptFiles
<1>5. ScriptTypes
  BY <1>1, <1>2, <1>3, <1>4 DEF ScriptTypes, LuaTimers
<1>6. filter.state <= made /\ filter.current <= disk.time
  BY <1>1, <1>2
<1>7. Script!TimersEnd /\ Script!ScriptLoaded
  BY <1>1 DEF Script!TimersEnd, Script!ScriptLoaded
<1>8. Script!StrictForward
  BY DEF Script!Init, Script!NoPacket, Script!StrictForward
<1> QED
  BY <1>5, <1>6, <1>7, <1>8 DEF ScriptInv, Script!SessionScriptKept

\* Closing a Lua state ends its timers, and leaves the others alone.
LEMMA CloseState ==
  ASSUME NEW ts \in [Timers -> LuaTimers], NEW state \in Nat
  PROVE  /\ Script!deinitLuaVM(ts, state) \in [Timers -> LuaTimers]
         /\ \A t \in Timers : /\ ts[t].of = state => Script!deinitLuaVM(ts, state)[t].of = 0
                              /\ ts[t].of # state => Script!deinitLuaVM(ts, state)[t] = ts[t]
<1>1. [of |-> 0, running |-> FALSE, repeats |-> FALSE] \in LuaTimers
  BY DEF LuaTimers
<1> QED
  BY <1>1 DEF Script!deinitLuaVM, Script!NoTimer

\* A script that is loaded creates timers in the new Lua state only.
LEMMA LoadState ==
  ASSUME made \in Nat, NEW ts \in [Timers -> LuaTimers], NEW new \in Script!Loaded(ts)
  PROVE  /\ new \in [Timers -> LuaTimers]
         /\ \A t \in Timers : new[t].of \in {ts[t].of, made + 1}
<1>1. CASE new = ts
  BY <1>1
<1>2. CASE \E t \in Timers, r \in BOOLEAN : new = [ts EXCEPT ![t] = [of |-> made + 1, running |-> TRUE, repeats |-> r]]
  <2>1. PICK t \in Timers, r \in BOOLEAN : new = [ts EXCEPT ![t] = [of |-> made + 1, running |-> TRUE, repeats |-> r]]
    BY <1>2
  <2>2. [of |-> made + 1, running |-> TRUE, repeats |-> r] \in LuaTimers
    BY DEF LuaTimers
  <2> QED
    BY <2>1, <2>2
<1> QED
  BY <1>1, <1>2 DEF Script!Loaded

\* A filter with a new Lua state, and timers of that state only.
LEMMA NewStateStep ==
  ASSUME ScriptInv, UNCHANGED disk, PacketUnchanged, made' = made + 1,
         filter' = Script!NewState(disk.time),
         luaTimers' \in [Timers -> LuaTimers],
         \A t \in Timers : luaTimers'[t].of \in {0, made + 1}
  PROVE  ScriptInv'
<1>1. /\ made \in Nat /\ disk.time \in Nat /\ disk.script \in ScriptFiles
      /\ disk \in [time : Nat, script : ScriptFiles]
  BY DEF ScriptInv, ScriptTypes
<1>2. Script!Defined(disk.script) \in SUBSET {"onPacket", "onUnknownPacket"}
  BY <1>1 DEF Script!Defined, ScriptFiles
<1>3. filter' = [state |-> made + 1, handlers |-> Script!Defined(disk.script),
                 current |-> disk.time, new |-> disk.time, loaded |-> disk.script]
  BY DEF Script!NewState
<1>4. ScriptTypes'
  BY <1>1, <1>2, <1>3 DEF ScriptTypes
<1>5. filter'.state <= made' /\ filter'.current <= disk'.time
  BY <1>1, <1>3
<1>6. Script!TimersEnd'
  BY <1>3 DEF Script!TimersEnd
<1>7. Script!ScriptLoaded'
  BY <1>3 DEF Script!ScriptLoaded, Script!Defined
<1>8. Script!StrictForward'
  BY DEF ScriptInv, Script!SessionScriptKept, Script!StrictForward, PacketUnchanged
<1> QED
  BY <1>4, <1>5, <1>6, <1>7, <1>8 DEF ScriptInv, Script!SessionScriptKept

LEMMA CreateFilterStep == ScriptInv /\ Script!createFilter => ScriptInv'
<1> SUFFICES ASSUME ScriptInv, Script!createFilter PROVE ScriptInv'
  OBVIOUS
<1>1. /\ made' = made + 1 /\ UNCHANGED disk /\ PacketUnchanged
      /\ filter' = Script!NewState(disk.time)
  BY DEF Script!createFilter, Script!Made, PacketUnchanged
<1>2. /\ made \in Nat /\ filter.state \in Nat /\ filter.state <= made /\ luaTimers \in [Timers -> LuaTimers]
      /\ \A t \in Timers : luaTimers[t].of \in {0, filter.state}
  BY DEF ScriptInv, ScriptTypes, Script!SessionScriptKept, Script!TimersEnd
<1>3. PICK ts \in Script!Loaded(luaTimers) : luaTimers' = Script!deinitLuaVM(ts, filter.state)
  BY DEF Script!createFilter
<1>4. /\ ts \in [Timers -> LuaTimers]
      /\ \A t \in Timers : ts[t].of \in {0, filter.state, made + 1}
  BY <1>2, LoadState
<1>5. luaTimers' \in [Timers -> LuaTimers]
  BY <1>2, <1>3, <1>4, CloseState
<1>6. \A t \in Timers : luaTimers'[t].of \in {0, made + 1}
  BY <1>2, <1>3, <1>4, CloseState
<1> QED
  BY <1>1, <1>5, <1>6, NewStateStep

LEMMA CheckReloadStep == ScriptInv /\ Script!onCheckReload => ScriptInv'
<1> SUFFICES ASSUME ScriptInv, Script!onCheckReload PROVE ScriptInv'
  OBVIOUS
<1>1. /\ made \in Nat /\ filter.state \in Nat /\ filter.state <= made /\ luaTimers \in [Timers -> LuaTimers]
      /\ \A t \in Timers : luaTimers[t].of \in {0, filter.state}
  BY DEF ScriptInv, ScriptTypes, Script!SessionScriptKept, Script!TimersEnd
<1>2. UNCHANGED disk /\ PacketUnchanged
  BY DEF Script!onCheckReload, PacketUnchanged
<1>3. CASE filter.new # filter.current /\ filter.new = disk.time
  <2> DEFINE closed == Script!deinitLuaVM(luaTimers, filter.state)
  <2>1. /\ made' = made + 1 /\ filter' = Script!NewState(disk.time)
        /\ luaTimers' \in Script!Loaded(closed)
    BY <1>3 DEF Script!onCheckReload, Script!Made
  <2>2. closed \in [Timers -> LuaTimers] /\ \A t \in Timers : closed[t].of = 0
    BY <1>1, CloseState
  <2> HIDE DEF closed
  <2>3. /\ luaTimers' \in [Timers -> LuaTimers]
        /\ \A t \in Timers : luaTimers'[t].of \in {0, made + 1}
    BY <1>1, <2>1, <2>2, LoadState
  <2> QED
    BY <1>2, <2>1, <2>3, NewStateStep
<1>4. CASE ~(filter.new # filter.current /\ filter.new = disk.time)
  <2>1. filter' = [filter EXCEPT !.new = disk.time] /\ UNCHANGED <<luaTimers, made>>
    BY <1>4 DEF Script!onCheckReload
  <2>2. /\ ScriptTypes'
        /\ filter'.state = filter.state /\ filter'.current = filter.current
        /\ filter'.handlers = filter.handlers /\ filter'.loaded = filter.loaded
    BY <1>2, <2>1 DEF ScriptInv, ScriptTypes
  <2>3. Script!SessionScriptKept'
    BY <1>2, <2>1, <2>2 DEF ScriptInv, Script!SessionScriptKept, Script!TimersEnd, Script!ScriptLoaded,
                            Script!StrictForward, Script!Defined, PacketUnchanged
  <2> QED
    BY <1>2, <2>1, <2>2, <2>3 DEF ScriptInv
<1> QED
  BY <1>3, <1>4

LEMMA DestroyFilterStep == ScriptInv /\ Script!destroyFilter => ScriptInv'
<1> SUFFICES ASSUME ScriptInv, Script!destroyFilter PROVE ScriptInv'
  OBVIOUS
<1>1. /\ filter' = [filter EXCEPT !.state = 0, !.handlers = {}]
      /\ luaTimers' = Script!deinitLuaVM(luaTimers, filter.state)
      /\ UNCHANGED <<disk, made>> /\ PacketUnchanged
  BY DEF Script!destroyFilter, PacketUnchanged
<1>2. /\ filter.state \in Nat /\ luaTimers \in [Timers -> LuaTimers] /\ made \in Nat
      /\ \A t \in Timers : luaTimers[t].of \in {0, filter.state}
  BY DEF ScriptInv, ScriptTypes, Script!SessionScriptKept, Script!TimersEnd
<1>3. luaTimers' \in [Timers -> LuaTimers] /\ \A t \in Timers : luaTimers'[t].of = 0
  BY <1>1, <1>2, CloseState
<1>4. ScriptTypes' /\ filter'.state = 0 /\ filter'.current = filter.current
  BY <1>1, <1>3 DEF ScriptInv, ScriptTypes
<1>5. Script!TimersEnd' /\ Script!ScriptLoaded'
  BY <1>3, <1>4 DEF Script!TimersEnd, Script!ScriptLoaded
<1>6. Script!StrictForward'
  BY <1>1 DEF ScriptInv, Script!SessionScriptKept, Script!StrictForward, PacketUnchanged
<1> QED
  BY <1>1, <1>2, <1>4, <1>5, <1>6 DEF ScriptInv, Script!SessionScriptKept

\* A file that is written is newer than the script of any Lua state.
LEMMA WriteStep == ScriptInv /\ Script!Write => ScriptInv'
<1> SUFFICES ASSUME ScriptInv, Script!Write PROVE ScriptInv'
  OBVIOUS
<1>1. PICK script \in Script!Scripts : disk' = [time |-> disk.time + 1, script |-> script]
  BY DEF Script!Write
<1>2. script \in ScriptFiles
  BY DEF Script!Scripts, ScriptFiles
<1>3. UNCHANGED <<filter, luaTimers, made>> /\ PacketUnchanged
  BY DEF Script!Write, PacketUnchanged
<1>4. disk.time \in Nat /\ filter.current \in Nat /\ filter.current <= disk.time
  BY DEF ScriptInv, ScriptTypes
<1>5. ScriptTypes' /\ filter'.state <= made' /\ filter'.current < disk'.time
  BY <1>1, <1>2, <1>3, <1>4 DEF ScriptInv, ScriptTypes
<1>6. Script!TimersEnd' /\ Script!ScriptLoaded'
  BY <1>3, <1>4, <1>5 DEF ScriptInv, ScriptTypes, Script!SessionScriptKept, Script!TimersEnd, Script!ScriptLoaded, Script!Defined
<1>7. Script!StrictForward'
  BY <1>3 DEF ScriptInv, Script!SessionScriptKept, Script!StrictForward, PacketUnchanged
<1>8. filter'.current <= disk'.time
  BY <1>1, <1>3, <1>4
<1> QED
  BY <1>5, <1>6, <1>7, <1>8 DEF ScriptInv, Script!SessionScriptKept

\* A script, or its end, does something with a timer of the open Lua state.
LEMMA TimerChange ==
  ASSUME ScriptInv, UNCHANGED <<filter, disk, made>>, PacketUnchanged,
         luaTimers' \in [Timers -> LuaTimers],
         \A t \in Timers : luaTimers'[t].of \in {luaTimers[t].of, filter.state}
  PROVE  ScriptInv'
<1>1. ScriptTypes'
  BY DEF ScriptInv, ScriptTypes
<1>2. Script!TimersEnd'
  BY DEF ScriptInv, Script!SessionScriptKept, Script!TimersEnd
<1>3. Script!ScriptLoaded' /\ Script!StrictForward'
  BY DEF ScriptInv, Script!SessionScriptKept, Script!ScriptLoaded, Script!StrictForward, Script!Defined,
         PacketUnchanged
<1> QED
  BY <1>1, <1>2, <1>3 DEF ScriptInv, Script!SessionScriptKept

LEMMA TimersStep ==
  ASSUME ScriptInv, NEW t \in Timers,
         Script!start(t) \/ Script!stop(t) \/ Script!again(t) \/ Script!onTimerCallback(t)
  PROVE  ScriptInv'
<1>1. UNCHANGED <<filter, disk, made>> /\ PacketUnchanged
  BY DEF Script!start, Script!stop, Script!again, Script!onTimerCallback, PacketUnchanged
<1>2. /\ luaTimers \in [Timers -> LuaTimers] /\ luaTimers[t] \in LuaTimers
      /\ luaTimers[t].repeats \in BOOLEAN /\ luaTimers[t].running \in BOOLEAN
      /\ filter.state \in Nat
  BY DEF ScriptInv, ScriptTypes, LuaTimers
<1>3. \/ \E r \in BOOLEAN : luaTimers' = [luaTimers EXCEPT ![t] = [of |-> filter.state, running |-> TRUE, repeats |-> r]]
      \/ \E running \in BOOLEAN : luaTimers' = [luaTimers EXCEPT ![t] = [luaTimers[t] EXCEPT !.running = running]]
  <2>1. CASE Script!start(t)
    BY <2>1 DEF Script!start
  <2>2. CASE Script!stop(t)
    <3>1. luaTimers' = [luaTimers EXCEPT ![t] = [luaTimers[t] EXCEPT !.running = FALSE]]
      BY <1>2, <2>2 DEF Script!stop
    <3> QED
      BY <3>1
  <2>3. CASE Script!again(t)
    <3> DEFINE running == luaTimers[t].running \/ luaTimers[t].repeats
    <3>1. luaTimers' = [luaTimers EXCEPT ![t] = [luaTimers[t] EXCEPT !.running = running]]
      BY <1>2, <2>3 DEF Script!again
    <3>2. running \in BOOLEAN
      OBVIOUS
    <3> QED
      BY <3>1, <3>2
  <2>4. CASE Script!onTimerCallback(t)
    <3>1. luaTimers' = [luaTimers EXCEPT ![t] = [luaTimers[t] EXCEPT !.running = luaTimers[t].repeats]]
      BY <1>2, <2>4 DEF Script!onTimerCallback
    <3> QED
      BY <1>2, <3>1
  <2> QED
    BY <2>1, <2>2, <2>3, <2>4
<1>4. /\ luaTimers' \in [Timers -> LuaTimers]
      /\ \A u \in Timers : luaTimers'[u].of \in {luaTimers[u].of, filter.state}
  <2>1. PICK timer \in LuaTimers : /\ timer.of \in {luaTimers[t].of, filter.state}
                                   /\ luaTimers' = [luaTimers EXCEPT ![t] = timer]
    <3>1. \A r \in BOOLEAN : LET timer == [of |-> filter.state, running |-> TRUE, repeats |-> r]
                            IN  timer \in LuaTimers /\ timer.of = filter.state
      BY <1>2 DEF LuaTimers
    <3>2. \A running \in BOOLEAN : LET timer == [luaTimers[t] EXCEPT !.running = running]
                                  IN  timer \in LuaTimers /\ timer.of = luaTimers[t].of
      BY <1>2 DEF LuaTimers
    <3> QED
      BY <1>3, <3>1, <3>2
  <2> QED
    BY <1>2, <2>1
<1> QED
  BY <1>1, <1>4, TimerChange

\* A packet that was not understood passes strictforward only by the word of
\* the script, or when no handler would look at it.
LEMMA PacketStep == ScriptInv /\ Script!onPacket => ScriptInv'
<1> SUFFICES ASSUME ScriptInv, Script!onPacket PROVE ScriptInv'
  OBVIOUS
<1>1. UNCHANGED <<filter, disk, luaTimers, strict, made>>
  BY DEF Script!onPacket
<1>2. PICK from \in Script!Sides, understood \in BOOLEAN, answer \in {"yes", "no", "none"} :
        packet' = [from |-> from, understood |-> understood, asked |-> Script!Call(from, understood, answer).asked,
                   answer |-> IF Script!Call(from, understood, answer).asked \in {"nobody", "strictforward"} THEN "none" ELSE answer,
                   forwarded |-> Script!Call(from, understood, answer).forwarded]
  BY DEF Script!onPacket
<1>3. packet'.forwarded /\ ~packet'.understood /\ strict[packet'.from] => packet'.answer = "yes" \/ packet'.asked = "nobody"
  BY <1>2 DEF Script!Call, Script!AskUnknown
<1>4. Script!StrictForward'
  BY <1>1, <1>3 DEF Script!StrictForward
<1>5. ScriptTypes' /\ filter'.state <= made' /\ filter'.current <= disk'.time
  BY <1>1 DEF ScriptInv, ScriptTypes
<1>6. Script!TimersEnd' /\ Script!ScriptLoaded'
  BY <1>1 DEF ScriptInv, Script!SessionScriptKept, Script!TimersEnd, Script!ScriptLoaded, Script!Defined
<1> QED
  BY <1>4, <1>5, <1>6 DEF ScriptInv, Script!SessionScriptKept

LEMMA ScriptSteps == ScriptInv /\ [Script!Next]_Script!vars => ScriptInv'
<1> SUFFICES ASSUME ScriptInv, [Script!Next]_Script!vars PROVE ScriptInv'
  OBVIOUS
<1>1. CASE UNCHANGED Script!vars
  BY <1>1 DEF Script!vars, ScriptInv, ScriptTypes, Script!SessionScriptKept, Script!TimersEnd,
              Script!ScriptLoaded, Script!StrictForward, Script!Defined
<1>2. CASE Script!createFilter \/ Script!destroyFilter \/ Script!Write \/ Script!onCheckReload \/ Script!onPacket
  BY <1>2, CreateFilterStep, DestroyFilterStep, WriteStep, CheckReloadStep, PacketStep
<1>3. CASE \E t \in Timers : Script!start(t) \/ Script!stop(t) \/ Script!again(t) \/ Script!onTimerCallback(t)
  BY <1>3, TimersStep
<1> QED
  BY <1>1, <1>2, <1>3 DEF Script!Next

\* No timer outlives the Lua state it would call into, whatever the order in
\* which filters are made anew, scripts change and timers fire; the handlers are
\* those of the script on disk as soon as its time says so; and strictforward
\* holds for what could not be understood (LuaMain and LuaTimer of rzfilter).
THEOREM SessionScriptKeptCorrect ==
  Script!Init /\ [][Script!Next]_Script!vars => []Script!SessionScriptKept
<1>1. Script!Init => ScriptInv
  BY ScriptStart
<1>2. ScriptInv /\ [Script!Next]_Script!vars => ScriptInv'
  BY ScriptSteps
<1>3. ScriptInv => Script!SessionScriptKept
  BY DEF ScriptInv
<1> QED
  BY <1>1, <1>2, <1>3, PTL

-----------------------------------------------------------------------------
(* The lines of the combat log                                              *)

CONSTANTS Entities, MaxEntities

VARIABLES entities, log, line, entered

Combat == INSTANCE CombatLog WITH
  Handles <- Entities, world <- entities, filter <- log, count <- entered

KindsOfEntity == {"none", "player", "pet", "monster", "item"}

CombatTypes ==
  /\ entities \in [Entities -> [kind : KindsOfEntity, number : Nat, master : Entities \union {0}]]
  /\ entered \in Nat
  /\ log = [players |-> log.players, file |-> log.file]
  /\ log.players = [h \in Entities |-> log.players[h]]

\* The name of an entity.
Names2(e, name) == Len(name) >= 2 /\ name[1] = e.kind /\ name[2] = e.number

\* What has a handle is named by the filter, except items.
KnowsAll ==
  \A h \in Entities : entities[h].kind \notin {"none", "item"} => Names2(entities[h], log.players[h])

CombatInv == CombatTypes /\ KnowsAll /\ Combat!CombatTold

\* Without a packet there is nothing to tell.
LEMMA NothingTold == ASSUME line = Combat!NoLine PROVE Combat!CombatTold
<1>1. DOMAIN line.lines = {} /\ DOMAIN line.event = {}
  BY DEF Combat!NoLine
<1> QED
  BY <1>1 DEF Combat!CombatTold, Combat!Named, Combat!ToldRight, Combat!Told

LEMMA CombatStarts == Combat!Init => CombatInv
<1> SUFFICES ASSUME Combat!Init PROVE CombatInv
  OBVIOUS
<1>1. /\ entities = [h \in Entities |-> [kind |-> "none", number |-> 0, master |-> 0]] /\ entered = 0
      /\ log = [players |-> [h \in Entities |-> Combat!NoName], file |-> FALSE] /\ line = Combat!NoLine
  BY DEF Combat!Init, Combat!Nobody
<1>2. CombatTypes /\ KnowsAll
  BY <1>1 DEF CombatTypes, KnowsAll, KindsOfEntity
<1> QED
  BY <1>1, <1>2, NothingTold DEF CombatInv

LEMMA createFilterStep == CombatInv /\ Combat!createFilter => CombatInv'
<1> SUFFICES ASSUME CombatInv, Combat!createFilter PROVE CombatInv'
  OBVIOUS
<1>1. log' = [log EXCEPT !.file = FALSE] /\ line' = Combat!NoLine /\ UNCHANGED <<entities, entered>>
  BY DEF Combat!createFilter, Combat!TakenOver
<1>2. log'.players = log.players /\ log' = [players |-> log'.players, file |-> log'.file]
  BY <1>1 DEF CombatInv, CombatTypes
<1>3. Combat!CombatTold'
  <2>1. DOMAIN line'.lines = {} /\ DOMAIN line'.event = {}
    BY <1>1 DEF Combat!NoLine
  <2> QED
    BY <2>1 DEF Combat!CombatTold, Combat!Named, Combat!ToldRight, Combat!Told
<1> QED
  BY <1>1, <1>2, <1>3 DEF CombatInv, CombatTypes, KnowsAll

\* The name an entity is given when it enters (NameOf).
LEMMA NamesItself ==
  ASSUME NEW e PROVE Names2(e, Combat!NameOf(e))
<1>1. CASE e.kind = "pet" /\ log.players[e.master] # Combat!NoName
  <2>1. Combat!NameOf(e) = <<"pet", e.number, log.players[e.master]>>
    BY <1>1 DEF Combat!NameOf
  <2> QED
    BY <1>1, <2>1 DEF Names2
<1>2. CASE ~(e.kind = "pet" /\ log.players[e.master] # Combat!NoName)
  <2>1. Combat!NameOf(e) = <<e.kind, e.number>>
    BY <1>2 DEF Combat!NameOf
  <2> QED
    BY <2>1 DEF Names2
<1> QED
  BY <1>1, <1>2

LEMMA onEnterMessageStep ==
  ASSUME CombatInv, NEW h \in Entities, Combat!onEnterMessage(h) PROVE CombatInv'
<1>1. PICK kind \in {"player", "pet", "monster", "item"}, master \in Entities \ {h} :
        /\ entities' = [entities EXCEPT ![h] = [kind |-> kind, number |-> entered + 1, master |-> master]]
        /\ log' = IF kind = "item" THEN log
                  ELSE [log EXCEPT !.players[h] = Combat!NameOf([kind |-> kind, number |-> entered + 1, master |-> master])]
  BY DEF Combat!onEnterMessage
<1>2. PICK e, name : e = [kind |-> kind, number |-> entered + 1, master |-> master] /\ name = Combat!NameOf(e)
  OBVIOUS
<1>3. /\ entities' = [entities EXCEPT ![h] = e] /\ entered' = entered + 1 /\ line' = Combat!NoLine
      /\ log' = IF kind = "item" THEN log ELSE [log EXCEPT !.players[h] = name]
  BY <1>1, <1>2 DEF Combat!onEnterMessage
<1>4. /\ e \in [kind : KindsOfEntity, number : Nat, master : Entities \union {0}] /\ e.kind = kind
      /\ entities \in [Entities -> [kind : KindsOfEntity, number : Nat, master : Entities \union {0}]]
      /\ entered' \in Nat
  BY <1>2, <1>3 DEF CombatInv, CombatTypes, KindsOfEntity
<1>5. /\ log' = [players |-> log'.players, file |-> log'.file]
      /\ log'.players = IF kind = "item" THEN log.players ELSE [log.players EXCEPT ![h] = name]
  BY <1>3 DEF CombatInv, CombatTypes
<1>6. /\ log'.players = [g \in Entities |-> log'.players[g]]
      /\ kind # "item" => log'.players[h] = name
      /\ \A g \in Entities : g # h => log'.players[g] = log.players[g]
  BY <1>5 DEF CombatInv, CombatTypes
<1>7. CombatTypes'
  BY <1>3, <1>4, <1>5, <1>6 DEF CombatTypes
<1>8. KnowsAll'
  <2> SUFFICES ASSUME NEW g \in Entities, entities'[g].kind \notin {"none", "item"}
               PROVE  Names2(entities'[g], log'.players[g])
    BY DEF KnowsAll
  <2>1. CASE g = h
    BY <1>2, <1>3, <1>4, <1>6, <2>1, NamesItself
  <2>2. CASE g # h
    <3>1. entities'[g] = entities[g] /\ log'.players[g] = log.players[g]
      BY <1>3, <1>4, <1>6, <2>2
    <3> QED
      BY <3>1 DEF CombatInv, KnowsAll
  <2> QED
    BY <2>1, <2>2
<1>9. Combat!CombatTold'
  <2>1. DOMAIN line'.lines = {} /\ DOMAIN line'.event = {}
    BY <1>3 DEF Combat!NoLine
  <2> QED
    BY <2>1 DEF Combat!CombatTold, Combat!Named, Combat!ToldRight, Combat!Told
<1> QED
  BY <1>7, <1>8, <1>9 DEF CombatInv

LEMMA LeaveEntityStep ==
  ASSUME CombatInv, NEW h \in Entities, Combat!Leave(h) PROVE CombatInv'
<1>1. /\ entities' = [entities EXCEPT ![h] = [kind |-> "none", number |-> 0, master |-> 0]]
      /\ line' = Combat!NoLine /\ UNCHANGED <<log, entered>>
  BY DEF Combat!Leave, Combat!Nobody
<1>2. entities \in [Entities -> [kind : KindsOfEntity, number : Nat, master : Entities \union {0}]]
  BY DEF CombatInv, CombatTypes
<1>3. CombatTypes'
  BY <1>1, <1>2 DEF CombatInv, CombatTypes, KindsOfEntity
<1>4. KnowsAll'
  BY <1>1, <1>2 DEF CombatInv, KnowsAll
<1>5. Combat!CombatTold'
  <2>1. DOMAIN line'.lines = {} /\ DOMAIN line'.event = {}
    BY <1>1 DEF Combat!NoLine
  <2> QED
    BY <2>1 DEF Combat!CombatTold, Combat!Named, Combat!ToldRight, Combat!Told
<1> QED
  BY <1>3, <1>4, <1>5 DEF CombatInv

\* What an event may be.
Events == {e \in [code : Combat!Codes, amount : -1 .. 1, missed : BOOLEAN] : e.missed => e.code \in {"attack", "no effect"}}

\* The line of an event tells what is in the packet: of health or mana, of a gain or
\* a loss.
TellsRight(e, l) ==
  /\ Combat!IsMana(l.type) <=> Combat!OfMana(e.code)
  /\ e.code \notin {"attack mana", "skill damage", "no effect", "rebirth: hp", "rebirth: mp"} =>
       (Combat!Raises(l.type) <=> IF Combat!Takes(e.code) THEN e.amount < 0 ELSE e.amount >= 0)

\* The type of the line for an event with code c and amount n, which is told when it is.
TellsAs(type, c, n) ==
  /\ Combat!IsMana(type) <=> Combat!OfMana(c)
  /\ c \notin {"attack mana", "skill damage", "no effect", "rebirth: hp", "rebirth: mp"} =>
       (Combat!Raises(type) <=> IF Combat!Takes(c) THEN n < 0 ELSE n >= 0)

\* Sequences of one.
LEMMA NotEmpty == \A l : <<l>> # << >>
  OBVIOUS

LEMMA AllAlike == ASSUME NEW ls, NEW l, ls = <<l>> PROVE /\ 1 \in DOMAIN ls /\ ls[1] = l
                                                       /\ \A i \in DOMAIN ls : ls[i] = l
  OBVIOUS

LEMMA Empty == ASSUME NEW ls, 1 \in DOMAIN ls PROVE ls # << >>
  OBVIOUS

\* One line or none, as the code of the event says.
LEMMA OneLine ==
  ASSUME NEW e, NEW ls, NEW type, NEW n, TellsAs(type, e.code, e.amount), NEW when \in BOOLEAN,
         ls = Combat!When(when, Combat!Line(type, n)), e.amount # 0 /\ e.code # "no effect" => when
  PROVE  /\ ls = << >> \/ \E l : ls = <<l>> /\ TellsRight(e, l)
         /\ e.amount # 0 /\ e.code # "no effect" => ls # << >>
<1>1. PICK l : l = Combat!Line(type, n)
  OBVIOUS
<1>2. l.type = type
  BY <1>1 DEF Combat!Line
<1>3. TellsRight(e, l)
  BY <1>2 DEF TellsRight, TellsAs
<1>4. ls = IF when THEN <<l>> ELSE << >>
  BY <1>1 DEF Combat!When, Combat!None
<1>5. CASE when
  <2>1. ls = <<l>>
    BY <1>4, <1>5
  <2>2. ls # << >>
    BY <2>1, NotEmpty
  <2>3. \E k : ls = <<k>> /\ TellsRight(e, k)
    BY <1>3, <2>1
  <2> QED
    BY <2>2, <2>3
<1>6. CASE ~when
  BY <1>4, <1>6
<1> QED
  BY <1>5, <1>6

\* Each code.
LEMMA LinesTell ==
  ASSUME NEW e \in Events
  PROVE  /\ Combat!LinesOf(e) = << >> \/ \E l : Combat!LinesOf(e) = <<l>> /\ TellsRight(e, l)
         /\ e.amount # 0 /\ e.code # "no effect" => Combat!LinesOf(e) # << >>
<1>1. PICK c, n, m, ls : c = e.code /\ n = e.amount /\ m = e.missed /\ ls = Combat!LinesOf(e)
  OBVIOUS
<1>2. c \in Combat!Codes /\ n \in -1 .. 1 /\ m \in BOOLEAN /\ (m => c \in {"attack", "no effect"})
  BY <1>1 DEF Events
<1>0. n \in Int
  <2>1. e.amount \in -1 .. 1
    BY DEF Events
  <2> QED
    BY <1>1, <2>1
<1>3. \A l : Combat!When(TRUE, l) = <<l>>
  BY DEF Combat!When
<1>4. CASE c = "attack"
  <2>1. PICK type, when : type = (IF n >= 0 THEN "Melee" ELSE "Healing") /\ when = (n # 0 \/ m)
    OBVIOUS
  <2>2. ls = Combat!When(when, Combat!Line(type, n)) /\ when \in BOOLEAN /\ (n # 0 /\ c # "no effect" => when)
    BY <1>1, <1>2, <1>3, <1>4, <2>1 DEF Combat!LinesOf, Combat!Sign
  <2>3. TellsAs(type, c, n)
    BY <1>2, <1>4, <2>1 DEF TellsAs, Combat!IsMana, Combat!OfMana, Combat!Raises, Combat!Takes
  <2> QED
    BY <1>1, <2>2, <2>3, OneLine
<1>5. CASE c = "attack mana"
  <2>1. PICK type, when : type = ("ManaDrain") /\ when = (n # 0)
    OBVIOUS
  <2>2. ls = Combat!When(when, Combat!Line(type, n)) /\ when \in BOOLEAN /\ (n # 0 /\ c # "no effect" => when)
    BY <1>1, <1>2, <1>3, <1>5, <2>1 DEF Combat!LinesOf, Combat!Sign
  <2>3. TellsAs(type, c, n)
    BY <1>2, <1>5, <2>1 DEF TellsAs, Combat!IsMana, Combat!OfMana, Combat!Raises, Combat!Takes
  <2> QED
    BY <1>1, <2>2, <2>3, OneLine
<1>6. CASE c = "skill damage"
  <2>1. PICK type, when : type = ("NonMelee") /\ when = (n # 0)
    OBVIOUS
  <2>2. ls = Combat!When(when, Combat!Line(type, n)) /\ when \in BOOLEAN /\ (n # 0 /\ c # "no effect" => when)
    BY <1>1, <1>2, <1>3, <1>6, <2>1 DEF Combat!LinesOf, Combat!Sign
  <2>3. TellsAs(type, c, n)
    BY <1>2, <1>6, <2>1 DEF TellsAs, Combat!IsMana, Combat!OfMana, Combat!Raises, Combat!Takes
  <2> QED
    BY <1>1, <2>2, <2>3, OneLine
<1>7. CASE c = "add hp"
  <2>1. PICK type, when : type = (IF n >= 0 THEN "Healing" ELSE "NonMelee") /\ when = (TRUE)
    OBVIOUS
  <2>2. ls = Combat!When(when, Combat!Line(type, n)) /\ when \in BOOLEAN /\ (n # 0 /\ c # "no effect" => when)
    BY <1>1, <1>2, <1>3, <1>7, <2>1 DEF Combat!LinesOf, Combat!Sign
  <2>3. TellsAs(type, c, n)
    BY <1>2, <1>7, <2>1 DEF TellsAs, Combat!IsMana, Combat!OfMana, Combat!Raises, Combat!Takes
  <2> QED
    BY <1>1, <2>2, <2>3, OneLine
<1>8. CASE c = "add mp"
  <2>1. PICK type, when : type = (IF n >= 0 THEN "ManaHealing" ELSE "ManaDrain") /\ when = (TRUE)
    OBVIOUS
  <2>2. ls = Combat!When(when, Combat!Line(type, n)) /\ when \in BOOLEAN /\ (n # 0 /\ c # "no effect" => when)
    BY <1>1, <1>2, <1>3, <1>8, <2>1 DEF Combat!LinesOf, Combat!Sign
  <2>3. TellsAs(type, c, n)
    BY <1>2, <1>8, <2>1 DEF TellsAs, Combat!IsMana, Combat!OfMana, Combat!Raises, Combat!Takes
  <2> QED
    BY <1>1, <2>2, <2>3, OneLine
<1>9. CASE c = "add hp mp: hp"
  <2>1. PICK type, when : type = (IF n >= 0 THEN "Healing" ELSE "NonMelee") /\ when = (n # 0)
    OBVIOUS
  <2>2. ls = Combat!When(when, Combat!Line(type, n)) /\ when \in BOOLEAN /\ (n # 0 /\ c # "no effect" => when)
    BY <1>1, <1>2, <1>3, <1>9, <2>1 DEF Combat!LinesOf, Combat!Sign
  <2>3. TellsAs(type, c, n)
    BY <1>2, <1>9, <2>1 DEF TellsAs, Combat!IsMana, Combat!OfMana, Combat!Raises, Combat!Takes
  <2> QED
    BY <1>1, <2>2, <2>3, OneLine
<1>10. CASE c = "add hp mp: mp"
  <2>1. PICK type, when : type = (IF n >= 0 THEN "ManaHealing" ELSE "ManaDrain") /\ when = (n # 0)
    OBVIOUS
  <2>2. ls = Combat!When(when, Combat!Line(type, n)) /\ when \in BOOLEAN /\ (n # 0 /\ c # "no effect" => when)
    BY <1>1, <1>2, <1>3, <1>10, <2>1 DEF Combat!LinesOf, Combat!Sign
  <2>3. TellsAs(type, c, n)
    BY <1>2, <1>10, <2>1 DEF TellsAs, Combat!IsMana, Combat!OfMana, Combat!Raises, Combat!Takes
  <2> QED
    BY <1>1, <2>2, <2>3, OneLine
<1>11. CASE c = "chain heal"
  <2>1. PICK type, when : type = (IF n >= 0 THEN "Healing" ELSE "NonMelee") /\ when = (TRUE)
    OBVIOUS
  <2>2. ls = Combat!When(when, Combat!Line(type, n)) /\ when \in BOOLEAN /\ (n # 0 /\ c # "no effect" => when)
    BY <1>1, <1>2, <1>3, <1>11, <2>1 DEF Combat!LinesOf, Combat!Sign
  <2>3. TellsAs(type, c, n)
    BY <1>2, <1>11, <2>1 DEF TellsAs, Combat!IsMana, Combat!OfMana, Combat!Raises, Combat!Takes
  <2> QED
    BY <1>1, <2>2, <2>3, OneLine
<1>12. CASE c = "rebirth: hp"
  <2>1. PICK type, when : type = ("Healing") /\ when = (n # 0)
    OBVIOUS
  <2>2. ls = Combat!When(when, Combat!Line(type, n)) /\ when \in BOOLEAN /\ (n # 0 /\ c # "no effect" => when)
    BY <1>1, <1>2, <1>3, <1>12, <2>1 DEF Combat!LinesOf, Combat!Sign
  <2>3. TellsAs(type, c, n)
    BY <1>2, <1>12, <2>1 DEF TellsAs, Combat!IsMana, Combat!OfMana, Combat!Raises, Combat!Takes
  <2> QED
    BY <1>1, <2>2, <2>3, OneLine
<1>13. CASE c = "rebirth: mp"
  <2>1. PICK type, when : type = ("ManaHealing") /\ when = (n # 0)
    OBVIOUS
  <2>2. ls = Combat!When(when, Combat!Line(type, n)) /\ when \in BOOLEAN /\ (n # 0 /\ c # "no effect" => when)
    BY <1>1, <1>2, <1>3, <1>13, <2>1 DEF Combat!LinesOf, Combat!Sign
  <2>3. TellsAs(type, c, n)
    BY <1>2, <1>13, <2>1 DEF TellsAs, Combat!IsMana, Combat!OfMana, Combat!Raises, Combat!Takes
  <2> QED
    BY <1>1, <2>2, <2>3, OneLine
<1>14. CASE c = "no effect"
  <2>1. PICK type, when : type = ("NonMelee") /\ when = (m)
    OBVIOUS
  <2>2. ls = Combat!When(when, Combat!Line(type, 0)) /\ when \in BOOLEAN /\ (n # 0 /\ c # "no effect" => when)
    BY <1>1, <1>2, <1>3, <1>14, <2>1 DEF Combat!LinesOf, Combat!Sign
  <2>3. TellsAs(type, c, n)
    BY <1>2, <1>14, <2>1 DEF TellsAs, Combat!IsMana, Combat!OfMana, Combat!Raises, Combat!Takes
  <2> QED
    BY <1>1, <2>2, <2>3, OneLine
<1>15. CASE c = "state damage"
  <2>1. PICK type : type = (IF n >= 0 THEN "NonMelee" ELSE "Healing")
    OBVIOUS
  <2>2. ls = Combat!When(TRUE, Combat!Line(type, n)) /\ TRUE \in BOOLEAN
    BY <1>1, <1>2, <1>3, <1>15, <2>1 DEF Combat!LinesOf, Combat!Sign
  <2>3. TellsAs(type, c, n)
    <3>1. c \in Combat!Codes /\ Combat!Takes(c) /\ (Combat!IsMana("NonMelee") <=> Combat!OfMana(c))
      BY <1>2, <1>15 DEF Combat!Takes, Combat!IsMana, Combat!OfMana
    <3>2. Combat!IsMana("NonMelee") <=> Combat!IsMana("Healing")
      BY DEF Combat!IsMana
    <3>3. ~Combat!Raises("NonMelee") /\ Combat!Raises("Healing")
      BY DEF Combat!Raises
    <3>4. CASE n >= 0
      <4>1. type = "NonMelee" /\ ~(n < 0)
        BY <1>0, <2>1, <3>4
      <4> QED
        BY <3>1, <3>3, <4>1 DEF TellsAs
    <3>5. CASE n < 0
      <4>1. type = "Healing"
        BY <1>0, <2>1, <3>5
      <4> QED
        BY <3>1, <3>2, <3>3, <3>5, <4>1 DEF TellsAs
    <3> QED
      BY <1>0, <3>4, <3>5
  <2> QED
    BY <1>1, <2>2, <2>3, OneLine
<1>16. CASE c = "state magic damage"
  <2>1. PICK type : type = (IF n >= 0 THEN "ManaDrain" ELSE "ManaHealing")
    OBVIOUS
  <2>2. ls = Combat!When(TRUE, Combat!Line(type, n)) /\ TRUE \in BOOLEAN
    BY <1>1, <1>2, <1>3, <1>16, <2>1 DEF Combat!LinesOf, Combat!Sign
  <2>3. TellsAs(type, c, n)
    <3>1. c \in Combat!Codes /\ Combat!Takes(c) /\ (Combat!IsMana("ManaDrain") <=> Combat!OfMana(c))
      BY <1>2, <1>16 DEF Combat!Takes, Combat!IsMana, Combat!OfMana
    <3>2. Combat!IsMana("ManaDrain") <=> Combat!IsMana("ManaHealing")
      BY DEF Combat!IsMana
    <3>3. ~Combat!Raises("ManaDrain") /\ Combat!Raises("ManaHealing")
      BY DEF Combat!Raises
    <3>4. CASE n >= 0
      <4>1. type = "ManaDrain" /\ ~(n < 0)
        BY <1>0, <2>1, <3>4
      <4> QED
        BY <3>1, <3>3, <4>1 DEF TellsAs
    <3>5. CASE n < 0
      <4>1. type = "ManaHealing"
        BY <1>0, <2>1, <3>5
      <4> QED
        BY <3>1, <3>2, <3>3, <3>5, <4>1 DEF TellsAs
    <3> QED
      BY <1>0, <3>4, <3>5
  <2> QED
    BY <1>1, <2>2, <2>3, OneLine
<1>17. CASE c = "state heal"
  <2>1. PICK type, when : type = (IF n >= 0 THEN "Healing" ELSE "NonMelee") /\ when = (TRUE)
    OBVIOUS
  <2>0. ls = <<Combat!Sign(n, "Healing", "NonMelee")>>
    BY <1>1, <1>17 DEF Combat!LinesOf
  <2>4. Combat!Sign(n, "Healing", "NonMelee") = Combat!Line(type, n)
    BY <2>1 DEF Combat!Sign
  <2>2. ls = Combat!When(when, Combat!Line(type, n)) /\ when \in BOOLEAN /\ (n # 0 /\ c # "no effect" => when)
    BY <1>3, <2>0, <2>1, <2>4
  <2>3. TellsAs(type, c, n)
    BY <1>2, <1>17, <2>1 DEF TellsAs, Combat!IsMana, Combat!OfMana, Combat!Raises, Combat!Takes
  <2> QED
    BY <1>1, <2>2, <2>3, OneLine
<1>18. CASE c = "state magic heal"
  <2>1. PICK type, when : type = (IF n >= 0 THEN "ManaHealing" ELSE "ManaDrain") /\ when = (TRUE)
    OBVIOUS
  <2>0. ls = <<Combat!Sign(n, "ManaHealing", "ManaDrain")>>
    BY <1>1, <1>18 DEF Combat!LinesOf
  <2>4. Combat!Sign(n, "ManaHealing", "ManaDrain") = Combat!Line(type, n)
    BY <2>1 DEF Combat!Sign
  <2>2. ls = Combat!When(when, Combat!Line(type, n)) /\ when \in BOOLEAN /\ (n # 0 /\ c # "no effect" => when)
    BY <1>3, <2>0, <2>1, <2>4
  <2>3. TellsAs(type, c, n)
    BY <1>2, <1>18, <2>1 DEF TellsAs, Combat!IsMana, Combat!OfMana, Combat!Raises, Combat!Takes
  <2> QED
    BY <1>1, <2>2, <2>3, OneLine
<1> QED
  BY <1>1, <1>2, <1>4, <1>5, <1>6, <1>7, <1>8, <1>9, <1>10, <1>11,
     <1>12, <1>13, <1>14, <1>15, <1>16, <1>17, <1>18 DEF Combat!Codes

\* ToldRight, with the Booleans it compares as predicates.
LEMMA RightIsTold ==
  ASSUME \A i \in DOMAIN line'.lines : TellsRight(line'.event[1], line'.lines[i][1])
  PROVE  Combat!ToldRight'
<1>1. \A type, b : b \in BOOLEAN /\ (Combat!IsMana(type) <=> b) => Combat!IsMana(type) = b
  BY DEF Combat!IsMana
<1>10. \A code, b : b \in BOOLEAN /\ (Combat!OfMana(code) <=> b) => Combat!OfMana(code) = b
  <2>1. PICK S : S = {"attack mana", "add mp", "add hp mp: mp", "rebirth: mp", "state magic damage", "state magic heal"}
    OBVIOUS
  <2>2. \A code : Combat!OfMana(code) = (code \in S)
    BY <2>1, Zenon DEF Combat!OfMana
  <2>3. \A code, b : b \in BOOLEAN /\ (code \in S <=> b) => (code \in S) = b
    OBVIOUS
  <2> QED
    BY <2>2, <2>3
<1>2. \A type, b : b \in BOOLEAN /\ (Combat!Raises(type) <=> b) => Combat!Raises(type) = b
  BY DEF Combat!Raises
<1>3. SUFFICES ASSUME NEW i \in DOMAIN line'.lines
      PROVE  LET e == line'.event[1]
                 code == e.code
                 type == line'.lines[i][1].type
                 gain == IF Combat!Takes(code) THEN e.amount < 0 ELSE e.amount >= 0
             IN  /\ Combat!IsMana(type) = Combat!OfMana(code)
                 /\ code \notin {"attack mana", "skill damage", "no effect", "rebirth: hp", "rebirth: mp"} => Combat!Raises(type) = gain
  BY DEF Combat!ToldRight
<1>4. TellsRight(line'.event[1], line'.lines[i][1])
  OBVIOUS
<1>5. PICK e, l : e = line'.event[1] /\ l = line'.lines[i][1]
  OBVIOUS
<1>6. PICK gain \in BOOLEAN : gain <=> IF Combat!Takes(e.code) THEN e.amount < 0 ELSE e.amount >= 0
  OBVIOUS
<1>7. gain = IF Combat!Takes(e.code) THEN e.amount < 0 ELSE e.amount >= 0
  BY <1>6
<1>8. Combat!IsMana(l.type) = Combat!OfMana(e.code)
  <2>1. PICK b \in BOOLEAN : b <=> Combat!OfMana(e.code)
    OBVIOUS
  <2> QED
    BY <1>1, <1>10, <1>4, <1>5, <2>1 DEF TellsRight
<1>9. e.code \notin {"attack mana", "skill damage", "no effect", "rebirth: hp", "rebirth: mp"} => Combat!Raises(l.type) = gain
  BY <1>2, <1>4, <1>5, <1>6 DEF TellsRight
<1> QED
  BY <1>5, <1>7, <1>8, <1>9

\* What is in reach of a packet: two entities the filter names, and an event.
LEMMA onServerPacketStep == CombatInv /\ Combat!onServerPacket => CombatInv'
<1> SUFFICES ASSUME CombatInv, Combat!onServerPacket PROVE CombatInv'
  OBVIOUS
<1>1. PICK h \in Entities, g \in Entities, e \in Events :
        /\ entities[h].kind # "none" /\ entities[g].kind # "none"
        /\ line' = [event |-> <<e>>, who |-> <<h, g>>,
                    lines |-> [i \in DOMAIN Combat!LinesOf(e) |-> <<Combat!LinesOf(e)[i], log.players[h], log.players[g]>>]]
        /\ log' = [log EXCEPT !.file = @ \/ Combat!LinesOf(e) # Combat!None]
        /\ UNCHANGED <<entities, entered>>
  BY DEF Combat!onServerPacket, Combat!getHandleName, Events
<1>2. PICK ls : ls = Combat!LinesOf(e)
  OBVIOUS
<1>3. /\ ls = << >> \/ \E l : ls = <<l>> /\ TellsRight(e, l)
      /\ e.amount # 0 /\ e.code # "no effect" => ls # << >>
  BY <1>2, LinesTell
<1>4. PICK told : told = [i \in DOMAIN ls |-> <<ls[i], log.players[h], log.players[g]>>]
  OBVIOUS
<1>5. line'.event = <<e>> /\ line'.who = <<h, g>> /\ line'.lines = told
  BY <1>1, <1>2, <1>4
<1>6. DOMAIN told = DOMAIN ls /\ \A i \in DOMAIN told : told[i] = <<ls[i], log.players[h], log.players[g]>>
  BY <1>4
<1>7. log'.players = log.players /\ log' = [players |-> log'.players, file |-> log'.file]
  BY <1>1 DEF CombatInv, CombatTypes
<1>8. CombatTypes' /\ KnowsAll'
  BY <1>1, <1>7 DEF CombatInv, CombatTypes, KnowsAll
<1>9. Combat!Named'
  <2> SUFFICES ASSUME NEW i \in DOMAIN line'.lines, NEW k \in {1, 2}, entities'[line'.who[k]].kind # "item"
               PROVE  Names2(entities'[line'.who[k]], line'.lines[i][k + 1])
    BY DEF Combat!Named, Names2
  <2>1. told[i] = <<ls[i], log.players[h], log.players[g]>>
    BY <1>5, <1>6
  <2>2. PICK u \in Entities : u = line'.who[k] /\ line'.lines[i][k + 1] = log.players[u] /\ entities[u].kind # "none"
    BY <1>1, <1>5, <2>1
  <2> QED
    BY <1>1, <2>2 DEF CombatInv, KnowsAll
<1>10. Combat!ToldRight'
  <2> SUFFICES ASSUME NEW i \in DOMAIN told
               PROVE  TellsRight(e, told[i][1])
    <3>1. \A i \in DOMAIN told : TellsRight(e, told[i][1])
      OBVIOUS
    <3>2. ASSUME NEW i \in DOMAIN line'.lines
          PROVE  TellsRight(line'.event[1], line'.lines[i][1])
      BY <1>5, <3>1
    <3> QED
      BY <3>2, RightIsTold
  <2>1. told[i][1] = ls[i] /\ i \in DOMAIN ls
    BY <1>6
  <2>4. ls # << >>
    BY <2>1
  <2>2. PICK l : ls = <<l>> /\ TellsRight(e, l)
    BY <1>3, <2>4
  <2>3. ls[i] = l
    BY <2>1, <2>2, AllAlike
  <2> QED
    BY <2>1, <2>2, <2>3
<1>11. Combat!Told'
  <2>1. \A i \in DOMAIN line'.event : line'.event[i] = e
    <3>1. PICK ev : ev = line'.event
      OBVIOUS
    <3>2. ev = <<e>>
      BY <1>5, <3>1
    <3> QED
      BY <3>1, <3>2, AllAlike
  <2>2. ASSUME NEW l, ls = <<l>> PROVE line'.lines # << >>
    <3>1. 1 \in DOMAIN told
      BY <1>6, <2>2, AllAlike
    <3> QED
      BY <1>5, <3>1, Empty
  <2>3. e.amount # 0 /\ e.code # "no effect" => line'.lines # << >>
    BY <1>3, <2>2
  <2> QED
    BY <2>1, <2>3 DEF Combat!Told
<1> QED
  BY <1>8, <1>9, <1>10, <1>11 DEF CombatInv, Combat!CombatTold

\* Every step of the filter keeps the invariant.
LEMMA CombatStep == CombatInv /\ [Combat!Next]_Combat!vars => CombatInv'
<1> SUFFICES ASSUME CombatInv, [Combat!Next]_Combat!vars PROVE CombatInv'
  OBVIOUS
<1>1. CASE Combat!createFilter
  BY <1>1, createFilterStep
<1>2. CASE Combat!onServerPacket
  BY <1>2, onServerPacketStep
<1>3. CASE \E h \in Entities : Combat!onEnterMessage(h)
  BY <1>3, onEnterMessageStep
<1>4. CASE \E h \in Entities : Combat!Leave(h)
  BY <1>4, LeaveEntityStep
<1>5. CASE UNCHANGED Combat!vars
  BY <1>5 DEF Combat!vars, CombatInv, CombatTypes, KnowsAll, Combat!CombatTold, Combat!Named, Combat!ToldRight, Combat!Told
<1> QED
  BY <1>1, <1>2, <1>3, <1>4, <1>5 DEF Combat!Next

\* CombatTold: the combat log names who a line is about, tells of health or mana and of
\* a gain or a loss as the packet does, and has a line for every change - however
\* handles are given again and however often the filter was made anew.
THEOREM CombatToldCorrect == Combat!Init /\ [][Combat!Next]_Combat!vars => []Combat!CombatTold
<1>1. Combat!Init => CombatInv
  BY CombatStarts
<1>2. CombatInv /\ [Combat!Next]_Combat!vars => CombatInv'
  BY CombatStep
<1>3. CombatInv => Combat!CombatTold
  BY DEF CombatInv
<1> QED
  BY <1>1, <1>2, <1>3, PTL

-----------------------------------------------------------------------------
(* The auction monitor: pages and workers                                   *)

CONSTANTS Workers, Categories, MaxPages, MaxRefusals, MaxReloads, Null

VARIABLES pending, totalPages, category, clients, stopping, workers, accounts,
          answered, mixed, budget

Monitor == INSTANCE AuctionMonitor WITH MaxFaults <- MaxRefusals

\* Accounts are finitely many and in an order, there is a category and a page.
MonitorAssumption ==
  /\ Workers \subseteq Nat /\ IsFiniteSet(Workers)
  /\ Categories \in Nat \ {0} /\ MaxPages \in Nat \ {0}
  /\ Null \notin Monitor!Requests

MonitorTypes ==
  /\ pending \in Seq(Monitor!Requests)
  /\ totalPages \in 1 .. MaxPages /\ category \in 0 .. Categories - 1
  /\ clients \subseteq Workers /\ stopping \subseteq Workers
  /\ workers \in [Workers -> Monitor!Worker]
  /\ accounts \in [reloading : BOOLEAN, timer : BOOLEAN, stopped : BOOLEAN]
  /\ answered \subseteq Nat /\ mixed \in BOOLEAN

\* A worker that asks for a page, or waits after an answer, is in the game and
\* is not idle.
WorkerSound(worker) ==
  /\ worker.request # Null => worker.isConnected /\ ~worker.idle /\ ~worker.delay
  /\ worker.delay => worker.isConnected /\ ~worker.idle
  /\ worker.link \in {"waiting", "connecting"} => ~worker.isConnected
  /\ worker.sent => worker.request # Null

\* There are no clients as long as a client of before a reload is stopping.
Handover ==
  /\ stopping # {} => clients = {} /\ (accounts.reloading \/ accounts.stopped)
  /\ accounts.timer => clients = {} /\ stopping = {} /\ accounts.reloading

\* Where a page is: it waits in p, or a worker of A asks for it.
Asks(r, ws, A) == \E w \in A : ws[w].request = r
Waits(r, p) == \E i \in 1 .. Len(p) : p[i] = r
Placed(r, p, ws, A) == Waits(r, p) \/ Asks(r, ws, A)

\* No page has two places.
OnePlace(p, ws, A) ==
  /\ \A i, j \in 1 .. Len(p) : p[i] = p[j] => i = j
  /\ \A v, w \in A : ws[v].request = ws[w].request /\ ws[v].request # Null => v = w
  /\ \A i \in 1 .. Len(p), w \in A : p[i] # ws[w].request

Due(r) == r[1] = category /\ r[2] <= totalPages /\ r[2] \notin answered

\* The pages that are due are those that have a place.
DuePlaced ==
  ~mixed =>
    /\ OnePlace(pending, workers, Monitor!Alive)
    /\ \A r \in Monitor!Requests : Placed(r, pending, workers, Monitor!Alive) <=> Due(r)
    /\ answered \subseteq 1 .. totalPages

MonitorInv ==
  /\ MonitorTypes
  /\ \A w \in Workers : WorkerSound(workers[w])
  /\ Handover
  /\ DuePlaced
  /\ Monitor!NoSleeper

-----------------------------------------------------------------------------
(* Handing pages to workers                                                 *)

\* The rank of an element of a set of numbers, and the first n elements.
Rank(w, S) == Cardinality({v \in S : v <= w})
First(n, S) == {w \in S : Rank(w, S) <= n}

\* The ranks of the first elements of a finite set are the numbers from 1 on,
\* and each is the rank of one.
LEMMA Ranks ==
  ASSUME NEW S \in SUBSET Nat, IsFiniteSet(S), NEW n \in Nat
  PROVE  /\ Cardinality(First(n, S)) \in Nat /\ Cardinality(First(n, S)) <= n
         /\ \A w \in First(n, S) : Rank(w, S) \in 1 .. Cardinality(First(n, S))
         /\ \A v, w \in First(n, S) : Rank(v, S) = Rank(w, S) => v = w
         /\ \A i \in 1 .. Cardinality(First(n, S)) : \E w \in First(n, S) : Rank(w, S) = i
<1> DEFINE Upto(w) == {v \in S : v <= w}
           rank == [w \in S |-> Rank(w, S)]
           T == {w \in S : rank[w] <= n}
           K == Cardinality(T)
<1>1. \A w \in S : IsFiniteSet(Upto(w)) /\ Cardinality(Upto(w)) \in Nat /\ rank[w] = Cardinality(Upto(w))
  <2> TAKE w \in S
  <2>1. Upto(w) \in SUBSET S
    OBVIOUS
  <2>2. IsFiniteSet(Upto(w))
    BY <2>1, FS_Subset
  <2> QED
    BY <2>2, FS_CardinalityType DEF Rank
<1> HIDE DEF rank
<1>2. \A w \in S : rank[w] \in Nat /\ rank[w] >= 1
  <2> TAKE w \in S
  <2>1. w \in Upto(w)
    OBVIOUS
  <2>2. Upto(w) # {}
    BY <2>1
  <2>3. Cardinality(Upto(w)) # 0
    BY <1>1, <2>2, FS_EmptySet
  <2> HIDE DEF Upto
  <2> QED
    BY <1>1, <2>3
<1>3. \A v, w \in S : v < w => rank[v] < rank[w]
  <2> SUFFICES ASSUME NEW v \in S, NEW w \in S, v < w PROVE rank[v] < rank[w]
    OBVIOUS
  <2>1. Upto(v) \in SUBSET Upto(w)
    <3>1. \A u \in S : u <= v => u <= w
      OBVIOUS
    <3> QED
      BY <3>1
  <2>2. w \in Upto(w) /\ w \notin Upto(v)
    OBVIOUS
  <2>3. Cardinality(Upto(v)) <= Cardinality(Upto(w)) /\ Cardinality(Upto(v)) # Cardinality(Upto(w))
    <3>1. IsFiniteSet(Upto(w))
      BY <1>1
    <3> HIDE DEF Upto
    <3> QED
      BY <2>1, <2>2, <3>1, FS_Subset
  <2> HIDE DEF Upto
  <2> QED
    BY <1>1, <2>3
<1>4. \A v, w \in S : rank[v] = rank[w] => v = w
  <2> SUFFICES ASSUME NEW v \in S, NEW w \in S, rank[v] = rank[w], v # w PROVE FALSE
    OBVIOUS
  <2>1. v < w \/ w < v
    OBVIOUS
  <2>2. rank[v] < rank[w] \/ rank[w] < rank[v]
    BY <1>3, <2>1
  <2> QED
    BY <1>2, <2>2
<1>5. T \in SUBSET S /\ IsFiniteSet(T) /\ K \in Nat
  <2>1. T \in SUBSET S
    OBVIOUS
  <2> QED
    BY <2>1, FS_Subset, FS_CardinalityType
<1>6. \A w \in T : rank[w] \in 1 .. K
  <2> TAKE w \in T
  <2>1. w \in S /\ rank[w] <= n
    OBVIOUS
  <2>2. \A v \in Upto(w) : v \in T
    <3> TAKE v \in Upto(w)
    <3>1. v \in S /\ (v < w \/ v = w)
      BY <2>1
    <3>2. rank[v] <= rank[w]
      BY <1>2, <1>3, <2>1, <3>1
    <3> QED
      BY <1>2, <2>1, <3>1, <3>2
  <2>3. Upto(w) \in SUBSET T
    BY <2>2
  <2>4. Cardinality(Upto(w)) <= K
    <3> HIDE DEF Upto
    <3> QED
      BY <1>5, <2>3, FS_Subset
  <2> HIDE DEF Upto, K
  <2> QED
    BY <1>1, <1>2, <1>5, <2>1, <2>4
<1> DEFINE f == [w \in T |-> rank[w]]
<1>7. f \in Injection(T, 1 .. K)
  <2>1. f \in [T -> 1 .. K]
    BY <1>6
  <2> QED
    BY <1>4, <1>5, <2>1 DEF Injection, IsInjective
<1>8. IsFiniteSet(1 .. K) /\ Cardinality(1 .. K) = K
  BY <1>5, FS_Interval
<1>9. f \in Surjection(T, 1 .. K)
  <2> HIDE DEF f
  <2> QED
    BY <1>7, <1>8, FS_Injection
<1>10. \A i \in 1 .. K : \E w \in T : rank[w] = i
  BY <1>9 DEF Surjection
<1>11. K <= n
  <2>1. CASE K = 0
    BY <2>1
  <2>2. CASE K # 0
    <3>1. K \in 1 .. K
      BY <1>5, <2>2
    <3>2. PICK w \in T : rank[w] = K
      BY <1>10, <3>1
    <3> QED
      BY <3>2
  <2> QED
    BY <2>1, <2>2
<1>12. T = First(n, S) /\ \A w \in T : rank[w] = Rank(w, S)
  BY DEF First, rank
<1> HIDE DEF T, f
<1> QED
  BY <1>4, <1>5, <1>6, <1>10, <1>11, <1>12

\* What wakeUp does: the first K pages go to the workers of T, by their rank.
HandedOut(h, p, ws, T, K, rank) ==
  /\ \A v, w \in T : rank[v] = rank[w] => v = w
  /\ \A i \in 1 .. K : \E w \in T : rank[w] = i
  /\ h.pending = SubSeq(p, K + 1, Len(p))
  /\ \A w \in Workers : h.workers[w] = IF w \in T THEN Monitor!Searching(ws[w], p[rank[w]]) ELSE ws[w]
  /\ h.workers = [w \in Workers |-> h.workers[w]]

LEMMA HandShape ==
  ASSUME MonitorAssumption, clients \subseteq Workers, NEW p \in Seq(Monitor!Requests), NEW ws,
         NEW h, h = Monitor!Hand(p, ws)
  PROVE  \E T \in SUBSET Monitor!Wakeable(ws), K \in 0 .. Len(p) : \E rank \in [T -> 1 .. K] :
           HandedOut(h, p, ws, T, K, rank)
<1> DEFINE S == Monitor!Wakeable(ws)
           T == First(Len(p), S)
           K == Cardinality(T)
           rank == [w \in T |-> Rank(w, S)]
           all == [w \in Workers |-> IF w \in T THEN Monitor!Searching(ws[w], p[Rank(w, S)]) ELSE ws[w]]
<1>1. S \in SUBSET Nat /\ IsFiniteSet(S)
  <2>1. S \in SUBSET Workers
    BY DEF Monitor!Wakeable
  <2> HIDE DEF S
  <2> QED
    BY <2>1, FS_Subset DEF MonitorAssumption
<1> DEFINE rest == SubSeq(p, K + 1, Len(p))
<1>2. h = [pending |-> rest, workers |-> all]
  BY DEF Monitor!Hand, Monitor!Cardinality, Cardinality, Rank, First
<1>3. T \in SUBSET S
  BY DEF First
<1>4. Len(p) \in Nat
  OBVIOUS
<1> HIDE DEF S
<1>5. /\ K \in Nat /\ K <= Len(p)
      /\ \A w \in T : Rank(w, S) \in 1 .. K
      /\ \A v, w \in T : Rank(v, S) = Rank(w, S) => v = w
      /\ \A i \in 1 .. K : \E w \in T : Rank(w, S) = i
  BY <1>1, <1>4, Ranks
<1> HIDE DEF T, K, all
<1>6. rank \in [T -> 1 .. K] /\ \A w \in T : rank[w] = Rank(w, S)
  BY <1>5
<1> HIDE DEF rank
<1>7. /\ h.pending = SubSeq(p, K + 1, Len(p))
      /\ h.workers = [w \in Workers |-> h.workers[w]]
      /\ \A w \in Workers :
           h.workers[w] = IF w \in T THEN Monitor!Searching(ws[w], p[rank[w]]) ELSE ws[w]
  <2> HIDE DEF rest
  <2>1. h.pending = rest /\ h.workers = all
    BY <1>2
  <2>2. \A w \in Workers : all[w] = IF w \in T THEN Monitor!Searching(ws[w], p[rank[w]]) ELSE ws[w]
    BY <1>6 DEF all
  <2>3. all = [w \in Workers |-> all[w]]
    BY DEF all
  <2> QED
    BY <2>1, <2>2, <2>3 DEF rest
<1>8. /\ \A v, w \in T : rank[v] = rank[w] => v = w
      /\ \A i \in 1 .. K : \E w \in T : rank[w] = i
  BY <1>5, <1>6
<1>9. K \in 0 .. Len(p)
  BY <1>4, <1>5
<1>10. T \in SUBSET Monitor!Wakeable(ws)
  BY <1>3 DEF S
<1>11. HandedOut(h, p, ws, T, K, rank)
  BY <1>7, <1>8 DEF HandedOut
<1> QED
  BY <1>6, <1>9, <1>10, <1>11

LEMMA SearchingWorker ==
  ASSUME MonitorAssumption, NEW worker \in Monitor!Worker, NEW r \in Monitor!Requests,
         worker.isConnected, ~worker.delay, WorkerSound(worker)
  PROVE  /\ Monitor!Searching(worker, r) \in Monitor!Worker
         /\ Monitor!Searching(worker, r).request = r
         /\ WorkerSound(Monitor!Searching(worker, r))
<1>1. r # Null
  BY DEF MonitorAssumption
<1>2. (worker.link = "open") \in BOOLEAN
  OBVIOUS
<1>3. Monitor!Searching(worker, r) = [worker EXCEPT !.request = r, !.sent = (worker.link = "open"), !.idle = FALSE]
  BY DEF Monitor!Searching
<1>4. /\ Monitor!Searching(worker, r) \in Monitor!Worker
      /\ Monitor!Searching(worker, r).request = r
      /\ Monitor!Searching(worker, r).idle = FALSE
      /\ Monitor!Searching(worker, r).isConnected = worker.isConnected
      /\ Monitor!Searching(worker, r).delay = worker.delay
      /\ Monitor!Searching(worker, r).link = worker.link
  BY <1>2, <1>3 DEF Monitor!Worker
<1> QED
  BY <1>1, <1>4 DEF WorkerSound, Monitor!Worker

\* Workers that are handed a page are sound, and no worker loses what it waits for.
LEMMA HandWorkers ==
  ASSUME MonitorAssumption, clients \subseteq Workers,
         NEW p \in Seq(Monitor!Requests), NEW ws \in [Workers -> Monitor!Worker],
         \A w \in Workers : WorkerSound(ws[w]),
         NEW h, h = Monitor!Hand(p, ws)
  PROVE  /\ h.pending \in Seq(Monitor!Requests)
         /\ h.workers \in [Workers -> Monitor!Worker]
         /\ \A w \in Workers : WorkerSound(h.workers[w])
         /\ \A w \in Workers : ws[w].delay => h.workers[w].delay
<1>1. PICK T \in SUBSET Monitor!Wakeable(ws), K \in 0 .. Len(p) : \E rank \in [T -> 1 .. K] :
        HandedOut(h, p, ws, T, K, rank)
  BY HandShape
<1>2. PICK rank \in [T -> 1 .. K] : HandedOut(h, p, ws, T, K, rank)
  BY <1>1
<1>3. /\ h.pending = SubSeq(p, K + 1, Len(p))
      /\ \A w \in Workers : h.workers[w] = IF w \in T THEN Monitor!Searching(ws[w], p[rank[w]]) ELSE ws[w]
      /\ h.workers = [w \in Workers |-> h.workers[w]]
  BY <1>2 DEF HandedOut
<1>4. h.pending \in Seq(Monitor!Requests)
  BY <1>3
<1>5. \A w \in Workers : /\ h.workers[w] \in Monitor!Worker /\ WorkerSound(h.workers[w])
                         /\ ws[w].delay => h.workers[w].delay
  <2> TAKE w \in Workers
  <2>1. CASE w \in T
    <3>1. ws[w].isConnected /\ ws[w].idle /\ ws[w] \in Monitor!Worker /\ WorkerSound(ws[w])
      BY <2>1 DEF Monitor!Wakeable
    <3>2. p[rank[w]] \in Monitor!Requests
      BY <1>3, <2>1
    <3>3. h.workers[w] = Monitor!Searching(ws[w], p[rank[w]])
      BY <1>3, <2>1
    <3>4. ~ws[w].delay
      BY <3>1 DEF WorkerSound
    <3> QED
      BY <3>1, <3>2, <3>3, <3>4, SearchingWorker
  <2>2. CASE w \notin T
    BY <1>3, <2>2
  <2> QED
    BY <2>1, <2>2
<1> QED
  BY <1>3, <1>4, <1>5

\* Handing pages out moves them, and neither loses one nor doubles one.
LEMMA HandPlaces ==
  ASSUME MonitorAssumption, clients \subseteq Workers,
         NEW p \in Seq(Monitor!Requests), NEW ws \in [Workers -> Monitor!Worker],
         \A w \in Workers : WorkerSound(ws[w]),
         NEW A \in SUBSET Workers, clients \subseteq A, OnePlace(p, ws, A),
         NEW h, h = Monitor!Hand(p, ws)
  PROVE  /\ OnePlace(h.pending, h.workers, A)
         /\ \A r \in Monitor!Requests : Placed(r, h.pending, h.workers, A) <=> Placed(r, p, ws, A)
<1>1. PICK T \in SUBSET Monitor!Wakeable(ws), K \in 0 .. Len(p) : \E rank \in [T -> 1 .. K] :
        HandedOut(h, p, ws, T, K, rank)
  BY HandShape
<1> PICK rank \in [T -> 1 .. K] : HandedOut(h, p, ws, T, K, rank)
  BY <1>1
<1>2. /\ \A v, w \in T : rank[v] = rank[w] => v = w
      /\ \A i \in 1 .. K : \E w \in T : rank[w] = i
      /\ h.pending = SubSeq(p, K + 1, Len(p))
      /\ \A w \in Workers : h.workers[w] = IF w \in T THEN Monitor!Searching(ws[w], p[rank[w]]) ELSE ws[w]
  BY DEF HandedOut
<1>3. Len(p) \in Nat /\ K \in Nat /\ K <= Len(p)
  OBVIOUS
<1>4. /\ Len(h.pending) = Len(p) - K
      /\ \A i \in 1 .. Len(h.pending) : K + i \in 1 .. Len(p) /\ h.pending[i] = p[K + i]
  BY <1>2, <1>3
<1>5. \A w \in T : /\ w \in A /\ w \in Workers /\ ws[w].request = Null
                   /\ rank[w] \in 1 .. Len(p) /\ rank[w] <= K
                   /\ h.workers[w].request = p[rank[w]]
                   /\ p[rank[w]] \in Monitor!Requests
  <2> TAKE w \in T
  <2>1. w \in clients /\ ws[w].isConnected /\ ws[w].idle /\ ws[w].request = Null
    BY DEF Monitor!Wakeable
  <2>2. w \in Workers /\ ws[w] \in Monitor!Worker /\ WorkerSound(ws[w])
    BY <2>1
  <2>3. rank[w] \in 1 .. Len(p) /\ rank[w] <= K
    BY <1>2, <1>3
  <2>4. p[rank[w]] \in Monitor!Requests
    BY <2>3
  <2>5. h.workers[w] = Monitor!Searching(ws[w], p[rank[w]])
    BY <1>2, <2>2
  <2> QED
    BY <2>1, <2>2, <2>3, <2>4, <2>5, SearchingWorker DEF WorkerSound
<1>6. \A w \in A : w \notin T => h.workers[w].request = ws[w].request
  BY <1>2
<1>7. Null \notin Monitor!Requests /\ \A i \in 1 .. Len(p) : p[i] \in Monitor!Requests
  BY DEF MonitorAssumption
<1>8. /\ \A i, j \in 1 .. Len(p) : p[i] = p[j] => i = j
      /\ \A v, w \in A : ws[v].request = ws[w].request /\ ws[v].request # Null => v = w
      /\ \A i \in 1 .. Len(p), w \in A : p[i] # ws[w].request
  BY DEF OnePlace
<1>9. \A i, j \in 1 .. Len(h.pending) : h.pending[i] = h.pending[j] => i = j
  <2> SUFFICES ASSUME NEW i \in 1 .. Len(h.pending), NEW j \in 1 .. Len(h.pending), h.pending[i] = h.pending[j]
               PROVE  i = j
    OBVIOUS
  <2>1. K + i = K + j
    BY <1>4, <1>8
  <2> QED
    BY <1>3, <1>4, <2>1
<1>10. \A v, w \in A : h.workers[v].request = h.workers[w].request /\ h.workers[v].request # Null => v = w
  <2> SUFFICES ASSUME NEW v \in A, NEW w \in A, h.workers[v].request = h.workers[w].request,
                      h.workers[v].request # Null
               PROVE  v = w
    OBVIOUS
  <2>1. CASE v \in T /\ w \in T
    <3>1. rank[v] = rank[w]
      BY <1>5, <1>8, <2>1
    <3> QED
      BY <1>2, <2>1, <3>1
  <2>2. CASE v \in T /\ w \notin T
    BY <1>5, <1>6, <1>8, <2>2
  <2>3. CASE v \notin T /\ w \in T
    BY <1>5, <1>6, <1>8, <2>3
  <2>4. CASE v \notin T /\ w \notin T
    BY <1>6, <1>8, <2>4
  <2> QED
    BY <2>1, <2>2, <2>3, <2>4
<1>11. \A i \in 1 .. Len(h.pending), w \in A : h.pending[i] # h.workers[w].request
  <2> SUFFICES ASSUME NEW i \in 1 .. Len(h.pending), NEW w \in A, h.pending[i] = h.workers[w].request
               PROVE  FALSE
    OBVIOUS
  <2>1. h.pending[i] = p[K + i] /\ K + i \in 1 .. Len(p) /\ K + i > K
    BY <1>3, <1>4
  <2>2. CASE w \in T
    <3>1. K + i = rank[w]
      BY <1>5, <1>8, <2>1, <2>2
    <3> QED
      BY <1>3, <1>5, <2>1, <2>2, <3>1
  <2>3. CASE w \notin T
    BY <1>6, <1>8, <2>1, <2>3
  <2> QED
    BY <2>2, <2>3
<1>12. ASSUME NEW r \in Monitor!Requests PROVE Placed(r, h.pending, h.workers, A) <=> Placed(r, p, ws, A)
  <2>1. ASSUME NEW i \in 1 .. Len(h.pending), h.pending[i] = r PROVE Placed(r, p, ws, A)
    BY <1>4, <2>1 DEF Placed, Waits
  <2>2. ASSUME NEW w \in A, h.workers[w].request = r PROVE Placed(r, p, ws, A)
    BY <1>5, <1>6, <2>2 DEF Placed, Waits, Asks
  <2>3. ASSUME NEW w \in A, ws[w].request = r PROVE Placed(r, h.pending, h.workers, A)
    BY <1>5, <1>6, <1>7, <2>3 DEF Placed, Asks
  <2>4. ASSUME NEW i \in 1 .. Len(p), p[i] = r PROVE Placed(r, h.pending, h.workers, A)
    <3>1. CASE i <= K
      <4>1. i \in 1 .. K
        BY <1>3, <3>1
      <4>2. PICK w \in T : rank[w] = i
        BY <1>2, <4>1
      <4> QED
        BY <1>5, <2>4, <4>2 DEF Placed, Asks
    <3>2. CASE i > K
      <4>1. i - K \in 1 .. Len(h.pending) /\ K + (i - K) = i
        BY <1>3, <1>4, <3>2
      <4>2. h.pending[i - K] = r
        BY <1>4, <2>4, <4>1
      <4> QED
        BY <4>1, <4>2 DEF Placed, Waits
    <3> QED
      BY <1>3, <3>1, <3>2
  <2> QED
    BY <2>1, <2>2, <2>3, <2>4 DEF Placed, Waits, Asks
<1> QED
  BY <1>9, <1>10, <1>11, <1>12 DEF OnePlace

-----------------------------------------------------------------------------
(* One page changes its place                                               *)

\* A worker takes the first page that waits.
LEMMA TakePlaces ==
  ASSUME NEW p \in Seq(Monitor!Requests), p # << >>, Null \notin Monitor!Requests,
         NEW ws, NEW new, NEW A, NEW w \in A, OnePlace(p, ws, A),
         ws[w].request = Null, new[w].request = Head(p),
         \A v \in A \ {w} : new[v].request = ws[v].request
  PROVE  /\ OnePlace(Tail(p), new, A)
         /\ \A r \in Monitor!Requests : Placed(r, Tail(p), new, A) <=> Placed(r, p, ws, A)
<1>1. /\ Len(p) \in Nat /\ Len(p) >= 1 /\ Head(p) = p[1] /\ p[1] \in Monitor!Requests
      /\ Len(Tail(p)) = Len(p) - 1
      /\ \A i \in 1 .. Len(Tail(p)) : i + 1 \in 1 .. Len(p) /\ Tail(p)[i] = p[i + 1]
  OBVIOUS
<1>2. /\ \A i, j \in 1 .. Len(p) : p[i] = p[j] => i = j
      /\ \A v, u \in A : ws[v].request = ws[u].request /\ ws[v].request # Null => v = u
      /\ \A i \in 1 .. Len(p), v \in A : p[i] # ws[v].request
  BY DEF OnePlace
<1>3. 1 \in 1 .. Len(p)
  BY <1>1
<1>4. \A i, j \in 1 .. Len(Tail(p)) : Tail(p)[i] = Tail(p)[j] => i = j
  <2> SUFFICES ASSUME NEW i \in 1 .. Len(Tail(p)), NEW j \in 1 .. Len(Tail(p)), Tail(p)[i] = Tail(p)[j]
               PROVE  i = j
    OBVIOUS
  <2>1. i + 1 = j + 1
    BY <1>1, <1>2
  <2> QED
    BY <1>1, <2>1
<1>5. \A v, u \in A : new[v].request = new[u].request /\ new[v].request # Null => v = u
  BY <1>1, <1>2, <1>3
<1>6. \A i \in 1 .. Len(Tail(p)), v \in A : Tail(p)[i] # new[v].request
  <2> SUFFICES ASSUME NEW i \in 1 .. Len(Tail(p)), NEW v \in A, Tail(p)[i] = new[v].request PROVE FALSE
    OBVIOUS
  <2>1. i + 1 \in 1 .. Len(p) /\ p[i + 1] = new[v].request /\ i + 1 # 1
    BY <1>1
  <2>2. CASE v = w
    BY <1>1, <1>2, <1>3, <2>1, <2>2
  <2>3. CASE v # w
    BY <1>2, <2>1, <2>3
  <2> QED
    BY <2>2, <2>3
<1>7. ASSUME NEW r \in Monitor!Requests PROVE Placed(r, Tail(p), new, A) <=> Placed(r, p, ws, A)
  <2>1. ASSUME NEW i \in 1 .. Len(Tail(p)), Tail(p)[i] = r PROVE Placed(r, p, ws, A)
    BY <1>1, <2>1 DEF Placed, Waits
  <2>2. ASSUME NEW v \in A, new[v].request = r PROVE Placed(r, p, ws, A)
    <3>1. CASE v = w
      BY <1>1, <1>3, <2>2, <3>1 DEF Placed, Waits
    <3>2. CASE v # w
      BY <2>2, <3>2 DEF Placed, Asks
    <3> QED
      BY <3>1, <3>2
  <2>3. ASSUME NEW i \in 1 .. Len(p), p[i] = r PROVE Placed(r, Tail(p), new, A)
    <3>1. CASE i = 1
      BY <1>1, <2>3, <3>1 DEF Placed, Asks
    <3>2. CASE i # 1
      <4>1. i - 1 \in 1 .. Len(Tail(p)) /\ (i - 1) + 1 = i
        BY <1>1, <3>2
      <4>2. Tail(p)[i - 1] = r
        BY <1>1, <2>3, <4>1
      <4> QED
        BY <4>1, <4>2 DEF Placed, Waits
    <3> QED
      BY <3>1, <3>2
  <2>4. ASSUME NEW v \in A, ws[v].request = r PROVE Placed(r, Tail(p), new, A)
    BY <2>4 DEF Placed, Asks
  <2> QED
    BY <2>1, <2>2, <2>3, <2>4 DEF Placed, Waits, Asks
<1> QED
  BY <1>4, <1>5, <1>6, <1>7 DEF OnePlace

\* A worker puts its page back in front, and may be forgotten then.
LEMMA GiveBackPlaces ==
  ASSUME NEW p \in Seq(Monitor!Requests), NEW r0 \in Monitor!Requests, Null \notin Monitor!Requests,
         NEW ws, NEW new, NEW A, NEW w \in A, NEW B \in SUBSET A, A \ {w} \subseteq B, OnePlace(p, ws, A),
         ws[w].request = r0, new[w].request = Null,
         \A v \in A \ {w} : new[v].request = ws[v].request
  PROVE  /\ OnePlace(<<r0>> \o p, new, B)
         /\ \A r \in Monitor!Requests : Placed(r, <<r0>> \o p, new, B) <=> Placed(r, p, ws, A)
<1> DEFINE q == <<r0>> \o p
<1>1. /\ Len(p) \in Nat /\ Len(q) = Len(p) + 1 /\ q[1] = r0
      /\ \A i \in 1 .. Len(p) : i + 1 \in 1 .. Len(q) /\ q[i + 1] = p[i] /\ p[i] \in Monitor!Requests
      /\ 1 \in 1 .. Len(q)
      /\ \A i \in 1 .. Len(q) : i # 1 => i - 1 \in 1 .. Len(p) /\ q[i] = p[i - 1]
  OBVIOUS
<1> HIDE DEF q
<1>2. /\ \A i, j \in 1 .. Len(p) : p[i] = p[j] => i = j
      /\ \A v, u \in A : ws[v].request = ws[u].request /\ ws[v].request # Null => v = u
      /\ \A i \in 1 .. Len(p), v \in A : p[i] # ws[v].request
  BY DEF OnePlace
<1>3. \A i, j \in 1 .. Len(q) : q[i] = q[j] => i = j
  <2> SUFFICES ASSUME NEW i \in 1 .. Len(q), NEW j \in 1 .. Len(q), q[i] = q[j] PROVE i = j
    OBVIOUS
  <2>1. CASE i = 1 /\ j # 1
    BY <1>1, <1>2, <2>1
  <2>2. CASE i # 1 /\ j = 1
    BY <1>1, <1>2, <2>2
  <2>3. CASE i # 1 /\ j # 1
    <3>1. i - 1 = j - 1
      BY <1>1, <1>2, <2>3
    <3> QED
      BY <1>1, <3>1
  <2> QED
    BY <2>1, <2>2, <2>3
<1>4. \A v, u \in B : new[v].request = new[u].request /\ new[v].request # Null => v = u
  BY <1>2
<1>5. \A i \in 1 .. Len(q), v \in B : q[i] # new[v].request
  <2> SUFFICES ASSUME NEW i \in 1 .. Len(q), NEW v \in B, q[i] = new[v].request PROVE FALSE
    OBVIOUS
  <2>1. q[i] \in Monitor!Requests
    BY <1>1
  <2>2. v # w /\ new[v].request = ws[v].request
    BY <2>1
  <2>3. i = 1
    BY <1>1, <1>2, <2>2
  <2> QED
    BY <1>1, <1>2, <2>2, <2>3
<1>6. ASSUME NEW r \in Monitor!Requests PROVE Placed(r, q, new, B) <=> Placed(r, p, ws, A)
  <2>1. ASSUME NEW i \in 1 .. Len(q), q[i] = r PROVE Placed(r, p, ws, A)
    BY <1>1, <2>1 DEF Placed, Waits, Asks
  <2>2. ASSUME NEW v \in B, new[v].request = r PROVE Placed(r, p, ws, A)
    BY <2>2 DEF Placed, Asks
  <2>3. ASSUME NEW i \in 1 .. Len(p), p[i] = r PROVE Placed(r, q, new, B)
    BY <1>1, <2>3 DEF Placed, Waits
  <2>4. ASSUME NEW v \in A, ws[v].request = r PROVE Placed(r, q, new, B)
    <3>1. CASE v = w
      BY <1>1, <2>4, <3>1 DEF Placed, Waits
    <3>2. CASE v # w
      BY <2>4, <3>2 DEF Placed, Asks
    <3> QED
      BY <3>1, <3>2
  <2> QED
    BY <2>1, <2>2, <2>3, <2>4 DEF Placed, Waits, Asks
<1>7. OnePlace(q, new, B) /\ \A r \in Monitor!Requests : Placed(r, q, new, B) <=> Placed(r, p, ws, A)
  BY <1>3, <1>4, <1>5, <1>6 DEF OnePlace
<1> QED
  BY <1>7 DEF q

\* A page is answered: the worker asks for it no longer.
LEMMA AnswerPlaces ==
  ASSUME NEW p \in Seq(Monitor!Requests), NEW r0 \in Monitor!Requests, Null \notin Monitor!Requests,
         NEW ws, NEW new, NEW A, NEW w \in A, OnePlace(p, ws, A),
         ws[w].request = r0, new[w].request = Null,
         \A v \in A \ {w} : new[v].request = ws[v].request
  PROVE  /\ OnePlace(p, new, A)
         /\ \A r \in Monitor!Requests : Placed(r, p, new, A) <=> Placed(r, p, ws, A) /\ r # r0
<1>1. /\ \A i, j \in 1 .. Len(p) : p[i] = p[j] => i = j
      /\ \A v, u \in A : ws[v].request = ws[u].request /\ ws[v].request # Null => v = u
      /\ \A i \in 1 .. Len(p), v \in A : p[i] # ws[v].request
  BY DEF OnePlace
<1>2. \A i \in 1 .. Len(p) : p[i] \in Monitor!Requests
  OBVIOUS
<1>3. OnePlace(p, new, A)
  BY <1>1, <1>2 DEF OnePlace
<1>4. ASSUME NEW r \in Monitor!Requests PROVE Placed(r, p, new, A) <=> Placed(r, p, ws, A) /\ r # r0
  <2>1. ASSUME NEW v \in A, new[v].request = r PROVE Placed(r, p, ws, A) /\ r # r0
    BY <1>1, <2>1 DEF Placed, Asks
  <2>2. ASSUME NEW i \in 1 .. Len(p), p[i] = r PROVE Placed(r, p, ws, A) /\ r # r0 /\ Placed(r, p, new, A)
    BY <1>1, <2>2 DEF Placed, Waits
  <2>3. ASSUME NEW v \in A, ws[v].request = r, r # r0 PROVE Placed(r, p, new, A)
    BY <2>3 DEF Placed, Asks
  <2> QED
    BY <2>1, <2>2, <2>3 DEF Placed, Waits, Asks
<1> QED
  BY <1>3, <1>4

\* Pages that have no place are added, each once.
LEMMA AddPlaces ==
  ASSUME NEW p \in Seq(Monitor!Requests), NEW q \in Seq(Monitor!Requests), Null \notin Monitor!Requests,
         NEW ws, NEW A, OnePlace(p, ws, A),
         \A i, j \in 1 .. Len(q) : q[i] = q[j] => i = j,
         \A i \in 1 .. Len(q) : ~Placed(q[i], p, ws, A)
  PROVE  /\ OnePlace(p \o q, ws, A)
         /\ \A r \in Monitor!Requests : Placed(r, p \o q, ws, A) <=> Placed(r, p, ws, A) \/ Waits(r, q)
<1> DEFINE s == p \o q
           n == Len(p)
<1>1. /\ n \in Nat /\ Len(q) \in Nat /\ Len(s) = n + Len(q)
      /\ \A i \in 1 .. n : i \in 1 .. Len(s) /\ s[i] = p[i]
      /\ \A i \in 1 .. Len(q) : n + i \in 1 .. Len(s) /\ s[n + i] = q[i]
      /\ \A i \in 1 .. Len(s) : i > n => i - n \in 1 .. Len(q) /\ s[i] = q[i - n]
      /\ \A i \in 1 .. Len(s) : i <= n => i \in 1 .. n
  OBVIOUS
<1> HIDE DEF s
<1>2. /\ \A i, j \in 1 .. n : p[i] = p[j] => i = j
      /\ \A v, u \in A : ws[v].request = ws[u].request /\ ws[v].request # Null => v = u
      /\ \A i \in 1 .. n, v \in A : p[i] # ws[v].request
  BY DEF OnePlace
<1>3. \A i \in 1 .. Len(q) : (\A j \in 1 .. n : q[i] # p[j]) /\ (\A w \in A : q[i] # ws[w].request)
  BY DEF Placed, Waits, Asks
<1> HIDE DEF n
<1>4. \A i, j \in 1 .. Len(s) : s[i] = s[j] => i = j
  <2> SUFFICES ASSUME NEW i \in 1 .. Len(s), NEW j \in 1 .. Len(s), s[i] = s[j] PROVE i = j
    OBVIOUS
  <2>1. CASE i <= n /\ j <= n
    BY <1>1, <1>2, <2>1
  <2>2. CASE i <= n /\ j > n
    BY <1>1, <1>3, <2>2
  <2>3. CASE i > n /\ j <= n
    BY <1>1, <1>3, <2>3
  <2>4. CASE i > n /\ j > n
    <3>1. i - n = j - n
      BY <1>1, <2>4
    <3> QED
      BY <1>1, <3>1
  <2> QED
    BY <1>1, <2>1, <2>2, <2>3, <2>4
<1>5. \A i \in 1 .. Len(s), w \in A : s[i] # ws[w].request
  <2> TAKE i \in 1 .. Len(s), w \in A
  <2>1. i <= n \/ i > n
    BY <1>1
  <2> QED
    BY <1>1, <1>2, <1>3, <2>1
<1>6. OnePlace(s, ws, A)
  BY <1>2, <1>4, <1>5 DEF OnePlace
<1>7. ASSUME NEW r \in Monitor!Requests PROVE Waits(r, s) <=> Waits(r, p) \/ Waits(r, q)
  <2>1. ASSUME NEW i \in 1 .. Len(s), s[i] = r PROVE Waits(r, p) \/ Waits(r, q)
    <3>1. i <= n \/ i > n
      BY <1>1
    <3> QED
      BY <1>1, <2>1, <3>1 DEF Waits, n
  <2>2. ASSUME NEW i \in 1 .. n, p[i] = r PROVE Waits(r, s)
    BY <1>1, <2>2 DEF Waits
  <2>3. ASSUME NEW i \in 1 .. Len(q), q[i] = r PROVE Waits(r, s)
    BY <1>1, <2>3 DEF Waits
  <2> QED
    BY <2>1, <2>2, <2>3 DEF Waits, n
<1>8. \A r \in Monitor!Requests : Placed(r, s, ws, A) <=> Placed(r, p, ws, A) \/ Waits(r, q)
  BY <1>7 DEF Placed
<1> QED
  BY <1>6, <1>8 DEF s

\* Nothing moves: the workers that are forgotten ask for nothing.
LEMMA SamePlaces ==
  ASSUME NEW p \in Seq(Monitor!Requests), Null \notin Monitor!Requests,
         NEW ws, NEW new, NEW A, NEW B \in SUBSET A, OnePlace(p, ws, A),
         \A v \in B : new[v].request = ws[v].request,
         \A v \in A \ B : ws[v].request = Null
  PROVE  /\ OnePlace(p, new, B)
         /\ \A r \in Monitor!Requests : Placed(r, p, new, B) <=> Placed(r, p, ws, A)
<1>1. OnePlace(p, new, B)
  BY DEF OnePlace
<1>2. ASSUME NEW r \in Monitor!Requests PROVE Asks(r, new, B) <=> Asks(r, ws, A)
  BY DEF Asks
<1> QED
  BY <1>1, <1>2 DEF Placed

-----------------------------------------------------------------------------
(* Steps of the monitor                                                     *)

PagesUnchanged == UNCHANGED <<totalPages, category, answered, mixed>>

\* Pages keep their places, or one moves from a worker to the front or from the
\* front to a worker.
LEMMA PlacesKept ==
  ASSUME MonitorInv, PagesUnchanged,
         OnePlace(pending, workers, Monitor!Alive) =>
           /\ OnePlace(pending', workers', Monitor!Alive')
           /\ \A r \in Monitor!Requests :
                Placed(r, pending', workers', Monitor!Alive') <=> Placed(r, pending, workers, Monitor!Alive)
  PROVE  DuePlaced'
<1> SUFFICES ASSUME ~mixed'
             PROVE  /\ OnePlace(pending', workers', Monitor!Alive')
                    /\ \A r \in Monitor!Requests : Placed(r, pending', workers', Monitor!Alive') <=> Due(r)'
                    /\ answered' \subseteq 1 .. totalPages'
  BY DEF DuePlaced, Monitor!Requests
<1>1. /\ OnePlace(pending, workers, Monitor!Alive)
      /\ \A r \in Monitor!Requests : Placed(r, pending, workers, Monitor!Alive) <=> Due(r)
      /\ answered \subseteq 1 .. totalPages
  BY DEF MonitorInv, DuePlaced, PagesUnchanged
<1>2. \A r \in Monitor!Requests : Due(r)' <=> Due(r)
  BY DEF Due, PagesUnchanged
<1>3. answered' \subseteq 1 .. totalPages'
  BY <1>1 DEF PagesUnchanged
<1> QED
  BY <1>1, <1>2, <1>3

\* One worker changes its link only.
LEMMA LinkStep ==
  ASSUME MonitorAssumption, MonitorInv, NEW w \in Workers, NEW l \in Monitor!Links,
         workers' = [workers EXCEPT ![w].link = l],
         l \in {"waiting", "connecting"} => ~workers[w].isConnected,
         PagesUnchanged, UNCHANGED <<pending, clients, stopping, accounts>>
  PROVE  MonitorInv'
<1>1. workers \in [Workers -> Monitor!Worker] /\ pending \in Seq(Monitor!Requests)
  BY DEF MonitorInv, MonitorTypes
<1> DEFINE new == [workers[w] EXCEPT !.link = l]
<1>2. /\ new \in Monitor!Worker /\ new.link = l
      /\ new.request = workers[w].request /\ new.sent = workers[w].sent /\ new.idle = workers[w].idle
      /\ new.delay = workers[w].delay /\ new.isConnected = workers[w].isConnected
  BY <1>1 DEF Monitor!Worker
<1>3. workers' = [workers EXCEPT ![w] = new]
  OBVIOUS
<1> HIDE DEF new
<1>4. /\ workers' \in [Workers -> Monitor!Worker]
      /\ \A v \in Workers : /\ workers'[v].request = workers[v].request
                            /\ workers'[v].delay = workers[v].delay
                            /\ workers'[v].isConnected = workers[v].isConnected
  BY <1>1, <1>2, <1>3
<1>5. MonitorTypes' /\ Handover'
  BY <1>4 DEF MonitorInv, MonitorTypes, Handover, PagesUnchanged, Monitor!Requests, Monitor!Worker, Monitor!Links
<1>6. \A v \in Workers : WorkerSound(workers'[v])
  <2>1. WorkerSound(workers[w])
    BY DEF MonitorInv
  <2>2. WorkerSound(new)
    BY <1>2, <2>1 DEF WorkerSound
  <2> QED
    BY <1>1, <1>3, <2>2 DEF MonitorInv
<1>7. DuePlaced'
  <2>1. Monitor!Alive' = Monitor!Alive /\ Monitor!Alive \subseteq Workers
    BY DEF Monitor!Alive, MonitorInv, MonitorTypes
  <2>2. PICK A, all : A = Monitor!Alive /\ all = workers'
    OBVIOUS
  <2>3. \A v \in A : all[v].request = workers[v].request
    BY <1>4, <2>1, <2>2
  <2>4. A \in SUBSET A /\ A \ A = {} /\ Null \notin Monitor!Requests
    BY DEF MonitorAssumption
  <2>5. OnePlace(pending, workers, A) =>
          /\ OnePlace(pending, all, A)
          /\ \A r \in Monitor!Requests : Placed(r, pending, all, A) <=> Placed(r, pending, workers, A)
    BY <1>1, <2>3, <2>4, SamePlaces
  <2>6. pending' = pending
    OBVIOUS
  <2> QED
    BY <2>1, <2>2, <2>5, <2>6, PlacesKept
<1>8. Monitor!NoSleeper'
  BY <1>4 DEF MonitorInv, MonitorTypes, Monitor!NoSleeper
<1> QED
  BY <1>5, <1>6, <1>7, <1>8 DEF MonitorInv

\* A worker in the game that asks for nothing takes the first page, or is idle.
LEMMA TakesStep ==
  ASSUME MonitorAssumption, MonitorInv, NEW w \in Monitor!Alive, workers[w].request = Null,
         NEW worker \in Monitor!Worker, WorkerSound(worker),
         worker.request = Null, worker.isConnected, ~worker.delay,
         Monitor!Takes(w, worker), PagesUnchanged, UNCHANGED <<clients, stopping, accounts>>
  PROVE  MonitorInv'
<1>1. /\ workers \in [Workers -> Monitor!Worker] /\ pending \in Seq(Monitor!Requests)
      /\ Null \notin Monitor!Requests /\ w \in Workers /\ Monitor!Alive \subseteq Workers
      /\ Monitor!Alive' = Monitor!Alive
  BY DEF MonitorInv, MonitorTypes, Monitor!Alive, MonitorAssumption
<1>2. PICK new : new = IF pending # << >> THEN Monitor!Searching(worker, Head(pending)) ELSE [worker EXCEPT !.idle = TRUE]
  OBVIOUS
<1>3. /\ workers' = [workers EXCEPT ![w] = new]
      /\ pending' = IF pending # << >> THEN Tail(pending) ELSE pending
  BY <1>2 DEF Monitor!Takes
<1>4. pending # << >> => Head(pending) \in Monitor!Requests /\ Tail(pending) \in Seq(Monitor!Requests)
  BY <1>1
<1>5. /\ new \in Monitor!Worker /\ WorkerSound(new)
      /\ new.request = IF pending # << >> THEN Head(pending) ELSE Null
  <2>1. CASE pending # << >>
    BY <1>2, <1>4, <2>1, SearchingWorker
  <2>2. CASE pending = << >>
    <3>1. new = [worker EXCEPT !.idle = TRUE]
      BY <1>2, <2>2
    <3>2. /\ new \in Monitor!Worker /\ new.request = worker.request /\ new.sent = worker.sent /\ new.delay = worker.delay
          /\ new.isConnected = worker.isConnected /\ new.link = worker.link
      BY <3>1 DEF Monitor!Worker
    <3> QED
      BY <2>2, <3>2 DEF WorkerSound
  <2> QED
    BY <2>1, <2>2
<1>6. /\ workers' \in [Workers -> Monitor!Worker] /\ pending' \in Seq(Monitor!Requests)
      /\ workers'[w] = new /\ \A v \in Workers \ {w} : workers'[v] = workers[v]
  BY <1>1, <1>3, <1>4, <1>5
<1>7. MonitorTypes' /\ Handover'
  BY <1>6 DEF MonitorInv, MonitorTypes, Handover, PagesUnchanged, Monitor!Requests, Monitor!Worker, Monitor!Links
<1>8. \A v \in Workers : WorkerSound(workers'[v])
  BY <1>5, <1>6 DEF MonitorInv
<1>9. DuePlaced'
  <2>1. ASSUME OnePlace(pending, workers, Monitor!Alive)
        PROVE  /\ OnePlace(pending', workers', Monitor!Alive)
               /\ \A r \in Monitor!Requests :
                    Placed(r, pending', workers', Monitor!Alive) <=> Placed(r, pending, workers, Monitor!Alive)
    <3>1. CASE pending # << >>
      <4>1. /\ pending' = Tail(pending) /\ workers'[w].request = Head(pending)
            /\ \A v \in Monitor!Alive \ {w} : workers'[v].request = workers[v].request
        BY <1>1, <1>3, <1>5, <1>6, <3>1
      <4> HIDE DEF Monitor!Alive
      <4> QED
        BY <1>1, <2>1, <3>1, <4>1, TakePlaces
    <3>2. CASE pending = << >>
      <4>1. pending' = pending /\ \A v \in Monitor!Alive : workers'[v].request = workers[v].request
        BY <1>1, <1>3, <1>5, <1>6, <3>2
      <4> QED
        BY <1>1, <2>1, <4>1, SamePlaces
    <3> QED
      BY <3>1, <3>2
  <2> QED
    BY <1>1, <2>1, PlacesKept
<1>10. Monitor!NoSleeper'
  <2>1. CASE pending = << >>
    BY <1>3, <2>1 DEF Monitor!NoSleeper
  <2>2. CASE pending # << >>
    <3>1. workers'[w].request # Null
      BY <1>1, <1>4, <1>5, <1>6, <2>2
    <3>2. clients' # {} => w \in clients'
      BY DEF MonitorInv, Handover, Monitor!Alive
    <3> QED
      BY <3>1, <3>2 DEF Monitor!NoSleeper
  <2> QED
    BY <2>1, <2>2
<1> QED
  BY <1>7, <1>8, <1>9, <1>10 DEF MonitorInv

\* A worker puts its page back, and is off or waits for its delay.
LEMMA GiveBackStep ==
  ASSUME MonitorAssumption, MonitorInv, NEW w \in Monitor!Alive,
         NEW worker \in Monitor!Worker, WorkerSound(worker),
         worker.request = Null, worker.delay \/ ~worker.isConnected,
         workers' = [workers EXCEPT ![w] = worker], pending' = Monitor!GivenBack(w),
         PagesUnchanged, UNCHANGED clients, stopping' = stopping \/ stopping' = stopping \ {w},
         accounts' \in [reloading : BOOLEAN, timer : BOOLEAN, stopped : BOOLEAN], Handover'
  PROVE  MonitorInv'
<1>1. /\ workers \in [Workers -> Monitor!Worker] /\ pending \in Seq(Monitor!Requests)
      /\ Null \notin Monitor!Requests /\ w \in Workers /\ Monitor!Alive \subseteq Workers
      /\ workers[w].request \in Monitor!Requests \cup {Null}
  BY DEF MonitorInv, MonitorTypes, Monitor!Alive, MonitorAssumption, Monitor!Worker
<1>2. PICK A, B, all, q : A = Monitor!Alive /\ B = Monitor!Alive' /\ all = workers' /\ q = pending'
  OBVIOUS
<1> B \in SUBSET A /\ A \ {w} \subseteq B /\ A \subseteq Workers /\ w \in A
  BY <1>1, <1>2 DEF Monitor!Alive
<1>3. /\ workers' \in [Workers -> Monitor!Worker]
      /\ workers'[w] = worker /\ \A v \in Workers \ {w} : workers'[v] = workers[v]
  BY <1>1
<1>4. pending' = IF workers[w].request = Null THEN pending ELSE <<workers[w].request>> \o pending
  BY DEF Monitor!GivenBack, Monitor!Requeued
<1>5. pending' \in Seq(Monitor!Requests)
  BY <1>1, <1>4
<1>6. MonitorTypes'
  <2>1. stopping' \subseteq Workers
    BY DEF MonitorInv, MonitorTypes
  <2> QED
    BY <1>3, <1>5, <2>1 DEF MonitorInv, MonitorTypes, PagesUnchanged, Monitor!Requests, Monitor!Worker, Monitor!Links
<1>7. \A v \in Workers : WorkerSound(workers'[v])
  BY <1>3 DEF MonitorInv
<1>8. DuePlaced'
  <2>1. ASSUME OnePlace(pending, workers, A)
        PROVE  /\ OnePlace(q, all, B)
               /\ \A r \in Monitor!Requests :
                    Placed(r, q, all, B) <=> Placed(r, pending, workers, A)
    <3>1. CASE workers[w].request # Null
      <4> PICK r0 : r0 = workers[w].request
        OBVIOUS
      <4>1. /\ r0 \in Monitor!Requests /\ q = <<r0>> \o pending /\ workers[w].request = r0
            /\ all[w].request = Null
            /\ \A v \in A \ {w} : all[v].request = workers[v].request
        BY <1>1, <1>2, <1>3, <1>4, <3>1
      <4>2. /\ OnePlace(<<r0>> \o pending, all, B)
            /\ \A r \in Monitor!Requests : Placed(r, <<r0>> \o pending, all, B) <=> Placed(r, pending, workers, A)
        BY <1>1, <2>1, <4>1, GiveBackPlaces, ZenonT(40)
      <4> QED
        BY <4>1, <4>2
    <3>2. CASE workers[w].request = Null
      <4>1. /\ q = pending
            /\ \A v \in B : all[v].request = workers[v].request
            /\ \A v \in A \ B : workers[v].request = Null
        BY <1>1, <1>2, <1>3, <1>4, <3>2
      <4> QED
        BY <1>1, <2>1, <4>1, SamePlaces
    <3> QED
      BY <3>1, <3>2
  <2> QED
    BY <1>2, <2>1, PlacesKept
<1>9. Monitor!NoSleeper'
  <2>1. clients' # {} => w \in clients'
    BY DEF MonitorInv, Handover, Monitor!Alive
  <2>2. workers'[w].delay \/ ~workers'[w].isConnected
    BY <1>3
  <2> QED
    BY <2>1, <2>2 DEF Monitor!NoSleeper
<1> QED
  BY <1>6, <1>7, <1>8, <1>9 DEF MonitorInv

\* The pages of q are handed out, after an answer to a worker of ws that waits
\* for its delay now.
LEMMA HandOutStep ==
  ASSUME MonitorAssumption, MonitorInv, NEW w \in Monitor!Alive,
         NEW q \in Seq(Monitor!Requests), NEW ws \in [Workers -> Monitor!Worker],
         \A v \in Workers : WorkerSound(ws[v]),
         ws[w].delay, Monitor!HandOut(q, ws), UNCHANGED <<clients, stopping, accounts>>,
         totalPages' \in 1 .. MaxPages, category' \in 0 .. Categories - 1, answered' \subseteq Nat, mixed' \in BOOLEAN,
         ~mixed' => /\ OnePlace(q, ws, Monitor!Alive)
                    /\ \A r \in Monitor!Requests : Placed(r, q, ws, Monitor!Alive) <=> Due(r)'
                    /\ answered' \subseteq 1 .. totalPages'
  PROVE  MonitorInv'
<1>1. PICK h : h = Monitor!Hand(q, ws) /\ pending' = h.pending /\ workers' = h.workers
  BY DEF Monitor!HandOut
<1>2. /\ clients \subseteq Workers /\ w \in Workers /\ Monitor!Alive \subseteq Workers /\ clients \subseteq Monitor!Alive
      /\ Monitor!Alive' = Monitor!Alive
  BY DEF MonitorInv, MonitorTypes, Monitor!Alive
<1>3. /\ h.pending \in Seq(Monitor!Requests)
      /\ h.workers \in [Workers -> Monitor!Worker]
      /\ \A v \in Workers : WorkerSound(h.workers[v])
      /\ h.workers[w].delay
  BY <1>1, <1>2, HandWorkers
<1>4. MonitorTypes' /\ Handover'
  BY <1>1, <1>3 DEF MonitorInv, MonitorTypes, Handover, Monitor!Requests, Monitor!Worker, Monitor!Links
<1>5. DuePlaced'
  <2> SUFFICES ASSUME ~mixed'
               PROVE  /\ OnePlace(pending', workers', Monitor!Alive')
                      /\ \A r \in Monitor!Requests : Placed(r, pending', workers', Monitor!Alive') <=> Due(r)'
                      /\ answered' \subseteq 1 .. totalPages'
    BY DEF DuePlaced, Monitor!Requests
  <2>1. PICK A : A = Monitor!Alive
    OBVIOUS
  <2>2. /\ OnePlace(h.pending, h.workers, A)
        /\ \A r \in Monitor!Requests : Placed(r, h.pending, h.workers, A) <=> Placed(r, q, ws, A)
    <3>1. OnePlace(q, ws, A) /\ A \in SUBSET Workers /\ clients \subseteq A
      BY <1>2, <2>1
    <3> QED
      BY <1>1, <1>2, <3>1, HandPlaces
  <2> QED
    BY <1>1, <1>2, <2>1, <2>2
<1>6. Monitor!NoSleeper'
  <2>1. clients' # {} => w \in clients'
    BY DEF MonitorInv, Handover, Monitor!Alive
  <2> QED
    BY <1>1, <1>3, <2>1 DEF Monitor!NoSleeper
<1> QED
  BY <1>1, <1>3, <1>4, <1>5, <1>6 DEF MonitorInv

\* The next category is one of the categories.
LEMMA CategoryAfter ==
  ASSUME MonitorAssumption, NEW c \in 0 .. Categories - 1
  PROVE  (c + 1) % Categories \in 0 .. Categories - 1
BY DEF MonitorAssumption

\* A worker's page is answered, and with it perhaps the category.
LEMMA CompletedStep ==
  ASSUME MonitorAssumption, MonitorInv, NEW w \in Monitor!Alive, NEW n \in 0 .. MaxPages,
         workers[w].request # Null,
         NEW worker \in Monitor!Worker, WorkerSound(worker), worker.request = Null, worker.delay,
         Monitor!Completed(workers[w].request, n, [workers EXCEPT ![w] = worker]),
         UNCHANGED <<clients, stopping, accounts>>
  PROVE  MonitorInv'
<1>1. /\ workers \in [Workers -> Monitor!Worker] /\ pending \in Seq(Monitor!Requests)
      /\ Null \notin Monitor!Requests /\ w \in Workers /\ Monitor!Alive \subseteq Workers
      /\ totalPages \in 1 .. MaxPages /\ category \in 0 .. Categories - 1 /\ answered \subseteq Nat
      /\ mixed \in BOOLEAN
      /\ Categories \in Nat \ {0} /\ MaxPages \in Nat \ {0}
      /\ Monitor!Alive' = Monitor!Alive
  BY DEF MonitorInv, MonitorTypes, Monitor!Alive, MonitorAssumption
<1>2. PICK r0, ws, A, p : r0 = workers[w].request /\ ws = [workers EXCEPT ![w] = worker] /\ A = Monitor!Alive /\ p = pending
  OBVIOUS
<1>3. r0 \in Monitor!Requests
  BY <1>1, <1>2 DEF Monitor!Worker
<1>4. r0[1] \in 0 .. Categories - 1 /\ r0[2] \in 1 .. MaxPages /\ r0[2] \in Nat
  <2>1. r0[1] \in 0 .. Categories - 1 /\ r0[2] \in 1 .. MaxPages
    BY <1>3 DEF Monitor!Requests
  <2>2. 1 .. MaxPages \subseteq Nat
    BY <1>1
  <2> QED
    BY <2>1, <2>2
<1>5. /\ ws \in [Workers -> Monitor!Worker] /\ ws[w] = worker
      /\ \A v \in Workers \ {w} : ws[v] = workers[v]
      /\ \A v \in Workers : WorkerSound(ws[v])
  BY <1>1, <1>2 DEF MonitorInv
<1>6. w \in A /\ A \subseteq Workers /\ A \in SUBSET Workers /\ p \in Seq(Monitor!Requests)
  BY <1>1, <1>2
<1>7. ~mixed => /\ OnePlace(p, ws, A)
                /\ \A r \in Monitor!Requests : Placed(r, p, ws, A) <=> Due(r) /\ r # r0
                /\ answered \subseteq 1 .. totalPages
                /\ Due(r0)
  <2> SUFFICES ASSUME ~mixed
               PROVE  /\ OnePlace(p, ws, A)
                      /\ \A r \in Monitor!Requests : Placed(r, p, ws, A) <=> Due(r) /\ r # r0
                      /\ answered \subseteq 1 .. totalPages
                      /\ Due(r0)
    OBVIOUS
  <2>1. /\ OnePlace(p, workers, A)
        /\ \A r \in Monitor!Requests : Placed(r, p, workers, A) <=> Due(r)
        /\ answered \subseteq 1 .. totalPages
    BY <1>2 DEF MonitorInv, DuePlaced
  <2>2. PICK old : old = workers
    OBVIOUS
  <2>3. /\ OnePlace(p, old, A) /\ old[w].request = r0 /\ ws[w].request = Null
        /\ \A v \in A \ {w} : ws[v].request = old[v].request
    BY <1>2, <1>5, <1>6, <2>1, <2>2
  <2>4. /\ OnePlace(p, ws, A)
        /\ \A r \in Monitor!Requests : Placed(r, p, ws, A) <=> Placed(r, p, old, A) /\ r # r0
    BY <1>1, <1>3, <1>6, <2>3, AnswerPlaces
  <2>5. Placed(r0, p, old, A)
    BY <1>6, <2>3 DEF Placed, Asks
  <2> QED
    BY <1>3, <2>1, <2>2, <2>4, <2>5
<1>8. Monitor!Completed(r0, n, ws)
  BY <1>2
<1>9. CASE n > totalPages
  <2>1. PICK q : q = [i \in 1 .. n - totalPages |-> <<r0[1], totalPages + i>>]
    OBVIOUS
  <2>2. /\ totalPages' = n /\ answered' = answered \cup {r0[2]} /\ UNCHANGED <<category, mixed>>
        /\ Monitor!HandOut(p \o q, ws)
    BY <1>2, <1>8, <1>9, <2>1 DEF Monitor!Completed
  <2>3. n - totalPages \in Nat
    BY <1>1, <1>9
  <2>4. \A i \in 1 .. n - totalPages : <<r0[1], totalPages + i>> \in Monitor!Requests
    BY <1>1, <1>4 DEF Monitor!Requests
  <2>5. /\ q \in Seq(Monitor!Requests) /\ Len(q) = n - totalPages
        /\ \A i \in 1 .. Len(q) : q[i] = <<r0[1], totalPages + i>>
    BY <2>1, <2>3, <2>4
  <2>6. totalPages' \in 1 .. MaxPages /\ answered' \subseteq Nat /\ p \o q \in Seq(Monitor!Requests)
    <3>1. totalPages' \in 1 .. MaxPages
      BY <1>1, <1>9, <2>2
    <3>2. answered' \subseteq Nat
      BY <1>1, <1>4, <2>2
    <3>3. p \o q \in Seq(Monitor!Requests)
      BY <1>6, <2>5
    <3> QED
      BY <3>1, <3>2, <3>3
  <2>7. ASSUME ~mixed'
        PROVE  /\ OnePlace(p \o q, ws, A)
               /\ \A r \in Monitor!Requests : Placed(r, p \o q, ws, A) <=> Due(r)'
               /\ answered' \subseteq 1 .. totalPages'
    <3>1. /\ OnePlace(p, ws, A)
          /\ \A r \in Monitor!Requests : Placed(r, p, ws, A) <=> Due(r) /\ r # r0
          /\ answered \subseteq 1 .. totalPages
          /\ Due(r0)
      BY <1>7, <2>2, <2>7
    <3>2. r0[1] = category /\ r0[2] <= totalPages /\ r0[2] \notin answered
      BY <3>1 DEF Due
    <3>3. \A i, j \in 1 .. Len(q) : q[i] = q[j] => i = j
      <4>1. SUFFICES ASSUME NEW i \in 1 .. Len(q), NEW j \in 1 .. Len(q), q[i] = q[j] PROVE i = j
        OBVIOUS
      <4>2. <<r0[1], totalPages + i>> = <<r0[1], totalPages + j>>
        BY <2>5, <4>1
      <4>3. totalPages + i = totalPages + j
        BY <4>2
      <4> QED
        BY <1>1, <4>3
    <3>4. \A i \in 1 .. Len(q) : ~Placed(q[i], p, ws, A)
      <4> TAKE i \in 1 .. Len(q)
      <4>1. q[i] \in Monitor!Requests /\ q[i][2] = totalPages + i /\ totalPages + i > totalPages
        BY <1>1, <2>5
      <4>2. ~Due(q[i])
        BY <1>1, <4>1 DEF Due
      <4> QED
        BY <3>1, <4>1, <4>2
    <3>5. /\ OnePlace(p \o q, ws, A)
          /\ \A r \in Monitor!Requests : Placed(r, p \o q, ws, A) <=> Placed(r, p, ws, A) \/ Waits(r, q)
      BY <1>1, <1>6, <2>5, <3>1, <3>3, <3>4, AddPlaces
    <3>6. ASSUME NEW r \in Monitor!Requests PROVE (Due(r) /\ r # r0) \/ Waits(r, q) <=> Due(r)'
      <4>1. r = <<r[1], r[2]>> /\ r[1] \in 0 .. Categories - 1 /\ r[2] \in 1 .. MaxPages
        BY <3>6 DEF Monitor!Requests
      <4>2. r0 = <<r0[1], r0[2]>>
        BY <1>3 DEF Monitor!Requests
      <4>3. Due(r)' <=> r[1] = category /\ r[2] <= n /\ r[2] \notin answered /\ r[2] # r0[2]
        BY <2>2 DEF Due
      <4>4. Waits(r, q) <=> r[1] = category /\ r[2] > totalPages /\ r[2] <= n
        <5>1. ASSUME NEW i \in 1 .. Len(q), q[i] = r PROVE r[1] = category /\ r[2] > totalPages /\ r[2] <= n
          BY <1>1, <2>5, <3>2, <5>1
        <5>2. ASSUME r[1] = category, r[2] > totalPages, r[2] <= n PROVE Waits(r, q)
          <6>1. r[2] - totalPages \in 1 .. Len(q) /\ totalPages + (r[2] - totalPages) = r[2]
            BY <1>1, <2>5, <4>1, <5>2
          <6>2. q[r[2] - totalPages] = <<r0[1], r[2]>>
            BY <2>5, <6>1
          <6>3. q[r[2] - totalPages] = r
            BY <3>2, <4>1, <5>2, <6>2
          <6> QED
            BY <6>1, <6>3 DEF Waits
        <5> QED
          BY <5>1, <5>2 DEF Waits
      <4>5. Due(r) /\ r # r0 <=> r[1] = category /\ r[2] <= totalPages /\ r[2] \notin answered /\ r[2] # r0[2]
        BY <3>2, <4>1, <4>2 DEF Due
      <4>6. r[2] > totalPages => r[2] \notin answered /\ r[2] # r0[2]
        BY <1>1, <3>1, <3>2, <4>1
      <4> QED
        BY <1>1, <1>9, <4>1, <4>3, <4>4, <4>5, <4>6
    <3>7. answered' \subseteq 1 .. totalPages'
      <4>1. 1 .. totalPages \subseteq 1 .. n
        BY <1>1, <1>9
      <4>2. r0[2] \in 1 .. totalPages
        BY <1>1, <1>4, <3>2
      <4> QED
        BY <2>2, <3>1, <4>1, <4>2
    <3> QED
      BY <3>1, <3>5, <3>6, <3>7
  <2>8. ws[w].delay /\ category' \in 0 .. Categories - 1 /\ mixed' \in BOOLEAN
    BY <1>1, <1>5, <2>2
  <2>9. PICK s : s = p \o q
    OBVIOUS
  <2>10. /\ s \in Seq(Monitor!Requests) /\ Monitor!HandOut(s, ws)
         /\ ~mixed' => /\ OnePlace(s, ws, Monitor!Alive)
                       /\ \A r \in Monitor!Requests : Placed(r, s, ws, Monitor!Alive) <=> Due(r)'
                       /\ answered' \subseteq 1 .. totalPages'
    BY <1>2, <2>2, <2>6, <2>7, <2>9
  <2> QED
    BY <1>5, <2>6, <2>8, <2>10, HandOutStep
<1>10. CASE ~(n > totalPages) /\ Monitor!isAllRequestProcessed(ws)
  <2>1. PICK c \in {(category + 1) % Categories} :
          /\ category' = c /\ totalPages' = 1 /\ answered' = {}
          /\ mixed' = (mixed \/ \E v \in stopping : ws[v].request # Null)
          /\ Monitor!HandOut(Append(pending, <<c, 1>>), ws)
    BY <1>8, <1>10 DEF Monitor!Completed, Monitor!NextCategory
  <2>2. pending = << >> /\ \A v \in clients : ws[v].request = Null
    BY <1>10 DEF Monitor!isAllRequestProcessed
  <2>3. c \in 0 .. Categories - 1
    BY <1>1, <2>1, CategoryAfter
  <2>4. <<c, 1>> \in Monitor!Requests
    BY <1>1, <2>3 DEF Monitor!Requests
  <2>5. PICK s : s = Append(pending, <<c, 1>>)
    OBVIOUS
  <2>6. s \in Seq(Monitor!Requests) /\ Len(s) = 1 /\ s[1] = <<c, 1>>
    BY <2>2, <2>4, <2>5
  <2>7. ASSUME ~mixed'
        PROVE  /\ OnePlace(s, ws, A)
               /\ \A r \in Monitor!Requests : Placed(r, s, ws, A) <=> Due(r)'
               /\ answered' \subseteq 1 .. totalPages'
    <3>1. \A v \in A : ws[v].request = Null
      BY <1>2, <2>1, <2>2, <2>7 DEF Monitor!Alive
    <3>2. OnePlace(s, ws, A)
      BY <1>1, <2>4, <2>6, <3>1 DEF OnePlace
    <3>3. ASSUME NEW r \in Monitor!Requests PROVE Placed(r, s, ws, A) <=> Due(r)'
      <4>1. r = <<r[1], r[2]>> /\ r[1] \in 0 .. Categories - 1 /\ r[2] \in 1 .. MaxPages
        BY <3>3 DEF Monitor!Requests
      <4>2. Placed(r, s, ws, A) <=> r = <<c, 1>>
        <5>1. Waits(r, s) <=> s[1] = r
          <6>1. 1 .. Len(s) = {1}
            BY <2>6
          <6> QED
            BY <6>1 DEF Waits
        <5>2. ~Asks(r, ws, A)
          BY <1>1, <3>1, <3>3 DEF Asks
        <5> QED
          BY <2>6, <5>1, <5>2 DEF Placed
      <4>3. Due(r)' <=> r[1] = c /\ r[2] <= 1
        BY <2>1 DEF Due
      <4>4. r = <<c, 1>> <=> r[1] = c /\ r[2] <= 1
        BY <1>1, <4>1
      <4> QED
        BY <4>2, <4>3, <4>4
    <3>4. answered' \subseteq 1 .. totalPages'
      BY <2>1
    <3> QED
      BY <3>2, <3>3, <3>4
  <2>8. /\ totalPages' \in 1 .. MaxPages /\ category' \in 0 .. Categories - 1 /\ answered' \subseteq Nat
        /\ mixed' \in BOOLEAN /\ ws[w].delay /\ Monitor!HandOut(s, ws)
    BY <1>1, <1>5, <2>1, <2>3, <2>5
  <2> QED
    BY <1>2, <1>5, <2>6, <2>7, <2>8, HandOutStep
<1>11. CASE ~(n > totalPages) /\ ~Monitor!isAllRequestProcessed(ws)
  <2>1. /\ answered' = answered \cup {r0[2]} /\ workers' = ws
        /\ UNCHANGED <<pending, totalPages, category, mixed>>
    BY <1>8, <1>11 DEF Monitor!Completed
  <2>2. MonitorTypes' /\ Handover'
    <3>1. answered' \subseteq Nat
      BY <1>1, <1>4, <2>1
    <3> QED
      BY <1>5, <2>1, <3>1 DEF MonitorInv, MonitorTypes, Handover, Monitor!Requests, Monitor!Worker, Monitor!Links
  <2>3. DuePlaced'
    <3> SUFFICES ASSUME ~mixed'
                 PROVE  /\ OnePlace(pending', workers', Monitor!Alive')
                        /\ \A r \in Monitor!Requests : Placed(r, pending', workers', Monitor!Alive') <=> Due(r)'
                        /\ answered' \subseteq 1 .. totalPages'
      BY DEF DuePlaced, Monitor!Requests
    <3>1. /\ OnePlace(p, ws, A)
          /\ \A r \in Monitor!Requests : Placed(r, p, ws, A) <=> Due(r) /\ r # r0
          /\ answered \subseteq 1 .. totalPages
          /\ Due(r0)
      BY <1>7, <2>1
    <3>2. r0[1] = category /\ r0[2] <= totalPages /\ r0[2] \notin answered
      BY <3>1 DEF Due
    <3>3. ASSUME NEW r \in Monitor!Requests PROVE Due(r) /\ r # r0 <=> Due(r)'
      <4>1. r = <<r[1], r[2]>> /\ r0 = <<r0[1], r0[2]>>
        BY <1>3, <3>3 DEF Monitor!Requests
      <4> QED
        BY <2>1, <3>2, <4>1 DEF Due
    <3>4. answered' \subseteq 1 .. totalPages'
      <4>1. r0[2] \in 1 .. totalPages
        BY <1>1, <1>4, <3>2
      <4> QED
        BY <2>1, <3>1, <4>1
    <3> QED
      BY <1>1, <1>2, <2>1, <3>1, <3>3, <3>4
  <2>4. Monitor!NoSleeper'
    <3>1. clients' # {} => w \in clients'
      BY DEF MonitorInv, Handover, Monitor!Alive
    <3> QED
      BY <1>5, <2>1, <3>1 DEF Monitor!NoSleeper
  <2> QED
    BY <1>5, <2>1, <2>2, <2>3, <2>4 DEF MonitorInv
<1> QED
  BY <1>9, <1>10, <1>11

-----------------------------------------------------------------------------
(* Actions of the monitor                                                   *)

LEMMA MonitorStart == ASSUME MonitorAssumption PROVE Monitor!Init => MonitorInv
<1> SUFFICES ASSUME Monitor!Init PROVE MonitorInv
  OBVIOUS
<1>1. /\ pending = <<<<0, 1>>>> /\ totalPages = 1 /\ category = 0 /\ clients = Workers /\ stopping = {}
      /\ workers = [w \in Workers |-> Monitor!NewWorker]
      /\ accounts = [reloading |-> FALSE, timer |-> FALSE, stopped |-> FALSE]
      /\ answered = {} /\ mixed = FALSE
  BY DEF Monitor!Init
<1>2. <<0, 1>> \in Monitor!Requests /\ Null \notin Monitor!Requests
  BY DEF MonitorAssumption, Monitor!Requests
<1>3. pending \in Seq(Monitor!Requests) /\ Len(pending) = 1 /\ pending[1] = <<0, 1>> /\ 1 .. Len(pending) = {1}
  BY <1>1, <1>2
<1>4. Monitor!NewWorker \in Monitor!Worker /\ WorkerSound(Monitor!NewWorker) /\ Monitor!NewWorker.request = Null
      /\ ~Monitor!NewWorker.isConnected
  BY DEF Monitor!NewWorker, Monitor!Worker, Monitor!Links, WorkerSound
<1>5. MonitorTypes
  <2>1. 1 \in 1 .. MaxPages /\ 0 \in 0 .. Categories - 1
    BY DEF MonitorAssumption
  <2>2. workers \in [Workers -> Monitor!Worker]
    BY <1>1, <1>4
  <2>3. accounts \in [reloading : BOOLEAN, timer : BOOLEAN, stopped : BOOLEAN]
    BY <1>1
  <2>4. pending \in Seq(Monitor!Requests)
    BY <1>3
  <2>5. /\ clients \subseteq Workers /\ stopping \subseteq Workers
        /\ answered \subseteq Nat /\ mixed \in BOOLEAN
    BY <1>1
  <2> QED
    BY <1>1, <2>1, <2>2, <2>3, <2>4, <2>5 DEF MonitorTypes
<1>6. Handover /\ \A w \in Workers : WorkerSound(workers[w]) /\ workers[w].request = Null /\ ~workers[w].isConnected
  BY <1>1, <1>4 DEF Handover
<1>7. DuePlaced
  <2>1. Monitor!Alive = Workers
    BY <1>1 DEF Monitor!Alive
  <2>2. OnePlace(pending, workers, Workers)
    BY <1>2, <1>3, <1>6 DEF OnePlace
  <2>3. ASSUME NEW r \in Monitor!Requests PROVE Placed(r, pending, workers, Workers) <=> Due(r)
    <3>1. r = <<r[1], r[2]>> /\ r[1] \in 0 .. Categories - 1 /\ r[2] \in 1 .. MaxPages
      BY <2>3 DEF Monitor!Requests
    <3>2. Waits(r, pending) <=> r = <<0, 1>>
      BY <1>3 DEF Waits
    <3>3. ~Asks(r, workers, Workers)
      BY <1>2, <1>6, <2>3 DEF Asks
    <3>4. Due(r) <=> r[1] = 0 /\ r[2] <= 1
      BY <1>1 DEF Due
    <3>5. r = <<0, 1>> <=> r[1] = 0 /\ r[2] <= 1
      BY <3>1 DEF MonitorAssumption
    <3> QED
      BY <3>2, <3>3, <3>4, <3>5 DEF Placed
  <2> QED
    BY <1>1, <2>1, <2>2, <2>3 DEF DuePlaced
<1>8. Monitor!NoSleeper
  BY <1>1, <1>6 DEF Monitor!NoSleeper
<1> QED
  BY <1>5, <1>6, <1>7, <1>8 DEF MonitorInv

LEMMA MonitorFacts ==
  ASSUME MonitorInv
  PROVE  /\ workers \in [Workers -> Monitor!Worker] /\ clients \subseteq Workers /\ stopping \subseteq Workers
         /\ accounts \in [reloading : BOOLEAN, timer : BOOLEAN, stopped : BOOLEAN]
         /\ Monitor!Alive \subseteq Workers
         /\ \A w \in Workers : /\ workers[w] \in Monitor!Worker /\ WorkerSound(workers[w])
                               /\ workers[w].isConnected \in BOOLEAN /\ workers[w].idle \in BOOLEAN
                               /\ workers[w].delay \in BOOLEAN /\ workers[w].sent \in BOOLEAN
                               /\ workers[w].link \in Monitor!Links
BY DEF MonitorInv, MonitorTypes, Monitor!Alive, Monitor!Worker

\* The steps in which a worker's link changes and nothing else.
LEMMA LinkSteps ==
  ASSUME MonitorAssumption, MonitorInv, NEW w \in Workers,
         \/ Monitor!ConnectFails(w) \/ Monitor!onAuctionSearchTimer(w)
         \/ Monitor!onGGTimerExpired(w) \/ Monitor!onDelayRecoExpired(w)
  PROVE  MonitorInv'
<1>1. PagesUnchanged /\ UNCHANGED <<pending, clients, stopping, accounts>>
  BY DEF Monitor!ConnectFails, Monitor!onAuctionSearchTimer, Monitor!onGGTimerExpired,
         Monitor!onDelayRecoExpired, PagesUnchanged
<1>2. PICK l \in {"aborted", "shutting", "connecting"} :
        /\ workers' = [workers EXCEPT ![w].link = l]
        /\ l = "connecting" => workers[w].link = "waiting"
  BY DEF Monitor!ConnectFails, Monitor!onAuctionSearchTimer, Monitor!onGGTimerExpired, Monitor!onDelayRecoExpired
<1>3. l \in Monitor!Links /\ (l \in {"waiting", "connecting"} => ~workers[w].isConnected)
  BY <1>2, MonitorFacts DEF WorkerSound, Monitor!Links
<1> QED
  BY <1>1, <1>2, <1>3, LinkStep

LEMMA ConnectedStep ==
  ASSUME MonitorAssumption, MonitorInv, NEW w \in Workers, Monitor!onConnected(w)
  PROVE  MonitorInv'
<1> DEFINE worker == [workers[w] EXCEPT !.link = "open", !.isConnected = TRUE, !.idle = TRUE]
<1>1. /\ w \in Monitor!Alive /\ workers[w].link = "connecting" /\ Monitor!Takes(w, worker)
      /\ PagesUnchanged /\ UNCHANGED <<clients, stopping, accounts>>
  BY DEF Monitor!onConnected, PagesUnchanged
<1>2. /\ workers[w] \in Monitor!Worker /\ workers[w].request = Null /\ ~workers[w].delay /\ ~workers[w].sent
  BY <1>1, MonitorFacts DEF WorkerSound
<1>3. /\ worker \in Monitor!Worker /\ worker.request = Null /\ worker.isConnected /\ ~worker.delay
      /\ ~worker.sent /\ worker.link = "open"
  BY <1>2 DEF Monitor!Worker, Monitor!Links
<1>4. WorkerSound(worker)
  BY <1>3 DEF WorkerSound
<1> HIDE DEF worker
<1> QED
  BY <1>1, <1>2, <1>3, <1>4, TakesStep

LEMMA AuctionDelayStep ==
  ASSUME MonitorAssumption, MonitorInv, NEW w \in Workers, Monitor!onAuctionDelay(w)
  PROVE  MonitorInv'
<1> DEFINE worker == [workers[w] EXCEPT !.delay = FALSE]
<1>1. /\ w \in Monitor!Alive /\ workers[w].delay /\ Monitor!Takes(w, worker)
      /\ PagesUnchanged /\ UNCHANGED <<clients, stopping, accounts>>
  BY DEF Monitor!onAuctionDelay, PagesUnchanged
<1>2. /\ workers[w] \in Monitor!Worker /\ workers[w].request = Null /\ workers[w].isConnected
      /\ ~workers[w].sent /\ workers[w].link \notin {"waiting", "connecting"}
  BY <1>1, MonitorFacts DEF WorkerSound
<1>3. /\ worker \in Monitor!Worker /\ worker.request = Null /\ worker.isConnected /\ ~worker.delay
      /\ ~worker.sent /\ worker.link = workers[w].link
  BY <1>2 DEF Monitor!Worker
<1>4. WorkerSound(worker)
  BY <1>2, <1>3 DEF WorkerSound
<1> HIDE DEF worker
<1> QED
  BY <1>1, <1>2, <1>3, <1>4, TakesStep

\* An answer, after which the worker waits for its delay, and is closed perhaps.
LEMMA SearchResultStep ==
  ASSUME MonitorAssumption, MonitorInv, NEW w \in Workers, NEW n \in 0 .. MaxPages, NEW closes \in BOOLEAN,
         Monitor!onAuctionSearchResult(w, n, closes)
  PROVE  MonitorInv'
<1>1. PICK worker : worker = [[workers[w] EXCEPT !.request = Null, !.sent = FALSE, !.delay = TRUE]
                                EXCEPT !.link = IF closes THEN "aborted" ELSE @]
  OBVIOUS
<1>2. /\ w \in Monitor!Alive /\ workers[w].sent /\ workers[w].link \in {"open", "shutting"}
      /\ UNCHANGED <<clients, stopping, accounts>>
  BY DEF Monitor!onAuctionSearchResult, Monitor!Reads
<1>3. Monitor!Completed(workers[w].request, n, [workers EXCEPT ![w] = worker])
  <2>1. worker = [Monitor!Delayed(workers[w]) EXCEPT !.link = IF closes THEN "aborted" ELSE @]
    BY <1>1, Zenon DEF Monitor!Delayed
  <2> QED
    BY <2>1, Zenon DEF Monitor!onAuctionSearchResult
<1>4. /\ workers[w] \in Monitor!Worker /\ workers[w].request # Null /\ workers[w].isConnected /\ ~workers[w].idle
  BY <1>2, MonitorFacts DEF WorkerSound
<1>5. /\ worker \in Monitor!Worker /\ worker.request = Null /\ worker.delay /\ ~worker.sent
      /\ worker.isConnected /\ ~worker.idle /\ worker.link \in {"open", "shutting", "aborted"}
  BY <1>1, <1>2, <1>4 DEF Monitor!Worker, Monitor!Links
<1>6. WorkerSound(worker)
  BY <1>5 DEF WorkerSound
<1> QED
  BY <1>2, <1>3, <1>4, <1>5, <1>6, CompletedStep

\* A page that is put back, after which the worker waits or is off.
LEMMA SearchFailedStep ==
  ASSUME MonitorAssumption, MonitorInv, NEW w \in Workers, Monitor!onAuctionSearchFailed(w)
  PROVE  MonitorInv'
<1>1. PICK worker : worker = [workers[w] EXCEPT !.request = Null, !.sent = FALSE, !.delay = TRUE]
  OBVIOUS
<1>2. /\ w \in Monitor!Alive /\ workers[w].sent /\ workers[w].link \in {"open", "shutting"}
      /\ PagesUnchanged /\ UNCHANGED <<clients, stopping, accounts>>
      /\ pending' = Monitor!Requeued(workers[w].request)
      /\ workers' = [workers EXCEPT ![w] = worker]
  BY <1>1, MonitorFacts DEF Monitor!onAuctionSearchFailed, Monitor!Reads, Monitor!Delayed, PagesUnchanged
<1>3. /\ workers[w] \in Monitor!Worker /\ workers[w].request # Null /\ workers[w].isConnected /\ ~workers[w].idle
  BY <1>2, MonitorFacts DEF WorkerSound
<1>4. pending' = Monitor!GivenBack(w)
  BY <1>2, <1>3 DEF Monitor!GivenBack
<1>5. /\ worker \in Monitor!Worker /\ worker.request = Null /\ worker.delay /\ ~worker.sent
      /\ worker.isConnected /\ ~worker.idle /\ worker.link = workers[w].link
  BY <1>1, <1>3 DEF Monitor!Worker
<1>6. WorkerSound(worker)
  BY <1>2, <1>5 DEF WorkerSound
<1>7. Handover' /\ accounts' \in [reloading : BOOLEAN, timer : BOOLEAN, stopped : BOOLEAN]
  BY <1>2, MonitorFacts DEF MonitorInv, Handover
<1> QED
  BY <1>2, <1>4, <1>5, <1>6, <1>7, GiveBackStep

LEMMA OfflineWorker ==
  ASSUME NEW worker \in Monitor!Worker, NEW l \in Monitor!Links,
         NEW new, new = [Monitor!Offline(worker) EXCEPT !.link = l]
  PROVE  new \in Monitor!Worker /\ WorkerSound(new) /\ new.request = Null /\ ~new.isConnected
<1>1. new = [worker EXCEPT !.isConnected = FALSE, !.idle = TRUE, !.request = Null, !.sent = FALSE,
                           !.delay = FALSE, !.link = l]
  BY DEF Monitor!Offline, Monitor!Worker
<1>2. /\ new \in Monitor!Worker /\ new.request = Null /\ ~new.isConnected /\ ~new.delay /\ ~new.sent
  BY <1>1 DEF Monitor!Worker
<1> QED
  BY <1>2 DEF WorkerSound

LEMMA DisconnectDescStep ==
  ASSUME MonitorAssumption, MonitorInv, NEW w \in Workers, Monitor!onDisconnectDesc(w)
  PROVE  MonitorInv'
<1>1. PICK worker : worker = [Monitor!Offline(workers[w]) EXCEPT !.link = "aborted"]
  OBVIOUS
<1>2. /\ w \in Monitor!Alive /\ PagesUnchanged /\ UNCHANGED <<clients, stopping, accounts>>
      /\ pending' = Monitor!GivenBack(w) /\ workers' = [workers EXCEPT ![w] = worker]
  BY <1>1, MonitorFacts DEF Monitor!onDisconnectDesc, Monitor!Reads, PagesUnchanged
<1>3. workers[w] \in Monitor!Worker /\ "aborted" \in Monitor!Links
  BY MonitorFacts DEF Monitor!Links
<1>4. worker \in Monitor!Worker /\ WorkerSound(worker) /\ worker.request = Null /\ ~worker.isConnected
  BY <1>1, <1>3, OfflineWorker
<1>5. Handover' /\ accounts' \in [reloading : BOOLEAN, timer : BOOLEAN, stopped : BOOLEAN]
  BY <1>2, MonitorFacts DEF MonitorInv, Handover
<1> QED
  BY <1>2, <1>4, <1>5, GiveBackStep

LEMMA DisconnectedStep ==
  ASSUME MonitorAssumption, MonitorInv, NEW w \in Workers, Monitor!onDisconnected(w)
  PROVE  MonitorInv'
<1>1. PICK worker : worker = [Monitor!Offline(workers[w]) EXCEPT !.link = "waiting"]
  OBVIOUS
<1>2. /\ w \in Monitor!Alive /\ PagesUnchanged /\ UNCHANGED clients
      /\ pending' = Monitor!GivenBack(w) /\ workers' = [workers EXCEPT ![w] = worker]
  BY <1>1, MonitorFacts DEF Monitor!onDisconnected, Monitor!WillConnect, PagesUnchanged
<1>3. workers[w] \in Monitor!Worker /\ "waiting" \in Monitor!Links
  BY MonitorFacts DEF Monitor!Links
<1>4. worker \in Monitor!Worker /\ WorkerSound(worker) /\ worker.request = Null /\ ~worker.isConnected
  BY <1>1, <1>3, OfflineWorker
<1>5. /\ stopping' = stopping \/ stopping' = stopping \ {w}
      /\ accounts' \in [reloading : BOOLEAN, timer : BOOLEAN, stopped : BOOLEAN] /\ Handover'
  <2>1. CASE w \in stopping
    <3>1. /\ stopping' = stopping \ {w}
          /\ accounts' = [accounts EXCEPT !.timer = accounts.timer \/ (stopping' = {} /\ ~accounts.stopped)]
      BY <2>1 DEF Monitor!onDisconnected, Monitor!onClientStopped
    <3>2. (accounts.timer \/ (stopping' = {} /\ ~accounts.stopped)) \in BOOLEAN
      BY MonitorFacts
    <3>3. /\ accounts' \in [reloading : BOOLEAN, timer : BOOLEAN, stopped : BOOLEAN]
          /\ accounts'.reloading = accounts.reloading /\ accounts'.stopped = accounts.stopped
          /\ accounts'.timer = (accounts.timer \/ (stopping' = {} /\ ~accounts.stopped))
      BY <3>1, <3>2, MonitorFacts
    <3>4. clients = {} /\ (accounts.reloading \/ accounts.stopped) /\ ~accounts.timer
      BY <2>1 DEF MonitorInv, Handover
    <3> QED
      BY <1>2, <3>1, <3>3, <3>4 DEF Handover
  <2>2. CASE w \notin stopping
    BY <1>2, <2>2, MonitorFacts DEF Monitor!onDisconnected, MonitorInv, Handover
  <2> QED
    BY <2>1, <2>2
<1> QED
  BY <1>2, <1>4, <1>5, GiveBackStep

-----------------------------------------------------------------------------
(* Accounts                                                                 *)

\* All clients stop, and keep their pages until they are disconnected.
LEMMA StopClientsStep ==
  ASSUME MonitorAssumption, MonitorInv, Monitor!stopClients,
         PagesUnchanged, UNCHANGED pending,
         accounts' \in [reloading : BOOLEAN, timer : BOOLEAN, stopped : BOOLEAN],
         accounts'.reloading \/ accounts'.stopped,
         accounts'.timer => accounts.timer /\ accounts'.reloading
  PROVE  MonitorInv'
<1>1. /\ clients' = {} /\ stopping' = Monitor!Alive
      /\ workers' = [w \in Workers |-> IF w \in Monitor!Alive THEN Monitor!Stopped(workers[w]) ELSE workers[w]]
  BY DEF Monitor!stopClients
<1>2. Monitor!Alive' = Monitor!Alive /\ Monitor!Alive \subseteq Workers
  BY <1>1, MonitorFacts DEF Monitor!Alive
<1>3. \A w \in Workers : /\ workers'[w] \in Monitor!Worker /\ WorkerSound(workers'[w])
                         /\ workers'[w].request = workers[w].request
  <2> TAKE w \in Workers
  <2>1. PICK l \in Monitor!Links :
          /\ workers'[w] = [workers[w] EXCEPT !.link = l]
          /\ l \in {"waiting", "connecting"} => l = workers[w].link
    <3>1. /\ workers[w] \in Monitor!Worker /\ workers[w].link \in Monitor!Links
          /\ workers[w] = [workers[w] EXCEPT !.link = workers[w].link]
      BY MonitorFacts DEF Monitor!Worker
    <3>2. Monitor!Stopped(workers[w]) =
            [workers[w] EXCEPT !.link = CASE workers[w].link = "open" -> "shutting"
                                          [] workers[w].link = "connecting" -> "aborted"
                                          [] OTHER -> workers[w].link]
      BY DEF Monitor!Stopped
    <3>3. CASE w \notin Monitor!Alive
      BY <1>1, <3>1, <3>3
    <3>4. CASE w \in Monitor!Alive /\ workers[w].link = "open"
      BY <1>1, <3>2, <3>4 DEF Monitor!Links
    <3>5. CASE w \in Monitor!Alive /\ workers[w].link = "connecting"
      BY <1>1, <3>2, <3>5 DEF Monitor!Links
    <3>6. CASE w \in Monitor!Alive /\ workers[w].link \notin {"open", "connecting"}
      BY <1>1, <3>1, <3>2, <3>6
    <3> QED
      BY <3>3, <3>4, <3>5, <3>6
  <2>2. workers[w] \in Monitor!Worker /\ WorkerSound(workers[w])
    BY MonitorFacts
  <2>3. /\ workers'[w] \in Monitor!Worker /\ workers'[w].link = l
        /\ workers'[w].request = workers[w].request /\ workers'[w].sent = workers[w].sent
        /\ workers'[w].idle = workers[w].idle /\ workers'[w].delay = workers[w].delay
        /\ workers'[w].isConnected = workers[w].isConnected
    BY <2>1, <2>2 DEF Monitor!Worker
  <2> QED
    BY <2>1, <2>2, <2>3 DEF WorkerSound
<1>4. workers' \in [Workers -> Monitor!Worker]
  BY <1>1, <1>3
<1>5. MonitorTypes'
  BY <1>1, <1>2, <1>4 DEF MonitorInv, MonitorTypes, PagesUnchanged, Monitor!Requests, Monitor!Worker, Monitor!Links
<1>6. Handover'
  BY <1>1 DEF MonitorInv, Handover, Monitor!Alive
<1>7. DuePlaced'
  <2>1. PICK A, all, p : A = Monitor!Alive /\ all = workers' /\ p = pending
    OBVIOUS
  <2>2. /\ \A v \in A : all[v].request = workers[v].request
        /\ A \in SUBSET A /\ A \ A = {} /\ Null \notin Monitor!Requests /\ p \in Seq(Monitor!Requests)
    BY <1>2, <1>3, <2>1 DEF MonitorAssumption, MonitorInv, MonitorTypes
  <2>3. OnePlace(p, workers, A) =>
          /\ OnePlace(p, all, A)
          /\ \A r \in Monitor!Requests : Placed(r, p, all, A) <=> Placed(r, p, workers, A)
    BY <2>2, SamePlaces
  <2>4. pending' = pending
    OBVIOUS
  <2> QED
    BY <1>2, <2>1, <2>3, <2>4, PlacesKept
<1>8. Monitor!NoSleeper'
  BY <1>1 DEF Monitor!NoSleeper
<1> QED
  BY <1>3, <1>5, <1>6, <1>7, <1>8 DEF MonitorInv

\* Clients are started, or none, when there is nobody.
LEMMA StartClientsStep ==
  ASSUME MonitorAssumption, MonitorInv, clients = {}, stopping = {}, UNCHANGED stopping,
         \/ clients' = Workers /\ workers' = [w \in Workers |-> Monitor!NewWorker]
         \/ clients' = {} /\ workers' = workers,
         PagesUnchanged, UNCHANGED pending,
         accounts' \in [reloading : BOOLEAN, timer : BOOLEAN, stopped : BOOLEAN], ~accounts'.timer
  PROVE  MonitorInv'
<1>1. Monitor!NewWorker \in Monitor!Worker /\ WorkerSound(Monitor!NewWorker) /\ Monitor!NewWorker.request = Null
      /\ ~Monitor!NewWorker.isConnected
  BY DEF Monitor!NewWorker, Monitor!Worker, Monitor!Links, WorkerSound
<1>2. /\ workers' \in [Workers -> Monitor!Worker]
      /\ \A w \in Workers : WorkerSound(workers'[w])
      /\ \A w \in clients' : workers'[w].request = Null /\ ~workers'[w].isConnected
  BY <1>1, MonitorFacts
<1>3. MonitorTypes' /\ Handover'
  BY <1>2 DEF MonitorInv, MonitorTypes, Handover, PagesUnchanged, Monitor!Requests, Monitor!Worker, Monitor!Links
<1>4. Monitor!Alive = {} /\ Monitor!Alive' = clients'
  BY DEF Monitor!Alive
<1>5. DuePlaced'
  <2>1. ASSUME OnePlace(pending, workers, {})
        PROVE  /\ OnePlace(pending', workers', clients')
               /\ \A r \in Monitor!Requests : Placed(r, pending', workers', clients') <=> Placed(r, pending, workers, {})
    <3>1. \A i \in 1 .. Len(pending) : pending[i] # Null
      BY DEF MonitorAssumption, MonitorInv, MonitorTypes
    <3>2. OnePlace(pending', workers', clients')
      BY <1>2, <2>1, <3>1 DEF OnePlace
    <3>3. ASSUME NEW r \in Monitor!Requests PROVE ~Asks(r, workers', clients') /\ ~Asks(r, workers, {})
      BY <1>2, <3>3 DEF Asks, MonitorAssumption
    <3>4. pending' = pending
      OBVIOUS
    <3> QED
      BY <3>2, <3>3, <3>4 DEF Placed
  <2> QED
    BY <1>4, <2>1, PlacesKept
<1>6. Monitor!NoSleeper'
  BY <1>2 DEF Monitor!NoSleeper
<1> QED
  BY <1>2, <1>3, <1>5, <1>6 DEF MonitorInv

LEMMA AccountsStep ==
  ASSUME MonitorAssumption, MonitorInv,
         \/ Monitor!reloadAccounts
         \/ \E found \in BOOLEAN : Monitor!onAccountReloadTimer(found)
         \/ Monitor!stop
  PROVE  MonitorInv'
<1>1. accounts \in [reloading : BOOLEAN, timer : BOOLEAN, stopped : BOOLEAN]
  BY MonitorFacts
<1>2. CASE Monitor!reloadAccounts
  <2>1. /\ stopping = {} /\ ~accounts.reloading /\ PagesUnchanged /\ UNCHANGED pending
        /\ accounts' = [accounts EXCEPT !.reloading = TRUE]
    BY <1>2 DEF Monitor!reloadAccounts, PagesUnchanged
  <2>2. /\ accounts' \in [reloading : BOOLEAN, timer : BOOLEAN, stopped : BOOLEAN]
        /\ accounts'.reloading /\ accounts'.timer = accounts.timer
    BY <1>1, <2>1
  <2>3. ~accounts.timer
    BY <2>1 DEF MonitorInv, Handover
  <2>4. CASE clients # {}
    BY <1>2, <2>1, <2>2, <2>3, <2>4, StopClientsStep DEF Monitor!reloadAccounts
  <2>5. CASE clients = {}
    <3>1. clients' = Workers /\ workers' = [w \in Workers |-> Monitor!NewWorker] /\ UNCHANGED stopping
      BY <1>2, <2>5 DEF Monitor!reloadAccounts
    <3> QED
      BY <2>1, <2>2, <2>3, <2>5, <3>1, StartClientsStep
  <2> QED
    BY <2>4, <2>5
<1>3. CASE \E found \in BOOLEAN : Monitor!onAccountReloadTimer(found)
  <2>1. PICK found \in BOOLEAN : Monitor!onAccountReloadTimer(found)
    BY <1>3
  <2>2. /\ accounts.timer /\ accounts' = [accounts EXCEPT !.timer = FALSE, !.reloading = FALSE]
        /\ PagesUnchanged /\ UNCHANGED <<pending, stopping>>
        /\ \/ clients' = Workers /\ workers' = [w \in Workers |-> Monitor!NewWorker]
           \/ clients' = {} /\ workers' = workers
    BY <2>1 DEF Monitor!onAccountReloadTimer, PagesUnchanged
  <2>3. clients = {} /\ stopping = {}
    BY <2>2 DEF MonitorInv, Handover
  <2>4. accounts' \in [reloading : BOOLEAN, timer : BOOLEAN, stopped : BOOLEAN] /\ ~accounts'.timer
    BY <1>1, <2>2
  <2> QED
    BY <2>2, <2>3, <2>4, StartClientsStep
<1>4. CASE Monitor!stop
  <2>1. /\ accounts' = [accounts EXCEPT !.stopped = TRUE] /\ Monitor!stopClients
        /\ PagesUnchanged /\ UNCHANGED pending
    BY <1>4 DEF Monitor!stop, PagesUnchanged
  <2>2. /\ accounts' \in [reloading : BOOLEAN, timer : BOOLEAN, stopped : BOOLEAN]
        /\ accounts'.stopped /\ accounts'.timer = accounts.timer /\ accounts'.reloading = accounts.reloading
    BY <1>1, <2>1
  <2>3. accounts'.timer => accounts.timer /\ accounts'.reloading
    BY <2>2 DEF MonitorInv, Handover
  <2> QED
    BY <2>1, <2>2, <2>3, StopClientsStep
<1> QED
  BY <1>2, <1>3, <1>4

LEMMA MonitorStep ==
  ASSUME MonitorAssumption
  PROVE  MonitorInv /\ [Monitor!Next]_Monitor!vars => MonitorInv'
<1> SUFFICES ASSUME MonitorInv, [Monitor!Next]_Monitor!vars PROVE MonitorInv'
  OBVIOUS
<1>1. CASE UNCHANGED Monitor!vars
  <2>1. /\ UNCHANGED <<pending, totalPages, category, clients, stopping, workers, accounts, answered, mixed>>
        /\ Monitor!Alive' = Monitor!Alive
    BY <1>1 DEF Monitor!vars, Monitor!Alive
  <2>2. MonitorTypes' /\ Handover' /\ Monitor!NoSleeper' /\ \A w \in Workers : WorkerSound(workers'[w])
    BY <2>1 DEF MonitorInv, MonitorTypes, Handover, Monitor!NoSleeper, Monitor!Requests, Monitor!Worker, Monitor!Links
  <2>3. DuePlaced'
    BY <2>1, PlacesKept DEF PagesUnchanged
  <2> QED
    BY <2>2, <2>3 DEF MonitorInv
<1>2. ASSUME NEW w \in Workers, Monitor!Step(w) \/ Monitor!Fails(w) PROVE MonitorInv'
  BY <1>2, LinkSteps, ConnectedStep, AuctionDelayStep, SearchResultStep, SearchFailedStep, DisconnectDescStep,
     DisconnectedStep DEF Monitor!Step, Monitor!Fails
<1>3. CASE Monitor!reloadAccounts \/ (\E found \in BOOLEAN : Monitor!onAccountReloadTimer(found)) \/ Monitor!stop
  BY <1>3, AccountsStep
<1> QED
  BY <1>1, <1>2, <1>3 DEF Monitor!Next

\* How often a page that has one place at most is counted.
LEMMA CountedOnce ==
  ASSUME MonitorAssumption, MonitorInv, NEW r \in Monitor!Requests, OnePlace(pending, workers, Monitor!Alive)
  PROVE  Monitor!Copies(r) = IF Placed(r, pending, workers, Monitor!Alive) THEN 1 ELSE 0
<1> DEFINE waits == {i \in DOMAIN pending : pending[i] = r}
           asks == {w \in Monitor!Alive : workers[w].request = r}
<1>1. pending \in Seq(Monitor!Requests) /\ DOMAIN pending = 1 .. Len(pending) /\ r # Null
  BY DEF MonitorInv, MonitorTypes, MonitorAssumption
<1>2. Monitor!Copies(r) = Cardinality(waits) + Cardinality(asks)
  BY DEF Monitor!Copies, Monitor!Cardinality, Cardinality
<1>3. \A i, j \in waits : i = j
  BY <1>1 DEF OnePlace
<1>4. \A v, w \in asks : v = w
  BY <1>1 DEF OnePlace
<1>5. waits = {} \/ asks = {}
  BY <1>1 DEF OnePlace
<1>6. Placed(r, pending, workers, Monitor!Alive) <=> waits # {} \/ asks # {}
  BY <1>1 DEF Placed, Waits, Asks
<1>7. ASSUME NEW S, \A x, y \in S : x = y PROVE Cardinality(S) = IF S = {} THEN 0 ELSE 1
  <2>1. CASE S = {}
    BY <2>1, FS_EmptySet
  <2>2. CASE S # {}
    <3>1. PICK x \in S : TRUE
      BY <2>2
    <3>2. S = {x}
      BY <1>7, <3>1
    <3> QED
      BY <2>2, <3>2, FS_Singleton
  <2> QED
    BY <2>1, <2>2
<1>8. /\ Cardinality(waits) = IF waits = {} THEN 0 ELSE 1
      /\ Cardinality(asks) = IF asks = {} THEN 0 ELSE 1
  <2> HIDE DEF waits, asks
  <2> QED
    BY <1>3, <1>4, <1>7
<1> HIDE DEF waits, asks
<1> QED
  BY <1>2, <1>5, <1>6, <1>8

\* Of the category that is searched, every page that is not answered is asked by
\* one worker or waits once, no page of another category does, and a page waits
\* only while some client will take it: connections that are lost, searches that
\* are refused or time out and accounts that are reloaded lose no page and ask
\* none twice (AuctionManager and AuctionWorker).
THEOREM PagesKeptCorrect ==
  ASSUME MonitorAssumption
  PROVE  Monitor!Spec => []Monitor!PagesKept
<1>1. Monitor!Init => MonitorInv
  BY MonitorStart
<1>2. MonitorInv /\ [Monitor!Next]_Monitor!vars => MonitorInv'
  BY MonitorStep
<1>3. MonitorInv => Monitor!PagesKept
  <2> SUFFICES ASSUME MonitorInv PROVE Monitor!PagesKept
    OBVIOUS
  <2>1. Monitor!PagesAccounted
    <3> SUFFICES ASSUME ~mixed, NEW r \in Monitor!Requests
                 PROVE  Monitor!Copies(r) = IF r[1] = category /\ r[2] <= totalPages /\ r[2] \notin answered THEN 1 ELSE 0
      BY DEF Monitor!PagesAccounted
    <3> QED
      BY CountedOnce DEF MonitorInv, DuePlaced, Due
  <2> QED
    BY <2>1 DEF MonitorInv, Monitor!PagesKept
<1> QED
  BY <1>1, <1>2, <1>3, PTL DEF Monitor!Spec

-----------------------------------------------------------------------------
(* The differences of the auction dumps                                     *)

CONSTANTS Uids, CategoryOf, CategoryCount, Duration, MaxTime, MaxFiles, FullDumps, MaxShifts, MaxRestarts

VARIABLES clock, house, watch, reader, dumps, ends, shifted, unseen, chances

Diff == INSTANCE AuctionDiff WITH
  now <- clock, monitor <- watch, parser <- reader, files <- dumps, budget <- chances,
  Categories <- CategoryCount

Datas == [type : {"short", "medium", "long"}, bid : {0, 1}]

\* What the monitor, and a dump, has for an auction.
IsEntry(a) ==
  a = [status |-> a.status, min |-> a.min, max |-> a.max, data |-> a.data] /\ a.data \in Datas

\* What the parser has for an auction.
IsKnown(a) ==
  /\ a = [status |-> a.status, min |-> a.min, max |-> a.max, data |-> a.data, old |-> a.old, deleted |-> a.deleted,
          count |-> a.count, fromAdded |-> a.fromAdded, endMin |-> a.endMin, endMax |-> a.endMax]
  /\ a.data \in Datas /\ a.deleted \in BOOLEAN /\ a.count \in Nat

\* Null is none of these, and there is one full dump after each start of the monitor,
\* as it is configured by default.
DiffAssumption == ~FullDumps /\ ~IsEntry(Null) /\ ~IsKnown(Null) /\ Null \notin Datas

\* An auction between two dumps, before and after the scan of its category.
Watched(a, first) ==
  a # Null =>
    /\ IsEntry(a)
    /\ a.status \in {"Added", "Updated", "Unmodified", "NotProcessed"}
    /\ first => a.status = "Added"

\* A record of a dump.
RecordFor(r, full) ==
  r # Null => IsEntry(r) /\ r.status \in {"Added", "Updated", "Deleted"} /\ (full => r.status = "Added")

\* An auction of the parser, and the number of dumps, up to 5, since it was last there.
KeptFor(a, n) ==
  /\ n \in 0 .. 5 /\ (n > 0 <=> ~(a # Null /\ ~a.deleted))
  /\ a # Null =>
       /\ IsKnown(a)
       /\ a.status \in {"Added", "Updated", "Unmodified", "MaybeDeleted", "Deleted"}
       /\ a.deleted <=> a.status \in {"MaybeDeleted", "Deleted"}
       /\ ~a.deleted => a.count = 0
       /\ a.deleted => a.count = n /\ (a.status = "Deleted" <=> n >= 4)

\* The data of the auction as the parser has it, or Null when it is not there, and
\* what a record makes of it.
SeenAs(a) == IF a # Null /\ ~a.deleted THEN a.data ELSE Null

Becomes(x, r, full) ==
  IF r = Null THEN (IF full THEN Null ELSE x) ELSE IF r.status = "Deleted" THEN Null ELSE r.data

\* The data x of the last dump, and what the monitor has now.
Agrees(a, x) ==
  /\ (a # Null /\ a.status # "Added") <=> x # Null
  /\ a # Null /\ a.status \in {"NotProcessed", "Unmodified"} => x = a.data

DiffTypes ==
  /\ clock \in Nat /\ house \in [Uids -> [added : Nat, bid : {0, 1}] \union {Null}]
  /\ watch = [auctions |-> watch.auctions, times |-> watch.times, category |-> watch.category,
              phase |-> watch.phase, first |-> watch.first]
  /\ watch.auctions = [u \in Uids |-> watch.auctions[u]] /\ watch.first \in BOOLEAN
  /\ \E S : dumps \in Seq(S)

WatchedAll == \A u \in Uids : Watched(watch.auctions[u], watch.first)

RecordsAll ==
  \A i \in 1 .. Len(dumps) : dumps[i].full \in BOOLEAN /\ \A u \in Uids : RecordFor(dumps[i].auctions[u], dumps[i].full)

KeptAll == \A u \in Uids : KeptFor(reader.auctions[u], unseen[u])

\* From what the parser has, the dumps that it is behind lead to what the monitor had
\* when it wrote the last one: w holds the data before the first dump, and after each.
LeadsOn(w) ==
  /\ w \in [Nat -> [Uids -> Datas \union {Null}]]
  /\ \A u \in Uids : w[0][u] = SeenAs(reader.auctions[u])
  /\ \A i \in 1 .. Len(dumps) : \A u \in Uids :
       w[i][u] = Becomes(w[i - 1][u], dumps[i].auctions[u], dumps[i].full)
  /\ ~watch.first => \A u \in Uids : Agrees(watch.auctions[u], w[Len(dumps)][u])

DiffInv == DiffTypes /\ WatchedAll /\ RecordsAll /\ KeptAll /\ \E w : LeadsOn(w)

\* AuctionSimpleData::doUpdate keeps the status of an auction that is added or updated.
LEMMA doUpdateKeeps ==
  ASSUME NEW a, IsEntry(a), NEW t, NEW d \in Datas,
         a.status \in {"Added", "Updated", "Unmodified", "NotProcessed"}
  PROVE  /\ IsEntry(Diff!doUpdate(a, t, d)) /\ Diff!doUpdate(a, t, d).data = d
         /\ Diff!doUpdate(a, t, d).status = IF a.status \in {"Added", "Updated"} THEN a.status
                                            ELSE IF d = a.data THEN "Unmodified" ELSE "Updated"
<1>1. PICK s, lo, hi, e : s = a.status /\ lo = a.min /\ hi = a.max /\ e = a.data
  OBVIOUS
<1>2. a = [status |-> s, min |-> lo, max |-> hi, data |-> e]
  BY <1>1 DEF IsEntry
<1>3. PICK b : b = [a EXCEPT !.data = d]
  OBVIOUS
<1>4. b = [status |-> s, min |-> lo, max |-> hi, data |-> d]
  BY <1>2, <1>3
<1>5. PICK c : c = Diff!doUpdate(a, t, d)
  OBVIOUS
<1>6. c = IF d # e /\ s # "Added" THEN [b EXCEPT !.status = "Updated", !.max = t]
          ELSE IF d = e /\ s \notin {"Added", "Updated"} THEN [b EXCEPT !.status = "Unmodified", !.max = t]
          ELSE b
  BY <1>1, <1>3, <1>5 DEF Diff!doUpdate, Diff!SetStatus
<1>7. CASE d # e /\ s # "Added"
  <2>1. c = [status |-> "Updated", min |-> lo, max |-> t, data |-> d]
    BY <1>4, <1>6, <1>7
  <2> QED
    BY <1>1, <1>5, <1>7, <2>1 DEF IsEntry
<1>8. CASE d = e /\ s \notin {"Added", "Updated"}
  <2>1. c = [status |-> "Unmodified", min |-> lo, max |-> t, data |-> d]
    BY <1>4, <1>6, <1>8
  <2> QED
    BY <1>1, <1>5, <1>8, <2>1 DEF IsEntry
<1>9. CASE s = "Added" \/ (d = e /\ s = "Updated")
  <2>1. c = b
    BY <1>6, <1>9
  <2> QED
    BY <1>1, <1>4, <1>5, <1>9, <2>1 DEF IsEntry
<1> QED
  BY <1>7, <1>8, <1>9

\* The end of a scan, and the beginning of the next one.
LEMMA SimpleEndKeeps ==
  ASSUME NEW a, IsEntry(a), NEW t
  PROVE  /\ IsEntry(Diff!SimpleEnd(a, t)) /\ Diff!SimpleEnd(a, t).data = a.data
         /\ Diff!SimpleEnd(a, t).status = IF a.status = "NotProcessed" THEN "Deleted" ELSE a.status
<1>1. PICK s, lo, hi, e : s = a.status /\ lo = a.min /\ hi = a.max /\ e = a.data
  OBVIOUS
<1>2. a = [status |-> s, min |-> lo, max |-> hi, data |-> e]
  BY <1>1 DEF IsEntry
<1>3. PICK c : c = Diff!SimpleEnd(a, t)
  OBVIOUS
<1>4. c = IF s = "NotProcessed" THEN [a EXCEPT !.status = "Deleted", !.max = t] ELSE a
  BY <1>1, <1>3 DEF Diff!SimpleEnd, Diff!SetStatus
<1>5. CASE s = "NotProcessed"
  <2>1. c = [status |-> "Deleted", min |-> lo, max |-> t, data |-> e]
    BY <1>2, <1>4, <1>5
  <2> QED
    BY <1>1, <1>3, <1>5, <2>1 DEF IsEntry
<1>6. CASE s # "NotProcessed"
  BY <1>1, <1>3, <1>4, <1>6
<1> QED
  BY <1>5, <1>6

LEMMA SimpleBeginKeeps ==
  ASSUME NEW a, IsEntry(a), a # Null, a.status # "Deleted"
  PROVE  /\ IsEntry(Diff!SimpleBegin(a)) /\ Diff!SimpleBegin(a).data = a.data
         /\ Diff!SimpleBegin(a).status = "NotProcessed"
<1>1. PICK s, lo, hi, e : s = a.status /\ lo = a.min /\ hi = a.max /\ e = a.data
  OBVIOUS
<1>2. a = [status |-> s, min |-> lo, max |-> hi, data |-> e]
  BY <1>1 DEF IsEntry
<1>3. PICK c : c = Diff!SimpleBegin(a)
  OBVIOUS
<1>4. c = [a EXCEPT !.status = "NotProcessed", !.min = hi]
  BY <1>1, <1>3 DEF Diff!SimpleBegin
<1>5. c = [status |-> "NotProcessed", min |-> hi, max |-> hi, data |-> e]
  BY <1>2, <1>4
<1> QED
  BY <1>1, <1>3, <1>5 DEF IsEntry

\* The parser's estimates leave alone what it knows of the presence of an auction.
SamePresence(b, a) ==
  b.status = a.status /\ b.data = a.data /\ b.old = a.old /\ b.deleted = a.deleted /\ b.count = a.count

LEMMA EstimatedKeeps ==
  ASSUME NEW a, IsKnown(a), NEW old, NEW new
  PROVE  IsKnown(Diff!Estimated(a, old, new)) /\ SamePresence(Diff!Estimated(a, old, new), a)
<1>1. PICK s, lo, hi, d, o, x, n, f, p, q :
        /\ s = a.status /\ lo = a.min /\ hi = a.max /\ d = a.data /\ o = a.old /\ x = a.deleted
        /\ n = a.count /\ f = a.fromAdded /\ p = a.endMin /\ q = a.endMax
  OBVIOUS
<1>2. a = [status |-> s, min |-> lo, max |-> hi, data |-> d, old |-> o, deleted |-> x, count |-> n,
           fromAdded |-> f, endMin |-> p, endMax |-> q]
  BY <1>1 DEF IsKnown
<1>3. d \in Datas /\ x \in BOOLEAN /\ n \in Nat
  BY <1>1 DEF IsKnown
<1>4. PICK b : b = Diff!Estimated(a, old, new)
  OBVIOUS
<1>5. \E g, r, t : b = [a EXCEPT !.endMin = r, !.endMax = t, !.fromAdded = g] \/ b = a
                   \/ b = [a EXCEPT !.endMin = r, !.endMax = t]
  BY <1>4 DEF Diff!Estimated
<1>6. PICK g, r, t : b = [a EXCEPT !.endMin = r, !.endMax = t, !.fromAdded = g] \/ b = a
                     \/ b = [a EXCEPT !.endMin = r, !.endMax = t]
  BY <1>5
<1>7. \E k, i, j : b = [status |-> s, min |-> lo, max |-> hi, data |-> d, old |-> o, deleted |-> x, count |-> n,
                        fromAdded |-> k, endMin |-> i, endMax |-> j]
  BY <1>2, <1>6
<1>8. PICK k, i, j : b = [status |-> s, min |-> lo, max |-> hi, data |-> d, old |-> o, deleted |-> x, count |-> n,
                          fromAdded |-> k, endMin |-> i, endMax |-> j]
  BY <1>7
<1>9. IsKnown(b)
  BY <1>3, <1>8 DEF IsKnown
<1>10. SamePresence(b, a)
  BY <1>1, <1>8 DEF SamePresence
<1> QED
  BY <1>4, <1>9, <1>10

\* b is a with the status s: what is deleted keeps its count.
HasStatus(b, a, s) ==
  /\ IsKnown(b) /\ b.status = s /\ b.data = a.data /\ b.old = a.old
  /\ b.deleted <=> s \in {"MaybeDeleted", "Deleted"}
  /\ s \in {"MaybeDeleted", "Deleted"} => b.count = a.count
  /\ s \notin {"MaybeDeleted", "Deleted"} => b.count = 0

LEMMA setStatusKeeps ==
  ASSUME NEW a, IsKnown(a), NEW s, NEW t
  PROVE  HasStatus(Diff!setStatus(a, s, t), a, s)
<1>1. PICK z, lo, hi, d, o, x, n, f, p, q :
        /\ z = a.status /\ lo = a.min /\ hi = a.max /\ d = a.data /\ o = a.old /\ x = a.deleted
        /\ n = a.count /\ f = a.fromAdded /\ p = a.endMin /\ q = a.endMax
  OBVIOUS
<1>2. a = [status |-> z, min |-> lo, max |-> hi, data |-> d, old |-> o, deleted |-> x, count |-> n,
           fromAdded |-> f, endMin |-> p, endMax |-> q]
  BY <1>1 DEF IsKnown
<1>3. d \in Datas /\ x \in BOOLEAN /\ n \in Nat
  BY <1>1 DEF IsKnown
<1>4. PICK b : b = Diff!setStatus(a, s, t)
  OBVIOUS
<1>5. CASE s \in {"MaybeDeleted", "Deleted"}
  <2>1. PICK u : u = IF x THEN hi ELSE t
    OBVIOUS
  <2>2. b = [a EXCEPT !.status = s, !.deleted = TRUE, !.max = u]
    BY <1>1, <1>4, <1>5, <2>1 DEF Diff!setStatus
  <2>3. b = [status |-> s, min |-> lo, max |-> u, data |-> d, old |-> o, deleted |-> TRUE, count |-> n,
             fromAdded |-> f, endMin |-> p, endMax |-> q]
    BY <1>2, <2>2
  <2>4. IsKnown(b)
    BY <1>3, <2>3 DEF IsKnown
  <2> QED
    BY <1>1, <1>4, <1>5, <2>3, <2>4 DEF HasStatus
<1>6. CASE s \notin {"MaybeDeleted", "Deleted"}
  <2>1. b = [a EXCEPT !.status = s, !.deleted = FALSE, !.count = 0, !.max = t]
    BY <1>4, <1>6 DEF Diff!setStatus
  <2>2. b = [status |-> s, min |-> lo, max |-> t, data |-> d, old |-> o, deleted |-> FALSE, count |-> 0,
             fromAdded |-> f, endMin |-> p, endMax |-> q]
    BY <1>2, <2>1
  <2>3. IsKnown(b)
    BY <1>3, <2>2 DEF IsKnown
  <2> QED
    BY <1>1, <1>4, <1>6, <2>2, <2>3 DEF HasStatus
<1> QED
  BY <1>5, <1>6

\* beginProcess: what is deleted for good is purged.
LEMMA ComplexBeginKeeps ==
  ASSUME NEW a, IsKnown(a), a # Null, a.status # "Deleted"
  PROVE  LET b == Diff!ComplexBegin(a)
         IN /\ IsKnown(b) /\ b.status = "NotProcessed" /\ b.data = a.data /\ b.old = a.data
            /\ b.deleted = a.deleted /\ b.count = a.count
<1>1. PICK z, lo, hi, d, o, x, n, f, p, q :
        /\ z = a.status /\ lo = a.min /\ hi = a.max /\ d = a.data /\ o = a.old /\ x = a.deleted
        /\ n = a.count /\ f = a.fromAdded /\ p = a.endMin /\ q = a.endMax
  OBVIOUS
<1>2. a = [status |-> z, min |-> lo, max |-> hi, data |-> d, old |-> o, deleted |-> x, count |-> n,
           fromAdded |-> f, endMin |-> p, endMax |-> q]
  BY <1>1 DEF IsKnown
<1>3. d \in Datas /\ x \in BOOLEAN /\ n \in Nat
  BY <1>1 DEF IsKnown
<1>4. PICK b, l : b = Diff!ComplexBegin(a) /\ l = IF x THEN lo ELSE hi
  OBVIOUS
<1>5. b = [a EXCEPT !.status = "NotProcessed", !.min = l, !.old = d]
  BY <1>1, <1>4 DEF Diff!ComplexBegin
<1>6. b = [status |-> "NotProcessed", min |-> l, max |-> hi, data |-> d, old |-> d, deleted |-> x, count |-> n,
           fromAdded |-> f, endMin |-> p, endMax |-> q]
  BY <1>2, <1>5
<1>7. IsKnown(b)
  BY <1>3, <1>6 DEF IsKnown
<1> QED
  BY <1>1, <1>4, <1>6, <1>7

\* The beginning of the interval of presence is corrected (setTimeMin).
LEMMA MinKeeps ==
  ASSUME NEW a, IsKnown(a), NEW t
  PROVE  IsKnown([a EXCEPT !.min = t]) /\ SamePresence([a EXCEPT !.min = t], a)
<1>1. PICK z, lo, hi, d, o, x, n, f, p, q :
        /\ z = a.status /\ lo = a.min /\ hi = a.max /\ d = a.data /\ o = a.old /\ x = a.deleted
        /\ n = a.count /\ f = a.fromAdded /\ p = a.endMin /\ q = a.endMax
  OBVIOUS
<1>2. a = [status |-> z, min |-> lo, max |-> hi, data |-> d, old |-> o, deleted |-> x, count |-> n,
           fromAdded |-> f, endMin |-> p, endMax |-> q]
  BY <1>1 DEF IsKnown
<1>3. d \in Datas /\ x \in BOOLEAN /\ n \in Nat
  BY <1>1 DEF IsKnown
<1>4. PICK b : b = [a EXCEPT !.min = t]
  OBVIOUS
<1>5. b = [status |-> z, min |-> t, max |-> hi, data |-> d, old |-> o, deleted |-> x, count |-> n,
           fromAdded |-> f, endMin |-> p, endMax |-> q]
  BY <1>2, <1>4
<1>6. IsKnown(b)
  BY <1>3, <1>5 DEF IsKnown
<1> QED
  BY <1>1, <1>4, <1>5, <1>6 DEF SamePresence

LEMMA CountKeeps ==
  ASSUME NEW a, IsKnown(a)
  PROVE  LET b == [a EXCEPT !.count = @ + 1]
         IN /\ IsKnown(b) /\ b.status = a.status /\ b.data = a.data /\ b.deleted = a.deleted
            /\ b.count = a.count + 1
<1>1. PICK z, lo, hi, d, o, x, n, f, p, q :
        /\ z = a.status /\ lo = a.min /\ hi = a.max /\ d = a.data /\ o = a.old /\ x = a.deleted
        /\ n = a.count /\ f = a.fromAdded /\ p = a.endMin /\ q = a.endMax
  OBVIOUS
<1>2. a = [status |-> z, min |-> lo, max |-> hi, data |-> d, old |-> o, deleted |-> x, count |-> n,
           fromAdded |-> f, endMin |-> p, endMax |-> q]
  BY <1>1 DEF IsKnown
<1>3. d \in Datas /\ x \in BOOLEAN /\ n \in Nat
  BY <1>1 DEF IsKnown
<1>4. PICK b : b = [a EXCEPT !.count = @ + 1]
  OBVIOUS
<1>5. b = [status |-> z, min |-> lo, max |-> hi, data |-> d, old |-> o, deleted |-> x, count |-> n + 1,
           fromAdded |-> f, endMin |-> p, endMax |-> q]
  BY <1>2, <1>4
<1>6. IsKnown(b)
  BY <1>3, <1>5 DEF IsKnown
<1> QED
  BY <1>1, <1>4, <1>5, <1>6

LEMMA DataKeeps ==
  ASSUME NEW a, IsKnown(a), NEW e \in Datas
  PROVE  LET b == [a EXCEPT !.data = e]
         IN /\ IsKnown(b) /\ b.status = a.status /\ b.data = e /\ b.deleted = a.deleted /\ b.count = a.count
<1>1. PICK z, lo, hi, d, o, x, n, f, p, q :
        /\ z = a.status /\ lo = a.min /\ hi = a.max /\ d = a.data /\ o = a.old /\ x = a.deleted
        /\ n = a.count /\ f = a.fromAdded /\ p = a.endMin /\ q = a.endMax
  OBVIOUS
<1>2. a = [status |-> z, min |-> lo, max |-> hi, data |-> d, old |-> o, deleted |-> x, count |-> n,
           fromAdded |-> f, endMin |-> p, endMax |-> q]
  BY <1>1 DEF IsKnown
<1>3. x \in BOOLEAN /\ n \in Nat
  BY <1>1 DEF IsKnown
<1>4. PICK b : b = [a EXCEPT !.data = e]
  OBVIOUS
<1>5. b = [status |-> z, min |-> lo, max |-> hi, data |-> e, old |-> o, deleted |-> x, count |-> n,
           fromAdded |-> f, endMin |-> p, endMax |-> q]
  BY <1>2, <1>4
<1>6. IsKnown(b)
  BY <1>3, <1>5 DEF IsKnown
<1> QED
  BY <1>1, <1>4, <1>5, <1>6

\* An auction that the dump says is there: an update of one the parser had not
\* processed, whatever it was before.
LEMMA updateKeeps ==
  ASSUME NEW a, IsKnown(a), a.status = "NotProcessed", NEW t, NEW d \in Datas
  PROVE  LET b == Diff!update(a, t, d)
         IN /\ IsKnown(b) /\ b.status \in {"Updated", "Unmodified"} /\ b.data = d /\ ~b.deleted /\ b.count = 0
<1>1. PICK b, s : b = [a EXCEPT !.data = d] /\ s = IF d # a.old THEN "Updated" ELSE "Unmodified"
  OBVIOUS
<1>2. IsKnown(b) /\ b.status = "NotProcessed" /\ b.data = d /\ b.deleted = a.deleted /\ b.count = a.count
  BY <1>1, DataKeeps
<1>3. PICK c : c = Diff!setStatus(b, s, t)
  OBVIOUS
<1>4. HasStatus(c, b, s)
  BY <1>2, <1>3, setStatusKeeps
<1>5. s \in {"Updated", "Unmodified"}
  BY <1>1
<1>6. IsKnown(c) /\ c.status = s /\ c.data = d /\ ~c.deleted /\ c.count = 0
  BY <1>2, <1>4, <1>5 DEF HasStatus
<1>7. PICK e : e = Diff!update(a, t, d)
  OBVIOUS
<1>8. e = IF d # a.old THEN Diff!Estimated(c, a.old, FALSE) ELSE c
  BY <1>1, <1>3, <1>7 DEF Diff!update
<1>9. IsKnown(Diff!Estimated(c, a.old, FALSE)) /\ SamePresence(Diff!Estimated(c, a.old, FALSE), c)
  BY <1>6, EstimatedKeeps
<1>10. IsKnown(e) /\ e.status = s /\ e.data = d /\ ~e.deleted /\ e.count = 0
  BY <1>6, <1>8, <1>9 DEF SamePresence
<1> QED
  BY <1>5, <1>7, <1>10

\* A new auction (the constructor of AuctionComplexData).
LEMMA ComplexIs ==
  ASSUME NEW lo, NEW hi, NEW d \in Datas
  PROVE  LET b == Diff!Complex(lo, hi, d)
         IN IsKnown(b) /\ b.status = "Added" /\ b.data = d /\ ~b.deleted /\ b.count = 0
<1>1. PICK a : a = [status |-> "Added", min |-> lo, max |-> hi, data |-> d, old |-> Diff!NoData, deleted |-> FALSE,
                    count |-> 0, fromAdded |-> TRUE, endMin |-> 0, endMax |-> 0]
  OBVIOUS
<1>2. IsKnown(a) /\ a.status = "Added" /\ a.data = d /\ ~a.deleted /\ a.count = 0
  BY <1>1 DEF IsKnown
<1>3. PICK b : b = Diff!Complex(lo, hi, d)
  OBVIOUS
<1>4. b = Diff!Estimated(a, Diff!NoData, TRUE)
  BY <1>1, <1>3 DEF Diff!Complex
<1>5. IsKnown(b) /\ SamePresence(b, a)
  BY <1>2, <1>4, EstimatedKeeps
<1> QED
  BY <1>2, <1>3, <1>5 DEF SamePresence

\* An auction that is away is counted, and deleted for good after the fourth dump.
LEMMA maybeStillDeletedCounts ==
  ASSUME NEW a, IsKnown(a), a.deleted, a.status \in {"NotProcessed", "MaybeDeleted"}
  PROVE  LET c == Diff!maybeStillDeleted(a)
         IN /\ IsKnown(c) /\ c.deleted /\ c.count = a.count + 1
            /\ c.status = IF a.count + 1 > 3 THEN "Deleted" ELSE "MaybeDeleted"
<1>1. PICK b : b = [a EXCEPT !.count = @ + 1]
  OBVIOUS
<1>2. IsKnown(b) /\ b.status = a.status /\ b.deleted /\ b.count = a.count + 1
  BY <1>1, CountKeeps
<1>3. PICK c : c = Diff!maybeStillDeleted(a)
  OBVIOUS
<1>4. c = IF b.count > 3 THEN Diff!setStatus(b, "Deleted", b.max)
          ELSE IF b.status = "NotProcessed" THEN Diff!setStatus(b, "MaybeDeleted", b.max) ELSE b
  BY <1>1, <1>3 DEF Diff!maybeStillDeleted
<1>5. /\ HasStatus(Diff!setStatus(b, "Deleted", b.max), b, "Deleted")
      /\ HasStatus(Diff!setStatus(b, "MaybeDeleted", b.max), b, "MaybeDeleted")
  BY <1>2, setStatusKeeps
<1>6. PICK s : s = IF a.count + 1 > 3 THEN "Deleted" ELSE "MaybeDeleted"
  OBVIOUS
<1>7. s \in {"Deleted", "MaybeDeleted"}
  BY <1>6
<1>8. HasStatus(c, b, s) \/ (c = b /\ b.status = s)
  <2>1. CASE b.count > 3
    BY <1>2, <1>4, <1>5, <1>6, <2>1
  <2>2. CASE ~(b.count > 3)
    BY <1>2, <1>4, <1>5, <1>6, <2>2
  <2> QED
    BY <2>1, <2>2
<1>9. IsKnown(c) /\ c.deleted /\ c.count = b.count /\ c.status = s
  BY <1>2, <1>7, <1>8 DEF HasStatus
<1> QED
  BY <1>2, <1>3, <1>6, <1>9

\* The end of a dump.  Here(a) is an auction that is there, and Away(a, n) one that is
\* away for the n-th time.
Here(a, d) ==
  IsKnown(a) /\ a.status \in {"Added", "Updated", "Unmodified"} /\ a.data = d /\ ~a.deleted /\ a.count = 0

Away(a, n) ==
  IsKnown(a) /\ a.deleted /\ a.count = n /\ a.status = IF n > 3 THEN "Deleted" ELSE "MaybeDeleted"

LEMMA EndHere ==
  ASSUME NEW a, NEW d, NEW begin, NEW end, NEW diff \in BOOLEAN,
         \/ Here(a, d)
         \/ IsKnown(a) /\ a.status = "NotProcessed" /\ a.data = d /\ ~a.deleted /\ a.count = 0 /\ diff
  PROVE  Here(Diff!ComplexEnd(a, begin, end, diff), d)
<1>1. PICK b, c :
        /\ b = IF a.status # "NotProcessed" THEN a
               ELSE IF ~diff THEN Diff!remove(a, end)
               ELSE IF ~a.deleted THEN Diff!unmodified(a, begin) ELSE a
        /\ c = Diff!ComplexEnd(a, begin, end, diff)
  OBVIOUS
<1>2. c = Diff!maybeStillDeleted(b)
  BY <1>1 DEF Diff!ComplexEnd
<1>3. Here(b, d)
  <2>1. CASE Here(a, d)
    BY <1>1, <2>1 DEF Here
  <2>2. CASE IsKnown(a) /\ a.status = "NotProcessed" /\ a.data = d /\ ~a.deleted /\ a.count = 0 /\ diff
    <3>1. b = Diff!setStatus(a, "Unmodified", begin)
      BY <1>1, <2>2 DEF Diff!unmodified
    <3>2. HasStatus(b, a, "Unmodified")
      BY <2>2, <3>1, setStatusKeeps
    <3> QED
      BY <2>2, <3>2 DEF HasStatus, Here
  <2> QED
    BY <2>1, <2>2
<1>4. c = b
  BY <1>2, <1>3 DEF Here, Diff!maybeStillDeleted
<1> QED
  BY <1>1, <1>3, <1>4

LEMMA EndAway ==
  ASSUME NEW a, IsKnown(a), NEW begin, NEW end, NEW diff \in BOOLEAN,
         \/ a.status = "MaybeDeleted" /\ a.deleted
         \/ a.status = "NotProcessed" /\ (diff => a.deleted)
  PROVE  Away(Diff!ComplexEnd(a, begin, end, diff), a.count + 1)
<1>1. PICK b, c :
        /\ b = IF a.status # "NotProcessed" THEN a
               ELSE IF ~diff THEN Diff!remove(a, end)
               ELSE IF ~a.deleted THEN Diff!unmodified(a, begin) ELSE a
        /\ c = Diff!ComplexEnd(a, begin, end, diff)
  OBVIOUS
<1>2. c = Diff!maybeStillDeleted(b)
  BY <1>1 DEF Diff!ComplexEnd
<1>3. IsKnown(b) /\ b.deleted /\ b.status \in {"NotProcessed", "MaybeDeleted"} /\ b.count = a.count
  <2>1. CASE b = a
    <3>1. a.deleted
      <4>1. CASE a.status = "NotProcessed"
        <5>1. CASE diff
          BY <4>1, <5>1
        <5>2. CASE ~diff
          <6>1. b = Diff!setStatus(a, "MaybeDeleted", end)
            BY <1>1, <4>1, <5>2 DEF Diff!remove
          <6>2. b.status = "MaybeDeleted"
            BY <6>1, setStatusKeeps DEF HasStatus
          <6> QED
            BY <2>1, <4>1, <6>2
        <5> QED
          BY <5>1, <5>2
      <4> QED
        BY <4>1
    <3> QED
      BY <2>1, <3>1
  <2>2. CASE b # a
    <3>1. a.status = "NotProcessed" /\ ~diff
      BY <1>1, <2>2
    <3>2. b = Diff!setStatus(a, "MaybeDeleted", end)
      BY <1>1, <3>1 DEF Diff!remove
    <3>3. HasStatus(b, a, "MaybeDeleted")
      BY <3>2, setStatusKeeps
    <3> QED
      BY <3>3 DEF HasStatus
  <2> QED
    BY <2>1, <2>2
<1>4. /\ IsKnown(c) /\ c.deleted /\ c.count = b.count + 1
      /\ c.status = IF b.count + 1 > 3 THEN "Deleted" ELSE "MaybeDeleted"
  BY <1>2, <1>3, maybeStillDeletedCounts
<1> QED
  BY <1>1, <1>3, <1>4 DEF Away

\* The dumps since the auction was last there, after one more.
Later(n, r, full) ==
  IF r = Null THEN (IF full \/ n > 0 THEN Diff!Min({n + 1, 5}) ELSE 0)
  ELSE IF r.status = "Deleted" THEN Diff!Min({n + 1, 5}) ELSE 0

LEMMA MinIs == \A n \in Nat : Diff!Min({n + 1, 5}) = IF n < 5 THEN n + 1 ELSE 5
<1> SUFFICES ASSUME NEW n \in Nat PROVE Diff!Min({n + 1, 5}) = IF n < 5 THEN n + 1 ELSE 5
  OBVIOUS
<1>1. PICK m : m = IF n < 5 THEN n + 1 ELSE 5
  OBVIOUS
<1>2. m \in {n + 1, 5} /\ \A x \in {n + 1, 5} : m <= x
  BY <1>1
<1>3. \A y \in {n + 1, 5} : (\A x \in {n + 1, 5} : y <= x) => y = m
  BY <1>1
<1> QED
  BY <1>1, <1>2, <1>3 DEF Diff!Min

LEMMA HereKept ==
  ASSUME DiffAssumption, NEW c, NEW d, Here(c, d)
  PROVE  KeptFor(c, 0) /\ SeenAs(c) = d
<1>1. c # Null
  BY DEF DiffAssumption, Here
<1> QED
  BY <1>1 DEF KeptFor, Here, SeenAs

LEMMA AwayKept ==
  ASSUME DiffAssumption, NEW c, NEW n \in 1 .. 4, Away(c, n)
  PROVE  KeptFor(c, n) /\ SeenAs(c) = Null
<1>1. c # Null /\ n \in 0 .. 5 /\ n > 0
  BY DEF DiffAssumption, Away
<1>2. (c.status = "Deleted" <=> n >= 4) /\ c.status \in {"Deleted", "MaybeDeleted"}
  BY DEF Away
<1> QED
  BY <1>1, <1>2 DEF KeptFor, Away, SeenAs

LEMMA NothingKept ==
  ASSUME NEW n \in 1 .. 5
  PROVE  KeptFor(Null, n) /\ SeenAs(Null) = Null
BY DEF KeptFor, SeenAs

\* The parser reads record r of a dump for auction a (addAuctionInfo), at times that are
\* of no importance here.
LEMMA ParsedIs ==
  ASSUME DiffAssumption, NEW g, NEW r, r # Null, NEW full, RecordFor(r, full), NEW t,
         g = Null \/ (IsKnown(g) /\ g.status = "NotProcessed")
  PROVE  /\ r.status \in {"Added", "Updated"} => Here(Diff!Parsed(g, r, t), r.data)
         /\ r.status = "Deleted" /\ g = Null => Diff!Parsed(g, r, t) = Null
         /\ r.status = "Deleted" /\ g # Null =>
              /\ IsKnown(Diff!Parsed(g, r, t)) /\ Diff!Parsed(g, r, t).status = "MaybeDeleted"
              /\ Diff!Parsed(g, r, t).deleted /\ Diff!Parsed(g, r, t).count = g.count
<1>1. PICK before, k, b :
        /\ before = IF r.min # 0 THEN r.min ELSE IF g # Null /\ g.min <= t THEN t ELSE 0
        /\ k = IF before # 0 THEN [g EXCEPT !.min = before] ELSE g
        /\ b = Diff!Parsed(g, r, t)
  OBVIOUS
<1>2. r.data \in Datas /\ r.status \in {"Added", "Updated", "Deleted"}
  BY DEF RecordFor, IsEntry
<1>3. b = CASE r.status \in {"Added", "Updated"} /\ g # Null -> Diff!update(k, r.max, r.data)
            [] r.status \in {"Added", "Updated"} /\ g = Null ->
                 Diff!Complex(IF r.min # 0 THEN r.min ELSE t, r.max, r.data)
            [] r.status = "Deleted" /\ g # Null -> Diff!remove(k, r.max)
            [] OTHER -> g
  BY <1>1 DEF Diff!Parsed
<1>4. g # Null => IsKnown(k) /\ k.status = "NotProcessed" /\ k.count = g.count
  BY <1>1, MinKeeps DEF SamePresence
<1>5. CASE r.status \in {"Added", "Updated"} /\ g # Null
  <2>1. b = Diff!update(k, r.max, r.data)
    BY <1>3, <1>5
  <2>2. IsKnown(b) /\ b.status \in {"Updated", "Unmodified"} /\ b.data = r.data /\ ~b.deleted /\ b.count = 0
    BY <1>2, <1>4, <1>5, <2>1, updateKeeps
  <2>3. Here(b, r.data)
    BY <2>2 DEF Here
  <2> QED
    BY <1>1, <1>5, <2>3
<1>6. CASE r.status \in {"Added", "Updated"} /\ g = Null
  <2>1. PICK lo : lo = IF r.min # 0 THEN r.min ELSE t
    OBVIOUS
  <2>2. b = Diff!Complex(lo, r.max, r.data)
    BY <1>3, <1>6, <2>1
  <2>3. IsKnown(b) /\ b.status = "Added" /\ b.data = r.data /\ ~b.deleted /\ b.count = 0
    BY <1>2, <2>2, ComplexIs
  <2>4. Here(b, r.data)
    BY <2>3 DEF Here
  <2> QED
    BY <1>1, <1>6, <2>4
<1>7. CASE r.status = "Deleted" /\ g # Null
  <2>1. b = Diff!remove(k, r.max)
    BY <1>3, <1>7
  <2>2. b = Diff!setStatus(k, "MaybeDeleted", r.max)
    BY <1>4, <1>7, <2>1 DEF Diff!remove
  <2>3. HasStatus(b, k, "MaybeDeleted")
    BY <1>4, <1>7, <2>2, setStatusKeeps
  <2> QED
    BY <1>1, <1>4, <1>7, <2>3 DEF HasStatus
<1>8. CASE r.status = "Deleted" /\ g = Null
  BY <1>1, <1>3, <1>8
<1> QED
  BY <1>2, <1>5, <1>6, <1>7, <1>8

\* What a dump makes of an auction of the parser, whatever the times.
Processed(a, r, full, p, begin, end) ==
  LET g == Diff!ComplexBegin(a)
      b == IF r # Null THEN Diff!Parsed(g, r, p) ELSE g
  IN IF b = Null THEN Null ELSE Diff!ComplexEnd(b, begin, end, ~full)

LEMMA ProcessedIs ==
  ASSUME DiffAssumption, NEW a, NEW n, KeptFor(a, n), NEW full \in BOOLEAN, NEW r, RecordFor(r, full),
         NEW p, NEW begin, NEW end
  PROVE  /\ KeptFor(Processed(a, r, full, p, begin, end), Later(n, r, full))
         /\ SeenAs(Processed(a, r, full, p, begin, end)) = Becomes(SeenAs(a), r, full)
<1>1. PICK g, b, c : /\ g = Diff!ComplexBegin(a) /\ b = (IF r # Null THEN Diff!Parsed(g, r, p) ELSE g)
                     /\ c = Processed(a, r, full, p, begin, end)
  OBVIOUS
<1>2. c = IF b = Null THEN Null ELSE Diff!ComplexEnd(b, begin, end, ~full)
  BY <1>1 DEF Processed
<1>3. n \in 0 .. 5 /\ (n > 0 <=> ~(a # Null /\ ~a.deleted)) /\ (~full) \in BOOLEAN
  BY DEF KeptFor
<1>4. PICK m : m = IF n < 5 THEN n + 1 ELSE 5
  OBVIOUS
<1>5. m \in 1 .. 5 /\ Diff!Min({n + 1, 5}) = m
  BY <1>3, <1>4, MinIs
<1>6. g = Null => n > 0
  <2>1. CASE a = Null
    BY <1>3, <2>1
  <2>2. CASE a # Null /\ a.status = "Deleted"
    BY <1>3, <2>2 DEF KeptFor
  <2>3. CASE a # Null /\ a.status # "Deleted"
    <3>1. IsKnown(a)
      BY <2>3 DEF KeptFor
    <3>2. IsKnown(g)
      BY <1>1, <2>3, <3>1, ComplexBeginKeeps
    <3> QED
      BY <3>2 DEF DiffAssumption
  <2> QED
    BY <2>1, <2>2, <2>3
<1>7. g # Null => /\ IsKnown(g) /\ g.status = "NotProcessed" /\ g.data = a.data /\ g.deleted = a.deleted
                  /\ g.count = n /\ n \in 0 .. 3 /\ (g.deleted <=> n > 0) /\ (~g.deleted => SeenAs(a) = a.data)
  <2> SUFFICES ASSUME g # Null
               PROVE  /\ IsKnown(g) /\ g.status = "NotProcessed" /\ g.data = a.data /\ g.deleted = a.deleted
                      /\ g.count = n /\ n \in 0 .. 3 /\ (g.deleted <=> n > 0) /\ (~g.deleted => SeenAs(a) = a.data)
    OBVIOUS
  <2>1. a # Null /\ a.status # "Deleted"
    BY <1>1 DEF Diff!ComplexBegin
  <2>2. /\ IsKnown(a) /\ (~a.deleted => a.count = 0) /\ (a.deleted => a.count = n /\ ~(n >= 4))
        /\ (n > 0 <=> a.deleted) /\ a.deleted \in BOOLEAN
    BY <2>1 DEF KeptFor, IsKnown
  <2>3. IsKnown(g) /\ g.status = "NotProcessed" /\ g.data = a.data /\ g.deleted = a.deleted /\ g.count = a.count
    BY <1>1, <2>1, <2>2, ComplexBeginKeeps
  <2>4. a.count = n /\ n \in 0 .. 3
    BY <1>3, <2>2
  <2>5. ~g.deleted => SeenAs(a) = a.data
    BY <2>1, <2>3 DEF SeenAs
  <2> QED
    BY <2>2, <2>3, <2>4, <2>5
<1>8. CASE r # Null /\ r.status \in {"Added", "Updated"}
  <2>1. Here(b, r.data)
    BY <1>1, <1>7, <1>8, ParsedIs
  <2>2. b # Null
    BY <2>1 DEF Here, DiffAssumption
  <2>3. Here(c, r.data)
    BY <1>2, <1>3, <2>1, <2>2, EndHere
  <2>4. KeptFor(c, 0) /\ SeenAs(c) = r.data
    BY <2>3, HereKept
  <2>5. Later(n, r, full) = 0 /\ Becomes(SeenAs(a), r, full) = r.data
    BY <1>8 DEF Later, Becomes
  <2> QED
    BY <1>1, <2>4, <2>5
<1>9. ASSUME b = Null, n > 0, Becomes(SeenAs(a), r, full) = Null, Later(n, r, full) = m
      PROVE  KeptFor(c, Later(n, r, full)) /\ SeenAs(c) = Becomes(SeenAs(a), r, full)
  <2>1. c = Null
    BY <1>2, <1>9
  <2> QED
    BY <1>5, <1>9, <2>1, NothingKept
<1>10. ASSUME b # Null, n \in 0 .. 3, Away(c, n + 1), Becomes(SeenAs(a), r, full) = Null, Later(n, r, full) = m
       PROVE  KeptFor(c, Later(n, r, full)) /\ SeenAs(c) = Becomes(SeenAs(a), r, full)
  <2>1. m = n + 1 /\ n + 1 \in 1 .. 4
    BY <1>4, <1>10
  <2> QED
    BY <1>10, <2>1, AwayKept
<1>11. CASE r # Null /\ r.status = "Deleted"
  <2>1. Becomes(SeenAs(a), r, full) = Null /\ Later(n, r, full) = m
    BY <1>5, <1>11 DEF Becomes, Later
  <2>2. CASE g = Null
    <3>1. b = Null
      BY <1>1, <1>11, <2>2, ParsedIs
    <3> QED
      BY <1>1, <1>6, <1>9, <2>1, <2>2, <3>1
  <2>3. CASE g # Null
    <3>1. IsKnown(b) /\ b.status = "MaybeDeleted" /\ b.deleted /\ b.count = n
      BY <1>1, <1>7, <1>11, <2>3, ParsedIs
    <3>2. b # Null
      BY <3>1 DEF DiffAssumption
    <3>3. Away(c, n + 1)
      BY <1>2, <1>3, <3>1, <3>2, EndAway
    <3> QED
      BY <1>1, <1>7, <1>10, <2>1, <2>3, <3>2, <3>3
  <2> QED
    BY <2>2, <2>3
<1>12. CASE r = Null /\ (full \/ n > 0)
  <2>1. b = g /\ Later(n, r, full) = m
    BY <1>1, <1>5, <1>12 DEF Later
  <2>2. Becomes(SeenAs(a), r, full) = Null
    BY <1>3, <1>12 DEF Becomes, SeenAs
  <2>3. CASE g = Null
    BY <1>1, <1>6, <1>9, <2>1, <2>2, <2>3
  <2>4. CASE g # Null
    <3>1. b.status = "NotProcessed" /\ (~full => b.deleted) /\ IsKnown(b) /\ b.count = n
      BY <1>7, <1>12, <2>1, <2>4
    <3>2. Away(c, n + 1)
      BY <1>2, <1>3, <2>1, <2>4, <3>1, EndAway
    <3> QED
      BY <1>1, <1>7, <1>10, <2>1, <2>2, <2>4, <3>2
  <2> QED
    BY <2>3, <2>4
<1>13. CASE r = Null /\ ~full /\ ~(n > 0)
  <2>1. g # Null /\ b = g /\ Later(n, r, full) = 0 /\ Becomes(SeenAs(a), r, full) = SeenAs(a)
    BY <1>1, <1>6, <1>13 DEF Later, Becomes
  <2>2. IsKnown(b) /\ b.status = "NotProcessed" /\ b.data = a.data /\ ~b.deleted /\ b.count = 0 /\ SeenAs(a) = a.data
    BY <1>3, <1>7, <1>13, <2>1
  <2>3. Here(c, a.data)
    BY <1>2, <1>3, <1>13, <2>1, <2>2, EndHere
  <2> QED
    BY <1>1, <2>1, <2>2, <2>3, HereKept
<1> QED
  BY <1>8, <1>11, <1>12, <1>13 DEF RecordFor

\* At the end of a round, at t, auction a is e, and the dump has the record r for it.
EndsAs(e, a, t) == e = IF a = Null THEN Null ELSE Diff!SimpleEnd(a, t)

ReportedAs(r, e, first) == r = IF e = Null \/ (~first /\ e.status = "Unmodified") THEN Null ELSE e

\* A round ends for auction a of the monitor: record r says what is new since the last
\* dump, after which its data was x.
LEMMA RoundIs ==
  ASSUME DiffAssumption, NEW a, NEW first \in BOOLEAN, Watched(a, first),
         NEW x \in Datas \union {Null}, ~first => Agrees(a, x), NEW t,
         NEW e, EndsAs(e, a, t), NEW r, ReportedAs(r, e, first)
  PROVE  /\ RecordFor(r, first) /\ Becomes(x, r, first) \in Datas \union {Null}
         /\ Agrees(Diff!SimpleBegin(e), Becomes(x, r, first)) /\ Watched(Diff!SimpleBegin(e), FALSE)
<1>1. PICK b, y : b = Diff!SimpleBegin(e) /\ y = Becomes(x, r, first)
  OBVIOUS
<1>2. CASE a = Null
  <2>1. e = Null /\ r = Null /\ b = Null
    BY <1>1, <1>2 DEF Diff!SimpleBegin, EndsAs, ReportedAs
  <2>2. y = Null
    BY <1>1, <1>2, <2>1 DEF Becomes, Agrees
  <2> QED
    BY <1>1, <2>1, <2>2 DEF RecordFor, Watched, Agrees
<1>3. CASE a # Null
  <2>1. /\ IsEntry(a) /\ a.status \in {"Added", "Updated", "Unmodified", "NotProcessed"}
        /\ first => a.status = "Added"
    BY <1>3 DEF Watched
  <2>2. /\ IsEntry(e) /\ e.data = a.data
        /\ e.status = IF a.status = "NotProcessed" THEN "Deleted" ELSE a.status
    BY <1>3, <2>1, SimpleEndKeeps DEF EndsAs
  <2>3. e # Null /\ e.data \in Datas /\ e.data # Null
    BY <2>2 DEF DiffAssumption, IsEntry
  <2>4. e.status \in {"Added", "Updated", "Unmodified", "Deleted"} /\ (first => e.status = "Added")
    BY <2>1, <2>2
  <2>5. RecordFor(r, first)
    BY <2>2, <2>3, <2>4 DEF RecordFor, ReportedAs
  <2>6. CASE e.status = "Deleted"
    <3>1. r = e /\ b = Null /\ y = Null
      BY <1>1, <2>3, <2>6 DEF Diff!SimpleBegin, Becomes, ReportedAs
    <3> QED
      BY <1>1, <2>5, <3>1 DEF Watched, Agrees
  <2>7. CASE e.status # "Deleted"
    <3>1. IsEntry(b) /\ b.data = e.data /\ b.status = "NotProcessed"
      BY <1>1, <2>2, <2>3, <2>7, SimpleBeginKeeps
    <3>2. b # Null
      BY <3>1 DEF DiffAssumption
    <3>3. y = e.data
      <4>1. CASE r = e
        BY <1>1, <2>3, <2>7, <4>1 DEF Becomes
      <4>2. CASE r # e
        <5>1. ~first /\ e.status = "Unmodified" /\ r = Null
          BY <2>3, <4>2 DEF ReportedAs
        <5>2. a.status = "Unmodified"
          BY <2>1, <2>2, <5>1
        <5>3. x = a.data
          BY <1>3, <5>1, <5>2 DEF Agrees
        <5> QED
          BY <1>1, <2>2, <5>1, <5>3 DEF Becomes
      <4> QED
        BY <4>1, <4>2
    <3>4. Agrees(b, y) /\ Watched(b, FALSE)
      BY <2>3, <3>1, <3>2, <3>3 DEF Agrees, Watched
    <3> QED
      BY <1>1, <2>3, <2>5, <3>3, <3>4
  <2> QED
    BY <2>6, <2>7
<1> QED
  BY <1>2, <1>3

\* A step of the monitor, or of the auction house, between two dumps.
LEMMA BetweenDumps ==
  ASSUME DiffAssumption, DiffInv, DiffTypes', UNCHANGED <<dumps, unseen>>, reader'.auctions = reader.auctions,
         \A u \in Uids : Watched(watch'.auctions[u], watch'.first),
         ~watch'.first => /\ ~watch.first
                          /\ \A u \in Uids : \A x : Agrees(watch.auctions[u], x) => Agrees(watch'.auctions[u], x)
  PROVE  DiffInv'
<1>1. PICK w : LeadsOn(w)
  BY DEF DiffInv
<1>2. LeadsOn(w)'
  BY <1>1 DEF LeadsOn
<1>3. WatchedAll' /\ RecordsAll' /\ KeptAll'
  BY DEF DiffInv, WatchedAll, RecordsAll, KeptAll
<1> QED
  BY <1>2, <1>3 DEF DiffInv

LEMMA addAuctionInfoStep ==
  ASSUME DiffAssumption, DiffInv, NEW u \in Uids, Diff!addAuctionInfo(u)
  PROVE  DiffInv'
<1>1. PICK a, d, e, p, q, t :
        /\ a = watch.auctions[u] /\ d = Diff!DataOf(u)
        /\ p = Diff!PreviousBegin(watch.times, CategoryOf[u])
        /\ e = (IF a = Null THEN Diff!Added(p, clock, d) ELSE Diff!doUpdate(a, clock, d))
        /\ q = watch.auctions /\ t = [watch.times EXCEPT ![CategoryOf[u]] = Diff!Adjusted(@, {clock})]
  OBVIOUS
<1>2. house[u] # Null
  BY DEF Diff!addAuctionInfo
<1>3. watch' = [watch EXCEPT !.phase = "scanning", !.auctions[u] = e, !.times[CategoryOf[u]] = Diff!Adjusted(@, {clock})]
  BY <1>1 DEF Diff!addAuctionInfo
<1>4. UNCHANGED <<clock, house, reader, dumps, unseen>>
  BY DEF Diff!addAuctionInfo
<1>5. /\ watch' = [auctions |-> [q EXCEPT ![u] = e], times |-> t, category |-> watch.category,
                   phase |-> "scanning", first |-> watch.first]
      /\ q = [v \in Uids |-> q[v]] /\ watch.first \in BOOLEAN
  BY <1>1, <1>3 DEF DiffInv, DiffTypes
<1>6. /\ watch'.first = watch.first /\ watch'.auctions = [q EXCEPT ![u] = e]
      /\ watch'.auctions[u] = e /\ \A v \in Uids : v # u => watch'.auctions[v] = watch.auctions[v]
  BY <1>1, <1>5
<1>7. DiffTypes'
  <2>1. watch'.auctions = [v \in Uids |-> watch'.auctions[v]]
    BY <1>5, <1>6
  <2> QED
    BY <1>4, <1>5, <2>1 DEF DiffInv, DiffTypes
<1>8. d \in Datas
  <2>1. house[u] \in [added : Nat, bid : {0, 1}]
    BY <1>2 DEF DiffInv, DiffTypes
  <2>2. Diff!Shown(u) \in {"short", "medium", "long"}
    BY DEF Diff!Shown
  <2> QED
    BY <1>1, <2>1, <2>2 DEF Diff!DataOf, Datas
<1>9. Watched(a, watch.first)
  BY <1>1 DEF DiffInv, WatchedAll
<1>10. Watched(e, watch.first) /\ \A x : Agrees(a, x) => Agrees(e, x)
  <2>1. CASE a = Null
    <3>1. e = [status |-> "Added", min |-> p, max |-> clock, data |-> d]
      BY <1>1, <2>1 DEF Diff!Added
    <3>2. IsEntry(e) /\ e.status = "Added"
      BY <1>8, <3>1 DEF IsEntry
    <3> QED
      BY <2>1, <3>2 DEF Watched, Agrees
  <2>2. CASE a # Null
    <3>1. /\ IsEntry(a) /\ a.status \in {"Added", "Updated", "Unmodified", "NotProcessed"}
          /\ watch.first => a.status = "Added"
      BY <1>9, <2>2 DEF Watched
    <3>2. /\ IsEntry(e) /\ e.data = d
          /\ e.status = IF a.status \in {"Added", "Updated"} THEN a.status
                        ELSE IF d = a.data THEN "Unmodified" ELSE "Updated"
      BY <1>1, <1>8, <2>2, <3>1, doUpdateKeeps
    <3>3. e # Null
      BY <3>2 DEF DiffAssumption
    <3>4. Watched(e, watch.first)
      BY <3>1, <3>2 DEF Watched
    <3>5. ASSUME NEW x, Agrees(a, x) PROVE Agrees(e, x)
      BY <2>2, <3>1, <3>2, <3>3, <3>5 DEF Agrees
    <3> QED
      BY <3>4, <3>5
  <2> QED
    BY <2>1, <2>2
<1>11. \A v \in Uids : Watched(watch'.auctions[v], watch'.first)
  BY <1>6, <1>10 DEF DiffInv, WatchedAll
<1>12. \A v \in Uids : \A x : Agrees(watch.auctions[v], x) => Agrees(watch'.auctions[v], x)
  BY <1>1, <1>6, <1>10
<1>13. reader'.auctions = reader.auctions
  BY <1>4
<1> QED
  BY <1>4, <1>6, <1>7, <1>11, <1>12, <1>13, BetweenDumps

\* A dump is written.
LEMMA OneMore ==
  ASSUME NEW S, NEW q \in Seq(S), NEW x, NEW r, r = q \o <<x>>
  PROVE  /\ r \in Seq(S \union {x}) /\ Len(q) \in Nat /\ Len(r) = Len(q) + 1 /\ r[Len(q) + 1] = x
         /\ \A i \in 1 .. Len(q) : r[i] = q[i]
<1>1. q \in Seq(S \union {x}) /\ <<x>> \in Seq(S \union {x})
  OBVIOUS
<1> QED
  BY <1>1

LEMMA DumpedOne ==
  ASSUME DiffAssumption, DiffInv, DiffTypes', UNCHANGED <<reader, unseen>>,
         NEW e, NEW t, \A u \in Uids : EndsAs(e[u], watch.auctions[u], t[u]),
         NEW f, f.full = watch.first, \A u \in Uids : ReportedAs(f.auctions[u], e[u], watch.first),
         dumps' = dumps \o <<f>>, ~watch'.first,
         \A u \in Uids : watch'.auctions[u] = Diff!SimpleBegin(e[u])
  PROVE  DiffInv'
<1>1. PICK w, n : LeadsOn(w) /\ n = Len(dumps)
  BY DEF DiffInv
<1>2. PICK S : dumps \in Seq(S)
  BY DEF DiffInv, DiffTypes
<1>3. /\ n \in Nat /\ Len(dumps') = n + 1 /\ dumps'[n + 1] = f
      /\ \A i \in 1 .. n : dumps'[i] = dumps[i]
  BY <1>1, <1>2, OneMore
<1>4. w \in [Nat -> [Uids -> Datas \union {Null}]] /\ watch.first \in BOOLEAN
  BY <1>1 DEF LeadsOn, DiffInv, DiffTypes
<1>5. PICK y : y = [u \in Uids |-> Becomes(w[n][u], f.auctions[u], f.full)]
  OBVIOUS
<1>6. ASSUME NEW u \in Uids
      PROVE  /\ RecordFor(f.auctions[u], f.full) /\ y[u] \in Datas \union {Null}
             /\ Agrees(watch'.auctions[u], y[u]) /\ Watched(watch'.auctions[u], watch'.first)
  <2>1. PICK a, r, x : a = watch.auctions[u] /\ r = f.auctions[u] /\ x = w[n][u]
    OBVIOUS
  <2>2. Watched(a, watch.first) /\ x \in Datas \union {Null} /\ (~watch.first => Agrees(a, x))
    BY <1>1, <1>3, <1>4, <1>6, <2>1 DEF DiffInv, WatchedAll, LeadsOn
  <2>3. PICK g, h, k : g = e[u] /\ h = t[u] /\ k = watch.first
    OBVIOUS
  <2>4. EndsAs(g, a, h) /\ ReportedAs(r, g, k)
    BY <1>6, <2>1, <2>3
  <2>5. k \in BOOLEAN /\ Watched(a, k) /\ (~k => Agrees(a, x)) /\ x \in Datas \union {Null}
    BY <1>4, <2>2, <2>3
  <2>6. /\ RecordFor(r, k) /\ Becomes(x, r, k) \in Datas \union {Null}
        /\ Agrees(Diff!SimpleBegin(g), Becomes(x, r, k)) /\ Watched(Diff!SimpleBegin(g), FALSE)
    BY <2>4, <2>5, RoundIs
  <2>7. watch'.auctions[u] = Diff!SimpleBegin(g) /\ y[u] = Becomes(x, r, k) /\ f.full = k
    BY <1>5, <1>6, <2>1, <2>3
  <2>8. Watched(watch'.auctions[u], watch'.first)
    BY <2>6, <2>7 DEF Watched
  <2> QED
    BY <2>1, <2>6, <2>7, <2>8
<1>7. PICK v : v = [w EXCEPT ![n + 1] = y]
  OBVIOUS
<1>8. y \in [Uids -> Datas \union {Null}]
  BY <1>5, <1>6
<1>9. /\ v \in [Nat -> [Uids -> Datas \union {Null}]] /\ v[n + 1] = y
      /\ \A i \in Nat : i # n + 1 => v[i] = w[i]
  BY <1>3, <1>4, <1>7, <1>8
<1>10. LeadsOn(v)'
  <2>1. \A u \in Uids : v[0][u] = SeenAs(reader'.auctions[u])
    <3>1. n \in Nat
      BY <1>3
    <3>2. 0 \in Nat /\ 0 # n + 1
      BY <3>1
    <3>3. v[0] = w[0]
      BY <1>9, <3>2
    <3> QED
      BY <1>1, <3>3 DEF LeadsOn
  <2>2. ASSUME NEW i \in 1 .. Len(dumps'), NEW u \in Uids
        PROVE  v[i][u] = Becomes(v[i - 1][u], dumps'[i].auctions[u], dumps'[i].full)
    <3>1. CASE i = n + 1
      <4>1. v[i] = y /\ v[i - 1] = w[n] /\ dumps'[i] = f
        BY <1>3, <1>9, <3>1
      <4> QED
        BY <1>5, <2>2, <4>1
    <3>2. CASE i # n + 1
      <4>1. i \in 1 .. n /\ v[i] = w[i] /\ v[i - 1] = w[i - 1] /\ dumps'[i] = dumps[i]
        BY <1>3, <1>9, <2>2, <3>2
      <4> QED
        BY <1>1, <2>2, <4>1 DEF LeadsOn
    <3> QED
      BY <3>1, <3>2
  <2>3. \A u \in Uids : Agrees(watch'.auctions[u], v[Len(dumps')][u])
    BY <1>3, <1>6, <1>9
  <2> QED
    BY <1>9, <2>1, <2>2, <2>3 DEF LeadsOn
<1>11. RecordsAll'
  <2>1. ASSUME NEW i \in 1 .. Len(dumps')
        PROVE  dumps'[i].full \in BOOLEAN /\ \A u \in Uids : RecordFor(dumps'[i].auctions[u], dumps'[i].full)
    <3>1. CASE i = n + 1
      BY <1>3, <1>4, <1>6, <3>1
    <3>2. CASE i # n + 1
      <4>1. i \in 1 .. n /\ dumps'[i] = dumps[i]
        BY <1>3, <2>1, <3>2
      <4> QED
        BY <1>1, <4>1 DEF DiffInv, RecordsAll
    <3> QED
      BY <3>1, <3>2
  <2> QED
    BY <2>1 DEF RecordsAll
<1>12. WatchedAll' /\ KeptAll'
  BY <1>6 DEF DiffInv, WatchedAll, KeptAll
<1> QED
  BY <1>10, <1>11, <1>12 DEF DiffInv

LEMMA EndCategoryStep ==
  ASSUME DiffAssumption, DiffInv, Diff!EndCategory
  PROVE  DiffInv'
<1>1. PICK q, m : q = watch.auctions /\ m = [watch EXCEPT !.times[watch.category].e = clock, !.phase = "idle"]
  OBVIOUS
<1>2. PICK ts : ts = m.times
  OBVIOUS
<1>3. m = [auctions |-> q, times |-> ts, category |-> watch.category, phase |-> "idle", first |-> watch.first]
  BY <1>1, <1>2 DEF DiffInv, DiffTypes
<1>4. q = [u \in Uids |-> q[u]] /\ watch.first \in BOOLEAN /\ UNCHANGED <<clock, house, reader, unseen>>
  BY <1>1 DEF DiffInv, DiffTypes, Diff!EndCategory
<1>5. IF m.category + 1 < CategoryCount
      THEN watch' = [m EXCEPT !.category = @ + 1] /\ UNCHANGED dumps
      ELSE \E done \in {Diff!EndProcess(m)} :
             /\ dumps' = dumps \o (IF m.first \/ FullDumps THEN <<Diff!Export(done, TRUE)>> ELSE << >>)
                               \o (IF m.first THEN << >> ELSE <<Diff!Export(done, FALSE)>>)
             /\ watch' = Diff!BeginProcess(done)
  BY <1>1 DEF Diff!EndCategory
<1>6. CASE m.category + 1 < CategoryCount
  <2>1. PICK c : c = watch.category + 1
    OBVIOUS
  <2>2. watch' = [auctions |-> q, times |-> ts, category |-> c, phase |-> "idle", first |-> watch.first]
    BY <1>3, <1>5, <1>6, <2>1
  <2>3. watch'.auctions = watch.auctions /\ watch'.first = watch.first /\ UNCHANGED dumps
    BY <1>1, <1>5, <1>6, <2>2
  <2>4. DiffTypes'
    BY <1>1, <1>4, <2>2, <2>3 DEF DiffInv, DiffTypes
  <2>5. /\ \A u \in Uids : Watched(watch'.auctions[u], watch'.first)
        /\ reader'.auctions = reader.auctions
    BY <1>4, <2>3 DEF DiffInv, WatchedAll
  <2> QED
    BY <1>4, <2>3, <2>4, <2>5, BetweenDumps
<1>7. CASE ~(m.category + 1 < CategoryCount)
  <2>1. PICK done : /\ done = Diff!EndProcess(m) /\ watch' = Diff!BeginProcess(done)
                    /\ dumps' = dumps \o (IF m.first \/ FullDumps THEN <<Diff!Export(done, TRUE)>> ELSE << >>)
                                      \o (IF m.first THEN << >> ELSE <<Diff!Export(done, FALSE)>>)
    BY <1>5, <1>7
  <2>2. PICK t, e, z : /\ t = [u \in Uids |-> Diff!EndTime(ts, CategoryOf[u])]
                       /\ e = [u \in Uids |-> IF q[u] = Null THEN Null ELSE Diff!SimpleEnd(q[u], t[u])]
                       /\ z = Diff!Reset(ts)
    OBVIOUS
  <2>3. done = [auctions |-> e, times |-> z, category |-> watch.category, phase |-> "idle", first |-> watch.first]
    <3>1. done = [m EXCEPT !.auctions = [u \in Uids |-> IF @[u] = Null THEN Null
                                           ELSE Diff!SimpleEnd(@[u], Diff!EndTime(m.times, CategoryOf[u]))],
                           !.times = Diff!Reset(@)]
      BY <2>1 DEF Diff!EndProcess
    <3>2. e = [u \in Uids |-> IF q[u] = Null THEN Null ELSE Diff!SimpleEnd(q[u], Diff!EndTime(ts, CategoryOf[u]))]
      BY <2>2
    <3> QED
      BY <1>3, <2>2, <3>1, <3>2
  <2>4. watch' = [auctions |-> [u \in Uids |-> Diff!SimpleBegin(e[u])], times |-> z, category |-> 0,
                  phase |-> "idle", first |-> FALSE]
    <3>1. watch' = [done EXCEPT !.auctions = [u \in Uids |-> Diff!SimpleBegin(@[u])],
                                !.category = 0, !.phase = "idle", !.first = FALSE]
      BY <2>1 DEF Diff!BeginProcess
    <3>2. PICK b : b = [u \in Uids |-> Diff!SimpleBegin(e[u])]
      OBVIOUS
    <3>3. watch' = [done EXCEPT !.auctions = b, !.category = 0, !.phase = "idle", !.first = FALSE]
      BY <2>3, <3>1, <3>2
    <3>4. watch' = [auctions |-> b, times |-> z, category |-> 0, phase |-> "idle", first |-> FALSE]
      BY <2>3, <3>3
    <3> QED
      BY <3>2, <3>4
  <2>5. PICK f : f = Diff!Export(done, watch.first)
    OBVIOUS
  <2>6. /\ f.full = watch.first
        /\ \A u \in Uids : f.auctions[u] = IF e[u] = Null \/ (~watch.first /\ e[u].status = "Unmodified")
                                           THEN Null ELSE e[u]
    BY <2>3, <2>5 DEF Diff!Export
  <2>7. PICK S : dumps \in Seq(S)
    BY DEF DiffInv, DiffTypes
  <2>8. dumps' = dumps \o <<f>>
    <3>1. m.first = watch.first /\ ~FullDumps
      BY <1>3 DEF DiffAssumption
    <3>2. CASE watch.first
      <4>1. dumps' = dumps \o <<f>> \o << >>
        BY <2>1, <2>5, <3>1, <3>2
      <4>2. dumps \o <<f>> \in Seq(S \union {f})
        BY <2>7, OneMore
      <4> QED
        BY <4>1, <4>2
    <3>3. CASE ~watch.first
      <4>1. dumps' = dumps \o << >> \o <<f>>
        BY <1>4, <2>1, <2>5, <3>1, <3>3
      <4> QED
        BY <2>7, <4>1
    <3> QED
      BY <3>2, <3>3
  <2>9. DiffTypes'
    <3>1. \E R : dumps' \in Seq(R)
      BY <2>7, <2>8, OneMore
    <3>2. watch'.auctions = [u \in Uids |-> watch'.auctions[u]] /\ watch'.first = FALSE
      BY <2>4
    <3> QED
      BY <1>4, <2>4, <3>1, <3>2 DEF DiffInv, DiffTypes
  <2>10. \A u \in Uids : /\ watch'.auctions[u] = Diff!SimpleBegin(e[u])
                         /\ e[u] = IF watch.auctions[u] = Null THEN Null ELSE Diff!SimpleEnd(watch.auctions[u], t[u])
    BY <1>1, <2>2, <2>4
  <2>11. ~watch'.first
    BY <2>4
  <2>12. UNCHANGED <<reader, unseen>>
    BY <1>4
  <2>13. f.full = watch.first
    BY <2>6
  <2>14. \A u \in Uids : EndsAs(e[u], watch.auctions[u], t[u])
    BY <2>10 DEF EndsAs
  <2>15. \A u \in Uids : ReportedAs(f.auctions[u], e[u], watch.first)
    BY <2>6 DEF ReportedAs
  <2>16. \A u \in Uids : watch'.auctions[u] = Diff!SimpleBegin(e[u])
    BY <2>10
  <2> QED
    BY <2>8, <2>9, <2>11, <2>12, <2>13, <2>14, <2>15, <2>16, DumpedOne
<1> QED
  BY <1>6, <1>7

LEMMA BeginCategoryStep ==
  ASSUME DiffAssumption, DiffInv, Diff!BeginCategory
  PROVE  DiffInv'
<1>1. PICK q, t : q = watch.auctions /\ t = [watch.times EXCEPT ![watch.category].b = clock]
  OBVIOUS
<1>2. watch' = [watch EXCEPT !.phase = "begun", !.times[watch.category].b = clock]
      /\ UNCHANGED <<clock, house, reader, dumps, unseen>>
  BY DEF Diff!BeginCategory
<1>3. watch' = [auctions |-> q, times |-> t, category |-> watch.category, phase |-> "begun", first |-> watch.first]
  BY <1>1, <1>2 DEF DiffInv, DiffTypes
<1>4. watch'.auctions = watch.auctions /\ watch'.first = watch.first
  BY <1>1, <1>3
<1>5. DiffTypes'
  BY <1>1, <1>2, <1>3, <1>4 DEF DiffInv, DiffTypes
<1>6. (\A u \in Uids : Watched(watch'.auctions[u], watch'.first)) /\ reader'.auctions = reader.auctions
  BY <1>2, <1>4 DEF DiffInv, WatchedAll
<1> QED
  BY <1>2, <1>4, <1>5, <1>6, BetweenDumps

\* The monitor starts again with nothing: its next dump is a full one.
LEMMA RestartMonitorStep ==
  ASSUME DiffAssumption, DiffInv, Diff!RestartMonitor
  PROVE  DiffInv'
<1>1. watch' = Diff!FreshMonitor /\ UNCHANGED <<clock, house, reader, dumps, unseen>>
  BY DEF Diff!RestartMonitor
<1>2. /\ watch'.first = TRUE /\ watch'.auctions = [u \in Uids |-> Null]
      /\ watch' = [auctions |-> watch'.auctions, times |-> watch'.times, category |-> watch'.category,
                   phase |-> watch'.phase, first |-> watch'.first]
  BY <1>1 DEF Diff!FreshMonitor
<1>3. watch'.auctions = [u \in Uids |-> watch'.auctions[u]] /\ watch'.first \in BOOLEAN
  BY <1>2
<1>4. DiffTypes'
  BY <1>1, <1>2, <1>3 DEF DiffInv, DiffTypes
<1>5. (\A u \in Uids : Watched(watch'.auctions[u], watch'.first)) /\ reader'.auctions = reader.auctions
  BY <1>1, <1>2 DEF Watched
<1> QED
  BY <1>1, <1>2, <1>4, <1>5, BetweenDumps

LEMMA HouseStep ==
  ASSUME DiffAssumption, DiffInv,
         Diff!Tick \/ \E u \in Uids : Diff!Sell(u) \/ Diff!Bid(u) \/ Diff!Leave(u)
  PROVE  DiffInv'
<1>1. clock \in Nat /\ house \in [Uids -> [added : Nat, bid : {0, 1}] \union {Null}]
  BY DEF DiffInv, DiffTypes
<1>2. UNCHANGED <<watch, reader, dumps, unseen>>
  BY DEF Diff!Tick, Diff!Sell, Diff!Bid, Diff!Leave
<1>3. clock' \in Nat /\ house' \in [Uids -> [added : Nat, bid : {0, 1}] \union {Null}]
  <2>1. CASE Diff!Tick
    BY <1>1, <2>1 DEF Diff!Tick
  <2>2. ASSUME NEW u \in Uids, Diff!Sell(u) \/ Diff!Bid(u) \/ Diff!Leave(u)
        PROVE  clock' \in Nat /\ house' \in [Uids -> [added : Nat, bid : {0, 1}] \union {Null}]
    <3>1. \E x \in [added : Nat, bid : {0, 1}] \union {Null} : house' = [house EXCEPT ![u] = x]
      <4>1. CASE Diff!Sell(u)
        BY <1>1, <4>1 DEF Diff!Sell
      <4>2. CASE Diff!Bid(u)
        <5>1. house[u] \in [added : Nat, bid : {0, 1}] /\ house' = [house EXCEPT ![u].bid = 1]
          BY <1>1, <4>2 DEF Diff!Bid
        <5>2. [house[u] EXCEPT !.bid = 1] \in [added : Nat, bid : {0, 1}]
          BY <5>1
        <5> QED
          BY <5>1, <5>2
      <4>3. CASE Diff!Leave(u)
        BY <4>3 DEF Diff!Leave
      <4> QED
        BY <2>2, <4>1, <4>2, <4>3
    <3>2. clock' = clock
      BY <2>2 DEF Diff!Sell, Diff!Bid, Diff!Leave
    <3> QED
      BY <1>1, <3>1, <3>2
  <2> QED
    BY <2>1, <2>2
<1>4. DiffTypes'
  BY <1>2, <1>3 DEF DiffInv, DiffTypes
<1>5. (\A u \in Uids : Watched(watch'.auctions[u], watch'.first)) /\ reader'.auctions = reader.auctions
  BY <1>2 DEF DiffInv, WatchedAll
<1>6. watch'.auctions = watch.auctions /\ watch'.first = watch.first
  BY <1>2
<1> QED
  BY <1>2, <1>4, <1>5, <1>6, BetweenDumps

\* A dump is parsed.
LEMMA RestIs ==
  ASSUME NEW S, NEW q \in Seq(S), q # << >>, NEW r, r = SubSeq(q, 2, Len(q))
  PROVE  /\ r \in Seq(S) /\ Len(q) \in Nat /\ Len(q) > 0 /\ Len(r) = Len(q) - 1
         /\ \A i \in 1 .. Len(r) : r[i] = q[i + 1] /\ i + 1 \in 1 .. Len(q)
<1>1. Len(q) \in Nat /\ Len(q) > 0
  OBVIOUS
<1>2. r \in Seq(S) /\ Len(r) = Len(q) - 1 /\ \A i \in 1 .. Len(q) - 1 : r[i] = q[2 + i - 1]
  <2>1. 2 \in 1 .. Len(q) + 1 /\ Len(q) \in 0 .. Len(q) /\ Len(q) - 2 + 1 = Len(q) - 1
    BY <1>1
  <2>2. /\ r \in Seq(S) /\ Len(r) = (IF 2 <= Len(q) THEN Len(q) - 2 + 1 ELSE 0)
        /\ \A i \in 1 .. Len(q) - 2 + 1 : r[i] = q[2 + i - 1]
    BY <2>1, SubSeqProperties
  <2> QED
    BY <1>1, <2>1, <2>2
<1>3. \A i \in 1 .. Len(r) : 2 + i - 1 = i + 1 /\ i + 1 \in 1 .. Len(q) /\ i \in 1 .. Len(q) - 1
  BY <1>1, <1>2
<1> QED
  BY <1>1, <1>2, <1>3

LEMMA ParseFileStep ==
  ASSUME DiffAssumption, DiffInv, Diff!ParseFile
  PROVE  DiffInv'
<1>1. PICK w, f, n : LeadsOn(w) /\ f = dumps[1] /\ n = Len(dumps)
  BY DEF DiffInv
<1>2. PICK S : dumps \in Seq(S)
  BY DEF DiffInv, DiffTypes
<1>3. /\ dumps # << >> /\ reader' = Diff!Process(reader, f) /\ dumps' = SubSeq(dumps, 2, Len(dumps))
      /\ UNCHANGED <<clock, house, watch>>
  BY <1>1 DEF Diff!ParseFile
<1>4. /\ dumps' \in Seq(S) /\ n \in Nat /\ n > 0 /\ Len(dumps') = n - 1
      /\ \A i \in 1 .. Len(dumps') : dumps'[i] = dumps[i + 1] /\ i + 1 \in 1 .. n
  BY <1>1, <1>2, <1>3, RestIs
<1>5. f.full \in BOOLEAN /\ 1 \in 1 .. n
  BY <1>1, <1>4 DEF DiffInv, RecordsAll
<1>6. ASSUME NEW u \in Uids
      PROVE  /\ KeptFor(reader'.auctions[u], unseen'[u])
             /\ SeenAs(reader'.auctions[u]) = Becomes(SeenAs(reader.auctions[u]), f.auctions[u], f.full)
  <2>1. PICK a, r, k : a = reader.auctions[u] /\ r = f.auctions[u] /\ k = unseen[u]
    OBVIOUS
  <2>2. RecordFor(r, f.full) /\ KeptFor(a, k) /\ k \in 0 .. 5
    BY <1>1, <1>5, <1>6, <2>1 DEF DiffInv, RecordsAll, KeptAll, KeptFor
  <2>3. \E p, begin, end : reader'.auctions[u] = Processed(a, r, f.full, p, begin, end)
    BY <1>3, <1>6, <2>1 DEF Diff!Process, Processed
  <2>4. PICK p, begin, end : reader'.auctions[u] = Processed(a, r, f.full, p, begin, end)
    BY <2>3
  <2>5. unseen'[u] = Later(k, r, f.full)
    <3>1. PICK away : away = IF f.full THEN r = Null ELSE r # Null /\ r.status = "Deleted"
      OBVIOUS
    <3>2. unseen'[u] = IF away THEN Diff!Min({k + 1, 5})
                       ELSE IF r # Null /\ r.status \in {"Added", "Updated"} THEN 0
                       ELSE IF k > 0 THEN Diff!Min({k + 1, 5}) ELSE 0
      BY <1>1, <1>6, <2>1, <3>1 DEF Diff!ParseFile
    <3>3. r # Null => r.status \in {"Added", "Updated", "Deleted"} /\ (f.full => r.status = "Added")
      BY <2>2 DEF RecordFor
    <3> QED
      BY <1>5, <3>1, <3>2, <3>3 DEF Later
  <2>6. PICK y, c : y = f.full /\ c = Processed(a, r, y, p, begin, end)
    OBVIOUS
  <2>7. KeptFor(a, k) /\ y \in BOOLEAN /\ RecordFor(r, y)
    BY <1>5, <2>2, <2>6
  <2>8. KeptFor(c, Later(k, r, y)) /\ SeenAs(c) = Becomes(SeenAs(a), r, y)
    BY <2>6, <2>7, ProcessedIs
  <2> QED
    BY <2>1, <2>4, <2>5, <2>6, <2>8
<1>7. PICK v : v = [i \in Nat |-> w[i + 1]]
  OBVIOUS
<1>8. /\ w \in [Nat -> [Uids -> Datas \union {Null}]] /\ v \in [Nat -> [Uids -> Datas \union {Null}]]
      /\ \A i \in Nat : v[i] = w[i + 1]
  BY <1>1, <1>7 DEF LeadsOn
<1>9. LeadsOn(v)'
  <2>1. ASSUME NEW u \in Uids PROVE v[0][u] = SeenAs(reader'.auctions[u])
    <3>1. v[0] = w[1] /\ w[1 - 1] = w[0]
      BY <1>8
    <3>2. w[1][u] = Becomes(w[1 - 1][u], f.auctions[u], f.full) /\ w[0][u] = SeenAs(reader.auctions[u])
      BY <1>1, <1>5, <2>1 DEF LeadsOn
    <3> QED
      BY <1>6, <3>1, <3>2
  <2>2. ASSUME NEW i \in 1 .. Len(dumps'), NEW u \in Uids
        PROVE  v[i][u] = Becomes(v[i - 1][u], dumps'[i].auctions[u], dumps'[i].full)
    <3>1. PICK j : j = i + 1
      OBVIOUS
    <3>2. i \in Nat /\ i - 1 \in Nat /\ j - 1 = i /\ (i - 1) + 1 = i
      BY <1>4, <2>2, <3>1
    <3>3. v[i] = w[j] /\ v[i - 1] = w[j - 1] /\ dumps'[i] = dumps[j] /\ j \in 1 .. n
      BY <1>4, <1>8, <2>2, <3>1, <3>2
    <3>4. w[j][u] = Becomes(w[j - 1][u], dumps[j].auctions[u], dumps[j].full)
      BY <1>1, <2>2, <3>3 DEF LeadsOn
    <3> QED
      BY <3>3, <3>4
  <2>3. ~watch'.first => \A u \in Uids : Agrees(watch'.auctions[u], v[Len(dumps')][u])
    <3>1. n - 1 \in Nat /\ (n - 1) + 1 = n
      BY <1>4
    <3>2. v[Len(dumps')] = w[n]
      BY <1>4, <1>8, <3>1
    <3> QED
      BY <1>1, <1>3, <3>2 DEF LeadsOn
  <2> QED
    BY <1>8, <2>1, <2>2, <2>3 DEF LeadsOn
<1>10. RecordsAll'
  BY <1>1, <1>4 DEF DiffInv, RecordsAll
<1>11. KeptAll' /\ WatchedAll'
  BY <1>3, <1>6 DEF DiffInv, KeptAll, WatchedAll
<1>12. DiffTypes'
  BY <1>3, <1>4 DEF DiffInv, DiffTypes
<1> QED
  BY <1>9, <1>10, <1>11, <1>12 DEF DiffInv

\* The parser starts again from its state file, which lacks the data it compares with.
ImportedAs(b, a, o) == b = [a EXCEPT !.old = o, !.status = IF @ = "NotProcessed" THEN "Added" ELSE @]

LEMMA ImportedKeeps ==
  ASSUME NEW a, IsKnown(a), a.status # "NotProcessed", NEW o, NEW b, ImportedAs(b, a, o)
  PROVE  /\ IsKnown(b) /\ b.status = a.status /\ b.data = a.data /\ b.deleted = a.deleted
         /\ b.count = a.count
<1>1. PICK z, lo, hi, d, x, n, f, p, q :
        /\ z = a.status /\ lo = a.min /\ hi = a.max /\ d = a.data /\ x = a.deleted
        /\ n = a.count /\ f = a.fromAdded /\ p = a.endMin /\ q = a.endMax
  OBVIOUS
<1>2. a = [status |-> z, min |-> lo, max |-> hi, data |-> d, old |-> a.old, deleted |-> x, count |-> n,
           fromAdded |-> f, endMin |-> p, endMax |-> q]
  BY <1>1 DEF IsKnown
<1>3. d \in Datas /\ x \in BOOLEAN /\ n \in Nat
  BY <1>1 DEF IsKnown
<1>4. b = [status |-> z, min |-> lo, max |-> hi, data |-> d, old |-> o, deleted |-> x, count |-> n,
           fromAdded |-> f, endMin |-> p, endMax |-> q]
  BY <1>1, <1>2 DEF ImportedAs
<1>5. IsKnown(b)
  BY <1>3, <1>4 DEF IsKnown
<1> QED
  BY <1>1, <1>4, <1>5

LEMMA RestartParserStep ==
  ASSUME DiffAssumption, DiffInv, Diff!RestartParser
  PROVE  DiffInv'
<1>1. reader' = Diff!Imported(reader) /\ UNCHANGED <<clock, house, watch, dumps, unseen>>
  BY DEF Diff!RestartParser
<1>2. ASSUME NEW u \in Uids
      PROVE  /\ KeptFor(reader'.auctions[u], unseen[u])
             /\ SeenAs(reader'.auctions[u]) = SeenAs(reader.auctions[u])
  <2>1. PICK a, b, n, o : a = reader.auctions[u] /\ b = reader'.auctions[u] /\ n = unseen[u] /\ o = Diff!NoData
    OBVIOUS
  <2>2. KeptFor(a, n)
    BY <1>2, <2>1 DEF DiffInv, KeptAll
  <2>3. b = IF a = Null THEN Null
            ELSE [a EXCEPT !.old = o, !.status = IF @ = "NotProcessed" THEN "Added" ELSE @]
    BY <1>1, <1>2, <2>1 DEF Diff!Imported
  <2>4. CASE a = Null
    BY <2>1, <2>2, <2>3, <2>4
  <2>5. CASE a # Null
    <3>1. IsKnown(a) /\ a.status # "NotProcessed"
      BY <2>2, <2>5 DEF KeptFor
    <3>2. /\ IsKnown(b) /\ b.status = a.status /\ b.data = a.data /\ b.deleted = a.deleted
          /\ b.count = a.count
      <4>1. ImportedAs(b, a, o)
        BY <2>3, <2>5 DEF ImportedAs
      <4> QED
        BY <3>1, <4>1, ImportedKeeps
    <3>3. b # Null
      BY <3>2 DEF DiffAssumption
    <3>4. KeptFor(b, n) /\ SeenAs(b) = SeenAs(a)
      BY <2>2, <2>5, <3>2, <3>3 DEF KeptFor, SeenAs
    <3> QED
      BY <2>1, <3>4
  <2> QED
    BY <2>4, <2>5
<1>3. PICK w : LeadsOn(w)
  BY DEF DiffInv
<1>4. LeadsOn(w)'
  BY <1>1, <1>2, <1>3 DEF LeadsOn
<1>5. KeptAll' /\ WatchedAll' /\ RecordsAll' /\ DiffTypes'
  BY <1>1, <1>2 DEF DiffInv, KeptAll, WatchedAll, RecordsAll, DiffTypes
<1> QED
  BY <1>4, <1>5 DEF DiffInv

LEMMA DiffStarts ==
  ASSUME DiffAssumption, Diff!Init
  PROVE  DiffInv
<1>1. /\ clock = 1 /\ house = [u \in Uids |-> Null] /\ watch = Diff!FreshMonitor /\ dumps = << >>
      /\ reader.auctions = [u \in Uids |-> Null] /\ unseen = [u \in Uids |-> 5]
  BY DEF Diff!Init
<1>2. /\ watch.first = TRUE /\ watch.auctions = [u \in Uids |-> Null]
      /\ watch = [auctions |-> watch.auctions, times |-> watch.times, category |-> watch.category,
                  phase |-> watch.phase, first |-> watch.first]
  BY <1>1 DEF Diff!FreshMonitor
<1>3. \E S : dumps \in Seq(S)
  <2>1. dumps \in Seq({})
    BY <1>1
  <2> QED
    BY <2>1
<1>4. DiffTypes
  <2>1. watch.auctions = [u \in Uids |-> watch.auctions[u]] /\ watch.first \in BOOLEAN
    BY <1>2
  <2> QED
    BY <1>1, <1>2, <1>3, <2>1 DEF DiffTypes
<1>5. WatchedAll
  BY <1>2 DEF WatchedAll, Watched
<1>6. RecordsAll
  BY <1>1 DEF RecordsAll
<1>7. KeptAll
  BY <1>1, NothingKept DEF KeptAll
<1>8. PICK w : w = [i \in Nat |-> [u \in Uids |-> Null]]
  OBVIOUS
<1>9. LeadsOn(w)
  <2>1. w \in [Nat -> [Uids -> Datas \union {Null}]] /\ \A u \in Uids : w[0][u] = Null
    BY <1>8
  <2>2. \A u \in Uids : SeenAs(reader.auctions[u]) = Null
    BY <1>1 DEF SeenAs
  <2>3. 1 .. Len(dumps) = {}
    BY <1>1
  <2> QED
    BY <1>2, <2>1, <2>2, <2>3 DEF LeadsOn
<1> QED
  BY <1>4, <1>5, <1>6, <1>7, <1>9 DEF DiffInv

LEMMA DiffSteps ==
  ASSUME DiffAssumption, DiffInv, [Diff!Next]_Diff!vars
  PROVE  DiffInv'
<1>1. CASE Diff!BeginCategory
  BY <1>1, BeginCategoryStep
<1>2. CASE Diff!EndCategory
  BY <1>2, EndCategoryStep
<1>3. CASE Diff!RestartMonitor
  BY <1>3, RestartMonitorStep
<1>4. CASE Diff!ParseFile
  BY <1>4, ParseFileStep
<1>5. CASE Diff!RestartParser
  BY <1>5, RestartParserStep
<1>6. CASE \E u \in Uids : Diff!addAuctionInfo(u)
  BY <1>6, addAuctionInfoStep
<1>7. CASE Diff!Tick \/ \E u \in Uids : Diff!Sell(u) \/ Diff!Bid(u) \/ Diff!Leave(u)
  BY <1>7, HouseStep
<1>8. CASE UNCHANGED Diff!vars
  <2>1. UNCHANGED <<clock, house, watch, reader, dumps, unseen>>
    BY <1>8 DEF Diff!vars
  <2>2. PICK w : LeadsOn(w)
    BY DEF DiffInv
  <2>3. LeadsOn(w)'
    BY <2>1, <2>2 DEF LeadsOn
  <2>4. KeptAll' /\ WatchedAll' /\ RecordsAll' /\ DiffTypes'
    BY <2>1 DEF DiffInv, KeptAll, WatchedAll, RecordsAll, DiffTypes
  <2> QED
    BY <2>3, <2>4 DEF DiffInv
<1> QED
  BY <1>1, <1>2, <1>3, <1>4, <1>5, <1>6, <1>7, <1>8 DEF Diff!Next

LEMMA DiffInvInStep ==
  ASSUME DiffAssumption, DiffInv
  PROVE  Diff!InStep
<1>1. PICK w : LeadsOn(w)
  BY DEF DiffInv
<1>2. ASSUME NEW u \in Uids, dumps = << >>, ~watch.first
      PROVE  /\ Diff!Live(u) <=> Diff!Dumped(u)
             /\ Diff!Live(u) /\ Diff!Dumped(u) /\ watch.auctions[u].status = "NotProcessed" =>
                  reader.auctions[u].data = watch.auctions[u].data
  <2>1. PICK a, b : a = reader.auctions[u] /\ b = watch.auctions[u]
    OBVIOUS
  <2>2. Agrees(b, SeenAs(a))
    BY <1>1, <1>2, <2>1 DEF LeadsOn
  <2>3. Diff!Live(u) <=> SeenAs(a) # Null
    <3>1. a # Null => a.data # Null
      BY <1>2, <2>1 DEF DiffInv, KeptAll, KeptFor, IsKnown, DiffAssumption
    <3> QED
      BY <2>1, <3>1 DEF Diff!Live, SeenAs
  <2>4. Diff!Dumped(u) <=> (b # Null /\ b.status # "Added")
    BY <2>1 DEF Diff!Dumped
  <2>5. Diff!Live(u) => SeenAs(a) = a.data
    BY <2>1 DEF Diff!Live, SeenAs
  <2> QED
    BY <2>1, <2>2, <2>3, <2>4, <2>5 DEF Agrees
<1>3. Diff!Grace
  BY DEF DiffInv, KeptAll, KeptFor, Diff!Grace, Diff!Live
<1> QED
  BY <1>2, <1>3 DEF Diff!InStep, Diff!InSync, Diff!SameData

(* Once it has parsed every dump, the parser has exactly the auctions of the     *)
(* monitor's last dump, with their data, although it was given only differences  *)
(* and whatever a scan missed or saw twice, across restarts of either program;   *)
(* an auction that is away is kept for four dumps and purged with the next.      *)
THEOREM InStepCorrect ==
  ASSUME DiffAssumption
  PROVE  Diff!Spec => []Diff!InStep
<1>1. Diff!Init => DiffInv
  BY DiffStarts
<1>2. DiffInv /\ [Diff!Next]_Diff!vars => DiffInv'
  BY DiffSteps
<1>3. DiffInv => Diff!InStep
  BY DiffInvInStep
<1> QED
  BY <1>1, <1>2, <1>3, PTL DEF Diff!Spec

-----------------------------------------------------------------------------
(* The bytes of a connection and its packets                                *)

CONSTANTS Sizes, HeaderSize, MaxPacketSize, MaxSent, MaxConnections

VARIABLES sent, wire, recvBuffer, currentMessageSize, discardPacket, inLoop, got,
          connections, residue

Framing == INSTANCE PacketFraming WITH MaxPackets <- MaxSent

FramingAssumption ==
  /\ HeaderSize \in Nat \ {0} /\ MaxPacketSize \in Nat /\ Sizes \subseteq Nat

Bits == Nat \X Nat

Whole(n) == Framing!Larger(n, HeaderSize)

\* The bytes b go on with the packets of s from cur on: a packet p begins behind
\* place off[p], which is before the first byte when a part of p is read already.
StreamOf(b, s, cur, off) ==
  /\ cur \in 1 .. Len(s) + 1
  /\ off \in [1 .. Len(s) + 1 -> Int]
  /\ Len(b) = off[Len(s) + 1]
  /\ \A p, q \in cur .. Len(s) + 1 : p <= q => off[p] <= off[q]
  /\ \A p \in cur .. Len(s) : off[p + 1] = off[p] + Whole(s[p])
  /\ \A p \in cur .. Len(s) : \A k \in 1 .. Whole(s[p]) : off[p] + k >= 1 => b[off[p] + k] = <<p, k>>

\* Where the reader is: in front of packet cur, or behind its header with size
\* bytes of it to come.
Reads(s, cur, off, size, discard) ==
  /\ size = 0 => off[cur] = 0
  /\ size # 0 =>
       /\ cur <= Len(s) /\ off[cur + 1] = size /\ s[cur] > HeaderSize
       /\ discard = (s[cur] > MaxPacketSize)
       /\ ~discard => off[cur] = 0 - HeaderSize

Passes(s, p) == HeaderSize < s[p] /\ s[p] <= MaxPacketSize

\* What was dispatched are the packets before cur that pass.
Told(g, s, cur) ==
  /\ \A k \in 1 .. Len(g) : g[k] \in 1 .. Len(s) /\ Passes(s, g[k]) /\ g[k] < cur
  /\ \A j, k \in 1 .. Len(g) : j < k => g[j] < g[k]
  /\ \A p \in 1 .. Len(s) : Passes(s, p) /\ p < cur => \E k \in 1 .. Len(g) : g[k] = p

FramingTypes ==
  /\ sent \in Seq(Nat) /\ wire \in Seq(Bits) /\ recvBuffer \in Seq(Bits) /\ got \in Seq(Nat)
  /\ currentMessageSize \in Nat /\ discardPacket \in BOOLEAN
  /\ inLoop \in BOOLEAN /\ residue \in BOOLEAN

\* The loop ends when the rest of a header or of a packet is not there.
Awaits(size, available) == available < IF size = 0 THEN HeaderSize ELSE size

Following(r, w, s, g, size, discard) ==
  \E cur, off :
    /\ StreamOf(r \o w, s, cur, off)
    /\ Reads(s, cur, off, size, discard)
    /\ Told(g, s, cur)

FramingInv ==
  /\ FramingTypes
  /\ ~residue =>
       /\ ~inLoop => Awaits(currentMessageSize, Len(recvBuffer))
       /\ Following(recvBuffer, wire, sent, got, currentMessageSize, discardPacket)

LEMMA WholeType ==
  ASSUME FramingAssumption, NEW n \in Nat
  PROVE  /\ Whole(n) \in Nat /\ HeaderSize <= Whole(n) /\ n <= Whole(n)
         /\ Whole(n) = IF n > HeaderSize THEN n ELSE HeaderSize
  BY DEF FramingAssumption, Whole, Framing!Larger

\* Bytes are taken from the front, and the packets before c with them.
LEMMA StreamDropped ==
  ASSUME FramingAssumption,
         NEW b \in Seq(Bits), NEW s \in Seq(Nat), NEW cur, NEW off, StreamOf(b, s, cur, off),
         NEW n \in 0 .. Len(b), NEW c \in cur .. Len(s) + 1
  PROVE  /\ SubSeq(b, n + 1, Len(b)) \in Seq(Bits)
         /\ Len(SubSeq(b, n + 1, Len(b))) = Len(b) - n
         /\ StreamOf(SubSeq(b, n + 1, Len(b)), s, c, [p \in 1 .. Len(s) + 1 |-> off[p] - n])
<1>0. n \in Int /\ 0 <= n /\ Len(b) \in Int
  OBVIOUS
<1>1. PICK rest : rest = SubSeq(b, n + 1, Len(b))
  OBVIOUS
<1>2. /\ rest \in Seq(Bits) /\ Len(rest) = Len(b) - n
      /\ \A i \in 1 .. Len(b) - n : rest[i] = b[n + i]
  <2>1. Len(b) \in Nat /\ n \in Int /\ n + 1 \in Int /\ n <= Len(b)
    OBVIOUS
  <2>2. \A i \in n + 1 .. Len(b) : b[i] \in Bits
    BY <2>1
  <2>3. /\ rest \in Seq(Bits) /\ Len(rest) = IF n + 1 <= Len(b) THEN Len(b) - (n + 1) + 1 ELSE 0
        /\ \A i \in 1 .. Len(b) - (n + 1) + 1 : rest[i] = b[(n + 1) + i - 1]
    BY <1>1, <2>1, <2>2, SubSeqProperties
  <2>4. ASSUME NEW i \in 1 .. Len(b) - n PROVE rest[i] = b[n + i]
    <3>1. i \in 1 .. Len(b) - (n + 1) + 1 /\ (n + 1) + i - 1 = n + i
      BY <2>1
    <3> QED
      BY <2>3, <3>1
  <2> QED
    BY <2>1, <2>3, <2>4
<1>3. PICK new : new = [p \in 1 .. Len(s) + 1 |-> off[p] - n]
  OBVIOUS
<1>4. /\ cur \in 1 .. Len(s) + 1 /\ Len(s) \in Nat /\ off \in [1 .. Len(s) + 1 -> Int]
      /\ new \in [1 .. Len(s) + 1 -> Int] /\ \A p \in 1 .. Len(s) + 1 : new[p] = off[p] - n
  BY <1>3 DEF StreamOf
<1>5. c \in 1 .. Len(s) + 1 /\ Len(rest) = new[Len(s) + 1]
  BY <1>2, <1>4 DEF StreamOf
<1>6. \A p, q \in c .. Len(s) + 1 : p <= q => new[p] <= new[q]
  <2> SUFFICES ASSUME NEW p \in c .. Len(s) + 1, NEW q \in c .. Len(s) + 1, p <= q PROVE new[p] <= new[q]
    OBVIOUS
  <2>1. p \in cur .. Len(s) + 1 /\ q \in cur .. Len(s) + 1 /\ p \in 1 .. Len(s) + 1 /\ q \in 1 .. Len(s) + 1
    BY <1>4
  <2>2. off[p] <= off[q]
    BY <2>1 DEF StreamOf
  <2>3. off[p] \in Int /\ off[q] \in Int /\ new[p] = off[p] - n /\ new[q] = off[q] - n
    BY <1>4, <2>1
  <2> QED
    BY <1>0, <2>2, <2>3
<1>7. \A p \in c .. Len(s) : new[p + 1] = new[p] + Whole(s[p])
  <2> SUFFICES ASSUME NEW p \in c .. Len(s) PROVE new[p + 1] = new[p] + Whole(s[p])
    OBVIOUS
  <2>1. p \in cur .. Len(s) /\ p \in 1 .. Len(s) + 1 /\ p + 1 \in 1 .. Len(s) + 1 /\ s[p] \in Nat
    BY <1>4
  <2>2. off[p + 1] = off[p] + Whole(s[p]) /\ off[p] \in Int /\ off[p + 1] \in Int
    BY <1>4, <2>1 DEF StreamOf
  <2>3. PICK size \in Nat : size = Whole(s[p])
    BY <2>1, WholeType
  <2>4. new[p] = off[p] - n /\ new[p + 1] = off[p + 1] - n
    BY <1>4, <2>1
  <2> QED
    BY <2>2, <2>3, <2>4
<1>8. ASSUME NEW p \in c .. Len(s), NEW k \in 1 .. Whole(s[p]), new[p] + k >= 1
      PROVE  rest[new[p] + k] = <<p, k>>
  <2>1. p \in cur .. Len(s) /\ p \in 1 .. Len(s) + 1 /\ p + 1 \in 1 .. Len(s) + 1 /\ s[p] \in Nat
        /\ p + 1 \in cur .. Len(s) + 1 /\ Len(s) + 1 \in cur .. Len(s) + 1 /\ p + 1 <= Len(s) + 1
    BY <1>4
  <2>2. PICK size \in Nat : size = Whole(s[p])
    BY <2>1, WholeType
  <2>3. PICK o \in Int, o2 \in Int : o = off[p] /\ o2 = off[p + 1]
    BY <1>4, <2>1
  <2>4. o2 = o + size /\ o2 <= Len(b) /\ new[p] = o - n
    <3>1. off[p + 1] = off[p] + Whole(s[p]) /\ off[p + 1] <= off[Len(s) + 1] /\ Len(b) = off[Len(s) + 1]
      BY <2>1 DEF StreamOf
    <3> QED
      BY <1>4, <2>1, <2>2, <2>3, <3>1
  <2>5. k \in 1 .. size
    BY <2>2
  <2>6. o - n + k >= 1
    BY <1>8, <2>4
  <2>7. /\ o + k >= 1 /\ o - n + k \in 1 .. Len(b) - n /\ n + (o - n + k) = o + k
    <3>1. PICK z \in Int : z = Len(b)
      BY <1>0
    <3>2. k \in Int /\ k <= size
      BY <2>5
    <3>3. o + k <= z
      BY <2>3, <2>4, <3>1, <3>2, SMTT(30)
    <3>4. PICK n0 \in Int, k0 \in Int : n0 = n /\ k0 = k /\ 0 <= n0
      BY <1>0, <3>2
    <3>5. o - n0 + k0 >= 1 /\ o + k0 <= z
      BY <2>6, <3>3, <3>4
    <3>6. o + k0 >= 1 /\ o - n0 + k0 \in 1 .. z - n0 /\ n0 + (o - n0 + k0) = o + k0
      BY <3>4, <3>5
    <3> QED
      BY <3>1, <3>4, <3>6
  <2>8. b[off[p] + k] = <<p, k>>
    BY <2>1, <2>3, <2>7 DEF StreamOf
  <2>9. PICK i \in 1 .. Len(b) - n : i = o - n + k /\ n + i = o + k
    BY <2>7
  <2>10. rest[i] = b[n + i]
    BY <1>2
  <2>11. new[p] + k = i
    BY <2>4, <2>9
  <2> QED
    BY <2>3, <2>8, <2>9, <2>10, <2>11
<1> QED
  BY <1>1, <1>2, <1>3, <1>4, <1>5, <1>6, <1>7, <1>8 DEF StreamOf

\* The bytes b have the packets of t, and those of s where they were.
Extended(b, t, s, cur, off) ==
  \E new : StreamOf(b, t, cur, new) /\ \A p \in 1 .. Len(s) + 1 : new[p] = off[p]

\* One more packet is behind the others.
LEMMA StreamExtended ==
  ASSUME FramingAssumption,
         NEW b \in Seq(Bits), NEW s \in Seq(Nat), NEW cur, NEW off, StreamOf(b, s, cur, off),
         NEW n \in Nat
  PROVE  /\ Framing!Bytes(Len(s) + 1, n) \in Seq(Bits)
         /\ Append(s, n) \in Seq(Nat)
         /\ Extended(b \o Framing!Bytes(Len(s) + 1, n), Append(s, n), s, cur, off)
<1>1. PICK m \in Nat, size \in Nat : m = Len(s) + 1 /\ size = Whole(n)
  <2>1. Whole(n) \in Nat /\ Len(s) + 1 \in Nat
    BY WholeType
  <2> QED
    BY <2>1
<1>2. PICK more : more = Framing!Bytes(Len(s) + 1, n)
  OBVIOUS
<1>3. more = [k \in 1 .. size |-> <<m, k>>]
  BY <1>1, <1>2 DEF Framing!Bytes, Whole
<1>4. more \in Seq(Bits) /\ Len(more) = size /\ \A k \in 1 .. size : more[k] = <<m, k>>
  <2>1. \A k \in 1 .. size : <<m, k>> \in Bits
    BY DEF Bits
  <2>2. more \in [1 .. size -> Bits]
    BY <1>3, <2>1
  <2> QED
    BY <1>3, <2>2, SeqDef
<1>5. PICK t : t = Append(s, n)
  OBVIOUS
<1>6. t \in Seq(Nat) /\ Len(t) = m /\ t[m] = n /\ \A p \in 1 .. m - 1 : t[p] = s[p]
  BY <1>1, <1>5
<1>7. PICK new : new = [p \in 1 .. m + 1 |-> IF p <= m THEN off[p] ELSE off[m] + size]
  OBVIOUS
<1>8. cur \in 1 .. m /\ off \in [1 .. m -> Int] /\ off[m] = Len(b) /\ off[m] \in Int /\ m \in 1 .. m
  BY <1>1 DEF StreamOf
<1>9. /\ new \in [1 .. m + 1 -> Int] /\ new[m + 1] = Len(b) + size
      /\ \A p \in 1 .. m : new[p] = off[p]
  <2>1. \A p \in 1 .. m + 1 : p <= m => off[p] \in Int
    BY <1>8
  <2>2. \A p \in 1 .. m : p \in 1 .. m + 1 /\ p <= m
    OBVIOUS
  <2>3. m + 1 \in 1 .. m + 1 /\ ~(m + 1 <= m)
    OBVIOUS
  <2> QED
    BY <1>7, <1>8, <2>1, <2>2, <2>3
<1>10. PICK all : all = b \o more
  OBVIOUS
<1>11. /\ all \in Seq(Bits) /\ Len(all) = Len(b) + size
       /\ \A i \in 1 .. Len(b) : all[i] = b[i]
       /\ \A k \in 1 .. size : all[Len(b) + k] = more[k]
  <2>1. /\ all \in Seq(Bits) /\ Len(all) = Len(b) + Len(more)
        /\ \A i \in 1 .. Len(b) + Len(more) : all[i] = IF i <= Len(b) THEN b[i] ELSE more[i - Len(b)]
    BY <1>4, <1>10, ConcatProperties
  <2>2. PICK n1 \in Nat : n1 = Len(b)
    OBVIOUS
  <2>3. ASSUME NEW k \in 1 .. size PROVE all[n1 + k] = more[k]
    <3>1. n1 + k \in 1 .. n1 + size /\ ~(n1 + k <= n1) /\ (n1 + k) - n1 = k
      OBVIOUS
    <3> QED
      BY <1>4, <2>1, <2>2, <3>1
  <2>4. ASSUME NEW i \in 1 .. n1 PROVE all[i] = b[i]
    <3>1. i \in 1 .. n1 + size /\ i <= n1
      OBVIOUS
    <3> QED
      BY <1>4, <2>1, <2>2, <3>1
  <2> QED
    BY <1>4, <2>1, <2>2, <2>3, <2>4
<1>12. \A p, q \in cur .. m + 1 : p <= q => new[p] <= new[q]
  <2> SUFFICES ASSUME NEW p \in cur .. m + 1, NEW q \in cur .. m + 1, p <= q PROVE new[p] <= new[q]
    OBVIOUS
  <2>1. CASE q <= m
    <3>1. p \in cur .. m /\ q \in cur .. m /\ p \in 1 .. m /\ q \in 1 .. m
      BY <1>8, <2>1
    <3>2. off[p] <= off[q]
      BY <1>1, <3>1 DEF StreamOf
    <3> QED
      BY <1>9, <3>1, <3>2
  <2>2. CASE q = m + 1 /\ p = m + 1
    BY <1>9, <2>2
  <2>3. CASE q = m + 1 /\ p <= m
    <3>1. p \in cur .. m /\ m \in cur .. m /\ p \in 1 .. m
      BY <1>8, <2>3
    <3>2. off[p] \in Int
      BY <1>8, <3>1
    <3>4. off[p] <= off[m]
      BY <1>1, <2>3, <3>1 DEF StreamOf
    <3>3. new[p] = off[p]
      BY <1>9, <3>1
    <3> QED
      BY <1>8, <1>9, <2>3, <3>2, <3>3, <3>4
  <2> QED
    BY <1>8, <2>1, <2>2, <2>3
<1>13. ASSUME NEW p \in cur .. m
       PROVE  /\ new[p + 1] = new[p] + Whole(t[p])
              /\ \A k \in 1 .. Whole(t[p]) : new[p] + k >= 1 => all[new[p] + k] = <<p, k>>
  <2>1. CASE p = m
    <3>1. t[p] = n /\ new[p] = Len(b)
      BY <1>6, <1>8, <1>9, <2>1
    <3>2. new[p + 1] = new[p] + Whole(t[p])
      BY <1>1, <1>9, <2>1, <3>1
    <3>3. ASSUME NEW k \in 1 .. Whole(t[p]) PROVE all[new[p] + k] = <<p, k>>
      <4>1. k \in 1 .. size
        BY <1>1, <3>1
      <4> QED
        BY <1>4, <1>11, <2>1, <3>1, <4>1
    <3> QED
      BY <3>2, <3>3
  <2>2. CASE p # m
    <3>1. p \in cur .. Len(s) /\ p \in 1 .. m /\ p + 1 \in 1 .. m /\ p \in 1 .. m - 1
          /\ p + 1 \in cur .. m /\ p + 1 <= m /\ m \in cur .. m
      BY <1>1, <1>8, <2>2
    <3>2. t[p] = s[p] /\ new[p] = off[p] /\ new[p + 1] = off[p + 1]
      BY <1>6, <1>9, <3>1
    <3>3. off[p + 1] = off[p] + Whole(s[p]) /\ off[p + 1] <= off[m]
      BY <1>1, <3>1 DEF StreamOf
    <3>4. ASSUME NEW k \in 1 .. Whole(t[p]), new[p] + k >= 1 PROVE all[new[p] + k] = <<p, k>>
      <4>0. s[p] \in Nat
        BY <1>1, <3>1
      <4>1. PICK w \in Nat : w = Whole(s[p])
        BY <4>0, WholeType
      <4>2. PICK o \in Int : o = off[p]
        BY <1>8, <3>1
      <4>3. k \in 1 .. w
        BY <3>2, <4>1
      <4>4. o + k >= 1 /\ o + w <= Len(b)
        BY <1>8, <3>2, <3>3, <3>4, <4>1, <4>2
      <4>5. b[off[p] + k] = <<p, k>>
        BY <3>1, <3>2, <4>2, <4>4 DEF StreamOf
      <4>6. PICK i \in 1 .. Len(b) : i = o + k
        BY <4>3, <4>4
      <4> QED
        BY <1>11, <3>2, <4>2, <4>5, <4>6
    <3> QED
      BY <3>2, <3>3, <3>4
  <2> QED
    BY <2>1, <2>2
<1>14. StreamOf(all, t, cur, new)
  <2>1. cur \in 1 .. m + 1
    BY <1>8
  <2>2. Len(all) = new[m + 1]
    BY <1>9, <1>11
  <2> QED
    BY <1>6, <1>9, <1>12, <1>13, <2>1, <2>2 DEF StreamOf
<1> QED
  BY <1>1, <1>2, <1>4, <1>5, <1>6, <1>9, <1>10, <1>14 DEF Extended

-----------------------------------------------------------------------------
(* Chunks and packets                                                       *)

\* The two parts in which a sequence of bytes is cut.
LEMMA BytesCut ==
  ASSUME NEW b \in Seq(Bits), NEW l, l = Len(b), NEW n \in Nat, n <= l
  PROVE  /\ SubSeq(b, 1, n) \in Seq(Bits) /\ Len(SubSeq(b, 1, n)) = n
         /\ \A i \in 1 .. n : SubSeq(b, 1, n)[i] = b[i]
         /\ SubSeq(b, n + 1, l) \in Seq(Bits) /\ Len(SubSeq(b, n + 1, l)) = l - n
         /\ \A i \in 1 .. l - n : SubSeq(b, n + 1, l)[i] = b[n + i]
<1>1. l \in Nat /\ n \in Int /\ 1 \in Int /\ n + 1 \in Int /\ l \in Int
  OBVIOUS
<1>2. (\A i \in 1 .. n : b[i] \in Bits) /\ (\A i \in n + 1 .. l : b[i] \in Bits)
  BY <1>1
<1>3. /\ SubSeq(b, 1, n) \in Seq(Bits) /\ Len(SubSeq(b, 1, n)) = IF 1 <= n THEN n - 1 + 1 ELSE 0
      /\ \A i \in 1 .. n - 1 + 1 : SubSeq(b, 1, n)[i] = b[1 + i - 1]
  BY <1>1, <1>2, SubSeqProperties
<1>4. /\ SubSeq(b, n + 1, l) \in Seq(Bits)
      /\ Len(SubSeq(b, n + 1, l)) = IF n + 1 <= l THEN l - (n + 1) + 1 ELSE 0
      /\ \A i \in 1 .. l - (n + 1) + 1 : SubSeq(b, n + 1, l)[i] = b[(n + 1) + i - 1]
  BY <1>1, <1>2, SubSeqProperties
<1>5. n - 1 + 1 = n /\ l - (n + 1) + 1 = l - n
  BY <1>1
<1>6. \A i \in 1 .. n : SubSeq(b, 1, n)[i] = b[i]
  <2>1. ASSUME NEW i \in 1 .. n PROVE SubSeq(b, 1, n)[i] = b[i]
    <3>1. i \in 1 .. n - 1 + 1 /\ 1 + i - 1 = i
      BY <1>1
    <3> QED
      BY <1>3, <3>1
  <2> QED
    BY <2>1
<1>7. \A i \in 1 .. l - n : SubSeq(b, n + 1, l)[i] = b[n + i]
  <2>1. ASSUME NEW i \in 1 .. l - n PROVE SubSeq(b, n + 1, l)[i] = b[n + i]
    <3>1. i \in 1 .. l - (n + 1) + 1 /\ (n + 1) + i - 1 = n + i
      BY <1>1
    <3> QED
      BY <1>4, <3>1
  <2> QED
    BY <2>1
<1>8. Len(SubSeq(b, 1, n)) = n
  BY <1>1, <1>3, <1>5
<1>9. Len(SubSeq(b, n + 1, l)) = l - n
  BY <1>1, <1>4, <1>5
<1> QED
  BY <1>3, <1>4, <1>6, <1>7, <1>8, <1>9

\* Two sequences of bytes, one behind the other.
LEMMA BytesJoined ==
  ASSUME NEW a \in Seq(Bits), NEW b \in Seq(Bits), NEW k, k = Len(a), NEW l, l = Len(b)
  PROVE  /\ k \in Nat /\ l \in Nat /\ a \o b \in Seq(Bits) /\ Len(a \o b) = k + l
         /\ \A i \in 1 .. k : (a \o b)[i] = a[i]
         /\ \A i \in 1 .. l : (a \o b)[k + i] = b[i]
<1>1. k \in Nat /\ l \in Nat
  OBVIOUS
<1>2. /\ a \o b \in Seq(Bits) /\ Len(a \o b) = k + l
      /\ \A i \in 1 .. k + l : (a \o b)[i] = IF i <= k THEN a[i] ELSE b[i - k]
  BY ConcatProperties
<1>3. ASSUME NEW i \in 1 .. k PROVE (a \o b)[i] = a[i]
  <2>1. i \in 1 .. k + l /\ i <= k
    BY <1>1
  <2> QED
    BY <1>2, <2>1
<1>4. ASSUME NEW i \in 1 .. l PROVE (a \o b)[k + i] = b[i]
  <2>1. k + i \in 1 .. k + l /\ ~(k + i <= k) /\ (k + i) - k = i
    BY <1>1
  <2> QED
    BY <1>2, <2>1
<1> QED
  BY <1>1, <1>2, <1>3, <1>4

\* A chunk that arrives changes nothing in the bytes that are to be read.
LEMMA BytesMoved ==
  ASSUME NEW r \in Seq(Bits), NEW w \in Seq(Bits), NEW n \in Nat, n <= Len(w)
  PROVE  /\ r \o SubSeq(w, 1, n) \in Seq(Bits) /\ SubSeq(w, n + 1, Len(w)) \in Seq(Bits)
         /\ (r \o SubSeq(w, 1, n)) \o SubSeq(w, n + 1, Len(w)) = r \o w
<1>1. PICK k, l : k = Len(r) /\ l = Len(w)
  OBVIOUS
<1>2. PICK first, second : first = SubSeq(w, 1, n) /\ second = SubSeq(w, n + 1, l)
  OBVIOUS
<1>3. /\ first \in Seq(Bits) /\ n = Len(first) /\ \A i \in 1 .. n : first[i] = w[i]
      /\ second \in Seq(Bits) /\ l - n = Len(second) /\ \A i \in 1 .. l - n : second[i] = w[n + i]
  <2>1. n <= l /\ w \in Seq(Bits) /\ l = Len(w) /\ n \in Nat
    BY <1>1
  <2>2. /\ SubSeq(w, 1, n) \in Seq(Bits) /\ Len(SubSeq(w, 1, n)) = n
        /\ \A i \in 1 .. n : SubSeq(w, 1, n)[i] = w[i]
        /\ SubSeq(w, n + 1, l) \in Seq(Bits) /\ Len(SubSeq(w, n + 1, l)) = l - n
        /\ \A i \in 1 .. l - n : SubSeq(w, n + 1, l)[i] = w[n + i]
    BY <2>1, BytesCut, SMTT(30)
  <2> QED
    BY <1>2, <2>2
<1>4. PICK front : front = r \o first
  OBVIOUS
<1>5. /\ k \in Nat /\ front \in Seq(Bits) /\ k + n = Len(front)
      /\ \A i \in 1 .. k : front[i] = r[i]
      /\ \A i \in 1 .. n : front[k + i] = first[i]
  <2>1. first \in Seq(Bits) /\ n = Len(first)
    BY <1>3
  <2>2. /\ k \in Nat /\ r \o first \in Seq(Bits) /\ Len(r \o first) = k + n
        /\ \A i \in 1 .. k : (r \o first)[i] = r[i]
        /\ \A i \in 1 .. n : (r \o first)[k + i] = first[i]
    BY <1>1, <2>1, BytesJoined
  <2> QED
    BY <1>4, <2>2
<1>6. PICK all, whole : all = front \o second /\ whole = r \o w
  OBVIOUS
<1>7. /\ all \in Seq(Bits) /\ Len(all) = (k + n) + (l - n)
      /\ \A i \in 1 .. k + n : all[i] = front[i]
      /\ \A i \in 1 .. l - n : all[(k + n) + i] = second[i]
  <2>1. PICK f, s : f = k + n /\ s = l - n
    OBVIOUS
  <2>2. front \in Seq(Bits) /\ second \in Seq(Bits) /\ f = Len(front) /\ s = Len(second)
    BY <1>3, <1>5, <2>1
  <2>3. /\ front \o second \in Seq(Bits) /\ Len(front \o second) = f + s
        /\ \A i \in 1 .. f : (front \o second)[i] = front[i]
        /\ \A i \in 1 .. s : (front \o second)[f + i] = second[i]
    BY <2>2, BytesJoined
  <2> QED
    BY <1>6, <2>1, <2>3
<1>8. /\ l \in Nat /\ whole \in Seq(Bits) /\ Len(whole) = k + l
      /\ \A i \in 1 .. k : whole[i] = r[i]
      /\ \A i \in 1 .. l : whole[k + i] = w[i]
  BY <1>1, <1>6, BytesJoined
<1>9. n <= l /\ (k + n) + (l - n) = k + l
  BY <1>1, <1>5, <1>8
<1>10. ASSUME NEW i \in 1 .. k + l PROVE all[i] = whole[i]
  <2>1. CASE i <= k
    <3>1. i \in 1 .. k /\ i \in 1 .. k + n
      BY <1>5, <1>8, <2>1
    <3> QED
      BY <1>5, <1>7, <1>8, <3>1
  <2>2. CASE i > k /\ i <= k + n
    <3>1. PICK j \in 1 .. n : i = k + j
      <4>1. i - k \in 1 .. n /\ i = k + (i - k)
        BY <1>5, <1>8, <2>2
      <4> QED
        BY <4>1
    <3>2. i \in 1 .. k + n /\ j \in 1 .. l
      BY <1>5, <1>8, <1>9, <2>2
    <3>3. all[i] = front[k + j] /\ front[k + j] = first[j] /\ first[j] = w[j]
      BY <1>3, <1>5, <1>7, <3>1, <3>2
    <3>4. whole[k + j] = w[j]
      BY <1>8, <3>2
    <3> QED
      BY <3>1, <3>3, <3>4
  <2>3. CASE i > k + n
    <3>1. PICK j \in 1 .. l - n : i = (k + n) + j
      <4>1. i - (k + n) \in 1 .. l - n /\ i = (k + n) + (i - (k + n))
        BY <1>5, <1>8, <2>3
      <4> QED
        BY <4>1
    <3>2. n + j \in 1 .. l /\ (k + n) + j = k + (n + j)
      BY <1>5, <1>8, <1>9
    <3>3. all[i] = second[j] /\ second[j] = w[n + j]
      BY <1>3, <1>7, <3>1
    <3>4. whole[k + (n + j)] = w[n + j]
      BY <1>8, <3>2
    <3> QED
      BY <3>1, <3>2, <3>3, <3>4
  <2> QED
    BY <1>5, <1>8, <2>1, <2>2, <2>3
<1>11. all = whole
  BY <1>7, <1>8, <1>9, <1>10, SeqEqual
<1> QED
  BY <1>1, <1>2, <1>3, <1>4, <1>5, <1>6, <1>11

\* Bytes that are taken out of the buffer are the first of those to be read.
LEMMA BytesTaken ==
  ASSUME NEW r \in Seq(Bits), NEW w \in Seq(Bits), NEW n \in Nat, n <= Len(r)
  PROVE  /\ SubSeq(r, n + 1, Len(r)) \in Seq(Bits) /\ Len(SubSeq(r, n + 1, Len(r))) = Len(r) - n
         /\ n \in 0 .. Len(r \o w)
         /\ SubSeq(r, n + 1, Len(r)) \o w = SubSeq(r \o w, n + 1, Len(r \o w))
<1>1. PICK k, l : k = Len(r) /\ l = Len(w)
  OBVIOUS
<1>2. PICK whole : whole = r \o w
  OBVIOUS
<1>3. /\ k \in Nat /\ l \in Nat /\ whole \in Seq(Bits) /\ Len(whole) = k + l
      /\ \A i \in 1 .. k : whole[i] = r[i]
      /\ \A i \in 1 .. l : whole[k + i] = w[i]
  BY <1>1, <1>2, BytesJoined
<1>4. PICK rest, part, m : rest = SubSeq(r, n + 1, k) /\ m = k + l /\ part = SubSeq(whole, n + 1, m)
  OBVIOUS
<1>5. n <= k /\ n <= m /\ m \in Nat /\ (k - n) + l = m - n /\ m = Len(whole)
  BY <1>1, <1>3, <1>4
<1>6. /\ rest \in Seq(Bits) /\ k - n = Len(rest)
      /\ \A i \in 1 .. k - n : rest[i] = r[n + i]
  <2>1. n <= k /\ r \in Seq(Bits) /\ k = Len(r) /\ n \in Nat
    BY <1>1, <1>5
  <2>2. /\ SubSeq(r, n + 1, k) \in Seq(Bits) /\ Len(SubSeq(r, n + 1, k)) = k - n
        /\ \A i \in 1 .. k - n : SubSeq(r, n + 1, k)[i] = r[n + i]
    BY <2>1, BytesCut, SMTT(30)
  <2> QED
    BY <1>4, <2>2
<1>7. /\ part \in Seq(Bits) /\ Len(part) = m - n
      /\ \A i \in 1 .. m - n : part[i] = whole[n + i]
  BY <1>3, <1>4, <1>5, BytesCut, SMTT(30)
<1>8. PICK both : both = rest \o w
  OBVIOUS
<1>9. /\ both \in Seq(Bits) /\ Len(both) = (k - n) + l
      /\ \A i \in 1 .. k - n : both[i] = rest[i]
      /\ \A i \in 1 .. l : both[(k - n) + i] = w[i]
  <2>1. PICK f : f = k - n
    OBVIOUS
  <2>2. rest \in Seq(Bits) /\ f = Len(rest)
    BY <1>6, <2>1
  <2>3. /\ rest \o w \in Seq(Bits) /\ Len(rest \o w) = f + l
        /\ \A i \in 1 .. f : (rest \o w)[i] = rest[i]
        /\ \A i \in 1 .. l : (rest \o w)[f + i] = w[i]
    BY <1>1, <2>2, BytesJoined
  <2> QED
    BY <1>8, <2>1, <2>3
<1>10. ASSUME NEW i \in 1 .. m - n PROVE both[i] = part[i]
  <2>1. CASE i <= k - n
    <3>1. i \in 1 .. k - n /\ n + i \in 1 .. k
      BY <1>3, <1>5, <2>1
    <3> QED
      BY <1>3, <1>6, <1>7, <1>9, <3>1
  <2>2. CASE i > k - n
    <3>1. PICK j \in 1 .. l : i = (k - n) + j
      <4>1. i - (k - n) \in 1 .. l /\ i = (k - n) + (i - (k - n))
        BY <1>3, <1>5, <2>2
      <4> QED
        BY <4>1
    <3>2. n + i = k + j
      BY <1>3, <1>5, <3>1
    <3> QED
      BY <1>3, <1>7, <1>9, <3>1, <3>2
  <2> QED
    BY <1>3, <1>5, <2>1, <2>2
<1>11. both = part
  BY <1>5, <1>7, <1>9, <1>10, SeqEqual
<1>12. n \in 0 .. m
  BY <1>5
<1> QED
  BY <1>1, <1>2, <1>3, <1>4, <1>5, <1>6, <1>8, <1>11, <1>12

\* The packets of s from c on are in the bytes b, n places before where they were.
Shifted(b, s, c, off, n) ==
  \E new : StreamOf(b, s, c, new) /\ \A p \in 1 .. Len(s) + 1 : new[p] = off[p] - n

\* The reader takes n bytes and goes on with packet c.
LEMMA Taken ==
  ASSUME FramingAssumption,
         NEW r \in Seq(Bits), NEW w \in Seq(Bits), NEW s \in Seq(Nat),
         NEW cur, NEW off, StreamOf(r \o w, s, cur, off),
         NEW n \in Nat, n <= Len(r), NEW c \in cur .. Len(s) + 1
  PROVE  Shifted(SubSeq(r, n + 1, Len(r)) \o w, s, c, off, n)
<1>1. PICK all : all = r \o w
  OBVIOUS
<1>2. all \in Seq(Bits)
  BY <1>1
<1>3. n \in 0 .. Len(all) /\ SubSeq(r, n + 1, Len(r)) \o w = SubSeq(all, n + 1, Len(all))
  BY <1>1, BytesTaken
<1>4. StreamOf(all, s, cur, off)
  BY <1>1
<1>5. PICK new : new = [p \in 1 .. Len(s) + 1 |-> off[p] - n]
  OBVIOUS
<1>6. StreamOf(SubSeq(all, n + 1, Len(all)), s, c, [p \in 1 .. Len(s) + 1 |-> off[p] - n])
  BY <1>2, <1>3, <1>4, StreamDropped
<1>7. StreamOf(SubSeq(r, n + 1, Len(r)) \o w, s, c, new)
  BY <1>3, <1>5, <1>6
<1>8. \A p \in 1 .. Len(s) + 1 : new[p] = off[p] - n
  BY <1>5
<1> QED
  BY <1>7, <1>8 DEF Shifted

\* A packet that does not pass is not missed in what was dispatched ...
LEMMA ToldBeyond ==
  ASSUME NEW g, NEW s \in Seq(Nat), NEW cur \in 1 .. Len(s), Told(g, s, cur), ~Passes(s, cur)
  PROVE  Told(g, s, cur + 1)
<1>1. cur \in Int /\ Len(s) \in Nat
  OBVIOUS
<1>2. ASSUME NEW k \in 1 .. Len(g)
      PROVE  g[k] \in 1 .. Len(s) /\ Passes(s, g[k]) /\ g[k] < cur + 1
  <2>1. g[k] \in 1 .. Len(s) /\ Passes(s, g[k]) /\ g[k] < cur
    BY DEF Told
  <2> QED
    BY <1>1, <2>1
<1>3. ASSUME NEW p \in 1 .. Len(s), Passes(s, p), p < cur + 1 PROVE \E k \in 1 .. Len(g) : g[k] = p
  <2>1. p < cur
    BY <1>1, <1>3
  <2> QED
    BY <1>3, <2>1 DEF Told
<1> QED
  BY <1>2, <1>3 DEF Told

\* ... and one that does is the next of it.
LEMMA ToldNext ==
  ASSUME NEW g \in Seq(Nat), NEW s \in Seq(Nat), NEW cur \in 1 .. Len(s), Told(g, s, cur), Passes(s, cur)
  PROVE  Append(g, cur) \in Seq(Nat) /\ Told(Append(g, cur), s, cur + 1)
<1>1. cur \in Nat /\ Len(s) \in Nat /\ Len(g) \in Nat
  OBVIOUS
<1>2. PICK n \in Nat : n = Len(g)
  BY <1>1
<1>3. PICK new : new = Append(g, cur)
  OBVIOUS
<1>4. new \in Seq(Nat) /\ Len(new) = n + 1 /\ new[n + 1] = cur /\ \A k \in 1 .. n : new[k] = g[k]
  BY <1>1, <1>2, <1>3
<1>5. \A k \in 1 .. n : g[k] \in 1 .. Len(s) /\ Passes(s, g[k]) /\ g[k] < cur
  BY <1>2 DEF Told
<1>6. ASSUME NEW k \in 1 .. n + 1
      PROVE  new[k] \in 1 .. Len(s) /\ Passes(s, new[k]) /\ new[k] < cur + 1
  <2>1. CASE k = n + 1
    BY <1>1, <1>4, <2>1
  <2>2. CASE k # n + 1
    <3>1. k \in 1 .. n
      BY <2>2
    <3>2. g[k] \in 1 .. Len(s) /\ Passes(s, g[k]) /\ g[k] < cur
      BY <1>5, <3>1
    <3> QED
      BY <1>1, <1>4, <3>1, <3>2
  <2> QED
    BY <2>1, <2>2
<1>7. ASSUME NEW j \in 1 .. n + 1, NEW k \in 1 .. n + 1, j < k PROVE new[j] < new[k]
  <2>1. j \in 1 .. n
    BY <1>7
  <2>2. CASE k = n + 1
    BY <1>4, <1>5, <2>1, <2>2
  <2>3. CASE k # n + 1
    <3>1. k \in 1 .. n
      BY <2>3
    <3>2. g[j] < g[k]
      BY <1>2, <1>7, <2>1, <3>1 DEF Told
    <3> QED
      BY <1>4, <2>1, <3>1, <3>2
  <2> QED
    BY <2>2, <2>3
<1>8. ASSUME NEW p \in 1 .. Len(s), Passes(s, p), p < cur + 1 PROVE \E k \in 1 .. n + 1 : new[k] = p
  <2>1. CASE p = cur
    <3>1. n + 1 \in 1 .. n + 1
      OBVIOUS
    <3> QED
      BY <1>4, <2>1, <3>1
  <2>2. CASE p # cur
    <3>1. p < cur
      BY <1>1, <1>8, <2>2
    <3>2. PICK k \in 1 .. n : g[k] = p
      BY <1>2, <1>8, <3>1 DEF Told
    <3>3. k \in 1 .. n + 1
      OBVIOUS
    <3> QED
      BY <1>4, <3>2, <3>3
  <2> QED
    BY <2>1, <2>2
<1> QED
  BY <1>3, <1>4, <1>6, <1>7, <1>8 DEF Told

\* A part of a packet that is too big is skipped.
LEMMA Skipped ==
  ASSUME FramingAssumption,
         NEW r \in Seq(Bits), NEW w \in Seq(Bits), NEW s \in Seq(Nat), NEW g,
         NEW size \in Nat, size # 0, Following(r, w, s, g, size, TRUE),
         NEW n \in Nat, n <= size, n <= Len(r)
  PROVE  Following(SubSeq(r, n + 1, Len(r)), w, s, g, size - n, TRUE)
<1>1. PICK cur, off : StreamOf(r \o w, s, cur, off) /\ Reads(s, cur, off, size, TRUE) /\ Told(g, s, cur)
  BY DEF Following
<1>2. /\ cur \in 1 .. Len(s) /\ off[cur + 1] = size /\ s[cur] > HeaderSize /\ s[cur] > MaxPacketSize
  <2>1. cur \in 1 .. Len(s) + 1
    BY <1>1 DEF StreamOf
  <2>2. cur <= Len(s) /\ off[cur + 1] = size /\ s[cur] > HeaderSize /\ TRUE = (s[cur] > MaxPacketSize)
    BY <1>1 DEF Reads
  <2> QED
    BY <2>1, <2>2
<1>3. cur \in cur .. Len(s) + 1 /\ cur + 1 \in cur .. Len(s) + 1 /\ cur + 1 \in 1 .. Len(s) + 1 /\ cur <= Len(s)
  BY <1>2
<1>4. CASE n = size
  <2>1. PICK new : /\ StreamOf(SubSeq(r, n + 1, Len(r)) \o w, s, cur + 1, new)
                   /\ \A p \in 1 .. Len(s) + 1 : new[p] = off[p] - n
    BY <1>1, <1>3, Taken DEF Shifted
  <2>2. new[cur + 1] = 0 /\ size - n = 0
    <3>1. new[cur + 1] = off[cur + 1] - n
      BY <1>3, <2>1
    <3>2. size - n = 0
      BY <1>4
    <3> QED
      BY <1>2, <1>4, <3>1, <3>2
  <2>3. Reads(s, cur + 1, new, size - n, TRUE)
    BY <2>2 DEF Reads
  <2>4. ~Passes(s, cur)
    BY <1>2 DEF Passes, FramingAssumption
  <2>5. Told(g, s, cur + 1)
    BY <1>1, <1>2, <2>4, ToldBeyond
  <2> QED
    BY <2>1, <2>3, <2>5 DEF Following
<1>5. CASE n # size
  <2>1. PICK new : /\ StreamOf(SubSeq(r, n + 1, Len(r)) \o w, s, cur, new)
                   /\ \A p \in 1 .. Len(s) + 1 : new[p] = off[p] - n
    BY <1>1, <1>3, Taken DEF Shifted
  <2>2. new[cur + 1] = size - n /\ size - n # 0
    <3>1. new[cur + 1] = off[cur + 1] - n
      BY <1>3, <2>1
    <3>2. size - n # 0
      BY <1>5
    <3> QED
      BY <1>2, <3>1, <3>2
  <2>3. Reads(s, cur, new, size - n, TRUE)
    BY <1>2, <1>3, <2>2 DEF Reads
  <2> QED
    BY <1>1, <2>1, <2>3 DEF Following
<1> QED
  BY <1>4, <1>5

\* b are the n bytes of packet p behind the first from ones of it.
BytesOf(b, n, p, from) == Len(b) = n /\ \A k \in 1 .. n : b[k] = <<p, from + k>>

\* The bytes that the buffer begins with, as long as they are of the current packet.
LEMMA FrontOfPacket ==
  ASSUME FramingAssumption,
         NEW r \in Seq(Bits), NEW w \in Seq(Bits), NEW s \in Seq(Nat),
         NEW cur \in 1 .. Len(s), NEW off, StreamOf(r \o w, s, cur, off),
         NEW from \in Nat, off[cur] = 0 - from,
         NEW n \in Nat, n <= Len(r), from + n <= Whole(s[cur])
  PROVE  SubSeq(r, 1, n) \in Seq(Bits) /\ BytesOf(SubSeq(r, 1, n), n, cur, from)
<1>1. PICK z, l : z = Len(r) /\ l = Len(w)
  OBVIOUS
<1>2. PICK all : all = r \o w
  OBVIOUS
<1>3. z \in Nat /\ \A i \in 1 .. z : all[i] = r[i]
  BY <1>1, <1>2, BytesJoined
<1>4. s[cur] \in Nat
  OBVIOUS
<1>5. PICK size \in Nat : size = Whole(s[cur])
  BY <1>4, WholeType
<1>6. SubSeq(r, 1, n) \in Seq(Bits) /\ Len(SubSeq(r, 1, n)) = n /\ \A i \in 1 .. n : SubSeq(r, 1, n)[i] = r[i]
  BY <1>1, BytesCut
<1>7. ASSUME NEW k \in 1 .. n PROVE r[k] = <<cur, from + k>>
  <2>1. k \in 1 .. z /\ from + k \in 1 .. size
    BY <1>1, <1>3, <1>5
  <2>2. PICK j \in 1 .. size : j = from + k
    BY <2>1
  <2>3. cur \in cur .. Len(s)
    OBVIOUS
  <2>4. off[cur] + j = k
    BY <2>2
  <2>5. k >= 1
    OBVIOUS
  <2>6. all[off[cur] + j] = <<cur, j>>
    BY <1>2, <1>5, <2>3, <2>4, <2>5 DEF StreamOf
  <2> QED
    BY <1>3, <2>1, <2>2, <2>4, <2>6
<1> QED
  BY <1>6, <1>7 DEF BytesOf

\* A part of a packet that is not empty is of no other.
LEMMA PartNamed ==
  ASSUME NEW b \in Seq(Bits), NEW n \in Nat \ {0}, NEW cur, NEW from \in Nat, BytesOf(b, n, cur, from)
  PROVE  \A p : Framing!PartOf(b, p, from) <=> p = cur
<1>0. Len(b) = n /\ \A k \in 1 .. n : b[k] = <<cur, from + k>>
  BY DEF BytesOf
<1>1. b = [k \in 1 .. n |-> b[k]]
  BY <1>0
<1>2. b = [k \in 1 .. Len(b) |-> <<cur, from + k>>]
  BY <1>0, <1>1
<1>3. ASSUME NEW p, Framing!PartOf(b, p, from) PROVE p = cur
  <2>1. b = [k \in 1 .. n |-> <<p, from + k>>]
    BY <1>0, <1>3 DEF Framing!PartOf
  <2>2. 1 \in 1 .. n
    OBVIOUS
  <2>3. b[1] = <<p, from + 1>> /\ b[1] = <<cur, from + 1>>
    BY <1>0, <2>1, <2>2
  <2> QED
    BY <2>3
<1> QED
  BY <1>2, <1>3 DEF Framing!PartOf

\* What a packet that arrived whole is dispatched as.
Packet(r, s, size) ==
  LET whose == {p \in DOMAIN s :
                  /\ Framing!PartOf(SubSeq(r, 1, size), p, HeaderSize)
                  /\ s[p] = size + HeaderSize}
  IN  IF whose = {} THEN 0 ELSE CHOOSE p \in whose : TRUE

LEMMA PacketType ==
  ASSUME NEW r, NEW s \in Seq(Nat), NEW size PROVE Packet(r, s, size) \in Nat
<1>1. DOMAIN s = 1 .. Len(s) /\ DOMAIN s \subseteq Nat
  OBVIOUS
<1> QED
  BY <1>1 DEF Packet

\* The packet that the reader is in, when the rest of it is there.
LEMMA Dispatched ==
  ASSUME FramingAssumption,
         NEW r \in Seq(Bits), NEW w \in Seq(Bits), NEW s \in Seq(Nat), NEW g \in Seq(Nat),
         NEW size \in Nat, size # 0, Following(r, w, s, g, size, FALSE), size <= Len(r)
  PROVE  Following(SubSeq(r, size + 1, Len(r)), w, s, Append(g, Packet(r, s, size)), 0, FALSE)
<1>1. PICK cur, off : StreamOf(r \o w, s, cur, off) /\ Reads(s, cur, off, size, FALSE) /\ Told(g, s, cur)
  BY DEF Following
<1>2. /\ cur \in 1 .. Len(s) /\ off[cur + 1] = size /\ s[cur] > HeaderSize
      /\ ~(s[cur] > MaxPacketSize) /\ off[cur] = 0 - HeaderSize
  <2>1. cur \in 1 .. Len(s) + 1
    BY <1>1 DEF StreamOf
  <2>2. /\ cur <= Len(s) /\ off[cur + 1] = size /\ s[cur] > HeaderSize
        /\ FALSE = (s[cur] > MaxPacketSize) /\ off[cur] = 0 - HeaderSize
    BY <1>1 DEF Reads
  <2> QED
    BY <2>1, <2>2
<1>3. cur \in cur .. Len(s) + 1 /\ cur + 1 \in cur .. Len(s) + 1 /\ cur + 1 \in 1 .. Len(s) + 1
      /\ cur \in cur .. Len(s) /\ s[cur] \in Nat
  BY <1>2
<1>4. HeaderSize \in Nat /\ MaxPacketSize \in Nat
  BY DEF FramingAssumption
<1>5. Whole(s[cur]) = s[cur] /\ s[cur] = size + HeaderSize
  <2>1. Whole(s[cur]) = s[cur]
    BY <1>2, <1>3, WholeType
  <2>2. off[cur + 1] = off[cur] + Whole(s[cur])
    BY <1>1, <1>3 DEF StreamOf
  <2>3. size = (0 - HeaderSize) + s[cur]
    BY <1>2, <2>1, <2>2
  <2> QED
    BY <1>3, <1>4, <2>1, <2>3, SMTT(30)
<1>6. Passes(s, cur)
  BY <1>2, <1>3, <1>4 DEF Passes
<1>7. PICK body : body = SubSeq(r, 1, size)
  OBVIOUS
<1>8. body \in Seq(Bits) /\ BytesOf(body, size, cur, HeaderSize)
  <2>1. HeaderSize + size <= Whole(s[cur])
    BY <1>3, <1>4, <1>5
  <2>2. size <= Len(r) /\ size \in Nat /\ HeaderSize \in Nat
    BY <1>4
  <2> QED
    BY <1>1, <1>2, <1>7, <2>1, <2>2, FrontOfPacket
<1>9. size \in Nat \ {0} /\ HeaderSize \in Nat
  BY <1>4
<1>10. \A p : Framing!PartOf(body, p, HeaderSize) <=> p = cur
  BY <1>8, <1>9, PartNamed
<1>11. {p \in DOMAIN s : Framing!PartOf(body, p, HeaderSize) /\ s[p] = size + HeaderSize} = {cur}
  BY <1>2, <1>5, <1>10
<1>12. Packet(r, s, size) = cur
  <2>1. PICK whose : whose = {p \in DOMAIN s : Framing!PartOf(body, p, HeaderSize) /\ s[p] = size + HeaderSize}
    OBVIOUS
  <2>2. whose = {cur}
    BY <1>11, <2>1
  <2>3. Packet(r, s, size) = IF whose = {} THEN 0 ELSE CHOOSE p \in whose : TRUE
    BY <1>7, <2>1 DEF Packet
  <2> QED
    BY <2>2, <2>3
<1>13. Told(Append(g, cur), s, cur + 1)
  BY <1>1, <1>2, <1>6, ToldNext
<1>14. PICK new : /\ StreamOf(SubSeq(r, size + 1, Len(r)) \o w, s, cur + 1, new)
                  /\ \A p \in 1 .. Len(s) + 1 : new[p] = off[p] - size
  BY <1>1, <1>3, Taken DEF Shifted
<1>15. new[cur + 1] = 0
  <2>1. new[cur + 1] = off[cur + 1] - size
    BY <1>3, <1>14
  <2> QED
    BY <1>2, <2>1
<1>16. Reads(s, cur + 1, new, 0, FALSE)
  BY <1>15 DEF Reads
<1> QED
  BY <1>12, <1>13, <1>14, <1>16 DEF Following

\* The next packet's header is there: it spells the packet's size.
LEMMA HeaderSpells ==
  ASSUME FramingAssumption,
         NEW r \in Seq(Bits), NEW w \in Seq(Bits), NEW s \in Seq(Nat), NEW g, NEW discard,
         Following(r, w, s, g, 0, discard), HeaderSize <= Len(r)
  PROVE  \E cur \in 1 .. Len(s) :
           /\ \A p : Framing!PartOf(SubSeq(r, 1, HeaderSize), p, 0) <=> p = cur
           /\ \E off : StreamOf(r \o w, s, cur, off) /\ off[cur] = 0 /\ Told(g, s, cur)
<1>1. PICK cur, off : StreamOf(r \o w, s, cur, off) /\ Reads(s, cur, off, 0, discard) /\ Told(g, s, cur)
  BY DEF Following
<1>2. off[cur] = 0 /\ cur \in 1 .. Len(s) + 1
  BY <1>1 DEF Reads, StreamOf
<1>3. HeaderSize \in Nat \ {0}
  BY DEF FramingAssumption
<1>4. PICK k, l : k = Len(r) /\ l = Len(w)
  OBVIOUS
<1>5. k \in Nat /\ l \in Nat /\ Len(r \o w) = k + l
  BY <1>4, BytesJoined
<1>6. cur \in 1 .. Len(s)
  <2>1. CASE cur = Len(s) + 1
    <3>1. k + l = 0
      BY <1>1, <1>2, <1>5, <2>1 DEF StreamOf
    <3> QED
      BY <1>3, <1>4, <1>5, <3>1
  <2> QED
    BY <1>2, <2>1
<1>7. s[cur] \in Nat
  BY <1>6
<1>8. 0 + HeaderSize <= Whole(s[cur]) /\ off[cur] = 0 - 0 /\ HeaderSize \in Nat /\ 0 \in Nat
  <2>1. HeaderSize <= Whole(s[cur])
    BY <1>7, WholeType
  <2> QED
    BY <1>2, <1>3, <2>1
<1>9. PICK h : h = SubSeq(r, 1, HeaderSize)
  OBVIOUS
<1>10. h \in Seq(Bits) /\ BytesOf(h, HeaderSize, cur, 0)
  BY <1>1, <1>6, <1>8, <1>9, FrontOfPacket
<1>11. \A p : Framing!PartOf(h, p, 0) <=> p = cur
  BY <1>3, <1>8, <1>10, PartNamed
<1> QED
  BY <1>1, <1>2, <1>6, <1>9, <1>11

\* The header is taken out of the buffer.
LEMMA HeaderTaken ==
  ASSUME FramingAssumption,
         NEW r \in Seq(Bits), NEW w \in Seq(Bits), NEW s \in Seq(Nat), NEW g,
         NEW cur, cur \in 1 .. Len(s), NEW off, StreamOf(r \o w, s, cur, off), off[cur] = 0,
         Told(g, s, cur), HeaderSize <= Len(r), NEW discard
  PROVE  LET rest == SubSeq(r, HeaderSize + 1, Len(r))
         IN  /\ s[cur] <= HeaderSize => Following(rest, w, s, g, 0, discard)
             /\ s[cur] > HeaderSize =>
                  Following(rest, w, s, g, s[cur] - HeaderSize, Framing!TooBig(s[cur]))
<1>1. HeaderSize \in Nat /\ HeaderSize # 0 /\ MaxPacketSize \in Nat
  BY DEF FramingAssumption
<1>2. /\ cur \in cur .. Len(s) + 1 /\ cur + 1 \in cur .. Len(s) + 1 /\ cur + 1 \in 1 .. Len(s) + 1
      /\ cur \in 1 .. Len(s) + 1 /\ cur \in cur .. Len(s) /\ s[cur] \in Nat /\ cur <= Len(s)
  OBVIOUS
<1>3. off[cur + 1] = Whole(s[cur])
  <2>1. off[cur + 1] = off[cur] + Whole(s[cur])
    BY <1>2 DEF StreamOf
  <2>2. Whole(s[cur]) \in Nat
    BY <1>2, WholeType
  <2> QED
    BY <2>1, <2>2
<1>4. PICK rest : rest = SubSeq(r, HeaderSize + 1, Len(r))
  OBVIOUS
<1>5. CASE s[cur] <= HeaderSize
  <2>1. PICK new : /\ StreamOf(rest \o w, s, cur + 1, new)
                   /\ \A p \in 1 .. Len(s) + 1 : new[p] = off[p] - HeaderSize
    <3>1. HeaderSize \in Nat /\ HeaderSize <= Len(r)
      BY <1>1
    <3>2. PICK next : next = cur + 1
      OBVIOUS
    <3>3. next \in cur .. Len(s) + 1
      BY <1>2, <3>2
    <3>4. Shifted(SubSeq(r, HeaderSize + 1, Len(r)) \o w, s, next, off, HeaderSize)
      BY <3>1, <3>3, Taken
    <3>5. Shifted(rest \o w, s, cur + 1, off, HeaderSize)
      BY <1>4, <3>2, <3>4
    <3> QED
      BY <3>5 DEF Shifted
  <2>2. new[cur + 1] = off[cur + 1] - HeaderSize
    BY <1>2, <2>1
  <2>3. Whole(s[cur]) = HeaderSize
    <3>1. Whole(s[cur]) = IF s[cur] > HeaderSize THEN s[cur] ELSE HeaderSize
      BY <1>2, WholeType
    <3>2. ~(s[cur] > HeaderSize)
      BY <1>1, <1>2, <1>5
    <3> QED
      BY <3>1, <3>2
  <2>4. new[cur + 1] = 0
    BY <1>1, <1>3, <2>2, <2>3
  <2>5. Reads(s, cur + 1, new, 0, discard)
    BY <2>4 DEF Reads
  <2>6. ~Passes(s, cur)
    BY <1>1, <1>2, <1>5 DEF Passes
  <2>7. Told(g, s, cur + 1)
    BY <2>6, ToldBeyond
  <2>8. Following(rest, w, s, g, 0, discard)
    BY <2>1, <2>5, <2>7 DEF Following
  <2>9. ~(s[cur] > HeaderSize)
    BY <1>1, <1>2, <1>5
  <2> QED
    BY <1>4, <2>8, <2>9
<1>6. CASE s[cur] > HeaderSize
  <2>1. PICK new : /\ StreamOf(rest \o w, s, cur, new)
                   /\ \A p \in 1 .. Len(s) + 1 : new[p] = off[p] - HeaderSize
    <3>1. HeaderSize \in Nat /\ HeaderSize <= Len(r)
      BY <1>1
    <3>2. Shifted(SubSeq(r, HeaderSize + 1, Len(r)) \o w, s, cur, off, HeaderSize)
      BY <1>2, <3>1, Taken
    <3> QED
      BY <1>4, <3>2 DEF Shifted
  <2>2. new[cur + 1] = off[cur + 1] - HeaderSize /\ new[cur] = off[cur] - HeaderSize
    BY <1>2, <2>1
  <2>3. Whole(s[cur]) = s[cur]
    BY <1>1, <1>2, <1>6, WholeType
  <2>4. new[cur + 1] = s[cur] - HeaderSize /\ new[cur] = 0 - HeaderSize /\ s[cur] - HeaderSize # 0
    BY <1>1, <1>2, <1>3, <1>6, <2>2, <2>3
  <2>5. Framing!TooBig(s[cur]) = (s[cur] > MaxPacketSize)
    BY DEF Framing!TooBig
  <2>6. Reads(s, cur, new, s[cur] - HeaderSize, Framing!TooBig(s[cur]))
    BY <1>2, <1>6, <2>4, <2>5 DEF Reads
  <2>7. Following(rest, w, s, g, s[cur] - HeaderSize, Framing!TooBig(s[cur]))
    BY <2>1, <2>6 DEF Following
  <2>8. ~(s[cur] <= HeaderSize)
    BY <1>1, <1>2, <1>6
  <2> QED
    BY <1>4, <2>7, <2>8
<1> QED
  BY <1>1, <1>2, <1>5, <1>6

-----------------------------------------------------------------------------
(* The steps of the reader                                                  *)

\* The loop goes on exactly when the rest of a header or of a packet is there.
LEMMA LoopEnds ==
  ASSUME FramingAssumption, NEW size \in Nat, NEW available \in Nat
  PROVE  /\ Framing!LoopsAgain(size, available) \in BOOLEAN
         /\ ~Framing!LoopsAgain(size, available) => Awaits(size, available)
  BY DEF FramingAssumption, Framing!LoopsAgain, Awaits

\* What a step of the reader leaves behind.
LEMMA ReaderStep ==
  ASSUME FramingAssumption, FramingTypes,
         NEW b \in Seq(Bits), NEW size \in Nat, NEW discard \in BOOLEAN, NEW g \in Seq(Nat),
         recvBuffer' = b, currentMessageSize' = size, discardPacket' = discard, got' = g,
         NEW available, available = Len(b), inLoop' = Framing!LoopsAgain(size, available),
         sent' = sent, wire' = wire, residue' = residue,
         ~residue => Following(b, wire, sent, g, size, discard)
  PROVE  FramingInv'
<1>1. available \in Nat
  OBVIOUS
<1>2. inLoop' \in BOOLEAN /\ (~inLoop' => Awaits(size, available))
  BY <1>1, LoopEnds
<1>3. FramingTypes'
  BY <1>2 DEF FramingTypes
<1> QED
  BY <1>2, <1>3 DEF FramingInv

LEMMA ConsumeStep ==
  ASSUME FramingAssumption, FramingTypes,
         NEW bytes \in Seq(Bits), NEW size \in Nat, size # 0, NEW discard \in BOOLEAN,
         Framing!Consume(bytes, size, discard), discardPacket' = discard,
         sent' = sent, wire' = wire, residue' = residue,
         ~residue => Following(bytes, wire, sent, got, size, discard)
  PROVE  FramingInv'
<1>1. PICK z \in Nat : z = Len(bytes)
  OBVIOUS
<1>2. sent \in Seq(Nat) /\ wire \in Seq(Bits) /\ got \in Seq(Nat)
  BY DEF FramingTypes
<1>3. ASSUME NEW n \in Nat, n <= z
      PROVE  SubSeq(bytes, n + 1, Len(bytes)) \in Seq(Bits) /\ Len(SubSeq(bytes, n + 1, Len(bytes))) = z - n
  BY <1>1, <1>3, BytesCut
<1>4. CASE discard = TRUE
  <2>1. PICK n : n = IF z > size THEN size ELSE z
    OBVIOUS
  <2>2. n \in Nat /\ n <= size /\ n <= z /\ size - n \in Nat
    BY <2>1
  <2>3. /\ recvBuffer' = SubSeq(bytes, n + 1, Len(bytes))
        /\ currentMessageSize' = size - n
        /\ inLoop' = Framing!LoopsAgain(size - n, z - n)
        /\ got' = got
    BY <1>1, <1>4, <2>1 DEF Framing!Consume
  <2>4. PICK b, g, left : b = SubSeq(bytes, n + 1, Len(bytes)) /\ g = got /\ left = size - n
    OBVIOUS
  <2>5. b \in Seq(Bits) /\ z - n = Len(b)
    BY <1>3, <2>2, <2>4
  <2>6. ~residue => Following(b, wire, sent, g, left, TRUE)
    BY <1>1, <1>2, <1>4, <2>2, <2>4, Skipped
  <2>7. left \in Nat /\ discardPacket' = TRUE /\ recvBuffer' = b /\ currentMessageSize' = left /\ got' = g
        /\ inLoop' = Framing!LoopsAgain(left, z - n) /\ g \in Seq(Nat)
    BY <1>2, <1>4, <2>2, <2>3, <2>4
  <2> QED
    BY <2>5, <2>6, <2>7, ReaderStep
<1>5. CASE discard = FALSE /\ z >= size
  <2>1. /\ got' = Append(got, Packet(bytes, sent, size))
        /\ recvBuffer' = SubSeq(bytes, size + 1, Len(bytes))
        /\ currentMessageSize' = 0
        /\ inLoop' = Framing!LoopsAgain(0, z - size)
    <3>1. ~discard /\ ~(Len(bytes) < size)
      BY <1>1, <1>5
    <3>2. /\ got' = Append(got, Packet(bytes, sent, size))
          /\ recvBuffer' = SubSeq(bytes, size + 1, Len(bytes))
          /\ currentMessageSize' = 0
          /\ inLoop' = Framing!LoopsAgain(0, Len(bytes) - size)
      BY <3>1, Zenon DEF Framing!Consume, Packet
    <3> QED
      BY <1>1, <3>2
  <2>2. PICK b, g : b = SubSeq(bytes, size + 1, Len(bytes)) /\ g = Append(got, Packet(bytes, sent, size))
    OBVIOUS
  <2>3. size <= z
    BY <1>5
  <2>4. b \in Seq(Bits) /\ z - size = Len(b)
    BY <1>3, <2>2, <2>3
  <2>5. g \in Seq(Nat)
    BY <1>2, <2>2, PacketType
  <2>6. ~residue => Following(b, wire, sent, g, 0, FALSE)
    BY <1>1, <1>2, <1>5, <2>2, <2>3, Dispatched
  <2>7. discardPacket' = FALSE /\ recvBuffer' = b /\ got' = g
    BY <1>5, <2>1, <2>2
  <2> QED
    BY <2>1, <2>4, <2>5, <2>6, <2>7, ReaderStep
<1>6. CASE discard = FALSE /\ z < size
  <2>1. /\ got' = got /\ recvBuffer' = bytes /\ currentMessageSize' = size
        /\ inLoop' = Framing!LoopsAgain(size, z)
    <3>1. ~discard /\ ~(Len(bytes) >= size)
      BY <1>1, <1>6
    <3>2. /\ got' = got /\ recvBuffer' = bytes /\ currentMessageSize' = size
          /\ inLoop' = Framing!LoopsAgain(size, Len(bytes))
      BY <3>1 DEF Framing!Consume
    <3> QED
      BY <1>1, <3>2
  <2> QED
    BY <1>1, <1>2, <2>1, ReaderStep
<1> QED
  <2>1. discard = TRUE \/ discard = FALSE
    OBVIOUS
  <2>2. z >= size \/ z < size
    OBVIOUS
  <2> QED
    BY <1>4, <1>5, <1>6, <2>1, <2>2

LEMMA PeerSendsStep ==
  ASSUME FramingAssumption, FramingInv, NEW n \in Sizes, Framing!PeerSends(n)
  PROVE  FramingInv'
<1>1. n \in Nat
  BY DEF FramingAssumption
<1>2. sent \in Seq(Nat) /\ wire \in Seq(Bits) /\ recvBuffer \in Seq(Bits)
  BY DEF FramingInv, FramingTypes
<1>3. PICK more : more = Framing!Bytes(Len(sent) + 1, n)
  OBVIOUS
<1>4. /\ sent' = Append(sent, n) /\ wire' = wire \o more
      /\ recvBuffer' = recvBuffer /\ currentMessageSize' = currentMessageSize
      /\ discardPacket' = discardPacket /\ inLoop' = inLoop /\ got' = got /\ residue' = residue
  BY <1>3 DEF Framing!PeerSends, Framing!buffer, Framing!history
<1>5. more \in Seq(Bits) /\ Append(sent, n) \in Seq(Nat)
  <2>1. more = [k \in 1 .. Whole(n) |-> <<Len(sent) + 1, k>>]
    BY <1>3 DEF Framing!Bytes, Whole
  <2>2. PICK size \in Nat : size = Whole(n)
    BY <1>1, WholeType
  <2>3. \A k \in 1 .. size : <<Len(sent) + 1, k>> \in Bits
    BY <1>2 DEF Bits
  <2>4. more \in [1 .. size -> Bits]
    BY <2>1, <2>2, <2>3
  <2>5. more \in Seq(Bits)
    BY <2>4, SeqDef
  <2> QED
    BY <1>1, <1>2, <2>5
<1>6. FramingTypes'
  BY <1>2, <1>4, <1>5 DEF FramingInv, FramingTypes
<1>7. ASSUME ~residue PROVE Following(recvBuffer', wire', sent', got', currentMessageSize', discardPacket')
  <2>1. PICK cur, off : /\ StreamOf(recvBuffer \o wire, sent, cur, off)
                        /\ Reads(sent, cur, off, currentMessageSize, discardPacket)
                        /\ Told(got, sent, cur)
    BY <1>7 DEF FramingInv, Following
  <2>2. PICK all : all = recvBuffer \o wire
    OBVIOUS
  <2>3. all \in Seq(Bits) /\ recvBuffer \o (wire \o more) = all \o more
    <3>1. recvBuffer \o (wire \o more) = (recvBuffer \o wire) \o more
      BY <1>2, <1>5, ConcatAssociative, SMTT(30)
    <3> QED
      BY <1>2, <2>2, <3>1
  <2>4. PICK new : /\ StreamOf(all \o more, Append(sent, n), cur, new)
                   /\ \A p \in 1 .. Len(sent) + 1 : new[p] = off[p]
    <3>1. StreamOf(all, sent, cur, off)
      BY <2>1, <2>2
    <3>2. Extended(all \o Framing!Bytes(Len(sent) + 1, n), Append(sent, n), sent, cur, off)
      BY <1>1, <1>2, <2>3, <3>1, StreamExtended
    <3> QED
      BY <1>3, <3>2 DEF Extended
  <2>5. PICK t, m : t = Append(sent, n) /\ m = Len(sent)
    OBVIOUS
  <2>6. m \in Nat /\ Len(t) = m + 1 /\ \A p \in 1 .. m : t[p] = sent[p]
    BY <1>1, <1>2, <2>5
  <2>7. cur \in 1 .. m + 1
    BY <2>1, <2>5 DEF StreamOf
  <2>8. Reads(t, cur, new, currentMessageSize, discardPacket)
    <3>1. new[cur] = off[cur]
      BY <2>4, <2>5, <2>7
    <3>2. CASE currentMessageSize = 0
      BY <2>1, <3>1, <3>2 DEF Reads
    <3>3. CASE currentMessageSize # 0
      <4>1. /\ cur <= m /\ off[cur + 1] = currentMessageSize /\ sent[cur] > HeaderSize
            /\ discardPacket = (sent[cur] > MaxPacketSize)
            /\ ~discardPacket => off[cur] = 0 - HeaderSize
        BY <2>1, <2>5, <3>3 DEF Reads
      <4>2. cur \in 1 .. m /\ cur + 1 \in 1 .. m + 1 /\ cur <= m + 1
        BY <2>6, <2>7, <4>1
      <4>3. t[cur] = sent[cur] /\ new[cur + 1] = off[cur + 1]
        BY <2>4, <2>5, <2>6, <4>2
      <4> QED
        BY <2>6, <3>1, <3>3, <4>1, <4>2, <4>3 DEF Reads
    <3> QED
      BY <3>2, <3>3
  <2>9. Told(got, t, cur)
    <3>1. ASSUME NEW k \in 1 .. Len(got) PROVE got[k] \in 1 .. Len(t) /\ Passes(t, got[k]) /\ got[k] < cur
      <4>1. got[k] \in 1 .. m /\ Passes(sent, got[k]) /\ got[k] < cur
        BY <2>1, <2>5 DEF Told
      <4>2. t[got[k]] = sent[got[k]] /\ got[k] \in 1 .. m + 1
        BY <2>6, <4>1
      <4> QED
        BY <2>6, <4>1, <4>2 DEF Passes
    <3>2. ASSUME NEW p \in 1 .. Len(t), Passes(t, p), p < cur PROVE \E k \in 1 .. Len(got) : got[k] = p
      <4>1. p \in 1 .. m
        BY <2>6, <2>7, <3>2
      <4>2. Passes(sent, p)
        BY <2>6, <3>2, <4>1 DEF Passes
      <4> QED
        BY <2>1, <2>5, <3>2, <4>1, <4>2 DEF Told
    <3> QED
      BY <2>1, <3>1, <3>2 DEF Told
  <2> QED
    BY <1>4, <2>3, <2>4, <2>5, <2>8, <2>9 DEF Following
<1> QED
  BY <1>4, <1>6, <1>7 DEF FramingInv

LEMMA ReadStep ==
  ASSUME FramingAssumption, FramingInv, NEW n \in 1 .. Len(wire), Framing!onReadCompleted(n)
  PROVE  FramingInv'
<1>1. sent \in Seq(Nat) /\ wire \in Seq(Bits) /\ recvBuffer \in Seq(Bits)
  BY DEF FramingInv, FramingTypes
<1>2. PICK m \in Nat : m = n /\ m <= Len(wire)
  BY <1>1
<1>3. /\ recvBuffer' = recvBuffer \o SubSeq(wire, 1, m) /\ wire' = SubSeq(wire, m + 1, Len(wire))
      /\ inLoop' = TRUE /\ sent' = sent /\ currentMessageSize' = currentMessageSize
      /\ discardPacket' = discardPacket /\ got' = got /\ residue' = residue
  BY <1>2 DEF Framing!onReadCompleted, Framing!buffer, Framing!history
<1>4. recvBuffer' \in Seq(Bits) /\ wire' \in Seq(Bits) /\ recvBuffer' \o wire' = recvBuffer \o wire
  BY <1>1, <1>2, <1>3, BytesMoved
<1>5. FramingTypes'
  BY <1>3, <1>4 DEF FramingInv, FramingTypes
<1>6. ASSUME ~residue PROVE Following(recvBuffer', wire', sent', got', currentMessageSize', discardPacket')
  BY <1>3, <1>4, <1>6 DEF FramingInv, Following
<1> QED
  BY <1>3, <1>5, <1>6 DEF FramingInv

LEMMA ReconnectStep ==
  ASSUME FramingAssumption, FramingInv, Framing!Reconnect
  PROVE  FramingInv'
<1>1. recvBuffer \in Seq(Bits) /\ residue \in BOOLEAN
  BY DEF FramingInv, FramingTypes
<1>2. /\ currentMessageSize' = 0 /\ discardPacket' = FALSE /\ sent' = << >> /\ wire' = << >>
      /\ got' = << >> /\ recvBuffer' = [k \in DOMAIN recvBuffer |-> <<0, k>>]
      /\ residue' = (residue \/ recvBuffer # << >>) /\ inLoop' = inLoop
  BY DEF Framing!Reconnect
<1>3. recvBuffer' \in Seq(Bits)
  <2>1. PICK k \in Nat : k = Len(recvBuffer) /\ DOMAIN recvBuffer = 1 .. k
    BY <1>1
  <2>2. \A i \in 1 .. k : <<0, i>> \in Bits
    BY DEF Bits
  <2>3. recvBuffer' \in [1 .. k -> Bits]
    BY <1>2, <2>1, <2>2
  <2> QED
    BY <2>3, SeqDef
<1>4. FramingTypes'
  <2>1. residue' \in BOOLEAN
    BY <1>1, <1>2
  <2>2. << >> \in Seq(Nat) /\ << >> \in Seq(Bits)
    OBVIOUS
  <2>3. sent' \in Seq(Nat) /\ wire' \in Seq(Bits) /\ got' \in Seq(Nat)
    BY <1>2, <2>2
  <2>4. inLoop' \in BOOLEAN /\ currentMessageSize' \in Nat /\ discardPacket' \in BOOLEAN
    BY <1>2 DEF FramingInv, FramingTypes
  <2> QED
    BY <1>3, <2>1, <2>3, <2>4 DEF FramingTypes
<1>5. ASSUME ~residue' PROVE recvBuffer' = << >> /\ Len(recvBuffer') = 0
  <2>1. recvBuffer = << >>
    BY <1>2, <1>5
  <2>2. recvBuffer' \in [1 .. 0 -> Bits]
    BY <1>2, <1>3, <2>1
  <2> QED
    BY <1>3, <2>2
<1>6. ASSUME ~residue' PROVE Following(recvBuffer', wire', sent', got', currentMessageSize', discardPacket')
  <2>1. PICK off : off = [p \in 1 .. 1 |-> 0]
    OBVIOUS
  <2>2. recvBuffer' \o wire' = << >>
    BY <1>2, <1>5, <1>6
  <2>3. StreamOf(<< >>, << >>, 1, off)
    BY <2>1 DEF StreamOf
  <2>4. Reads(<< >>, 1, off, 0, FALSE)
    BY <2>1 DEF Reads
  <2>5. Told(<< >>, << >>, 1)
    BY DEF Told
  <2> QED
    BY <1>2, <2>2, <2>3, <2>4, <2>5 DEF Following
<1>7. ASSUME ~residue' PROVE Awaits(currentMessageSize', Len(recvBuffer'))
  BY <1>2, <1>5, <1>7 DEF Awaits, FramingAssumption
<1> QED
  BY <1>4, <1>6, <1>7 DEF FramingInv

LEMMA onDataReceivedStep ==
  ASSUME FramingAssumption, FramingInv, Framing!onDataReceived
  PROVE  FramingInv'
<1>1. /\ FramingTypes /\ sent \in Seq(Nat) /\ wire \in Seq(Bits) /\ recvBuffer \in Seq(Bits)
      /\ got \in Seq(Nat) /\ currentMessageSize \in Nat /\ discardPacket \in BOOLEAN
  BY DEF FramingInv, FramingTypes
<1>2. /\ ~residue => Following(recvBuffer, wire, sent, got, currentMessageSize, discardPacket)
  BY DEF FramingInv
<1>3. HeaderSize \in Nat /\ HeaderSize # 0 /\ Sizes \subseteq Nat
  BY DEF FramingAssumption
<1>4. sent' = sent /\ wire' = wire /\ residue' = residue
  BY DEF Framing!onDataReceived, Framing!history
<1>5. CASE /\ currentMessageSize = 0 /\ Len(recvBuffer) < HeaderSize
           /\ inLoop' = FALSE
           /\ UNCHANGED <<recvBuffer, Framing!buffer, got>>
  <2>1. recvBuffer' = recvBuffer /\ got' = got /\ currentMessageSize' = 0 /\ discardPacket' = discardPacket
        /\ inLoop' = FALSE
    BY <1>5 DEF Framing!buffer
  <2>2. FramingTypes'
    BY <1>1, <1>4, <2>1 DEF FramingInv, FramingTypes
  <2>3. Awaits(currentMessageSize', Len(recvBuffer'))
    BY <1>5, <2>1 DEF Awaits
  <2> QED
    BY <1>2, <1>4, <1>5, <2>1, <2>2, <2>3 DEF FramingInv
<1>6. CASE /\ currentMessageSize = 0 /\ Len(recvBuffer) >= HeaderSize
           /\ \E n \in Framing!SpelledSizes :
                IF n <= HeaderSize
                THEN /\ recvBuffer' = Framing!Rest(HeaderSize)
                     /\ inLoop' = Framing!LoopsAgain(0, Len(Framing!Rest(HeaderSize)))
                     /\ UNCHANGED <<Framing!buffer, got>>
                ELSE /\ discardPacket' = Framing!TooBig(n)
                     /\ Framing!Consume(Framing!Rest(HeaderSize), n - HeaderSize, Framing!TooBig(n))
  <2>1. PICK n : /\ n \in Framing!SpelledSizes
                 /\ IF n <= HeaderSize
                    THEN /\ recvBuffer' = Framing!Rest(HeaderSize)
                         /\ inLoop' = Framing!LoopsAgain(0, Len(Framing!Rest(HeaderSize)))
                         /\ UNCHANGED <<Framing!buffer, got>>
                    ELSE /\ discardPacket' = Framing!TooBig(n)
                         /\ Framing!Consume(Framing!Rest(HeaderSize), n - HeaderSize, Framing!TooBig(n))
    BY <1>6
  <2>2. PICK rest : rest = SubSeq(recvBuffer, HeaderSize + 1, Len(recvBuffer))
    OBVIOUS
  <2>3. Framing!Rest(HeaderSize) = rest /\ rest \in Seq(Bits) /\ HeaderSize <= Len(recvBuffer)
    <3>1. PICK z : z = Len(recvBuffer)
      OBVIOUS
    <3>2. z \in Nat /\ HeaderSize <= z
      BY <1>1, <1>3, <1>6, <3>1
    <3>3. SubSeq(recvBuffer, HeaderSize + 1, z) \in Seq(Bits)
      BY <1>1, <1>3, <3>1, <3>2, BytesCut
    <3> QED
      BY <2>2, <3>1, <3>2, <3>3 DEF Framing!Rest
  <2>4. n \in Nat
    <3>1. ASSUME NEW p \in DOMAIN sent PROVE sent[p] \in Nat
      BY <1>1
    <3> QED
      BY <1>3, <2>1, <3>1 DEF Framing!SpelledSizes
  <2>5. ASSUME ~residue
        PROVE  /\ n <= HeaderSize => Following(rest, wire, sent, got, 0, discardPacket)
               /\ n > HeaderSize => Following(rest, wire, sent, got, n - HeaderSize, Framing!TooBig(n))
    <3>1. Following(recvBuffer, wire, sent, got, 0, discardPacket)
      BY <1>2, <1>6, <2>5
    <3>2. PICK cur \in 1 .. Len(sent) :
            /\ \A p : Framing!PartOf(SubSeq(recvBuffer, 1, HeaderSize), p, 0) <=> p = cur
            /\ \E off : StreamOf(recvBuffer \o wire, sent, cur, off) /\ off[cur] = 0 /\ Told(got, sent, cur)
      BY <1>1, <2>3, <3>1, HeaderSpells
    <3>3. n = sent[cur]
      <4>1. PICK whole : whole = {p \in DOMAIN sent : Framing!PartOf(SubSeq(recvBuffer, 1, HeaderSize), p, 0)}
        OBVIOUS
      <4>2. whole = {cur}
        BY <1>1, <3>2, <4>1
      <4>3. n \in IF whole = {} THEN Sizes ELSE {sent[p] : p \in whole}
        BY <2>1, <4>1 DEF Framing!SpelledSizes
      <4> QED
        BY <4>2, <4>3
    <3>4. PICK off : StreamOf(recvBuffer \o wire, sent, cur, off) /\ off[cur] = 0 /\ Told(got, sent, cur)
      BY <3>2
    <3>5. /\ sent[cur] <= HeaderSize =>
               Following(SubSeq(recvBuffer, HeaderSize + 1, Len(recvBuffer)), wire, sent, got, 0, discardPacket)
          /\ sent[cur] > HeaderSize =>
               Following(SubSeq(recvBuffer, HeaderSize + 1, Len(recvBuffer)), wire, sent, got,
                         sent[cur] - HeaderSize, Framing!TooBig(sent[cur]))
      BY <1>1, <2>3, <3>4, HeaderTaken
    <3> QED
      BY <2>2, <3>3, <3>5
  <2>6. CASE n <= HeaderSize
    <3>1. /\ recvBuffer' = rest /\ inLoop' = Framing!LoopsAgain(0, Len(rest)) /\ got' = got
          /\ currentMessageSize' = 0 /\ discardPacket' = discardPacket
      BY <1>6, <2>1, <2>3, <2>6 DEF Framing!buffer
    <3>2. PICK available : available = Len(rest)
      OBVIOUS
    <3>3. inLoop' = Framing!LoopsAgain(0, available)
      BY <3>1, <3>2
    <3>4. ~residue => Following(rest, wire, sent, got, 0, discardPacket)
      BY <2>5, <2>6
    <3> QED
      BY <1>1, <1>4, <2>3, <3>1, <3>2, <3>3, <3>4, ReaderStep
  <2>7. CASE n > HeaderSize
    <3>1. PICK size, discard : size = n - HeaderSize /\ discard = Framing!TooBig(n)
      OBVIOUS
    <3>2. size \in Nat /\ size # 0
      BY <1>3, <2>4, <2>7, <3>1
    <3>3. discard \in BOOLEAN
      BY <3>1 DEF Framing!TooBig
    <3>4. ~(n <= HeaderSize)
      BY <1>3, <2>4, <2>7
    <3>5. discardPacket' = discard /\ Framing!Consume(rest, size, discard)
      BY <2>1, <2>3, <3>1, <3>4
    <3>6. ~residue => Following(rest, wire, sent, got, size, discard)
      BY <2>5, <2>7, <3>1
    <3> QED
      BY <1>1, <1>4, <2>3, <3>2, <3>3, <3>5, <3>6, ConsumeStep
  <2> QED
    BY <1>3, <2>4, <2>6, <2>7
<1>7. CASE /\ currentMessageSize # 0
           /\ Framing!Consume(recvBuffer, currentMessageSize, discardPacket)
           /\ UNCHANGED discardPacket
  <2>1. discardPacket' = discardPacket
    BY <1>7
  <2> QED
    BY <1>1, <1>2, <1>4, <1>7, <2>1, ConsumeStep
<1> QED
  BY <1>5, <1>6, <1>7 DEF Framing!onDataReceived

\* FramingInv is inductive.
LEMMA FramingInit == FramingAssumption /\ Framing!Init => FramingInv
<1> SUFFICES ASSUME FramingAssumption, Framing!Init PROVE FramingInv
  OBVIOUS
<1>1. /\ sent = << >> /\ wire = << >> /\ recvBuffer = << >> /\ currentMessageSize = 0
      /\ discardPacket = FALSE /\ inLoop = FALSE /\ got = << >> /\ residue = FALSE
  BY DEF Framing!Init
<1>2. << >> \in Seq(Nat) /\ << >> \in Seq(Bits) /\ << >> \o << >> = << >> /\ Len(<< >>) = 0
  OBVIOUS
<1>3. FramingTypes
  BY <1>1, <1>2 DEF FramingTypes
<1>4. Following(recvBuffer, wire, sent, got, currentMessageSize, discardPacket)
  <2>1. PICK off : off = [p \in 1 .. 1 |-> 0]
    OBVIOUS
  <2>2. StreamOf(<< >>, << >>, 1, off)
    BY <2>1 DEF StreamOf
  <2>3. Reads(<< >>, 1, off, 0, FALSE)
    BY <2>1 DEF Reads
  <2>4. Told(<< >>, << >>, 1)
    BY DEF Told
  <2> QED
    BY <1>1, <1>2, <2>2, <2>3, <2>4 DEF Following
<1>5. Awaits(currentMessageSize, Len(recvBuffer))
  BY <1>1, <1>2 DEF Awaits, FramingAssumption
<1> QED
  BY <1>3, <1>4, <1>5 DEF FramingInv

LEMMA FramingNext == FramingAssumption /\ FramingInv /\ [Framing!Next]_(Framing!vars) => FramingInv'
<1> SUFFICES ASSUME FramingAssumption, FramingInv, [Framing!Next]_(Framing!vars) PROVE FramingInv'
  OBVIOUS
<1>1. ASSUME NEW n \in Sizes, Framing!PeerSends(n) PROVE FramingInv'
  BY <1>1, PeerSendsStep
<1>2. ASSUME NEW n \in 1 .. Len(wire), Framing!onReadCompleted(n) PROVE FramingInv'
  BY <1>2, ReadStep
<1>3. CASE Framing!onDataReceived
  BY <1>3, onDataReceivedStep
<1>4. CASE Framing!Reconnect
  BY <1>4, ReconnectStep
<1>5. CASE UNCHANGED Framing!vars
  BY <1>5 DEF FramingInv, FramingTypes, Framing!vars, Framing!buffer, Framing!history
<1> QED
  BY <1>1, <1>2, <1>3, <1>4, <1>5 DEF Framing!Next

\* What FramingInv says of the packets that were dispatched.
LEMMA FramingSound == FramingAssumption /\ FramingInv => Framing!Framed
<1> SUFFICES ASSUME FramingAssumption, FramingInv, ~residue
             PROVE  /\ Framing!DispatchedInOrder
                    /\ wire = << >> /\ ~inLoop =>
                         /\ recvBuffer = << >> /\ currentMessageSize = 0
                         /\ \A p \in Framing!Deliverable : \E k \in DOMAIN got : got[k] = p
  BY DEF Framing!Framed, Framing!FramedOnCleanConnection, Framing!NothingLeft
<1>1. /\ sent \in Seq(Nat) /\ wire \in Seq(Bits) /\ recvBuffer \in Seq(Bits) /\ got \in Seq(Nat)
      /\ currentMessageSize \in Nat
  BY DEF FramingInv, FramingTypes
<1>2. PICK cur, off : /\ StreamOf(recvBuffer \o wire, sent, cur, off)
                      /\ Reads(sent, cur, off, currentMessageSize, discardPacket)
                      /\ Told(got, sent, cur)
  BY DEF FramingInv, Following
<1>3. DOMAIN sent = 1 .. Len(sent) /\ DOMAIN got = 1 .. Len(got) /\ Len(sent) \in Nat
  BY <1>1
<1>4. \A p : p \in Framing!Deliverable <=> p \in 1 .. Len(sent) /\ Passes(sent, p)
  BY <1>3 DEF Framing!Deliverable, Passes
<1>5. cur \in 1 .. Len(sent) + 1 /\ cur \in Int
  BY <1>2 DEF StreamOf
<1>6. Framing!DispatchedInOrder
  <2>1. ASSUME NEW k \in 1 .. Len(got) PROVE got[k] \in Framing!Deliverable /\ got[k] < cur /\ got[k] \in Int
    BY <1>2, <1>4 DEF Told
  <2>2. \A j, k \in 1 .. Len(got) : j < k => got[j] < got[k]
    BY <1>2 DEF Told
  <2>3. ASSUME NEW k \in 1 .. Len(got), NEW p \in Framing!Deliverable, p < got[k]
        PROVE  \E j \in 1 .. Len(got) : got[j] = p
    <3>1. p \in 1 .. Len(sent) /\ Passes(sent, p) /\ p \in Int
      BY <1>4
    <3>2. p < cur
      BY <1>5, <2>1, <2>3, <3>1
    <3> QED
      BY <1>2, <3>1, <3>2 DEF Told
  <2> QED
    BY <1>3, <2>1, <2>2, <2>3 DEF Framing!DispatchedInOrder
<1>7. ASSUME wire = << >>, ~inLoop
      PROVE  /\ recvBuffer = << >> /\ currentMessageSize = 0
             /\ \A p \in Framing!Deliverable : \E k \in DOMAIN got : got[k] = p
  <2>1. PICK z \in Nat : z = Len(recvBuffer)
    BY <1>1
  <2>2. recvBuffer \o wire = recvBuffer
    BY <1>1, <1>7, ConcatEmptySeq
  <2>3. z = off[Len(sent) + 1]
    BY <1>2, <2>1, <2>2 DEF StreamOf
  <2>4. Awaits(currentMessageSize, z)
    BY <1>7, <2>1 DEF FramingInv
  <2>5. ASSUME NEW p \in cur .. Len(sent) + 1 PROVE off[p] <= z
    <3>1. p <= Len(sent) + 1 /\ Len(sent) + 1 \in cur .. Len(sent) + 1
      BY <1>3, <1>5
    <3> QED
      BY <1>2, <2>3, <3>1 DEF StreamOf
  <2>6. currentMessageSize = 0
    <3>1. CASE currentMessageSize # 0
      <4>1. cur <= Len(sent) /\ off[cur + 1] = currentMessageSize
        BY <1>2, <3>1 DEF Reads
      <4>2. cur + 1 \in cur .. Len(sent) + 1
        BY <1>3, <1>5, <4>1
      <4>3. currentMessageSize <= z /\ z < currentMessageSize
        BY <2>4, <2>5, <3>1, <4>1, <4>2 DEF Awaits
      <4> QED
        BY <1>1, <4>3
    <3> QED
      BY <3>1
  <2>7. off[cur] = 0 /\ z < HeaderSize
    BY <1>2, <2>4, <2>6 DEF Reads, Awaits
  <2>8. cur = Len(sent) + 1
    <3>1. CASE cur # Len(sent) + 1
      <4>1. cur \in cur .. Len(sent) /\ cur + 1 \in cur .. Len(sent) + 1 /\ sent[cur] \in Nat
        <5>1. PICK m \in Nat : m = Len(sent)
          BY <1>3
        <5>2. cur \in cur .. m /\ cur + 1 \in cur .. m + 1 /\ cur \in 1 .. m
          BY <1>5, <3>1, <5>1
        <5>3. \A p \in 1 .. m : sent[p] \in Nat
          BY <1>1, <5>1
        <5> QED
          BY <5>1, <5>2, <5>3
      <4>2. off[cur + 1] = off[cur] + Whole(sent[cur])
        BY <1>2, <4>1 DEF StreamOf
      <4>3. PICK size \in Nat : size = Whole(sent[cur]) /\ HeaderSize <= size
        BY <4>1, WholeType
      <4>4. size <= z
        BY <2>5, <2>7, <4>1, <4>2, <4>3
      <4>5. HeaderSize \in Nat
        BY DEF FramingAssumption
      <4> QED
        BY <2>7, <4>3, <4>4, <4>5
    <3> QED
      BY <3>1
  <2>9. recvBuffer = << >>
    <3>1. Len(recvBuffer) = 0
      BY <2>1, <2>3, <2>7, <2>8
    <3> QED
      BY <1>1, <3>1, EmptySeq
  <2>10. ASSUME NEW p \in Framing!Deliverable PROVE \E k \in DOMAIN got : got[k] = p
    <3>1. p \in 1 .. Len(sent) /\ Passes(sent, p) /\ p < cur
      BY <1>3, <1>4, <2>8
    <3> QED
      BY <1>2, <1>3, <3>1 DEF Told
  <2> QED
    BY <2>6, <2>9, <2>10
<1> QED
  BY <1>6, <1>7

\* However the bytes of a connection are cut into chunks, PacketSession::onDataReceived
\* dispatches the peer's packets whole, once and in order, skips those that are too
\* big or too small, and leaves nothing behind when all bytes are there, on every
\* connection that does not begin with bytes of an earlier one.
THEOREM FramedCorrect == ASSUME FramingAssumption PROVE Framing!Spec => []Framing!Framed
<1>1. Framing!Init => FramingInv
  BY FramingInit
<1>2. FramingInv /\ [Framing!Next]_(Framing!vars) => FramingInv'
  BY FramingNext
<1>3. FramingInv => Framing!Framed
  BY FramingSound
<1> QED
  BY <1>1, <1>2, <1>3, PTL DEF Framing!Spec
=============================================================================
