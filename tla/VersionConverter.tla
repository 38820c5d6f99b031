--------------------------- MODULE VersionConverter ---------------------------
(***************************************************************************)
(* The filter module converter of rzfilter, between a client of one epic   *)
(* and a server of another.                                                *)
(*                                                                         *)
(* A connection to an auth server: the client logs in, as account, imbc or *)
(* bora, and waits for the answer before it tries again; the filter is the *)
(* server of the client's key exchange and the client of the server's.     *)
(* A password is the number of its login; a text that was encrypted has    *)
(* the number of its key, 0 for none; Garbage is what another key or       *)
(* freed memory gives.  A connection to a game server: packets, each with  *)
(* what its layouts tell apart.  StaleKey is a mutated form of the         *)
(* definition that follows it.                                             *)
(***************************************************************************)
EXTENDS PacketLayout, Naturals, Sequences

CONSTANTS
  Versions,     \* epics of clients and servers
  MaxLogins,    \* bound: logins on a connection
  MaxReloads    \* bound: times the filter is made anew

VARIABLES
  link,         \* type, epics of the client and the server, strictforward
  filter,       \* keys of both sides, the account and the start time that is kept
  client,       \* login, its state and kind, key, one time password, is the filter the same since it began?
  server,       \* key, accounts and passwords it was given, answers under way
  reloads,
  passed        \* the last packet of a game: from, in, out, raw; versions and reports so far

vars == <<link, filter, client, server, reloads, passed>>

Garbage == 0
NoKey == 0
Encrypted(key, text) == [key |-> key, text |-> text]
Decrypt(key, data) == IF data.key = key THEN data.text ELSE Garbage

HasKeys(version) == version >= EPIC_8_1_1_RSA

\* A filter that was just created: none of its members has a value.
NewFilter ==
  [client |-> NoKey, server |-> NoKey, rsa |-> FALSE, kind |-> "account", password |-> Garbage, start |-> "unset"]

Init ==
  /\ link \in [type : {"auth", "game"}, client : Versions, server : Versions, strict : BOOLEAN]
  /\ filter = NewFilter
  /\ client = [login |-> 0, state |-> "idle", kind |-> "account", key |-> NoKey, otp |-> Garbage, whole |-> TRUE]
  /\ server = [key |-> NoKey, accounts |-> << >>, answers |-> << >>]
  /\ reloads = 0
  /\ passed = [from |-> "client", in |-> << >>, out |-> << >>, raw |-> FALSE, versions |-> 0, reports |-> 0]

\* createFilter in place of an old filter, of which nothing is taken over.
createFilter ==
  /\ reloads < MaxReloads
  /\ reloads' = reloads + 1
  /\ \E kind \in {"account", "imbc", "bora"} : filter' = [NewFilter EXCEPT !.kind = kind]
  /\ client' = [client EXCEPT !.whole = client.state = "idle"]
  /\ UNCHANGED <<link, server, passed>>

-----------------------------------------------------------------------------
(* convertAuthPacketAndSend *)

\* Keys nobody else has: those of the client are odd.
KeyOfClient == 2 * client.login + 1
KeyOfServer == 2 * client.login

\* TS_CA_RSA_PUBLIC_KEY, the first packet of a login: the filter gives the
\* client a key of its own.
CA_RSA_PUBLIC_KEY ==
  /\ client.state = "idle" /\ client.login < MaxLogins
  /\ LET key == IF HasKeys(link.client) THEN KeyOfClient ELSE filter.client
     IN  \E kind \in {"account", "imbc"} \cup IF HasKeys(link.client) THEN {"bora"} ELSE {} :
           /\ client' = [client EXCEPT !.login = @ + 1, !.state = "keyed", !.kind = kind, !.key = key, !.whole = TRUE]
           /\ filter' = [filter EXCEPT !.client = key]
  /\ UNCHANGED <<server, passed>>

\* What the client sends as its password.
PasswordOfClient ==
  Encrypted(IF HasKeys(link.client) /\ client.kind # "bora" THEN client.key ELSE NoKey, client.login)

\* What becomes of it in the filter; a bora password is passed on as it is.
Plain(data) ==
  IF client.kind = "bora" THEN data.text
  ELSE IF HasKeys(link.client) THEN Decrypt(filter.client, data)
  ELSE data.text

\* The server reads an account and answers it.
Given(srv, kind, data) ==
  LET text == IF HasKeys(link.server) /\ kind # "bora" THEN Decrypt(srv.key, data) ELSE data.text
  IN  [srv EXCEPT !.accounts = Append(@, [kind |-> kind, login |-> client.login, password |-> text]),
                  !.answers = Append(@, "result")]

\* TS_CA_ACCOUNT, TS_CA_IMBC_ACCOUNT: to a server with keys the account waits,
\* and the filter asks for a key, which the server sends.
CA_ACCOUNT ==
  /\ client.state = "keyed"
  /\ client' = [client EXCEPT !.state = "waits"]
  /\ LET password == Plain(PasswordOfClient)
     IN  IF HasKeys(link.server)
         THEN /\ filter' = [filter EXCEPT !.rsa = TRUE, !.kind = client.kind, !.password = password]
              /\ server' = [server EXCEPT !.key = KeyOfServer, !.answers = Append(@, "key")]
         ELSE /\ filter' = [filter EXCEPT !.kind = client.kind]
              /\ server' = Given(server, client.kind, Encrypted(NoKey, password))
  /\ UNCHANGED passed

Answered(answer) == server.answers # << >> /\ Head(server.answers) = answer
Taken == [server EXCEPT !.answers = Tail(@)]

StaleKey == IF filter.server = NoKey THEN server.key ELSE filter.server

\* The key that the filter takes from the server, for all accounts but bora; it
\* cannot read one when it has forgotten that it asked.
KeyTaken == IF filter.kind = "bora" \/ ~filter.rsa THEN filter.server ELSE server.key

\* TS_AC_AES_KEY_IV: the account that waited is sent, and its password wiped.
AC_AES_KEY_IV ==
  /\ Answered("key")
  /\ filter' = [filter EXCEPT !.server = KeyTaken, !.password = Garbage]
  /\ server' = Given(Taken, filter.kind,
                     Encrypted(IF filter.kind = "bora" THEN NoKey ELSE KeyTaken, filter.password))
  /\ UNCHANGED <<client, passed>>

\* TS_AC_RESULT, or TS_AC_RESULT_WITH_STRING: the client may try again, or
\* chooses a server, which the auth server answers.
AC_RESULT ==
  /\ Answered("result")
  /\ \/ client' = [client EXCEPT !.state = "idle"] /\ server' = Taken
     \/ client' = [client EXCEPT !.state = "chosen"] /\ server' = [Taken EXCEPT !.answers = Append(@, "otp")]
  /\ UNCHANGED <<filter, passed>>

\* TS_AC_SELECT_SERVER: the one time password, here the login's number again.
AC_SELECT_SERVER ==
  /\ Answered("otp")
  /\ LET sent == Encrypted(IF HasKeys(link.server) THEN server.key ELSE NoKey, client.login)
         otp == IF HasKeys(link.server) THEN Decrypt(filter.server, sent) ELSE sent.text
         converted == Encrypted(IF HasKeys(link.client) THEN filter.client ELSE NoKey, otp)
     IN  client' = [client EXCEPT !.state = "done",
                      !.otp = IF HasKeys(link.client) THEN Decrypt(client.key, converted) ELSE converted.text]
  /\ server' = Taken
  /\ UNCHANGED <<filter, passed>>

Auth ==
  /\ link.type = "auth"
  /\ CA_RSA_PUBLIC_KEY \/ CA_ACCOUNT \/ AC_AES_KEY_IV \/ AC_RESULT \/ AC_SELECT_SERVER
  /\ UNCHANGED <<link, reloads>>

-----------------------------------------------------------------------------
(* convertGamePacketAndSend *)

\* Packets got other identifiers in EPIC_9_6_3: here the name and which it is.
IdOf(name, version) == <<name, version >= EPIC_9_6_3>>

\* processPacket<ConvertPacketId>
ConvertPacketId(id, version, target) ==
  IF id = IdOf(id[1], version) THEN IdOf(id[1], target) ELSE id

\* What a client, or a server, of an epic sends; what layouts have is as they have it.
Sent(from, v) ==
  IF from = "client"
  THEN [kind : {"version"}, number : BOOLEAN, payload : {v >= EPIC_9_5_2}]
       \cup [kind : {"login"}, payload : {v >= EPIC_9_5_2}]
       \cup [kind : IF v >= EPIC_9_5_2 THEN {"report"} ELSE {}]
       \cup [kind : {"check illegal user", "account with auth", "known", "dummy", "unknown", "unreadable"}]
       \cup [kind : {"region update"}, time : IF v >= EPIC_9_3 THEN {"none"} ELSE {"client's"}]
  ELSE [kind : {"result"}, id : {IdOf("p", v)}]
       \cup [kind : {"login result"}, result : IF v < EPIC_7_1 THEN {0, 1} ELSE {0, 1, 2}]
       \cup [kind : {"state"}, code : {1001, 5}]
       \cup [kind : {"enter"}, player : BOOLEAN, energy : {IF v >= EPIC_4_1 THEN <<1, 0>> ELSE <<0, 1>>}]
       \cup [kind : {"move", "move ack", "known", "dummy", "unknown", "unreadable"}]

Success == 0
DbError == 8

\* The packets that are sent instead of one that is read.
Converted(m, v, t) ==
  CASE m.kind = "version" ->
         <<[m EXCEPT !.payload = t >= EPIC_9_5_2]>> \o (IF t >= EPIC_9_5_2 THEN <<[kind |-> "report"]>> ELSE << >>)
    [] m.kind = "login" -> <<[m EXCEPT !.payload = t >= EPIC_9_5_2 /\ (v < EPIC_9_5_2 \/ @)]>>
    [] m.kind = "report" -> IF t >= EPIC_9_5_2 THEN << >> ELSE <<m>>
    [] m.kind \in {"check illegal user", "dummy"} -> << >>
    [] m.kind = "region update" ->
         <<IF v >= EPIC_9_3 /\ t < EPIC_9_3 THEN [m EXCEPT !.time = filter.start] ELSE m>>
    [] m.kind = "result" -> <<[m EXCEPT !.id = ConvertPacketId(@, v, t)]>>
    [] m.kind = "login result" ->
         LET result == IF v < EPIC_7_1 THEN (IF m.result # 0 THEN Success ELSE DbError) ELSE m.result
         IN  <<[m EXCEPT !.result = IF t >= EPIC_7_1 THEN result ELSE IF result = Success THEN 1 ELSE 0]>>
    [] m.kind = "state" -> <<[m EXCEPT !.code = IF t <= EPIC_3 THEN 1001 ELSE @]>>
    [] m.kind = "enter" ->
         <<IF ~m.player THEN m ELSE [m EXCEPT !.energy = IF v >= EPIC_4_1 THEN <<@[1], @[1]>> ELSE <<@[2], @[2]>>]>>
    [] OTHER -> <<m>>

Kinds(packets, kind) == Len(SelectSeq(packets, LAMBDA m : m.kind = kind))

\* onClientPacket and onServerPacket; what is not understood is passed on as it
\* is unless that is forbidden.
convertPacketAndSend(from) ==
  LET v == IF from = "client" THEN link.client ELSE link.server
      t == IF from = "client" THEN link.server ELSE link.client
  IN  /\ link.type = "game"
      /\ \E m \in Sent(from, v) :
           LET raw == m.kind \in {"unknown", "unreadable"} /\ ~link.strict
               out == IF m.kind \in {"unknown", "unreadable"} THEN << >> ELSE Converted(m, v, t)
           IN  /\ (m.kind = "version" => passed.versions = 0) /\ (m.kind = "report" => passed.versions = 1)
               /\ passed' = [from |-> from, in |-> <<m>>, out |-> out, raw |-> raw,
                             versions |-> passed.versions + Kinds(<<m>>, "version"),
                             reports |-> IF from = "client" THEN passed.reports + Kinds(out, "report") ELSE passed.reports]
               /\ passed'.reports <= 2
               /\ filter' = [filter EXCEPT !.start = IF m.kind \in {"move", "move ack"} THEN "last move" ELSE @]
      /\ UNCHANGED <<link, client, server, reloads>>

Next ==
  \/ createFilter \/ Auth
  \/ \E from \in {"client", "server"} : convertPacketAndSend(from)

-----------------------------------------------------------------------------
(* Properties *)

\* A password arrives as it was typed, in the packet it was typed for, unless
\* the filter was made anew during the login.
PasswordArrives ==
  \A a \in {server.accounts[i] : i \in DOMAIN server.accounts} :
    client.whole /\ a.login = client.login => a.password = a.login /\ a.kind = client.kind

\* So does the one time password, except that of a bora account: then the
\* filter never takes the server's key.
OtpArrives ==
  client.state = "done" /\ client.whole /\ ~(client.kind = "bora" /\ HasKeys(link.server)) => client.otp = client.login

\* What a client or server of an epic makes of a packet.
Reads(m, v) ==
  CASE m.kind = "login result" -> IF v < EPIC_7_1 THEN m.result # 0 ELSE m.result = Success
    [] m.kind = "enter" -> m.player /\ (IF v >= EPIC_4_1 THEN m.energy[1] ELSE m.energy[2]) = 1
    [] m.kind = "result" -> m.id = IdOf("p", v)
    [] m.kind \in {"login", "version"} -> v >= EPIC_9_5_2 => m.payload
    [] m.kind = "state" -> v <= EPIC_3 \/ m.code = 1001
    [] OTHER -> TRUE

\* What is converted says the same to its receiver, except state codes that old
\* clients have not, and a server that wants reports gets one for each version.
GameConverted ==
  LET v == IF passed.from = "client" THEN link.client ELSE link.server
      t == IF passed.from = "client" THEN link.server ELSE link.client
  IN  /\ passed.in # << >> /\ passed.out # << >> /\ passed.in[1].kind = passed.out[1].kind
           /\ (passed.in[1].kind = "state" => v > EPIC_3 /\ t > EPIC_3) =>
             Reads(passed.in[1], v) = Reads(passed.out[1], t)
      /\ link.server >= EPIC_9_5_2 => passed.reports = passed.versions
      /\ passed.raw => ~link.strict

LoginBridged == PasswordArrives /\ OtpArrives /\ GameConverted
=============================================================================
