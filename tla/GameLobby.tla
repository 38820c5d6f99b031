------------------------------ MODULE GameLobby ------------------------------
(***************************************************************************)
(* rzgame: the sessions of clients, from the login that the auth server    *)
(* confirms, through the lobby and the loading of a character, to the      *)
(* game.  Everything but the database runs on the event loop; a query is   *)
(* queued by a handler, executed by a worker thread, and answered on the   *)
(* event loop unless its handler is gone (DbQueryJobRef).                  *)
(*                                                                         *)
(* Characters are known by their sid, which is their place in made; packets *)
(* that only make the server answer are left out.  The program is gone     *)
(* (dead) after it follows a null pointer or one to a deleted session:     *)
(* nothing is claimed of what it does then.  Uncounted is a mutated form  *)
(* of the definition that follows it.                                      *)
(***************************************************************************)
EXTENDS Naturals, Sequences, FiniteSets

CONSTANTS
  Sessions,       \* ClientSession objects, 1 .. n in the order in which they are accepted
  Accounts,
  Names,          \* names of characters
  MaxCharacters,  \* free slots of the lobby (6)
  MaxQueries,     \* bound: queries at a time
  MaxMade,        \* bound: characters ever created
  MaxLosses       \* bound: lost connections to the auth server

VARIABLES
  cs,       \* the sessions, with their connectionHandler
  auth,     \* AuthServerSession: pendingClients, and the requests on their way
  online,   \* the accounts that the auth server counts as in this game
  queries,  \* queries that are queued, executed, or wait for their callback
  db,       \* the characters stored: sid and name
  made,     \* sid -> account that created it, of all characters ever stored
  handles,  \* ModelObject: nextHandle and freeHandles
  dead

vars == <<cs, auth, online, queries, db, made, handles, dead>>

\* The empty string: no account, and no name.
None == "none"

\* What a client may write where a name is expected.
AnyName == Names \union {None}

Fresh ==
  [state |-> "none", authReceived |-> FALSE, account |-> None, handler |-> "none", populated |-> FALSE,
   list |-> {}, validated |-> None, sid |-> 0, handle |-> 0]

\* The names of the characters that are there at the start, in one order.
FirstNames ==
  CHOOSE f \in [1 .. Cardinality(Names) -> Names] : \A i, j \in DOMAIN f : i # j => f[i] # f[j]

NoAuth == [pending |-> [a \in Accounts |-> 0], asked |-> {}, losses |-> 0]

Init ==
  /\ cs = [s \in Sessions |-> Fresh] /\ auth = NoAuth
  /\ online = {} /\ queries = {}
  /\ made \in [1 .. Cardinality(Names) -> Accounts]
  /\ db = {[sid |-> i, name |-> FirstNames[i]] : i \in DOMAIN made}
  /\ handles = [next |-> 0, free |-> << >>]
  /\ dead = FALSE

\* The program ends, and all that it had in memory.
Crash ==
  /\ dead' = TRUE
  /\ cs' = [s \in Sessions |-> Fresh] /\ auth' = NoAuth /\ online' = {} /\ queries' = {}
  /\ handles' = [next |-> 0, free |-> << >>]
  /\ UNCHANGED <<db, made>>

-----------------------------------------------------------------------------
(* Queries *)

\* A query calls back while the handler that asked is there.
Live(q) == cs[q.s].state \in {"open", "closing"} /\ cs[q.s].handler = q.h

Uncounted(s) == \E q \in queries : q.s = s /\ Live(q) /\ q.kind # "create"

InProgress(s) == \E q \in queries : q.s = s /\ Live(q)

Free(Q) == CHOOSE n \in 1 .. MaxQueries : \A q \in Q : q.n # n

\* executeDbQuery, with the queries that remain: the input has the account of the
\* session that asks.
executeDbQuery(Q, s, h, kind, arg) ==
  /\ Cardinality(Q) < MaxQueries
  /\ queries' = Q \union {[n |-> Free(Q), s |-> s, h |-> h, by |-> cs[s].account, kind |-> kind, arg |-> arg,
                                  done |-> FALSE, rows |-> {}]}

\* smp_read_character_list.
ReadList(a) == {c \in db : made[c.sid] = a}
FindName(n) == {c \in db : c.name = n}
ReadCharacter(sid) == {c \in db : c.sid = sid}

\* What the characters wear and own is not told apart.
ReadWear(a) == {}
ReadItems(sid) == {}

Rows(q) ==
  CASE q.kind = "list" -> ReadList(q.by)
    [] q.kind = "wear" -> ReadWear(q.by)
    [] q.kind = "name" -> FindName(q.arg)
    [] q.kind = "character" -> ReadCharacter(q.arg)
    [] q.kind = "items" -> ReadItems(q.arg)
    [] OTHER -> {}

\* smp_insert_character: no character when the name is taken.
Insert(n, a) ==
  IF FindName(n) = {} /\ Len(made) < MaxMade
  THEN db' = db \union {[sid |-> Len(made) + 1, name |-> n]} /\ made' = Append(made, a)
  ELSE UNCHANGED <<db, made>>

\* smp_delete_character knows the character by its name.
Delete(n) == db' = db \ FindName(n) /\ UNCHANGED made

\* A worker thread executes a query; one that fails has no rows.  One that was
\* cancelled while it waited may still be executed, for the account that asked:
\* that matters when it writes.
Execute(q, ok) ==
  /\ ~dead /\ q \in queries /\ ~q.done /\ (Live(q) \/ q.kind \in {"create", "delete"})
  /\ queries' = (queries \ {q}) \union {[q EXCEPT !.done = TRUE, !.rows = IF ok THEN Rows(q) ELSE {}]}
  /\ CASE ok /\ q.kind = "create" -> Insert(q.arg, q.by)
       [] ok /\ q.kind = "delete" -> Delete(q.arg)
       [] OTHER -> UNCHANGED <<db, made>>
  /\ UNCHANGED <<cs, auth, online, handles, dead>>

\* A cancelled query, executed or not, is deleted without a callback.
Cancelled(q) ==
  /\ ~dead /\ q \in queries /\ ~Live(q)
  /\ queries' = queries \ {q}
  /\ UNCHANGED <<cs, auth, online, db, made, handles, dead>>

-----------------------------------------------------------------------------
(* Login *)

Accept(s) ==
  /\ ~dead /\ cs[s].state = "none" /\ \A t \in Sessions : t < s => cs[t].state # "none"
  /\ cs' = [cs EXCEPT ![s].state = "open"]
  /\ UNCHANGED <<auth, online, queries, db, made, handles, dead>>

\* loginClient: a second login of an account that waits is ignored, and its
\* session will never hear of it.
loginClient(s, a) ==
  auth' = IF auth.pending[a] # 0 THEN auth
          ELSE [auth EXCEPT !.pending[a] = s, !.asked = @ \union {a}]

onAccountWithAuth(s, a) ==
  /\ ~dead /\ cs[s].state = "open" /\ cs[s].account = None
  /\ IF ~cs[s].authReceived
     THEN cs' = [cs EXCEPT ![s].authReceived = TRUE] /\ loginClient(s, a)
     ELSE cs' = [cs EXCEPT ![s].state = "closing"] /\ UNCHANGED auth
  /\ UNCHANGED <<online, queries, db, made, handles, dead>>

onAccountLoginResult(s, a, ok) ==
  cs' = IF ok THEN [cs EXCEPT ![s].account = a, ![s].handler = "lobby"] ELSE cs

\* The auth server admits an account that it does not count as in the game.
\* The session that asked may be deleted by now: nothing takes it out of
\* pendingClients.
onClientLoginResult(a, ok) ==
  /\ ~dead /\ a \in auth.asked /\ (ok => a \notin online)
  /\ \E s \in {auth.pending[a]} :
       IF cs[s].state = "gone" THEN Crash
       ELSE /\ auth' = [auth EXCEPT !.asked = @ \ {a}, !.pending[a] = 0]
            /\ online' = IF ok THEN online \union {a} ELSE online
            /\ onAccountLoginResult(s, a, ok)
            /\ UNCHANGED <<queries, db, made, handles, dead>>

\* The requests on their way are lost with the connection; pendingClients stays, and
\* the auth server forgets which accounts are here.
AuthLost ==
  /\ ~dead /\ auth.losses < MaxLosses
  /\ auth' = [auth EXCEPT !.asked = {}, !.losses = @ + 1]
  /\ online' = {}
  /\ UNCHANGED <<cs, queries, db, made, handles, dead>>

-----------------------------------------------------------------------------
(* Lobby *)

InLobby(s) == ~dead /\ cs[s].state = "open" /\ cs[s].handler = "lobby"

onCharacterListQuery(s) ==
  /\ InLobby(s)
  /\ executeDbQuery(queries, s, "lobby", "list", None)
  /\ UNCHANGED <<cs, auth, online, db, made, handles, dead>>

\* A name that is too short or too long, badly encoded or banned is not looked up.
onCheckCharacterName(s, n, fine) ==
  /\ InLobby(s)
  /\ cs' = [cs EXCEPT ![s].validated = None]
  /\ IF fine THEN executeDbQuery(queries, s, "lobby", "name", n) ELSE UNCHANGED queries
  /\ UNCHANGED <<auth, online, db, made, handles, dead>>

\* Only the name that was looked up last is accepted.  Before any was, and after
\* one was used, that is the empty name, which nobody looked up.
onCreateCharacter(s, n) ==
  /\ InLobby(s) /\ n = cs[s].validated /\ ~InProgress(s)
  /\ cs[s].populated /\ Cardinality(cs[s].list) < MaxCharacters
  /\ cs' = [cs EXCEPT ![s].validated = None]
  /\ executeDbQuery(queries, s, "lobby", "create", n)
  /\ UNCHANGED <<auth, online, db, made, handles, dead>>

\* The name is looked for in the list that the session has, however old.
onDeleteCharacter(s, n) ==
  /\ InLobby(s) /\ \E c \in cs[s].list : c.name = n
  /\ executeDbQuery(queries, s, "lobby", "delete", n)
  /\ UNCHANGED <<cs, auth, online, db, made, handles, dead>>

\* The lobby, its list and what it asks end; the character is asked for.
lobbyExitResult(s, sid) ==
  /\ cs' = [cs EXCEPT ![s].handler = "loading", ![s].sid = sid, ![s].list = {}, ![s].validated = None,
                      ![s].populated = FALSE]
  /\ executeDbQuery(queries, s, "loading", "character", sid)

\* A name that is not in the list leads to a null pointer.  No Character is ever
\* found by its sid, since its constructor does not add it to dataObjectsBySid: a
\* character that already plays is loaded again.
onCharacterLogin(s, n) ==
  /\ InLobby(s)
  /\ IF \A c \in cs[s].list : c.name # n THEN Crash
     ELSE \E c \in {x \in cs[s].list : x.name = n} :
            /\ lobbyExitResult(s, c.sid)
            /\ UNCHANGED <<auth, online, db, made, handles, dead>>

-----------------------------------------------------------------------------
(* What the callbacks of the queries do *)

onCharacterListResult(q) ==
  /\ cs' = [cs EXCEPT ![q.s].list = q.rows, ![q.s].populated = TRUE]
  /\ executeDbQuery(queries \ {q}, q.s, "lobby", "wear", None)
  /\ UNCHANGED handles

\* A query that failed has found no such name either.
onCheckCharacterNameExistsResult(q) ==
  /\ cs' = IF q.rows = {} THEN [cs EXCEPT ![q.s].validated = q.arg] ELSE cs
  /\ queries' = queries \ {q} /\ UNCHANGED handles

\* These send an answer; the list of the session stays as it is.
Answered(q) == queries' = queries \ {q} /\ UNCHANGED <<cs, handles>>
onCharacterWearInfoResult(q) == Answered(q)
onCreateCharacterResult(q) == Answered(q)
onDeleteCharacterResult(q) == Answered(q)

\* allocHandle: the handle freed last, or the next one.
allocHandle == IF handles.free = << >> THEN handles.next + 1 ELSE handles.free[Len(handles.free)]

Allocated ==
  IF handles.free = << >> THEN [handles EXCEPT !.next = @ + 1]
  ELSE [handles EXCEPT !.free = SubSeq(@, 1, Len(@) - 1)]

playerLoadingResult(s, ok) == cs' = IF ok THEN [cs EXCEPT ![s].handler = "game"] ELSE [cs EXCEPT ![s].state = "closing"]

onCharacterResult(q) ==
  IF q.rows # {}
  THEN /\ cs' = [cs EXCEPT ![q.s].handle = allocHandle]
       /\ handles' = Allocated
       /\ executeDbQuery(queries \ {q}, q.s, "loading", "items", q.arg)
  ELSE /\ playerLoadingResult(q.s, FALSE)
       /\ queries' = queries \ {q} /\ UNCHANGED handles

onItemListResult(q) ==
  /\ playerLoadingResult(q.s, TRUE)
  /\ queries' = queries \ {q} /\ UNCHANGED handles

Callback(q) ==
  /\ ~dead /\ q \in queries /\ q.done /\ Live(q)
  /\ CASE q.kind = "list" -> onCharacterListResult(q)
       [] q.kind = "name" -> onCheckCharacterNameExistsResult(q)
       [] q.kind = "character" -> onCharacterResult(q)
       [] q.kind = "items" -> onItemListResult(q)
       [] q.kind = "wear" -> onCharacterWearInfoResult(q)
       [] q.kind = "create" -> onCreateCharacterResult(q)
       [] q.kind = "delete" -> onDeleteCharacterResult(q)
  /\ UNCHANGED <<auth, online, db, made, dead>>

-----------------------------------------------------------------------------
(* The end of a session *)

ClientCloses(s) ==
  /\ ~dead /\ cs[s].state = "open"
  /\ cs' = [cs EXCEPT ![s].state = "closing"]
  /\ UNCHANGED <<auth, online, queries, db, made, handles, dead>>

\* ~ClientSession tells the auth server; ~ModelObject gives the handle back.
Destroy(s) ==
  /\ ~dead /\ cs[s].state = "closing"
  /\ cs' = [cs EXCEPT ![s] = [Fresh EXCEPT !.state = "gone"]]
  /\ online' = online \ {cs[s].account}
  /\ handles' = IF cs[s].handle = 0 THEN handles ELSE [handles EXCEPT !.free = Append(@, cs[s].handle)]
  /\ UNCHANGED <<auth, queries, db, made, dead>>

Next ==
  \/ \E s \in Sessions : Accept(s) \/ ClientCloses(s) \/ Destroy(s) \/ onCharacterListQuery(s)
  \/ \E s \in Sessions, a \in Accounts : onAccountWithAuth(s, a)
  \/ \E a \in Accounts, ok \in BOOLEAN : onClientLoginResult(a, ok)
  \/ AuthLost
  \/ \E s \in Sessions, n \in AnyName : onCreateCharacter(s, n) \/ onDeleteCharacter(s, n) \/ onCharacterLogin(s, n)
  \/ \E s \in Sessions, n \in Names, fine \in BOOLEAN : onCheckCharacterName(s, n, fine)
  \/ \E q \in queries, ok \in BOOLEAN : Execute(q, ok)
  \/ \E q \in queries : Callback(q) \/ Cancelled(q)

Spec == Init /\ [][Next]_vars

-----------------------------------------------------------------------------
(* Properties *)

Alive == {s \in Sessions : cs[s].state \in {"open", "closing"}}

\* Sessions are kept: an account is in the game with one session while the auth server
\* remembers it; what a session lists, loads and plays was made by its account; no two
\* characters have one handle, or one name, however long ago it was looked up; a session
\* creates one character at a time; and every answer that is to come from the auth server
\* has somebody registered for it.
LobbyKept ==
  /\ \A s \in Alive : cs[s].account # None /\ auth.losses = 0 =>
       cs[s].account \in online /\ \A t \in Alive \ {s} : cs[t].account # cs[s].account
  /\ \A s \in Alive : /\ \A c \in cs[s].list : made[c.sid] = cs[s].account
                      /\ cs[s].handler \in {"loading", "game"} => made[cs[s].sid] = cs[s].account
                      /\ cs[s].handler = "game" => cs[s].handle # 0
  /\ \A s, t \in Alive : cs[s].handle # 0 /\ s # t => cs[s].handle # cs[t].handle
  /\ \A s \in Alive : \A i \in DOMAIN handles.free : cs[s].handle # handles.free[i]
  /\ \A c, d \in db : c.name = d.name => c = d
  /\ \A p, q \in queries : p.kind = "create" /\ q.kind = "create" /\ p.s = q.s => p = q
  /\ \A a \in auth.asked : auth.pending[a] # 0 /\ cs[auth.pending[a]].account = None
=============================================================================
