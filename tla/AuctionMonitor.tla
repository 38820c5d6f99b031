--------------------------- MODULE AuctionMonitor ---------------------------
(***************************************************************************)
(* rzauctionmonitor: the auction manager hands the pages of one category   *)
(* of the auction house after the other to its workers, each a game        *)
(* client that connects, asks for a page, waits, and connects again when   *)
(* it is disconnected.  The accounts may be reloaded at any time: the      *)
(* workers are stopped and new ones started.                               *)
(*                                                                         *)
(* A worker's two sessions (module ClientSessions) are one link here:      *)
(*   waiting     both unconnected, delayRecoTimer runs                     *)
(*   connecting  on the way to the game                                    *)
(*   open        connected to the game server                              *)
(*   shutting    closed by close(): what the server sent is still read     *)
(*   aborted     closed by abortSession(): nothing is read any more        *)
(***************************************************************************)
EXTENDS Naturals, FiniteSets, Sequences

CONSTANTS Workers,      \* the accounts of the account file, in its order: numbers
          Categories,   \* CATEGORY_MAX_INDEX
          MaxPages,     \* bound on the pages of a category
          MaxFaults,    \* bound on refused searches, lost connections, timeouts
          MaxReloads,   \* bound on client.reload_accounts
          Null

VARIABLES
  pending,          \* pendingRequests
  totalPages,
  category,         \* currentCategory
  clients,
  stopping,         \* stoppingClients
  workers,          \* each AuctionWorker
  accounts,         \* reloadingAccounts, accountReloadTimer, stopped
  answered,         \* history: the pages of the category that were answered
  mixed,            \* history: a category ended with a page of it still asked
  budget            \* faults and reloads left

vars == <<pending, totalPages, category, clients, stopping, workers, accounts, answered, mixed, budget>>

Requests == (0 .. Categories - 1) \X (1 .. MaxPages)
Links == {"waiting", "connecting", "open", "shutting", "aborted"}

Worker == [link : Links, isConnected : BOOLEAN, idle : BOOLEAN, request : Requests \cup {Null},
           sent : BOOLEAN, delay : BOOLEAN]

\* A worker that AuctionWorker::start has started.
NewWorker == [link |-> "connecting", isConnected |-> FALSE, idle |-> TRUE, request |-> Null,
              sent |-> FALSE, delay |-> FALSE]

Init ==
  /\ pending = <<<<0, 1>>>> /\ totalPages = 1 /\ category = 0
  /\ clients = Workers /\ stopping = {}
  /\ workers = [w \in Workers |-> NewWorker]
  /\ accounts = [reloading |-> FALSE, timer |-> FALSE, stopped |-> FALSE]
  /\ answered = {} /\ mixed = FALSE
  /\ budget = [faults |-> MaxFaults, reloads |-> MaxReloads]

Alive == clients \cup stopping
Fault == budget.faults > 0 /\ budget' = [budget EXCEPT !.faults = @ - 1]

-----------------------------------------------------------------------------
(* Requests *)

\* The clients that wakeUp makes search.
Wakeable(ws) == {w \in clients : ws[w].request = Null /\ ws[w].isConnected /\ ws[w].idle}

\* doAuctionSearch with a request; a stream that is closed drops the packet.
Searching(worker, r) ==
  [worker EXCEPT !.request = r, !.sent = worker.link = "open", !.idle = FALSE]

\* addRequest, wakeUp and getNextRequest: the idle clients take
\* the pending requests in the order of clients.
Hand(requests, ws) ==
  LET rank(w) == Cardinality({v \in Wakeable(ws) : v <= w})
      takers == {w \in Wakeable(ws) : rank(w) <= Len(requests)}
  IN [pending |-> SubSeq(requests, Cardinality(takers) + 1, Len(requests)),
      workers |-> [w \in Workers |-> IF w \in takers THEN Searching(ws[w], requests[rank(w)]) ELSE ws[w]]]

HandOut(requests, ws) ==
  \E h \in {Hand(requests, ws)} : pending' = h.pending /\ workers' = h.workers

\* isAllRequestProcessed: only the clients are looked at.
isAllRequestProcessed(ws) == pending = << >> /\ \A w \in clients : ws[w].request = Null

Drops(r) == pending

\* onAuctionSearchCompleted of a failure: no worker is woken up.
Requeued(r) == <<r>> \o pending

\* onAllRequestProcessed.
NextCategory(ws) ==
  \E c \in {(category + 1) % Categories} :
    /\ category' = c /\ totalPages' = 1 /\ answered' = {}
    /\ mixed' = (mixed \/ \E w \in stopping : ws[w].request # Null)
    /\ HandOut(Append(pending, <<c, 1>>), ws)

\* onAuctionSearchCompleted of a success, with the pages the server counts; the
\* new pages are of the request's category.
Completed(r, pageTotal, ws) ==
  IF pageTotal > totalPages
  THEN /\ totalPages' = pageTotal
       /\ answered' = answered \cup {r[2]}
       /\ HandOut(pending \o [i \in 1 .. pageTotal - totalPages |-> <<r[1], totalPages + i>>], ws)
       /\ UNCHANGED <<category, mixed>>
  ELSE IF isAllRequestProcessed(ws)
  THEN NextCategory(ws)
  ELSE /\ answered' = answered \cup {r[2]}
       /\ workers' = ws
       /\ UNCHANGED <<pending, totalPages, category, mixed>>

-----------------------------------------------------------------------------
(* AuctionWorker and its sessions *)

\* A search that was answered: auctionDelayTimer is started.
Delayed(worker) == [worker EXCEPT !.request = Null, !.sent = FALSE, !.delay = TRUE]

\* AuctionWorker::onDisconnected, without the request's way back.
Offline(worker) ==
  [worker EXCEPT !.isConnected = FALSE, !.idle = TRUE, !.request = Null, !.sent = FALSE, !.delay = FALSE]

\* Its request's way back.
GivenBack(w) == IF workers[w].request = Null THEN pending ELSE Requeued(workers[w].request)

\* onAuctionTimer: the worker takes the next request, if there is one.
Takes(w, worker) ==
  IF worker.request = Null /\ worker.isConnected /\ pending # << >>
  THEN /\ workers' = [workers EXCEPT ![w] = Searching(worker, Head(pending))]
       /\ pending' = Tail(pending)
  ELSE workers' = [workers EXCEPT ![w] = [worker EXCEPT !.idle = TRUE]] /\ UNCHANGED pending

\* onCharacterLoginResult, setConnected(true), onConnected.
onConnected(w) ==
  /\ w \in Alive /\ workers[w].link = "connecting"
  /\ Takes(w, [workers[w] EXCEPT !.link = "open", !.isConnected = TRUE, !.idle = TRUE])
  /\ UNCHANGED <<totalPages, category, clients, stopping, accounts, answered, mixed, budget>>

\* A connection that fails, or that onReconnectTimer gives up.
ConnectFails(w) ==
  /\ w \in Alive /\ workers[w].link = "connecting" /\ Fault
  /\ workers' = [workers EXCEPT ![w].link = "aborted"]
  /\ UNCHANGED <<pending, totalPages, category, clients, stopping, accounts, answered, mixed>>

Reads(w) == w \in Alive /\ workers[w].link \in {"open", "shutting"}

\* onAuctionSearchResult; then abortSession if onGGPreventionTimerExpired has
\* set shouldReconnect.
onAuctionSearchResult(w, pageTotal, shouldReconnect) ==
  /\ Reads(w) /\ workers[w].sent
  /\ IF shouldReconnect THEN Fault ELSE UNCHANGED budget
  /\ Completed(workers[w].request, pageTotal,
               [workers EXCEPT ![w] = [Delayed(workers[w]) EXCEPT !.link = IF shouldReconnect THEN "aborted" ELSE @]])
  /\ UNCHANGED <<clients, stopping, accounts>>

\* onAuctionSearchFailed.
onAuctionSearchFailed(w) ==
  /\ Reads(w) /\ workers[w].sent /\ Fault
  /\ pending' = Requeued(workers[w].request)
  /\ workers' = [workers EXCEPT ![w] = Delayed(@)]
  /\ UNCHANGED <<totalPages, category, clients, stopping, accounts, answered, mixed>>

\* onAuctionSearchTimer.
onAuctionSearchTimer(w) ==
  /\ w \in Alive /\ workers[w].request # Null /\ workers[w].link \in {"open", "shutting"}
  /\ workers[w].sent => budget.faults > 0
  /\ budget' = [budget EXCEPT !.faults = @ - (IF workers[w].sent THEN 1 ELSE 0)]
  /\ workers' = [workers EXCEPT ![w].link = "aborted"]
  /\ UNCHANGED <<pending, totalPages, category, clients, stopping, accounts, answered, mixed>>

\* auctionDelayTimer expires.
onAuctionDelay(w) ==
  /\ w \in Alive /\ workers[w].delay
  /\ Takes(w, [workers[w] EXCEPT !.delay = FALSE])
  /\ UNCHANGED <<totalPages, category, clients, stopping, accounts, answered, mixed, budget>>

\* onGGTimerExpired.
onGGTimerExpired(w) ==
  /\ w \in Alive /\ workers[w].link = "open" /\ Fault
  /\ workers' = [workers EXCEPT ![w].link = "shutting"]
  /\ UNCHANGED <<pending, totalPages, category, clients, stopping, accounts, answered, mixed>>

\* TS_SC_DISCONNECT_DESC: setConnected(false) and abortSession.
onDisconnectDesc(w) ==
  /\ Reads(w) /\ Fault
  /\ pending' = GivenBack(w)
  /\ workers' = [workers EXCEPT ![w] = [Offline(@) EXCEPT !.link = "aborted"]]
  /\ UNCHANGED <<totalPages, category, clients, stopping, accounts, answered, mixed>>

\* onClientStopped of the last one starts accountReloadTimer.
onClientStopped(w) ==
  /\ stopping' = stopping \ {w}
  /\ accounts' = [accounts EXCEPT !.timer = @ \/ (stopping' = {} /\ ~accounts.stopped)]

GivesUp(worker) == [Offline(worker) EXCEPT !.link = "aborted"]

\* onAuthDisconnected or onGameDisconnected: delayedConnect.
WillConnect(worker) == [Offline(worker) EXCEPT !.link = "waiting"]

\* The stream is closed, by the peer too: GameSession::onGameDisconnected, then
\* AuthSession::onGameDisconnected.
onDisconnected(w) ==
  /\ w \in Alive /\ workers[w].link \in {"open", "shutting", "aborted"}
  /\ IF workers[w].link = "open" THEN Fault ELSE UNCHANGED budget
  /\ pending' = GivenBack(w)
  /\ workers' = [workers EXCEPT ![w] = WillConnect(@)]
  /\ IF w \in stopping THEN onClientStopped(w) ELSE UNCHANGED <<stopping, accounts>>
  /\ UNCHANGED <<totalPages, category, clients, answered, mixed>>

\* onDelayRecoExpired; disconnect stops the timer.
onDelayRecoExpired(w) ==
  /\ w \in clients /\ workers[w].link = "waiting"
  /\ workers' = [workers EXCEPT ![w].link = "connecting"]
  /\ UNCHANGED <<pending, totalPages, category, clients, stopping, accounts, answered, mixed, budget>>

-----------------------------------------------------------------------------
(* Accounts *)

\* AuctionWorker::stop: ClientAuthSession::close closes what is connected.  A
\* worker that waits to connect again has nothing to close and never calls back.
Stopped(worker) ==
  [worker EXCEPT !.link = CASE @ = "open" -> "shutting" [] @ = "connecting" -> "aborted" [] OTHER -> @]

stopClients ==
  /\ stopping' = Alive /\ clients' = {}
  /\ workers' = [w \in Workers |-> IF w \in Alive THEN Stopped(workers[w]) ELSE workers[w]]

\* onReloadAccounts and reloadAccounts; without a client the accounts are
\* loaded at once and reloadingAccounts stays set.  The file may be missing.
reloadAccounts ==
  /\ stopping = {} /\ ~accounts.reloading /\ ~accounts.stopped
  /\ budget.reloads > 0 /\ budget' = [budget EXCEPT !.reloads = @ - 1]
  /\ accounts' = [accounts EXCEPT !.reloading = TRUE]
  /\ IF clients # {} THEN stopClients
     ELSE /\ clients' = Workers /\ workers' = [w \in Workers |-> NewWorker] /\ UNCHANGED stopping
  /\ UNCHANGED <<pending, totalPages, category, answered, mixed>>

\* onAccountReloadTimer; stop does not stop this timer.  The file may be missing.
onAccountReloadTimer(found) ==
  /\ accounts.timer
  /\ accounts' = [accounts EXCEPT !.timer = FALSE, !.reloading = FALSE]
  /\ clients' = IF found THEN Workers ELSE {}
  /\ workers' = IF found THEN [w \in Workers |-> NewWorker] ELSE workers
  /\ UNCHANGED <<pending, totalPages, category, stopping, answered, mixed, budget>>

\* stop.
stop ==
  /\ ~accounts.stopped /\ accounts' = [accounts EXCEPT !.stopped = TRUE]
  /\ stopClients
  /\ UNCHANGED <<pending, totalPages, category, answered, mixed, budget>>

-----------------------------------------------------------------------------
Step(w) ==
  \/ onConnected(w)
  \/ \E n \in 0 .. MaxPages : onAuctionSearchResult(w, n, FALSE)
  \/ onAuctionSearchTimer(w)
  \/ onAuctionDelay(w)
  \/ onDisconnected(w)
  \/ onDelayRecoExpired(w)

Fails(w) ==
  \/ ConnectFails(w)
  \/ \E n \in 0 .. MaxPages : onAuctionSearchResult(w, n, TRUE)
  \/ onAuctionSearchFailed(w)
  \/ onGGTimerExpired(w)
  \/ onDisconnectDesc(w)

Next ==
  \/ \E w \in Workers : Step(w) \/ Fails(w)
  \/ reloadAccounts
  \/ \E found \in BOOLEAN : onAccountReloadTimer(found)
  \/ stop

Spec == Init /\ [][Next]_vars

\* A worker's connection attempts end, the server answers or the search times
\* out, timers expire; the manager's timer expires too.
FairSpec ==
  /\ Spec
  /\ \A w \in Workers : WF_vars(Step(w))
  /\ WF_vars(\E found \in BOOLEAN : onAccountReloadTimer(found))

-----------------------------------------------------------------------------
TypeOK ==
  /\ pending \in Seq(Requests) /\ totalPages \in 1 .. MaxPages /\ category \in 0 .. Categories - 1
  /\ clients \subseteq Workers /\ stopping \subseteq Workers
  /\ workers \in [Workers -> Worker]
  /\ accounts \in [reloading : BOOLEAN, timer : BOOLEAN, stopped : BOOLEAN]
  /\ answered \subseteq 1 .. MaxPages /\ mixed \in BOOLEAN
  /\ budget \in [faults : 0 .. MaxFaults, reloads : 0 .. MaxReloads]

\* How often a request waits or is held by a worker.
Copies(r) == Cardinality({i \in DOMAIN pending : pending[i] = r})
               + Cardinality({w \in Alive : workers[w].request = r})

\* Every page of the current category is answered, or asked by one worker, or
\* waits once in pendingRequests, and no page of another category is asked:
\* disconnections, refusals, timeouts and reloads lose no page and ask none
\* twice.  A category that ends while a stopping worker still holds a page of it
\* (isAllRequestProcessed does not look at stoppingClients) ends this.
PagesAccounted ==
  ~mixed => \A r \in Requests :
              Copies(r) = IF r[1] = category /\ r[2] <= totalPages /\ r[2] \notin answered THEN 1 ELSE 0

\* A page waits only while some client has something ahead of it that will take
\* it: its search's end, its delay timer or its connection.  A failed request is
\* put back without waking the idle workers up.
NoSleeper ==
  pending # << >> /\ clients # {} =>
    \E w \in clients : workers[w].request # Null \/ workers[w].delay \/ ~workers[w].isConnected

\* Every page that is due has exactly one place, and somebody who will take it.
PagesKept == PagesAccounted /\ NoSleeper

\* A worker that is stopped while it waits to connect again.
NeverCallsBack == \E w \in stopping : workers[w].link = "waiting"

\* The monitor goes from one category to the next whatever connections are lost,
\* until it is stopped, or has no account, or waits for a worker that never
\* calls back.
Leaves(c) == category # c \/ accounts.stopped \/ NeverCallsBack \/ clients = {}
Searched(c) == category = c
Advances == \A c \in 0 .. Categories - 1 : Searched(c) ~> Leaves(c)

=============================================================================
