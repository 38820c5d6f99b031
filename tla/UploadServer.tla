---------------------------- MODULE UploadServer ----------------------------
(***************************************************************************)
(* The upload server of rzauth (src/rzauth/src/UploadServer): a game       *)
(* server asks for the upload of a guild icon (UploadRequest), the         *)
(* player's client claims the request with the password it was given and   *)
(* sends the picture, and the game server is told the file's name.         *)
(*                                                                         *)
(* A session object is used once, so that a pointer to a deleted session   *)
(* is recognized; a request is named by the number of its pushRequest.     *)
(* KeepsRequests is a mutated form of the definition that follows it.      *)
(***************************************************************************)
EXTENDS Integers, Sequences

CONSTANTS
  Games,        \* GameServerSession objects
  Uploaders,    \* ClientSession objects
  Names,        \* server names that checkName accepts
  ClientIds,    \* client ids, the keys of pendingRequests
  Owners,       \* account id and guild id together
  Otps,         \* one time passwords
  Polite,       \* do game servers log in, once, before they send requests?
  MaxRequests,  \* bound: requests that are created
  Null

\* Null is neither a request nor a name.
Assumptions == Null \notin Nat /\ Null \notin Names

VARIABLES
  servers,      \* GameServerSession::servers
  games,        \* the game server sessions
  uploaders,    \* the client sessions
  pending,      \* UploadRequest::pendingRequests
  requests      \* the UploadRequest objects created so far

vars == <<servers, games, uploaders, pending, requests>>

Alive(g) == games[g].phase = "connected"

NewRequest(g, owner, otp) == [server |-> g, owner |-> owner, otp |-> otp, deleted |-> FALSE]

Init ==
  /\ servers = [n \in Names |-> Null]
  /\ games = [g \in Games |-> [phase |-> "none", name |-> Null]]
  /\ uploaders = [c \in Uploaders |-> [phase |-> "none", request |-> Null]]
  /\ pending = [c \in ClientIds |-> Null]
  /\ requests = << >>

Deleted(S) ==
  [r \in DOMAIN requests |-> IF r \in S THEN [requests[r] EXCEPT !.deleted = TRUE] ELSE requests[r]]

-----------------------------------------------------------------------------
(* GameServerSession                                                        *)

AcceptServer(g) ==
  /\ games[g].phase = "none"
  /\ games' = [games EXCEPT ![g].phase = "connected"]
  /\ UNCHANGED <<servers, uploaders, pending, requests>>

\* A name that is taken, or that checkName refuses, changes nothing.
onServerLogin(g, name) ==
  /\ Alive(g)
  /\ Polite => games[g].name = Null
  /\ servers[name] = Null
  /\ servers' = [servers EXCEPT ![name] = g]
  /\ games' = [games EXCEPT ![g].name = name]
  /\ UNCHANGED <<uploaders, pending, requests>>

\* pushRequest: a second request of a client id only renews the password.
onRequestUpload(g, id, owner, otp) ==
  LET old == pending[id]
      n == Len(requests) + 1
  IN  /\ Alive(g)
      /\ Polite => games[g].name # Null
      /\ \/ /\ old # Null
            /\ requests' = [requests EXCEPT ![old].otp = otp]
            /\ UNCHANGED pending
         \/ /\ old = Null
            /\ n <= MaxRequests
            /\ requests' = Append(requests, NewRequest(g, owner, otp))
            /\ pending' = [pending EXCEPT ![id] = n]
      /\ UNCHANGED <<servers, games, uploaders>>

KeepsRequests(g) == pending' = pending /\ requests' = requests

\* UploadRequest::removeServer deletes the requests of session g.
removeServer(g) ==
  LET mine == {id \in ClientIds : pending[id] # Null /\ requests[pending[id]].server = g}
  IN  /\ pending' = [id \in ClientIds |-> IF id \in mine THEN Null ELSE pending[id]]
      /\ requests' = Deleted({pending[id] : id \in mine})

\* The destructor.  A session that never logged in leaves its requests behind,
\* one that logged in twice leaves its first name behind.
ServerGone(g) ==
  /\ Alive(g)
  /\ games' = [games EXCEPT ![g].phase = "gone"]
  /\ \/ /\ games[g].name = Null
        /\ UNCHANGED <<servers, pending, requests>>
     \/ /\ games[g].name # Null
        /\ servers' = [servers EXCEPT ![games[g].name] = Null]
        /\ removeServer(g)
  /\ UNCHANGED <<uploaders>>

-----------------------------------------------------------------------------
(* ClientSession                                                            *)

AcceptUploader(c) ==
  /\ uploaders[c].phase = "none"
  /\ uploaders' = [uploaders EXCEPT ![c].phase = "connected"]
  /\ UNCHANGED <<servers, games, pending, requests>>

\* The name of a request's game server.  When the session is gone, freed memory
\* is read as any name.
NameOf(r) == IF Alive(requests[r].server) THEN {games[requests[r].server].name} ELSE Names \cup {Null}

Matches(r, owner, otp, name) ==
  requests[r].owner = owner /\ requests[r].otp = otp /\ name \in NameOf(r)

\* The map without the request that popRequest hands out.
Popped(id) == [pending EXCEPT ![id] = Null]

\* TS_CU_LOGIN.  The session forgets the request of an earlier login, found or not.
onLogin(c, id, owner, otp, name) ==
  LET r == pending[id]
      found == r # Null /\ Matches(r, owner, otp, name)
  IN  /\ uploaders[c].phase = "connected"
      /\ \/ /\ found
            /\ pending' = Popped(id)
            /\ uploaders' = [uploaders EXCEPT ![c].request = r]
         \/ /\ ~found
            /\ UNCHANGED pending
            /\ uploaders' = [uploaders EXCEPT ![c].request = Null]
      /\ UNCHANGED <<servers, games, requests>>

\* TS_CU_UPLOAD of a picture that is accepted.  The name of the request's game
\* server goes into the file's name, and the server is told when the file is
\* written: both read the session that the request leads to (ClaimedServed).
\* Written or refused by the disk, the request is used up.  A picture that is
\* refused (size, not a jpeg, long server name) changes nothing.
onUpload(c) ==
  /\ uploaders[c].phase = "connected"
  /\ uploaders[c].request # Null
  /\ requests' = Deleted({uploaders[c].request})
  /\ uploaders' = [uploaders EXCEPT ![c].request = Null]
  /\ UNCHANGED <<servers, games, pending>>

UploaderGone(c) ==
  /\ uploaders[c].phase = "connected"
  /\ uploaders' = [uploaders EXCEPT ![c] = [phase |-> "gone", request |-> Null]]
  /\ requests' = Deleted({uploaders[c].request} \ {Null})
  /\ UNCHANGED <<servers, games, pending>>

-----------------------------------------------------------------------------
Next ==
  \/ \E g \in Games :
       \/ AcceptServer(g)
       \/ \E name \in Names : onServerLogin(g, name)
       \/ \E id \in ClientIds, owner \in Owners, otp \in Otps : onRequestUpload(g, id, owner, otp)
       \/ ServerGone(g)
  \/ \E c \in Uploaders :
       \/ AcceptUploader(c)
       \/ \E id \in ClientIds, owner \in Owners, otp \in Otps, name \in Names :
            onLogin(c, id, owner, otp, name)
       \/ onUpload(c)
       \/ UploaderGone(c)

Spec == Init /\ [][Next]_vars

-----------------------------------------------------------------------------
(* Properties                                                               *)

Held == {uploaders[c].request : c \in Uploaders} \ {Null}

\* A request has one owner, the map or one client session, and is not deleted
\* while it has one: no password is accepted twice and no request is freed
\* twice, whoever goes away first.
OneOwner ==
  /\ \A id \in ClientIds : pending[id] # Null =>
       /\ ~requests[pending[id]].deleted
       /\ pending[id] \notin Held
       /\ \A other \in ClientIds \ {id} : pending[other] # pending[id]
  /\ \A c \in Uploaders : uploaders[c].request # Null =>
       /\ ~requests[uploaders[c].request].deleted
       /\ \A d \in Uploaders \ {c} : uploaders[d].request # uploaders[c].request

\* What waits in the map leads to live sessions, if game servers log in before
\* they ask: popRequest may read the game server's name (removeServer).
PendingServed ==
  \A id \in ClientIds : pending[id] # Null => Alive(requests[pending[id]].server)

\* Whoever goes away first, a request has one owner, and the ones that still
\* wait for their client lead to live game servers (UploadRequest::popRequest,
\* removeServer and the two destructors).
RequestsKept == OneOwner /\ PendingServed

\* A request that a client has claimed leads to a live game server too: onUpload
\* reads its name and calls sendUploadResult.  removeServer looks at the map only,
\* so that the game server may go while the client holds the request.
ClaimedServed ==
  \A c \in Uploaders : uploaders[c].request # Null => Alive(requests[uploaders[c].request].server)

=============================================================================
