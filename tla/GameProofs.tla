----------------------------- MODULE GameProofs -----------------------------
(***************************************************************************)
(* Proofs about what serves the players of a game, for all values of the   *)
(* constants: the requests of the upload server (UploadServer), the        *)
(* sessions of the game server prototype (GameLobby) and its reference     *)
(* data (GameReference), what the client reconnect tool shows of the       *)
(* active character (ClientReconnect), and what is said between the game   *)
(* and IRC (ChatGateway).                                                  *)
(*                                                                         *)
(* A component is an instance on variables of its own, declared where its  *)
(* part of the module begins; a part has the inductive invariant, one      *)
(* lemma for each action, and the theorem.                                 *)
(***************************************************************************)
EXTENDS Integers, Sequences, FiniteSets, SequenceTheorems, FiniteSetTheorems,
        FunctionTheorems, TLAPS

-----------------------------------------------------------------------------
(* The requests of the upload server                                        *)

CONSTANTS Games, Uploaders, ServerNames, ClientIds, Requesters, Otps, Polite, MaxRequests, Null

VARIABLES servers, games, uploaders, waiting, requests

Upload == INSTANCE UploadServer WITH
  Names <- ServerNames, Owners <- Requesters, pending <- waiting

RequestStates == [server : Games, owner : Requesters, otp : Otps, deleted : BOOLEAN]

\* What a pointer to a request may be.
Pointers == DOMAIN requests \cup {Null}

UploadTypes ==
  /\ games \in [Games -> [phase : {"none", "connected", "gone"}, name : ServerNames \cup {Null}]]
  /\ requests \in Seq(RequestStates)
  /\ waiting \in [ClientIds -> Pointers]
  /\ uploaders \in [Uploaders -> [phase : {"none", "connected", "gone"}, request : Pointers]]

\* Who waits for a client has logged in, so that its destructor removes the request.
Served ==
  \A id \in ClientIds : waiting[id] # Null =>
    LET g == requests[waiting[id]].server IN games[g].phase = "connected" /\ games[g].name # Null

UploadInv == UploadTypes /\ Upload!OneOwner /\ (Polite => Served)

-----------------------------------------------------------------------------
(* Requests are numbered from 1                                             *)

LEMMA RequestFacts ==
  ASSUME UploadTypes
  PROVE  /\ Len(requests) \in Nat /\ DOMAIN requests = 1 .. Len(requests)
         /\ \A r \in DOMAIN requests : requests[r] \in RequestStates
         /\ DOMAIN requests \subseteq Nat
BY DEF UploadTypes

LEMMA PushFacts ==
  ASSUME UploadTypes, NEW x \in RequestStates
  PROVE  LET n == Len(requests) + 1
             longer == Append(requests, x)
         IN  /\ longer \in Seq(RequestStates) /\ DOMAIN longer = DOMAIN requests \cup {n}
             /\ n \notin DOMAIN requests /\ n \in Nat
             /\ longer[n] = x /\ \A r \in DOMAIN requests : longer[r] = requests[r]
BY DEF UploadTypes

\* Deleting the requests of a set.
LEMMA DeletedFacts ==
  ASSUME UploadTypes, NEW S
  PROVE  /\ Upload!Deleted(S) \in Seq(RequestStates) /\ DOMAIN Upload!Deleted(S) = DOMAIN requests
         /\ \A r \in DOMAIN requests : /\ Upload!Deleted(S)[r].server = requests[r].server
                                       /\ r \notin S => Upload!Deleted(S)[r] = requests[r]
<1>1. ASSUME NEW r \in DOMAIN requests
      PROVE  /\ Upload!Deleted(S)[r] \in RequestStates
             /\ Upload!Deleted(S)[r].server = requests[r].server
             /\ r \notin S => Upload!Deleted(S)[r] = requests[r]
  <2> DEFINE n == [requests[r] EXCEPT !.deleted = TRUE]
  <2>1. requests[r] \in RequestStates
    BY RequestFacts
  <2>2. n \in RequestStates /\ n.server = requests[r].server
    BY <2>1 DEF RequestStates
  <2>3. Upload!Deleted(S)[r] = IF r \in S THEN n ELSE requests[r]
    BY DEF Upload!Deleted
  <2> HIDE DEF n
  <2> QED  BY <2>1, <2>2, <2>3
<1>2. /\ DOMAIN Upload!Deleted(S) = DOMAIN requests /\ DOMAIN requests = 1 .. Len(requests)
      /\ Len(requests) \in Nat /\ Upload!Deleted(S) = [r \in DOMAIN requests |-> Upload!Deleted(S)[r]]
  BY RequestFacts DEF Upload!Deleted
<1>3. Upload!Deleted(S) \in Seq(RequestStates)
  BY <1>1, <1>2
<1> QED  BY <1>1, <1>2, <1>3

-----------------------------------------------------------------------------
(* The steps                                                                *)

\* Neither a request nor a pointer to one changes.
LEMMA SessionsStep ==
  ASSUME UploadInv, UploadTypes', UNCHANGED <<waiting, requests>>,
         \A c \in Uploaders : uploaders'[c].request = uploaders[c].request,
         \A g \in Games : /\ Upload!Alive(g) => Upload!Alive(g)'
                          /\ games[g].name # Null => games'[g].name # Null
  PROVE  UploadInv'
<1>1. Upload!OneOwner'
  BY DEF UploadInv, Upload!OneOwner, Upload!Held
<1>2. Polite => Served'
  <2> SUFFICES ASSUME Polite, NEW id \in ClientIds, waiting[id] # Null
               PROVE  LET g == requests[waiting[id]].server IN games'[g].phase = "connected" /\ games'[g].name # Null
    BY DEF Served
  <2>1. requests[waiting[id]] \in RequestStates
    BY RequestFacts DEF UploadInv, UploadTypes, Pointers
  <2>2. requests[waiting[id]].server \in Games
    BY <2>1 DEF RequestStates
  <2> QED  BY <2>2 DEF UploadInv, Served, Upload!Alive
<1> QED  BY <1>1, <1>2 DEF UploadInv

LEMMA ServerSteps ==
  ASSUME Upload!Assumptions, UploadInv, NEW g \in Games, Upload!AcceptServer(g) \/ \E name \in ServerNames : Upload!onServerLogin(g, name)
  PROVE  UploadInv'
<1>1. UNCHANGED <<uploaders, waiting, requests>>
  BY DEF Upload!AcceptServer, Upload!onServerLogin
<1>2. CASE Upload!AcceptServer(g)
  <2> DEFINE n == [games[g] EXCEPT !.phase = "connected"]
  <2>1. games[g] \in [phase : {"none", "connected", "gone"}, name : ServerNames \cup {Null}]
    BY DEF UploadInv, UploadTypes
  <2>2. n \in [phase : {"none", "connected", "gone"}, name : ServerNames \cup {Null}] /\ n.phase = "connected" /\ n.name = games[g].name
    BY <2>1
  <2>3. games' = [games EXCEPT ![g] = n]
    BY <1>2 DEF Upload!AcceptServer
  <2> HIDE DEF n
  <2>4. UploadTypes'
    BY <1>1, <2>2, <2>3 DEF UploadInv, UploadTypes, Pointers
  <2> QED  BY <1>1, <2>2, <2>3, <2>4, SessionsStep DEF Upload!Alive, UploadInv, UploadTypes
<1>3. ASSUME NEW name \in ServerNames, Upload!onServerLogin(g, name)
      PROVE  UploadInv'
  <2> DEFINE n == [games[g] EXCEPT !.name = name]
  <2>1. games[g] \in [phase : {"none", "connected", "gone"}, name : ServerNames \cup {Null}]
    BY DEF UploadInv, UploadTypes
  <2>2. n \in [phase : {"none", "connected", "gone"}, name : ServerNames \cup {Null}] /\ n.phase = games[g].phase /\ n.name # Null
    BY <2>1 DEF Upload!Assumptions
  <2>3. games' = [games EXCEPT ![g] = n]
    BY <1>3 DEF Upload!onServerLogin
  <2> HIDE DEF n
  <2>4. UploadTypes'
    BY <1>1, <2>2, <2>3 DEF UploadInv, UploadTypes, Pointers
  <2> QED  BY <1>1, <2>2, <2>3, <2>4, SessionsStep DEF Upload!Alive, UploadInv, UploadTypes
<1> QED  BY <1>2, <1>3

LEMMA AcceptUploaderStep ==
  ASSUME UploadInv, NEW c \in Uploaders, Upload!AcceptUploader(c)
  PROVE  UploadInv'
<1> DEFINE n == [uploaders[c] EXCEPT !.phase = "connected"]
<1>1. uploaders[c] \in [phase : {"none", "connected", "gone"}, request : Pointers]
  BY DEF UploadInv, UploadTypes
<1>2. n \in [phase : {"none", "connected", "gone"}, request : Pointers] /\ n.request = uploaders[c].request
  BY <1>1
<1>3. uploaders' = [uploaders EXCEPT ![c] = n] /\ UNCHANGED <<games, waiting, requests>>
  BY DEF Upload!AcceptUploader
<1> HIDE DEF n
<1>4. UploadTypes'
  BY <1>2, <1>3 DEF UploadInv, UploadTypes, Pointers
<1> QED  BY <1>2, <1>3, <1>4, SessionsStep DEF Upload!Alive, UploadInv, UploadTypes

LEMMA RequestStep ==
  ASSUME Upload!Assumptions, UploadInv, NEW g \in Games, NEW id \in ClientIds, NEW owner \in Requesters, NEW otp \in Otps,
         Upload!onRequestUpload(g, id, owner, otp)
  PROVE  UploadInv'
<1>1. /\ Upload!Alive(g) /\ (Polite => games[g].name # Null) /\ UNCHANGED <<games, uploaders>>
      /\ UploadTypes /\ Upload!OneOwner /\ (Polite => Served)
  BY DEF Upload!onRequestUpload, UploadInv
<1>2. CASE waiting[id] # Null /\ requests' = [requests EXCEPT ![waiting[id]].otp = otp] /\ UNCHANGED waiting
  <2> DEFINE old == waiting[id]
             n == [requests[old] EXCEPT !.otp = otp]
  <2>1. old \in DOMAIN requests /\ requests[old] \in RequestStates
    BY <1>1, <1>2, RequestFacts DEF UploadTypes, Pointers
  <2>2. n \in RequestStates /\ n.server = requests[old].server /\ n.deleted = requests[old].deleted
    BY <2>1 DEF RequestStates
  <2>3. requests' = [requests EXCEPT ![old] = n]
    BY <1>2
  <2> HIDE DEF n, old
  <2>4. /\ requests' \in Seq(RequestStates) /\ DOMAIN requests' = DOMAIN requests
        /\ \A r \in DOMAIN requests : /\ requests'[r].server = requests[r].server
                                      /\ requests'[r].deleted = requests[r].deleted
    BY <1>1, <2>1, <2>2, <2>3 DEF UploadTypes
  <2>5. UploadTypes'
    BY <1>1, <1>2, <2>4 DEF UploadTypes, Pointers
  <2>6. /\ \A i \in ClientIds : waiting[i] # Null => waiting[i] \in DOMAIN requests
        /\ \A c \in Uploaders : uploaders[c].request # Null => uploaders[c].request \in DOMAIN requests
    BY <1>1 DEF UploadTypes, Pointers
  <2>7. Upload!OneOwner'
    BY <1>1, <1>2, <2>4, <2>6 DEF Upload!OneOwner, Upload!Held
  <2>8. Polite => Served'
    BY <1>1, <1>2, <2>4, <2>6 DEF Served, Upload!Alive
  <2> QED  BY <2>5, <2>7, <2>8 DEF UploadInv
<1>3. CASE /\ waiting[id] = Null
           /\ requests' = Append(requests, Upload!NewRequest(g, owner, otp))
           /\ waiting' = [waiting EXCEPT ![id] = Len(requests) + 1]
  <2> DEFINE n == Len(requests) + 1
             x == Upload!NewRequest(g, owner, otp)
  <2>1. x \in RequestStates /\ x.server = g /\ x.deleted = FALSE
    BY DEF Upload!NewRequest, RequestStates
  <2> HIDE DEF x
  <2>2. requests' = Append(requests, x)
    BY <1>3 DEF x
  <2>3. /\ requests' \in Seq(RequestStates) /\ DOMAIN requests' = DOMAIN requests \cup {n}
        /\ n \notin DOMAIN requests /\ n # Null
        /\ requests'[n] = x /\ \A r \in DOMAIN requests : requests'[r] = requests[r]
    BY <1>1, <2>1, <2>2, PushFacts DEF Upload!Assumptions
  <2>4. waiting' = [waiting EXCEPT ![id] = n]
    BY <1>3
  <2> HIDE DEF n
  <2>5. /\ \A i \in ClientIds : waiting[i] # Null => waiting[i] \in DOMAIN requests
        /\ \A c \in Uploaders : uploaders[c].request # Null => uploaders[c].request \in DOMAIN requests
        /\ waiting'[id] = n /\ \A i \in ClientIds \ {id} : waiting'[i] = waiting[i]
        /\ uploaders' = uploaders /\ games' = games
    BY <1>1, <2>4 DEF UploadTypes, Pointers
  <2>6. UploadTypes'
    <3>1. waiting' \in [ClientIds -> Pointers'] /\ uploaders' \in [Uploaders -> [phase : {"none", "connected", "gone"}, request : Pointers']]
      BY <1>1, <2>3, <2>4 DEF UploadTypes, Pointers
    <3> QED  BY <1>1, <2>3, <3>1 DEF UploadTypes
  <2>7. Upload!OneOwner'
    <3>1. ASSUME NEW i \in ClientIds, waiting'[i] # Null
          PROVE  /\ ~requests'[waiting'[i]].deleted /\ waiting'[i] \notin Upload!Held'
                 /\ \A other \in ClientIds \ {i} : waiting'[other] # waiting'[i]
      <4>1. CASE i = id
        BY <2>1, <2>3, <2>5, <4>1 DEF Upload!Held
      <4>2. CASE i # id
        BY <1>1, <2>3, <2>5, <3>1, <4>2 DEF Upload!Held, Upload!OneOwner
      <4> QED  BY <4>1, <4>2
    <3>2. ASSUME NEW c \in Uploaders, uploaders'[c].request # Null
          PROVE  /\ ~requests'[uploaders'[c].request].deleted
                 /\ \A d \in Uploaders \ {c} : uploaders'[d].request # uploaders'[c].request
      BY <1>1, <2>3, <2>5, <3>2 DEF Upload!OneOwner
    <3> QED  BY <3>1, <3>2 DEF Upload!OneOwner
  <2>8. Polite => Served'
    <3> SUFFICES ASSUME Polite, NEW i \in ClientIds, waiting'[i] # Null
                 PROVE  LET s == requests'[waiting'[i]].server IN games'[s].phase = "connected" /\ games'[s].name # Null
      BY DEF Served
    <3>1. CASE i = id
      BY <1>1, <2>1, <2>3, <2>5, <3>1 DEF Upload!Alive
    <3>2. CASE i # id
      BY <1>1, <2>3, <2>5, <3>2 DEF Served, Upload!Alive
    <3> QED  BY <3>1, <3>2
  <2> QED  BY <2>6, <2>7, <2>8 DEF UploadInv
<1> QED  BY <1>2, <1>3 DEF Upload!onRequestUpload

\* The facts of the invariant that the rest needs.
LEMMA Owned ==
  ASSUME UploadInv
  PROVE  /\ \A id \in ClientIds : waiting[id] # Null => waiting[id] \in DOMAIN requests /\ waiting[id] \notin Upload!Held
         /\ \A c \in Uploaders : uploaders[c].request # Null => uploaders[c].request \in DOMAIN requests
BY DEF UploadInv, UploadTypes, Pointers, Upload!OneOwner

\* Requests that nobody points to afterwards are deleted.
LEMMA DeletedStep ==
  ASSUME UploadInv, UploadTypes', NEW S, requests' = Upload!Deleted(S),
         \A id \in ClientIds : waiting'[id] # Null => waiting'[id] = waiting[id] /\ waiting[id] \notin S,
         \A c \in Uploaders : uploaders'[c].request # Null =>
           uploaders'[c].request = uploaders[c].request /\ uploaders[c].request \notin S
  PROVE  Upload!OneOwner'
<1>1. \A r \in DOMAIN requests \ S : requests'[r] = requests[r]
  BY DeletedFacts DEF UploadInv
<1>2. ASSUME NEW id \in ClientIds, waiting'[id] # Null
      PROVE  /\ ~requests'[waiting'[id]].deleted /\ waiting'[id] \notin Upload!Held'
             /\ \A other \in ClientIds \ {id} : waiting'[other] # waiting'[id]
  <2>1. ~requests'[waiting'[id]].deleted
    BY <1>1, <1>2, Owned DEF UploadInv, Upload!OneOwner
  <2>2. waiting'[id] \notin Upload!Held'
    BY <1>2, Owned DEF Upload!Held
  <2>3. \A other \in ClientIds \ {id} : waiting'[other] # waiting'[id]
    BY <1>2 DEF UploadInv, Upload!OneOwner
  <2> QED  BY <2>1, <2>2, <2>3
<1>3. ASSUME NEW c \in Uploaders, uploaders'[c].request # Null
      PROVE  /\ ~requests'[uploaders'[c].request].deleted
             /\ \A d \in Uploaders \ {c} : uploaders'[d].request # uploaders'[c].request
  BY <1>1, <1>3, Owned DEF UploadInv, Upload!OneOwner
<1> QED  BY <1>2, <1>3 DEF Upload!OneOwner

LEMMA ServerGoneStep ==
  ASSUME Upload!Assumptions, UploadInv, NEW g \in Games, Upload!ServerGone(g)
  PROVE  UploadInv'
<1> DEFINE mine == {id \in ClientIds : waiting[id] # Null /\ requests[waiting[id]].server = g}
           n == [games[g] EXCEPT !.phase = "gone"]
<1>1. games[g] \in [phase : {"none", "connected", "gone"}, name : ServerNames \cup {Null}]
  BY DEF UploadInv, UploadTypes
<1>2. /\ n \in [phase : {"none", "connected", "gone"}, name : ServerNames \cup {Null}]
      /\ n.name = games[g].name
  BY <1>1
<1>3. games' = [games EXCEPT ![g] = n] /\ uploaders' = uploaders
  BY DEF Upload!ServerGone
<1> HIDE DEF n
<1>4. /\ games' \in [Games -> [phase : {"none", "connected", "gone"}, name : ServerNames \cup {Null}]]
      /\ \A h \in Games \ {g} : games'[h] = games[h]
  BY <1>2, <1>3 DEF UploadInv, UploadTypes
<1>5. CASE games[g].name = Null /\ UNCHANGED <<waiting, requests>>
  <2>1. UploadTypes'
    BY <1>3, <1>4, <1>5 DEF UploadInv, UploadTypes, Pointers
  <2>2. Upload!OneOwner'
    BY <1>3, <1>5 DEF UploadInv, Upload!OneOwner, Upload!Held
  <2>3. Polite => Served'
    <3> SUFFICES ASSUME Polite, NEW id \in ClientIds, waiting[id] # Null
                 PROVE  LET h == requests[waiting[id]].server IN games'[h].phase = "connected" /\ games'[h].name # Null
      BY <1>5 DEF Served
    <3>1. requests[waiting[id]] \in RequestStates
      BY Owned, RequestFacts DEF UploadInv
    <3>2. requests[waiting[id]].server \in Games \ {g}
      BY <1>5, <3>1 DEF RequestStates, UploadInv, Served
    <3> QED  BY <1>4, <3>2 DEF UploadInv, Served
  <2> QED  BY <2>1, <2>2, <2>3 DEF UploadInv
<1>6. CASE Upload!removeServer(g)
  <2> DEFINE S == {waiting[id] : id \in mine}
  <2>1. requests' = Upload!Deleted(S) /\ waiting' = [id \in ClientIds |-> IF id \in mine THEN Null ELSE waiting[id]]
    BY <1>6 DEF Upload!removeServer
  <2>2. /\ requests' \in Seq(RequestStates) /\ DOMAIN requests' = DOMAIN requests
        /\ \A r \in DOMAIN requests : requests'[r].server = requests[r].server
    BY <2>1, DeletedFacts DEF UploadInv
  <2>3. UploadTypes'
    BY <1>3, <1>4, <2>1, <2>2 DEF UploadInv, UploadTypes, Pointers
  <2>4. \A id \in ClientIds : waiting'[id] # Null => waiting'[id] = waiting[id] /\ waiting[id] \notin S /\ id \notin mine
    BY <2>1 DEF UploadInv, Upload!OneOwner
  <2>5. \A c \in Uploaders : uploaders[c].request # Null => uploaders[c].request \notin S
    BY Owned DEF Upload!Held
  <2>6. Upload!OneOwner'
    <3> HIDE DEF S, mine
    <3> QED  BY <1>3, <2>1, <2>3, <2>4, <2>5, DeletedStep
  <2>7. Polite => Served'
    <3> SUFFICES ASSUME Polite, NEW id \in ClientIds, waiting'[id] # Null
                 PROVE  LET h == requests'[waiting'[id]].server IN games'[h].phase = "connected" /\ games'[h].name # Null
      BY DEF Served
    <3>1. waiting'[id] = waiting[id] /\ id \notin mine /\ waiting[id] \in DOMAIN requests /\ waiting[id] # Null
      BY <2>4, Owned
    <3>2. requests[waiting[id]] \in RequestStates /\ requests'[waiting[id]].server = requests[waiting[id]].server
      BY <2>2, <3>1, RequestFacts DEF UploadInv
    <3>3. requests[waiting[id]].server \in Games \ {g}
      BY <3>1, <3>2 DEF RequestStates
    <3> QED  BY <1>4, <3>1, <3>2, <3>3 DEF UploadInv, Served
  <2> QED  BY <2>3, <2>6, <2>7 DEF UploadInv
<1> QED  BY <1>5, <1>6 DEF Upload!ServerGone

LEMMA LoginStep ==
  ASSUME Upload!Assumptions, UploadInv, NEW c \in Uploaders, NEW id \in ClientIds, NEW owner \in Requesters, NEW otp \in Otps,
         NEW name \in ServerNames, Upload!onLogin(c, id, owner, otp, name)
  PROVE  UploadInv'
<1>1. PICK r \in Pointers : /\ UNCHANGED <<games, requests>>
                            /\ uploaders' = [uploaders EXCEPT ![c].request = r]
                            /\ \/ r # Null /\ r = waiting[id] /\ waiting' = [waiting EXCEPT ![id] = Null]
                               \/ r = Null /\ waiting' = waiting
  BY DEF Upload!onLogin, Upload!Popped, UploadInv, UploadTypes, Pointers
<1> DEFINE n == [uploaders[c] EXCEPT !.request = r]
<1>2. uploaders[c] \in [phase : {"none", "connected", "gone"}, request : Pointers]
  BY DEF UploadInv, UploadTypes
<1>3. n \in [phase : {"none", "connected", "gone"}, request : Pointers] /\ n.request = r
  BY <1>2
<1>4. uploaders' = [uploaders EXCEPT ![c] = n]
  BY <1>1
<1> HIDE DEF n
<1>5. UploadTypes'
  <2>1. Pointers' = Pointers /\ Null \in Pointers
    BY <1>1 DEF Pointers
  <2>2. waiting' \in [ClientIds -> Pointers]
    BY <1>1, <2>1 DEF UploadInv, UploadTypes
  <2>3. uploaders' \in [Uploaders -> [phase : {"none", "connected", "gone"}, request : Pointers]]
    BY <1>3, <1>4 DEF UploadInv, UploadTypes
  <2> QED  BY <1>1, <2>1, <2>2, <2>3 DEF UploadInv, UploadTypes
<1>6. uploaders'[c].request = r /\ \A d \in Uploaders \ {c} : uploaders'[d] = uploaders[d]
  BY <1>3, <1>4 DEF UploadInv, UploadTypes
<1>7. \A i \in ClientIds : waiting'[i] # Null => waiting'[i] = waiting[i] /\ (r # Null => i # id)
  BY <1>1 DEF UploadInv, UploadTypes
<1>8. Upload!OneOwner'
  <2>1. ASSUME NEW i \in ClientIds, waiting'[i] # Null
        PROVE  /\ ~requests'[waiting'[i]].deleted /\ waiting'[i] \notin Upload!Held'
               /\ \A other \in ClientIds \ {i} : waiting'[other] # waiting'[i]
    <3>1. ~requests'[waiting'[i]].deleted /\ \A other \in ClientIds \ {i} : waiting'[other] # waiting'[i]
      BY <1>1, <1>7, <2>1 DEF UploadInv, Upload!OneOwner
    <3>2. waiting'[i] # r
      BY <1>1, <1>7, <2>1 DEF UploadInv, Upload!OneOwner
    <3>3. waiting'[i] \notin Upload!Held'
      BY <1>6, <1>7, <2>1, <3>2, Owned DEF Upload!Held
    <3> QED  BY <3>1, <3>3
  <2>2. ASSUME NEW d \in Uploaders, uploaders'[d].request # Null
        PROVE  /\ ~requests'[uploaders'[d].request].deleted
               /\ \A e \in Uploaders \ {d} : uploaders'[e].request # uploaders'[d].request
    <3>1. \A e \in Uploaders : r # Null => uploaders[e].request # r
      BY <1>1, Owned DEF Upload!Held
    <3>2. CASE d = c
      BY <1>1, <1>6, <2>2, <3>1, <3>2 DEF UploadInv, Upload!OneOwner
    <3>3. CASE d # c
      BY <1>1, <1>6, <2>2, <3>1, <3>3 DEF UploadInv, Upload!OneOwner
    <3> QED  BY <3>2, <3>3
  <2> QED  BY <2>1, <2>2 DEF Upload!OneOwner
<1>9. Polite => Served'
  BY <1>1, <1>7 DEF UploadInv, Served
<1> QED  BY <1>5, <1>8, <1>9 DEF UploadInv

\* onUpload and the destructor of a client session: its request is used up.
LEMMA UsedUpStep ==
  ASSUME UploadInv, NEW c \in Uploaders, NEW phase \in {"connected", "gone"},
         uploaders' = [uploaders EXCEPT ![c] = [phase |-> phase, request |-> Null]],
         requests' = Upload!Deleted({uploaders[c].request}) \/ requests' = Upload!Deleted({uploaders[c].request} \ {Null}),
         UNCHANGED <<games, waiting>>
  PROVE  UploadInv'
<1>1. PICK S : requests' = Upload!Deleted(S) /\ S \subseteq {uploaders[c].request}
  OBVIOUS
<1>2. /\ requests' \in Seq(RequestStates) /\ DOMAIN requests' = DOMAIN requests
      /\ \A r \in DOMAIN requests : requests'[r].server = requests[r].server
  BY <1>1, DeletedFacts DEF UploadInv
<1>3. UploadTypes'
  BY <1>2 DEF UploadInv, UploadTypes, Pointers
<1>4. /\ uploaders'[c].request = Null
      /\ \A d \in Uploaders \ {c} : uploaders'[d] = uploaders[d]
  BY DEF UploadInv, UploadTypes
<1>5. \A id \in ClientIds : waiting[id] # Null => waiting[id] \notin S
  BY <1>1, Owned DEF Upload!Held
<1>6. \A d \in Uploaders : uploaders'[d].request # Null =>
         uploaders'[d].request = uploaders[d].request /\ uploaders[d].request \notin S
  BY <1>1, <1>4 DEF UploadInv, Upload!OneOwner
<1>7. Upload!OneOwner'
  BY <1>1, <1>3, <1>5, <1>6, DeletedStep
<1>8. Polite => Served'
  BY <1>2, Owned DEF UploadInv, Served
<1> QED  BY <1>3, <1>7, <1>8 DEF UploadInv

LEMMA UploaderSteps ==
  ASSUME UploadInv, NEW c \in Uploaders, Upload!onUpload(c) \/ Upload!UploaderGone(c)
  PROVE  UploadInv'
<1>1. uploaders[c] \in [phase : {"none", "connected", "gone"}, request : Pointers]
  BY DEF UploadInv, UploadTypes
<1>2. CASE Upload!onUpload(c)
  <2>1. [uploaders[c] EXCEPT !.request = Null] = [phase |-> "connected", request |-> Null]
    BY <1>1, <1>2 DEF Upload!onUpload
  <2>2. uploaders' = [uploaders EXCEPT ![c] = [phase |-> "connected", request |-> Null]]
    BY <1>2, <2>1 DEF Upload!onUpload
  <2> QED  BY <1>2, <2>2, UsedUpStep DEF Upload!onUpload
<1>3. CASE Upload!UploaderGone(c)
  BY <1>3, UsedUpStep DEF Upload!UploaderGone
<1> QED  BY <1>2, <1>3

-----------------------------------------------------------------------------
(* The theorems                                                             *)

LEMMA UploadInvCorrect == ASSUME Upload!Assumptions PROVE Upload!Spec => []UploadInv
<1>1. Upload!Init => UploadInv
  <2> SUFFICES ASSUME Upload!Init PROVE UploadInv
    OBVIOUS
  <2>1. DOMAIN requests = {} /\ requests \in Seq(RequestStates)
    BY DEF Upload!Init
  <2>2. UploadTypes
    BY <2>1 DEF Upload!Init, UploadTypes, Pointers
  <2>3. Upload!OneOwner /\ Served
    BY DEF Upload!Init, Upload!OneOwner, Served
  <2> QED  BY <2>2, <2>3 DEF UploadInv
<1>2. UploadInv /\ [Upload!Next]_Upload!vars => UploadInv'
  <2> SUFFICES ASSUME UploadInv, [Upload!Next]_Upload!vars PROVE UploadInv'
    OBVIOUS
  <2>1. CASE UNCHANGED Upload!vars
    <3>1. UploadTypes'
      BY <2>1 DEF UploadInv, UploadTypes, Pointers, Upload!vars
    <3> QED  BY <2>1, <3>1, SessionsStep DEF Upload!vars, Upload!Alive
  <2>2. ASSUME NEW g \in Games, Upload!AcceptServer(g) \/ \E name \in ServerNames : Upload!onServerLogin(g, name)
        PROVE  UploadInv'
    BY <2>2, ServerSteps
  <2>3. ASSUME NEW g \in Games, \E id \in ClientIds, owner \in Requesters, otp \in Otps : Upload!onRequestUpload(g, id, owner, otp)
        PROVE  UploadInv'
    BY <2>3, RequestStep
  <2>4. ASSUME NEW g \in Games, Upload!ServerGone(g)
        PROVE  UploadInv'
    BY <2>4, ServerGoneStep
  <2>5. ASSUME NEW c \in Uploaders, Upload!AcceptUploader(c)
        PROVE  UploadInv'
    BY <2>5, AcceptUploaderStep
  <2>6. ASSUME NEW c \in Uploaders,
               \E id \in ClientIds, owner \in Requesters, otp \in Otps, name \in ServerNames : Upload!onLogin(c, id, owner, otp, name)
        PROVE  UploadInv'
    BY <2>6, LoginStep
  <2>7. ASSUME NEW c \in Uploaders, Upload!onUpload(c) \/ Upload!UploaderGone(c)
        PROVE  UploadInv'
    BY <2>7, UploaderSteps
  <2> QED  BY <2>1, <2>2, <2>3, <2>4, <2>5, <2>6, <2>7 DEF Upload!Next
<1> QED  BY <1>1, <1>2, PTL DEF Upload!Spec

\* Whatever the game servers do, a request is in the map, or held by one client,
\* or deleted: no password is accepted twice and no request is freed twice
\* (UploadRequest::pushRequest and popRequest, the two destructors).
THEOREM OneOwnerCorrect == ASSUME Upload!Assumptions PROVE Upload!Spec => []Upload!OneOwner
<1>1. UploadInv => Upload!OneOwner
  BY DEF UploadInv
<1> QED  BY <1>1, UploadInvCorrect, PTL

\* When game servers log in before they ask, what waits for a client also leads
\* to connected game servers (UploadRequest::removeServer).
THEOREM RequestsKeptCorrect == ASSUME Upload!Assumptions, Polite PROVE Upload!Spec => []Upload!RequestsKept
<1>1. UploadInv => Upload!RequestsKept
  BY DEF UploadInv, Upload!RequestsKept, Served, Upload!PendingServed, Upload!Alive
<1> QED  BY <1>1, UploadInvCorrect, PTL

-----------------------------------------------------------------------------
(* The sessions of the game server prototype                                *)

CONSTANTS Sessions, Accounts, Names, MaxCharacters, MaxQueries, MaxMade, MaxLosses

VARIABLES cs, link, online, queries, db, creators, handles, dead

Lobby == INSTANCE GameLobby WITH auth <- link, made <- creators

LobbyAssumption ==
  Sessions \subseteq Nat \ {0} /\ Lobby!None \notin Accounts /\ IsFiniteSet(Names)

Stored == [sid : Nat, name : Lobby!AnyName]

Owners == Accounts \union {Lobby!None}

PlayerStates == {"none", "open", "closing", "gone"}

Players ==
  [state : PlayerStates, authReceived : BOOLEAN, account : Owners,
   handler : {"none", "lobby", "loading", "game"}, populated : BOOLEAN, list : SUBSET Stored,
   validated : Lobby!AnyName, sid : Nat, handle : Nat]

AuthLinks == [pending : [Accounts -> Sessions \union {0}], asked : SUBSET Accounts, losses : Nat]

HandleStores == [next : Nat, free : Seq(Nat)]

LobbyKinds == {"list", "name", "wear", "create", "delete"}

Arguments == Lobby!AnyName \union Nat

QueryType(q) ==
  /\ q \in [n : {q.n}, s : Sessions, h : {"lobby", "loading"}, by : Owners,
            kind : LobbyKinds \union {"character", "items"}, arg : Arguments,
            done : BOOLEAN, rows : SUBSET Stored]
  /\ q.h = IF q.kind \in LobbyKinds THEN "lobby" ELSE "loading"
  /\ q.kind \in {"name", "create", "delete"} => q.arg \in Lobby!AnyName
  /\ q.kind = "character" => q.arg \in Nat

LobbyTypes ==
  /\ cs \in [Sessions -> Players] /\ link \in AuthLinks /\ handles \in HandleStores
  /\ \A q \in queries : QueryType(q)
  /\ db \subseteq Stored /\ creators \in Seq(Owners) /\ dead \in BOOLEAN

\* A session registers for one answer of the auth server, once.
Registered(C, A) ==
  /\ \A a \in Accounts : A.pending[a] # 0 =>
       /\ C[A.pending[a]].account = Lobby!None
       /\ C[A.pending[a]].state # "none"
       /\ C[A.pending[a]].state # "gone" => C[A.pending[a]].authReceived
  /\ \A a, b \in Accounts : A.pending[a] # 0 /\ A.pending[a] = A.pending[b] => a = b
  /\ \A a \in A.asked : A.pending[a] # 0

\* A session without an account has no handler, and nothing of a character.
Idle(r) ==
  /\ r.state \in {"none", "gone"} => r.account = Lobby!None
  /\ r.account = Lobby!None <=> r.handler = "none"
  /\ r.account = Lobby!None => r.list = {} /\ r.handle = 0

\* What a session lists, loads and plays was made by its account.
Owns(r, m) ==
  /\ \A c \in r.list : c.sid \in 1 .. Len(m) /\ m[c.sid] = r.account
  /\ r.handler \in {"loading", "game"} => r.sid \in 1 .. Len(m) /\ m[r.sid] = r.account
  /\ r.handler = "game" => r.handle # 0

\* A query was asked by the handler of its session, or by one before that.
AskedBy(q, r, m) ==
  /\ r.state # "none"
  /\ r.state # "gone" =>
       /\ r.handler # "none" /\ q.by = r.account
       /\ q.h = "loading" => r.handler \in {"loading", "game"}
       /\ q.kind = "list" => \A c \in q.rows : c.sid \in 1 .. Len(m) /\ m[c.sid] = r.account
       /\ q.kind = "items" => r.handle # 0

\* No two characters have one name.
Named(D) == \A c, d \in D : c.name = d.name => c = d

OneCreation(Q) == \A p, q \in Q : p.kind = "create" /\ q.kind = "create" /\ p.s = q.s => p = q

\* A handle is of one session, or free, once.
Handled(C, H) ==
  /\ \A s \in Sessions : C[s].handle \in 0 .. H.next
  /\ \A i \in 1 .. Len(H.free) : H.free[i] \in 1 .. H.next
  /\ \A i, j \in 1 .. Len(H.free) : H.free[i] = H.free[j] => i = j
  /\ \A s \in Sessions : \A i \in 1 .. Len(H.free) : C[s].handle # H.free[i]
  /\ \A s, t \in Sessions : C[s].handle # 0 /\ s # t => C[s].handle # C[t].handle

\* While no connection to the auth server was lost, it knows who is in the game.
Counted(C, A, known) ==
  A.losses = 0 =>
    \A s \in Sessions : C[s].account # Lobby!None =>
      C[s].account \in known /\ \A t \in Sessions : t # s => C[t].account # C[s].account

LobbyInv ==
  /\ LobbyTypes
  /\ Registered(cs, link)
  /\ \A s \in Sessions : Idle(cs[s]) /\ Owns(cs[s], creators)
  /\ \A c \in db : c.sid \in 1 .. Len(creators)
  /\ Named(db)
  /\ \A q \in queries : AskedBy(q, cs[q.s], creators)
  /\ OneCreation(queries)
  /\ Handled(cs, handles)
  /\ Counted(cs, link, online)

\* Nothing else of a session matters to the account and the answer it waits for.
SameAccount(r, t) ==
  /\ t.account = r.account
  /\ r.authReceived => t.authReceived
  /\ t.state = "none" => r.state = "none"
  /\ t.state = "gone" <=> r.state = "gone"

SamePlayer(r, t) == SameAccount(r, t) /\ t.handle = r.handle

LEMMA AccountKept ==
  ASSUME LobbyAssumption,
         NEW C \in [Sessions -> Players], NEW s \in Sessions, NEW t \in Players, SameAccount(C[s], t),
         NEW D, D = [C EXCEPT ![s] = t],
         NEW A \in AuthLinks, NEW known
  PROVE  /\ D \in [Sessions -> Players]
         /\ \A u \in Sessions : D[u] = IF u = s THEN t ELSE C[u]
         /\ Registered(C, A) => Registered(D, A)
         /\ Counted(C, A, known) => Counted(D, A, known)
<1>1. D \in [Sessions -> Players] /\ \A u \in Sessions : D[u] = IF u = s THEN t ELSE C[u]
  OBVIOUS
<1>2. /\ t.account = C[s].account
      /\ C[s].authReceived => t.authReceived
      /\ t.state = "none" => C[s].state = "none"
      /\ t.state = "gone" <=> C[s].state = "gone"
  BY DEF SameAccount
<1>3. \A u \in Sessions :
        /\ D[u].account = C[u].account
        /\ C[u].authReceived => D[u].authReceived
        /\ D[u].state = "none" => C[u].state = "none"
        /\ D[u].state = "gone" <=> C[u].state = "gone"
  BY <1>1, <1>2
<1>4. ASSUME Registered(C, A) PROVE Registered(D, A)
  <2>1. ASSUME NEW a \in Accounts, A.pending[a] # 0
        PROVE  /\ D[A.pending[a]].account = Lobby!None
               /\ D[A.pending[a]].state # "none"
               /\ D[A.pending[a]].state # "gone" => D[A.pending[a]].authReceived
    <3>1. A.pending[a] \in Sessions
      BY <2>1 DEF AuthLinks
    <3>2. /\ C[A.pending[a]].account = Lobby!None
          /\ C[A.pending[a]].state # "none"
          /\ C[A.pending[a]].state # "gone" => C[A.pending[a]].authReceived
      BY <1>4, <2>1 DEF Registered
    <3> QED
      BY <1>3, <3>1, <3>2
  <2> QED
    BY <1>4, <2>1 DEF Registered
<1>5. Counted(C, A, known) => Counted(D, A, known)
  BY <1>3 DEF Counted
<1> QED
  BY <1>1, <1>4, <1>5

LEMMA SameKept ==
  ASSUME LobbyAssumption,
         NEW C \in [Sessions -> Players], NEW s \in Sessions, NEW t \in Players, SamePlayer(C[s], t),
         NEW D, D = [C EXCEPT ![s] = t],
         NEW A \in AuthLinks, NEW H, NEW known
  PROVE  /\ D \in [Sessions -> Players]
         /\ \A u \in Sessions : D[u] = IF u = s THEN t ELSE C[u]
         /\ Registered(C, A) => Registered(D, A)
         /\ Handled(C, H) => Handled(D, H)
         /\ Counted(C, A, known) => Counted(D, A, known)
<1>1. /\ D \in [Sessions -> Players]
      /\ \A u \in Sessions : D[u] = IF u = s THEN t ELSE C[u]
      /\ Registered(C, A) => Registered(D, A)
      /\ Counted(C, A, known) => Counted(D, A, known)
  BY AccountKept DEF SamePlayer
<1>2. \A u \in Sessions : D[u].handle = C[u].handle
  BY <1>1 DEF SamePlayer
<1>3. Handled(C, H) => Handled(D, H)
  BY <1>2 DEF Handled
<1> QED
  BY <1>1, <1>3

\* A query that was asked is still asked by a session that goes on.
Onward(r, t) ==
  /\ t.state = "none" => r.state = "none"
  /\ t.state # "gone" =>
       /\ r.state # "gone"
       /\ r.handler # "none" =>
            /\ t.handler # "none" /\ t.account = r.account
            /\ r.handler \in {"loading", "game"} => t.handler \in {"loading", "game"}
            /\ r.handle # 0 => t.handle # 0

LEMMA AskedOnward ==
  ASSUME NEW q, NEW r, NEW t, NEW m, AskedBy(q, r, m), Onward(r, t)
  PROVE  AskedBy(q, t, m)
<1>1. t.state # "none"
  BY DEF AskedBy, Onward
<1>2. ASSUME t.state # "gone"
      PROVE  /\ t.handler # "none" /\ q.by = t.account
             /\ q.h = "loading" => t.handler \in {"loading", "game"}
             /\ q.kind = "list" => \A c \in q.rows : c.sid \in 1 .. Len(m) /\ m[c.sid] = t.account
             /\ q.kind = "items" => t.handle # 0
  <2>1. /\ r.state # "gone"
        /\ r.handler # "none" =>
             /\ t.handler # "none" /\ t.account = r.account
             /\ r.handler \in {"loading", "game"} => t.handler \in {"loading", "game"}
             /\ r.handle # 0 => t.handle # 0
    BY <1>2 DEF Onward
  <2>2. /\ r.handler # "none" /\ q.by = r.account
        /\ q.h = "loading" => r.handler \in {"loading", "game"}
        /\ q.kind = "list" => \A c \in q.rows : c.sid \in 1 .. Len(m) /\ m[c.sid] = r.account
        /\ q.kind = "items" => r.handle # 0
    BY <2>1 DEF AskedBy
  <2> QED
    BY <2>1, <2>2
<1> QED
  BY <1>1, <1>2 DEF AskedBy

\* A step of one session, with the queries that are there after it.
LEMMA PlayerStep ==
  ASSUME LobbyAssumption, LobbyInv, NEW s \in Sessions, NEW t \in Players,
         cs' = [cs EXCEPT ![s] = t], SamePlayer(cs[s], t), Onward(cs[s], t),
         Idle(t), Owns(t, creators),
         link' = link, handles' = handles, online' = online, db' = db,
         creators' = creators, dead' = dead,
         \A q \in queries' : QueryType(q), OneCreation(queries'),
         \A q \in queries' : q \in queries \/ (q.s = s /\ AskedBy(q, t, creators))
  PROVE  LobbyInv'
<1>1. /\ LobbyTypes /\ cs \in [Sessions -> Players] /\ link \in AuthLinks
      /\ \A u \in Sessions : Idle(cs[u]) /\ Owns(cs[u], creators)
      /\ Registered(cs, link) /\ Handled(cs, handles) /\ Counted(cs, link, online)
  BY DEF LobbyInv, LobbyTypes
<1>2. /\ cs' \in [Sessions -> Players] /\ \A u \in Sessions : cs'[u] = IF u = s THEN t ELSE cs[u]
      /\ Registered(cs', link) /\ Handled(cs', handles) /\ Counted(cs', link, online)
  <2>1. PICK C, D, A, H, K : C = cs /\ D = cs' /\ A = link /\ H = handles /\ K = online
    OBVIOUS
  <2>2. /\ C \in [Sessions -> Players] /\ D = [C EXCEPT ![s] = t] /\ A \in AuthLinks
        /\ SamePlayer(C[s], t) /\ Registered(C, A) /\ Handled(C, H) /\ Counted(C, A, K)
    BY <1>1, <2>1
  <2>3. /\ D \in [Sessions -> Players] /\ \A u \in Sessions : D[u] = IF u = s THEN t ELSE C[u]
        /\ Registered(D, A) /\ Handled(D, H) /\ Counted(D, A, K)
    BY <2>2, SameKept
  <2> QED
    BY <2>1, <2>3
<1>3. LobbyTypes'
  BY <1>1, <1>2 DEF LobbyTypes
<1>4. \A u \in Sessions : Idle(cs'[u]) /\ Owns(cs'[u], creators')
  BY <1>1, <1>2
<1>5. ASSUME NEW q \in queries' PROVE AskedBy(q, cs'[q.s], creators')
  <2>1. CASE q \in queries
    <3>1. q.s \in Sessions /\ AskedBy(q, cs[q.s], creators)
      BY <1>1, <2>1 DEF LobbyInv, LobbyTypes, QueryType
    <3>2. CASE q.s = s
      <4>1. AskedBy(q, t, creators)
        BY <3>1, <3>2, AskedOnward
      <4> QED
        BY <1>2, <3>2, <4>1
    <3>3. CASE q.s # s
      BY <1>2, <3>1, <3>3
    <3> QED
      BY <3>2, <3>3
  <2>2. CASE q.s = s /\ AskedBy(q, t, creators)
    BY <1>2, <2>2
  <2> QED
    BY <2>1, <2>2
<1>6. Named(db') /\ \A c \in db' : c.sid \in 1 .. Len(creators')
  BY DEF LobbyInv
<1> QED
  BY <1>2, <1>3, <1>4, <1>5, <1>6 DEF LobbyInv

\* What LobbyInv says of the queries and of a session.
LEMMA QueriesSound ==
  ASSUME LobbyInv
  PROVE  /\ \A q \in queries : QueryType(q) /\ AskedBy(q, cs[q.s], creators)
         /\ OneCreation(queries)
         /\ \A s \in Sessions : cs[s] \in Players /\ Idle(cs[s]) /\ Owns(cs[s], creators)
         /\ cs \in [Sessions -> Players] /\ cs = [s \in Sessions |-> cs[s]]
  BY DEF LobbyInv, LobbyTypes

\* What executeDbQuery adds.
LEMMA QueryAdded ==
  ASSUME LobbyInv, NEW Q, \A q \in Q : QueryType(q), OneCreation(Q),
         NEW s \in Sessions, NEW kind \in LobbyKinds \union {"character", "items"}, NEW h,
         h = (IF kind \in LobbyKinds THEN "lobby" ELSE "loading"), NEW arg \in Arguments,
         kind \in {"name", "create", "delete"} => arg \in Lobby!AnyName, kind = "character" => arg \in Nat,
         Lobby!executeDbQuery(Q, s, h, kind, arg),
         kind = "create" => \A q \in Q : ~(q.kind = "create" /\ q.s = s)
  PROVE  /\ \A q \in queries' : QueryType(q)
         /\ OneCreation(queries')
         /\ \A q \in queries' : q \in Q \/ (q.s = s /\ q.h = h /\ q.by = cs[s].account /\ q.kind = kind /\ q.rows = {})
<1>1. PICK n, by : /\ by = cs[s].account
                   /\ queries' = Q \union {[n |-> n, s |-> s, h |-> h, by |-> by, kind |-> kind, arg |-> arg,
                                            done |-> FALSE, rows |-> {}]}
  BY DEF Lobby!executeDbQuery
<1>2. PICK new : new = [n |-> n, s |-> s, h |-> h, by |-> by, kind |-> kind, arg |-> arg, done |-> FALSE, rows |-> {}]
  OBVIOUS
<1>3. /\ new.s = s /\ new.h = h /\ new.by = cs[s].account /\ new.kind = kind /\ new.rows = {} /\ new.arg = arg /\ new.n = n
      /\ queries' = Q \union {new}
  BY <1>1, <1>2
<1>4. QueryType(new)
  <2>1. h \in {"lobby", "loading"}
    OBVIOUS
  <2>0. by \in Owners
    BY <1>1, QueriesSound DEF Players
  <2>2. new \in [n : {n}, s : Sessions, h : {"lobby", "loading"}, by : Owners,
                 kind : LobbyKinds \union {"character", "items"}, arg : Arguments,
                 done : BOOLEAN, rows : SUBSET Stored]
    BY <1>2, <2>0, <2>1
  <2> QED
    BY <1>3, <2>2 DEF QueryType
<1>5. OneCreation(queries')
  <2> SUFFICES ASSUME NEW p \in queries', NEW q \in queries', p.kind = "create", q.kind = "create", p.s = q.s
               PROVE  p = q
    BY DEF OneCreation
  <2>1. CASE p \in Q /\ q \in Q
    BY <2>1 DEF OneCreation
  <2>2. CASE p \in Q /\ q = new
    BY <1>3, <2>2
  <2>3. CASE p = new /\ q \in Q
    BY <1>3, <2>3
  <2> QED
    BY <1>3, <2>1, <2>2, <2>3
<1> QED
  BY <1>3, <1>4, <1>5

LEMMA AcceptStep ==
  ASSUME LobbyAssumption, LobbyInv, NEW s \in Sessions, Lobby!Accept(s)
  PROVE  LobbyInv'
<1>1. PICK t : t = [cs[s] EXCEPT !.state = "open"]
  OBVIOUS
<1>2. /\ cs[s] \in Players /\ cs[s].state = "none" /\ Idle(cs[s]) /\ Owns(cs[s], creators)
      /\ cs' = [cs EXCEPT ![s] = t]
  BY <1>1, QueriesSound DEF Lobby!Accept
<1>3. /\ t \in Players /\ t.state = "open" /\ t.account = cs[s].account /\ t.handler = cs[s].handler
      /\ t.list = cs[s].list /\ t.handle = cs[s].handle /\ t.sid = cs[s].sid
      /\ t.authReceived = cs[s].authReceived
  BY <1>1, <1>2 DEF Players, PlayerStates
<1>4. Idle(t) /\ Owns(t, creators) /\ SamePlayer(cs[s], t) /\ Onward(cs[s], t)
  BY <1>2, <1>3 DEF Idle, Owns, SamePlayer, SameAccount, Onward
<1> QED
  BY <1>2, <1>3, <1>4, QueriesSound, PlayerStep DEF Lobby!Accept

\* A session that is closed is the same to all others until it is destroyed.
LEMMA Closing ==
  ASSUME NEW m, NEW r \in Players, r.state \in {"open", "closing"}, Idle(r), Owns(r, m), NEW t, t = [r EXCEPT !.state = "closing"]
  PROVE  /\ t \in Players /\ Idle(t) /\ Owns(t, m) /\ SamePlayer(r, t) /\ Onward(r, t)
         /\ t.handler = r.handler /\ t.state = "closing"
<1>1. /\ t \in Players /\ t.state = "closing" /\ t.account = r.account /\ t.handler = r.handler
      /\ t.list = r.list /\ t.handle = r.handle /\ t.sid = r.sid /\ t.authReceived = r.authReceived
  BY DEF Players, PlayerStates
<1> QED
  BY <1>1 DEF Idle, Owns, SamePlayer, SameAccount, Onward

LEMMA PlayerClosesStep ==
  ASSUME LobbyAssumption, LobbyInv, NEW s \in Sessions, Lobby!ClientCloses(s)
  PROVE  LobbyInv'
<1>1. PICK r, t : r = cs[s] /\ t = [r EXCEPT !.state = "closing"]
  OBVIOUS
<1>2. /\ r \in Players /\ r.state = "open" /\ Idle(r) /\ Owns(r, creators)
      /\ cs' = [cs EXCEPT ![s] = t]
  BY <1>1, QueriesSound DEF Lobby!ClientCloses
<1>3. /\ t \in Players /\ Idle(t) /\ Owns(t, creators) /\ SamePlayer(r, t) /\ Onward(r, t)
  BY <1>1, <1>2, Closing
<1> QED
  BY <1>1, <1>2, <1>3, QueriesSound, PlayerStep DEF Lobby!ClientCloses

\* A session in the lobby asks something; at most the name that it validated is forgotten.
LEMMA AskStep ==
  ASSUME LobbyAssumption, LobbyInv, NEW s \in Sessions, Lobby!InLobby(s),
         NEW kind \in LobbyKinds, NEW arg \in Arguments,
         kind \in {"name", "create", "delete"} => arg \in Lobby!AnyName,
         Lobby!executeDbQuery(queries, s, "lobby", kind, arg) \/ queries' = queries,
         kind = "create" => \A q \in queries : ~(q.kind = "create" /\ q.s = s),
         cs' = cs \/ cs' = [cs EXCEPT ![s].validated = Lobby!None],
         link' = link, handles' = handles, online' = online, db' = db, creators' = creators, dead' = dead
  PROVE  LobbyInv'
<1>1. /\ cs[s] \in Players /\ cs[s].state = "open" /\ cs[s].handler = "lobby"
      /\ Idle(cs[s]) /\ Owns(cs[s], creators)
  BY QueriesSound DEF Lobby!InLobby
<1>2. PICK t : t \in {cs[s], [cs[s] EXCEPT !.validated = Lobby!None]} /\ cs' = [cs EXCEPT ![s] = t]
  BY QueriesSound
<1>3. /\ t \in Players /\ t.state = "open" /\ t.account = cs[s].account /\ t.handler = "lobby"
      /\ t.list = cs[s].list /\ t.handle = cs[s].handle /\ t.sid = cs[s].sid
      /\ t.authReceived = cs[s].authReceived
  BY <1>1, <1>2 DEF Players, Lobby!AnyName
<1>4. Idle(t) /\ Owns(t, creators) /\ SamePlayer(cs[s], t) /\ Onward(cs[s], t)
  BY <1>1, <1>3 DEF Idle, Owns, SamePlayer, SameAccount, Onward
<1>5. /\ \A q \in queries' : QueryType(q)
      /\ OneCreation(queries')
      /\ \A q \in queries' : q \in queries \/ (q.s = s /\ q.h = "lobby" /\ q.by = cs[s].account /\ q.kind = kind /\ q.rows = {})
  <2>1. CASE queries' = queries
    BY <2>1, QueriesSound
  <2>2. CASE Lobby!executeDbQuery(queries, s, "lobby", kind, arg)
    <3>1. (\A q \in queries : QueryType(q)) /\ OneCreation(queries)
      BY QueriesSound
    <3>2. kind \in LobbyKinds \union {"character", "items"} /\ kind # "character"
      BY DEF LobbyKinds
    <3> QED
      BY <2>2, <3>1, <3>2, QueryAdded
  <2> QED
    BY <2>1, <2>2
<1>6. ASSUME NEW q \in queries' PROVE q \in queries \/ (q.s = s /\ AskedBy(q, t, creators))
  <2>1. ASSUME q.h = "lobby", q.by = cs[s].account, q.kind = kind, q.rows = {} PROVE AskedBy(q, t, creators)
    BY <1>3, <2>1 DEF AskedBy, LobbyKinds
  <2> QED
    BY <1>5, <2>1
<1> QED
  BY <1>2, <1>3, <1>4, <1>5, <1>6, PlayerStep

LEMMA onCharacterListQueryStep ==
  ASSUME LobbyAssumption, LobbyInv, NEW s \in Sessions, Lobby!onCharacterListQuery(s)
  PROVE  LobbyInv'
<1>1. "list" \in LobbyKinds /\ Lobby!None \in Arguments /\ "list" \notin {"name", "create", "delete"}
  BY DEF LobbyKinds, Arguments, Lobby!AnyName
<1> QED
  BY <1>1, AskStep DEF Lobby!onCharacterListQuery

LEMMA onCheckCharacterNameStep ==
  ASSUME LobbyAssumption, LobbyInv, NEW s \in Sessions, NEW n \in Names, NEW fine \in BOOLEAN,
         Lobby!onCheckCharacterName(s, n, fine)
  PROVE  LobbyInv'
<1>1. "name" \in LobbyKinds /\ n \in Arguments /\ n \in Lobby!AnyName
  BY DEF LobbyKinds, Arguments, Lobby!AnyName
<1>2. Lobby!executeDbQuery(queries, s, "lobby", "name", n) \/ queries' = queries
  BY DEF Lobby!onCheckCharacterName
<1> QED
  BY <1>1, <1>2, AskStep DEF Lobby!onCheckCharacterName

LEMMA onCreateCharacterStep ==
  ASSUME LobbyAssumption, LobbyInv, NEW s \in Sessions, NEW n \in Lobby!AnyName, Lobby!onCreateCharacter(s, n)
  PROVE  LobbyInv'
<1>1. "create" \in LobbyKinds /\ n \in Arguments
  BY DEF LobbyKinds, Arguments, Lobby!AnyName
<1>2. ASSUME NEW q \in queries PROVE ~(q.kind = "create" /\ q.s = s)
  <2>1. q.kind = "create" => q.h = "lobby"
    BY QueriesSound DEF QueryType, LobbyKinds
  <2>2. ~(q.s = s /\ Lobby!Live(q))
    BY DEF Lobby!onCreateCharacter, Lobby!InProgress
  <2>3. cs[s].state = "open" /\ cs[s].handler = "lobby"
    BY DEF Lobby!onCreateCharacter, Lobby!InLobby
  <2> QED
    BY <2>1, <2>2, <2>3 DEF Lobby!Live
<1> QED
  BY <1>1, <1>2, AskStep DEF Lobby!onCreateCharacter

LEMMA onDeleteCharacterStep ==
  ASSUME LobbyAssumption, LobbyInv, NEW s \in Sessions, NEW n \in Lobby!AnyName, Lobby!onDeleteCharacter(s, n)
  PROVE  LobbyInv'
<1>1. "delete" \in LobbyKinds /\ n \in Arguments
  BY DEF LobbyKinds, Arguments, Lobby!AnyName
<1> QED
  BY <1>1, AskStep DEF Lobby!onDeleteCharacter

\* A program that ended holds nothing.
LEMMA CrashStep ==
  ASSUME LobbyAssumption, LobbyInv, Lobby!Crash
  PROVE  LobbyInv'
<1>1. PICK f : f = Lobby!Fresh
  OBVIOUS
<1>2. /\ f \in Players /\ f.state = "none" /\ f.account = Lobby!None /\ f.handler = "none" /\ f.list = {}
      /\ f.handle = 0 /\ f.sid = 0
  BY <1>1 DEF Lobby!Fresh, Players, PlayerStates, Owners, Lobby!AnyName
<1>3. /\ cs' = [s \in Sessions |-> f] /\ link' = Lobby!NoAuth /\ online' = {} /\ queries' = {}
      /\ handles' = [next |-> 0, free |-> << >>] /\ db' = db /\ creators' = creators /\ dead' = TRUE
  BY <1>1 DEF Lobby!Crash
<1>4. /\ cs' \in [Sessions -> Players] /\ \A s \in Sessions : cs'[s] = f
      /\ link' \in AuthLinks /\ (\A a \in Accounts : link'.pending[a] = 0) /\ link'.asked = {}
      /\ handles' \in HandleStores /\ handles'.next = 0 /\ handles'.free = << >>
  BY <1>2, <1>3 DEF Lobby!NoAuth, AuthLinks, HandleStores
<1>5. LobbyTypes'
  BY <1>3, <1>4 DEF LobbyInv, LobbyTypes
<1>6. Registered(cs', link')
  BY <1>4 DEF Registered
<1>7. \A s \in Sessions : Idle(cs'[s]) /\ Owns(cs'[s], creators')
  BY <1>2, <1>4 DEF Idle, Owns
<1>8. Handled(cs', handles')
  BY <1>2, <1>4 DEF Handled
<1>9. Counted(cs', link', online')
  BY <1>2, <1>4 DEF Counted
<1>10. Named(db') /\ \A c \in db' : c.sid \in 1 .. Len(creators')
  BY <1>3 DEF LobbyInv
<1>11. OneCreation(queries') /\ \A q \in queries' : AskedBy(q, cs'[q.s], creators')
  BY <1>3 DEF OneCreation
<1> QED
  BY <1>5, <1>6, <1>7, <1>8, <1>9, <1>10, <1>11 DEF LobbyInv

LEMMA onCharacterLoginStep ==
  ASSUME LobbyAssumption, LobbyInv, NEW s \in Sessions, NEW n \in Lobby!AnyName, Lobby!onCharacterLogin(s, n)
  PROVE  LobbyInv'
<1>1. CASE Lobby!Crash
  BY <1>1, CrashStep
<1>2. ASSUME NEW c \in cs[s].list, Lobby!lobbyExitResult(s, c.sid),
             UNCHANGED <<link, online, db, creators, handles, dead>>
      PROVE  LobbyInv'
  <2>1. /\ cs[s] \in Players /\ cs[s].state = "open" /\ cs[s].handler = "lobby"
        /\ Idle(cs[s]) /\ Owns(cs[s], creators)
    BY QueriesSound DEF Lobby!onCharacterLogin, Lobby!InLobby
  <2>2. PICK t, sid : /\ sid = c.sid
                      /\ t = [cs[s] EXCEPT !.handler = "loading", !.sid = sid, !.list = {},
                                           !.validated = Lobby!None, !.populated = FALSE]
    OBVIOUS
  <2>3. cs' = [cs EXCEPT ![s] = t]
    BY <1>2, <2>2, QueriesSound DEF Lobby!lobbyExitResult
  <2>4. c \in Stored /\ sid \in Nat /\ sid \in 1 .. Len(creators) /\ creators[sid] = cs[s].account
    BY <1>2, <2>1, <2>2 DEF Players, Owns, Stored
  <2>5. /\ t \in Players /\ t.state = "open" /\ t.account = cs[s].account /\ t.handler = "loading"
        /\ t.list = {} /\ t.handle = cs[s].handle /\ t.sid = sid /\ t.authReceived = cs[s].authReceived
    BY <2>1, <2>2, <2>4 DEF Players, Lobby!AnyName
  <2>6. Idle(t) /\ Owns(t, creators) /\ SamePlayer(cs[s], t) /\ Onward(cs[s], t)
    BY <2>1, <2>4, <2>5 DEF Idle, Owns, SamePlayer, SameAccount, Onward
  <2>7. /\ \A q \in queries' : QueryType(q)
        /\ OneCreation(queries')
        /\ \A q \in queries' : q \in queries \/ (q.s = s /\ q.h = "loading" /\ q.by = cs[s].account /\ q.kind = "character" /\ q.rows = {})
    <3>1. (\A q \in queries : QueryType(q)) /\ OneCreation(queries)
      BY QueriesSound
    <3>2. "character" \notin LobbyKinds /\ sid \in Arguments
      BY <2>4 DEF LobbyKinds, Arguments
    <3>3. Lobby!executeDbQuery(queries, s, "loading", "character", sid)
      BY <1>2, <2>2 DEF Lobby!lobbyExitResult
    <3> QED
      BY <2>4, <3>1, <3>2, <3>3, QueryAdded
  <2>8. ASSUME NEW q \in queries' PROVE q \in queries \/ (q.s = s /\ AskedBy(q, t, creators))
    <3>1. ASSUME q.kind = "character", q.by = cs[s].account PROVE AskedBy(q, t, creators)
      BY <2>5, <3>1 DEF AskedBy
    <3> QED
      BY <2>7, <3>1
  <2> QED
    BY <1>2, <2>3, <2>5, <2>6, <2>7, <2>8, PlayerStep
<1>3. ASSUME NEW c \in {x \in cs[s].list : x.name = n}, Lobby!lobbyExitResult(s, c.sid),
             UNCHANGED <<link, online, db, creators, handles, dead>>
      PROVE  LobbyInv'
  BY <1>2, <1>3
<1> QED
  BY <1>1, <1>3 DEF Lobby!onCharacterLogin

\* A callback that leaves the sessions as they are, and one query less.
LEMMA QueriesFewer ==
  ASSUME LobbyInv, NEW Q \in SUBSET queries
  PROVE  (\A q \in Q : QueryType(q)) /\ OneCreation(Q)
<1>1. (\A q \in queries : QueryType(q)) /\ OneCreation(queries)
  BY QueriesSound
<1> QED
  BY <1>1 DEF OneCreation

LEMMA CancelledStep ==
  ASSUME LobbyAssumption, LobbyInv, NEW q \in queries,
         queries' = queries \ {q}, cs' = cs, link' = link, handles' = handles, online' = online,
         db' = db, creators' = creators, dead' = dead
  PROVE  LobbyInv'
<1>1. (\A p \in queries' : QueryType(p)) /\ OneCreation(queries') /\ queries' \subseteq queries
  BY QueriesFewer
<1>2. \A p \in queries' : AskedBy(p, cs'[p.s], creators')
  BY <1>1, QueriesSound
<1>3. LobbyTypes'
  BY <1>1 DEF LobbyInv, LobbyTypes
<1> QED
  BY <1>1, <1>2, <1>3 DEF LobbyInv


\* What loginClient makes of the requests.
Asking(A, a, s) == [A EXCEPT !.pending[a] = s, !.asked = @ \union {a}]

\* The session that asks has registered for no answer before.
LEMMA LoginRegisters ==
  ASSUME LobbyAssumption, NEW D,
         NEW A \in AuthLinks, Registered(D, A),
         NEW s \in Sessions, NEW a \in Accounts, A.pending[a] = 0,
         \A b \in Accounts : A.pending[b] # s,
         D[s].account = Lobby!None, D[s].state = "open", D[s].authReceived = TRUE,
         NEW B, B = Asking(A, a, s)
  PROVE  B \in AuthLinks /\ B.losses = A.losses /\ Registered(D, B)
<1>1. /\ s # 0
      /\ A.pending \in [Accounts -> Sessions \union {0}] /\ A.asked \subseteq Accounts /\ A.losses \in Nat
  BY DEF LobbyAssumption, AuthLinks
<1>2. /\ B.pending = [A.pending EXCEPT ![a] = s] /\ B.asked = A.asked \union {a} /\ B.losses = A.losses
      /\ B = [pending |-> [A.pending EXCEPT ![a] = s], asked |-> A.asked \union {a}, losses |-> A.losses]
  BY DEF AuthLinks, Asking
<1>3. /\ B.pending \in [Accounts -> Sessions \union {0}] /\ B.pending[a] = s
      /\ \A b \in Accounts : b # a => B.pending[b] = A.pending[b]
  BY <1>1, <1>2
<1>4. B \in AuthLinks
  BY <1>1, <1>2, <1>3 DEF AuthLinks
<1>5. ASSUME NEW b \in Accounts, B.pending[b] # 0
      PROVE  /\ D[B.pending[b]].account = Lobby!None
             /\ D[B.pending[b]].state # "none"
             /\ D[B.pending[b]].state # "gone" => D[B.pending[b]].authReceived
  <2>1. CASE b = a
    BY <1>3, <2>1
  <2>2. CASE b # a
    BY <1>3, <1>5, <2>2 DEF Registered
  <2> QED
    BY <2>1, <2>2
<1>6. ASSUME NEW b \in Accounts, NEW c \in Accounts, B.pending[b] # 0, B.pending[b] = B.pending[c]
      PROVE  b = c
  <2>1. CASE b = a \/ c = a
    BY <1>1, <1>3, <1>6, <2>1
  <2>2. CASE b # a /\ c # a
    <3>1. A.pending[b] # 0 /\ A.pending[b] = A.pending[c]
      BY <1>3, <1>6, <2>2
    <3> QED
      BY <3>1 DEF Registered
  <2> QED
    BY <2>1, <2>2
<1>7. \A b \in B.asked : B.pending[b] # 0
  BY <1>1, <1>2, <1>3 DEF Registered
<1> QED
  BY <1>2, <1>4, <1>5, <1>6, <1>7 DEF Registered

LEMMA onAccountWithAuthStep ==
  ASSUME LobbyAssumption, LobbyInv, NEW s \in Sessions, NEW a \in Accounts, Lobby!onAccountWithAuth(s, a)
  PROVE  LobbyInv'
<1>1. PICK r : r = cs[s]
  OBVIOUS
<1>2. /\ r \in Players /\ r.state = "open" /\ r.account = Lobby!None /\ r.handler = "none"
      /\ Idle(r) /\ Owns(r, creators)
  BY <1>1, QueriesSound DEF Lobby!onAccountWithAuth, Idle
<1>3. CASE r.authReceived
  <2>1. PICK t : t = [r EXCEPT !.state = "closing"]
    OBVIOUS
  <2>2. t \in Players /\ Idle(t) /\ Owns(t, creators) /\ SamePlayer(r, t) /\ Onward(r, t)
    BY <1>2, <2>1, Closing
  <2>3. cs' = [cs EXCEPT ![s] = t] /\ link' = link
    BY <1>1, <1>3, <2>1, QueriesSound DEF Lobby!onAccountWithAuth
  <2> QED
    BY <1>1, <2>2, <2>3, QueriesSound, PlayerStep DEF Lobby!onAccountWithAuth
<1>4. CASE ~r.authReceived
  <2>1. PICK t : t = [r EXCEPT !.authReceived = TRUE]
    OBVIOUS
  <2>2. /\ t \in Players /\ t.state = "open" /\ t.account = r.account /\ t.handler = r.handler
        /\ t.list = r.list /\ t.handle = r.handle /\ t.sid = r.sid /\ t.authReceived
    BY <1>2, <2>1 DEF Players
  <2>3. Idle(t) /\ Owns(t, creators) /\ SamePlayer(r, t) /\ Onward(r, t)
    BY <1>2, <2>2 DEF Idle, Owns, SamePlayer, SameAccount, Onward
  <2>4. /\ cs' = [cs EXCEPT ![s] = t]
        /\ link' = IF link.pending[a] # 0 THEN link ELSE [link EXCEPT !.pending[a] = s, !.asked = @ \union {a}]
    BY <1>1, <1>4, <2>1, QueriesSound DEF Lobby!onAccountWithAuth, Lobby!loginClient
  <2>5. CASE link' = link
    BY <1>1, <2>2, <2>3, <2>4, <2>5, QueriesSound, PlayerStep DEF Lobby!onAccountWithAuth
  <2>6. CASE link.pending[a] = 0 /\ link' = [link EXCEPT !.pending[a] = s, !.asked = @ \union {a}]
    <3>1. PICK C, D, A, B, H, K : C = cs /\ D = cs' /\ A = link /\ B = link' /\ H = handles /\ K = online
      OBVIOUS
    <3>2. /\ C \in [Sessions -> Players] /\ A \in AuthLinks /\ D = [C EXCEPT ![s] = t] /\ r = C[s]
          /\ Registered(C, A) /\ Handled(C, H) /\ Counted(C, A, K)
          /\ A.pending[a] = 0 /\ B = Asking(A, a, s)
      BY <1>1, <2>4, <2>6, <3>1 DEF LobbyInv, LobbyTypes, Asking
    <3>3. /\ D \in [Sessions -> Players] /\ \A u \in Sessions : D[u] = IF u = s THEN t ELSE C[u]
          /\ Registered(D, A) /\ Handled(D, H) /\ Counted(D, A, K)
      BY <2>2, <2>3, <3>2, SameKept
    <3>4. B \in AuthLinks /\ B.losses = A.losses /\ Registered(D, B)
      <4>1. ASSUME NEW b \in Accounts, A.pending[b] = s PROVE FALSE
        <5>1. A.pending[b] # 0
          BY <4>1 DEF LobbyAssumption
        <5>2. C[s].state # "gone" => C[s].authReceived
          BY <3>2, <4>1, <5>1 DEF Registered
        <5> QED
          BY <1>2, <1>4, <3>2, <5>2
      <4>2. D[s].account = Lobby!None /\ D[s].state = "open" /\ D[s].authReceived = TRUE
        BY <1>2, <2>2, <3>3 DEF Players
      <4>3. /\ D \in [Sessions -> Players] /\ A \in AuthLinks
            /\ Registered(D, A) /\ A.pending[a] = 0 /\ B = Asking(A, a, s)
        BY <3>2, <3>3
      <4>4. \A b \in Accounts : A.pending[b] # s
        BY <4>1
      <4>5. LobbyAssumption
        OBVIOUS
      <4>6. /\ Asking(A, a, s) \in AuthLinks /\ Asking(A, a, s).losses = A.losses
            /\ Registered(D, Asking(A, a, s))
        BY <4>2, <4>3, <4>4, <4>5, LoginRegisters
      <4> QED
        BY <4>3, <4>6
    <3>5. Counted(D, B, K)
      BY <3>3, <3>4 DEF Counted
    <3>6. UNCHANGED <<online, queries, db, creators, handles, dead>>
      BY DEF Lobby!onAccountWithAuth
    <3>7. LobbyTypes'
      BY <3>1, <3>3, <3>4, <3>6 DEF LobbyInv, LobbyTypes
    <3>8. \A u \in Sessions : Idle(cs'[u]) /\ Owns(cs'[u], creators')
      BY <2>3, <3>1, <3>3, <3>6, QueriesSound
    <3>9. ASSUME NEW q \in queries' PROVE AskedBy(q, cs'[q.s], creators')
      <4>1. q \in queries /\ q.s \in Sessions /\ AskedBy(q, cs[q.s], creators)
        BY <3>6, QueriesSound DEF QueryType
      <4>2. CASE q.s = s
        <5>1. AskedBy(q, t, creators)
          BY <1>1, <2>3, <4>1, <4>2, AskedOnward
        <5> QED
          BY <3>1, <3>3, <3>6, <4>2, <5>1
      <4>3. CASE q.s # s
        BY <3>1, <3>3, <3>6, <4>1, <4>3
      <4> QED
        BY <4>2, <4>3
    <3>10. Registered(cs', link') /\ Handled(cs', handles') /\ Counted(cs', link', online')
      BY <3>1, <3>3, <3>4, <3>5, <3>6
    <3>11. OneCreation(queries') /\ Named(db') /\ \A c \in db' : c.sid \in 1 .. Len(creators')
      BY <3>6 DEF LobbyInv
    <3> QED
      BY <3>7, <3>8, <3>9, <3>10, <3>11 DEF LobbyInv
  <2> QED
    BY <2>4, <2>5, <2>6
<1> QED
  BY <1>3, <1>4

\* The auth server forgets; nobody is counted any more.
LEMMA AuthLostStep ==
  ASSUME LobbyAssumption, LobbyInv, Lobby!AuthLost
  PROVE  LobbyInv'
<1>1. PICK A, B : A = link /\ B = link'
  OBVIOUS
<1>2. /\ A \in AuthLinks /\ B = [A EXCEPT !.asked = {}, !.losses = @ + 1]
      /\ UNCHANGED <<cs, queries, db, creators, handles, dead>>
  BY <1>1 DEF Lobby!AuthLost, LobbyInv, LobbyTypes
<1>3. B.pending = A.pending /\ B.asked = {} /\ B.losses = A.losses + 1 /\ A.losses \in Nat /\ B \in AuthLinks
  <2>1. A.pending \in [Accounts -> Sessions \union {0}] /\ A.losses \in Nat
    BY <1>2 DEF AuthLinks
  <2>2. B = [pending |-> A.pending, asked |-> {}, losses |-> A.losses + 1]
    BY <1>2 DEF AuthLinks
  <2>3. B \in AuthLinks
    BY <2>1, <2>2 DEF AuthLinks
  <2> QED
    BY <2>1, <2>2, <2>3
<1>4. Registered(cs', link')
  <2>1. Registered(cs, A)
    BY <1>1 DEF LobbyInv
  <2>2. Registered(cs, B)
    BY <1>3, <2>1 DEF Registered
  <2> QED
    BY <1>1, <1>2, <2>2
<1>5. Counted(cs', link', online')
  <2>1. B.losses # 0
    BY <1>3
  <2> QED
    BY <1>1, <2>1 DEF Counted
<1>6. LobbyTypes'
  BY <1>1, <1>2, <1>3 DEF LobbyInv, LobbyTypes
<1>7. /\ \A s \in Sessions : Idle(cs'[s]) /\ Owns(cs'[s], creators')
      /\ Named(db') /\ \A c \in db' : c.sid \in 1 .. Len(creators')
      /\ \A q \in queries' : AskedBy(q, cs'[q.s], creators')
      /\ OneCreation(queries') /\ Handled(cs', handles')
  BY <1>2 DEF LobbyInv
<1> QED
  BY <1>4, <1>5, <1>6, <1>7 DEF LobbyInv

\* A step of one session that is not SamePlayer: what is left to show of it.
LEMMA SessionStep ==
  ASSUME LobbyAssumption, LobbyInv, NEW s \in Sessions, NEW t \in Players,
         cs' = [cs EXCEPT ![s] = t], Idle(t), Owns(t, creators),
         \A q \in queries' : QueryType(q) /\ IF q.s = s THEN AskedBy(q, t, creators) ELSE q \in queries,
         OneCreation(queries'),
         link' \in AuthLinks, handles' \in HandleStores,
         Registered(cs', link'), Handled(cs', handles'), Counted(cs', link', online'),
         db' = db, creators' = creators, dead' = dead
  PROVE  LobbyInv'
<1>1. cs' \in [Sessions -> Players] /\ \A u \in Sessions : cs'[u] = IF u = s THEN t ELSE cs[u]
  BY DEF LobbyInv, LobbyTypes
<1>2. LobbyTypes'
  BY <1>1 DEF LobbyInv, LobbyTypes
<1>3. \A u \in Sessions : Idle(cs'[u]) /\ Owns(cs'[u], creators')
  BY <1>1, QueriesSound
<1>4. ASSUME NEW q \in queries' PROVE AskedBy(q, cs'[q.s], creators')
  <2>1. q.s \in Sessions /\ (q.s = s => AskedBy(q, t, creators)) /\ (q.s # s => AskedBy(q, cs[q.s], creators))
    BY QueriesSound DEF QueryType
  <2> QED
    BY <1>1, <2>1
<1>5. Named(db') /\ \A c \in db' : c.sid \in 1 .. Len(creators')
  BY DEF LobbyInv
<1> QED
  BY <1>2, <1>3, <1>4, <1>5 DEF LobbyInv

\* What the answer of the auth server leaves of the requests.
Answering(A, a) == [A EXCEPT !.asked = @ \ {a}, !.pending[a] = 0]

LEMMA LoginAnsweredOnce ==
  ASSUME LobbyAssumption, NEW C, NEW D, NEW A \in AuthLinks, Registered(C, A), NEW a \in Accounts, a \in A.asked,
         \A u \in Sessions : u # A.pending[a] => D[u] = C[u],
         NEW B, B = Answering(A, a)
  PROVE  B \in AuthLinks /\ B.losses = A.losses /\ Registered(D, B)
<1>1. A.pending \in [Accounts -> Sessions \union {0}] /\ A.asked \subseteq Accounts /\ A.losses \in Nat
  BY DEF AuthLinks
<1>2. /\ B.pending = [A.pending EXCEPT ![a] = 0] /\ B.asked = A.asked \ {a} /\ B.losses = A.losses
      /\ B = [pending |-> [A.pending EXCEPT ![a] = 0], asked |-> A.asked \ {a}, losses |-> A.losses]
  BY DEF AuthLinks, Answering
<1>3. /\ B.pending \in [Accounts -> Sessions \union {0}] /\ B.pending[a] = 0
      /\ \A b \in Accounts : b # a => B.pending[b] = A.pending[b]
  BY <1>1, <1>2
<1>4. B \in AuthLinks
  BY <1>1, <1>2, <1>3 DEF AuthLinks
<1>5. ASSUME NEW b \in Accounts, B.pending[b] # 0
      PROVE  /\ b # a /\ B.pending[b] = A.pending[b] /\ A.pending[b] \in Sessions
             /\ D[A.pending[b]] = C[A.pending[b]]
  <2>1. b # a /\ B.pending[b] = A.pending[b] /\ A.pending[b] \in Sessions
    BY <1>1, <1>3, <1>5
  <2>2. A.pending[b] # A.pending[a]
    BY <1>5, <2>1 DEF Registered
  <2> QED
    BY <2>1, <2>2
<1>6. ASSUME NEW b \in Accounts, B.pending[b] # 0
      PROVE  /\ D[B.pending[b]].account = Lobby!None
             /\ D[B.pending[b]].state # "none"
             /\ D[B.pending[b]].state # "gone" => D[B.pending[b]].authReceived
  <2>1. A.pending[b] # 0
    BY <1>5, <1>6
  <2>2. /\ C[A.pending[b]].account = Lobby!None
        /\ C[A.pending[b]].state # "none"
        /\ C[A.pending[b]].state # "gone" => C[A.pending[b]].authReceived
    BY <2>1 DEF Registered
  <2> QED
    BY <1>5, <1>6, <2>2
<1>7. ASSUME NEW b \in Accounts, NEW c \in Accounts, B.pending[b] # 0, B.pending[b] = B.pending[c]
      PROVE  b = c
  <2>1. A.pending[b] # 0 /\ A.pending[b] = A.pending[c]
    BY <1>5, <1>7
  <2> QED
    BY <2>1 DEF Registered
<1>8. \A b \in B.asked : B.pending[b] # 0
  BY <1>1, <1>2, <1>3 DEF Registered
<1> QED
  BY <1>2, <1>4, <1>6, <1>7, <1>8 DEF Registered

\* An account that the auth server admits is that of no other session.
LEMMA AdmittedOnce ==
  ASSUME LobbyAssumption, NEW C, NEW D, NEW A, NEW B, NEW known, Counted(C, A, known), B.losses = A.losses,
         NEW s \in Sessions, NEW a \in Accounts, a \notin known, D[s].account = a,
         \A u \in Sessions : u # s => D[u] = C[u]
  PROVE  Counted(D, B, known \union {a})
<1> SUFFICES ASSUME A.losses = 0, NEW u \in Sessions, D[u].account # Lobby!None
             PROVE  /\ D[u].account \in known \union {a}
                    /\ \A t \in Sessions : t # u => D[t].account # D[u].account
  BY DEF Counted
<1>1. \A t \in Sessions : C[t].account # Lobby!None =>
        C[t].account \in known /\ \A v \in Sessions : v # t => C[v].account # C[t].account
  BY DEF Counted
<1>2. a # Lobby!None
  BY DEF LobbyAssumption
<1>3. \A t \in Sessions : t # s => D[t].account # a
  BY <1>1, <1>2
<1>4. CASE u = s
  BY <1>3, <1>4
<1>5. CASE u # s
  BY <1>1, <1>3, <1>5
<1> QED
  BY <1>4, <1>5

LEMMA onClientLoginResultStep ==
  ASSUME LobbyAssumption, LobbyInv, NEW a \in Accounts, NEW ok \in BOOLEAN, Lobby!onClientLoginResult(a, ok)
  PROVE  LobbyInv'
<1>1. PICK s : s = link.pending[a]
  OBVIOUS
<1>2. /\ link \in AuthLinks /\ Registered(cs, link) /\ Handled(cs, handles) /\ Counted(cs, link, online)
      /\ handles \in HandleStores /\ cs \in [Sessions -> Players]
  BY DEF LobbyInv, LobbyTypes
<1>3. a \in link.asked /\ (ok => a \notin online)
  BY DEF Lobby!onClientLoginResult
<1>4. /\ s \in Sessions /\ cs[s].account = Lobby!None
      /\ cs[s] \in Players /\ Idle(cs[s]) /\ Owns(cs[s], creators)
  <2>1. s # 0 /\ s \in Sessions \union {0}
    BY <1>1, <1>2, <1>3 DEF Registered, AuthLinks
  <2> QED
    BY <1>1, <1>2, <2>1, QueriesSound DEF Registered
<1>5. CASE Lobby!Crash
  BY <1>5, CrashStep
<1>6. CASE /\ cs[s].state # "gone"
           /\ link' = [link EXCEPT !.asked = @ \ {a}, !.pending[a] = 0]
           /\ online' = IF ok THEN online \union {a} ELSE online
           /\ Lobby!onAccountLoginResult(s, a, ok)
           /\ UNCHANGED <<queries, db, creators, handles, dead>>
  <2>1. PICK t : t = IF ok THEN [cs[s] EXCEPT !.account = a, !.handler = "lobby"] ELSE cs[s]
    OBVIOUS
  <2>2. cs' = [cs EXCEPT ![s] = t]
    BY <1>2, <1>4, <1>6, <2>1 DEF Lobby!onAccountLoginResult
  <2>3. cs[s].handler = "none" /\ cs[s].list = {} /\ cs[s].handle = 0
    BY <1>4 DEF Idle
  <2>4. CASE ok
    <3>1. /\ t \in Players /\ t.state = cs[s].state /\ t.account = a /\ t.handler = "lobby"
          /\ t.list = {} /\ t.handle = 0
      BY <1>4, <2>1, <2>3, <2>4 DEF Players, Owners
    <3>2. Idle(t) /\ Owns(t, creators)
      <4>1. a # Lobby!None
        BY DEF LobbyAssumption
      <4>2. cs[s].state \notin {"none", "gone"}
        BY <1>1, <1>2, <1>3, <1>6 DEF Registered
      <4> QED
        BY <3>1, <4>1, <4>2 DEF Idle, Owns
    <3>3. ASSUME NEW q \in queries PROVE q.s # s
      <4>1. AskedBy(q, cs[q.s], creators)
        BY QueriesSound
      <4> QED
        BY <1>6, <2>3, <4>1 DEF AskedBy
    <3>4. PICK C, D, A, B, H, K : C = cs /\ D = cs' /\ A = link /\ B = link' /\ H = handles /\ K = online
      OBVIOUS
    <3>5. /\ C \in [Sessions -> Players] /\ D = [C EXCEPT ![s] = t] /\ B = Answering(A, a) /\ s = A.pending[a]
          /\ A \in AuthLinks /\ a \in A.asked /\ a \notin K
          /\ Registered(C, A) /\ Handled(C, H) /\ Counted(C, A, K) /\ C[s].handle = 0
      BY <1>1, <1>2, <1>3, <1>6, <2>2, <2>3, <2>4, <3>4 DEF Answering
    <3>6. \A u \in Sessions : D[u] = IF u = s THEN t ELSE C[u]
      BY <1>4, <3>5
    <3>7. B \in AuthLinks /\ B.losses = A.losses /\ Registered(D, B)
      <4>1. \A u \in Sessions : u # A.pending[a] => D[u] = C[u]
        BY <3>5, <3>6
      <4>2. A \in AuthLinks /\ Registered(C, A) /\ a \in A.asked /\ B = Answering(A, a) /\ LobbyAssumption
        BY <3>5
      <4> QED
        BY <4>1, <4>2, LoginAnsweredOnce
    <3>8. Counted(D, B, K \union {a})
      <4>1. D[s].account = a /\ \A u \in Sessions : u # s => D[u] = C[u]
        BY <1>4, <3>1, <3>6
      <4>2. B.losses = A.losses /\ Counted(C, A, K) /\ a \notin K /\ s \in Sessions
        BY <1>4, <3>5, <3>7
      <4> QED
        BY <4>1, <4>2, AdmittedOnce
    <3>9. Handled(D, H)
      <4>1. \A u \in Sessions : D[u].handle = C[u].handle
        BY <3>1, <3>5, <3>6
      <4> QED
        BY <3>5, <4>1 DEF Handled
    <3>10. /\ link' \in AuthLinks /\ handles' \in HandleStores
           /\ Registered(cs', link') /\ Handled(cs', handles') /\ Counted(cs', link', online')
      BY <1>2, <1>6, <2>4, <3>4, <3>7, <3>8, <3>9
    <3>11. /\ \A q \in queries' : QueryType(q) /\ IF q.s = s THEN AskedBy(q, t, creators) ELSE q \in queries
           /\ OneCreation(queries')
      BY <1>6, <3>3, QueriesSound
    <3> QED
      BY <1>4, <1>6, <2>2, <3>1, <3>2, <3>10, <3>11, SessionStep
  <2>5. CASE ~ok
    <3>1. t = cs[s] /\ cs' = cs /\ online' = online
      BY <1>2, <1>4, <1>6, <2>1, <2>2, <2>5
    <3>2. PICK C, A, B, K : C = cs /\ A = link /\ B = link' /\ K = online
      OBVIOUS
    <3>3. /\ B = Answering(A, a) /\ s = A.pending[a]
          /\ A \in AuthLinks /\ a \in A.asked /\ Registered(C, A) /\ Counted(C, A, K)
      BY <1>1, <1>2, <1>3, <1>6, <3>2 DEF Answering
    <3>4. B \in AuthLinks /\ B.losses = A.losses /\ Registered(C, B)
      <4>1. PICK D : D = C
        OBVIOUS
      <4>2. \A u \in Sessions : u # A.pending[a] => D[u] = C[u]
        BY <4>1
      <4>3. B \in AuthLinks /\ B.losses = A.losses /\ Registered(D, B)
        BY <3>3, <4>2, LoginAnsweredOnce
      <4> QED
        BY <4>1, <4>3
    <3>5. Counted(C, B, K)
      BY <3>3, <3>4 DEF Counted
    <3>6. /\ link' \in AuthLinks /\ handles' \in HandleStores
          /\ Registered(cs', link') /\ Handled(cs', handles') /\ Counted(cs', link', online')
      BY <1>2, <1>6, <3>1, <3>2, <3>4, <3>5
    <3>7. /\ \A q \in queries' : QueryType(q) /\ IF q.s = s THEN AskedBy(q, t, creators) ELSE q \in queries
          /\ OneCreation(queries')
      BY <1>6, <3>1, QueriesSound
    <3> QED
      BY <1>4, <1>6, <2>2, <3>1, <3>6, <3>7, SessionStep
  <2> QED
    BY <2>4, <2>5
<1> QED
  BY <1>1, <1>5, <1>6 DEF Lobby!onClientLoginResult

LEMMA StoreRecord ==
  ASSUME NEW n \in Nat, NEW f \in Seq(Nat), NEW G, G = [next |-> n, free |-> f]
  PROVE  G.next = n /\ G.free = f /\ G \in HandleStores
BY DEF HandleStores

\* ~ModelObject: a handle that a session gives back was that of no other, and not free.
LEMMA HandleFreed ==
  ASSUME NEW C, NEW D, NEW H \in HandleStores, Handled(C, H), NEW s \in Sessions, D[s].handle = 0,
         \A u \in Sessions : u # s => D[u] = C[u], C[s].handle # 0,
         NEW G, G = [H EXCEPT !.free = Append(@, C[s].handle)]
  PROVE  G \in HandleStores /\ Handled(D, G)
<1>1. PICK h, n, f : h = C[s].handle /\ n = H.next /\ f = H.free
  OBVIOUS
<1>2. /\ n \in Nat /\ f \in Seq(Nat) /\ h \in 1 .. n /\ h \in Nat
      /\ G = [next |-> n, free |-> Append(f, h)]
  <2>1. n \in Nat /\ f \in Seq(Nat) /\ H = [next |-> n, free |-> f]
    BY <1>1 DEF HandleStores
  <2>2. h \in 0 .. n /\ h # 0
    BY <1>1 DEF Handled
  <2>3. G = [next |-> n, free |-> Append(f, h)]
    BY <1>1, <2>1
  <2>4. h \in 1 .. n /\ h \in Nat
    <3>1. n \in Nat
      BY <2>1
    <3> QED
      BY <2>2, <3>1
  <2>5. n \in Nat /\ f \in Seq(Nat)
    BY <2>1
  <2> QED
    BY <2>3, <2>4, <2>5
<1>3. PICK g : g = Append(f, h)
  OBVIOUS
<1>4. /\ g \in Seq(Nat) /\ Len(g) = Len(f) + 1 /\ Len(f) \in Nat
      /\ \A i \in 1 .. Len(f) : g[i] = f[i]
      /\ g[Len(f) + 1] = h
  BY <1>2, <1>3
<1>5. G.next = n /\ G.free = g /\ G \in HandleStores
  <2>1. G = [next |-> n, free |-> g] /\ n \in Nat /\ g \in Seq(Nat)
    BY <1>2, <1>3, <1>4
  <2> QED
    BY <2>1, StoreRecord, ZenonT(30)
<1>6. /\ \A u \in Sessions : C[u].handle \in 0 .. n
      /\ \A i \in 1 .. Len(f) : f[i] \in 1 .. n
      /\ \A i, j \in 1 .. Len(f) : f[i] = f[j] => i = j
      /\ \A u \in Sessions : \A i \in 1 .. Len(f) : C[u].handle # f[i]
      /\ \A u, t \in Sessions : C[u].handle # 0 /\ u # t => C[u].handle # C[t].handle
  BY <1>1 DEF Handled
<1>7. \A u \in Sessions : D[u].handle \in 0 .. n
  <2>1. n \in Nat /\ 0 \in 0 .. n
    BY <1>2
  <2>2. \A u \in Sessions : D[u].handle = 0 \/ D[u].handle = C[u].handle
    OBVIOUS
  <2> QED
    BY <1>6, <2>1, <2>2
<1>8. ASSUME NEW i \in 1 .. Len(g) PROVE i \in 1 .. Len(f) \/ i = Len(f) + 1
  BY <1>4
<1>9. \A i \in 1 .. Len(g) : g[i] \in 1 .. n
  BY <1>2, <1>4, <1>6, <1>8
<1>10. ASSUME NEW i \in 1 .. Len(g), NEW j \in 1 .. Len(g), g[i] = g[j] PROVE i = j
  <2>1. \A k \in 1 .. Len(f) : f[k] # h
    BY <1>1, <1>6
  <2> QED
    BY <1>4, <1>6, <1>8, <1>10, <2>1
<1>11. ASSUME NEW u \in Sessions, NEW i \in 1 .. Len(g) PROVE D[u].handle # g[i]
  <2>1. g[i] # 0
    BY <1>9
  <2>2. CASE u = s
    BY <2>1, <2>2
  <2>3. CASE u # s
    <3>1. D[u].handle = C[u].handle /\ C[u].handle # h
      BY <1>1, <1>6, <2>3
    <3> QED
      BY <1>4, <1>6, <1>8, <3>1
  <2> QED
    BY <2>2, <2>3
<1>12. \A u, t \in Sessions : D[u].handle # 0 /\ u # t => D[u].handle # D[t].handle
  BY <1>6
<1> QED
  BY <1>5, <1>7, <1>9, <1>10, <1>11, <1>12 DEF Handled

\* allocHandle: the handle is that of no session.
LEMMA HandleAllocated ==
  ASSUME NEW C, NEW D, NEW H \in HandleStores, Handled(C, H), NEW s \in Sessions,
         \A u \in Sessions : u # s => D[u] = C[u],
         D[s].handle = IF H.free = << >> THEN H.next + 1 ELSE H.free[Len(H.free)],
         NEW G, G = IF H.free = << >> THEN [H EXCEPT !.next = @ + 1]
                    ELSE [H EXCEPT !.free = SubSeq(@, 1, Len(@) - 1)]
  PROVE  G \in HandleStores /\ Handled(D, G) /\ D[s].handle \in Nat \ {0}
<1>1. PICK h, n, f : h = D[s].handle /\ n = H.next /\ f = H.free
  OBVIOUS
<1>2. n \in Nat /\ f \in Seq(Nat) /\ Len(f) \in Nat /\ H = [next |-> n, free |-> f]
  BY <1>1 DEF HandleStores
<1>3. /\ \A u \in Sessions : C[u].handle \in 0 .. n
      /\ \A i \in 1 .. Len(f) : f[i] \in 1 .. n
      /\ \A i, j \in 1 .. Len(f) : f[i] = f[j] => i = j
      /\ \A u \in Sessions : \A i \in 1 .. Len(f) : C[u].handle # f[i]
      /\ \A u, t \in Sessions : C[u].handle # 0 /\ u # t => C[u].handle # C[t].handle
  BY <1>1 DEF Handled
<1>4. CASE f = << >>
  <2>1. h = n + 1 /\ G = [next |-> n + 1, free |-> f]
    BY <1>1, <1>2, <1>4
  <2>2. G.next = n + 1 /\ G.free = f /\ G \in HandleStores /\ Len(f) = 0 /\ h \in Nat \ {0}
    <3>1. n + 1 \in Nat /\ h \in Nat \ {0}
      BY <1>2, <2>1
    <3>2. G = [next |-> n + 1, free |-> f] /\ f \in Seq(Nat)
      BY <1>2, <2>1
    <3>3. G.next = n + 1 /\ G.free = f /\ G \in HandleStores
      BY <3>1, <3>2, StoreRecord
    <3>4. Len(f) = 0
      BY <1>4
    <3> QED
      BY <3>1, <3>3, <3>4
  <2>3. \A u \in Sessions : u # s => D[u].handle = C[u].handle /\ D[u].handle \in 0 .. n
    BY <1>3
  <2>4. \A u \in Sessions : D[u].handle \in 0 .. n + 1
    BY <1>1, <1>2, <2>1, <2>3
  <2>5. \A u \in Sessions : u # s => D[u].handle # h
    BY <1>2, <2>1, <2>3
  <2>6. \A u, t \in Sessions : D[u].handle # 0 /\ u # t => D[u].handle # D[t].handle
    BY <1>1, <1>3, <2>3, <2>5
  <2> QED
    BY <1>1, <2>2, <2>4, <2>6 DEF Handled
<1>5. CASE f # << >>
  <2>1. PICK g : g = SubSeq(f, 1, Len(f) - 1)
    OBVIOUS
  <2>2. h = f[Len(f)] /\ G = [next |-> n, free |-> g]
    BY <1>1, <1>2, <1>5, <2>1
  <2>3. Len(f) # 0
    BY <1>2, <1>5
  <2>4. /\ g \in Seq(Nat) /\ Len(g) = Len(f) - 1
        /\ \A i \in 1 .. Len(f) - 1 : g[i] = f[i]
    <3>1. f \in Seq(Nat) /\ Len(f) \in Nat /\ Len(f) # 0
      BY <1>2, <2>3
    <3>2. PICK k : k = Len(f) - 1
      OBVIOUS
    <3>3. k \in Int /\ k \in Nat /\ \A i \in 1 .. k : f[i] \in Nat
      BY <3>1, <3>2
    <3>4. /\ SubSeq(f, 1, k) \in Seq(Nat)
          /\ Len(SubSeq(f, 1, k)) = IF 1 <= k THEN k - 1 + 1 ELSE 0
          /\ \A i \in 1 .. k - 1 + 1 : SubSeq(f, 1, k)[i] = f[1 + i - 1]
      BY <3>3, SubSeqProperties
    <3>5. \A i \in 1 .. k : g[i] = f[i]
      BY <2>1, <3>2, <3>3, <3>4
    <3>6. Len(SubSeq(f, 1, k)) = k
      BY <3>3, <3>4
    <3>7. g \in Seq(Nat) /\ Len(g) = k
      BY <2>1, <3>2, <3>4, <3>6
    <3> QED
      BY <3>2, <3>5, <3>7
  <2>5. G.next = n /\ G.free = g /\ G \in HandleStores
    <3>1. G = [next |-> n, free |-> g] /\ n \in Nat /\ g \in Seq(Nat)
      BY <1>2, <2>2, <2>4
    <3> QED
      BY <3>1, StoreRecord
  <2>6. Len(f) \in 1 .. Len(f) /\ h \in 1 .. n /\ h \in Nat \ {0} /\ h \in 0 .. n
    <3>1. Len(f) \in 1 .. Len(f)
      BY <1>2, <2>3
    <3>2. h \in 1 .. n
      BY <1>3, <2>2, <3>1
    <3> QED
      BY <1>2, <3>1, <3>2
  <2>7. \A i \in 1 .. Len(g) : i \in 1 .. Len(f) /\ i # Len(f) /\ g[i] = f[i]
    BY <1>2, <2>3, <2>4
  <2>8. \A u \in Sessions : u # s => D[u].handle = C[u].handle /\ C[u].handle # h
    BY <1>3, <2>2, <2>6
  <2>9. \A u \in Sessions : D[u].handle \in 0 .. n
    BY <1>1, <1>3, <2>6, <2>8
  <2>10. \A i \in 1 .. Len(g) : g[i] \in 1 .. n
    BY <1>3, <2>7
  <2>11. \A i, j \in 1 .. Len(g) : g[i] = g[j] => i = j
    BY <1>3, <2>7
  <2>12. ASSUME NEW u \in Sessions, NEW i \in 1 .. Len(g) PROVE D[u].handle # g[i]
    <3>1. CASE u = s
      BY <1>1, <1>3, <2>2, <2>6, <2>7, <3>1
    <3>2. CASE u # s
      BY <1>3, <2>7, <2>8, <3>2
    <3> QED
      BY <3>1, <3>2
  <2>13. \A u, t \in Sessions : D[u].handle # 0 /\ u # t => D[u].handle # D[t].handle
    BY <1>1, <1>3, <2>8
  <2>14. Handled(D, G)
    BY <2>5, <2>9, <2>10, <2>11, <2>12, <2>13, SMTT(30) DEF Handled
  <2> QED
    BY <1>1, <2>5, <2>6, <2>14
<1> QED
  BY <1>4, <1>5

LEMMA DestroyStep ==
  ASSUME LobbyAssumption, LobbyInv, NEW s \in Sessions, Lobby!Destroy(s)
  PROVE  LobbyInv'
<1>1. PICK r, t : r = cs[s] /\ t = [Lobby!Fresh EXCEPT !.state = "gone"]
  OBVIOUS
<1>2. /\ t \in Players /\ t.state = "gone" /\ t.account = Lobby!None /\ t.handler = "none" /\ t.list = {}
      /\ t.handle = 0 /\ t.sid = 0
  BY <1>1 DEF Lobby!Fresh, Players, PlayerStates, Owners, Lobby!AnyName
<1>3. Idle(t) /\ Owns(t, creators)
  BY <1>2 DEF Idle, Owns
<1>4. PICK C, D, A, H, G, K, N :
        /\ C = cs /\ D = cs' /\ A = link /\ H = handles /\ G = handles' /\ K = online /\ N = online'
  OBVIOUS
<1>5. /\ C \in [Sessions -> Players] /\ A \in AuthLinks /\ H \in HandleStores /\ r = C[s] /\ r.state = "closing"
      /\ Registered(C, A) /\ Handled(C, H) /\ Counted(C, A, K)
      /\ D = [C EXCEPT ![s] = t] /\ N = K \ {r.account}
      /\ G = IF r.handle = 0 THEN H ELSE [H EXCEPT !.free = Append(@, r.handle)]
      /\ UNCHANGED <<link, queries, db, creators, dead>>
  BY <1>1, <1>4 DEF LobbyInv, LobbyTypes, Lobby!Destroy
<1>6. \A u \in Sessions : D[u] = IF u = s THEN t ELSE C[u]
  BY <1>5
<1>7. Registered(D, A)
  <2>1. ASSUME NEW a \in Accounts, A.pending[a] # 0
        PROVE  /\ D[A.pending[a]].account = Lobby!None
               /\ D[A.pending[a]].state # "none"
               /\ D[A.pending[a]].state # "gone" => D[A.pending[a]].authReceived
    <3>1. A.pending[a] \in Sessions
      BY <1>5, <2>1 DEF AuthLinks
    <3>2. /\ C[A.pending[a]].account = Lobby!None
          /\ C[A.pending[a]].state # "none"
          /\ C[A.pending[a]].state # "gone" => C[A.pending[a]].authReceived
      BY <1>5, <2>1 DEF Registered
    <3> QED
      BY <1>2, <1>6, <3>1, <3>2
  <2> QED
    BY <1>5, <2>1 DEF Registered
<1>8. G \in HandleStores /\ Handled(D, G)
  <2>1. CASE r.handle = 0
    <3>1. G = H /\ H \in HandleStores /\ Handled(C, H)
      BY <1>5, <2>1
    <3>2. \A u \in Sessions : D[u].handle = C[u].handle
      BY <1>2, <1>5, <1>6, <2>1
    <3>3. Handled(D, H)
      BY <3>1, <3>2 DEF Handled
    <3> QED
      BY <3>1, <3>3
  <2>2. CASE r.handle # 0
    <3>1. /\ D[s].handle = 0 /\ C[s].handle # 0 /\ G = [H EXCEPT !.free = Append(@, C[s].handle)]
          /\ \A u \in Sessions : u # s => D[u] = C[u]
      BY <1>2, <1>5, <1>6, <2>2
    <3>2. H \in HandleStores /\ Handled(C, H)
      BY <1>5
    <3> QED
      BY <3>1, <3>2, HandleFreed
  <2> QED
    BY <2>1, <2>2
<1>9. Counted(D, A, N)
  <2> SUFFICES ASSUME A.losses = 0, NEW u \in Sessions, D[u].account # Lobby!None
               PROVE  D[u].account \in N /\ \A v \in Sessions : v # u => D[v].account # D[u].account
    BY DEF Counted
  <2>1. u # s /\ D[u].account = C[u].account
    BY <1>2, <1>6
  <2>2. C[u].account \in K /\ \A v \in Sessions : v # u => C[v].account # C[u].account
    BY <1>5, <2>1 DEF Counted
  <2> QED
    BY <1>2, <1>5, <1>6, <2>1, <2>2
<1>10. /\ \A q \in queries' : QueryType(q) /\ IF q.s = s THEN AskedBy(q, t, creators) ELSE q \in queries
       /\ OneCreation(queries')
  <2>1. \A q : AskedBy(q, t, creators)
    BY <1>2 DEF AskedBy
  <2> QED
    BY <1>5, <2>1, QueriesSound
<1>11. /\ cs' = [cs EXCEPT ![s] = t] /\ link' \in AuthLinks /\ handles' \in HandleStores
       /\ Registered(cs', link') /\ Handled(cs', handles') /\ Counted(cs', link', online')
       /\ db' = db /\ creators' = creators /\ dead' = dead
  BY <1>4, <1>5, <1>7, <1>8, <1>9
<1> QED
  BY <1>2, <1>3, <1>10, <1>11, SessionStep

\* A callback that asks for more, or for nothing: what the session is after it.
LEMMA AnsweredStep ==
  ASSUME LobbyAssumption, LobbyInv, NEW q \in queries, NEW t \in Players,
         cs' = [cs EXCEPT ![q.s] = t], SamePlayer(cs[q.s], t), Onward(cs[q.s], t),
         Idle(t), Owns(t, creators), queries' = queries \ {q},
         link' = link, handles' = handles, online' = online, db' = db,
         creators' = creators, dead' = dead
  PROVE  LobbyInv'
<1>1. (\A p \in queries' : QueryType(p)) /\ OneCreation(queries') /\ queries' \subseteq queries
  BY QueriesFewer
<1>2. q.s \in Sessions
  BY QueriesSound DEF QueryType
<1> QED
  BY <1>1, <1>2, PlayerStep

LEMMA onCharacterListResultStep ==
  ASSUME LobbyAssumption, LobbyInv, NEW q \in queries, Lobby!Callback(q), q.kind = "list"
  PROVE  LobbyInv'
<1>1. PICK s, r, t, Q : /\ s = q.s /\ r = cs[s] /\ Q = queries \ {q}
                        /\ t = [r EXCEPT !.list = q.rows, !.populated = TRUE]
  OBVIOUS
<1>2. /\ s \in Sessions /\ r \in Players /\ Idle(r) /\ Owns(r, creators) /\ r.state \in {"open", "closing"}
      /\ r.handler = "lobby" /\ AskedBy(q, r, creators) /\ q.rows \subseteq Stored
  <2>1. q.h = "lobby" /\ s \in Sessions /\ q.rows \subseteq Stored
    BY <1>1, QueriesSound DEF QueryType, LobbyKinds
  <2> QED
    BY <1>1, <2>1, QueriesSound DEF Lobby!Callback, Lobby!Live
<1>3. /\ t \in Players /\ t.state = r.state /\ t.account = r.account /\ t.handler = "lobby" /\ t.list = q.rows
      /\ t.handle = r.handle /\ t.sid = r.sid /\ t.authReceived = r.authReceived
  BY <1>1, <1>2 DEF Players
<1>4. Idle(t) /\ Owns(t, creators) /\ SamePlayer(r, t) /\ Onward(r, t)
  <2>1. /\ r.account # Lobby!None /\ (\A c \in q.rows : c.sid \in 1 .. Len(creators) /\ creators[c.sid] = r.account)
    BY <1>2 DEF Idle, AskedBy
  <2>2. Idle(t)
    BY <1>2, <1>3, <2>1 DEF Idle
  <2>3. Owns(t, creators)
    BY <1>3, <2>1 DEF Owns
  <2> QED
    BY <1>2, <1>3, <2>2, <2>3 DEF SamePlayer, SameAccount, Onward
<1>5. /\ cs' = [cs EXCEPT ![s] = t] /\ Lobby!executeDbQuery(Q, s, "lobby", "wear", Lobby!None)
      /\ UNCHANGED <<link, handles, online, db, creators, dead>>
  <2>1. Lobby!onCharacterListResult(q) /\ UNCHANGED <<link, online, db, creators, dead>>
    BY DEF Lobby!Callback
  <2> QED
    BY <1>1, <1>2, <2>1, QueriesSound DEF Lobby!onCharacterListResult
<1>6. (\A p \in Q : QueryType(p)) /\ OneCreation(Q) /\ Q \subseteq queries
  BY <1>1, QueriesFewer
<1>7. /\ \A p \in queries' : QueryType(p)
      /\ OneCreation(queries')
      /\ \A p \in queries' : p \in Q \/ (p.s = s /\ p.h = "lobby" /\ p.by = cs[s].account /\ p.kind = "wear" /\ p.rows = {})
  <2>1. /\ "wear" \in LobbyKinds \union {"character", "items"} /\ "wear" \in LobbyKinds
        /\ "wear" \notin {"name", "create", "delete"} /\ "wear" # "character" /\ Lobby!None \in Arguments
    BY DEF LobbyKinds, Arguments, Lobby!AnyName
  <2> QED
    BY <1>2, <1>5, <1>6, <2>1, QueryAdded
<1>8. ASSUME NEW p \in queries' PROVE p \in queries \/ (p.s = s /\ AskedBy(p, t, creators))
  <2>1. ASSUME p.h = "lobby", p.by = cs[s].account, p.kind = "wear" PROVE AskedBy(p, t, creators)
    BY <1>1, <1>2, <1>3, <2>1 DEF AskedBy
  <2> QED
    BY <1>6, <1>7, <2>1
<1> QED
  BY <1>1, <1>2, <1>3, <1>4, <1>5, <1>7, <1>8, PlayerStep

LEMMA onCheckCharacterNameExistsResultStep ==
  ASSUME LobbyAssumption, LobbyInv, NEW q \in queries, Lobby!Callback(q), q.kind = "name"
  PROVE  LobbyInv'
<1>1. PICK r, t : r = cs[q.s] /\ t = IF q.rows = {} THEN [r EXCEPT !.validated = q.arg] ELSE r
  OBVIOUS
<1>2. q.s \in Sessions /\ q.arg \in Lobby!AnyName /\ r \in Players /\ Idle(r) /\ Owns(r, creators)
  BY <1>1, QueriesSound DEF QueryType
<1>3. /\ t \in Players /\ t.state = r.state /\ t.account = r.account /\ t.handler = r.handler /\ t.list = r.list
      /\ t.handle = r.handle /\ t.sid = r.sid /\ t.authReceived = r.authReceived
  BY <1>1, <1>2 DEF Players
<1>4. Idle(t) /\ Owns(t, creators) /\ SamePlayer(r, t) /\ Onward(r, t)
  BY <1>2, <1>3 DEF Idle, Owns, SamePlayer, SameAccount, Onward
<1>5. /\ cs' = [cs EXCEPT ![q.s] = t] /\ queries' = queries \ {q}
      /\ UNCHANGED <<link, handles, online, db, creators, dead>>
  <2>1. Lobby!onCheckCharacterNameExistsResult(q) /\ UNCHANGED <<link, online, db, creators, dead>>
    BY DEF Lobby!Callback
  <2> QED
    BY <1>1, <1>2, <2>1, QueriesSound DEF Lobby!onCheckCharacterNameExistsResult
<1> QED
  BY <1>1, <1>3, <1>4, <1>5, AnsweredStep

LEMMA onItemListResultStep ==
  ASSUME LobbyAssumption, LobbyInv, NEW q \in queries, Lobby!Callback(q), q.kind = "items"
  PROVE  LobbyInv'
<1>1. PICK r, t : r = cs[q.s] /\ t = [r EXCEPT !.handler = "game"]
  OBVIOUS
<1>2. /\ q.s \in Sessions /\ r \in Players /\ Idle(r) /\ Owns(r, creators) /\ r.state \in {"open", "closing"}
      /\ r.handler = "loading" /\ r.handle # 0
  <2>1. q.h = "loading" /\ q.s \in Sessions
    BY <1>1, QueriesSound DEF QueryType, LobbyKinds
  <2>2. r.handler = "loading" /\ r.state \in {"open", "closing"}
    BY <1>1, <2>1 DEF Lobby!Callback, Lobby!Live
  <2>3. r.handle # 0
    BY <1>1, <2>2, QueriesSound DEF AskedBy
  <2> QED
    BY <1>1, <2>1, <2>2, <2>3, QueriesSound
<1>3. /\ t \in Players /\ t.state = r.state /\ t.account = r.account /\ t.handler = "game" /\ t.list = r.list
      /\ t.handle = r.handle /\ t.sid = r.sid /\ t.authReceived = r.authReceived
  BY <1>1, <1>2 DEF Players
<1>4. Idle(t) /\ Owns(t, creators) /\ SamePlayer(r, t) /\ Onward(r, t)
  BY <1>2, <1>3 DEF Idle, Owns, SamePlayer, SameAccount, Onward
<1>5. /\ cs' = [cs EXCEPT ![q.s] = t] /\ queries' = queries \ {q}
      /\ UNCHANGED <<link, handles, online, db, creators, dead>>
  <2>1. Lobby!onItemListResult(q) /\ UNCHANGED <<link, online, db, creators, dead>>
    BY DEF Lobby!Callback
  <2> QED
    BY <1>1, <1>2, <2>1, QueriesSound DEF Lobby!onItemListResult, Lobby!playerLoadingResult
<1> QED
  BY <1>1, <1>3, <1>4, <1>5, AnsweredStep

\* A character that is there is given a handle, and its items are asked for.
LEMMA onCharacterResultStep ==
  ASSUME LobbyAssumption, LobbyInv, NEW q \in queries, Lobby!Callback(q), q.kind = "character"
  PROVE  LobbyInv'
<1>1. PICK s, r : s = q.s /\ r = cs[s]
  OBVIOUS
<1>2. /\ s \in Sessions /\ r \in Players /\ Idle(r) /\ Owns(r, creators) /\ r.state \in {"open", "closing"}
      /\ r.handler = "loading" /\ q.arg \in Nat
  <2>1. q.h = "loading" /\ s \in Sessions /\ q.arg \in Nat
    BY <1>1, QueriesSound DEF QueryType, LobbyKinds
  <2> QED
    BY <1>1, <2>1, QueriesSound DEF Lobby!Callback, Lobby!Live
<1>3. Lobby!onCharacterResult(q) /\ UNCHANGED <<link, online, db, creators, dead>>
  BY DEF Lobby!Callback
<1>4. CASE q.rows = {}
  <2>1. PICK t : t = [r EXCEPT !.state = "closing"]
    OBVIOUS
  <2>2. t \in Players /\ Idle(t) /\ Owns(t, creators) /\ SamePlayer(r, t) /\ Onward(r, t)
    BY <1>2, <2>1, Closing
  <2>3. cs' = [cs EXCEPT ![q.s] = t] /\ queries' = queries \ {q} /\ handles' = handles
    BY <1>1, <1>2, <1>3, <1>4, <2>1, QueriesSound DEF Lobby!onCharacterResult, Lobby!playerLoadingResult
  <2> QED
    BY <1>1, <1>3, <2>2, <2>3, AnsweredStep
<1>5. CASE q.rows # {}
  <2>1. PICK h, t, Q : h = Lobby!allocHandle /\ t = [r EXCEPT !.handle = h] /\ Q = queries \ {q}
    OBVIOUS
  <2>2. /\ cs' = [cs EXCEPT ![s] = t] /\ handles' = Lobby!Allocated
        /\ Lobby!executeDbQuery(Q, s, "loading", "items", q.arg)
    BY <1>1, <1>2, <1>3, <1>5, <2>1, QueriesSound DEF Lobby!onCharacterResult
  <2>3. PICK C, D, A, H, G, K :
          C = cs /\ D = cs' /\ A = link /\ H = handles /\ G = handles' /\ K = online
    OBVIOUS
  <2>4. /\ C \in [Sessions -> Players] /\ A \in AuthLinks /\ H \in HandleStores /\ r = C[s]
        /\ Registered(C, A) /\ Handled(C, H) /\ Counted(C, A, K)
        /\ D = [C EXCEPT ![s] = t]
    BY <1>1, <2>2, <2>3 DEF LobbyInv, LobbyTypes
  <2>5. /\ h = IF H.free = << >> THEN H.next + 1 ELSE H.free[Len(H.free)]
        /\ G = IF H.free = << >> THEN [H EXCEPT !.next = @ + 1]
               ELSE [H EXCEPT !.free = SubSeq(@, 1, Len(@) - 1)]
    BY <2>1, <2>2, <2>3 DEF Lobby!allocHandle, Lobby!Allocated
  <2>6. t.handle = h /\ D[s] = t /\ \A u \in Sessions : u # s => D[u] = C[u]
    BY <1>2, <2>1, <2>4 DEF Players
  <2>7. G \in HandleStores /\ Handled(D, G) /\ h \in Nat \ {0}
    <3>1. D[s].handle = IF H.free = << >> THEN H.next + 1 ELSE H.free[Len(H.free)]
      BY <2>5, <2>6
    <3>2. H \in HandleStores /\ Handled(C, H) /\ s \in Sessions
      BY <1>2, <2>4
    <3>3. G \in HandleStores /\ Handled(D, G) /\ D[s].handle \in Nat \ {0}
      BY <2>5, <2>6, <3>1, <3>2, HandleAllocated
    <3> QED
      BY <2>6, <3>3
  <2>8. /\ t \in Players /\ t.state = r.state /\ t.account = r.account /\ t.handler = "loading" /\ t.list = r.list
        /\ t.handle # 0 /\ t.sid = r.sid /\ t.authReceived = r.authReceived
    BY <1>2, <2>1, <2>7 DEF Players
  <2>9. Idle(t) /\ Owns(t, creators) /\ SameAccount(r, t) /\ Onward(r, t)
    BY <1>2, <2>8 DEF Idle, Owns, SameAccount, Onward
  <2>10. Registered(D, A) /\ Counted(D, A, K)
    BY <1>2, <2>4, <2>8, <2>9, AccountKept
  <2>11. (\A p \in Q : QueryType(p)) /\ OneCreation(Q) /\ Q \subseteq queries
    BY <2>1, QueriesFewer
  <2>12. /\ \A p \in queries' : QueryType(p)
         /\ OneCreation(queries')
         /\ \A p \in queries' : p \in Q \/ (p.s = s /\ p.h = "loading" /\ p.by = cs[s].account /\ p.kind = "items" /\ p.rows = {})
    <3>1. /\ "items" \in LobbyKinds \union {"character", "items"} /\ "items" \notin LobbyKinds
          /\ "items" \notin {"name", "create", "delete"} /\ "items" # "character" /\ q.arg \in Arguments
      BY <1>2 DEF LobbyKinds, Arguments
    <3> QED
      BY <1>2, <2>2, <2>11, <3>1, QueryAdded
  <2>13. ASSUME NEW p \in queries' PROVE QueryType(p) /\ IF p.s = s THEN AskedBy(p, t, creators) ELSE p \in queries
    <3>1. ASSUME p.s = s, p \in queries PROVE AskedBy(p, t, creators)
      BY <1>1, <2>9, <3>1, QueriesSound, AskedOnward
    <3>2. ASSUME p.kind = "items", p.by = cs[s].account PROVE AskedBy(p, t, creators)
      BY <1>1, <1>2, <2>8, <3>2 DEF AskedBy
    <3> QED
      BY <2>11, <2>12, <3>1, <3>2
  <2>14. /\ link' \in AuthLinks /\ handles' \in HandleStores
         /\ Registered(cs', link') /\ Handled(cs', handles') /\ Counted(cs', link', online')
    BY <1>3, <2>3, <2>4, <2>7, <2>10
  <2> QED
    BY <1>2, <1>3, <2>2, <2>8, <2>9, <2>12, <2>13, <2>14, SessionStep
<1> QED
  BY <1>4, <1>5

LEMMA CallbackStep ==
  ASSUME LobbyAssumption, LobbyInv, NEW q \in queries, Lobby!Callback(q)
  PROVE  LobbyInv'
<1>1. q.kind \in {"list", "name", "wear", "create", "delete", "character", "items"}
  BY QueriesSound DEF QueryType, LobbyKinds
<1>2. CASE q.kind \in {"wear", "create", "delete"}
  <2>1. Lobby!Answered(q) /\ UNCHANGED <<link, online, db, creators, dead>>
    BY <1>2 DEF Lobby!Callback, Lobby!onCharacterWearInfoResult, Lobby!onCreateCharacterResult,
                Lobby!onDeleteCharacterResult
  <2> QED
    BY <2>1, CancelledStep DEF Lobby!Answered
<1> QED
  BY <1>1, <1>2, onCharacterListResultStep, onCheckCharacterNameExistsResultStep, onCharacterResultStep,
     onItemListResultStep

\* What is made stays made, by whom it was made.
Grown(m, w) == \A i \in 1 .. Len(m) : i \in 1 .. Len(w) /\ w[i] = m[i]

LEMMA GrownKept ==
  ASSUME NEW m, NEW w, Grown(m, w)
  PROVE  /\ \A r : Owns(r, m) => Owns(r, w)
         /\ \A q, r : AskedBy(q, r, m) => AskedBy(q, r, w)
BY DEF Grown, Owns, AskedBy

\* smp_insert_character: a character more at most, of the account that asked.
LEMMA Inserted ==
  ASSUME db \subseteq Stored, Named(db), creators \in Seq(Owners), \A c \in db : c.sid \in 1 .. Len(creators),
         NEW n \in Lobby!AnyName, NEW a \in Owners, Lobby!Insert(n, a)
  PROVE  /\ db' \subseteq Stored /\ creators' \in Seq(Owners) /\ Named(db')
         /\ \A c \in db' : c.sid \in 1 .. Len(creators')
         /\ Grown(creators, creators')
<1>1. CASE db' = db /\ creators' = creators
  BY <1>1 DEF Grown
<1>2. CASE /\ db' = db \union {[sid |-> Len(creators) + 1, name |-> n]} /\ creators' = Append(creators, a)
           /\ \A c \in db : c.name # n
  <2>1. PICK m, w, x : m = creators /\ w = Append(m, a) /\ x = [sid |-> Len(m) + 1, name |-> n]
    OBVIOUS
  <2>2. /\ w \in Seq(Owners) /\ Len(w) = Len(m) + 1 /\ Len(m) \in Nat
        /\ \A i \in 1 .. Len(m) : w[i] = m[i]
    BY <2>1
  <2>3. Grown(m, w)
    BY <2>2 DEF Grown
  <2>4. x \in Stored /\ x.sid \in 1 .. Len(w)
    BY <2>1, <2>2 DEF Stored
  <2>5. \A c \in db : c.sid \in 1 .. Len(w)
    BY <2>1, <2>2
  <2>6. Named(db')
    <3>1. db' = db \union {x} /\ x.name = n
      BY <1>2, <2>1
    <3> QED
      BY <1>2, <3>1 DEF Named
  <2> QED
    BY <1>2, <2>1, <2>2, <2>3, <2>4, <2>5, <2>6
<1>3. CASE Lobby!FindName(n) = {}
  BY <1>1, <1>2, <1>3 DEF Lobby!Insert, Lobby!FindName
<1>4. CASE Lobby!FindName(n) # {}
  BY <1>1, <1>4 DEF Lobby!Insert
<1> QED
  BY <1>3, <1>4

Executed(q, ok) == [q EXCEPT !.done = TRUE, !.rows = IF ok THEN Lobby!Rows(q) ELSE {}]

\* A query that was executed is the query that was asked, with rows of its session.
LEMMA QueryExecuted ==
  ASSUME LobbyInv, NEW q \in queries, NEW ok \in BOOLEAN,
         NEW p, p = Executed(q, ok)
  PROVE  /\ QueryType(p) /\ p.s = q.s /\ p.kind = q.kind
         /\ AskedBy(p, cs[q.s], creators)
<1>1. /\ QueryType(q) /\ AskedBy(q, cs[q.s], creators) /\ q.s \in Sessions
      /\ db \subseteq Stored /\ (\A c \in db : c.sid \in 1 .. Len(creators))
  BY QueriesSound DEF LobbyInv, LobbyTypes, QueryType
<1>2. PICK R : R = IF ok THEN Lobby!Rows(q) ELSE {}
  OBVIOUS
<1>3. /\ R \subseteq Stored
      /\ q.kind = "list" => \A c \in R : c.sid \in 1 .. Len(creators) /\ creators[c.sid] = q.by
  <2>1. CASE q.kind = "list"
    BY <1>1, <1>2, <2>1 DEF Lobby!Rows, Lobby!ReadList
  <2>2. CASE q.kind # "list"
    BY <1>1, <1>2, <2>2 DEF Lobby!Rows, Lobby!ReadWear, Lobby!FindName, Lobby!ReadCharacter, Lobby!ReadItems
  <2> QED
    BY <2>1, <2>2
<1>4. /\ p \in [n : {q.n}, s : Sessions, h : {"lobby", "loading"}, by : Owners,
                kind : LobbyKinds \union {"character", "items"}, arg : Arguments,
                done : BOOLEAN, rows : SUBSET Stored]
      /\ p.n = q.n /\ p.s = q.s /\ p.h = q.h /\ p.kind = q.kind /\ p.arg = q.arg /\ p.by = q.by /\ p.rows = R
  BY <1>1, <1>2, <1>3 DEF QueryType, Executed
<1>5. QueryType(p)
  BY <1>1, <1>4 DEF QueryType
<1>6. AskedBy(p, cs[q.s], creators)
  BY <1>1, <1>3, <1>4 DEF AskedBy
<1> QED
  BY <1>4, <1>5, <1>6

LEMMA ExecuteStep ==
  ASSUME LobbyAssumption, LobbyInv, NEW q \in queries, NEW ok \in BOOLEAN, Lobby!Execute(q, ok)
  PROVE  LobbyInv'
<1>1. PICK p : p = [q EXCEPT !.done = TRUE, !.rows = IF ok THEN Lobby!Rows(q) ELSE {}]
  OBVIOUS
<1>2. /\ queries' = (queries \ {q}) \union {p} /\ UNCHANGED <<cs, link, online, handles, dead>>
      /\ \/ q.kind = "create" /\ Lobby!Insert(q.arg, q.by)
         \/ Lobby!Delete(q.arg)
         \/ UNCHANGED <<db, creators>>
  BY <1>1 DEF Lobby!Execute
<1>3. QueryType(p) /\ p.s = q.s /\ p.kind = q.kind /\ AskedBy(p, cs[p.s], creators)
  <2>1. LobbyInv /\ q \in queries /\ ok \in BOOLEAN /\ p = Executed(q, ok)
    BY <1>1 DEF Executed
  <2>2. QueryType(p) /\ p.s = q.s /\ p.kind = q.kind /\ AskedBy(p, cs[q.s], creators)
    BY <2>1, QueryExecuted
  <2> QED
    BY <2>2
<1>4. /\ db \subseteq Stored /\ creators \in Seq(Owners) /\ (\A c \in db : c.sid \in 1 .. Len(creators))
      /\ q.kind = "create" => q.arg \in Lobby!AnyName
      /\ q.by \in Owners /\ Named(db)
  <2>1. q.by \in Owners /\ (q.kind = "create" => q.arg \in Lobby!AnyName)
    BY QueriesSound DEF QueryType
  <2> QED
    BY <2>1 DEF LobbyInv, LobbyTypes
<1>5. /\ db' \subseteq Stored /\ creators' \in Seq(Owners) /\ Named(db')
      /\ \A c \in db' : c.sid \in 1 .. Len(creators')
      /\ Grown(creators, creators')
  <2>1. CASE q.kind = "create" /\ Lobby!Insert(q.arg, q.by)
    BY <1>4, <2>1, Inserted
  <2>2. CASE Lobby!Delete(q.arg) \/ UNCHANGED <<db, creators>>
    BY <1>4, <2>2 DEF Lobby!Delete, Grown, Named
  <2> QED
    BY <1>2, <2>1, <2>2
<1>6. OneCreation(queries')
  <2> SUFFICES ASSUME NEW x \in queries', NEW y \in queries', x.kind = "create", y.kind = "create", x.s = y.s
               PROVE  x = y
    BY DEF OneCreation
  <2>1. OneCreation(queries)
    BY QueriesSound
  <2>2. CASE x # p /\ y # p
    BY <1>2, <2>1, <2>2 DEF OneCreation
  <2>3. CASE x = p /\ y # p
    <3>1. y \in queries /\ y # q /\ q.kind = "create" /\ q.s = y.s
      BY <1>2, <1>3, <2>3
    <3> QED
      BY <2>1, <3>1 DEF OneCreation
  <2>4. CASE x # p /\ y = p
    <3>1. x \in queries /\ x # q /\ q.kind = "create" /\ q.s = x.s
      BY <1>2, <1>3, <2>4
    <3> QED
      BY <2>1, <3>1 DEF OneCreation
  <2> QED
    BY <2>2, <2>3, <2>4
<1>7. \A x \in queries' : QueryType(x) /\ AskedBy(x, cs'[x.s], creators')
  <2>1. \A x \in queries' : QueryType(x) /\ AskedBy(x, cs[x.s], creators)
    BY <1>2, <1>3, QueriesSound
  <2>2. PICK m, w : m = creators /\ w = creators'
    OBVIOUS
  <2>3. \A x, r : AskedBy(x, r, m) => AskedBy(x, r, w)
    BY <1>5, <2>2, GrownKept
  <2> QED
    BY <1>2, <2>1, <2>2, <2>3
<1>8. \A s \in Sessions : Idle(cs'[s]) /\ Owns(cs'[s], creators')
  <2>1. PICK m, w : m = creators /\ w = creators'
    OBVIOUS
  <2>2. \A r : Owns(r, m) => Owns(r, w)
    BY <1>5, <2>1, GrownKept
  <2> QED
    BY <1>2, <2>1, <2>2, QueriesSound
<1>9. LobbyTypes'
  BY <1>2, <1>5, <1>7 DEF LobbyInv, LobbyTypes
<1>10. Registered(cs', link') /\ Handled(cs', handles') /\ Counted(cs', link', online')
  BY <1>2 DEF LobbyInv
<1> QED
  BY <1>5, <1>6, <1>7, <1>8, <1>9, <1>10 DEF LobbyInv

\* The instance counts as this module does.
LEMMA LobbyCounts == Lobby!Cardinality(Names) = Cardinality(Names)
BY DEF Lobby!Cardinality, Cardinality

LEMMA FirstNamesType ==
  ASSUME LobbyAssumption
  PROVE  /\ Cardinality(Names) \in Nat /\ Lobby!FirstNames \in [1 .. Cardinality(Names) -> Names]
         /\ \A i, j \in DOMAIN Lobby!FirstNames : i # j => Lobby!FirstNames[i] # Lobby!FirstNames[j]
<1>1. Cardinality(Names) \in Nat /\ ExistsBijection(1 .. Cardinality(Names), Names)
  BY FS_CardinalityType DEF LobbyAssumption
<1>2. PICK f : f \in Bijection(1 .. Cardinality(Names), Names)
  BY <1>1 DEF ExistsBijection
<1>3. f \in [1 .. Cardinality(Names) -> Names] /\ \A i, j \in DOMAIN f : i # j => f[i] # f[j]
  BY <1>2 DEF Bijection, Injection, IsInjective
<1>4. \E g \in [1 .. Cardinality(Names) -> Names] : \A i, j \in DOMAIN g : i # j => g[i] # g[j]
  BY <1>3
<1>5. /\ Lobby!FirstNames \in [1 .. Cardinality(Names) -> Names]
      /\ \A i, j \in DOMAIN Lobby!FirstNames : i # j => Lobby!FirstNames[i] # Lobby!FirstNames[j]
  BY <1>4, LobbyCounts, Zenon DEF Lobby!FirstNames
<1> QED
  BY <1>1, <1>5

LEMMA LobbyInit ==
  ASSUME LobbyAssumption, Lobby!Init
  PROVE  LobbyInv
<1>1. PICK f : f = Lobby!Fresh
  OBVIOUS
<1>2. /\ f \in Players /\ f.state = "none" /\ f.account = Lobby!None /\ f.handler = "none" /\ f.list = {}
      /\ f.handle = 0 /\ f.sid = 0
  BY <1>1 DEF Lobby!Fresh, Players, PlayerStates, Owners, Lobby!AnyName
<1>3. /\ cs = [s \in Sessions |-> f] /\ link = Lobby!NoAuth /\ online = {} /\ queries = {}
      /\ handles = [next |-> 0, free |-> << >>] /\ dead = FALSE
      /\ creators \in [1 .. Cardinality(Names) -> Accounts]
      /\ db = {[sid |-> i, name |-> Lobby!FirstNames[i]] : i \in DOMAIN creators}
  <2>1. db = {[sid |-> i, name |-> Lobby!FirstNames[i]] : i \in DOMAIN creators}
    BY Zenon DEF Lobby!Init
  <2>2. cs = [s \in Sessions |-> Lobby!Fresh] /\ creators \in [1 .. Lobby!Cardinality(Names) -> Accounts]
    BY DEF Lobby!Init
  <2>3. creators \in [1 .. Cardinality(Names) -> Accounts]
    BY <2>2, LobbyCounts
  <2>4. /\ link = Lobby!NoAuth /\ online = {} /\ queries = {}
        /\ handles = [next |-> 0, free |-> << >>] /\ dead = FALSE
    BY DEF Lobby!Init
  <2> QED
    BY <1>1, <2>1, <2>2, <2>3, <2>4
<1>4. /\ cs \in [Sessions -> Players] /\ \A s \in Sessions : cs[s] = f
      /\ link \in AuthLinks /\ (\A a \in Accounts : link.pending[a] = 0) /\ link.asked = {}
      /\ handles \in HandleStores /\ handles.next = 0 /\ handles.free = << >>
  BY <1>2, <1>3 DEF Lobby!NoAuth, AuthLinks, HandleStores
<1>5. PICK n : n = Cardinality(Names)
  OBVIOUS
<1>6. n \in Nat /\ creators \in [1 .. n -> Owners] /\ Lobby!FirstNames \in [1 .. n -> Names]
  BY <1>3, <1>5, FirstNamesType DEF Owners
<1>7. creators \in Seq(Owners) /\ Len(creators) = n
  BY <1>6
<1>8. db \subseteq Stored /\ \A c \in db : c.sid \in 1 .. Len(creators)
  <2> SUFFICES ASSUME NEW c \in db PROVE c \in Stored /\ c.sid \in 1 .. Len(creators)
    OBVIOUS
  <2>1. PICK i \in 1 .. n : c = [sid |-> i, name |-> Lobby!FirstNames[i]]
    BY <1>3, <1>6
  <2> QED
    BY <1>6, <1>7, <2>1 DEF Stored, Lobby!AnyName
<1>9. LobbyTypes
  BY <1>3, <1>4, <1>7, <1>8 DEF LobbyTypes
<1>10. Registered(cs, link)
  BY <1>4 DEF Registered
<1>11. \A s \in Sessions : Idle(cs[s]) /\ Owns(cs[s], creators)
  BY <1>2, <1>4 DEF Idle, Owns
<1>12. Handled(cs, handles) /\ Counted(cs, link, online)
  BY <1>2, <1>4 DEF Handled, Counted
<1>13. OneCreation(queries) /\ \A q \in queries : AskedBy(q, cs[q.s], creators)
  BY <1>3 DEF OneCreation
<1>14. Named(db)
  <2> SUFFICES ASSUME NEW c \in db, NEW d \in db, c.name = d.name PROVE c = d
    BY DEF Named
  <2>1. PICK i \in 1 .. n : c = [sid |-> i, name |-> Lobby!FirstNames[i]]
    BY <1>3, <1>6
  <2>2. PICK j \in 1 .. n : d = [sid |-> j, name |-> Lobby!FirstNames[j]]
    BY <1>3, <1>6
  <2>3. Lobby!FirstNames[i] = Lobby!FirstNames[j] /\ i \in DOMAIN Lobby!FirstNames /\ j \in DOMAIN Lobby!FirstNames
    BY <1>6, <2>1, <2>2
  <2>4. i = j
    BY <2>3, FirstNamesType
  <2> QED
    BY <2>1, <2>2, <2>4
<1> QED
  BY <1>8, <1>9, <1>10, <1>11, <1>12, <1>13, <1>14 DEF LobbyInv

LEMMA LobbyNext ==
  ASSUME LobbyAssumption, LobbyInv, [Lobby!Next]_(Lobby!vars)
  PROVE  LobbyInv'
<1>1. CASE UNCHANGED Lobby!vars
  <2>1. UNCHANGED <<cs, link, online, queries, db, creators, handles, dead>>
    BY <1>1 DEF Lobby!vars
  <2> QED
    BY <2>1 DEF LobbyInv, LobbyTypes
<1>2. ASSUME NEW s \in Sessions, Lobby!Accept(s) \/ Lobby!ClientCloses(s) \/ Lobby!Destroy(s) \/ Lobby!onCharacterListQuery(s)
      PROVE  LobbyInv'
  BY <1>2, AcceptStep, PlayerClosesStep, DestroyStep, onCharacterListQueryStep
<1>3. ASSUME NEW s \in Sessions, NEW a \in Accounts, Lobby!onAccountWithAuth(s, a) PROVE LobbyInv'
  BY <1>3, onAccountWithAuthStep
<1>4. ASSUME NEW a \in Accounts, NEW ok \in BOOLEAN, Lobby!onClientLoginResult(a, ok) PROVE LobbyInv'
  BY <1>4, onClientLoginResultStep
<1>5. CASE Lobby!AuthLost
  BY <1>5, AuthLostStep
<1>6. ASSUME NEW s \in Sessions, NEW n \in Lobby!AnyName,
             Lobby!onCreateCharacter(s, n) \/ Lobby!onDeleteCharacter(s, n) \/ Lobby!onCharacterLogin(s, n)
      PROVE  LobbyInv'
  BY <1>6, onCreateCharacterStep, onDeleteCharacterStep, onCharacterLoginStep
<1>7. ASSUME NEW s \in Sessions, NEW n \in Names, NEW fine \in BOOLEAN, Lobby!onCheckCharacterName(s, n, fine)
      PROVE  LobbyInv'
  BY <1>7, onCheckCharacterNameStep
<1>8. ASSUME NEW q \in queries, NEW ok \in BOOLEAN, Lobby!Execute(q, ok) PROVE LobbyInv'
  BY <1>8, ExecuteStep
<1>9. ASSUME NEW q \in queries, Lobby!Callback(q) \/ Lobby!Cancelled(q) PROVE LobbyInv'
  <2>1. CASE Lobby!Callback(q)
    BY <2>1, CallbackStep
  <2>2. CASE Lobby!Cancelled(q)
    BY <2>2, CancelledStep DEF Lobby!Cancelled
  <2> QED
    BY <1>9, <2>1, <2>2
<1> QED
  BY <1>1, <1>2, <1>3, <1>4, <1>5, <1>6, <1>7, <1>8, <1>9 DEF Lobby!Next

\* Sessions are kept (rzgame): an account plays with one session while the auth server
\* remembers it; a session lists, loads and plays what its account made; no handle is
\* that of two characters, or free and used; no name is that of two characters, however long
\* ago it was looked up; a session creates one character at a time;
\* and somebody waits for every answer that is to come from the auth server.
THEOREM LobbyKeptCorrect ==
  ASSUME LobbyAssumption
  PROVE  Lobby!Spec => []Lobby!LobbyKept
<1>1. Lobby!Init => LobbyInv
  BY LobbyInit
<1>2. LobbyInv /\ [Lobby!Next]_(Lobby!vars) => LobbyInv'
  BY LobbyNext
<1>3. LobbyInv => Lobby!LobbyKept
  <2> SUFFICES ASSUME LobbyInv PROVE Lobby!LobbyKept
    OBVIOUS
  <2>1. /\ link \in AuthLinks /\ Registered(cs, link) /\ Handled(cs, handles) /\ Counted(cs, link, online)
        /\ handles.free \in Seq(Nat) /\ OneCreation(queries) /\ Named(db)
    BY DEF LobbyInv, LobbyTypes, HandleStores
  <2>2. \A s \in Lobby!Alive : cs[s].account # Lobby!None /\ link.losses = 0 =>
          cs[s].account \in online /\ \A t \in Lobby!Alive \ {s} : cs[t].account # cs[s].account
    BY <2>1 DEF Counted, Lobby!Alive
  <2>3. \A s \in Lobby!Alive :
          /\ \A c \in cs[s].list : creators[c.sid] = cs[s].account
          /\ cs[s].handler \in {"loading", "game"} => creators[cs[s].sid] = cs[s].account
          /\ cs[s].handler = "game" => cs[s].handle # 0
    BY QueriesSound DEF Owns, Lobby!Alive
  <2>4. \A s, t \in Lobby!Alive : cs[s].handle # 0 /\ s # t => cs[s].handle # cs[t].handle
    BY <2>1 DEF Handled, Lobby!Alive
  <2>5. \A s \in Lobby!Alive : \A i \in DOMAIN handles.free : cs[s].handle # handles.free[i]
    BY <2>1 DEF Handled, Lobby!Alive
  <2>6. \A a \in link.asked : link.pending[a] # 0 /\ cs[link.pending[a]].account = Lobby!None
    <3> SUFFICES ASSUME NEW a \in link.asked
                 PROVE  link.pending[a] # 0 /\ cs[link.pending[a]].account = Lobby!None
      OBVIOUS
    <3>1. a \in Accounts /\ link.pending[a] # 0
      BY <2>1 DEF AuthLinks, Registered
    <3> QED
      BY <2>1, <3>1 DEF Registered
  <2> QED
    BY <2>1, <2>2, <2>3, <2>4, <2>5, <2>6 DEF Lobby!LobbyKept, OneCreation, Named
<1> QED
  BY <1>1, <1>2, <1>3, PTL DEF Lobby!Spec

-----------------------------------------------------------------------------
(* What the game client shows of the active character                       *)

CONSTANTS Conns, Handles

VARIABLES conns, active, viewer, shown, crashed

Viewer == INSTANCE ClientReconnect WITH client <- viewer

ViewerAssumption == 0 \notin Handles /\ Null \notin Conns

Lasting == Conns \union {Null}

GameDatas ==
  [login : Handles \union {0}, known : SUBSET Handles, entered : SUBSET Handles, attached : SUBSET Handles,
   owned : BOOLEAN, lasting : Lasting]

Views ==
  [creatures : SUBSET (Handles \union {0}), attached : SUBSET (Handles \union {0}), owned : BOOLEAN,
   lasting : Lasting]

\* convertHandle, with the handle of the active character and the one that the client
\* knows itself by.
Swapped(login, own, h) == IF h = login THEN own ELSE IF h = own THEN login ELSE h

Images(login, own, hs) == {Swapped(login, own, h) : h \in hs}

\* GameData holds creatures while its character is logged in, and never itself as one.
Sensible(d) ==
  /\ d \in GameDatas
  /\ d.login = 0 => d = Viewer!NoData
  /\ d.login \notin d.known /\ d.entered \subseteq d.known /\ IsFiniteSet(d.entered)

\* A view shows data under the handles of the client, and states only of creatures that
\* it shows, or of itself.  Creature 0 is whatever came without a handle.
Showing(v, d, own) ==
  /\ v \in Views
  /\ v.creatures \ {0} = Images(d.login, own, d.entered)
  /\ v.attached \subseteq Images(d.login, own, d.attached)
  /\ v.attached \subseteq Images(d.login, own, d.entered \union {d.login})
  /\ v.owned = d.owned
  /\ d.lasting # Null => v.lasting = d.lasting

\* Before the client logs in no character is: there is one connection, and it is active.
Waiting ==
  ~viewer.logged => \A c \in Conns : conns[c].data.login = 0 /\ (conns[c].spawned => c = active)

ViewerTypes ==
  /\ conns \in [Conns -> [spawned : BOOLEAN, data : GameDatas]]
  /\ active \in Conns \union {Null}
  /\ viewer \in [logged : BOOLEAN, handle : Handles \union {0}, target : Handles \union {0}]
  /\ viewer.logged <=> viewer.handle # 0

ViewerInv ==
  /\ ViewerTypes
  /\ \A c \in Conns : Sensible(conns[c].data)
  /\ Waiting
  /\ active # Null => conns[active].spawned
  /\ Showing(shown, Viewer!Current, viewer.handle)

LEMMA ConvertSwaps ==
  ASSUME NEW d, NEW h
  PROVE  Viewer!convertHandle(d, h) = Swapped(d.login, viewer.handle, h)
BY DEF Viewer!convertHandle, Swapped

LEMMA NoDataSensible == ViewerAssumption => Sensible(Viewer!NoData) /\ Viewer!NoData.login = 0
<1>1. /\ Viewer!NoData \in GameDatas /\ Viewer!NoData.login = 0 /\ Viewer!NoData.known = {}
      /\ Viewer!NoData.entered = {}
  BY DEF Viewer!NoData, GameDatas, Lasting
<1>2. IsFiniteSet({})
  BY FS_EmptySet
<1> QED
  BY <1>1, <1>2 DEF Sensible

\* A view that shows nothing.
LEMMA ShowingNothing ==
  ASSUME NEW v, NEW own
  PROVE  Showing(v, Viewer!NoData, own) <=>
           v \in Views /\ v.creatures \subseteq {0} /\ v.attached = {} /\ v.owned = FALSE
<1>1. PICK n : n = Viewer!NoData
  OBVIOUS
<1>2. n.entered = {} /\ n.attached = {} /\ n.owned = FALSE /\ n.lasting = Null
  BY <1>1 DEF Viewer!NoData
<1>3. Images(n.login, own, n.entered) = {} /\ Images(n.login, own, n.attached) = {}
  BY <1>2 DEF Images
<1>4. Showing(v, n, own) <=> v \in Views /\ v.creatures \subseteq {0} /\ v.attached = {} /\ v.owned = FALSE
  <2>1. v \in Views => v.owned \in BOOLEAN
    BY DEF Views
  <2> QED
    BY <1>2, <1>3, <2>1 DEF Showing
<1> QED
  BY <1>1, <1>4

\* removePlayerData takes back all that is shown.
LEMMA Removed ==
  ASSUME ViewerAssumption, NEW v, NEW d, Sensible(d), Showing(v, d, viewer.handle),
         viewer.logged <=> viewer.handle # 0, d.login # 0 => viewer.logged
  PROVE  Showing(Viewer!removePlayerData(v, d), Viewer!NoData, viewer.handle)
<1>1. PICK own : own = viewer.handle
  OBVIOUS
<1>2. CASE ~Viewer!Reached(d)
  <2>1. d = Viewer!NoData
    BY <1>2 DEF Viewer!Reached, Sensible
  <2> QED
    BY <1>2, <2>1 DEF Viewer!removePlayerData
<1>3. CASE Viewer!Reached(d)
  <2>1. d.login # 0 /\ own # 0
    BY <1>1, <1>3 DEF Viewer!Reached
  <2>2. PICK left : left = {Viewer!convertHandle(d, Viewer!EnterHandle(d, h)) : h \in d.known}
    OBVIOUS
  <2>3. PICK local : local = {viewer.handle : h \in d.attached \intersect {d.login}}
    OBVIOUS
  <2>4. PICK w : w = Viewer!removePlayerData(v, d)
    OBVIOUS
  <2>5. w = [v EXCEPT !.creatures = @ \ left, !.attached = @ \ (left \union local), !.owned = @ /\ ~d.owned]
    BY <1>3, <2>2, <2>3, <2>4 DEF Viewer!removePlayerData
  <2>6. v \in Views
    BY DEF Showing
  <2>7. /\ w.creatures = v.creatures \ left /\ w.attached = v.attached \ (left \union local)
        /\ w.owned = (v.owned /\ ~d.owned) /\ w.lasting = v.lasting
        /\ w \in Views
    BY <2>5, <2>6 DEF Views
  <2>8. \A h \in d.entered : Swapped(d.login, own, h) \in left
    <3> SUFFICES ASSUME NEW h \in d.entered PROVE Swapped(d.login, own, h) \in left
      OBVIOUS
    <3>1. h \in d.known /\ Viewer!EnterHandle(d, h) = h
      BY DEF Sensible, Viewer!EnterHandle
    <3>2. Viewer!convertHandle(d, Viewer!EnterHandle(d, h)) \in left
      BY <2>2, <3>1
    <3> QED
      BY <1>1, <3>1, <3>2, ConvertSwaps
  <2>9. w.creatures \subseteq {0}
    <3> SUFFICES ASSUME NEW x \in v.creatures, x # 0 PROVE x \in left
      BY <2>7
    <3>1. x \in Images(d.login, own, d.entered)
      BY <1>1 DEF Showing
    <3> QED
      BY <2>8, <3>1 DEF Images
  <2>10. w.attached = {}
    <3> SUFFICES ASSUME NEW x \in v.attached PROVE x \in left \union local
      BY <2>7
    <3>1. PICK g \in d.entered \union {d.login} : x = Swapped(d.login, own, g)
      BY <1>1 DEF Showing, Images
    <3>2. PICK h \in d.attached : x = Swapped(d.login, own, h)
      BY <1>1 DEF Showing, Images
    <3>3. CASE g \in d.entered
      BY <2>8, <3>1, <3>3
    <3>4. CASE g = d.login
      <4>1. x = own /\ h = d.login
        BY <3>1, <3>2, <3>4 DEF Swapped
      <4> QED
        BY <1>1, <2>3, <3>2, <4>1
    <3> QED
      BY <3>3, <3>4
  <2>11. w.owned = FALSE
    <3>1. v.owned = d.owned /\ v.owned \in BOOLEAN
      BY <2>6 DEF Showing, Views
    <3> QED
      BY <2>7, <3>1
  <2> QED
    BY <2>4, <2>7, <2>9, <2>10, <2>11, ShowingNothing
<1> QED
  BY <1>2, <1>3

\* addPlayerData shows all of the data to a client that shows nothing.
LEMMA Added ==
  ASSUME ViewerAssumption, NEW v, NEW d, Sensible(d), Showing(v, Viewer!NoData, viewer.handle),
         viewer.handle \in Handles \union {0},
         viewer.logged <=> viewer.handle # 0, d.login # 0 => viewer.logged
  PROVE  Showing(Viewer!addPlayerData(v, d), d, viewer.handle)
<1>1. PICK own : own = viewer.handle
  OBVIOUS
<1>2. CASE ~Viewer!Reached(d)
  <2>1. d = Viewer!NoData
    BY <1>2 DEF Viewer!Reached, Sensible
  <2> QED
    BY <1>2, <2>1 DEF Viewer!addPlayerData
<1>3. CASE Viewer!Reached(d)
  <2>1. d.login # 0 /\ own # 0 /\ d \in GameDatas
    BY <1>1, <1>3 DEF Viewer!Reached, Sensible
  <2>2. PICK come : come = v.creatures \union {Viewer!convertHandle(d, Viewer!EnterHandle(d, h)) : h \in d.known}
    OBVIOUS
  <2>3. PICK data : data = {Viewer!convertHandle(d, h) : h \in d.attached}
    OBVIOUS
  <2>4. PICK w : w = Viewer!addPlayerData(v, d)
    OBVIOUS
  <2>5. w = [creatures |-> come, attached |-> v.attached \union (data \intersect (come \union {viewer.handle})),
             owned |-> v.owned \/ d.owned, lasting |-> IF d.lasting = Null THEN v.lasting ELSE d.lasting]
    BY <1>3, <2>2, <2>3, <2>4 DEF Viewer!addPlayerData
  <2>6. v \in Views /\ v.creatures \subseteq {0} /\ v.attached = {} /\ v.owned = FALSE
    BY ShowingNothing
  <2>7. /\ w.creatures = come /\ w.attached = data \intersect (come \union {own}) /\ w.owned = d.owned
        /\ d.lasting # Null => w.lasting = d.lasting
    BY <1>1, <2>1, <2>5, <2>6 DEF GameDatas
  <2>8. data = Images(d.login, own, d.attached)
    BY <1>1, <2>3, ConvertSwaps DEF Images
  <2>9. \A h : Swapped(d.login, own, h) \in Handles \union {0} <=> h \in Handles \union {0}
    BY <1>1, <2>1 DEF Swapped, GameDatas
  <2>10. come = v.creatures \union {Swapped(d.login, own, Viewer!EnterHandle(d, h)) : h \in d.known}
    BY <1>1, <2>2, ConvertSwaps
  <2>11. \A h \in d.known : Viewer!EnterHandle(d, h) = IF h \in d.entered THEN h ELSE 0
    BY DEF Viewer!EnterHandle
  <2>12. \A h : Swapped(d.login, own, h) = 0 <=> h = 0
    BY <2>1 DEF Swapped
  <2>13. come \ {0} = Images(d.login, own, d.entered)
    <3>1. ASSUME NEW x \in come, x # 0 PROVE x \in Images(d.login, own, d.entered)
      <4>1. PICK h \in d.known : x = Swapped(d.login, own, Viewer!EnterHandle(d, h))
        BY <2>6, <2>10, <3>1
      <4>2. h \in d.entered /\ x = Swapped(d.login, own, h)
        BY <2>11, <2>12, <3>1, <4>1
      <4> QED
        BY <4>2 DEF Images
    <3>2. ASSUME NEW h \in d.entered PROVE Swapped(d.login, own, h) \in come \ {0}
      <4>1. h \in d.known /\ h # 0
        BY <2>1 DEF Sensible, GameDatas, ViewerAssumption
      <4>2. Viewer!EnterHandle(d, h) = h
        BY <2>11, <4>1
      <4> QED
        BY <2>10, <2>12, <4>1, <4>2
    <3> QED
      BY <3>1, <3>2 DEF Images
  <2>14. w.attached \subseteq Images(d.login, own, d.entered \union {d.login})
    <3> SUFFICES ASSUME NEW x \in data, x \in come \union {own}
                 PROVE  x \in Images(d.login, own, d.entered \union {d.login})
      BY <2>7
    <3>1. PICK h \in d.attached : x = Swapped(d.login, own, h)
      BY <2>8 DEF Images
    <3>2. x # 0
      BY <2>1, <2>12, <3>1 DEF GameDatas, ViewerAssumption
    <3>3. CASE x = own
      BY <3>3 DEF Images, Swapped
    <3>4. CASE x \in come
      <4>1. x \in Images(d.login, own, d.entered)
        BY <2>13, <3>2, <3>4
      <4> QED
        BY <4>1 DEF Images
    <3> QED
      BY <3>3, <3>4
  <2>15. w \in Views
    <3>1. come \subseteq Handles \union {0} /\ data \subseteq Handles \union {0}
      <4>1. Images(d.login, own, d.entered) \subseteq Handles \union {0}
        BY <2>1, <2>9 DEF Images, GameDatas
      <4>2. Images(d.login, own, d.attached) \subseteq Handles \union {0}
        BY <2>1, <2>9 DEF Images, GameDatas
      <4> QED
        BY <2>8, <2>13, <4>1, <4>2
    <3>2. /\ v.attached \union (data \intersect (come \union {viewer.handle})) \subseteq Handles \union {0}
          /\ (v.owned \/ d.owned) \in BOOLEAN
          /\ (IF d.lasting = Null THEN v.lasting ELSE d.lasting) \in Lasting
      BY <2>1, <2>6, <3>1 DEF Views, GameDatas
    <3> QED
      BY <2>5, <3>1, <3>2 DEF Views
  <2> QED
    BY <1>1, <2>4, <2>7, <2>8, <2>13, <2>14, <2>15 DEF Showing
<1> QED
  BY <1>2, <1>3

\* What the invariant says of the connections and of the one that is active.
LEMMA ViewerFacts ==
  ASSUME ViewerInv
  PROVE  /\ conns \in [Conns -> [spawned : BOOLEAN, data : GameDatas]]
         /\ \A c \in Conns : Sensible(conns[c].data) /\ (conns[c].data.login # 0 => viewer.logged)
         /\ viewer.handle \in Handles \union {0}
         /\ viewer.logged <=> viewer.handle # 0
  BY DEF ViewerInv, ViewerTypes, Waiting

LEMMA CurrentFacts ==
  ASSUME ViewerAssumption, ViewerInv
  PROVE  /\ Sensible(Viewer!Current)
         /\ Viewer!Current.login # 0 => viewer.logged
<1>1. CASE active = Null
  BY <1>1, NoDataSensible DEF Viewer!Current
<1>2. CASE active # Null
  <2>1. active \in Conns /\ Viewer!Current = conns[active].data
    BY <1>2 DEF ViewerInv, ViewerTypes, Viewer!Current, Viewer!Data
  <2> QED
    BY <2>1, ViewerFacts
<1> QED
  BY <1>1, <1>2

\* Another connection, or none, becomes active.
LEMMA ActivateStep ==
  ASSUME ViewerAssumption, ViewerInv, NEW c \in Conns \union {Null},
         NEW D \in [Conns -> [spawned : BOOLEAN, data : GameDatas]],
         \A k \in Conns : Sensible(D[k].data) /\ (D[k].data.login # 0 => viewer.logged),
         c # Null => D[c].spawned,
         ~viewer.logged => \A k \in Conns : D[k].spawned => k = c,
         Viewer!activateConnectionToServer(c, D), viewer' = viewer
  PROVE  ViewerInv'
<1>1. PICK v : /\ v = IF active = Null THEN shown ELSE Viewer!removePlayerData(shown, Viewer!Data(active))
               /\ shown' = IF c = Null THEN v ELSE Viewer!addPlayerData(v, D[c].data)
  BY DEF Viewer!activateConnectionToServer
<1>2. active' = c /\ conns' = D
  BY DEF Viewer!activateConnectionToServer
<1>3. /\ viewer.handle \in Handles \union {0}
      /\ viewer.logged <=> viewer.handle # 0
      /\ Showing(shown, Viewer!Current, viewer.handle)
  BY ViewerFacts DEF ViewerInv
<1>4. Showing(v, Viewer!NoData, viewer.handle)
  <2>1. CASE active = Null
    BY <1>1, <1>3, <2>1 DEF Viewer!Current
  <2>2. CASE active # Null
    <3>1. PICK d : d = Viewer!Current
      OBVIOUS
    <3>2. v = Viewer!removePlayerData(shown, d)
      BY <1>1, <2>2, <3>1 DEF Viewer!Current
    <3>3. Sensible(d) /\ Showing(shown, d, viewer.handle) /\ (d.login # 0 => viewer.logged)
      BY <1>3, <3>1, CurrentFacts
    <3> QED
      BY <1>3, <3>2, <3>3, Removed
  <2> QED
    BY <2>1, <2>2
<1>5. Showing(shown', Viewer!Current', viewer'.handle)
  <2>1. CASE c = Null
    <3>1. shown' = v /\ Viewer!Current' = Viewer!NoData
      BY <1>1, <1>2, <2>1 DEF Viewer!Current
    <3> QED
      BY <1>4, <3>1
  <2>2. CASE c # Null
    <3>1. PICK d, w : d = D[c].data /\ w = Viewer!addPlayerData(v, d)
      OBVIOUS
    <3>2. shown' = w /\ Viewer!Current' = d
      BY <1>1, <1>2, <2>2, <3>1 DEF Viewer!Current, Viewer!Data
    <3>3. Sensible(d) /\ (d.login # 0 => viewer.logged)
      BY <2>2, <3>1
    <3>4. Showing(w, d, viewer.handle)
      BY <1>3, <1>4, <3>1, <3>3, Added
    <3> QED
      BY <3>2, <3>4
  <2> QED
    BY <2>1, <2>2
<1>6. ViewerTypes'
  BY <1>2 DEF ViewerInv, ViewerTypes
<1>7. Waiting'
  BY <1>2 DEF Waiting
<1> QED
  BY <1>2, <1>5, <1>6, <1>7 DEF ViewerInv

\* Connections that are not active change; the view does not.
LEMMA AsideStep ==
  ASSUME ViewerAssumption, ViewerInv,
         NEW D \in [Conns -> [spawned : BOOLEAN, data : GameDatas]],
         \A k \in Conns : Sensible(D[k].data) /\ (D[k].data.login # 0 => viewer.logged),
         active # Null => D[active] = conns[active],
         ~viewer.logged => \A k \in Conns : D[k].spawned => k = active,
         conns' = D, active' = active, shown' = shown, viewer' = viewer
  PROVE  ViewerInv'
<1>1. Viewer!Current' = Viewer!Current
  BY DEF Viewer!Current, Viewer!Data
<1>2. Showing(shown', Viewer!Current', viewer'.handle) /\ ViewerTypes'
  BY <1>1 DEF ViewerInv, ViewerTypes
<1>3. Waiting'
  BY DEF Waiting
<1>4. active' # Null => conns'[active'].spawned
  BY DEF ViewerInv
<1> QED
  BY <1>2, <1>3, <1>4 DEF ViewerInv

LEMMA spawnStep ==
  ASSUME ViewerAssumption, ViewerInv, NEW c \in Conns, Viewer!spawnConnectionToServer(c)
  PROVE  ViewerInv'
<1>1. PICK D : /\ D = [conns EXCEPT ![c].spawned = TRUE]
               /\ IF active = Null THEN Viewer!activateConnectionToServer(c, D)
                  ELSE conns' = D /\ UNCHANGED <<active, shown>>
  BY DEF Viewer!spawnConnectionToServer
<1>2. viewer' = viewer /\ (viewer.logged \/ \A d \in Conns : ~conns[d].spawned)
  BY DEF Viewer!spawnConnectionToServer
<1>3. /\ D \in [Conns -> [spawned : BOOLEAN, data : GameDatas]]
      /\ \A k \in Conns : D[k].data = conns[k].data /\ (k # c => D[k] = conns[k])
      /\ D[c].spawned
  BY <1>1, ViewerFacts
<1>4. \A k \in Conns : Sensible(D[k].data) /\ (D[k].data.login # 0 => viewer.logged)
  BY <1>3, ViewerFacts
<1>5. CASE active = Null
  <2>1. ~viewer.logged => \A k \in Conns : D[k].spawned => k = c
    BY <1>2, <1>3
  <2>2. Viewer!activateConnectionToServer(c, D)
    BY <1>1, <1>5
  <2> QED
    BY <1>2, <1>3, <1>4, <2>1, <2>2, ActivateStep
<1>6. CASE active # Null
  <2>1. active \in Conns /\ conns[active].spawned
    BY <1>6 DEF ViewerInv, ViewerTypes
  <2>2. active # c /\ viewer.logged
    BY <1>2, <2>1 DEF Viewer!spawnConnectionToServer
  <2>3. D[active] = conns[active]
    BY <1>3, <2>1, <2>2
  <2>4. conns' = D /\ active' = active /\ shown' = shown
    BY <1>1, <1>6
  <2> QED
    BY <1>2, <1>3, <1>4, <2>2, <2>3, <2>4, AsideStep
<1> QED
  BY <1>5, <1>6

LEMMA setActiveStep ==
  ASSUME ViewerAssumption, ViewerInv, NEW c \in Conns, viewer.logged, conns[c].spawned,
         Viewer!activateConnectionToServer(c, conns), viewer' = viewer
  PROVE  ViewerInv'
<1>1. PICK D : D = conns
  OBVIOUS
<1>2. /\ D \in [Conns -> [spawned : BOOLEAN, data : GameDatas]] /\ D[c].spawned
      /\ \A k \in Conns : Sensible(D[k].data) /\ (D[k].data.login # 0 => viewer.logged)
      /\ Viewer!activateConnectionToServer(c, D)
  BY <1>1, ViewerFacts
<1> QED
  BY <1>2, ActivateStep

LEMMA SwitchToTargetStep ==
  ASSUME ViewerAssumption, ViewerInv, Viewer!SwitchToTarget
  PROVE  ViewerInv'
<1>1. viewer.logged /\ viewer' = viewer
  BY DEF Viewer!SwitchToTarget
<1>2. CASE UNCHANGED <<active, conns, shown>>
  <2>1. PICK D : D = conns
    OBVIOUS
  <2>2. /\ D \in [Conns -> [spawned : BOOLEAN, data : GameDatas]]
        /\ \A k \in Conns : Sensible(D[k].data) /\ (D[k].data.login # 0 => viewer.logged)
        /\ conns' = D /\ D[active] = conns[active]
    BY <1>2, <2>1, ViewerFacts
  <2> QED
    BY <1>1, <1>2, <2>2, AsideStep
<1>3. ASSUME NEW c \in Conns, conns[c].spawned, Viewer!activateConnectionToServer(c, conns)
      PROVE  ViewerInv'
  BY <1>1, <1>3, setActiveStep
<1> QED
  BY <1>2, <1>3 DEF Viewer!SwitchToTarget, Viewer!Data

\* A connection that is not there has no data.
LEMMA NoConnection ==
  ASSUME ViewerAssumption
  PROVE  /\ Viewer!NoConn \in [spawned : BOOLEAN, data : GameDatas]
         /\ Viewer!NoConn.spawned = FALSE /\ Viewer!NoConn.data = Viewer!NoData
  BY NoDataSensible DEF Viewer!NoConn, Sensible

LEMMA removeStep ==
  ASSUME ViewerAssumption, ViewerInv, NEW c \in Conns, Viewer!remoteConnectionToServerByName(c)
  PROVE  ViewerInv'
<1>1. PICK n, D : n = Viewer!NoConn /\ D = [conns EXCEPT ![c] = n]
  OBVIOUS
<1>2. /\ viewer.logged /\ viewer' = viewer
      /\ IF active = c THEN Viewer!activateConnectionToServer(Null, D)
         ELSE conns' = D /\ UNCHANGED <<active, shown>>
  BY <1>1 DEF Viewer!remoteConnectionToServerByName, Viewer!Erase
<1>3. /\ D \in [Conns -> [spawned : BOOLEAN, data : GameDatas]]
      /\ \A k \in Conns : D[k] = IF k = c THEN n ELSE conns[k]
      /\ Sensible(n.data)
  BY <1>1, ViewerFacts, NoConnection, NoDataSensible
<1>4. \A k \in Conns : Sensible(D[k].data) /\ (D[k].data.login # 0 => viewer.logged)
  BY <1>2, <1>3, ViewerFacts
<1>5. CASE active = c
  <2>1. Viewer!activateConnectionToServer(Null, D)
    BY <1>2, <1>5
  <2> QED
    BY <1>2, <1>3, <1>4, <2>1, ActivateStep
<1>6. CASE active # c
  <2>1. active # Null => D[active] = conns[active]
    <3>1. active \in Conns \union {Null}
      BY DEF ViewerInv, ViewerTypes
    <3> QED
      BY <1>3, <1>6, <3>1
  <2> QED
    BY <1>2, <1>3, <1>4, <1>6, <2>1, AsideStep
<1> QED
  BY <1>5, <1>6

\* A packet of the game server to a character that is logged in.
LEMMA ShownStep ==
  ASSUME ViewerAssumption, ViewerInv, NEW c \in Conns, NEW d, Sensible(d), NEW view, Viewer!Packet(c, d, view),
         Viewer!Logged(c), c = active => Showing(view, d, viewer.handle)
  PROVE  ViewerInv'
<1>1. PICK r, D : r = [conns[c] EXCEPT !.data = d] /\ D = [conns EXCEPT ![c] = r]
  OBVIOUS
<1>2. /\ conns \in [Conns -> [spawned : BOOLEAN, data : GameDatas]] /\ d \in GameDatas
  BY ViewerFacts DEF Sensible
<1>3. r \in [spawned : BOOLEAN, data : GameDatas] /\ r.data = d /\ r.spawned = conns[c].spawned
  BY <1>1, <1>2
<1>4. /\ D \in [Conns -> [spawned : BOOLEAN, data : GameDatas]]
      /\ \A k \in Conns : D[k] = IF k = c THEN r ELSE conns[k]
  BY <1>1, <1>2, <1>3
<1>5. conns' = D
  <2>1. conns' = [conns EXCEPT ![c].data = d]
    BY DEF Viewer!Packet
  <2> QED
    BY <1>1, <1>2, <2>1
<1>6. viewer.logged /\ viewer' = viewer /\ active' = active
  BY ViewerFacts DEF Viewer!Packet, Viewer!Logged, Viewer!Data
<1>7. \A k \in Conns : Sensible(D[k].data) /\ (D[k].data.login # 0 => viewer.logged)
  BY <1>3, <1>4, <1>6, ViewerFacts
<1>8. CASE c = active
  <2>1. c # Null
    BY DEF ViewerAssumption
  <2>2. shown' = view /\ Viewer!Current' = d
    BY <1>3, <1>4, <1>5, <1>6, <1>8, <2>1 DEF Viewer!Packet, Viewer!Current, Viewer!Data
  <2>3. Showing(shown', Viewer!Current', viewer'.handle)
    BY <1>6, <1>8, <2>2
  <2>4. ViewerTypes'
    BY <1>4, <1>5, <1>6 DEF ViewerInv, ViewerTypes
  <2>5. Waiting'
    BY <1>6 DEF Waiting
  <2>6. active' # Null => conns'[active'].spawned
    BY <1>3, <1>4, <1>5, <1>6, <1>8 DEF ViewerInv
  <2> QED
    BY <1>5, <1>7, <2>3, <2>4, <2>5, <2>6 DEF ViewerInv
<1>9. CASE c # active
  <2>1. shown' = shown
    BY <1>9 DEF Viewer!Packet
  <2>2. active # Null => D[active] = conns[active]
    <3>1. active \in Conns \union {Null}
      BY DEF ViewerInv, ViewerTypes
    <3> QED
      BY <1>4, <1>9, <3>1
  <2> QED
    BY <1>4, <1>5, <1>6, <1>7, <2>1, <2>2, AsideStep
<1> QED
  BY <1>8, <1>9

\* The data of a character that is logged in, and what is shown when it is active.
LEMMA LoggedFacts ==
  ASSUME ViewerAssumption, ViewerInv, NEW c \in Conns, Viewer!Logged(c)
  PROVE  /\ Sensible(Viewer!Data(c)) /\ Viewer!Data(c).login \in Handles
         /\ viewer.handle \in Handles
         /\ c = active => Showing(shown, Viewer!Data(c), viewer.handle)
<1>1. /\ Sensible(conns[c].data) /\ conns[c].data.login # 0 /\ viewer.logged
  BY ViewerFacts DEF Viewer!Logged, Viewer!Data
<1>2. c = active => Showing(shown, conns[c].data, viewer.handle)
  BY DEF ViewerInv, Viewer!Current, Viewer!Data, ViewerAssumption
<1> QED
  BY <1>1, <1>2, ViewerFacts DEF Viewer!Data, Sensible, GameDatas

LEMMA SwappedHandle ==
  ASSUME NEW login \in Handles, NEW own \in Handles, NEW h \in Handles
  PROVE  Swapped(login, own, h) \in Handles
BY DEF Swapped

LEMMA onEnterStep ==
  ASSUME ViewerAssumption, ViewerInv, NEW c \in Conns, NEW h \in Handles, Viewer!onEnter(c, h)
  PROVE  ViewerInv'
<1>1. PICK d, own, x, v, e, w :
        /\ d = Viewer!Data(c) /\ own = viewer.handle /\ x = Viewer!To(c, h) /\ v = shown
        /\ e = (IF h = d.login THEN d ELSE [d EXCEPT !.known = @ \union {h}, !.entered = @ \union {h}])
        /\ w = [v EXCEPT !.creatures = IF x = own THEN @ ELSE @ \union {x}]
  OBVIOUS
<1>2. Viewer!Logged(c) /\ Viewer!Packet(c, e, w)
  BY <1>1 DEF Viewer!onEnter, Viewer!Enter
<1>3. /\ Sensible(d) /\ d \in GameDatas /\ d.login \in Handles /\ own \in Handles
      /\ x = Swapped(d.login, own, h) /\ x \in Handles /\ x # 0 /\ own # 0
  <2>1. Sensible(d) /\ d.login \in Handles /\ own \in Handles
    BY <1>1, <1>2, LoggedFacts
  <2>2. x = Swapped(d.login, own, h)
    BY <1>1, ConvertSwaps DEF Viewer!To
  <2> QED
    BY <2>1, <2>2, SwappedHandle DEF Sensible, ViewerAssumption
<1>4. CASE h = d.login
  <2>1. e = d /\ x = own
    BY <1>1, <1>3, <1>4 DEF Swapped
  <2>2. ASSUME c = active PROVE Showing(w, e, own)
    <3>1. Showing(v, d, own)
      BY <1>1, <1>2, <2>2, LoggedFacts
    <3>2. w = v
      BY <1>1, <2>1, <3>1 DEF Showing, Views
    <3> QED
      BY <2>1, <3>1, <3>2
  <2> QED
    BY <1>1, <1>2, <1>3, <2>1, <2>2, ShownStep
<1>5. CASE h # d.login
  <2>1. /\ e.login = d.login /\ e.known = d.known \union {h} /\ e.entered = d.entered \union {h}
        /\ e.attached = d.attached /\ e.owned = d.owned /\ e.lasting = d.lasting /\ e \in GameDatas
    BY <1>1, <1>3, <1>5 DEF GameDatas
  <2>2. Sensible(e)
    <3>1. IsFiniteSet(d.entered \union {h})
      BY <1>3, FS_AddElement DEF Sensible
    <3> QED
      BY <1>3, <1>5, <2>1, <3>1 DEF Sensible, ViewerAssumption
  <2>3. x # own
    BY <1>3, <1>5 DEF Swapped
  <2>4. ASSUME c = active PROVE Showing(w, e, own)
    <3>1. Showing(v, d, own) /\ v \in Views
      BY <1>1, <1>2, <2>4, LoggedFacts DEF Showing
    <3>2. /\ w.creatures = v.creatures \union {x} /\ w.attached = v.attached /\ w.owned = v.owned
          /\ w.lasting = v.lasting /\ w \in Views
      BY <1>1, <1>3, <2>3, <3>1 DEF Views
    <3>3. Images(d.login, own, d.entered \union {h}) = Images(d.login, own, d.entered) \union {x}
      BY <1>3 DEF Images
    <3>4. w.creatures \ {0} = Images(e.login, own, e.entered)
      BY <1>3, <2>1, <3>1, <3>2, <3>3 DEF Showing
    <3>5. w.attached \subseteq Images(e.login, own, e.entered \union {e.login})
      BY <2>1, <3>1, <3>2 DEF Showing, Images
    <3> QED
      BY <2>1, <3>1, <3>2, <3>4, <3>5 DEF Showing
  <2> QED
    BY <1>1, <1>2, <2>2, <2>4, ShownStep
<1> QED
  BY <1>4, <1>5

LEMMA onLeaveStep ==
  ASSUME ViewerAssumption, ViewerInv, NEW c \in Conns, NEW h \in Handles, Viewer!onLeave(c, h)
  PROVE  ViewerInv'
<1>1. PICK d, own, x, v, e, w :
        /\ d = Viewer!Data(c) /\ own = viewer.handle /\ x = Viewer!To(c, h) /\ v = shown
        /\ e = [d EXCEPT !.known = @ \ {h}, !.entered = @ \ {h}, !.attached = @ \ {h}]
        /\ w = [v EXCEPT !.creatures = @ \ {x}, !.attached = IF x = own THEN @ ELSE @ \ {x}]
  OBVIOUS
<1>2. Viewer!Logged(c) /\ h # d.login /\ Viewer!Packet(c, e, w)
  BY <1>1 DEF Viewer!onLeave, Viewer!Leave
<1>3. /\ Sensible(d) /\ d \in GameDatas /\ d.login \in Handles /\ own \in Handles
      /\ x = Swapped(d.login, own, h) /\ x # own
  <2>1. Sensible(d) /\ d.login \in Handles /\ own \in Handles
    BY <1>1, <1>2, LoggedFacts
  <2>2. x = Swapped(d.login, own, h)
    BY <1>1, ConvertSwaps DEF Viewer!To
  <2>3. x # own
    BY <1>2, <2>2 DEF Swapped
  <2> QED
    BY <2>1, <2>2, <2>3 DEF Sensible
<1>4. /\ e.login = d.login /\ e.known = d.known \ {h} /\ e.entered = d.entered \ {h}
      /\ e.attached = d.attached \ {h} /\ e.owned = d.owned /\ e.lasting = d.lasting /\ e \in GameDatas
  BY <1>1, <1>3 DEF GameDatas
<1>5. Sensible(e)
  <2>1. IsFiniteSet(d.entered \ {h})
    BY <1>3, FS_RemoveElement DEF Sensible
  <2> QED
    BY <1>3, <1>4, <2>1 DEF Sensible, ViewerAssumption
<1>6. ASSUME c = active PROVE Showing(w, e, own)
  <2>1. Showing(v, d, own) /\ v \in Views
    BY <1>1, <1>2, <1>6, LoggedFacts DEF Showing
  <2>2. /\ w.creatures = v.creatures \ {x} /\ w.attached = v.attached \ {x} /\ w.owned = v.owned
        /\ w.lasting = v.lasting /\ w \in Views
    BY <1>1, <1>3, <2>1 DEF Views
  <2>3. \A S : Images(d.login, own, S \ {h}) = Images(d.login, own, S) \ {x}
    BY <1>3 DEF Images, Swapped
  <2>4. w.creatures \ {0} = Images(e.login, own, e.entered)
    BY <1>4, <2>1, <2>2, <2>3 DEF Showing
  <2>5. w.attached \subseteq Images(e.login, own, e.attached)
    BY <1>4, <2>1, <2>2, <2>3 DEF Showing
  <2>6. w.attached \subseteq Images(e.login, own, e.entered \union {e.login})
    <3>1. (d.entered \union {d.login}) \ {h} = e.entered \union {e.login}
      BY <1>2, <1>4
    <3>2. Images(d.login, own, (d.entered \union {d.login}) \ {h}) = Images(d.login, own, d.entered \union {d.login}) \ {x}
      BY <2>3
    <3> QED
      BY <1>4, <2>1, <2>2, <3>1, <3>2 DEF Showing
  <2> QED
    BY <1>4, <2>1, <2>2, <2>4, <2>5, <2>6 DEF Showing
<1> QED
  BY <1>1, <1>2, <1>5, <1>6, ShownStep

LEMMA onCreatureDataStep ==
  ASSUME ViewerAssumption, ViewerInv, NEW c \in Conns, NEW h \in Handles, NEW on \in BOOLEAN,
         Viewer!onCreatureData(c, h, on)
  PROVE  ViewerInv'
<1>1. PICK d, own, x, v, g, e, w :
        /\ d = Viewer!Data(c) /\ own = viewer.handle /\ x = Viewer!To(c, h) /\ v = shown
        /\ g = Viewer!getCreatureData(d, h)
        /\ e = [g EXCEPT !.attached = IF on THEN @ \union {h} ELSE @ \ {h}]
        /\ w = [v EXCEPT !.attached = IF ~on THEN @ \ {x}
                                      ELSE IF x \in v.creatures \union {own} THEN @ \union {x} ELSE @]
  OBVIOUS
<1>2. Viewer!Logged(c) /\ Viewer!Packet(c, e, w)
  BY <1>1 DEF Viewer!onCreatureData, Viewer!Attach
<1>3. /\ Sensible(d) /\ d \in GameDatas /\ d.login \in Handles /\ own \in Handles
      /\ x = Swapped(d.login, own, h) /\ x \in Handles /\ x # 0
  <2>1. Sensible(d) /\ d.login \in Handles /\ own \in Handles
    BY <1>1, <1>2, LoggedFacts
  <2>2. x = Swapped(d.login, own, h)
    BY <1>1, ConvertSwaps DEF Viewer!To
  <2> QED
    BY <2>1, <2>2, SwappedHandle DEF Sensible, ViewerAssumption
<1>4. /\ g.login = d.login /\ g.known = (IF h = d.login THEN d.known ELSE d.known \union {h})
      /\ g.entered = d.entered /\ g.attached = d.attached /\ g.owned = d.owned /\ g.lasting = d.lasting
      /\ g \in GameDatas
  BY <1>1, <1>3 DEF GameDatas, Viewer!getCreatureData
<1>5. /\ e.login = d.login /\ e.known = g.known /\ e.entered = d.entered
      /\ e.attached = (IF on THEN d.attached \union {h} ELSE d.attached \ {h})
      /\ e.owned = d.owned /\ e.lasting = d.lasting /\ e \in GameDatas
  BY <1>1, <1>4 DEF GameDatas
<1>6. Sensible(e)
  BY <1>3, <1>4, <1>5 DEF Sensible, ViewerAssumption
<1>7. ASSUME c = active PROVE Showing(w, e, own)
  <2>1. Showing(v, d, own) /\ v \in Views
    BY <1>1, <1>2, <1>7, LoggedFacts DEF Showing
  <2>2. /\ w.creatures = v.creatures /\ w.owned = v.owned /\ w.lasting = v.lasting
        /\ w.attached = (IF ~on THEN v.attached \ {x}
                         ELSE IF x \in v.creatures \union {own} THEN v.attached \union {x} ELSE v.attached)
        /\ w \in Views
    BY <1>1, <1>3, <2>1 DEF Views
  <2>3. w.attached \subseteq Images(d.login, own, e.attached)
    <3>1. CASE on
      <4>1. Images(d.login, own, d.attached \union {h}) = Images(d.login, own, d.attached) \union {x}
        BY <1>3 DEF Images
      <4> QED
        BY <1>5, <2>1, <2>2, <3>1, <4>1 DEF Showing
    <3>2. CASE ~on
      <4>1. Images(d.login, own, d.attached \ {h}) = Images(d.login, own, d.attached) \ {x}
        BY <1>3 DEF Images, Swapped
      <4> QED
        BY <1>5, <2>1, <2>2, <3>2, <4>1 DEF Showing
    <3> QED
      BY <3>1, <3>2
  <2>4. w.attached \subseteq Images(d.login, own, d.entered \union {d.login})
    <3>1. v.creatures \ {0} = Images(d.login, own, d.entered)
      BY <2>1 DEF Showing
    <3>2. x \in v.creatures \union {own} => x \in Images(d.login, own, d.entered \union {d.login})
      <4>1. x = own => x \in Images(d.login, own, d.entered \union {d.login})
        BY <1>3 DEF Images, Swapped
      <4>2. x \in v.creatures => x \in Images(d.login, own, d.entered)
        BY <1>3, <3>1
      <4>3. Images(d.login, own, d.entered) \subseteq Images(d.login, own, d.entered \union {d.login})
        BY DEF Images
      <4> QED
        BY <4>1, <4>2, <4>3
    <3> QED
      BY <2>1, <2>2, <3>2 DEF Showing
  <2> QED
    BY <1>5, <2>1, <2>2, <2>3, <2>4 DEF Showing
<1> QED
  BY <1>1, <1>2, <1>6, <1>7, ShownStep

LEMMA onOwnedStep ==
  ASSUME ViewerAssumption, ViewerInv, NEW c \in Conns, NEW on \in BOOLEAN, Viewer!onOwned(c, on)
  PROVE  ViewerInv'
<1>1. PICK d, own, v, e, w :
        /\ d = Viewer!Data(c) /\ own = viewer.handle /\ v = shown
        /\ e = [d EXCEPT !.owned = on] /\ w = [v EXCEPT !.owned = on]
  OBVIOUS
<1>2. Viewer!Logged(c) /\ Viewer!Packet(c, e, w)
  BY <1>1 DEF Viewer!onOwned
<1>3. Sensible(d) /\ d \in GameDatas /\ d.login # 0
  BY <1>1, <1>2, LoggedFacts DEF Sensible, ViewerAssumption
<1>4. /\ e.login = d.login /\ e.known = d.known /\ e.entered = d.entered /\ e.attached = d.attached
      /\ e.owned = on /\ e.lasting = d.lasting /\ e \in GameDatas
  BY <1>1, <1>3 DEF GameDatas
<1>5. Sensible(e)
  BY <1>3, <1>4 DEF Sensible
<1>6. ASSUME c = active PROVE Showing(w, e, own)
  <2>1. Showing(v, d, own) /\ v \in Views
    BY <1>1, <1>2, <1>6, LoggedFacts DEF Showing
  <2>2. /\ w.creatures = v.creatures /\ w.attached = v.attached /\ w.owned = on /\ w.lasting = v.lasting
        /\ w \in Views
    BY <1>1, <2>1 DEF Views
  <2> QED
    BY <1>4, <2>1, <2>2 DEF Showing
<1> QED
  BY <1>1, <1>2, <1>5, <1>6, ShownStep

LEMMA onLastingStep ==
  ASSUME ViewerAssumption, ViewerInv, NEW c \in Conns, NEW on \in BOOLEAN, Viewer!onLasting(c, on)
  PROVE  ViewerInv'
<1>1. PICK d, own, v, x, e, w :
        /\ d = Viewer!Data(c) /\ own = viewer.handle /\ v = shown /\ x = (IF on THEN c ELSE Null)
        /\ e = [d EXCEPT !.lasting = x] /\ w = [v EXCEPT !.lasting = x]
  OBVIOUS
<1>2. Viewer!Logged(c) /\ Viewer!Packet(c, e, w)
  BY <1>1 DEF Viewer!onLasting
<1>3. Sensible(d) /\ d \in GameDatas /\ d.login # 0 /\ x \in Lasting
  BY <1>1, <1>2, LoggedFacts DEF Sensible, ViewerAssumption, Lasting
<1>4. /\ e.login = d.login /\ e.known = d.known /\ e.entered = d.entered /\ e.attached = d.attached
      /\ e.owned = d.owned /\ e.lasting = x /\ e \in GameDatas
  BY <1>1, <1>3 DEF GameDatas
<1>5. Sensible(e)
  BY <1>3, <1>4 DEF Sensible
<1>6. ASSUME c = active PROVE Showing(w, e, own)
  <2>1. Showing(v, d, own) /\ v \in Views
    BY <1>1, <1>2, <1>6, LoggedFacts DEF Showing
  <2>2. /\ w.creatures = v.creatures /\ w.attached = v.attached /\ w.owned = v.owned /\ w.lasting = x
        /\ w \in Views
    BY <1>1, <1>3, <2>1 DEF Views
  <2> QED
    BY <1>4, <2>1, <2>2 DEF Showing
<1> QED
  BY <1>1, <1>2, <1>5, <1>6, ShownStep

\* A character that has just logged in has no data, and nothing of it is shown.
LEMMA onLoginResultStep ==
  ASSUME ViewerAssumption, ViewerInv, NEW c \in Conns, NEW h \in Handles, Viewer!onLoginResult(c, h)
  PROVE  ViewerInv'
<1>1. PICK d, e, r, D : /\ d = conns[c].data /\ e = [d EXCEPT !.login = h]
                        /\ r = [conns[c] EXCEPT !.data = e] /\ D = [conns EXCEPT ![c] = r]
  OBVIOUS
<1>2. /\ conns[c].spawned /\ d.login = 0 /\ conns' = [conns EXCEPT ![c].data.login = h]
      /\ active' = active /\ shown' = shown
      /\ viewer' = IF c = active /\ ~viewer.logged THEN [viewer EXCEPT !.logged = TRUE, !.handle = h] ELSE viewer
  BY <1>1 DEF Viewer!onLoginResult, Viewer!Logged, Viewer!Data
<1>3. /\ conns \in [Conns -> [spawned : BOOLEAN, data : GameDatas]] /\ Sensible(d) /\ d = Viewer!NoData
      /\ d \in GameDatas
  BY <1>1, <1>2, ViewerFacts DEF Sensible
<1>4. /\ e.login = h /\ e.known = {} /\ e.entered = {} /\ e.attached = {} /\ e.owned = FALSE
      /\ e.lasting = Null /\ e \in GameDatas
  <2>1. /\ d.known = {} /\ d.entered = {} /\ d.attached = {} /\ d.owned = FALSE /\ d.lasting = Null
    BY <1>3 DEF Viewer!NoData
  <2>2. /\ e.login = h /\ e.known = d.known /\ e.entered = d.entered /\ e.attached = d.attached
        /\ e.owned = d.owned /\ e.lasting = d.lasting /\ e \in GameDatas
    BY <1>1, <1>3 DEF GameDatas
  <2> QED
    BY <2>1, <2>2
<1>5. Sensible(e) /\ h # 0
  BY <1>4, FS_EmptySet DEF Sensible, ViewerAssumption
<1>6. r \in [spawned : BOOLEAN, data : GameDatas] /\ r.data = e /\ r.spawned = conns[c].spawned
  BY <1>1, <1>3, <1>4
<1>7. /\ D \in [Conns -> [spawned : BOOLEAN, data : GameDatas]]
      /\ \A k \in Conns : D[k] = IF k = c THEN r ELSE conns[k]
  BY <1>1, <1>3, <1>6
<1>8. conns' = D
  BY <1>1, <1>2, <1>3
<1>9. \A k \in Conns : Sensible(D[k].data)
  BY <1>5, <1>6, <1>7, ViewerFacts
<1>10. CASE c = active
  <2>1. c # Null
    BY DEF ViewerAssumption
  <2>2. Viewer!Current' = e
    BY <1>2, <1>6, <1>7, <1>8, <1>10, <2>1 DEF Viewer!Current, Viewer!Data
  <2>3. Showing(shown, Viewer!NoData, viewer.handle)
    BY <1>1, <1>3, <1>10, <2>1 DEF ViewerInv, Viewer!Current, Viewer!Data
  <2>4. shown \in Views /\ shown.creatures \subseteq {0} /\ shown.attached = {} /\ shown.owned = FALSE
    BY <2>3, ShowingNothing
  <2>5. \A own : Showing(shown, e, own)
    BY <1>4, <2>4 DEF Showing, Images
  <2>6. /\ viewer' \in [logged : BOOLEAN, handle : Handles \union {0}, target : Handles \union {0}]
        /\ viewer'.logged /\ viewer'.handle # 0
    BY <1>2, <1>5, <1>10 DEF ViewerInv, ViewerTypes
  <2>7. ViewerTypes'
    BY <1>2, <1>7, <1>8, <2>6 DEF ViewerInv, ViewerTypes
  <2>8. Waiting'
    BY <2>6 DEF Waiting
  <2>9. active' # Null => conns'[active'].spawned
    BY <1>2, <1>6, <1>7, <1>8, <1>10
  <2>10. Showing(shown', Viewer!Current', viewer'.handle)
    BY <1>2, <2>2, <2>5
  <2> QED
    BY <1>8, <1>9, <2>7, <2>8, <2>9, <2>10 DEF ViewerInv
<1>11. CASE c # active
  <2>1. viewer.logged
    BY <1>2, <1>11 DEF ViewerInv, Waiting
  <2>2. active # Null => D[active] = conns[active]
    <3>1. active \in Conns \union {Null}
      BY DEF ViewerInv, ViewerTypes
    <3> QED
      BY <1>7, <1>11, <3>1
  <2>3. viewer' = viewer
    BY <1>2, <1>11
  <2>4. \A k \in Conns : Sensible(D[k].data) /\ (D[k].data.login # 0 => viewer.logged)
    BY <1>9, <2>1
  <2> QED
    BY <1>2, <1>7, <1>8, <2>1, <2>2, <2>3, <2>4, AsideStep
<1> QED
  BY <1>10, <1>11

\* A connection that is lost loses its data; what was shown of it is taken back.
LEMMA onDisconnectedStep ==
  ASSUME ViewerAssumption, ViewerInv, NEW c \in Conns, Viewer!onDisconnected(c)
  PROVE  ViewerInv'
<1>1. PICK n, r, D : /\ n = Viewer!NoData /\ r = [conns[c] EXCEPT !.data = n] /\ D = [conns EXCEPT ![c] = r]
  OBVIOUS
<1>2. /\ Viewer!Logged(c) /\ conns' = [conns EXCEPT ![c].data = n]
      /\ active' = active /\ viewer' = viewer
      /\ shown' = IF c = active THEN Viewer!removePlayerData(shown, Viewer!Data(c)) ELSE shown
  BY <1>1 DEF Viewer!onDisconnected
<1>3. /\ conns \in [Conns -> [spawned : BOOLEAN, data : GameDatas]] /\ Sensible(n) /\ n \in GameDatas
      /\ n.login = 0
  BY <1>1, ViewerFacts, NoDataSensible DEF Sensible
<1>4. r \in [spawned : BOOLEAN, data : GameDatas] /\ r.data = n /\ r.spawned = conns[c].spawned
  BY <1>1, <1>3
<1>5. /\ D \in [Conns -> [spawned : BOOLEAN, data : GameDatas]]
      /\ \A k \in Conns : D[k] = IF k = c THEN r ELSE conns[k]
  BY <1>1, <1>3, <1>4
<1>6. conns' = D
  BY <1>1, <1>2, <1>3
<1>7. \A k \in Conns : Sensible(D[k].data) /\ (D[k].data.login # 0 => viewer.logged)
  BY <1>3, <1>4, <1>5, ViewerFacts
<1>8. viewer.logged
  BY <1>2, ViewerFacts DEF Viewer!Logged, Viewer!Data
<1>9. CASE c = active
  <2>1. c # Null
    BY DEF ViewerAssumption
  <2>2. Viewer!Current' = n
    BY <1>2, <1>4, <1>5, <1>6, <1>9, <2>1 DEF Viewer!Current, Viewer!Data
  <2>3. PICK d, w : d = Viewer!Data(c) /\ w = Viewer!removePlayerData(shown, d)
    OBVIOUS
  <2>4. Sensible(d) /\ Showing(shown, d, viewer.handle)
    BY <1>2, <1>9, <2>3, LoggedFacts
  <2>5. Showing(w, Viewer!NoData, viewer.handle)
    <3>1. viewer.logged <=> viewer.handle # 0
      BY ViewerFacts
    <3> QED
      BY <1>8, <2>3, <2>4, <3>1, Removed
  <2>6. Showing(shown', Viewer!Current', viewer'.handle)
    BY <1>1, <1>2, <1>9, <2>2, <2>3, <2>5
  <2>7. ViewerTypes'
    BY <1>2, <1>5, <1>6 DEF ViewerInv, ViewerTypes
  <2>8. Waiting'
    BY <1>2, <1>8 DEF Waiting
  <2>9. active' # Null => conns'[active'].spawned
    BY <1>2, <1>4, <1>5, <1>6, <1>9 DEF ViewerInv
  <2> QED
    BY <1>6, <1>7, <2>6, <2>7, <2>8, <2>9 DEF ViewerInv
<1>10. CASE c # active
  <2>1. active # Null => D[active] = conns[active]
    <3>1. active \in Conns \union {Null}
      BY DEF ViewerInv, ViewerTypes
    <3> QED
      BY <1>5, <1>10, <3>1
  <2>2. shown' = shown
    BY <1>2, <1>10
  <2> QED
    BY <1>2, <1>5, <1>6, <1>7, <1>8, <2>1, <2>2, AsideStep
<1> QED
  BY <1>9, <1>10

LEMMA onTargetingStep ==
  ASSUME ViewerAssumption, ViewerInv, NEW h \in Handles, Viewer!onTargeting(h)
  PROVE  ViewerInv'
<1>1. viewer' = [viewer EXCEPT !.target = h] /\ UNCHANGED <<conns, active, shown>>
  BY DEF Viewer!onTargeting
<1>2. /\ viewer' \in [logged : BOOLEAN, handle : Handles \union {0}, target : Handles \union {0}]
      /\ viewer'.logged = viewer.logged /\ viewer'.handle = viewer.handle
  BY <1>1 DEF ViewerInv, ViewerTypes
<1>3. ViewerTypes' /\ Waiting'
  BY <1>1, <1>2 DEF ViewerInv, ViewerTypes, Waiting
<1>4. Viewer!Current' = Viewer!Current
  BY <1>1 DEF Viewer!Current, Viewer!Data
<1> QED
  BY <1>1, <1>2, <1>3, <1>4 DEF ViewerInv

LEMMA ViewerInit ==
  ASSUME ViewerAssumption, Viewer!Init
  PROVE  ViewerInv
<1>1. PICK n : n = Viewer!NoConn
  OBVIOUS
<1>2. /\ conns = [c \in Conns |-> n] /\ active = Null
      /\ viewer = [logged |-> FALSE, handle |-> 0, target |-> 0]
      /\ shown = [creatures |-> {}, attached |-> {}, owned |-> FALSE, lasting |-> Null]
  BY <1>1 DEF Viewer!Init
<1>3. /\ n \in [spawned : BOOLEAN, data : GameDatas] /\ n.spawned = FALSE /\ Sensible(n.data)
      /\ n.data.login = 0
  BY <1>1, NoConnection, NoDataSensible
<1>4. \A c \in Conns : conns[c] = n
  BY <1>2
<1>5. ViewerTypes /\ Waiting
  BY <1>2, <1>3, <1>4 DEF ViewerTypes, Waiting
<1>6. Showing(shown, Viewer!Current, viewer.handle)
  <2>1. shown \in Views /\ shown.creatures \subseteq {0} /\ shown.attached = {} /\ shown.owned = FALSE
    BY <1>2 DEF Views, Lasting
  <2> QED
    BY <1>2, <2>1, ShowingNothing DEF Viewer!Current
<1> QED
  BY <1>2, <1>3, <1>4, <1>5, <1>6 DEF ViewerInv

LEMMA ViewerNext ==
  ASSUME ViewerAssumption, ViewerInv, [Viewer!Next]_(Viewer!vars)
  PROVE  ViewerInv'
<1>1. CASE UNCHANGED Viewer!vars
  <2>1. UNCHANGED <<conns, active, viewer, shown>>
    BY <1>1 DEF Viewer!vars
  <2>2. Viewer!Current' = Viewer!Current
    BY <2>1 DEF Viewer!Current, Viewer!Data
  <2> QED
    BY <2>1, <2>2 DEF ViewerInv, ViewerTypes, Waiting
<1>2. ASSUME NEW c \in Conns,
             \/ Viewer!spawnConnectionToServer(c) \/ Viewer!setActiveConnectionToServer(c)
             \/ Viewer!remoteConnectionToServerByName(c) \/ Viewer!onDisconnected(c)
      PROVE  ViewerInv'
  BY <1>2, spawnStep, setActiveStep, removeStep, onDisconnectedStep DEF Viewer!setActiveConnectionToServer
<1>3. CASE Viewer!SwitchToTarget
  BY <1>3, SwitchToTargetStep
<1>4. ASSUME NEW h \in Handles, Viewer!onTargeting(h) PROVE ViewerInv'
  BY <1>4, onTargetingStep
<1>5. ASSUME NEW c \in Conns, NEW h \in Handles,
             Viewer!onLoginResult(c, h) \/ Viewer!onEnter(c, h) \/ Viewer!onLeave(c, h)
      PROVE  ViewerInv'
  BY <1>5, onLoginResultStep, onEnterStep, onLeaveStep
<1>6. ASSUME NEW c \in Conns, NEW h \in Handles, NEW on \in BOOLEAN, Viewer!onCreatureData(c, h, on)
      PROVE  ViewerInv'
  BY <1>6, onCreatureDataStep
<1>7. ASSUME NEW c \in Conns, NEW on \in BOOLEAN, Viewer!onOwned(c, on) \/ Viewer!onLasting(c, on)
      PROVE  ViewerInv'
  BY <1>7, onOwnedStep, onLastingStep
<1> QED
  BY <1>1, <1>2, <1>3, <1>4, <1>5, <1>6, <1>7 DEF Viewer!Next

\* The instance counts as this module does.
LEMMA ViewerCounts == \A S : Viewer!Cardinality(S) = Cardinality(S)
BY DEF Viewer!Cardinality, Cardinality

\* Every creature has a handle of its own at the client.
LEMMA ImagesApart ==
  ASSUME NEW a, NEW b, NEW S, IsFiniteSet(S)
  PROVE  Cardinality(Images(a, b, S)) = Cardinality(S)
<1>1. PICK f, T : T = Images(a, b, S) /\ f = [h \in S |-> Swapped(a, b, h)]
  OBVIOUS
<1>2. f \in [S -> T] /\ (\A g, h \in S : f[g] = f[h] => g = h) /\ \A x \in T : \E h \in S : f[h] = x
  BY <1>1 DEF Images, Swapped
<1>3. f \in Bijection(S, T)
  BY <1>2 DEF Bijection, Injection, Surjection, IsInjective
<1> QED
  BY <1>1, <1>3, FS_Bijection DEF ExistsBijection

\* The client shows what the active character's game server told of since it logged in,
\* no less and no more, each creature under a handle of its own, however characters are
\* switched, removed or lost.
THEOREM ShowsActiveCorrect ==
  ASSUME ViewerAssumption
  PROVE  Viewer!Spec => []Viewer!ShowsActive
<1>1. Viewer!Init => ViewerInv
  BY ViewerInit
<1>2. ViewerInv /\ [Viewer!Next]_(Viewer!vars) => ViewerInv'
  BY ViewerNext
<1>3. ViewerInv => Viewer!ShowsActive
  <2> SUFFICES ASSUME ViewerInv PROVE Viewer!ShowsActive
    OBVIOUS
  <2>1. PICK d, own : d = Viewer!Current /\ own = viewer.handle
    OBVIOUS
  <2>2. /\ Showing(shown, d, own) /\ Sensible(d)
    BY <2>1, CurrentFacts DEF ViewerInv
  <2>3. \A S : Viewer!AsShown(S) = Images(d.login, own, S)
    BY <2>1, ConvertSwaps DEF Viewer!AsShown, Images
  <2>4. Viewer!NoGhosts
    BY <2>1, <2>2, <2>3 DEF Viewer!NoGhosts, Showing
  <2>5. Viewer!Cardinality(Viewer!AsShown(d.entered)) = Viewer!Cardinality(d.entered)
    BY <2>2, <2>3, ViewerCounts, ImagesApart DEF Sensible
  <2>6. Viewer!NothingMissing
    <3>1. Images(d.login, own, d.entered) \subseteq shown.creatures
      BY <2>2 DEF Showing
    <3>2. /\ d.owned => shown.owned
          /\ d.lasting # Null => shown.lasting = d.lasting
      BY <2>2 DEF Showing
    <3> QED
      BY <2>1, <2>3, <2>5, <3>1, <3>2 DEF Viewer!NothingMissing
  <2>7. Viewer!ActiveKept
    BY DEF Viewer!ActiveKept, ViewerInv
  <2> QED
    BY <2>4, <2>6, <2>7 DEF Viewer!ShowsActive
<1> QED
  BY <1>1, <1>2, <1>3, PTL DEF Viewer!Spec

-----------------------------------------------------------------------------
(* The reference data of the game server prototype                          *)

CONSTANTS Tables, Kinds, Rows, MaxSid, MaxLoads

VARIABLES loading, underway, asked, kept, nextSid, highest, reference, history

Reference == INSTANCE GameReference WITH
  state <- loading, running <- underway, loaded <- asked, data <- kept, next <- nextSid,
  stored <- highest, tables <- reference, ghost <- history

\* Each loader is of one kind, and there is one.
ReferenceAssumption ==
  /\ IsFiniteSet(Tables) /\ IsFiniteSet(Kinds) /\ Tables \intersect Kinds = {} /\ "words" \notin Kinds
  /\ Tables \union Kinds # {}

Histories ==
  [given : [Kinds -> SUBSET Nat], read : [Tables -> SUBSET Rows], started : {0, 1},
   answered : SUBSET Reference!Loaders, failed : SUBSET Reference!Loaders, loads : Nat, changes : Nat]

ReferenceTypes ==
  /\ loading \in [inProgress : BOOLEAN, callback : BOOLEAN, remaining : Nat]
  /\ underway \subseteq Reference!Loaders /\ asked \in {{}, Kinds}
  /\ kept \in [Tables -> SUBSET Rows] /\ reference \in [Tables -> SUBSET Rows]
  /\ nextSid \in [Kinds -> Nat] /\ highest \in [Kinds -> Nat]
  /\ history \in Histories

\* A load waits for the loaders that are under way.
WaitsFor ==
  /\ loading.inProgress <=> underway # {}
  /\ loading.inProgress => loading.remaining = Cardinality(underway)

\* The load that starts the servers is the first one; each loader answers it once, and
\* the loaders of sids no other.
FirstLoad ==
  IF history.loads = 0
  THEN underway = {} /\ asked = {} /\ history.started = 0 /\ history.answered = {}
  ELSE /\ asked = Kinds
       /\ IF loading.callback /\ loading.inProgress
          THEN /\ history.started = 0
               /\ history.answered \union underway = Reference!Loaders /\ history.answered \intersect underway = {}
          ELSE history.started = 1 /\ history.answered = Reference!Loaders /\ underway \intersect Kinds = {}

\* Sids are given out after the highest one was read.
SidsAhead ==
  /\ history.started = 0 => \A k \in Kinds : history.given[k] = {}
  /\ \A k \in Kinds : k \in history.answered /\ k \notin history.failed =>
       nextSid[k] > highest[k] /\ \A n \in history.given[k] : n < nextSid[k]

RowsKept ==
  \A t \in Tables : t \notin history.failed =>
    history.read[t] \subseteq kept[t] /\ (t = "words" => kept[t] = history.read[t])

ReferenceInv == ReferenceTypes /\ WaitsFor /\ FirstLoad /\ SidsAhead /\ RowsKept

\* The instance counts as this module does.
LEMMA ReferenceCounts == \A S : Reference!Cardinality(S) = Cardinality(S)
BY DEF Reference!Cardinality, Cardinality

LEMMA LoadersFinite ==
  ASSUME ReferenceAssumption
  PROVE  \A S : S \subseteq Reference!Loaders =>
           IsFiniteSet(S) /\ Cardinality(S) \in Nat /\ (Cardinality(S) = 0 <=> S = {})
<1>1. IsFiniteSet(Reference!Loaders)
  BY FS_Union DEF ReferenceAssumption, Reference!Loaders
<1> SUFFICES ASSUME NEW S, S \subseteq Reference!Loaders
             PROVE  IsFiniteSet(S) /\ Cardinality(S) \in Nat /\ (Cardinality(S) = 0 <=> S = {})
  OBVIOUS
<1>2. IsFiniteSet(S)
  BY <1>1, FS_Subset
<1> QED
  BY <1>2, FS_CardinalityType, FS_EmptySet

LEMMA loadStep ==
  ASSUME ReferenceAssumption, ReferenceInv, NEW callback \in BOOLEAN, callback <=> history.loads = 0,
         Reference!load(callback)
  PROVE  ReferenceInv'
<1>1. PICK h, g, n : h = history /\ g = history' /\ n = h.loads + 1
  OBVIOUS
<1>2. h \in Histories /\ g = [h EXCEPT !.loads = @ + 1] /\ UNCHANGED <<kept, nextSid, highest, reference>>
  BY <1>1 DEF ReferenceInv, ReferenceTypes, Reference!load
<1>3. /\ g \in Histories /\ g.loads = n /\ n # 0 /\ g.given = h.given /\ g.read = h.read /\ g.started = h.started
      /\ g.answered = h.answered /\ g.failed = h.failed
  BY <1>1, <1>2 DEF Histories
<1>4. SidsAhead' /\ RowsKept'
  BY <1>1, <1>2, <1>3 DEF ReferenceInv, SidsAhead, RowsKept
<1>5. CASE loading.inProgress
  <2>1. UNCHANGED <<loading, underway, asked>>
    BY <1>5 DEF Reference!load
  <2>2. ReferenceTypes' /\ WaitsFor'
    BY <1>1, <1>2, <1>3, <2>1 DEF ReferenceInv, ReferenceTypes, WaitsFor
  <2>3. FirstLoad'
    BY <1>1, <1>3, <1>5, <2>1 DEF ReferenceInv, FirstLoad, WaitsFor
  <2> QED
    BY <1>4, <2>2, <2>3 DEF ReferenceInv
<1>6. CASE ~loading.inProgress
  <2>1. PICK m, S : S = Reference!Loaders \ asked /\ m = Cardinality(S)
    OBVIOUS
  <2>2. m \in Nat /\ (m = 0 <=> S = {}) /\ S \subseteq Reference!Loaders
    BY <2>1, LoadersFinite
  <2>3. /\ loading' = [inProgress |-> m > 0, callback |-> callback, remaining |-> m]
        /\ underway' = S /\ asked' = Kinds
    BY <1>6, <2>1, ReferenceCounts DEF Reference!load, Reference!Awaited
  <2>4. /\ loading' \in [inProgress : BOOLEAN, callback : BOOLEAN, remaining : Nat]
        /\ loading'.inProgress = (m > 0) /\ loading'.callback = callback /\ loading'.remaining = m
    BY <2>2, <2>3
  <2>5. ReferenceTypes'
    BY <1>1, <1>2, <1>3, <2>2, <2>3, <2>4 DEF ReferenceInv, ReferenceTypes
  <2>6. WaitsFor'
    <3>1. (m > 0) <=> S # {}
      BY <2>2
    <3> QED
      BY <2>1, <2>3, <2>4, <3>1 DEF WaitsFor
  <2>7. FirstLoad'
    <3>1. CASE h.loads = 0
      <4>1. asked = {} /\ h.started = 0 /\ h.answered = {} /\ callback
        BY <1>1, <3>1 DEF ReferenceInv, FirstLoad
      <4>2. S = Reference!Loaders /\ S # {}
        BY <2>1, <4>1 DEF ReferenceAssumption, Reference!Loaders
      <4>3. m > 0
        BY <2>2, <4>2
      <4> QED
        BY <1>1, <1>3, <2>3, <2>4, <4>1, <4>2, <4>3 DEF FirstLoad
    <3>2. CASE h.loads # 0
      <4>1. asked = Kinds /\ h.started = 1 /\ h.answered = Reference!Loaders /\ ~callback
        BY <1>1, <1>6, <3>2 DEF ReferenceInv, FirstLoad
      <4>2. S \intersect Kinds = {}
        BY <2>1, <4>1
      <4> QED
        BY <1>1, <1>3, <2>3, <2>4, <4>1, <4>2 DEF FirstLoad
    <3> QED
      BY <3>1, <3>2
  <2> QED
    BY <1>4, <2>5, <2>6, <2>7 DEF ReferenceInv
<1> QED
  BY <1>5, <1>6

\* What a loader that answers makes of the history.
Recorded(h, l, ok, last, rows) ==
  [h EXCEPT !.started = IF last THEN @ + 1 ELSE @,
            !.read = IF l \in Tables /\ ok THEN [@ EXCEPT ![l] = rows] ELSE @,
            !.answered = @ \union {l}, !.failed = IF ok THEN @ ELSE @ \union {l}]

LEMMA onDataLoadedStep ==
  ASSUME ReferenceAssumption, ReferenceInv, NEW l \in Reference!Loaders, NEW ok \in BOOLEAN,
         Reference!onDataLoaded(l, ok)
  PROVE  ReferenceInv'
<1>1. PICK S, m, last : /\ S = underway \ {l} /\ m = Cardinality(S)
                        /\ last = (loading.remaining - 1 <= 0 /\ loading.callback)
  OBVIOUS
<1>2. /\ loading.inProgress /\ loading.remaining = m + 1 /\ m \in Nat /\ (m = 0 <=> S = {})
      /\ l \in underway /\ S \subseteq Reference!Loaders /\ history.loads # 0
  <2>1. l \in underway
    BY DEF Reference!onDataLoaded
  <2>2. /\ underway \subseteq Reference!Loaders /\ loading.inProgress
        /\ loading.remaining = Cardinality(underway) /\ history.loads # 0
    BY <2>1 DEF ReferenceInv, ReferenceTypes, WaitsFor, FirstLoad
  <2>3. S \subseteq Reference!Loaders /\ m \in Nat /\ (m = 0 <=> S = {})
    BY <1>1, <2>2, LoadersFinite
  <2>4. IsFiniteSet(underway) /\ Cardinality(underway) \in Nat
    BY <2>2, LoadersFinite
  <2>5. m = Cardinality(underway) - 1
    BY <1>1, <2>1, <2>4, FS_RemoveElement
  <2> QED
    BY <2>1, <2>2, <2>3, <2>4, <2>5
<1>3. /\ underway' = S /\ UNCHANGED <<asked, highest, reference>>
      /\ loading' = [loading EXCEPT !.remaining = @ - 1, !.inProgress = loading.remaining - 1 > 0]
      /\ nextSid' = IF l \in Kinds THEN Reference!NextSid(l, ok) ELSE nextSid
  BY <1>1 DEF Reference!onDataLoaded, Reference!signalDataLoaded
<1>4. /\ loading' \in [inProgress : BOOLEAN, callback : BOOLEAN, remaining : Nat]
      /\ loading'.inProgress = (m > 0) /\ loading'.callback = loading.callback /\ loading'.remaining = m
  <2>1. loading \in [inProgress : BOOLEAN, callback : BOOLEAN, remaining : Nat]
    BY DEF ReferenceInv, ReferenceTypes
  <2>2. loading.remaining - 1 = m /\ m \in Nat
    BY <1>2
  <2>3. PICK b : b = (m > 0)
    OBVIOUS
  <2>4. loading' = [loading EXCEPT !.remaining = m, !.inProgress = b]
    BY <1>3, <2>2, <2>3
  <2>5. b \in BOOLEAN
    BY <2>3
  <2>6. /\ loading' \in [inProgress : BOOLEAN, callback : BOOLEAN, remaining : Nat]
        /\ loading'.inProgress = b /\ loading'.callback = loading.callback /\ loading'.remaining = m
    BY <2>1, <2>2, <2>4, <2>5
  <2> QED
    BY <2>3, <2>6
<1>5. PICK h, g, x : h = history /\ g = history' /\ x = IF l \in Tables THEN reference[l] ELSE {}
  OBVIOUS
<1>6. /\ h \in Histories /\ kept \in [Tables -> SUBSET Rows] /\ reference \in [Tables -> SUBSET Rows]
      /\ nextSid \in [Kinds -> Nat] /\ highest \in [Kinds -> Nat]
  BY <1>5 DEF ReferenceInv, ReferenceTypes
<1>7. g = Recorded(h, l, ok, last, x)
  BY <1>1, <1>5 DEF Reference!onDataLoaded, Reference!signalDataLoaded, Recorded
<1>8. last <=> (m = 0 /\ loading.callback)
  <2>1. loading.remaining - 1 = m /\ (m <= 0 <=> m = 0)
    BY <1>2
  <2>2. last = (m <= 0 /\ loading.callback)
    BY <1>1, <2>1
  <2>3. last \in BOOLEAN
    BY <2>2
  <2> QED
    BY <2>1, <2>2, <2>3
<1>9. h.started = 0 \/ ~last
  <2>1. loading.callback => h.started = 0
    BY <1>2, <1>5 DEF ReferenceInv, FirstLoad
  <2> QED
    BY <1>8, <2>1
<1>10. /\ g.given = h.given /\ g.loads = h.loads /\ g.changes = h.changes
       /\ g.started = (IF last THEN 1 ELSE h.started)
       /\ g.answered = h.answered \union {l} /\ g.failed = (IF ok THEN h.failed ELSE h.failed \union {l})
       /\ g.read = (IF l \in Tables /\ ok THEN [h.read EXCEPT ![l] = x] ELSE h.read)
       /\ g \in Histories
  <2>1. /\ h.given \in [Kinds -> SUBSET Nat] /\ h.read \in [Tables -> SUBSET Rows] /\ h.started \in {0, 1}
        /\ h.answered \subseteq Reference!Loaders /\ h.failed \subseteq Reference!Loaders
        /\ h.loads \in Nat /\ h.changes \in Nat
    BY <1>6 DEF Histories
  <2>2. /\ g.given = h.given /\ g.loads = h.loads /\ g.changes = h.changes
        /\ g.started = (IF last THEN h.started + 1 ELSE h.started)
        /\ g.answered = h.answered \union {l} /\ g.failed = (IF ok THEN h.failed ELSE h.failed \union {l})
        /\ g.read = (IF l \in Tables /\ ok THEN [h.read EXCEPT ![l] = x] ELSE h.read)
        /\ g = [given |-> g.given, read |-> g.read, started |-> g.started, answered |-> g.answered,
                failed |-> g.failed, loads |-> g.loads, changes |-> g.changes]
    BY <1>6, <1>7 DEF Recorded, Histories
  <2>3. g.started = (IF last THEN 1 ELSE h.started) /\ g.started \in {0, 1}
    BY <1>9, <2>1, <2>2
  <2>4. g.read \in [Tables -> SUBSET Rows]
    <3>1. l \in Tables => x \in SUBSET Rows
      BY <1>5, <1>6
    <3> QED
      BY <2>1, <2>2, <3>1
  <2>5. g.answered \subseteq Reference!Loaders /\ g.failed \subseteq Reference!Loaders
    BY <2>1, <2>2
  <2>6. g \in Histories
    BY <2>1, <2>2, <2>3, <2>4, <2>5 DEF Histories
  <2> QED
    BY <2>2, <2>3, <2>6
<1>11. /\ nextSid' \in [Kinds -> Nat]
       /\ \A k \in Kinds : nextSid'[k] = IF k = l THEN (IF ok THEN highest[k] + 1 ELSE 0) ELSE nextSid[k]
  BY <1>3, <1>6 DEF Reference!NextSid
<1>12. /\ kept' \in [Tables -> SUBSET Rows]
       /\ \A t \in Tables : t # l => kept'[t] = kept[t]
       /\ l \in Tables /\ ok => x \subseteq kept'[l] /\ (l = "words" => kept'[l] = x)
  <2>1. PICK r : r = IF ok /\ l \in Tables THEN reference[l] ELSE {}
    OBVIOUS
  <2>2. kept' = CASE l = "words" -> Reference!Words(r) [] l \in Kinds -> kept [] OTHER -> Reference!Merged(l, r)
    BY <2>1 DEF Reference!onDataLoaded
  <2>3. r \in SUBSET Rows /\ (l \in Tables /\ ok => r = x)
    BY <1>5, <1>6, <2>1
  <2>4. CASE l = "words"
    <3>1. kept' = [kept EXCEPT !["words"] = r]
      BY <2>2, <2>4 DEF Reference!Words, ReferenceAssumption
    <3> QED
      BY <1>6, <2>3, <2>4, <3>1
  <2>5. CASE l \in Kinds
    <3>1. kept' = kept /\ l \notin Tables
      BY <2>2, <2>5 DEF ReferenceAssumption
    <3> QED
      BY <1>6, <3>1
  <2>6. CASE l # "words" /\ l \notin Kinds
    <3>1. kept' = [kept EXCEPT ![l] = @ \union r]
      BY <2>2, <2>6 DEF Reference!Merged
    <3> QED
      BY <1>6, <2>3, <2>6, <3>1
  <2> QED
    BY <2>4, <2>5, <2>6
<1>13. ReferenceTypes'
  <2>1. underway' \subseteq Reference!Loaders
    BY <1>2, <1>3
  <2> QED
    BY <1>3, <1>4, <1>5, <1>10, <1>11, <1>12, <2>1 DEF ReferenceInv, ReferenceTypes
<1>14. WaitsFor'
  <2>1. (m > 0) <=> S # {}
    BY <1>2
  <2> QED
    BY <1>1, <1>3, <1>4, <2>1 DEF WaitsFor
<1>15. FirstLoad'
  <2>1. asked' = Kinds /\ g.loads # 0
    BY <1>2, <1>3, <1>5, <1>10 DEF ReferenceInv, FirstLoad
  <2>2. CASE loading.callback
    <3>1. /\ h.started = 0 /\ h.answered \union underway = Reference!Loaders
          /\ h.answered \intersect underway = {}
      BY <1>2, <1>5, <2>2 DEF ReferenceInv, FirstLoad
    <3>2. g.answered \union S = Reference!Loaders /\ g.answered \intersect S = {}
      BY <1>1, <1>2, <1>10, <3>1
    <3>3. CASE m = 0
      <4>1. g.started = 1 /\ g.answered = Reference!Loaders /\ S = {} /\ ~loading'.inProgress
        BY <1>2, <1>4, <1>8, <1>10, <2>2, <3>2, <3>3
      <4> QED
        BY <1>3, <1>5, <2>1, <4>1 DEF FirstLoad
    <3>4. CASE m # 0
      <4>1. g.started = 0 /\ loading'.inProgress /\ loading'.callback
        BY <1>2, <1>4, <1>8, <1>10, <2>2, <3>1, <3>4
      <4> QED
        BY <1>3, <1>5, <2>1, <3>2, <4>1 DEF FirstLoad
    <3> QED
      BY <3>3, <3>4
  <2>3. CASE ~loading.callback
    <3>1. h.started = 1 /\ h.answered = Reference!Loaders /\ underway \intersect Kinds = {}
      BY <1>2, <1>5, <2>3 DEF ReferenceInv, FirstLoad
    <3>2. g.started = 1 /\ g.answered = Reference!Loaders /\ S \intersect Kinds = {} /\ ~loading'.callback
      BY <1>1, <1>4, <1>8, <1>10, <2>3, <3>1
    <3> QED
      BY <1>3, <1>5, <2>1, <3>2 DEF FirstLoad
  <2> QED
    BY <2>2, <2>3
<1>16. SidsAhead'
  <2>1. h.started = 0 \/ l \notin Kinds
    BY <1>2, <1>5 DEF ReferenceInv, FirstLoad
  <2>2. g.started = 0 => \A k \in Kinds : g.given[k] = {}
    BY <1>5, <1>10 DEF ReferenceInv, SidsAhead
  <2>3. ASSUME NEW k \in Kinds, k \in g.answered, k \notin g.failed
        PROVE  nextSid'[k] > highest[k] /\ \A n \in g.given[k] : n < nextSid'[k]
    <3>1. CASE k = l
      <4>1. ok /\ h.started = 0 /\ g.given[k] = {}
        BY <1>5, <1>10, <2>1, <2>3, <3>1 DEF ReferenceInv, SidsAhead
      <4>2. highest[k] \in Nat /\ nextSid'[k] = highest[k] + 1
        BY <1>6, <1>11, <3>1, <4>1
      <4> QED
        BY <4>1, <4>2
    <3>2. CASE k # l
      <4>1. k \in h.answered /\ k \notin h.failed /\ nextSid'[k] = nextSid[k]
        BY <1>10, <1>11, <2>3, <3>2
      <4> QED
        BY <1>5, <1>10, <4>1 DEF ReferenceInv, SidsAhead
    <3> QED
      BY <3>1, <3>2
  <2> QED
    BY <1>3, <1>5, <2>2, <2>3 DEF SidsAhead
<1>17. RowsKept'
  <2> SUFFICES ASSUME NEW t \in Tables, t \notin g.failed
               PROVE  g.read[t] \subseteq kept'[t] /\ (t = "words" => kept'[t] = g.read[t])
    BY <1>5 DEF RowsKept
  <2>1. CASE t = l
    <3>1. ok /\ g.read[t] = x
      BY <1>6, <1>10, <2>1 DEF Histories
    <3> QED
      BY <1>12, <2>1, <3>1
  <2>2. CASE t # l
    <3>1. g.read[t] = h.read[t] /\ t \notin h.failed
      BY <1>6, <1>10, <2>2 DEF Histories
    <3> QED
      BY <1>5, <1>12, <2>2, <3>1 DEF ReferenceInv, RowsKept
  <2> QED
    BY <2>1, <2>2
<1> QED
  BY <1>13, <1>14, <1>15, <1>16, <1>17 DEF ReferenceInv

LEMMA getNextSidStep ==
  ASSUME ReferenceAssumption, ReferenceInv, NEW k \in Kinds, NEW ok \in BOOLEAN,
         Reference!getNextSid(k, ok)
  PROVE  ReferenceInv'
<1>1. PICK h, g, n : h = history /\ g = history' /\ n = nextSid[k]
  OBVIOUS
<1>2. /\ h \in Histories /\ nextSid \in [Kinds -> Nat] /\ highest \in [Kinds -> Nat] /\ n \in Nat
      /\ h.started # 0
  BY <1>1 DEF ReferenceInv, ReferenceTypes, Reference!getNextSid, Histories
<1>3. /\ nextSid' = [nextSid EXCEPT ![k] = n + 1]
      /\ highest' = IF ok /\ n > highest[k] THEN [highest EXCEPT ![k] = n] ELSE highest
      /\ g = [h EXCEPT !.given = [h.given EXCEPT ![k] = @ \union {n}]]
      /\ UNCHANGED <<loading, underway, asked, kept, reference>>
  BY <1>1, <1>2 DEF Reference!getNextSid, Histories
<1>4. /\ g.read = h.read /\ g.started = h.started /\ g.answered = h.answered /\ g.failed = h.failed
      /\ g.loads = h.loads /\ g.given = [h.given EXCEPT ![k] = @ \union {n}]
      /\ g \in Histories
  <2>1. h.given \in [Kinds -> SUBSET Nat]
    BY <1>2 DEF Histories
  <2>2. [h.given EXCEPT ![k] = @ \union {n}] \in [Kinds -> SUBSET Nat]
    BY <1>2, <2>1
  <2> QED
    BY <1>2, <1>3, <2>2 DEF Histories
<1>5. nextSid' \in [Kinds -> Nat] /\ highest' \in [Kinds -> Nat]
  BY <1>2, <1>3
<1>6. ReferenceTypes' /\ WaitsFor' /\ FirstLoad' /\ RowsKept'
  BY <1>1, <1>3, <1>4, <1>5 DEF ReferenceInv, ReferenceTypes, WaitsFor, FirstLoad, RowsKept
<1>7. SidsAhead'
  <2>1. ASSUME NEW j \in Kinds, j \in g.answered, j \notin g.failed
        PROVE  nextSid'[j] > highest'[j] /\ \A i \in g.given[j] : i < nextSid'[j]
    <3>1. nextSid[j] > highest[j] /\ \A i \in h.given[j] : i < nextSid[j]
      BY <1>1, <1>4, <2>1 DEF ReferenceInv, SidsAhead
    <3>2. h.given \in [Kinds -> SUBSET Nat] /\ nextSid[j] \in Nat /\ highest[j] \in Nat
      BY <1>2 DEF Histories
    <3>3. CASE j = k
      <4>1. nextSid'[j] = n + 1 /\ highest'[j] \in {n, highest[j]} /\ nextSid[j] = n
        BY <1>1, <1>2, <1>3, <3>3
      <4>2. g.given[j] = h.given[j] \union {n} /\ h.given[j] \subseteq Nat
        BY <1>4, <3>2, <3>3
      <4> QED
        BY <1>2, <3>1, <3>2, <4>1, <4>2
    <3>4. CASE j # k
      <4>1. nextSid'[j] = nextSid[j] /\ highest'[j] = highest[j] /\ g.given[j] = h.given[j]
        BY <1>2, <1>3, <1>4, <3>2, <3>4
      <4> QED
        BY <3>1, <4>1
    <3> QED
      BY <3>3, <3>4
  <2> QED
    BY <1>1, <1>2, <1>4, <2>1 DEF SidsAhead
<1> QED
  BY <1>6, <1>7 DEF ReferenceInv

LEMMA EditStep ==
  ASSUME ReferenceAssumption, ReferenceInv, NEW t \in Tables, NEW rows \in SUBSET Rows,
         Reference!Edit(t, rows)
  PROVE  ReferenceInv'
<1>1. PICK h, g : h = history /\ g = history'
  OBVIOUS
<1>2. h \in Histories /\ reference \in [Tables -> SUBSET Rows]
  BY <1>1 DEF ReferenceInv, ReferenceTypes
<1>3. /\ g = [h EXCEPT !.changes = @ + 1] /\ reference' = [reference EXCEPT ![t] = rows]
      /\ UNCHANGED <<loading, underway, asked, kept, nextSid, highest>>
  BY <1>1 DEF Reference!Edit
<1>4. /\ g \in Histories /\ g.given = h.given /\ g.read = h.read /\ g.started = h.started
      /\ g.answered = h.answered /\ g.failed = h.failed /\ g.loads = h.loads
  BY <1>2, <1>3 DEF Histories
<1>5. reference' \in [Tables -> SUBSET Rows]
  BY <1>2, <1>3
<1> QED
  BY <1>1, <1>3, <1>4, <1>5 DEF ReferenceInv, ReferenceTypes, WaitsFor, FirstLoad, SidsAhead, RowsKept

LEMMA ReferenceStarts ==
  ASSUME ReferenceAssumption, Reference!Init
  PROVE  ReferenceInv
<1>1. /\ loading.inProgress = FALSE /\ underway = {} /\ asked = {}
      /\ loading \in [inProgress : BOOLEAN, callback : BOOLEAN, remaining : Nat]
  BY DEF Reference!Init
<1>2. /\ kept \in [Tables -> SUBSET Rows] /\ reference \in [Tables -> SUBSET Rows]
      /\ nextSid \in [Kinds -> Nat] /\ highest \in [Kinds -> Nat]
      /\ \A t \in Tables : kept[t] = {}
  BY DEF Reference!Init
<1>3. PICK h : h = history
  OBVIOUS
<1>4. /\ h \in Histories /\ h.loads = 0 /\ h.started = 0 /\ h.answered = {}
      /\ h.given = [k \in Kinds |-> {}] /\ h.read = [t \in Tables |-> {}]
  BY <1>3 DEF Reference!Init, Histories
<1>5. ReferenceTypes
  BY <1>1, <1>2, <1>3, <1>4 DEF ReferenceTypes
<1>6. WaitsFor /\ FirstLoad /\ SidsAhead
  BY <1>1, <1>3, <1>4 DEF WaitsFor, FirstLoad, SidsAhead
<1>7. RowsKept
  BY <1>2, <1>3, <1>4 DEF RowsKept
<1> QED
  BY <1>5, <1>6, <1>7 DEF ReferenceInv

LEMMA ReferenceSteps ==
  ASSUME ReferenceAssumption, ReferenceInv, [Reference!Next]_Reference!vars
  PROVE  ReferenceInv'
<1>1. CASE Reference!runServers
  <2>1. TRUE \in BOOLEAN /\ (TRUE <=> history.loads = 0) /\ Reference!load(TRUE)
    BY <1>1 DEF Reference!runServers
  <2> QED
    BY <2>1, loadStep
<1>2. CASE Reference!commandReload
  <2>1. history.loads \in Nat
    BY DEF ReferenceInv, ReferenceTypes, Histories
  <2>2. history.loads > 0 /\ Reference!load(FALSE)
    BY <1>2 DEF Reference!commandReload
  <2>3. FALSE \in BOOLEAN /\ (FALSE <=> history.loads = 0)
    BY <2>1, <2>2
  <2> QED
    BY <2>2, <2>3, loadStep
<1>3. CASE \E l \in Reference!Loaders, ok \in BOOLEAN : Reference!onDataLoaded(l, ok)
  BY <1>3, onDataLoadedStep
<1>4. CASE \E k \in Kinds, ok \in BOOLEAN : Reference!getNextSid(k, ok)
  BY <1>4, getNextSidStep
<1>5. CASE \E t \in Tables, rows \in SUBSET Rows : Reference!Edit(t, rows)
  BY <1>5, EditStep
<1>6. CASE UNCHANGED Reference!vars
  BY <1>6 DEF Reference!vars, ReferenceInv, ReferenceTypes, WaitsFor, FirstLoad, SidsAhead, RowsKept
<1> QED
  BY <1>1, <1>2, <1>3, <1>4, <1>5, <1>6 DEF Reference!Next

LEMMA ReferenceInvKept ==
  ASSUME ReferenceAssumption, ReferenceInv
  PROVE  Reference!ReferenceKept
<1>1. PICK h : h = history
  OBVIOUS
<1>2. /\ h \in Histories /\ loading.inProgress \in BOOLEAN
      /\ nextSid \in [Kinds -> Nat] /\ highest \in [Kinds -> Nat]
  BY <1>1 DEF ReferenceInv, ReferenceTypes
<1>3. /\ loading.inProgress = (underway # {})
      /\ loading.inProgress => loading.remaining = Reference!Cardinality(underway)
  BY <1>2, ReferenceCounts DEF ReferenceInv, WaitsFor
<1>4. h.started \in {0, 1} /\ (h.started = 1 <=> h.answered = Reference!Loaders)
  <2>1. h.started \in {0, 1} /\ Reference!Loaders # {}
    BY <1>2 DEF Histories, ReferenceAssumption, Reference!Loaders
  <2>2. CASE h.loads = 0
    BY <1>1, <2>1, <2>2 DEF ReferenceInv, FirstLoad
  <2>3. CASE h.loads # 0 /\ loading.callback /\ loading.inProgress
    <3>1. /\ h.started = 0 /\ h.answered \union underway = Reference!Loaders
          /\ h.answered \intersect underway = {} /\ underway # {}
      BY <1>1, <1>3, <2>3 DEF ReferenceInv, FirstLoad
    <3> QED
      BY <3>1
  <2>4. CASE h.loads # 0 /\ ~(loading.callback /\ loading.inProgress)
    BY <1>1, <2>4 DEF ReferenceInv, FirstLoad
  <2> QED
    BY <2>1, <2>2, <2>3, <2>4
<1>5. ASSUME NEW k \in Kinds \ h.failed, h.started > 0
      PROVE  nextSid[k] > highest[k] /\ \A n \in h.given[k] : n < nextSid[k]
  <2>1. k \in h.answered
    BY <1>4, <1>5 DEF Reference!Loaders
  <2> QED
    BY <1>1, <1>5, <2>1 DEF ReferenceInv, SidsAhead
<1>6. h.started <= 1
  BY <1>4
<1>7. \A t \in Tables \ h.failed : h.read[t] \subseteq kept[t] /\ (t = "words" => kept[t] = h.read[t])
  BY <1>1 DEF ReferenceInv, RowsKept
<1> QED
  BY <1>1, <1>3, <1>4, <1>5, <1>6, <1>7 DEF Reference!ReferenceKept

\* What was read is kept: a load of ReferenceDataMgr waits for exactly the loaders
\* that are under way; the servers are started once, when every loader has answered,
\* if only that its query failed; where it did not, no sid is given out twice or is one
\* of an object stored before, and a table has the rows that were read last.
THEOREM ReferenceKeptCorrect ==
  ASSUME ReferenceAssumption
  PROVE  Reference!Spec => []Reference!ReferenceKept
<1>1. Reference!Init => ReferenceInv
  BY ReferenceStarts
<1>2. ReferenceInv /\ [Reference!Next]_Reference!vars => ReferenceInv'
  BY ReferenceSteps
<1>3. ReferenceInv => Reference!ReferenceKept
  BY ReferenceInvKept
<1> QED
  BY <1>1, <1>2, <1>3, PTL DEF Reference!Spec

-----------------------------------------------------------------------------
(* What is said between the game and IRC                                    *)

CONSTANTS Users, Speakers, ChatHandles, NamesServer, MaxSaid, MaxGames, MaxLinks

VARIABLES character, irc, whispers, said, toIrc, around, counts

Chat == INSTANCE ChatGateway WITH
  Players <- Speakers, Handles <- ChatHandles, game <- character, replies <- whispers,
  got <- said, told <- toIrc, world <- around, ghost <- counts

\* The messages 1 .. n without the lost ones, each once and in order.
EachOnce(all, n, lost) ==
  /\ all \in Seq(Nat) /\ n \in Nat
  /\ lost \subseteq 1 .. n
  /\ \A i, j \in 1 .. Len(all) : i < j => all[i] < all[j]
  /\ \A i \in 1 .. Len(all) : all[i] \in 1 .. n /\ all[i] \notin lost
  /\ \A m \in 1 .. n : m \in lost \/ \E i \in 1 .. Len(all) : all[i] = m

ChatTypes ==
  /\ character = [state |-> character.state, queue |-> character.queue, names |-> character.names,
                  gateway |-> character.gateway]
  /\ character.state \in {"out", "playing", "closing"}
  /\ character.queue \in Seq(Nat)
  /\ character.names = [h \in ChatHandles |-> character.names[h]]
  /\ around = [h \in ChatHandles |-> around[h]]
  /\ irc = [state |-> irc.state, joined |-> irc.joined, timer |-> irc.timer, buffer |-> irc.buffer]
  /\ counts = [said |-> counts.said, lost |-> counts.lost, games |-> counts.games, links |-> counts.links,
               dead |-> counts.dead]
  /\ said \in Seq(Nat)

\* What was accepted is said, or waits for the next session.
AcceptedSaid == EachOnce(said \o character.queue, counts.said, counts.lost)

\* Nothing waits while there is a session.
Flushed == character.state # "out" => character.queue = << >>

\* The name of a handle is that of the player who has it.
KnownAs == \A h \in ChatHandles : around[h].kind = "player" => character.names[h] = around[h].name

ChatInv == ChatTypes /\ AcceptedSaid /\ Flushed /\ KnownAs /\ Chat!SpeakerNamed /\ Chat!LinkReturns

\* One more message that is said or waits.
LEMMA OneMore ==
  ASSUME NEW all, NEW n, NEW lost, EachOnce(all, n, lost)
  PROVE  EachOnce(Append(all, n + 1), n + 1, lost)
<1>1. PICK new : new = Append(all, n + 1)
  OBVIOUS
<1>2. all \in Seq(Nat) /\ n \in Nat /\ Len(all) \in Nat
  BY DEF EachOnce
<1>3. new \in Seq(Nat) /\ Len(new) = Len(all) + 1 /\ new[Len(all) + 1] = n + 1
      /\ \A i \in 1 .. Len(all) : new[i] = all[i]
  BY <1>1, <1>2
<1>4. \A i \in 1 .. Len(all) : all[i] \in 1 .. n /\ all[i] \notin lost
  BY DEF EachOnce
<1>5. ASSUME NEW i \in 1 .. Len(new), NEW j \in 1 .. Len(new), i < j PROVE new[i] < new[j]
  <2>1. i \in 1 .. Len(all) /\ new[i] = all[i] /\ all[i] \in 1 .. n
    BY <1>2, <1>3, <1>4, <1>5
  <2>2. CASE j = Len(all) + 1
    BY <1>2, <1>3, <2>1, <2>2
  <2>3. CASE j # Len(all) + 1
    <3>1. j \in 1 .. Len(all) /\ new[j] = all[j]
      BY <1>2, <1>3, <2>3
    <3> QED
      BY <1>5, <2>1, <3>1 DEF EachOnce
  <2> QED
    BY <2>2, <2>3
<1>6. ASSUME NEW i \in 1 .. Len(new) PROVE new[i] \in 1 .. n + 1 /\ new[i] \notin lost
  <2>1. CASE i = Len(all) + 1
    BY <1>2, <1>3, <2>1 DEF EachOnce
  <2>2. CASE i # Len(all) + 1
    <3>1. i \in 1 .. Len(all) /\ new[i] = all[i]
      BY <1>2, <1>3, <2>2
    <3> QED
      BY <1>2, <1>4, <3>1
  <2> QED
    BY <2>1, <2>2
<1>7. ASSUME NEW m \in 1 .. n + 1 PROVE m \in lost \/ \E i \in 1 .. Len(new) : new[i] = m
  <2>1. CASE m = n + 1
    BY <1>2, <1>3, <2>1
  <2>2. CASE m # n + 1
    <3>1. m \in 1 .. n
      BY <1>2, <2>2
    <3>2. m \in lost \/ \E i \in 1 .. Len(all) : all[i] = m
      BY <3>1 DEF EachOnce
    <3> QED
      BY <1>2, <1>3, <3>2
  <2> QED
    BY <2>1, <2>2
<1>8. lost \subseteq 1 .. n + 1
  BY <1>2 DEF EachOnce
<1> QED
  BY <1>1, <1>2, <1>3, <1>5, <1>6, <1>7, <1>8 DEF EachOnce

\* One more message that is lost.
LEMMA OneLost ==
  ASSUME NEW all, NEW n, NEW lost, EachOnce(all, n, lost)
  PROVE  EachOnce(all, n + 1, lost \union {n + 1})
<1>1. all \in Seq(Nat) /\ n \in Nat /\ Len(all) \in Nat
  BY DEF EachOnce
<1>2. lost \union {n + 1} \subseteq 1 .. n + 1
  BY <1>1 DEF EachOnce
<1>3. ASSUME NEW i \in 1 .. Len(all) PROVE all[i] \in 1 .. n + 1 /\ all[i] \notin lost \union {n + 1}
  <2>1. all[i] \in 1 .. n /\ all[i] \notin lost
    BY DEF EachOnce
  <2> QED
    BY <1>1, <2>1
<1>4. ASSUME NEW m \in 1 .. n + 1 PROVE m \in lost \union {n + 1} \/ \E i \in 1 .. Len(all) : all[i] = m
  <2>1. m = n + 1 \/ m \in 1 .. n
    BY <1>1
  <2> QED
    BY <2>1 DEF EachOnce
<1> QED
  BY <1>1, <1>2, <1>3, <1>4 DEF EachOnce

LEMMA ChatStarts == Chat!Init => ChatInv
<1> SUFFICES ASSUME Chat!Init PROVE ChatInv
  OBVIOUS
<1>1. PICK b \in BOOLEAN :
        character = [state |-> "out", queue |-> << >>, names |-> [h \in ChatHandles |-> "Unknown"], gateway |-> b]
  BY DEF Chat!Init
<1>2. /\ irc = [state |-> "none", joined |-> FALSE, timer |-> FALSE, buffer |-> << >>]
      /\ said = << >> /\ toIrc = Chat!Nothing /\ around = [h \in ChatHandles |-> Chat!Nobody]
      /\ counts = [said |-> 0, lost |-> {}, games |-> 0, links |-> 0, dead |-> FALSE]
  BY DEF Chat!Init
<1>3. ChatTypes
  BY <1>1, <1>2 DEF ChatTypes
<1>4. AcceptedSaid
  <2>1. PICK all : all = said \o character.queue
    OBVIOUS
  <2>2. all \in Seq(Nat) /\ Len(all) = 0
    BY <1>1, <1>2, <2>1
  <2>3. EachOnce(all, 0, {})
    BY <2>2 DEF EachOnce
  <2> QED
    BY <1>2, <2>1, <2>3 DEF AcceptedSaid
<1>5. Flushed /\ KnownAs
  BY <1>1, <1>2 DEF Flushed, KnownAs, Chat!Nobody
<1>6. Chat!SpeakerNamed /\ Chat!LinkReturns
  BY <1>2 DEF Chat!SpeakerNamed, Chat!LinkReturns, Chat!Nothing
<1> QED
  BY <1>3, <1>4, <1>5, <1>6 DEF ChatInv

\* What a step keeps that accepts no message and says none.
LEMMA NothingSaid ==
  ASSUME ChatInv, said' = said, character'.queue = character.queue,
         character'.state # "out" => character.state # "out",
         counts'.said = counts.said, counts'.lost = counts.lost
  PROVE  AcceptedSaid' /\ Flushed'
BY DEF ChatInv, AcceptedSaid, Flushed

\* The steps of the IRC client.
LEMMA LinkStep ==
  ASSUME ChatInv, Chat!setGameServerName \/ Chat!onIrcConnected \/ Chat!onIrcUnconnected \/ Chat!onReconnect
  PROVE  ChatInv'
<1>1. UNCHANGED <<character, said, around>> /\ toIrc' = Chat!Nothing
  BY DEF Chat!setGameServerName, Chat!onIrcConnected, Chat!onIrcUnconnected, Chat!onReconnect
<1>2. /\ irc' = [state |-> irc'.state, joined |-> irc'.joined, timer |-> irc'.timer, buffer |-> irc'.buffer]
      /\ irc'.state = "unconnected" => irc'.timer
  BY DEF Chat!setGameServerName, Chat!onIrcConnected, Chat!onIrcUnconnected, Chat!onReconnect, ChatInv, ChatTypes
<1>3. counts' = [said |-> counts.said, lost |-> counts.lost, games |-> counts'.games, links |-> counts'.links,
                 dead |-> counts'.dead]
  BY DEF Chat!setGameServerName, Chat!onIrcConnected, Chat!onIrcUnconnected, Chat!onReconnect, ChatInv, ChatTypes
<1>4. ChatTypes'
  BY <1>1, <1>2, <1>3 DEF ChatInv, ChatTypes
<1>5. AcceptedSaid' /\ Flushed'
  BY <1>1, <1>3, NothingSaid
<1>6. KnownAs' /\ Chat!SpeakerNamed' /\ Chat!LinkReturns'
  BY <1>1, <1>2 DEF ChatInv, KnownAs, Chat!SpeakerNamed, Chat!LinkReturns, Chat!Nothing
<1> QED
  BY <1>4, <1>5, <1>6 DEF ChatInv

\* A message for IRC without a name in the game.
LEMMA UnnamedMessage ==
  ASSUME NEW target, NEW name, NEW by, Chat!sendMessage(target, name, by), by.kind = "player" => name = by.name
  PROVE  Chat!SpeakerNamed'
<1>1. CASE irc.state = "connected"
  <2>1. toIrc' = [to |-> target, name |-> name, by |-> by]
    BY <1>1 DEF Chat!sendMessage
  <2> QED
    BY <2>1 DEF Chat!SpeakerNamed
<1>2. CASE irc.state # "connected"
  BY <1>2 DEF Chat!sendMessage, Chat!SpeakerNamed, Chat!Nothing
<1> QED
  BY <1>1, <1>2

\* sendMessage does not touch what is counted of the messages from IRC.
LEMMA CountsKept ==
  ASSUME ChatInv, NEW target, NEW name, NEW by, Chat!sendMessage(target, name, by)
  PROVE  counts' = [said |-> counts.said, lost |-> counts.lost, games |-> counts.games, links |-> counts.links,
                    dead |-> counts'.dead]
BY DEF Chat!sendMessage, ChatInv, ChatTypes

LEMMA onCharacterLoginResultStep ==
  ASSUME ChatInv, Chat!onCharacterLoginResult
  PROVE  ChatInv'
<1>1. /\ character.state = "out" /\ UNCHANGED <<irc, whispers, around>>
      /\ said' = said \o character.queue
      /\ character' = [character EXCEPT !.state = "playing", !.queue = << >>]
      /\ counts' = [counts EXCEPT !.games = @ + 1, !.dead = irc.state = "none"]
  BY DEF Chat!onCharacterLoginResult
<1>2. character' = [state |-> "playing", queue |-> << >>, names |-> character.names, gateway |-> character.gateway]
  BY <1>1 DEF ChatInv, ChatTypes
<1>3. counts' = [said |-> counts.said, lost |-> counts.lost, games |-> counts'.games, links |-> counts.links,
                 dead |-> counts'.dead]
  BY <1>1 DEF ChatInv, ChatTypes
<1>4. PICK a, b : a = said /\ b = character.queue
  OBVIOUS
<1>5. a \in Seq(Nat) /\ b \in Seq(Nat)
  BY <1>4 DEF ChatInv, ChatTypes
<1>6. a \o b \in Seq(Nat) /\ (a \o b) \o << >> = a \o b
  BY <1>5
<1>7. ChatTypes'
  <2>1. said' \in Seq(Nat)
    BY <1>1, <1>4, <1>6
  <2>2. character'.state = "playing" /\ character'.queue \in Seq(Nat) /\ character'.names = character.names
    BY <1>2
  <2> QED
    BY <1>1, <1>2, <1>3, <2>1, <2>2 DEF ChatInv, ChatTypes
<1>8. AcceptedSaid'
  <2>1. said' \o character'.queue = said \o character.queue
    BY <1>1, <1>2, <1>4, <1>6
  <2> QED
    BY <1>3, <2>1 DEF ChatInv, AcceptedSaid
<1>9. Flushed' /\ KnownAs'
  BY <1>1, <1>2 DEF ChatInv, Flushed, KnownAs
<1>10. Chat!SpeakerNamed'
  <2>1. toIrc' = (IF irc.state = "connected" THEN [to |-> "", name |-> "action", by |-> Chat!Nobody] ELSE Chat!Nothing)
    BY DEF Chat!onCharacterLoginResult
  <2>2. toIrc'.by.kind = "none"
    BY <2>1 DEF Chat!Nobody, Chat!Nothing
  <2> QED
    BY <2>2 DEF Chat!SpeakerNamed
<1>11. Chat!LinkReturns'
  BY <1>1 DEF ChatInv, Chat!LinkReturns
<1> QED
  BY <1>7, <1>8, <1>9, <1>10, <1>11 DEF ChatInv

LEMMA onGGTimerExpiredStep ==
  ASSUME ChatInv, Chat!onGGTimerExpired
  PROVE  ChatInv'
<1>1. /\ character.state = "playing" /\ character' = [character EXCEPT !.state = "closing"]
      /\ UNCHANGED <<irc, whispers, said, around, counts>> /\ toIrc' = Chat!Nothing
  BY DEF Chat!onGGTimerExpired
<1>2. character' = [state |-> "closing", queue |-> character.queue, names |-> character.names, gateway |-> character.gateway]
  BY <1>1 DEF ChatInv, ChatTypes
<1>3. ChatTypes'
  BY <1>1, <1>2 DEF ChatInv, ChatTypes
<1>4. AcceptedSaid' /\ Flushed'
  BY <1>1, <1>2, NothingSaid
<1>5. KnownAs' /\ Chat!SpeakerNamed' /\ Chat!LinkReturns'
  BY <1>1, <1>2 DEF ChatInv, KnownAs, Chat!SpeakerNamed, Chat!LinkReturns, Chat!Nothing
<1> QED
  BY <1>3, <1>4, <1>5 DEF ChatInv

LEMMA ChatDisconnectedStep ==
  ASSUME ChatInv, Chat!onDisconnected
  PROVE  ChatInv'
<1>1. /\ character' = [character EXCEPT !.state = "out"] /\ around' = [h \in ChatHandles |-> Chat!Nobody]
      /\ Chat!sendMessage("", "action", Chat!Nobody) /\ UNCHANGED <<irc, whispers, said>>
  BY DEF Chat!onDisconnected
<1>2. character' = [state |-> "out", queue |-> character.queue, names |-> character.names, gateway |-> character.gateway]
  BY <1>1 DEF ChatInv, ChatTypes
<1>3. counts' = [said |-> counts.said, lost |-> counts.lost, games |-> counts.games, links |-> counts.links,
                 dead |-> counts'.dead]
  BY <1>1, CountsKept
<1>4. ChatTypes'
  BY <1>1, <1>2, <1>3 DEF ChatInv, ChatTypes
<1>8. /\ said' = said /\ character'.queue = character.queue /\ counts'.said = counts.said /\ counts'.lost = counts.lost
      /\ character'.state = "out"
  <2>1. character'.queue = character.queue /\ character'.state = "out"
    BY <1>2
  <2>2. counts'.said = counts.said /\ counts'.lost = counts.lost
    BY <1>3
  <2> QED
    BY <1>1, <2>1, <2>2
<1>5. AcceptedSaid' /\ Flushed'
  BY <1>8, NothingSaid
<1>6. Chat!SpeakerNamed'
  BY <1>1, UnnamedMessage DEF Chat!Nobody
<1>7. KnownAs' /\ Chat!LinkReturns'
  BY <1>1 DEF ChatInv, KnownAs, Chat!LinkReturns, Chat!Nobody
<1> QED
  BY <1>4, <1>5, <1>6, <1>7 DEF ChatInv

LEMMA ChatEnterStep ==
  ASSUME ChatInv, NEW h \in ChatHandles, Chat!onEnter(h)
  PROVE  ChatInv'
<1>1. PICK kind \in {"player", "other"}, p \in Speakers :
        /\ around' = [around EXCEPT ![h] = [kind |-> kind, name |-> p]]
        /\ character' = IF kind = "player" THEN [character EXCEPT !.names[h] = p] ELSE character
  BY DEF Chat!onEnter
<1>2. UNCHANGED <<irc, whispers, said, counts>> /\ toIrc' = Chat!Nothing
  BY DEF Chat!onEnter
<1>3. /\ character'.state = character.state /\ character'.queue = character.queue
      /\ character' = [state |-> character'.state, queue |-> character'.queue, names |-> character'.names,
                       gateway |-> character'.gateway]
  BY <1>1 DEF ChatInv, ChatTypes
<1>4. character'.names = IF kind = "player" THEN [character.names EXCEPT ![h] = p] ELSE character.names
  BY <1>1 DEF ChatInv, ChatTypes
<1>5. character'.names = [g \in ChatHandles |-> character'.names[g]] /\ around' = [g \in ChatHandles |-> around'[g]]
  BY <1>1, <1>4 DEF ChatInv, ChatTypes
<1>6. ChatTypes'
  BY <1>2, <1>3, <1>5 DEF ChatInv, ChatTypes
<1>7. AcceptedSaid' /\ Flushed'
  BY <1>2, <1>3, NothingSaid
<1>8. KnownAs'
  <2> SUFFICES ASSUME NEW g \in ChatHandles, around'[g].kind = "player" PROVE character'.names[g] = around'[g].name
    BY DEF KnownAs
  <2>1. CASE g = h
    <3>1. around'[g] = [kind |-> kind, name |-> p]
      BY <1>1, <2>1 DEF ChatInv, ChatTypes
    <3>2. kind = "player"
      BY <3>1
    <3>3. character'.names[g] = p
      BY <1>4, <2>1, <3>2 DEF ChatInv, ChatTypes
    <3> QED
      BY <3>1, <3>3
  <2>2. CASE g # h
    <3>1. around'[g] = around[g] /\ character'.names[g] = character.names[g]
      BY <1>1, <1>4, <2>2 DEF ChatInv, ChatTypes
    <3> QED
      BY <3>1 DEF ChatInv, KnownAs
  <2> QED
    BY <2>1, <2>2
<1>9. Chat!SpeakerNamed' /\ Chat!LinkReturns'
  BY <1>2 DEF ChatInv, Chat!SpeakerNamed, Chat!LinkReturns, Chat!Nothing
<1> QED
  BY <1>6, <1>7, <1>8, <1>9 DEF ChatInv

\* onChatLocal and onChat.
LEMMA ToldStep ==
  ASSUME ChatInv, (\E h \in ChatHandles : Chat!onChatLocal(h)) \/ (\E p \in Speakers : Chat!onChat(p))
  PROVE  ChatInv'
<1>1. PICK target, name, by : /\ Chat!sendMessage(target, name, by)
                              /\ by.kind = "player" => name = by.name
  <2>1. CASE \E h \in ChatHandles : Chat!onChatLocal(h)
    <3>1. PICK h \in ChatHandles : Chat!sendMessage("", character.names[h], around[h])
      BY <2>1 DEF Chat!onChatLocal
    <3>2. around[h].kind = "player" => character.names[h] = around[h].name
      BY DEF ChatInv, KnownAs
    <3> QED
      BY <3>1, <3>2
  <2>2. CASE \E p \in Speakers : Chat!onChat(p)
    <3>1. PICK p, target : Chat!sendMessage(target, p, [kind |-> "player", name |-> p])
      BY <2>2 DEF Chat!onChat
    <3> QED
      BY <3>1
  <2> QED
    BY <2>1, <2>2
<1>2. UNCHANGED <<character, irc, said, around>>
  BY DEF Chat!onChatLocal, Chat!onChat
<1>3. counts' = [said |-> counts.said, lost |-> counts.lost, games |-> counts.games, links |-> counts.links,
                 dead |-> counts'.dead]
  BY <1>1, CountsKept
<1>4. ChatTypes'
  BY <1>2, <1>3 DEF ChatInv, ChatTypes
<1>5. AcceptedSaid' /\ Flushed'
  BY <1>2, <1>3, NothingSaid
<1>6. Chat!SpeakerNamed'
  BY <1>1, UnnamedMessage
<1>7. KnownAs' /\ Chat!LinkReturns'
  BY <1>2 DEF ChatInv, KnownAs, Chat!LinkReturns
<1> QED
  BY <1>4, <1>5, <1>6, <1>7 DEF ChatInv

\* The message that sendMsgToGS takes.
LEMMA sendMsgToGSStep ==
  ASSUME ChatInv, Chat!sendMsgToGS
  PROVE  /\ character' = [state |-> character.state, queue |-> character'.queue, names |-> character.names,
                          gateway |-> character.gateway]
         /\ character'.queue \in Seq(Nat) /\ said' \in Seq(Nat)
         /\ counts' = [said |-> counts'.said, lost |-> counts'.lost, games |-> counts'.games, links |-> counts'.links,
                       dead |-> counts'.dead]
         /\ AcceptedSaid' /\ Flushed'
<1>1. PICK a, b, n : a = said /\ b = character.queue /\ n = counts.said
  OBVIOUS
<1>2. a \in Seq(Nat) /\ b \in Seq(Nat) /\ n \in Nat /\ EachOnce(a \o b, n, counts.lost)
  BY <1>1 DEF ChatInv, ChatTypes, AcceptedSaid, EachOnce
<1>3. Append(a, n + 1) \in Seq(Nat) /\ Append(b, n + 1) \in Seq(Nat) /\ a \o Append(b, n + 1) = Append(a \o b, n + 1)
  BY <1>2
<1>4. b = << >> => Append(a, n + 1) \o b = Append(a \o b, n + 1)
  <2> SUFFICES ASSUME b = << >> PROVE Append(a, n + 1) \o b = Append(a \o b, n + 1)
    OBVIOUS
  <2>1. a \o << >> = a /\ Append(a, n + 1) \o << >> = Append(a, n + 1)
    BY <1>2, <1>3
  <2> QED
    BY <2>1
<1>5. EachOnce(Append(a \o b, n + 1), n + 1, counts.lost) /\ EachOnce(a \o b, n + 1, counts.lost \union {n + 1})
  BY <1>2, OneMore, OneLost
<1>6. CASE ~character.gateway
  <2>1. UNCHANGED <<character, said, counts>>
    BY <1>6 DEF Chat!sendMsgToGS
  <2>2. AcceptedSaid' /\ Flushed'
    BY <2>1 DEF ChatInv, AcceptedSaid, Flushed
  <2> QED
    BY <2>1, <2>2 DEF ChatInv, ChatTypes
<1>7. CASE character.gateway
  <2>1. /\ character' = IF character.state = "out" THEN [character EXCEPT !.queue = Append(@, counts.said + 1)] ELSE character
        /\ said' = IF character.state = "playing" THEN Append(said, counts.said + 1) ELSE said
        /\ counts' = [counts EXCEPT !.said = @ + 1,
                        !.lost = IF character.state = "closing" THEN @ \union {counts.said + 1} ELSE @]
    BY <1>7 DEF Chat!sendMsgToGS, Chat!Queued, Chat!Message
  <2>2. /\ counts' = [said |-> n + 1, lost |-> counts'.lost, games |-> counts.games, links |-> counts.links,
                      dead |-> counts.dead]
        /\ counts'.lost = IF character.state = "closing" THEN counts.lost \union {n + 1} ELSE counts.lost
    BY <1>1, <2>1 DEF ChatInv, ChatTypes
  <2>3. CASE character.state = "out"
    <3>1. character' = [state |-> character.state, queue |-> Append(b, n + 1), names |-> character.names,
                        gateway |-> character.gateway]
      BY <1>1, <2>1, <2>3 DEF ChatInv, ChatTypes
    <3>2. character'.queue = Append(b, n + 1) /\ said' = a /\ counts'.lost = counts.lost /\ counts'.said = n + 1
      BY <1>1, <2>1, <2>2, <2>3, <3>1
    <3>3. AcceptedSaid'
      BY <1>3, <1>5, <3>2 DEF AcceptedSaid
    <3>4. Flushed'
      BY <2>3, <3>1 DEF Flushed
    <3> QED
      BY <1>2, <1>3, <2>2, <3>1, <3>2, <3>3, <3>4
  <2>4. CASE character.state = "playing"
    <3>1. character' = character /\ said' = Append(a, n + 1) /\ counts'.lost = counts.lost /\ counts'.said = n + 1
      BY <1>1, <2>1, <2>2, <2>4
    <3>2. b = << >>
      BY <1>1, <2>4 DEF ChatInv, Flushed
    <3>3. AcceptedSaid'
      BY <1>1, <1>4, <1>5, <3>1, <3>2 DEF AcceptedSaid
    <3>4. Flushed'
      BY <3>1 DEF ChatInv, Flushed
    <3> QED
      BY <1>3, <2>2, <3>1, <3>3, <3>4 DEF ChatInv, ChatTypes
  <2>5. CASE character.state = "closing"
    <3>1. character' = character /\ said' = a /\ counts'.lost = counts.lost \union {n + 1} /\ counts'.said = n + 1
      BY <1>1, <2>1, <2>2, <2>5
    <3>3. AcceptedSaid'
      BY <1>1, <1>5, <3>1 DEF AcceptedSaid
    <3>4. Flushed'
      BY <3>1 DEF ChatInv, Flushed
    <3> QED
      BY <1>2, <2>2, <3>1, <3>3, <3>4 DEF ChatInv, ChatTypes
  <2> QED
    BY <2>3, <2>4, <2>5 DEF ChatInv, ChatTypes
<1> QED
  BY <1>6, <1>7

\* What a line from IRC may be.
LEMMA onIrcLineStep ==
  ASSUME ChatInv, NEW l, Chat!onIrcLine(l), around' = around, irc.state = "connected"
  PROVE  ChatInv'
<1>1. /\ irc' = [state |-> irc.state, joined |-> irc'.joined, timer |-> irc.timer, buffer |-> << >>]
  BY DEF Chat!onIrcLine, ChatInv, ChatTypes
<1>2. KnownAs' /\ character'.names = character.names /\ Chat!SpeakerNamed' /\ ChatTypes' /\ AcceptedSaid' /\ Flushed'
  <2>1. CASE UNCHANGED <<character, said, counts>> /\ toIrc' = Chat!Nothing
    <3>1. AcceptedSaid' /\ Flushed' /\ KnownAs'
      BY <2>1 DEF ChatInv, AcceptedSaid, Flushed, KnownAs
    <3>2. Chat!SpeakerNamed'
      BY <2>1 DEF Chat!SpeakerNamed, Chat!Nothing
    <3> QED
      BY <1>1, <2>1, <3>1, <3>2 DEF ChatInv, ChatTypes
  <2>2. CASE (\E target : Chat!sendMessage(target, "usage", Chat!Nobody)) /\ UNCHANGED <<character, said>>
    <3>1. PICK target : Chat!sendMessage(target, "usage", Chat!Nobody)
      BY <2>2
    <3>2. counts' = [said |-> counts.said, lost |-> counts.lost, games |-> counts.games, links |-> counts.links,
                     dead |-> counts'.dead]
      BY <3>1, CountsKept
    <3>3. AcceptedSaid' /\ Flushed' /\ KnownAs'
      BY <2>2, <3>2 DEF ChatInv, AcceptedSaid, Flushed, KnownAs
    <3>4. Chat!SpeakerNamed'
      BY <3>1, UnnamedMessage DEF Chat!Nobody
    <3> QED
      BY <1>1, <2>2, <3>2, <3>3, <3>4 DEF ChatInv, ChatTypes
  <2>3. CASE Chat!sendMsgToGS /\ toIrc' = Chat!Nothing
    <3>1. /\ character' = [state |-> character.state, queue |-> character'.queue, names |-> character.names,
                           gateway |-> character.gateway]
          /\ character'.queue \in Seq(Nat) /\ said' \in Seq(Nat)
          /\ counts' = [said |-> counts'.said, lost |-> counts'.lost, games |-> counts'.games, links |-> counts'.links,
                        dead |-> counts'.dead]
          /\ AcceptedSaid' /\ Flushed'
      BY <2>3, sendMsgToGSStep
    <3>2. KnownAs' /\ character'.names = character.names /\ character'.state = character.state
      BY <3>1 DEF ChatInv, KnownAs
    <3>3. Chat!SpeakerNamed'
      BY <2>3 DEF Chat!SpeakerNamed, Chat!Nothing
    <3> QED
      BY <1>1, <3>1, <3>2, <3>3 DEF ChatInv, ChatTypes
  <2> QED
    BY <2>1, <2>2, <2>3 DEF Chat!onIrcLine
<1>3. Chat!LinkReturns'
  BY <1>1 DEF Chat!LinkReturns
<1> QED
  BY <1>2, <1>3 DEF ChatInv

LEMMA onDataReceivedStep ==
  ASSUME ChatInv, Chat!onDataReceived
  PROVE  ChatInv'
<1>1. CASE \E l \in Chat!Lines : /\ irc.buffer = << >> /\ irc' = [irc EXCEPT !.buffer = <<l>>]
                                 /\ UNCHANGED <<character, whispers, said, counts>> /\ toIrc' = Chat!Nothing
  <2>1. PICK l : irc' = [irc EXCEPT !.buffer = <<l>>]
    BY <1>1
  <2>2. irc' = [state |-> irc.state, joined |-> irc.joined, timer |-> irc.timer, buffer |-> <<l>>]
    BY <2>1 DEF ChatInv, ChatTypes
  <2>3. UNCHANGED <<character, said, around, counts>> /\ toIrc' = Chat!Nothing
    BY <1>1 DEF Chat!onDataReceived
  <2>4. ChatTypes' /\ AcceptedSaid' /\ Flushed' /\ KnownAs'
    BY <2>2, <2>3 DEF ChatInv, ChatTypes, AcceptedSaid, Flushed, KnownAs
  <2>5. Chat!SpeakerNamed' /\ Chat!LinkReturns'
    BY <2>2, <2>3 DEF ChatInv, Chat!SpeakerNamed, Chat!LinkReturns, Chat!Nothing
  <2> QED
    BY <2>4, <2>5 DEF ChatInv
<1>2. CASE Chat!onIrcLine(irc.buffer[1])
  BY <1>2, onIrcLineStep DEF Chat!onDataReceived
<1> QED
  BY <1>1, <1>2 DEF Chat!onDataReceived

LEMMA ChatStep == ChatInv /\ [Chat!Next]_Chat!vars => ChatInv'
<1> SUFFICES ASSUME ChatInv, [Chat!Next]_Chat!vars PROVE ChatInv'
  OBVIOUS
<1>1. CASE Chat!setGameServerName \/ Chat!onIrcConnected \/ Chat!onIrcUnconnected \/ Chat!onReconnect
  BY <1>1, LinkStep
<1>2. CASE Chat!onDataReceived
  BY <1>2, onDataReceivedStep
<1>3. CASE Chat!onCharacterLoginResult
  BY <1>3, onCharacterLoginResultStep
<1>4. CASE Chat!onGGTimerExpired
  BY <1>4, onGGTimerExpiredStep
<1>5. CASE Chat!onDisconnected
  BY <1>5, ChatDisconnectedStep
<1>6. CASE \E h \in ChatHandles : Chat!onEnter(h)
  BY <1>6, ChatEnterStep
<1>7. CASE (\E h \in ChatHandles : Chat!onChatLocal(h)) \/ (\E p \in Speakers : Chat!onChat(p))
  BY <1>7, ToldStep
<1>8. CASE UNCHANGED Chat!vars
  BY <1>8 DEF Chat!vars, ChatInv, ChatTypes, AcceptedSaid, Flushed, KnownAs, Chat!SpeakerNamed, Chat!LinkReturns
<1> QED
  BY <1>1, <1>2, <1>3, <1>4, <1>5, <1>6, <1>7, <1>8 DEF Chat!Next

\* ChatKept, with SaidOnce in other words (EachOnce): every message from IRC that was
\* accepted, and did not come while a session closed, is said in the game once and in the
\* order in which it came, or waits for the next session; a player that speaks is told of
\* under its own name, whatever handles are given again; and an IRC client without a
\* stream that lives has a timer that connects it.
THEOREM ChatKeptCorrect == Chat!Spec => [](AcceptedSaid /\ Chat!SpeakerNamed /\ Chat!LinkReturns)
<1>1. Chat!Init => ChatInv
  BY ChatStarts
<1>2. ChatInv /\ [Chat!Next]_Chat!vars => ChatInv'
  BY ChatStep
<1>3. ChatInv => AcceptedSaid /\ Chat!SpeakerNamed /\ Chat!LinkReturns
  BY DEF ChatInv
<1> QED
  BY <1>1, <1>2, <1>3, PTL DEF Chat!Spec
=============================================================================
