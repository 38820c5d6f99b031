--------------------------- MODULE AccountRegistry ---------------------------
(***************************************************************************)
(* What the auth server promises about accounts: every account is at one   *)
(* place, it enters a game only on the server that was selected for it,    *)
(* and it never changes server without having been released.               *)
(***************************************************************************)
CONSTANTS
  Ids,      \* accounts
  Clients,  \* client sessions
  Idx,      \* game servers
  Null

VARIABLE place

Free == [at |-> "free", by |-> Null]
Lobby(c) == [at |-> "lobby", by |-> c]
Selected(g) == [at |-> "selected", by |-> g]
InGame(g) == [at |-> "game", by |-> g]

Places ==
  {Free} \cup {Lobby(c) : c \in Clients} \cup {Selected(g) : g \in Idx}
         \cup {InGame(g) : g \in Idx}

\* The accounts a game server answers for.
On(g) == {i \in Ids : place[i] \in {Selected(g), InGame(g)}}

Init == place = [i \in Ids |-> Free]

\* A session authenticates one account, and only one at a time.
Login(i, c) ==
  /\ place[i] = Free
  /\ \A j \in Ids : place[j] # Lobby(c)
  /\ place' = [place EXCEPT ![i] = Lobby(c)]

Select(i, g) ==
  /\ \E c \in Clients : place[i] = Lobby(c)
  /\ place' = [place EXCEPT ![i] = Selected(g)]

Enter(i, g) ==
  /\ place[i] = Selected(g)
  /\ place' = [place EXCEPT ![i] = InGame(g)]

Leave(i) == place' = [place EXCEPT ![i] = Free]

\* A game server goes away with all its accounts.
ServerLeaves(g) == place' = [i \in Ids |-> IF i \in On(g) THEN Free ELSE place[i]]

\* A game server says which accounts are in game on it.  An account that is
\* somewhere else stays there.
Synchronize(g, P) ==
  /\ \A i \in P : place[i] = Free \/ i \in On(g)
  /\ place' = [i \in Ids |-> IF i \in P THEN InGame(g)
                             ELSE IF i \in On(g) THEN Free ELSE place[i]]

Next ==
  \/ \E i \in Ids, c \in Clients : Login(i, c)
  \/ \E i \in Ids, g \in Idx : Select(i, g) \/ Enter(i, g)
  \/ \E i \in Ids : Leave(i)
  \/ \E g \in Idx : ServerLeaves(g) \/ \E P \in SUBSET Ids : Synchronize(g, P)

Spec == Init /\ [][Next]_place

=============================================================================
