------------------------- MODULE MCReconnectCluster -------------------------
\* Small instances of ReconnectCluster for TLC.
EXTENDS ReconnectCluster

CONSTANTS n1, n2, n3, i1, i2, i3, g1, x1, v1

OneAccount == {<<n1, i1>>}

ThreeAccounts == {<<n1, i1>>, <<n2, i2>>, <<n3, i3>>}

\* The packets of the last step are consumed in the step itself.
Lasting == <<cd, byName, servers, gs, cs, as, game, netVars, gameVars, bounds>>

Symmetric ==
  {p @@ q @@ r : p \in Permutations(Sessions), q \in Permutations(Clients),
                 r \in Permutations(Slots)}

Renamed(q) ==
  LET n == <<n1, n2, n3>>
      i == <<i1, i2, i3>>
  IN  (n1 :> n[q[1]]) @@ (n2 :> n[q[2]]) @@ (n3 :> n[q[3]]) @@
      (i1 :> i[q[1]]) @@ (i2 :> i[q[2]]) @@ (i3 :> i[q[3]])

SymmetricAccounts ==
  {Renamed(q) @@ r : q \in Permutations(1 .. 3), r \in Permutations(Sessions)}

OneIdx == (g1 :> x1)

OneInfo == (g1 :> v1)
=============================================================================
