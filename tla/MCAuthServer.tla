---------------------------- MODULE MCAuthServer ----------------------------
(* Instances of AuthServer for TLC.                                         *)
EXTENDS AuthServer, TLC

CONSTANTS n1, i1

OneAccount == {<<n1, i1>>}

Symmetric == Permutations(Clients) \cup Permutations(Sessions)

=============================================================================
