---------------------------- MODULE MCDbQueries ----------------------------
\* Small instances of DbQueries for TLC: every job reads rows by one query.
EXTENDS DbQueries

ReadQuery == [j \in Jobs |-> "read"]

ReadMode == [read |-> "rows"]

OneInput == [j \in Jobs |-> 1]
=============================================================================
