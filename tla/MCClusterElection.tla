------------------------- MODULE MCClusterElection -------------------------
(* Small clusters of ClusterElection for TLC: three masters, the first of  *)
(* which fails or is to be failed over.                                    *)
EXTENDS ClusterElection, TLC

CONSTANTS m1, m2, m3, s1, s2

\* The master is dead; two election epochs.
Dead == [down |-> {m1}, forces |-> {FALSE}, lateAcks |-> FALSE, epochs |-> 3, crashes |-> 0]

\* The master lives, its slaves are told to fail over, and a node crashes.
Crash == [down |-> {}, forces |-> {TRUE}, lateAcks |-> FALSE, epochs |-> 2, crashes |-> 1]

Timely == {Dead, Crash}

Symmetry == Permutations({m2, m3}) \cup Permutations({s1, s2})
=============================================================================
