---------------------------- MODULE MCClusterBus ----------------------------
(***************************************************************************)
(* Small clusters for ClusterBus: five nodes, of which a scenario uses     *)
(* those that are up or known, and three slots.                            *)
(***************************************************************************)
EXTENDS ClusterBus

Five == 1..5
Names == 6..7

Alone == [n \in Five |-> {n}]
Masters == [n \in Five |-> n]
OwnersOf(m1, m2, m3) == [j \in 1..3 |-> CASE j = 1 -> m1 [] j = 2 -> m2 [] j = 3 -> m3]
Clusters(groups) == [n \in Five |-> UNION {g \in groups : n \in g} \cup {n}]

Quiet == [name |-> "Quiet", failed |-> {}, up |-> {1, 2, 3}, knows |-> Clusters({{1, 2, 3}}), master |-> Masters,
          owner |-> OwnersOf(1, 2, 3), net |-> 1, stream |-> 0, slow |-> 0, expiries |-> 0, crashes |-> {},
          restarts |-> {}, cuts |-> 0, todo |-> {}]

\* Three masters; one crashes and may come back, one is slow.
Detect == [Quiet EXCEPT !.name = "Detect", !.net = 1, !.slow = 1, !.crashes = {1}, !.expiries = 1]
Return == [Quiet EXCEPT !.name = "Return", !.up = {2}, !.failed = {1}, !.knows = Clusters({{1, 2}}),
             !.owner = OwnersOf(1, 2, 2), !.restarts = {<<1, 1>>},
             !.cuts = 1]

\* A third node is met, and forgotten.
Join == [Quiet EXCEPT !.name = "Join", !.knows = Clusters({{1, 2}}), !.owner = OwnersOf(1, 2, 2),
           !.todo = {<<"meet", 1, 3>>, <<"forget", 1, 3>>, <<"forget", 2, 3>>}]

\* A slave becomes a node of its own, and a slave again.
Leave == [Quiet EXCEPT !.name = "Leave", !.up = {1, 2}, !.knows = Clusters({{1, 2}}),
            !.master = [Masters EXCEPT ![2] = 1], !.owner = OwnersOf(1, 1, 1),
            !.todo = {<<"reset", 2, 0>>, <<"meet", 2, 1>>, <<"replicate", 2, 1>>}]

\* Two clusters; the node of one starts again where a node of the other was.
Foreign == [Quiet EXCEPT !.name = "Foreign", !.knows = Clusters({{1, 2}, {3, 4}}), !.up = {1, 2, 3},
              !.owner = OwnersOf(1, 2, 3), !.crashes = {2, 3}, !.restarts = {<<3, 2>>}]

\* A slave takes over from its master, at the second attempt by force.
Handover == [Quiet EXCEPT !.name = "Handover", !.up = {1, 2}, !.knows = Clusters({{1, 2}}),
               !.master = [Masters EXCEPT ![2] = 1], !.owner = OwnersOf(1, 1, 1), !.stream = 2,
               
               !.todo = {<<"failover", 2, 0>>, <<"failover", 2, 1>>}]

\* Two slaves of a master are told to take over.
Rivals == [Quiet EXCEPT !.name = "Rivals", !.master = [Masters EXCEPT ![2] = 1, ![3] = 1],
             !.owner = OwnersOf(1, 1, 1), !.stream = 1, !.net = 0,
             !.todo = {<<"failover", 2, 0>>, <<"failover", 3, 0>>}]

\* The only slave of a master has failed, another master has two.
Migrate == [Quiet EXCEPT !.name = "Migrate", !.up = 1..4, !.failed = {5}, !.knows = Clusters({1..5}),
              !.master = [Masters EXCEPT ![3] = 1, ![4] = 1, ![5] = 2], !.owner = OwnersOf(1, 2, 2)]

Scenarios == {Detect, Return, Join, Leave, Foreign, Handover, Rivals, Migrate}
=============================================================================
