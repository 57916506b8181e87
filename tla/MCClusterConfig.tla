-------------------------- MODULE MCClusterConfig --------------------------
(* Small clusters of ClusterConfig for TLC. *)
EXTENDS ClusterConfig

Nodes3 == 1 .. 3
Slots2 == 1 .. 2

Start(master, epoch, owner, commands, ops, max, lossy) ==
  [master |-> master, epoch |-> epoch, owner |-> owner, commands |-> commands,
   ops |-> ops, net |-> max, lossy |-> lossy]

ThirdIsSlave == [n \in Nodes3 |-> IF n = 3 THEN 1 ELSE None]
NoSlaves == [n \in Nodes3 |-> None]
SecondIsOlder == [n \in Nodes3 |-> IF n = 2 THEN 1 ELSE 2]
AllCollide == [n \in Nodes3 |-> 0]
FirstHasBoth == [j \in Slots2 |-> 1]
FirstHasOne == [j \in Slots2 |-> IF j = 1 THEN 1 ELSE None]

\* Two masters and a slave of the first, which takes over, or a slot moves; a
\* packet may be overtaken by the next one, or lost.
Overtaken == Start(ThirdIsSlave, SecondIsOlder, FirstHasBoth, {"takeover", "setslot"}, 1, 3, TRUE)

\* The takeover while a slot moves, with links that deliver.
Settles == Start(ThirdIsSlave, SecondIsOlder, FirstHasBoth, {"takeover", "setslot"}, 2, 1, FALSE)

\* A new cluster of three masters whose epochs all collide.
New == Start(NoSlaves, AllCollide, FirstHasOne, {"bumpepoch"}, 1, 1, FALSE)

Clusters == {Overtaken, Settles, New}
=============================================================================
