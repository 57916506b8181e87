------------------------------- MODULE KVMap --------------------------------
(***************************************************************************)
(* What a dictionary promises its callers: a map from keys to values, with *)
(* the result each call returns.  NULL stands for "no entry".              *)
(***************************************************************************)
CONSTANTS Key, Val, NULL

VARIABLES map, ret

mapVars == <<map, ret>>

Present == {k \in Key : map[k] # NULL}

Answer(op, k, res) == ret' = [op |-> op, key |-> k, res |-> res]

\* Add only what is absent.
Add(k, v) ==
  IF k \in Present
    THEN UNCHANGED map /\ Answer("add", k, "err")
    ELSE map' = [map EXCEPT ![k] = v] /\ Answer("add", k, "ok")

\* Add or overwrite, and say which.
Replace(k, v) ==
  /\ map' = [map EXCEPT ![k] = v]
  /\ Answer("replace", k, IF k \in Present THEN "updated" ELSE "added")

Delete(k) ==
  /\ map' = [map EXCEPT ![k] = NULL]
  /\ Answer("delete", k, IF k \in Present THEN "ok" ELSE "err")

Find(k) == UNCHANGED map /\ Answer("find", k, map[k])

\* Any key that is present; NULL only from an empty map.
Random ==
  /\ UNCHANGED map
  /\ \/ Present = {} /\ Answer("random", NULL, NULL)
     \/ \E k \in Present : Answer("random", NULL, k)

Clear == map' = [k \in Key |-> NULL] /\ Answer("empty", NULL, NULL)

Init ==
  /\ map = [k \in Key |-> NULL]
  /\ ret = [op |-> "empty", key |-> NULL, res |-> NULL]

Next ==
  \/ \E k \in Key : Delete(k) \/ Find(k)
  \/ \E k \in Key, v \in Val : Add(k, v) \/ Replace(k, v)
  \/ Random
  \/ Clear

Spec == Init /\ [][Next]_mapVars

=============================================================================
