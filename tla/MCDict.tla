------------------------------- MODULE MCDict -------------------------------
(***************************************************************************)
(* An instance of Dict and DictWalk for TLC: every operation in any order, *)
(* alone, between the calls of a scan, or between those of an iterator.    *)
(***************************************************************************)
EXTENDS DictWalk, TLC

CONSTANTS k1, k2, k3, v1, i1, sc

\* Three keys that collide in a table of one and of two buckets in different
\* combinations: 0 and 2 share a bucket of the table of size 2.
Hash3 == (k1 :> 0) @@ (k2 :> 1) @@ (k3 :> 2)

\* The last reply matters to RefinesMap; no step reads it.  With a walk it is
\* left out of what tells two states apart.
View == <<d, val, dict_can_resize, walkVars, IF walk = "none" THEN ret ELSE NULL>>
=============================================================================
