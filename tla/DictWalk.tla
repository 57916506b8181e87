------------------------------ MODULE DictWalk ------------------------------
(***************************************************************************)
(* The two ways to walk a dictionary that changes between the calls:       *)
(*   - dictScan, the stateless cursor behind SCAN, SSCAN, HSCAN and ZSCAN; *)
(*   - safe iterators (dictGetSafeIterator, dictNext,                      *)
(*     dictReleaseIterator), whose users may add keys and delete the entry *)
(*     they were given.                                                    *)
(* A behaviour has walks of one kind, or none.                             *)
(*                                                                         *)
(* The order of a chain is abstracted: an iterator at some bucket holds    *)
(* the entry it returned, the nextEntry it saved, and the set of entries   *)
(* linked after that one.  New entries are linked at the head of a chain,  *)
(* so they never join that set.                                            *)
(***************************************************************************)
EXTENDS Dict, FiniteSetsExt

CONSTANTS
  Width,       \* bits of an unsigned long
  Iterators,   \* the iterators that may be open at the same time
  Scanner      \* the user of dictScan

ASSUME WidthAssumption ==
  Width \in Nat /\ \A s \in Sizes : s <= 2^Width /\ \E i \in 0..Width : s = 2^i

VARIABLES
  walk,        \* "none", "scan" or "iter": the walks of this behaviour
  scan,        \* "idle", "running" or "done"
  cursor,      \* the cursor the user of dictScan holds
  iter,        \* the dictIterator of each iterator
  must,        \* of each walk: keys with an entry since it began
  seen         \* of each walk: keys whose entry it has returned

walkVars == <<walk, scan, cursor, iter, must, seen>>

allVars == <<vars, walkVars>>

Cursors == 0..(2^Width - 1)

Walkers == Iterators \cup {Scanner}

-----------------------------------------------------------------------------
(* The cursor of dictScan *)

\* Reverse the bits of v.
rev(v) ==
  MapThenSumSet(LAMBDA i : ((v \div 2^i) % 2) * 2^(Width - 1 - i), 0..(Width - 1))

\* v |= ~mask; v = rev(v); v++; v = rev(v).
NextCursor(v, size) == rev((rev((v % size) + (2^Width - size)) + 1) % 2^Width)

Smaller(dd) == IF dd.ht[0].size > dd.ht[1].size THEN dd.ht[1] ELSE dd.ht[0]

Larger(dd) == IF dd.ht[0].size > dd.ht[1].size THEN dd.ht[0] ELSE dd.ht[1]

\* v & (m0 ^ m1): the bits the larger mask has on top of the smaller one.
ExtraBits(v, small, large) == (v % large) \div small

\* The do-while over the larger table from cursor v: the buckets it emits and
\* the cursor it leaves.
ExpansionLoop(small, large, v) ==
  LET loop[w \in Cursors] ==
        LET next == NextCursor(w, large)
        IN  IF ExtraBits(next, small, large) = 0
              THEN [buckets |-> {w % large}, cursor |-> next]
              ELSE [buckets |-> {w % large} \cup loop[next].buckets,
                    cursor  |-> loop[next].cursor]
  IN  loop[v]

\* Mutant: while rehashing, only the bucket of the cursor itself is emitted
\* from the larger table.
CallNoExpansion(dd, v) ==
  LET t0 == Smaller(dd)
      t1 == Larger(dd)
  IN  IF dictSize(dd) = 0 THEN [keys |-> {}, cursor |-> 0]
      ELSE IF dictIsRehashing(dd)
        THEN [keys   |-> t0.table[v % t0.size] \cup t1.table[v % t1.size],
              cursor |-> NextCursor(v, t0.size)]
        ELSE [keys   |-> dd.ht[0].table[v % dd.ht[0].size],
              cursor |-> NextCursor(v, dd.ht[0].size)]

\* One call: the keys it emits and the cursor it returns.
Call(dd, v) ==
  LET t0   == Smaller(dd)
      t1   == Larger(dd)
      loop == ExpansionLoop(t0.size, t1.size, v)
  IN  IF dictSize(dd) = 0 THEN [keys |-> {}, cursor |-> 0]
      ELSE IF dictIsRehashing(dd)
        THEN [keys   |-> t0.table[v % t0.size] \cup UNION {t1.table[b] : b \in loop.buckets},
              cursor |-> loop.cursor]
        ELSE [keys   |-> dd.ht[0].table[v % dd.ht[0].size],
              cursor |-> NextCursor(v, dd.ht[0].size)]

-----------------------------------------------------------------------------
(* Iterator records *)

\* dictGetIterator: index -1, table 0, no entry.  The position of an iterator
\* counts the buckets of ht[0] and then those of ht[1].
Fresh == [state |-> "fresh", pos |-> -1, entry |-> NULL, nextEntry |-> NULL, rest |-> {}]

Closed == [Fresh EXCEPT !.state = "closed"]

Open == {i \in Iterators : iter[i].state \in {"running", "done"}}

\* Mutant: the iterator stops at the end of ht[0].
LastSlotOld(dd) == dd.ht[0].size - 1

\* The last bucket dictNext looks at.
LastSlot(dd) ==
  IF dictIsRehashing(dd) THEN dictSlots(dd) - 1 ELSE dd.ht[0].size - 1

\* The buckets ahead of pos that hold entries.
SlotsAhead(dd, pos) == {p \in (pos + 1)..LastSlot(dd) : ChainAt(dd, p) # {}}

\* The iterator at entry e of bucket p with the entries of after still to come.
At(p, e, after) ==
  {[state |-> "running", pos |-> p, entry |-> e, nextEntry |-> n, rest |-> after \ {n}] :
     n \in IF after = {} THEN {NULL} ELSE after}

\* Where dictNext may leave iterator it of dictionary dd: at the saved
\* nextEntry, else at the first entry of the next occupied bucket, else at
\* the end.
Advance(dd, it) ==
  LET ahead == SlotsAhead(dd, it.pos)
      slot  == CHOOSE p \in ahead : \A q \in ahead : p <= q
  IN  IF it.nextEntry # NULL THEN At(it.pos, it.nextEntry, it.rest)
      ELSE IF ahead = {}
        THEN {[Fresh EXCEPT !.state = "done", !.pos = LastSlot(dd) + 1]}
        ELSE UNION {At(slot, e, ChainAt(dd, slot) \ {e}) : e \in ChainAt(dd, slot)}

-----------------------------------------------------------------------------
(* Operations *)

\* A call with cursor 0 starts an iteration; one that returns 0 ends it.
dictScan ==
  LET first == scan # "running"
      call  == Call(d, IF first THEN 0 ELSE cursor)
  IN  /\ walk = "scan"
      /\ seen' = [seen EXCEPT ![Scanner] = (IF first THEN {} ELSE @) \cup call.keys]
      /\ must' = [must EXCEPT ![Scanner] = IF first THEN Keys(d) ELSE @]
      /\ cursor' = call.cursor
      /\ scan' = IF call.cursor = 0 THEN "done" ELSE "running"
      /\ UNCHANGED <<vars, walk, iter>>

dictGetSafeIterator(i) ==
  /\ walk = "iter"
  /\ iter[i].state = "closed"
  /\ iter' = [iter EXCEPT ![i] = Fresh]
  /\ UNCHANGED <<vars, walk, scan, cursor, must, seen>>

dictNext(i) ==
  /\ iter[i].state \in {"fresh", "running"}
  /\ LET first == iter[i].state = "fresh"
         pause == d.pauserehash + IF first THEN 1 ELSE 0
     IN  /\ d' = DictOf(d.ht[0], d.ht[1], d.rehashidx, pause)
         /\ must' = IF first THEN [must EXCEPT ![i] = Keys(d)] ELSE must
  /\ \E it \in Advance(d, iter[i]) :
       /\ iter' = [iter EXCEPT ![i] = it]
       /\ seen' = [seen EXCEPT ![i] = IF it.entry = NULL THEN @ ELSE @ \cup {it.entry}]
  /\ UNCHANGED <<val, dict_can_resize, ret, walk, scan, cursor>>

\* An iterator that was never advanced did not pause the rehash.
dictReleaseIterator(i) ==
  /\ iter[i].state # "closed"
  /\ d' = IF i \in Open
            THEN DictOf(d.ht[0], d.ht[1], d.rehashidx, d.pauserehash - 1)
            ELSE d
  /\ iter' = [iter EXCEPT ![i] = Closed]
  /\ must' = [must EXCEPT ![i] = {}]
  /\ seen' = [seen EXCEPT ![i] = {}]
  /\ UNCHANGED <<val, dict_can_resize, ret, walk, scan, cursor>>

\* "The iterator user may delete the entry we are returning": no other, and
\* with two iterations under way only an entry both of them have returned.
\* Between two dictScan calls anything may go.
MayDelete(k) == \A i \in Open : iter[i].entry = k

\* The freed entry leaves the chains the iterators are walking.
DeleteWhileWalking(k) ==
  /\ walk # "none"
  /\ MayDelete(k)
  /\ dictDelete(k)
  /\ iter' = [i \in Iterators |-> [iter[i] EXCEPT !.rest = @ \ {k}]]
  /\ must' = [w \in Walkers |-> must[w] \ {k}]
  /\ seen' = [w \in Walkers |-> seen[w] \ {k}]
  /\ UNCHANGED <<walk, scan, cursor>>

\* Operations that leave the entries of the iterators alone.  (dictFind and
\* dictGetRandomKey change nothing while the rehash is paused.)
AddWhileWalking ==
  /\ walk # "none"
  /\ \/ \E k \in Key, v \in Val, allowed \in BOOLEAN : dictAdd(k, v, allowed)
     \/ \E n \in ExpandHints : dictExpand(n)
  /\ UNCHANGED walkVars

\* What the cron does, and FLUSHDB, in events without an iteration.
BetweenIterations ==
  /\ walk # "none" /\ Open = {}
  /\ \/ dictResize \/ dictRehashMilliseconds \/ updateDictResizePolicy
     \/ dictEmpty
  /\ must' = [w \in Walkers |-> must[w] \cap Keys(d')]
  /\ UNCHANGED <<walk, scan, cursor, iter, seen>>

WithoutWalk == walk = "none" /\ Next /\ UNCHANGED walkVars

WalkInit ==
  /\ Init
  /\ walk \in {"none", "scan", "iter"}
  /\ scan = "idle" /\ cursor = 0
  /\ iter = [i \in Iterators |-> Closed]
  /\ must = [w \in Walkers |-> {}]
  /\ seen = [w \in Walkers |-> {}]

WalkNext ==
  \/ dictScan
  \/ \E i \in Iterators :
       dictGetSafeIterator(i) \/ dictNext(i) \/ dictReleaseIterator(i)
  \/ \E k \in Key : DeleteWhileWalking(k)
  \/ AddWhileWalking
  \/ BetweenIterations
  \/ WithoutWalk

WalkSpec == WalkInit /\ [][WalkNext]_allVars

FairWalkSpec == WalkSpec /\ Fairness

-----------------------------------------------------------------------------
(* Properties *)

\* The guarantee of the comment above dictScan: every element present from the
\* start to the end of the iteration is returned, across any sequence of
\* resizes and rehash steps between the calls.
ScanComplete == scan = "done" => must[Scanner] \subseteq seen[Scanner]

\* An iteration that reached its end has returned every entry that was there
\* from its first dictNext on, although insertions may have started a rehash
\* under it.
AllReturned ==
  \A i \in Iterators : iter[i].state = "done" => must[i] \subseteq seen[i]

\* Neither way to walk through a table (dictScan, dictNext) misses an element
\* that stays in it.
WalksMissNothing == ScanComplete /\ AllReturned

=============================================================================
