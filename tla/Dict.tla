-------------------------------- MODULE Dict --------------------------------
(***************************************************************************)
(* The hash table of dict.c: two tables, chained buckets, and a rehash     *)
(* that moves the entries from ht[0] to ht[1] a few buckets at a time,     *)
(* piggybacked on the ordinary operations and on serverCron.               *)
(*                                                                         *)
(* A chain is the set of the keys whose entries are linked in the bucket:  *)
(* the order of a chain is the order of insertion and no operation of this *)
(* module depends on it.  The value field of an entry is val[key].  The    *)
(* hash function is the constant Hash; a table of size s holds a key in    *)
(* bucket Hash[key] % s, which is what "& sizemask" computes because every *)
(* size is a power of two.                                                 *)
(***************************************************************************)
EXTENDS Integers, FiniteSets

CONSTANTS
  Key,           \* the keys
  Val,           \* the values
  NULL,          \* no value, no entry
  Hash,          \* Hash[k]: what type->hashFunction returns for k
  Sizes,         \* the table sizes _dictNextPower can return
  InitialSize,   \* DICT_HT_INITIAL_SIZE (4 in dict.h)
  EmptyVisits,   \* empty buckets visited per rehashed bucket (10 in dict.c)
  CronBuckets,   \* buckets per dictRehash call of serverCron (100 in dict.c)
  ForceRatio,    \* dict_force_resize_ratio (5 in dict.c)
  MinFill,       \* HASHTABLE_MIN_FILL (10 in server.h)
  ExpandHints,   \* sizes that callers pass to dictExpand
  MaxPause       \* bound: how many iterators are open at a time

ASSUME KeyAssumption == IsFiniteSet(Key) /\ NULL \notin Key
ASSUME ValAssumption == NULL \notin Val
ASSUME HashAssumption == Hash \in [Key -> Nat]
ASSUME SizesAssumption ==
  /\ Sizes \in SUBSET (Nat \ {0})
  /\ \A n \in ExpandHints \cup 0..(Cardinality(Key) + 1) :
        \E s \in Sizes : n <= s
ASSUME ParamAssumption ==
  /\ InitialSize \in Sizes
  /\ EmptyVisits \in Nat \ {0}
  /\ CronBuckets \in Nat \ {0}
  /\ ForceRatio \in Nat
  /\ MinFill \in Nat
  /\ ExpandHints \in SUBSET Nat
  /\ MaxPause \in Nat

VARIABLES
  d,                \* struct dict: ht[0], ht[1], rehashidx, pauserehash
  val,              \* the value field of the entry of each key
  dict_can_resize,  \* the global switch of dictEnableResize/DisableResize
  ret               \* the last call and what it returned to its caller

vars == <<d, val, dict_can_resize, ret>>

-----------------------------------------------------------------------------
(* Tables *)

\* _dictReset: no bucket array.
EmptyTable == [size |-> 0, table |-> [i \in {} |-> {}], used |-> 0]

\* A freshly allocated table of s buckets.
NewTable(s) == [size |-> s, table |-> [i \in 0..(s-1) |-> {}], used |-> 0]

\* A struct dict with the two tables h0 and h1, rehashidx r, pauserehash p.
DictOf(h0, h1, r, p) ==
  [ht |-> [t \in {0, 1} |-> IF t = 0 THEN h0 ELSE h1],
   rehashidx |-> r, pauserehash |-> p]

\* _dictInit, and what dictEmpty leaves.
EmptyDict == DictOf(EmptyTable, EmptyTable, -1, 0)

Buckets(h) == 0..(h.size - 1)

KeysIn(h) == UNION {h.table[i] : i \in Buckets(h)}

\* The keys that have an entry in one of the two tables.
Keys(dd) == KeysIn(dd.ht[0]) \cup KeysIn(dd.ht[1])

dictIsRehashing(dd) == dd.rehashidx # -1

dictSize(dd) == dd.ht[0].used + dd.ht[1].used

dictSlots(dd) == dd.ht[0].size + dd.ht[1].size

Chained(h, k) == k \in h.table[Hash[k] % h.size]

\* The search loop of dictFind, _dictKeyIndex and dictGenericDelete: the
\* bucket of table 0, then the bucket of table 1 if a rehash is under way.
Lookup(dd, k) ==
  \/ Chained(dd.ht[0], k)
  \/ dictIsRehashing(dd) /\ Chained(dd.ht[1], k)

-----------------------------------------------------------------------------
(* Rehashing *)

Occupied(h, a, b) == {i \in a..(b-1) : h.table[i] # {}}

\* Where the loop of dictRehash(d, n) stops: after n occupied buckets, after
\* n * EmptyVisits empty ones, or as soon as nothing is left to move.
StopsAt(dd, n, p) ==
  LET h == dd.ht[0]
      r == dd.rehashidx
  IN  \/ Cardinality(Occupied(h, r, p)) = n
      \/ (p - r) - Cardinality(Occupied(h, r, p)) = n * EmptyVisits
      \/ Occupied(h, p, h.size) = {}

RehashStop(dd, n) ==
  CHOOSE p \in dd.rehashidx..dd.ht[0].size :
    /\ StopsAt(dd, n, p)
    /\ \A q \in dd.rehashidx..dd.ht[0].size : StopsAt(dd, n, q) => p <= q

\* The keys chained in the buckets a..b-1.
KeysBetween(h, a, b) == UNION {h.table[i] : i \in a..(b-1)}

\* Mutant: used is not decremented.
DropUncounted(h, gone) ==
  [size  |-> h.size,
   table |-> [i \in Buckets(h) |-> h.table[i] \ gone],
   used  |-> h.used]

\* Table h without the entries of the keys in gone.
Drop(h, gone) ==
  [size  |-> h.size,
   table |-> [i \in Buckets(h) |-> h.table[i] \ gone],
   used  |-> h.used - Cardinality(gone)]

\* Table h with an entry for each key in new, in the bucket of its hash.
Link(h, new) ==
  [size  |-> h.size,
   table |-> [i \in Buckets(h) |->
                h.table[i] \cup {k \in new : Hash[k] % h.size = i}],
   used  |-> h.used + Cardinality(new)]

\* Relink every entry of the old table's buckets up to stop in the new table.
MoveBuckets(dd, stop) ==
  LET moved == KeysBetween(dd.ht[0], dd.rehashidx, stop)
  IN  DictOf(Drop(dd.ht[0], moved), Link(dd.ht[1], moved), stop, dd.pauserehash)

\* The new table takes the place of the old one.
SwapTables(dd) == DictOf(dd.ht[1], EmptyTable, -1, dd.pauserehash)

\* Mutant: the old table is given up with one entry left in it.
dictRehashEndsEarly(dd, n) ==
  LET moved == MoveBuckets(dd, RehashStop(dd, n))
  IN  IF ~dictIsRehashing(dd) THEN dd
      ELSE IF moved.ht[0].used <= 1 THEN SwapTables(moved) ELSE moved

dictRehash(dd, n) ==
  LET moved == MoveBuckets(dd, RehashStop(dd, n))
  IN  IF ~dictIsRehashing(dd) THEN dd
      ELSE IF moved.ht[0].used = 0 THEN SwapTables(moved) ELSE moved

\* The "if (dictIsRehashing(d)) _dictRehashStep(d)" of every operation.
RehashStep(dd) ==
  IF dictIsRehashing(dd) /\ dd.pauserehash = 0 THEN dictRehash(dd, 1) ELSE dd

-----------------------------------------------------------------------------
(* Growing and shrinking *)

\* _dictNextPower
NextPower(n) ==
  CHOOSE s \in Sizes : n <= s /\ \A r \in Sizes : n <= r => s <= r

\* The conditions under which _dictExpand returns DICT_ERR.
ExpandRefused(dd, n) ==
  \/ dictIsRehashing(dd)
  \/ dd.ht[0].used > n
  \/ NextPower(n) = dd.ht[0].size

\* _dictExpand
Expand(dd, n) ==
  LET new == NewTable(NextPower(n))
  IN  IF ExpandRefused(dd, n) THEN dd
      ELSE IF dd.ht[0].size = 0
        THEN DictOf(new, dd.ht[1], dd.rehashidx, dd.pauserehash)
        ELSE DictOf(dd.ht[0], new, 0, dd.pauserehash)

\* The full-table test of _dictExpandIfNeeded; allowed is the answer of
\* type->expandAllowed, which depends on the memory in use.
NeedsExpand(dd, canResize, allowed) ==
  /\ dd.ht[0].used >= dd.ht[0].size
  /\ canResize \/ dd.ht[0].used \div dd.ht[0].size > ForceRatio
  /\ allowed

\* The size _dictExpandIfNeeded asks for, or -1 if it asks for none.
WantedSize(dd, canResize, allowed) ==
  IF dictIsRehashing(dd) THEN -1
  ELSE IF dd.ht[0].size = 0 THEN InitialSize
  ELSE IF NeedsExpand(dd, canResize, allowed) THEN dd.ht[0].used + 1
  ELSE -1

ExpandIfNeeded(dd, canResize, allowed) ==
  LET n == WantedSize(dd, canResize, allowed)
  IN  IF n = -1 THEN dd ELSE Expand(dd, n)

\* _dictExpandIfNeeded returns DICT_ERR, and dictAddRaw then fails.
ExpandFails(dd, canResize, allowed) ==
  LET n == WantedSize(dd, canResize, allowed)
  IN  n # -1 /\ ExpandRefused(dd, n)

\* Chain a new entry in ht[1] during a rehash, in ht[0] otherwise.
Insert(dd, k) ==
  IF dictIsRehashing(dd)
    THEN DictOf(dd.ht[0], Link(dd.ht[1], {k}), dd.rehashidx, dd.pauserehash)
    ELSE DictOf(Link(dd.ht[0], {k}), dd.ht[1], dd.rehashidx, dd.pauserehash)

\* Unlink the entry of k from the table in which the search loop finds it.
Unlink(dd, k) ==
  IF Chained(dd.ht[0], k)
    THEN DictOf(Drop(dd.ht[0], {k}), dd.ht[1], dd.rehashidx, dd.pauserehash)
    ELSE DictOf(dd.ht[0], Drop(dd.ht[1], {k}), dd.rehashidx, dd.pauserehash)

-----------------------------------------------------------------------------
(* Operations *)

Reply(op, k, res) == ret' = [op |-> op, key |-> k, res |-> res]

\* dictAdd and dictReplace share dictAddRaw: a rehash step, the expansion the
\* insertion may need, and the insertion unless an entry of k is found.
AfterAddRaw(allowed) ==
  ExpandIfNeeded(RehashStep(d), dict_can_resize, allowed)

AddRawFails(allowed) == ExpandFails(RehashStep(d), dict_can_resize, allowed)

dictAdd(k, v, allowed) ==
  LET d1 == AfterAddRaw(allowed)
  IN  /\ IF AddRawFails(allowed) \/ Lookup(d1, k)
           THEN d' = d1 /\ val' = val /\ Reply("add", k, "err")
           ELSE /\ d' = Insert(d1, k)
                /\ val' = [val EXCEPT ![k] = v]
                /\ Reply("add", k, "ok")
      /\ UNCHANGED dict_can_resize

\* If dictAddRaw found no existing entry although it failed, dictReplace would
\* go through a NULL pointer: the last conjunct names that outcome "crash".
dictReplace(k, v, allowed) ==
  LET d1 == AfterAddRaw(allowed)
  IN  /\ IF AddRawFails(allowed) \/ Lookup(d1, k)
           THEN d' = d1
           ELSE d' = Insert(d1, k)
      /\ val' = [val EXCEPT ![k] = v]
      /\ Reply("replace", k, IF AddRawFails(allowed) THEN "crash"
                             ELSE IF Lookup(d1, k) THEN "updated" ELSE "added")
      /\ UNCHANGED dict_can_resize

\* dictDelete; dictUnlink followed by dictFreeUnlinkedEntry.
dictDelete(k) ==
  LET d1 == RehashStep(d)
  IN  /\ IF dictSize(d) = 0
           THEN UNCHANGED <<d, val>> /\ Reply("delete", k, "err")
           ELSE IF Lookup(d1, k)
           THEN /\ d' = Unlink(d1, k)
                /\ val' = [val EXCEPT ![k] = NULL]
                /\ Reply("delete", k, "ok")
           ELSE d' = d1 /\ UNCHANGED val /\ Reply("delete", k, "err")
      /\ UNCHANGED dict_can_resize

\* dictFind, and dictFetchValue through it.
dictFind(k) ==
  LET d1 == RehashStep(d)
  IN  /\ IF dictSize(d) = 0
           THEN d' = d /\ Reply("find", k, NULL)
           ELSE /\ d' = d1
                /\ Reply("find", k, IF Lookup(d1, k) THEN val[k] ELSE NULL)
      /\ UNCHANGED <<val, dict_can_resize>>

\* The chain that index h of dictGetRandomKey selects.
ChainAt(dd, h) ==
  IF h >= dd.ht[0].size THEN dd.ht[1].table[h - dd.ht[0].size]
                        ELSE dd.ht[0].table[h]

\* The indexes dictGetRandomKey draws from: it skips the buckets below
\* rehashidx, which it takes to be empty.
RandomSlots(dd) ==
  IF dictIsRehashing(dd) THEN dd.rehashidx..(dictSlots(dd) - 1)
                         ELSE 0..(dd.ht[0].size - 1)

\* It draws until it hits an occupied bucket, then picks in the chain.
dictGetRandomKey ==
  LET d1 == RehashStep(d)
  IN  /\ IF dictSize(d) = 0
           THEN d' = d /\ Reply("random", NULL, NULL)
           ELSE /\ d' = d1
                /\ \E h \in RandomSlots(d1) : \E k \in ChainAt(d1, h) :
                     Reply("random", NULL, k)
      /\ UNCHANGED <<val, dict_can_resize>>

\* dictExpand called by a user that knows how many keys will come.
dictExpand(n) ==
  /\ d' = Expand(d, n)
  /\ UNCHANGED <<val, dict_can_resize, ret>>

\* tryResizeHashTables: htNeedsResize, then dictResize.
dictResize ==
  LET minimal == IF d.ht[0].used < InitialSize THEN InitialSize ELSE d.ht[0].used
  IN  /\ dictSlots(d) > InitialSize
      /\ (dictSize(d) * 100) \div dictSlots(d) < MinFill
      /\ dict_can_resize /\ ~dictIsRehashing(d)
      /\ d' = Expand(d, minimal)
      /\ UNCHANGED <<val, dict_can_resize, ret>>

\* Mutant: the cron's rehash is skipped while the table is crowded.
CronMayRehashLazy ==
  /\ dict_can_resize /\ dictIsRehashing(d) /\ d.pauserehash = 0
  /\ d.ht[1].used < d.ht[0].used

\* databasesCron rehashes only while no child process is active.
CronMayRehash == dict_can_resize /\ dictIsRehashing(d) /\ d.pauserehash = 0

\* incrementallyRehash: one dictRehash call of dictRehashMilliseconds.
dictRehashMilliseconds ==
  /\ CronMayRehash
  /\ d' = dictRehash(d, CronBuckets)
  /\ UNCHANGED <<val, dict_can_resize, ret>>

\* The first dictNext of a safe iterator, and the start of a dictScan.
dictPauseRehashing ==
  /\ d.pauserehash < MaxPause
  /\ d' = DictOf(d.ht[0], d.ht[1], d.rehashidx, d.pauserehash + 1)
  /\ UNCHANGED <<val, dict_can_resize, ret>>

\* dictReleaseIterator, and the end of a dictScan.
dictResumeRehashing ==
  /\ d.pauserehash > 0
  /\ d' = DictOf(d.ht[0], d.ht[1], d.rehashidx, d.pauserehash - 1)
  /\ UNCHANGED <<val, dict_can_resize, ret>>

\* dictEmpty; no caller empties a dictionary it is iterating.
dictEmpty ==
  /\ d.pauserehash = 0
  /\ d' = EmptyDict
  /\ val' = [k \in Key |-> NULL]
  /\ Reply("empty", NULL, NULL)
  /\ UNCHANGED dict_can_resize

\* updateDictResizePolicy: a child process starts (redisFork) or ends
\* (resetChildState), in an event of its own, with no iteration under way.
updateDictResizePolicy ==
  /\ d.pauserehash = 0
  /\ dict_can_resize' = ~dict_can_resize
  /\ UNCHANGED <<d, val, ret>>

Init ==
  /\ d = EmptyDict
  /\ val = [k \in Key |-> NULL]
  /\ dict_can_resize = TRUE
  /\ ret = [op |-> "empty", key |-> NULL, res |-> NULL]

Next ==
  \/ \E k \in Key, v \in Val, allowed \in BOOLEAN :
       dictAdd(k, v, allowed) \/ dictReplace(k, v, allowed)
  \/ \E k \in Key : dictDelete(k) \/ dictFind(k)
  \/ dictGetRandomKey
  \/ \E n \in ExpandHints : dictExpand(n)
  \/ dictResize
  \/ dictRehashMilliseconds
  \/ dictPauseRehashing
  \/ dictResumeRehashing
  \/ dictEmpty
  \/ updateDictResizePolicy

Spec == Init /\ [][Next]_vars

\* An event releases the iterators it opened, and a child process ends.  The
\* cron comes between the other events for ever: if there is always again a
\* rehash for it to go on with, it goes on with one (strong fairness, written
\* out because the guard says when the cron can).
Fairness ==
  /\ []<>(d.pauserehash = 0)
  /\ []<>dict_can_resize
  /\ <>[]~CronMayRehash \/ []<><<dictRehashMilliseconds>>_vars

FairSpec == Spec /\ Fairness

-----------------------------------------------------------------------------
(* Properties *)

IsTable(h) ==
  /\ h = [size |-> h.size, table |-> h.table, used |-> h.used]
  /\ h.size \in Nat
  /\ h.table \in [0..(h.size - 1) -> SUBSET Key]
  /\ h.used \in Nat

IsDict(dd) ==
  /\ dd = DictOf(dd.ht[0], dd.ht[1], dd.rehashidx, dd.pauserehash)
  /\ \A t \in {0, 1} : IsTable(dd.ht[t])
  /\ dd.rehashidx \in Int
  /\ dd.pauserehash \in Nat

Replies == [op  : {"add", "replace", "delete", "find", "random", "empty"},
            key : Key \cup {NULL},
            res : Key \cup Val \cup {NULL, "ok", "err", "crash", "updated", "added"}]

\* Every variable has its type; a bucket array has exactly "size" buckets.
TypeOK ==
  /\ IsDict(d)
  /\ val \in [Key -> Val \cup {NULL}]
  /\ dict_can_resize \in BOOLEAN
  /\ ret \in Replies

\* Every entry hangs in the bucket its hash selects in its own table: the
\* search loop, which looks in that bucket only, depends on it, across the
\* moves of dictRehash and the insertions into ht[1].
TablePlaced(h) ==
  \A i \in Buckets(h) : \A k \in h.table[i] : Hash[k] % h.size = i

Placed(dd) == \A t \in {0, 1} : TablePlaced(dd.ht[t])

EntriesPlaced == Placed(d)

\* No key has an entry in both tables: an insertion during a rehash looks in
\* both before it adds to ht[1], and dictRehash moves and never copies.
OneEntry(dd) == KeysIn(dd.ht[0]) \cap KeysIn(dd.ht[1]) = {}

OneEntryPerKey == OneEntry(d)

\* used is the number of entries of each table: dictRehash ends a rehash when
\* ht[0].used reaches zero, so a wrong count frees a table with entries in it,
\* or reads past its end.
Counted(dd) ==
  \A t \in {0, 1} : dd.ht[t].used = Cardinality(KeysIn(dd.ht[t]))

UsedIsExact == Counted(d)

\* The rehash index: the buckets of ht[0] below it are empty ("we are sure
\* there are no elements in indexes from 0 to rehashidx-1"), it stays inside
\* ht[0] (the assertion of dictRehash), the two tables differ in size, and
\* outside a rehash ht[1] is not allocated.
RehashShape(dd) ==
  IF dictIsRehashing(dd)
    THEN /\ 0 <= dd.rehashidx /\ dd.rehashidx < dd.ht[0].size
         /\ \A i \in 0..(dd.rehashidx - 1) : dd.ht[0].table[i] = {}
         /\ dd.ht[1].size > 0
         /\ dd.ht[1].size # dd.ht[0].size
    ELSE dd.ht[1] = EmptyTable

RehashIndexSound == RehashShape(d)

\* An entry has a value exactly while it is linked in a table.
ValuesMatchEntries == \A k \in Key : val[k] # NULL <=> k \in Keys(d)

\* dictGetRandomKey's do-while finds an occupied bucket in the range it draws
\* from whenever the dictionary is not empty: it cannot spin forever.
RandomKeyCanEnd ==
  dictSize(d) # 0 =>
    LET d1 == RehashStep(d) IN \E h \in RandomSlots(d1) : ChainAt(d1, h) # {}

\* During a rehash the old table only drains: nothing is added to it and the
\* index never moves back, whatever operations interleave with the rehash.
\* (One dictAdd may end a rehash and start the next; the size of ht[0] tells
\* the two apart.)
OldTableDrains ==
  [][dictIsRehashing(d) /\ dictIsRehashing(d)' /\ d'.ht[0].size = d.ht[0].size =>
       /\ KeysIn(d.ht[0])' \subseteq KeysIn(d.ht[0])
       /\ d.rehashidx' >= d.rehashidx]_vars

\* A rehash that has started ends: the old table is given up, whatever its
\* size, even if every insertion and deletion keeps adding work.
RehashEnds ==
  \A s \in Sizes : (dictIsRehashing(d) /\ d.ht[0].size = s)
                      ~> ~(dictIsRehashing(d) /\ d.ht[0].size = s)

\* dict.c implements a key-value map: rehashing, resizing and iterating are
\* invisible to the callers of add, replace, delete, find and random.
Map == INSTANCE KVMap WITH
         map <- [k \in Key |-> IF k \in Keys(d) THEN val[k] ELSE NULL]

RefinesMap == Map!Spec

=============================================================================
