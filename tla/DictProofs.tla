----------------------------- MODULE DictProofs -----------------------------
(***************************************************************************)
(* Proofs about Dict for every set of keys, every hash function and every  *)
(* choice of the tuning constants.                                         *)
(***************************************************************************)
EXTENDS Dict, FiniteSetTheorems, WellFoundedInduction, TLAPS

-----------------------------------------------------------------------------
(* Tables *)

GoodTable(h) ==
  /\ IsTable(h)
  /\ TablePlaced(h)
  /\ h.used = Cardinality(KeysIn(h))

\* A table holds finitely many keys, no more than there are.
LEMMA KeysInFinite ==
  ASSUME NEW h, IsTable(h)
  PROVE  /\ KeysIn(h) \in SUBSET Key
         /\ IsFiniteSet(KeysIn(h))
         /\ Cardinality(KeysIn(h)) \in Nat
         /\ Cardinality(KeysIn(h)) <= Cardinality(Key)
<1>1. KeysIn(h) \in SUBSET Key
  BY DEF IsTable, KeysIn, Buckets
<1> QED
  BY <1>1, KeyAssumption, FS_Subset, FS_CardinalityType

\* The table _dictReset leaves is well formed and holds no key.
LEMMA EmptyTableGood == GoodTable(EmptyTable) /\ KeysIn(EmptyTable) = {}
<1>1. IsTable(EmptyTable)
  BY DEF IsTable, EmptyTable
<1>2. KeysIn(EmptyTable) = {} /\ TablePlaced(EmptyTable)
  BY DEF KeysIn, EmptyTable, Buckets, TablePlaced
<1>3. EmptyTable.used = Cardinality({})
  BY FS_EmptySet DEF EmptyTable
<1> QED BY <1>1, <1>2, <1>3 DEF GoodTable

\* The table dictExpand allocates is well formed and holds no key.
LEMMA NewTableGood ==
  ASSUME NEW s \in Nat \ {0}
  PROVE  /\ GoodTable(NewTable(s))
         /\ KeysIn(NewTable(s)) = {}
         /\ NewTable(s).size = s
<1>1. IsTable(NewTable(s))
  BY DEF IsTable, NewTable
<1>2. KeysIn(NewTable(s)) = {} /\ TablePlaced(NewTable(s))
  BY DEF KeysIn, NewTable, Buckets, TablePlaced
<1>3. NewTable(s).used = Cardinality({}) /\ NewTable(s).size = s
  BY FS_EmptySet DEF NewTable
<1> QED BY <1>1, <1>2, <1>3 DEF GoodTable

\* Unlinking entries of a table keeps it good and removes just those keys.
LEMMA DropGood ==
  ASSUME NEW h, GoodTable(h), NEW gone, gone \subseteq KeysIn(h)
  PROVE  /\ GoodTable(Drop(h, gone))
         /\ KeysIn(Drop(h, gone)) = KeysIn(h) \ gone
         /\ Drop(h, gone).size = h.size
<1> DEFINE n == Drop(h, gone)
<1>0. IsTable(h) /\ TablePlaced(h)
  BY DEF GoodTable
<1>1. /\ n.size = h.size
      /\ n.table = [i \in Buckets(h) |-> h.table[i] \ gone]
      /\ n.used = h.used - Cardinality(gone)
      /\ n = [size |-> n.size, table |-> n.table, used |-> n.used]
  BY DEF Drop
<1>2. KeysIn(n) = KeysIn(h) \ gone
  BY <1>1 DEF KeysIn, Buckets
<1>3. IsFiniteSet(KeysIn(h)) /\ IsFiniteSet(gone)
  BY <1>0, KeysInFinite, FS_Subset
<1>4. Cardinality(KeysIn(h) \ gone) = Cardinality(KeysIn(h)) - Cardinality(gone)
  <2>1. KeysIn(h) \cap gone = gone
    OBVIOUS
  <2> QED BY <2>1, <1>3, FS_Difference
<1>5. Cardinality(KeysIn(h) \ gone) \in Nat
  BY <1>3, FS_Difference, FS_CardinalityType, Zenon
<1>6. n.used \in Nat /\ n.used = Cardinality(KeysIn(n))
  BY <1>1, <1>2, <1>4, <1>5 DEF GoodTable
<1>7. n.table \in [0..(n.size - 1) -> SUBSET Key]
  BY <1>0, <1>1 DEF IsTable, Buckets
<1>8. IsTable(n)
  BY <1>0, <1>1, <1>6, <1>7 DEF IsTable
<1>9. TablePlaced(n)
  BY <1>0, <1>1 DEF TablePlaced, Buckets
<1> QED BY <1>1, <1>2, <1>6, <1>8, <1>9 DEF GoodTable

\* Linking entries for new keys keeps a table good and adds just those keys.
LEMMA LinkGood ==
  ASSUME NEW h, GoodTable(h), h.size > 0,
         NEW new \in SUBSET Key, new \cap KeysIn(h) = {}
  PROVE  /\ GoodTable(Link(h, new))
         /\ KeysIn(Link(h, new)) = KeysIn(h) \cup new
         /\ Link(h, new).size = h.size
<1> DEFINE n == Link(h, new)
<1>0. IsTable(h) /\ TablePlaced(h) /\ h.size \in Nat \ {0}
  BY DEF GoodTable, IsTable
<1>1. /\ n.size = h.size
      /\ n.table = [i \in Buckets(h) |->
                     h.table[i] \cup {k \in new : Hash[k] % h.size = i}]
      /\ n.used = h.used + Cardinality(new)
      /\ n = [size |-> n.size, table |-> n.table, used |-> n.used]
  BY DEF Link
<1>2. \A k \in new : Hash[k] % h.size \in Buckets(h)
  BY <1>0, HashAssumption DEF Buckets
<1>3. KeysIn(n) = KeysIn(h) \cup new
  BY <1>1, <1>2 DEF KeysIn, Buckets
<1>4. IsFiniteSet(KeysIn(h)) /\ IsFiniteSet(new)
  BY <1>0, KeysInFinite, FS_Subset, KeyAssumption
<1>5. Cardinality(KeysIn(h) \cup new) = Cardinality(KeysIn(h)) + Cardinality(new)
  <2>1. Cardinality(KeysIn(h) \cap new) = 0
    <3>1. KeysIn(h) \cap new = {}
      OBVIOUS
    <3> QED BY <3>1, FS_EmptySet
  <2>2. Cardinality(KeysIn(h)) \in Nat /\ Cardinality(new) \in Nat
    BY <1>4, FS_CardinalityType
  <2>3. Cardinality(KeysIn(h) \cup new) =
           Cardinality(KeysIn(h)) + Cardinality(new) - Cardinality(KeysIn(h) \cap new)
    BY <1>4, FS_Union
  <2> QED BY <2>1, <2>2, <2>3
<1>6. Cardinality(KeysIn(h)) \in Nat /\ Cardinality(new) \in Nat
  BY <1>4, FS_CardinalityType
<1>7. n.used \in Nat /\ n.used = Cardinality(KeysIn(n))
  BY <1>1, <1>3, <1>5, <1>6 DEF GoodTable
<1>8. n.table \in [0..(n.size - 1) -> SUBSET Key]
  BY <1>0, <1>1 DEF IsTable, Buckets
<1>9. IsTable(n)
  BY <1>0, <1>1, <1>7, <1>8 DEF IsTable
<1>10. TablePlaced(n)
  BY <1>0, <1>1 DEF TablePlaced, Buckets
<1> QED BY <1>1, <1>3, <1>7, <1>9, <1>10 DEF GoodTable

-----------------------------------------------------------------------------
(* Dictionaries *)

GoodDict(dd) ==
  /\ IsDict(dd)
  /\ GoodTable(dd.ht[0])
  /\ GoodTable(dd.ht[1])
  /\ OneEntry(dd)
  /\ RehashShape(dd)

\* A dictionary is the record of its fields; the proofs compare dictionaries field
\* by field.
LEMMA DictOfFields ==
  ASSUME NEW h0, NEW h1, NEW r, NEW p
  PROVE  /\ DictOf(h0, h1, r, p).ht[0] = h0
         /\ DictOf(h0, h1, r, p).ht[1] = h1
         /\ DictOf(h0, h1, r, p).rehashidx = r
         /\ DictOf(h0, h1, r, p).pauserehash = p
BY DEF DictOf

\* How a good dictionary is put together from two good tables.
LEMMA DictOfGood ==
  ASSUME NEW h0, NEW h1, NEW r \in Int, NEW p \in Nat,
         GoodTable(h0), GoodTable(h1), KeysIn(h0) \cap KeysIn(h1) = {},
         IF r # -1
           THEN /\ 0 <= r /\ r < h0.size
                /\ \A i \in 0..(r - 1) : h0.table[i] = {}
                /\ h1.size > 0 /\ h1.size # h0.size
           ELSE h1 = EmptyTable
  PROVE  /\ GoodDict(DictOf(h0, h1, r, p))
         /\ Keys(DictOf(h0, h1, r, p)) = KeysIn(h0) \cup KeysIn(h1)
<1> DEFINE dd == DictOf(h0, h1, r, p)
<1>1. dd.ht[0] = h0 /\ dd.ht[1] = h1 /\ dd.rehashidx = r /\ dd.pauserehash = p
  BY DictOfFields
<1>2. IsDict(dd)
  BY <1>1 DEF IsDict, GoodTable
<1>3. OneEntry(dd) /\ Keys(dd) = KeysIn(h0) \cup KeysIn(h1)
  BY <1>1 DEF OneEntry, Keys
<1>4. RehashShape(dd)
  BY <1>1 DEF RehashShape, dictIsRehashing
<1>5. GoodTable(dd.ht[0]) /\ GoodTable(dd.ht[1])
  BY <1>1
<1> QED BY <1>2, <1>3, <1>4, <1>5 DEF GoodDict

\* Counting: the dictionary is empty exactly when dictSize says so, and a
\* dictionary with entries has an allocated ht[0].
LEMMA SizeOfGood ==
  ASSUME NEW dd, GoodDict(dd)
  PROVE  /\ dictSize(dd) = 0 <=> Keys(dd) = {}
         /\ Keys(dd) # {} => dd.ht[0].size > 0
         /\ Keys(dd) \in SUBSET Key
         /\ dd.ht[0].used \in 0..Cardinality(Key)
<1> DEFINE h0 == dd.ht[0]
           h1 == dd.ht[1]
<1>1. IsTable(h0) /\ IsTable(h1)
  BY DEF GoodDict, GoodTable
<1>2. /\ IsFiniteSet(KeysIn(h0)) /\ IsFiniteSet(KeysIn(h1))
      /\ KeysIn(h0) \in SUBSET Key /\ KeysIn(h1) \in SUBSET Key
      /\ h0.used = Cardinality(KeysIn(h0)) /\ h1.used = Cardinality(KeysIn(h1))
      /\ h0.used \in Nat /\ h1.used \in Nat
      /\ h0.used <= Cardinality(Key)
      /\ Cardinality(Key) \in Nat
  BY <1>1, KeysInFinite, KeyAssumption, FS_CardinalityType DEF GoodDict, GoodTable
<1>3. (h0.used = 0 <=> KeysIn(h0) = {}) /\ (h1.used = 0 <=> KeysIn(h1) = {})
  BY <1>2, FS_EmptySet
<1>4. dictSize(dd) = 0 <=> Keys(dd) = {}
  BY <1>2, <1>3 DEF dictSize, Keys
<1>5. ASSUME Keys(dd) # {} PROVE h0.size > 0
  <2>1. CASE dictIsRehashing(dd)
    BY <1>1, <2>1 DEF GoodDict, RehashShape, IsTable, IsDict
  <2>2. CASE ~dictIsRehashing(dd)
    <3>1. KeysIn(h1) = {}
      BY <2>2, EmptyTableGood DEF GoodDict, RehashShape
    <3>2. KeysIn(h0) # {}
      BY <3>1, <1>5 DEF Keys
    <3> QED BY <3>2, <1>1 DEF KeysIn, Buckets, IsTable
  <2> QED BY <2>1, <2>2
<1> QED BY <1>2, <1>4, <1>5 DEF Keys

\* The search loop finds exactly the keys that have an entry.
LEMMA LookupIff ==
  ASSUME NEW dd, GoodDict(dd), dd.ht[0].size > 0, NEW k \in Key
  PROVE  /\ Lookup(dd, k) <=> k \in Keys(dd)
         /\ Chained(dd.ht[0], k) <=> k \in KeysIn(dd.ht[0])
<1>1. ASSUME NEW h, GoodTable(h), h.size > 0
      PROVE  Chained(h, k) <=> k \in KeysIn(h)
  <2>1. h.size \in Nat \ {0} /\ TablePlaced(h)
    BY <1>1 DEF GoodTable, IsTable
  <2>2. Hash[k] % h.size \in Buckets(h)
    BY <2>1, HashAssumption DEF Buckets
  <2> QED BY <2>1, <2>2 DEF Chained, KeysIn, TablePlaced
<1>2. Chained(dd.ht[0], k) <=> k \in KeysIn(dd.ht[0])
  BY <1>1 DEF GoodDict
<1>3. CASE dictIsRehashing(dd)
  <2>1. Chained(dd.ht[1], k) <=> k \in KeysIn(dd.ht[1])
    BY <1>1, <1>3 DEF GoodDict, RehashShape
  <2> QED BY <1>2, <1>3, <2>1 DEF Lookup, Keys
<1>4. CASE ~dictIsRehashing(dd)
  <2>1. KeysIn(dd.ht[1]) = {}
    BY <1>4, EmptyTableGood DEF GoodDict, RehashShape
  <2> QED BY <1>2, <1>4, <2>1 DEF Lookup, Keys
<1> QED BY <1>3, <1>4, <1>2

-----------------------------------------------------------------------------
(* Rehashing *)

\* A non-empty set of naturals has a least element: the first occupied bucket that
\* the loops of dictRehash look for.
LEMMA LeastExists ==
  ASSUME NEW T \in SUBSET Nat, T # {}
  PROVE  \E x \in T : \A y \in T : x <= y
<1>1. PICK x \in T : \A y \in T : ~ (<<y, x>> \in OpToRel(<, Nat))
  BY WFMin, NatLessThanWellFounded, Zenon
<1>2. \A y \in T : ~(y < x)
  BY <1>1, Zenon DEF OpToRel
<1> QED BY <1>2

\* The loop of dictRehash stops somewhere between rehashidx and the end of
\* the table: it never reads past the end.
LEMMA RehashStopInRange ==
  ASSUME NEW dd, GoodDict(dd), dictIsRehashing(dd), NEW n \in Nat
  PROVE  RehashStop(dd, n) \in dd.rehashidx..dd.ht[0].size
<1> DEFINE R == dd.rehashidx..dd.ht[0].size
           T == {p \in R : StopsAt(dd, n, p)}
<1>1. dd.rehashidx \in Nat /\ dd.ht[0].size \in Nat /\ dd.rehashidx < dd.ht[0].size
  BY DEF GoodDict, RehashShape, IsDict, GoodTable, IsTable
<1>2. StopsAt(dd, n, dd.ht[0].size)
  <2>1. Occupied(dd.ht[0], dd.ht[0].size, dd.ht[0].size) = {}
    BY <1>1 DEF Occupied
  <2> QED BY <2>1 DEF StopsAt
<1>3. dd.ht[0].size \in T /\ T \in SUBSET Nat
  BY <1>1, <1>2
<1>4. \E p \in T : \A q \in T : p <= q
  <2> HIDE DEF T
  <2> QED BY <1>3, LeastExists
<1>5. \E p \in R : StopsAt(dd, n, p) /\ \A q \in R : StopsAt(dd, n, q) => p <= q
  BY <1>4
<1> HIDE DEF R
<1> QED BY <1>5 DEF RehashStop, R

\* dictRehash moves whole buckets, so both tables stay well formed and no key is lost
\* or duplicated, whatever number of buckets it moves.
LEMMA RehashGood ==
  ASSUME NEW dd, GoodDict(dd), NEW n \in Nat
  PROVE  /\ GoodDict(dictRehash(dd, n))
         /\ Keys(dictRehash(dd, n)) = Keys(dd)
         /\ dictRehash(dd, n).pauserehash = dd.pauserehash
<1>1. CASE ~dictIsRehashing(dd)
  BY <1>1 DEF dictRehash
<1>2. CASE dictIsRehashing(dd)
  <2> DEFINE h0 == dd.ht[0]
             h1 == dd.ht[1]
             r  == dd.rehashidx
             stop == RehashStop(dd, n)
             moved == KeysBetween(h0, r, stop)
             g0 == Drop(h0, moved)
             g1 == Link(h1, moved)
             m == MoveBuckets(dd, stop)
  <2>1. /\ GoodTable(h0) /\ GoodTable(h1)
        /\ KeysIn(h0) \cap KeysIn(h1) = {}
        /\ r \in Nat /\ h0.size \in Nat /\ r < h0.size
        /\ h1.size > 0 /\ h1.size # h0.size
        /\ \A i \in 0..(r - 1) : h0.table[i] = {}
        /\ dd.pauserehash \in Nat
    BY <1>2 DEF GoodDict, RehashShape, OneEntry, IsDict, GoodTable, IsTable
  <2>2. stop \in r..h0.size
    BY <1>2, RehashStopInRange
  <2> HIDE DEF stop
  <2>3. moved \subseteq KeysIn(h0) /\ moved \in SUBSET Key
    <3>1. moved \subseteq KeysIn(h0)
      BY <2>1, <2>2 DEF KeysBetween, KeysIn, Buckets
    <3>2. KeysIn(h0) \in SUBSET Key
      BY <2>1, KeysInFinite DEF GoodTable
    <3> QED BY <3>1, <3>2
  <2>4. GoodTable(g0) /\ KeysIn(g0) = KeysIn(h0) \ moved /\ g0.size = h0.size
    BY <2>1, <2>3, DropGood
  <2>5. moved \cap KeysIn(h1) = {}
    BY <2>1, <2>3
  <2>6. GoodTable(g1) /\ KeysIn(g1) = KeysIn(h1) \cup moved /\ g1.size = h1.size
    BY <2>1, <2>3, <2>5, LinkGood
  <2>7. m.ht[0] = g0 /\ m.ht[1] = g1 /\ m.rehashidx = stop
        /\ m.pauserehash = dd.pauserehash /\ m = DictOf(g0, g1, stop, dd.pauserehash)
    BY DictOfFields DEF MoveBuckets
  <2>8. KeysIn(g0) \cup KeysIn(g1) = Keys(dd) /\ KeysIn(g0) \cap KeysIn(g1) = {}
    BY <2>1, <2>3, <2>4, <2>6 DEF Keys
  <2>9. \A i \in 0..(stop - 1) : g0.table[i] = {}
    <3>1. SUFFICES ASSUME NEW i \in 0..(stop - 1) PROVE g0.table[i] = {}
      OBVIOUS
    <3>2. i \in Buckets(h0) /\ g0.table[i] = h0.table[i] \ moved
      BY <2>1, <2>2 DEF Drop, Buckets
    <3>3. CASE i < r
      BY <3>2, <3>3, <2>1
    <3>4. CASE i >= r
      <4>1. i \in r..(stop - 1)
        BY <3>4, <2>1, <2>2
      <4>2. h0.table[i] \subseteq moved
        BY <4>1 DEF KeysBetween
      <4> QED BY <4>2, <3>2
    <3> QED BY <3>3, <3>4, <2>1, <2>2
  <2>10. g0.used = 0 <=> KeysIn(g0) = {}
    <3>1. IsFiniteSet(KeysIn(g0)) /\ g0.used = Cardinality(KeysIn(g0))
      BY <2>4, KeysInFinite DEF GoodTable
    <3> QED BY <3>1, FS_EmptySet
  <2>11. CASE g0.used = 0
    <3>1. dictRehash(dd, n) = DictOf(g1, EmptyTable, -1, dd.pauserehash)
      BY <2>11, <2>7, <1>2 DEF dictRehash, SwapTables, stop
    <3>2. GoodDict(DictOf(g1, EmptyTable, -1, dd.pauserehash))
          /\ Keys(DictOf(g1, EmptyTable, -1, dd.pauserehash)) = KeysIn(g1) \cup {}
      BY <2>6, <2>1, EmptyTableGood, DictOfGood
    <3>3. Keys(dd) = KeysIn(g1)
      BY <2>8, <2>10, <2>11
    <3>4. dictRehash(dd, n).pauserehash = dd.pauserehash
      BY <3>1, DictOfFields
    <3> HIDE DEF g1
    <3> QED BY <3>1, <3>2, <3>3, <3>4
  <2>12. CASE g0.used # 0
    <3>1. dictRehash(dd, n) = DictOf(g0, g1, stop, dd.pauserehash)
      BY <2>12, <2>7, <1>2 DEF dictRehash, stop
    <3>2. stop < g0.size
      <4>1. ASSUME stop = h0.size PROVE FALSE
        <5>1. \A i \in Buckets(g0) : g0.table[i] = {}
          BY <2>9, <4>1, <2>4 DEF Buckets
        <5> QED BY <5>1, <2>10, <2>12 DEF KeysIn
      <4> QED BY <4>1, <2>1, <2>2, <2>4
    <3>3. stop \in Int /\ stop # -1 /\ 0 <= stop /\ g1.size > 0 /\ g1.size # g0.size
      BY <2>1, <2>2, <2>4, <2>6
    <3> HIDE DEF g0, g1
    <3>4. GoodDict(DictOf(g0, g1, stop, dd.pauserehash))
          /\ Keys(DictOf(g0, g1, stop, dd.pauserehash)) = KeysIn(g0) \cup KeysIn(g1)
      BY <2>1, <2>4, <2>6, <2>8, <2>9, <3>2, <3>3, DictOfGood
    <3> QED BY <3>1, <3>4, <2>8, DictOfFields
  <2> QED BY <2>11, <2>12, SMTT(60)
<1> QED BY <1>1, <1>2

\* _dictRehashStep is one call of dictRehash, or nothing while rehashing is paused.
LEMMA RehashStepGood ==
  ASSUME NEW dd, GoodDict(dd)
  PROVE  /\ GoodDict(RehashStep(dd))
         /\ Keys(RehashStep(dd)) = Keys(dd)
         /\ RehashStep(dd).pauserehash = dd.pauserehash
BY RehashGood DEF RehashStep

-----------------------------------------------------------------------------
(* Growing, inserting and unlinking *)

\* The requests _dictExpand gets: a hint, or a count of entries plus one.
Requests == ExpandHints \cup 0..(Cardinality(Key) + 1)

\* _dictNextPower returns a size of the tables that holds the size asked.
LEMMA NextPowerFits ==
  ASSUME NEW n \in Requests \cup {InitialSize}
  PROVE  NextPower(n) \in Sizes /\ n <= NextPower(n) /\ NextPower(n) \in Nat \ {0}
<1> DEFINE T == {s \in Sizes : n <= s}
<1>1. Cardinality(Key) \in Nat
  BY KeyAssumption, FS_CardinalityType
<1>2. n \in Nat /\ T # {} /\ T \in SUBSET Nat
  <2>1. CASE n \in Requests
    <3>1. n \in Nat
      BY <1>1, <2>1, ParamAssumption DEF Requests
    <3>2. PICK s \in Sizes : n <= s
      BY <2>1, SizesAssumption DEF Requests
    <3> QED BY <3>1, <3>2, SizesAssumption, Zenon
  <2>2. CASE n = InitialSize
    <3>1. n \in Sizes /\ n \in Nat /\ Sizes \in SUBSET Nat
      BY <2>2, SizesAssumption, ParamAssumption
    <3>2. n <= n
      BY <3>1
    <3> QED BY <3>1, <3>2, Zenon
  <2> QED BY <2>1, <2>2
<1>3. \E s \in T : \A q \in T : s <= q
  <2> HIDE DEF T
  <2> QED BY <1>2, LeastExists
<1>4. \E s \in Sizes : n <= s /\ \A q \in Sizes : n <= q => s <= q
  BY <1>3
<1>5. NextPower(n) \in Sizes /\ n <= NextPower(n)
  BY <1>4 DEF NextPower
<1> QED BY <1>5, SizesAssumption, Zenon

\* dictExpand installs an empty table and starts to rehash only where it may.
LEMMA ExpandGood ==
  ASSUME NEW dd, GoodDict(dd), NEW n \in Requests \cup {InitialSize}
  PROVE  /\ GoodDict(Expand(dd, n))
         /\ Keys(Expand(dd, n)) = Keys(dd)
         /\ Expand(dd, n).pauserehash = dd.pauserehash
         /\ ~ExpandRefused(dd, n) => Expand(dd, n).ht[0].size > 0
<1> DEFINE new == NewTable(NextPower(n))
           p == dd.pauserehash
<1>1. CASE ExpandRefused(dd, n)
  BY <1>1 DEF Expand
<1>2. CASE ~ExpandRefused(dd, n)
  <2>1. /\ GoodTable(new) /\ KeysIn(new) = {} /\ new.size = NextPower(n)
        /\ NextPower(n) \in Nat \ {0}
    BY NewTableGood, NextPowerFits
  <2>2. /\ dd.rehashidx = -1 /\ dd.ht[1] = EmptyTable /\ new.size # dd.ht[0].size
        /\ GoodTable(dd.ht[0]) /\ p \in Nat /\ dd.ht[0].size \in Nat
    BY <1>2, <2>1 DEF ExpandRefused, GoodDict, RehashShape, dictIsRehashing,
                      IsDict, IsTable
  <2>3. Keys(dd) = KeysIn(dd.ht[0])
    BY <2>2, EmptyTableGood DEF Keys
  <2> HIDE DEF new
  <2>4. CASE dd.ht[0].size = 0
    <3>1. Expand(dd, n) = DictOf(new, EmptyTable, -1, p)
      BY <1>2, <2>2, <2>4 DEF Expand, new
    <3>2. KeysIn(dd.ht[0]) = {}
      BY <2>4 DEF KeysIn, Buckets
    <3>3. /\ GoodDict(DictOf(new, EmptyTable, -1, p))
          /\ Keys(DictOf(new, EmptyTable, -1, p)) = {}
      BY <2>1, <2>2, EmptyTableGood, DictOfGood
    <3>4. Expand(dd, n).ht[0] = new /\ Expand(dd, n).pauserehash = p
      BY <3>1, DictOfFields
    <3> QED BY <3>1, <3>2, <3>3, <3>4, <2>1, <2>3
  <2>5. CASE dd.ht[0].size # 0
    <3>1. Expand(dd, n) = DictOf(dd.ht[0], new, 0, p)
      BY <1>2, <2>2, <2>5 DEF Expand, new
    <3>2. /\ GoodDict(DictOf(dd.ht[0], new, 0, p))
          /\ Keys(DictOf(dd.ht[0], new, 0, p)) = KeysIn(dd.ht[0]) \cup KeysIn(new)
      <4>1. /\ KeysIn(dd.ht[0]) \cap KeysIn(new) = {}
            /\ 0 \in Int /\ 0 # -1 /\ 0 <= 0 /\ 0 < dd.ht[0].size
            /\ \A i \in 0..(0 - 1) : dd.ht[0].table[i] = {}
            /\ new.size > 0 /\ new.size # dd.ht[0].size
        BY <2>1, <2>2, <2>5
      <4> QED BY <4>1, <2>1, <2>2, DictOfGood
    <3>3. Expand(dd, n).ht[0] = dd.ht[0] /\ Expand(dd, n).pauserehash = p
      BY <3>1, DictOfFields
    <3> QED BY <3>1, <3>2, <3>3, <2>1, <2>2, <2>3, <2>5
  <2> QED BY <2>4, <2>5
<1> QED BY <1>1, <1>2

\* The expansion an insertion asks for is never refused: the size asked for
\* is above the number of entries and rounds up to a size other than the
\* present one.  So dictAddRaw only fails because the key exists.
LEMMA ExpandIfNeededGood ==
  ASSUME NEW dd, GoodDict(dd), NEW canResize \in BOOLEAN, NEW allowed \in BOOLEAN
  PROVE  /\ ~ExpandFails(dd, canResize, allowed)
         /\ GoodDict(ExpandIfNeeded(dd, canResize, allowed))
         /\ Keys(ExpandIfNeeded(dd, canResize, allowed)) = Keys(dd)
         /\ ExpandIfNeeded(dd, canResize, allowed).pauserehash = dd.pauserehash
         /\ ExpandIfNeeded(dd, canResize, allowed).ht[0].size > 0
<1> DEFINE n == WantedSize(dd, canResize, allowed)
           h0 == dd.ht[0]
<1>1. /\ h0.size \in Nat /\ h0.used \in 0..Cardinality(Key)
      /\ Cardinality(Key) \in Nat
      /\ h0.used = Cardinality(KeysIn(h0))
  BY SizeOfGood, KeyAssumption, FS_CardinalityType DEF GoodDict, GoodTable, IsTable
<1>2. CASE n = -1
  <2>1. h0.size > 0
    <3>1. InitialSize # -1
      BY ParamAssumption, SizesAssumption
    <3>2. CASE dictIsRehashing(dd)
      BY <3>2, <1>1 DEF GoodDict, RehashShape, IsDict
    <3>3. CASE ~dictIsRehashing(dd)
      BY <3>1, <3>3, <1>1, <1>2, SMTT(60) DEF WantedSize
    <3> QED BY <3>2, <3>3
  <2> HIDE DEF n
  <2> QED BY <1>2, <2>1 DEF ExpandIfNeeded, ExpandFails, n
<1>3. CASE n # -1
  <2>1. /\ ~dictIsRehashing(dd)
        /\ \/ h0.size = 0 /\ n = InitialSize
           \/ h0.size # 0 /\ h0.used >= h0.size /\ n = h0.used + 1
    BY <1>3 DEF WantedSize, NeedsExpand
  <2>2. n \in Requests \cup {InitialSize} /\ n \in Nat
    BY <2>1, <1>1, ParamAssumption, SizesAssumption DEF Requests
  <2>3. ~ExpandRefused(dd, n)
    <3>1. n <= NextPower(n) /\ NextPower(n) \in Nat \ {0}
      BY <2>2, NextPowerFits
    <3>2. h0.size = 0 => h0.used = 0
      BY <1>1, FS_EmptySet DEF KeysIn, Buckets
    <3> HIDE DEF n
    <3> QED BY <3>1, <3>2, <2>1, <2>2, <1>1 DEF ExpandRefused
  <2>4. /\ GoodDict(Expand(dd, n))
        /\ Keys(Expand(dd, n)) = Keys(dd)
        /\ Expand(dd, n).pauserehash = dd.pauserehash
        /\ Expand(dd, n).ht[0].size > 0
    <3> HIDE DEF n
    <3> QED BY <2>2, <2>3, ExpandGood
  <2> QED BY <1>3, <2>3, <2>4, SMTT(60) DEF ExpandIfNeeded, ExpandFails
<1> HIDE DEF n
<1> QED BY <1>2, <1>3, SMTT(60)

\* dictAddRaw puts the new key in the table that the other operations search.
LEMMA InsertGood ==
  ASSUME NEW dd, GoodDict(dd), dd.ht[0].size > 0,
         NEW k \in Key, k \notin Keys(dd)
  PROVE  /\ GoodDict(Insert(dd, k))
         /\ Keys(Insert(dd, k)) = Keys(dd) \cup {k}
         /\ Insert(dd, k).pauserehash = dd.pauserehash
<1> DEFINE h0 == dd.ht[0]
           h1 == dd.ht[1]
           r == dd.rehashidx
           p == dd.pauserehash
<1>1. /\ GoodTable(h0) /\ GoodTable(h1) /\ r \in Int /\ p \in Nat
      /\ KeysIn(h0) \cap KeysIn(h1) = {}
      /\ {k} \in SUBSET Key
      /\ {k} \cap KeysIn(h0) = {} /\ {k} \cap KeysIn(h1) = {}
      /\ h0.size \in Nat
  BY DEF GoodDict, IsDict, OneEntry, Keys, IsTable
<1>2. CASE dictIsRehashing(dd)
  <2> DEFINE g == Link(h1, {k})
  <2>1. /\ r # -1 /\ 0 <= r /\ r < h0.size /\ h1.size > 0 /\ h1.size # h0.size
        /\ \A i \in 0..(r - 1) : h0.table[i] = {}
    BY <1>2 DEF GoodDict, RehashShape, dictIsRehashing
  <2>2. GoodTable(g) /\ KeysIn(g) = KeysIn(h1) \cup {k} /\ g.size = h1.size
    BY <1>1, <2>1, LinkGood
  <2>3. Insert(dd, k) = DictOf(h0, g, r, p)
    BY <1>2 DEF Insert
  <2> HIDE DEF g
  <2>4. KeysIn(h0) \cap KeysIn(g) = {}
    BY <1>1, <2>2
  <2>5. GoodDict(DictOf(h0, g, r, p)) /\ Keys(DictOf(h0, g, r, p)) = KeysIn(h0) \cup KeysIn(g)
    BY <1>1, <2>1, <2>2, <2>4, DictOfGood
  <2>6. Insert(dd, k).pauserehash = p
    BY <2>3, DictOfFields
  <2> QED BY <2>2, <2>3, <2>5, <2>6 DEF Keys
<1>3. CASE ~dictIsRehashing(dd)
  <2> DEFINE g == Link(h0, {k})
  <2>1. r = -1 /\ h1 = EmptyTable
    BY <1>3 DEF GoodDict, RehashShape, dictIsRehashing
  <2>2. GoodTable(g) /\ KeysIn(g) = KeysIn(h0) \cup {k} /\ g.size = h0.size
    BY <1>1, LinkGood
  <2>3. Insert(dd, k) = DictOf(g, h1, r, p)
    BY <1>3 DEF Insert
  <2> HIDE DEF g
  <2>4. KeysIn(g) \cap KeysIn(h1) = {}
    BY <1>1, <2>2
  <2>5. GoodDict(DictOf(g, h1, r, p)) /\ Keys(DictOf(g, h1, r, p)) = KeysIn(g) \cup KeysIn(h1)
    BY <1>1, <2>1, <2>2, <2>4, DictOfGood
  <2>6. Insert(dd, k).pauserehash = p
    BY <2>3, DictOfFields
  <2> QED BY <2>2, <2>3, <2>5, <2>6 DEF Keys
<1> QED BY <1>2, <1>3

\* dictGenericDelete takes the key out of the one table that holds it and counts it
\* once.
LEMMA UnlinkGood ==
  ASSUME NEW dd, GoodDict(dd), NEW k \in Keys(dd)
  PROVE  /\ GoodDict(Unlink(dd, k))
         /\ Keys(Unlink(dd, k)) = Keys(dd) \ {k}
         /\ Unlink(dd, k).pauserehash = dd.pauserehash
<1> DEFINE h0 == dd.ht[0]
           h1 == dd.ht[1]
           r == dd.rehashidx
           p == dd.pauserehash
<1>1. /\ GoodTable(h0) /\ GoodTable(h1) /\ r \in Int /\ p \in Nat
      /\ KeysIn(h0) \cap KeysIn(h1) = {} /\ IsTable(h0)
  BY DEF GoodDict, IsDict, OneEntry, GoodTable
<1>2. k \in Key /\ h0.size > 0
  BY SizeOfGood
<1>3. Chained(h0, k) <=> k \in KeysIn(h0)
  BY <1>2, LookupIff
<1>4. CASE k \in KeysIn(h0)
  <2> DEFINE g == Drop(h0, {k})
  <2>1. GoodTable(g) /\ KeysIn(g) = KeysIn(h0) \ {k} /\ g.size = h0.size
    BY <1>1, <1>4, DropGood
  <2>2. Unlink(dd, k) = DictOf(g, h1, r, p)
    BY <1>3, <1>4 DEF Unlink
  <2>3. KeysIn(g) \cap KeysIn(h1) = {} /\ KeysIn(g) \cup KeysIn(h1) = Keys(dd) \ {k}
    BY <1>1, <1>4, <2>1 DEF Keys
  <2>4. \A i \in Buckets(h0) : h0.table[i] = {} => g.table[i] = {}
    BY DEF Drop
  <2>5. IF r # -1
           THEN /\ 0 <= r /\ r < g.size
                /\ \A i \in 0..(r - 1) : g.table[i] = {}
                /\ h1.size > 0 /\ h1.size # g.size
           ELSE h1 = EmptyTable
    <3> HIDE DEF g
    <3>1. h0.size \in Nat
      BY <1>1 DEF IsTable
    <3> QED BY <1>1, <2>1, <2>4, <3>1 DEF GoodDict, RehashShape, dictIsRehashing, Buckets
  <2> HIDE DEF g
  <2>6. GoodDict(DictOf(g, h1, r, p)) /\ Keys(DictOf(g, h1, r, p)) = KeysIn(g) \cup KeysIn(h1)
    BY <1>1, <2>1, <2>3, <2>5, DictOfGood
  <2>7. Unlink(dd, k).pauserehash = p
    BY <2>2, DictOfFields
  <2> QED BY <2>2, <2>3, <2>6, <2>7
<1>5. CASE k \notin KeysIn(h0)
  <2> DEFINE g == Drop(h1, {k})
  <2>1. k \in KeysIn(h1)
    BY <1>5 DEF Keys
  <2>2. GoodTable(g) /\ KeysIn(g) = KeysIn(h1) \ {k} /\ g.size = h1.size
    BY <1>1, <2>1, DropGood
  <2>3. Unlink(dd, k) = DictOf(h0, g, r, p)
    BY <1>3, <1>5 DEF Unlink
  <2>4. KeysIn(h0) \cap KeysIn(g) = {} /\ KeysIn(h0) \cup KeysIn(g) = Keys(dd) \ {k}
    BY <1>1, <1>5, <2>2 DEF Keys
  <2>5. r # -1
    BY <2>1, EmptyTableGood DEF GoodDict, RehashShape, dictIsRehashing
  <2> HIDE DEF g
  <2>6. /\ 0 <= r /\ r < h0.size
        /\ \A i \in 0..(r - 1) : h0.table[i] = {}
        /\ g.size > 0 /\ g.size # h0.size
    BY <2>2, <2>5 DEF GoodDict, RehashShape, dictIsRehashing
  <2>7. GoodDict(DictOf(h0, g, r, p)) /\ Keys(DictOf(h0, g, r, p)) = KeysIn(h0) \cup KeysIn(g)
    BY <1>1, <2>2, <2>4, <2>5, <2>6, DictOfGood
  <2>8. Unlink(dd, k).pauserehash = p
    BY <2>3, DictOfFields
  <2> QED BY <2>3, <2>4, <2>7, <2>8
<1> QED BY <1>4, <1>5

-----------------------------------------------------------------------------
(* The inductive invariant *)

IInv ==
  /\ GoodDict(d)
  /\ TypeOK
  /\ ValuesMatchEntries

\* The empty dictionary is sound.
LEMMA IInvInit == Init => IInv
<1> SUFFICES ASSUME Init PROVE IInv
  OBVIOUS
<1>1. GoodDict(d) /\ Keys(d) = {}
  BY EmptyTableGood, DictOfGood DEF Init, EmptyDict
<1>2. ret \in Replies
  BY DEF Init, Replies
<1>3. val \in [Key -> Val \cup {NULL}] /\ dict_can_resize \in BOOLEAN
  BY DEF Init
<1>4. ValuesMatchEntries
  BY <1>1 DEF Init, ValuesMatchEntries
<1> QED BY <1>1, <1>2, <1>3, <1>4 DEF IInv, TypeOK, GoodDict

\* What an operation must leave behind for IInv to hold after it.
LEMMA IInvMade ==
  ASSUME GoodDict(d'), val' \in [Key -> Val \cup {NULL}],
         \A k \in Key : val'[k] # NULL <=> k \in Keys(d'),
         dict_can_resize' \in BOOLEAN, ret' \in Replies
  PROVE  IInv'
BY DEF IInv, TypeOK, ValuesMatchEntries, GoodDict

\* An operation that only reorganises the tables.
LEMMA IInvReorganised ==
  ASSUME IInv, GoodDict(d'), Keys(d') = Keys(d), val' = val,
         dict_can_resize' \in BOOLEAN, ret' \in Replies
  PROVE  IInv'
BY IInvMade DEF IInv, TypeOK, ValuesMatchEntries

\* dictAddRaw up to the insertion.
LEMMA AddRawGood ==
  ASSUME IInv, NEW allowed \in BOOLEAN, NEW k \in Key
  PROVE  /\ GoodDict(AfterAddRaw(allowed))
         /\ Keys(AfterAddRaw(allowed)) = Keys(d)
         /\ ~AddRawFails(allowed)
         /\ Lookup(AfterAddRaw(allowed), k) <=> k \in Keys(d)
         /\ k \notin Keys(d) =>
              /\ GoodDict(Insert(AfterAddRaw(allowed), k))
              /\ Keys(Insert(AfterAddRaw(allowed), k)) = Keys(d) \cup {k}
<1> DEFINE d1 == AfterAddRaw(allowed)
<1>1. GoodDict(RehashStep(d)) /\ Keys(RehashStep(d)) = Keys(d)
  BY RehashStepGood DEF IInv
<1>2. GoodDict(d1) /\ Keys(d1) = Keys(d) /\ d1.ht[0].size > 0
      /\ ~AddRawFails(allowed)
  BY <1>1, ExpandIfNeededGood DEF AfterAddRaw, AddRawFails, IInv, TypeOK
<1> HIDE DEF d1
<1>3. Lookup(d1, k) <=> k \in Keys(d)
  BY <1>2, LookupIff
<1>4. k \notin Keys(d) => GoodDict(Insert(d1, k)) /\ Keys(Insert(d1, k)) = Keys(d) \cup {k}
  BY <1>2, InsertGood
<1> QED BY <1>2, <1>3, <1>4 DEF d1

\* A key is found after the rehash step of dictFind iff it was there before.
LEMMA RehashStepLookup ==
  ASSUME IInv, dictSize(d) # 0, NEW k \in Key
  PROVE  Lookup(RehashStep(d), k) <=> k \in Keys(d)
<1>1. GoodDict(RehashStep(d)) /\ Keys(RehashStep(d)) = Keys(d)
  BY RehashStepGood DEF IInv
<1>2. Keys(d) # {}
  BY SizeOfGood DEF IInv
<1>3. RehashStep(d).ht[0].size > 0
  BY <1>1, <1>2, SizeOfGood
<1> QED BY <1>1, <1>3, LookupIff

\* dictAdd keeps the dictionary sound, with the rehash step and the expansion it does.
LEMMA AddKeepsIInv ==
  ASSUME IInv, NEW k \in Key, NEW v \in Val, NEW allowed \in BOOLEAN,
         dictAdd(k, v, allowed)
  PROVE  IInv'
<1> DEFINE d1 == AfterAddRaw(allowed)
<1>1. dict_can_resize' \in BOOLEAN /\ val \in [Key -> Val \cup {NULL}]
  BY DEF dictAdd, IInv, TypeOK
<1>2. ret' \in Replies
  BY DEF dictAdd, Reply, Replies
<1>3. CASE k \in Keys(d)
  <2>1. d' = d1 /\ val' = val
    BY <1>3, AddRawGood DEF dictAdd
  <2> QED BY <2>1, <1>1, <1>2, AddRawGood, IInvReorganised
<1>4. CASE k \notin Keys(d)
  <2>1. d' = Insert(d1, k) /\ val' = [val EXCEPT ![k] = v]
    BY <1>4, AddRawGood DEF dictAdd
  <2>2. GoodDict(d') /\ Keys(d') = Keys(d) \cup {k}
    BY <2>1, <1>4, AddRawGood
  <2>3. val' \in [Key -> Val \cup {NULL}]
    BY <2>1, <1>1
  <2>4. \A q \in Key : val'[q] # NULL <=> q \in Keys(d')
    BY <2>1, <2>2, <1>1, ValAssumption DEF IInv, ValuesMatchEntries
  <2> QED BY <1>1, <1>2, <2>2, <2>3, <2>4, IInvMade
<1> QED BY <1>3, <1>4

\* dictReplace keeps the dictionary sound, whether it adds or overwrites.
LEMMA ReplaceKeepsIInv ==
  ASSUME IInv, NEW k \in Key, NEW v \in Val, NEW allowed \in BOOLEAN,
         dictReplace(k, v, allowed)
  PROVE  IInv'
<1> DEFINE d1 == AfterAddRaw(allowed)
<1>1. dict_can_resize' \in BOOLEAN /\ val \in [Key -> Val \cup {NULL}]
      /\ val' = [val EXCEPT ![k] = v]
  BY DEF dictReplace, IInv, TypeOK
<1>2. ret' \in Replies
  BY DEF dictReplace, Reply, Replies
<1>3. GoodDict(d') /\ Keys(d') = Keys(d) \cup {k}
  <2>1. CASE k \in Keys(d)
    <3>1. d' = d1
      BY <2>1, AddRawGood DEF dictReplace
    <3> QED BY <3>1, <2>1, AddRawGood
  <2>2. CASE k \notin Keys(d)
    <3>1. d' = Insert(d1, k)
      BY <2>2, AddRawGood DEF dictReplace
    <3> QED BY <3>1, <2>2, AddRawGood
  <2> QED BY <2>1, <2>2
<1>4. val' \in [Key -> Val \cup {NULL}]
  BY <1>1
<1>5. \A q \in Key : val'[q] # NULL <=> q \in Keys(d')
  BY <1>1, <1>3, ValAssumption DEF IInv, ValuesMatchEntries
<1> QED BY <1>1, <1>2, <1>3, <1>4, <1>5, IInvMade

\* dictDelete keeps the dictionary sound.
LEMMA DeleteKeepsIInv ==
  ASSUME IInv, NEW k \in Key, dictDelete(k)
  PROVE  IInv'
<1> DEFINE d1 == RehashStep(d)
<1>1. dict_can_resize' \in BOOLEAN /\ val \in [Key -> Val \cup {NULL}]
  BY DEF dictDelete, IInv, TypeOK
<1>2. ret' \in Replies
  BY DEF dictDelete, Reply, Replies
<1>3. GoodDict(d1) /\ Keys(d1) = Keys(d)
  BY RehashStepGood DEF IInv
<1>4. CASE dictSize(d) = 0
  BY <1>1, <1>2, <1>4, IInvReorganised DEF dictDelete, IInv
<1>5. CASE dictSize(d) # 0 /\ k \notin Keys(d)
  <2>1. d' = d1 /\ val' = val
    BY <1>5, RehashStepLookup DEF dictDelete
  <2> QED BY <2>1, <1>1, <1>2, <1>3, IInvReorganised
<1>6. CASE dictSize(d) # 0 /\ k \in Keys(d)
  <2>1. d' = Unlink(d1, k) /\ val' = [val EXCEPT ![k] = NULL]
    BY <1>6, RehashStepLookup DEF dictDelete
  <2>2. GoodDict(d') /\ Keys(d') = Keys(d) \ {k}
    BY <2>1, <1>3, <1>6, UnlinkGood
  <2>3. val' \in [Key -> Val \cup {NULL}]
    BY <2>1, <1>1
  <2>4. \A q \in Key : val'[q] # NULL <=> q \in Keys(d')
    BY <2>1, <2>2, <1>1 DEF IInv, ValuesMatchEntries
  <2> QED BY <1>1, <1>2, <2>2, <2>3, <2>4, IInvMade
<1> QED BY <1>4, <1>5, <1>6

\* The buckets dictGetRandomKey draws from hold all the entries, and only
\* entries of the dictionary.
LEMMA RandomSlotsCover ==
  ASSUME NEW dd, GoodDict(dd)
  PROVE  /\ \A h \in RandomSlots(dd) : ChainAt(dd, h) \subseteq Keys(dd)
         /\ \A k \in Keys(dd) : \E h \in RandomSlots(dd) : k \in ChainAt(dd, h)
<1> DEFINE h0 == dd.ht[0]
           h1 == dd.ht[1]
<1>1. h0.size \in Nat /\ h1.size \in Nat /\ dd.rehashidx \in Int
  BY DEF GoodDict, GoodTable, IsTable, IsDict
<1>2. CASE dictIsRehashing(dd)
  <2>1. /\ dd.rehashidx \in Nat /\ dd.rehashidx < h0.size
        /\ \A i \in 0..(dd.rehashidx - 1) : h0.table[i] = {}
    BY <1>1, <1>2 DEF GoodDict, RehashShape
  <2>2. ASSUME NEW h \in RandomSlots(dd) PROVE ChainAt(dd, h) \subseteq Keys(dd)
    <3>1. h \in dd.rehashidx..(h0.size + h1.size - 1)
      <4>1. RandomSlots(dd) = dd.rehashidx..(dictSlots(dd) - 1)
        BY <1>2 DEF RandomSlots
      <4>2. dictSlots(dd) = h0.size + h1.size
        BY DEF dictSlots
      <4> QED BY <4>1, <4>2, <1>1, <2>1
    <3>2. CASE h >= h0.size
      <4>1. h - h0.size \in Buckets(h1)
        BY <3>1, <3>2, <1>1, <2>1 DEF Buckets
      <4> QED BY <4>1, <3>2 DEF ChainAt, Keys, KeysIn
    <3>3. CASE ~(h >= h0.size)
      <4>1. h \in Buckets(h0)
        BY <3>1, <3>3, <1>1, <2>1 DEF Buckets
      <4> QED BY <4>1, <3>3 DEF ChainAt, Keys, KeysIn
    <3> QED BY <3>2, <3>3
  <2>3. ASSUME NEW k \in Keys(dd) PROVE \E h \in RandomSlots(dd) : k \in ChainAt(dd, h)
    <3>1. CASE k \in KeysIn(h0)
      <4>1. PICK i \in Buckets(h0) : k \in h0.table[i]
        BY <3>1 DEF KeysIn
      <4>2. i >= dd.rehashidx
        BY <4>1, <2>1, <1>1, SMTT(60) DEF Buckets
      <4>3. i \in RandomSlots(dd) /\ ChainAt(dd, i) = h0.table[i]
        BY <4>2, <1>1, <1>2, <2>1 DEF RandomSlots, dictSlots, ChainAt, Buckets
      <4> QED BY <4>1, <4>3
    <3>2. CASE k \in KeysIn(h1)
      <4>1. PICK i \in Buckets(h1) : k \in h1.table[i]
        BY <3>2 DEF KeysIn
      <4>2. i + h0.size \in RandomSlots(dd) /\ i + h0.size >= h0.size
            /\ (i + h0.size) - h0.size = i
        BY <1>1, <1>2, <2>1 DEF RandomSlots, dictSlots, Buckets
      <4>3. ChainAt(dd, i + h0.size) = h1.table[i]
        BY <4>2 DEF ChainAt
      <4> QED BY <4>1, <4>2, <4>3
    <3> QED BY <3>1, <3>2 DEF Keys
  <2> QED BY <2>2, <2>3
<1>3. CASE ~dictIsRehashing(dd)
  <2>1. Keys(dd) = KeysIn(h0)
    BY <1>3, EmptyTableGood DEF GoodDict, RehashShape, Keys
  <2>2. RandomSlots(dd) = Buckets(h0)
    BY <1>3 DEF RandomSlots, Buckets
  <2>3. \A h \in Buckets(h0) : ChainAt(dd, h) = h0.table[h]
    BY <1>1 DEF ChainAt, Buckets
  <2> QED BY <2>1, <2>2, <2>3 DEF KeysIn
<1> QED BY <1>2, <1>3, SMTT(60)

\* dictFind and dictGetRandomKey change the dictionary by a rehash step only.
LEMMA QueriesKeepIInv ==
  ASSUME IInv, dictGetRandomKey \/ \E k \in Key : dictFind(k)
  PROVE  IInv'
<1>1. GoodDict(RehashStep(d)) /\ Keys(RehashStep(d)) = Keys(d) /\ GoodDict(d)
      /\ Keys(d) \in SUBSET Key
  BY RehashStepGood, SizeOfGood DEF IInv
<1>2. /\ d' = d \/ d' = RehashStep(d)
      /\ val' = val /\ dict_can_resize' \in BOOLEAN
  BY DEF dictGetRandomKey, dictFind, IInv, TypeOK
<1>3. ret' \in Replies
  <2>1. CASE dictGetRandomKey
    <3>1. \A h \in RandomSlots(RehashStep(d)) : ChainAt(RehashStep(d), h) \subseteq Key
      BY <1>1, RandomSlotsCover
    <3> QED BY <2>1, <3>1 DEF dictGetRandomKey, Reply, Replies
  <2>2. ASSUME NEW k \in Key, dictFind(k) PROVE ret' \in Replies
    <3>1. val[k] \in Val \cup {NULL}
      BY DEF IInv, TypeOK
    <3> QED BY <2>2, <3>1 DEF dictFind, Reply, Replies
  <2> QED BY <2>1, <2>2
<1> QED BY <1>1, <1>2, <1>3, IInvReorganised

\* Resizing, expanding, pausing and rehashing from serverCron keep the dictionary
\* sound and its keys the same.
LEMMA MaintenanceKeepsIInv ==
  ASSUME IInv,
         \/ \E n \in ExpandHints : dictExpand(n)
         \/ dictResize \/ dictRehashMilliseconds
         \/ dictPauseRehashing \/ dictResumeRehashing \/ updateDictResizePolicy
  PROVE  IInv' /\ Keys(d') = Keys(d) /\ UNCHANGED <<val, ret>>
<1>0. /\ GoodDict(d) /\ ret \in Replies /\ dict_can_resize \in BOOLEAN
      /\ d.pauserehash \in Nat
  BY DEF IInv, TypeOK, IsDict
<1>1. UNCHANGED <<val, ret>> /\ dict_can_resize' \in BOOLEAN /\ ret' \in Replies
  BY <1>0, Zenon DEF dictExpand, dictResize, dictRehashMilliseconds, CronMayRehash, dictPauseRehashing,
              dictResumeRehashing, updateDictResizePolicy
<1>2. ASSUME NEW p \in Nat
      PROVE  LET e == DictOf(d.ht[0], d.ht[1], d.rehashidx, p)
             IN  GoodDict(e) /\ Keys(e) = Keys(d)
  BY <1>0, DictOfGood, Zenon DEF GoodDict, RehashShape, OneEntry, dictIsRehashing, IsDict, Keys
<1>3. GoodDict(d') /\ Keys(d') = Keys(d)
  <2>1. ASSUME NEW n \in ExpandHints, dictExpand(n) PROVE GoodDict(d') /\ Keys(d') = Keys(d)
    BY <2>1, <1>0, ExpandGood DEF dictExpand, Requests
  <2>2. CASE dictResize
    <3>0. d.ht[0].used \in 0..Cardinality(Key) /\ Cardinality(Key) \in Nat
      BY <1>0, SizeOfGood, KeyAssumption, FS_CardinalityType
    <3>1. d.ht[0].used \in Requests
      BY <3>0 DEF Requests
    <3>2. PICK n \in Requests \cup {InitialSize} : d' = Expand(d, n)
      BY <2>2, <3>1 DEF dictResize
    <3> QED BY <3>2, <1>0, ExpandGood
  <2>3. CASE dictRehashMilliseconds
    BY <2>3, <1>0, RehashGood, ParamAssumption DEF dictRehashMilliseconds, CronMayRehash
  <2>4. CASE dictPauseRehashing
    BY <2>4, <1>0, <1>2 DEF dictPauseRehashing
  <2>5. CASE dictResumeRehashing
    BY <2>5, <1>0, <1>2 DEF dictResumeRehashing
  <2>6. CASE updateDictResizePolicy
    BY <2>6, <1>0 DEF updateDictResizePolicy
  <2> QED BY <2>1, <2>2, <2>3, <2>4, <2>5, <2>6
<1> QED BY <1>1, <1>3, IInvReorganised

\* dictEmpty leaves the empty dictionary.
LEMMA EmptyKeepsIInv ==
  ASSUME IInv, dictEmpty
  PROVE  IInv' /\ Keys(d') = {}
<1>1. GoodDict(d') /\ Keys(d') = {}
  BY EmptyTableGood, DictOfGood DEF dictEmpty, EmptyDict
<1>2. val' = [k \in Key |-> NULL] /\ dict_can_resize' \in BOOLEAN /\ ret' \in Replies
  BY DEF dictEmpty, Reply, Replies, IInv, TypeOK
<1> QED BY <1>1, <1>2, IInvMade

\* Every operation keeps the dictionary sound.
LEMMA IInvNext == IInv /\ [Next]_vars => IInv'
<1> SUFFICES ASSUME IInv, [Next]_vars PROVE IInv'
  OBVIOUS
<1>1. CASE UNCHANGED vars
  <2>1. d' = d /\ val' = val /\ dict_can_resize' = dict_can_resize /\ ret' = ret
    BY <1>1 DEF vars
  <2> QED BY <2>1, IInvReorganised DEF IInv, TypeOK
<1>2. ASSUME NEW k \in Key, NEW v \in Val, NEW allowed \in BOOLEAN,
             dictAdd(k, v, allowed) \/ dictReplace(k, v, allowed)
      PROVE  IInv'
  BY <1>2, AddKeepsIInv, ReplaceKeepsIInv
<1>3. ASSUME NEW k \in Key, dictDelete(k) PROVE IInv'
  BY <1>3, DeleteKeepsIInv
<1>4. CASE dictGetRandomKey \/ \E k \in Key : dictFind(k)
  BY <1>4, QueriesKeepIInv
<1>5. CASE \/ \E n \in ExpandHints : dictExpand(n)
           \/ dictResize \/ dictRehashMilliseconds
           \/ dictPauseRehashing \/ dictResumeRehashing \/ updateDictResizePolicy
  BY <1>5, MaintenanceKeepsIInv
<1>6. CASE dictEmpty
  BY <1>6, EmptyKeepsIInv
<1> QED BY <1>1, <1>2, <1>3, <1>4, <1>5, <1>6 DEF Next

\* The dictionary is sound in every reachable state.
LEMMA IInvAlways == Spec => []IInv
BY IInvInit, IInvNext, PTL DEF Spec

-----------------------------------------------------------------------------
(* Theorems *)

\* The tables, counters and values keep their types in every run of dict.c.
THEOREM TypeCorrect == Spec => []TypeOK
<1>1. IInv => TypeOK
  BY DEF IInv
<1> QED BY <1>1, IInvAlways, PTL

\* The four facts the search, the insertion and the end of a rehash rest on:
\* entries hang in the bucket of their hash, no key is in both tables, used
\* is exact, and the rehash index is in range with nothing below it.
THEOREM TablesSound ==
  Spec => [](EntriesPlaced /\ OneEntryPerKey /\ UsedIsExact /\ RehashIndexSound)
<1>1. IInv => EntriesPlaced /\ OneEntryPerKey /\ UsedIsExact /\ RehashIndexSound
  BY DEF IInv, GoodDict, GoodTable, EntriesPlaced, Placed, OneEntryPerKey,
         UsedIsExact, Counted, RehashIndexSound
<1> QED BY <1>1, IInvAlways, PTL

\* The do-while of dictGetRandomKey can always end on a non-empty dictionary.
THEOREM RandomKeyEnds == Spec => []RandomKeyCanEnd
<1>1. IInv => RandomKeyCanEnd
  <2> SUFFICES ASSUME IInv, dictSize(d) # 0
               PROVE  \E h \in RandomSlots(RehashStep(d)) : ChainAt(RehashStep(d), h) # {}
    BY DEF RandomKeyCanEnd
  <2>1. GoodDict(RehashStep(d)) /\ Keys(RehashStep(d)) # {}
    BY RehashStepGood, SizeOfGood DEF IInv
  <2> QED BY <2>1, RandomSlotsCover
<1> QED BY <1>1, IInvAlways, PTL

-----------------------------------------------------------------------------
(* Refinement *)

AbsMap == [k \in Key |-> IF k \in Keys(d) THEN val[k] ELSE NULL]

\* The abstract map is the function of values itself.
LEMMA AbsMapIsVal ==
  ASSUME IInv
  PROVE  AbsMap = val /\ Map!Present = Keys(d)
<1>1. val \in [Key -> Val \cup {NULL}] /\ \A k \in Key : val[k] # NULL <=> k \in Keys(d)
  BY DEF IInv, TypeOK, ValuesMatchEntries
<1>2. AbsMap = val
  BY <1>1 DEF AbsMap
<1>3. Keys(d) \in SUBSET Key
  BY SizeOfGood DEF IInv
<1>4. Map!Present = {k \in Key : AbsMap[k] # NULL}
  BY DEF Map!Present, AbsMap
<1>5. {k \in Key : AbsMap[k] # NULL} = Keys(d)
  BY <1>1, <1>2, <1>3
<1> QED BY <1>2, <1>4, <1>5

\* The map a sound dictionary stands for is its values on its keys, also after a step.
LEMMA AbsMapIsValNext ==
  ASSUME IInv'
  PROVE  AbsMap' = val'
<1>1. val' \in [Key -> Val \cup {NULL}] /\ \A k \in Key : val'[k] # NULL <=> k \in Keys(d')
  BY DEF IInv, TypeOK, ValuesMatchEntries
<1>2. AbsMap' = [k \in Key |-> IF k \in Keys(d') THEN val'[k] ELSE NULL]
  BY DEF AbsMap
<1> QED BY <1>1, <1>2

\* dictAdd and dictReplace are the Add and the Replace of the map.
LEMMA AddRefines ==
  ASSUME IInv, IInv', NEW k \in Key, NEW v \in Val, NEW allowed \in BOOLEAN
  PROVE  /\ dictAdd(k, v, allowed) => Map!Add(k, v)
         /\ dictReplace(k, v, allowed) => Map!Replace(k, v)
<1>1. AbsMap = val /\ Map!Present = Keys(d)
  BY AbsMapIsVal
<1>2. AbsMap' = val'
  BY AbsMapIsValNext, SMTT(60)
<1>3. /\ Map!Add(k, v) <=>
           IF k \in Map!Present
             THEN AbsMap' = AbsMap /\ ret' = [op |-> "add", key |-> k, res |-> "err"]
             ELSE /\ AbsMap' = [AbsMap EXCEPT ![k] = v]
                  /\ ret' = [op |-> "add", key |-> k, res |-> "ok"]
      /\ Map!Replace(k, v) <=>
           /\ AbsMap' = [AbsMap EXCEPT ![k] = v]
           /\ ret' = [op |-> "replace", key |-> k,
                      res |-> IF k \in Map!Present THEN "updated" ELSE "added"]
  BY DEF Map!Add, Map!Replace, Map!Answer, AbsMap
<1>4. ASSUME dictAdd(k, v, allowed) PROVE Map!Add(k, v)
  BY <1>1, <1>2, <1>3, <1>4, AddRawGood DEF dictAdd, Reply
<1>5. ASSUME dictReplace(k, v, allowed) PROVE Map!Replace(k, v)
  <2>1. ~AddRawFails(allowed) /\ (Lookup(AfterAddRaw(allowed), k) <=> k \in Keys(d))
    BY AddRawGood
  <2>2. val' = [val EXCEPT ![k] = v]
    BY <1>5 DEF dictReplace
  <2>3. ret' = [op |-> "replace", key |-> k,
                res |-> IF k \in Keys(d) THEN "updated" ELSE "added"]
    <3>1. CASE k \in Keys(d)
      BY <1>5, <2>1, <3>1 DEF dictReplace, Reply
    <3>2. CASE k \notin Keys(d)
      BY <1>5, <2>1, <3>2 DEF dictReplace, Reply
    <3> QED BY <3>1, <3>2
  <2> QED BY <1>1, <1>2, <1>3, <2>2, <2>3
<1> QED BY <1>4, <1>5

\* dictDelete and dictFind are the Delete and the Find of the map.
LEMMA DeleteRefines ==
  ASSUME IInv, IInv', NEW k \in Key
  PROVE  /\ dictDelete(k) => Map!Delete(k)
         /\ dictFind(k) => Map!Find(k)
<1>1. AbsMap = val /\ Map!Present = Keys(d)
  BY AbsMapIsVal
<1>2. AbsMap' = val'
  BY AbsMapIsValNext, SMTT(60)
<1>3. /\ Map!Delete(k) <=>
           /\ AbsMap' = [AbsMap EXCEPT ![k] = NULL]
           /\ ret' = [op |-> "delete", key |-> k,
                      res |-> IF k \in Map!Present THEN "ok" ELSE "err"]
      /\ Map!Find(k) <=>
           /\ AbsMap' = AbsMap
           /\ ret' = [op |-> "find", key |-> k, res |-> AbsMap[k]]
  BY SMTT(60) DEF Map!Delete, Map!Find, Map!Answer, AbsMap
<1>4. /\ val \in [Key -> Val \cup {NULL}] /\ (val[k] # NULL <=> k \in Keys(d))
      /\ dictSize(d) = 0 => k \notin Keys(d)
  BY SizeOfGood DEF IInv, TypeOK, ValuesMatchEntries
<1>5. ASSUME dictDelete(k) PROVE Map!Delete(k)
  <2>1. CASE k \in Keys(d)
    <3>1. /\ val' = [val EXCEPT ![k] = NULL]
          /\ ret' = [op |-> "delete", key |-> k, res |-> "ok"]
      BY <1>4, <1>5, <2>1, RehashStepLookup DEF dictDelete, Reply
    <3> QED BY <3>1, <2>1, <1>1, <1>2, <1>3
  <2>2. CASE k \notin Keys(d)
    <3>1. val' = val /\ ret' = [op |-> "delete", key |-> k, res |-> "err"]
      BY <1>5, <2>2, RehashStepLookup DEF dictDelete, Reply
    <3>2. val = [val EXCEPT ![k] = NULL]
      BY <1>4, <2>2
    <3> QED BY <3>1, <3>2, <2>2, <1>1, <1>2, <1>3
  <2> QED BY <2>1, <2>2
<1>6. ASSUME dictFind(k) PROVE Map!Find(k)
  <2>1. val' = val
    BY <1>6 DEF dictFind
  <2>2. ret' = [op |-> "find", key |-> k, res |-> val[k]]
    <3>1. CASE k \in Keys(d)
      BY <1>4, <1>6, <3>1, RehashStepLookup DEF dictFind, Reply
    <3>2. CASE k \notin Keys(d)
      BY <1>4, <1>6, <3>2, RehashStepLookup DEF dictFind, Reply
    <3> QED BY <3>1, <3>2
  <2> QED BY <2>1, <2>2, <1>1, <1>2, <1>3
<1> QED BY <1>5, <1>6

\* A random pick and dictEmpty are those of the map; what leaves values and reply
\* alone is a stutter of it.
LEMMA OthersRefine ==
  ASSUME IInv, IInv'
  PROVE  /\ dictGetRandomKey => Map!Random
         /\ dictEmpty => Map!Clear
         /\ UNCHANGED <<val, ret>> => UNCHANGED Map!mapVars
<1>1. AbsMap = val /\ Map!Present = Keys(d)
  BY AbsMapIsVal
<1>2. AbsMap' = val'
  BY AbsMapIsValNext, SMTT(60)
<1>3. /\ Map!Random <=>
           /\ AbsMap' = AbsMap
           /\ \/ /\ Map!Present = {}
                 /\ ret' = [op |-> "random", key |-> NULL, res |-> NULL]
              \/ \E k \in Map!Present :
                   ret' = [op |-> "random", key |-> NULL, res |-> k]
      /\ Map!Clear <=> /\ AbsMap' = [k \in Key |-> NULL]
                       /\ ret' = [op |-> "empty", key |-> NULL, res |-> NULL]
      /\ UNCHANGED Map!mapVars <=> AbsMap' = AbsMap /\ ret' = ret
  BY DEF Map!Random, Map!Clear, Map!Answer, Map!mapVars, AbsMap
<1>4. ASSUME dictGetRandomKey PROVE Map!Random
  <2>1. val' = val
    BY <1>4 DEF dictGetRandomKey
  <2>2. CASE dictSize(d) = 0
    <3>1. Keys(d) = {}
      BY <2>2, SizeOfGood DEF IInv
    <3>2. ret' = [op |-> "random", key |-> NULL, res |-> NULL]
      BY <1>4, <2>2 DEF dictGetRandomKey, Reply
    <3> QED BY <2>1, <3>1, <3>2, <1>1, <1>2, <1>3
  <2>3. CASE dictSize(d) # 0
    <3>1. GoodDict(RehashStep(d)) /\ Keys(RehashStep(d)) = Keys(d)
      BY RehashStepGood, SMTT(60) DEF IInv
    <3>2. PICK h \in RandomSlots(RehashStep(d)) : \E k \in ChainAt(RehashStep(d), h) :
             ret' = [op |-> "random", key |-> NULL, res |-> k]
      BY <1>4, <2>3 DEF dictGetRandomKey, Reply
    <3>3. ChainAt(RehashStep(d), h) \subseteq Keys(d)
      BY <3>1, RandomSlotsCover
    <3> QED BY <2>1, <3>2, <3>3, <1>1, <1>2, <1>3
  <2> QED BY <2>2, <2>3
<1>5. ASSUME dictEmpty PROVE Map!Clear
  BY <1>2, <1>3, <1>5 DEF dictEmpty, Reply
<1>6. ASSUME UNCHANGED <<val, ret>> PROVE UNCHANGED Map!mapVars
  BY <1>1, <1>2, <1>3, <1>6
<1> QED BY <1>4, <1>5, <1>6

\* dict.c implements the key-value map: with a rehash step hidden in every
\* operation, with insertions split over two tables and with resizes in
\* between, each call changes the map and answers as KVMap says.
THEOREM DictRefinesMap == Spec => RefinesMap
<1>1. Init => Map!Init
  <2> SUFFICES ASSUME Init PROVE Map!Init
    OBVIOUS
  <2>1. IInv
    BY IInvInit
  <2>2. AbsMap = [k \in Key |-> NULL] /\ ret = [op |-> "empty", key |-> NULL, res |-> NULL]
    BY <2>1, AbsMapIsVal DEF Init
  <2> QED BY <2>2 DEF Map!Init, AbsMap
<1>2. IInv /\ IInv' /\ [Next]_vars => [Map!Next]_Map!mapVars
  <2> SUFFICES ASSUME IInv, IInv', [Next]_vars PROVE [Map!Next]_Map!mapVars
    OBVIOUS
  <2>1. CASE UNCHANGED vars
    BY <2>1, OthersRefine DEF vars
  <2>2. ASSUME NEW k \in Key, NEW v \in Val, NEW allowed \in BOOLEAN,
               dictAdd(k, v, allowed) \/ dictReplace(k, v, allowed)
        PROVE  Map!Next
    BY <2>2, AddRefines DEF Map!Next
  <2>3. ASSUME NEW k \in Key, dictDelete(k) \/ dictFind(k) PROVE Map!Next
    BY <2>3, DeleteRefines DEF Map!Next
  <2>4. CASE dictGetRandomKey \/ dictEmpty
    BY <2>4, OthersRefine DEF Map!Next
  <2>5. CASE \/ \E n \in ExpandHints : dictExpand(n)
             \/ dictResize \/ dictRehashMilliseconds
             \/ dictPauseRehashing \/ dictResumeRehashing \/ updateDictResizePolicy
    BY <2>5, MaintenanceKeepsIInv, OthersRefine
  <2> QED BY <2>1, <2>2, <2>3, <2>4, <2>5 DEF Next
<1> QED BY <1>1, <1>2, IInvAlways, PTL DEF Spec, RefinesMap, Map!Spec

=============================================================================
