----------------------------- MODULE Quicklist ------------------------------
(***************************************************************************)
(* The quicklist (quicklist.c): the list type as a list of ziplists, whose *)
(* nodes away from both ends may be compressed, and the operations of the  *)
(* list type on it (t_list.c).                                             *)
(*                                                                         *)
(* Abstractions.  The doubly linked nodes are a sequence, and a pointer to *)
(* a node is its id.  A compressed node keeps the ziplist it stands for;   *)
(* a ziplist function applied to a compressed node is recorded in ok, for  *)
(* it reads the wrong bytes.  LZF shrinks every ziplist of at least        *)
(* MIN_COMPRESS_BYTES bytes but those that hold a value of Noise.          *)
(***************************************************************************)
EXTENDS Ziplist

LOCAL INSTANCE SequencesExt
LOCAL INSTANCE FiniteSetsExt

CONSTANTS
  optimization_level,  \* the sizes in bytes of a fill of -1, -2, ...
  SIZE_SAFETY_LIMIT,   \* the most bytes of a node with several entries
  MIN_COMPRESS_BYTES,  \* smaller nodes are not compressed
  Noise                \* values LZF does not make smaller

NoNode == 0

quicklistNew(fill, depth) ==
  [nodes |-> <<>>, count |-> 0, fill |-> fill, compress |-> depth,
   marks |-> [m \in {} |-> NoNode], ok |-> TRUE]

(* A new node takes an id no node has. *)
FreshId(ql) ==
  CHOOSE i \in 1..Len(ql.nodes) + 1 :
    \A k \in 1..Len(ql.nodes) : ql.nodes[k].id # i

quicklistCreateNode(ql, zl) ==
  [id |-> FreshId(ql), zl |-> zl, count |-> Len(zl.es), sz |-> zl.bytes,
   lzf |-> FALSE, recompress |-> FALSE]

Nodes(ql) == 1..Len(ql.nodes)
Pos(ql, id) ==
  IF \E k \in Nodes(ql) : ql.nodes[k].id = id
  THEN CHOOSE k \in Nodes(ql) : ql.nodes[k].id = id ELSE NoNode
Has(ql, k) == k \in Nodes(ql)
IdAt(ql, k) == IF Has(ql, k) THEN ql.nodes[k].id ELSE NoNode

(* The ziplist of node k becomes zl: a node that is compressed holds none. *)
Store(ql, k, zl, count) ==
  [ql EXCEPT !.ok = @ /\ ~ql.nodes[k].lzf,
             !.nodes[k] = [@ EXCEPT !.zl = zl, !.sz = zl.bytes, !.count = count]]

-----------------------------------------------------------------------------
(* Compression *)

LzfShrinks(zl) == \A i \in 1..Len(zl.es) : zl.es[i].c.v \notin Noise

quicklistCompressNode(ql, k) ==
  IF Has(ql, k) /\ ~ql.nodes[k].lzf /\ ql.nodes[k].sz >= MIN_COMPRESS_BYTES
     /\ LzfShrinks(ql.nodes[k].zl)
  THEN [ql EXCEPT !.nodes[k] = [@ EXCEPT !.lzf = TRUE, !.recompress = FALSE]]
  ELSE ql

quicklistDecompressNode(ql, k) ==
  IF Has(ql, k) /\ ql.nodes[k].lzf
  THEN [ql EXCEPT !.nodes[k].lzf = FALSE] ELSE ql

quicklistDecompressNodeForUse(ql, k) ==
  IF Has(ql, k) /\ ql.nodes[k].lzf
  THEN [ql EXCEPT !.nodes[k] = [@ EXCEPT !.lzf = FALSE, !.recompress = TRUE]]
  ELSE ql

(* The nodes within the depth of an end are decompressed, and the one at k *)
(* and the first ones beyond the depth are compressed.  A walk from both   *)
(* ends that meets itself compresses nothing.                              *)
__quicklistCompress(ql, k) ==
  LET d == ql.compress
      n == Len(ql.nodes)
      Depth == {i \in 1..n : i <= d \/ i > n - d}
      raw == FoldSet(LAMBDA i, q : quicklistDecompressNode(q, i), ql, Depth)
      inner == IF k \in Depth THEN raw ELSE quicklistCompressNode(raw, k)
  IN  CASE d = 0 \/ n < 2 * d -> ql
        [] d > 0 /\ n = 2 * d -> raw
        [] OTHER ->
             quicklistCompressNode(quicklistCompressNode(inner, d + 1), n - d)

quicklistRecompressOnly(ql, k) ==
  IF ql.nodes[k].recompress THEN quicklistCompressNode(ql, k) ELSE ql

quicklistCompress(ql, k) ==
  IF ql.nodes[k].recompress THEN quicklistCompressNode(ql, k)
  ELSE __quicklistCompress(ql, k)

-----------------------------------------------------------------------------
(* Nodes *)

(* node is linked before position k (after = FALSE) or after it; position  *)
(* NoNode is the empty list.                                               *)
__quicklistInsertNode(ql, k, node, after) ==
  LET at == IF k = NoNode THEN 1 ELSE IF after THEN k + 1 ELSE k
      q == [ql EXCEPT !.nodes = InsertAt(@, at, node)]
  IN  IF k = NoNode THEN q ELSE quicklistCompress(q, IF after THEN k ELSE k + 1)

(* A bookmark moves on to the next node, and goes with the last one. *)
__quicklistDelNode(ql, k) ==
  LET id == ql.nodes[k].id
      next == IdAt(ql, k + 1)
      gone == {m \in DOMAIN ql.marks : ql.marks[m] = id /\ next = NoNode}
  IN  __quicklistCompress(
        [ql EXCEPT !.nodes = RemoveAt(@, k),
                   !.count = @ - ql.nodes[k].count,
                   !.marks = [m \in DOMAIN @ \ gone |->
                                IF @[m] = id THEN next ELSE @[m]]], NoNode)

Digits(n) ==
  LET D[m \in Nat] == IF m < 10 THEN 1 ELSE 1 + D[m \div 10]
  IN  IF n < 0 THEN 1 + D[-n] ELSE D[n]

StrLen(v) == IF v[1] = "str" THEN v[3] ELSE Digits(v[2])

_quicklistNodeSizeMeetsOptimizationRequirement(sz, fill) ==
  /\ fill < 0
  /\ -fill <= Len(optimization_level)
  /\ sz <= optimization_level[-fill]

(* Whether a size and a number of entries fit in one node. *)
Fits(sz, count, fill) ==
  \/ _quicklistNodeSizeMeetsOptimizationRequirement(sz, fill)
  \/ sz <= SIZE_SAFETY_LIMIT /\ count <= fill

_quicklistNodeAllowInsert(ql, k, v) ==
  /\ Has(ql, k)
  /\ LET sz == StrLen(v)
         overhead == (IF sz < 254 THEN 1 ELSE 5)
                     + (IF sz < 64 THEN 1 ELSE IF sz < 16384 THEN 2 ELSE 5)
     IN  Fits(ql.nodes[k].sz + sz + overhead, ql.nodes[k].count + 1, ql.fill)

_quicklistNodeAllowMerge(ql, j, k) ==
  /\ Has(ql, j) /\ Has(ql, k)
  /\ Fits(ql.nodes[j].sz + ql.nodes[k].sz - 11,
          ql.nodes[j].count + ql.nodes[k].count, ql.fill)

-----------------------------------------------------------------------------
(* Both ends *)

EndPos(ql, where) == IF where = "head" THEN 1 ELSE Len(ql.nodes)

quicklistPush(ql, v, where) ==
  LET k == EndPos(ql, where)
      fresh == ziplistPush(ziplistNew, v, where)
      q == IF _quicklistNodeAllowInsert(ql, k, v)
           THEN Store(ql, k, ziplistPush(ql.nodes[k].zl, v, where),
                      ql.nodes[k].count + 1)
           ELSE __quicklistInsertNode(ql, IF Has(ql, k) THEN k ELSE NoNode,
                  quicklistCreateNode(ql, fresh), where = "tail")
  IN  [q EXCEPT !.count = @ + 1]

(* One entry of node k is deleted, and the node with its last entry. *)
quicklistDelIndex(ql, k, zi) ==
  LET q == Store(ql, k, ziplistDelete(ql.nodes[k].zl, zi), ql.nodes[k].count - 1)
      left == IF ql.nodes[k].count = 1 THEN __quicklistDelNode(q, k) ELSE q
  IN  [left EXCEPT !.count = @ - 1]

(* The value at an end. *)
EndValue(ql, where) ==
  LET k == EndPos(ql, where)
      zl == ql.nodes[k].zl
  IN  ziplistGet(zl, ziplistIndex(zl, IF where = "head" THEN 0 ELSE -1))

quicklistPop(ql, where) ==
  LET k == EndPos(ql, where)
  IN  IF ql.count = 0 THEN ql
      ELSE quicklistDelIndex(ql, k, ziplistIndex(ql.nodes[k].zl,
                                      IF where = "head" THEN 0 ELSE -1))

(* The tail entry is pushed to the head, then deleted. *)
quicklistRotate(ql) ==
  IF ql.count <= 1 THEN ql
  ELSE LET q == quicklistPush(ql, EndValue(ql, "tail"), "head")
       IN  quicklistPop(q, "tail")

-----------------------------------------------------------------------------
(* Positions *)

NoEntry == [k |-> NoNode, off |-> 0, zi |-> Nil]

(* The node that holds the entry with an index, and its offset there,      *)
(* counted from the same end as the index.                                 *)
Locate(ql, idx) ==
  LET n == Len(ql.nodes)
      want == IF idx < 0 THEN -idx - 1 ELSE idx
      Walk[k \in Int, accum \in Nat] ==
        IF ~Has(ql, k) THEN NoEntry
        ELSE IF accum + ql.nodes[k].count > want
        THEN [k |-> k, zi |-> Nil,
              off |-> IF idx < 0 THEN -want - 1 + accum ELSE want - accum]
        ELSE Walk[IF idx < 0 THEN k - 1 ELSE k + 1, accum + ql.nodes[k].count]
  IN  IF want >= ql.count THEN NoEntry ELSE Walk[IF idx < 0 THEN n ELSE 1, 0]

(* The list, with the node of the entry decompressed for use, and the      *)
(* entry.                                                                  *)
quicklistIndex(ql, idx) ==
  LET e == Locate(ql, idx)
  IN  IF e = NoEntry THEN [ql |-> ql, e |-> NoEntry]
      ELSE [ql |-> quicklistDecompressNodeForUse(ql, e.k),
            e |-> [e EXCEPT !.zi = ziplistIndex(ql.nodes[e.k].zl, e.off)]]

ValueAt(ql, e) == ziplistGet(ql.nodes[e.k].zl, e.zi)

quicklistReplaceAtIndex(ql, idx, v) ==
  LET x == quicklistIndex(ql, idx)
      k == x.e.k
      q == Store(x.ql, k, ziplistReplace(x.ql.nodes[k].zl, x.e.zi, v),
                 x.ql.nodes[k].count)
  IN  IF x.e = NoEntry THEN ql ELSE quicklistCompress(q, k)

-----------------------------------------------------------------------------
(* Splitting and merging *)

(* Nodes j and j + 1 become one: the one with more entries is kept. *)
_quicklistZiplistMerge(ql, j) ==
  LET raw == quicklistDecompressNode(quicklistDecompressNode(ql, j), j + 1)
      a == raw.nodes[j]
      b == raw.nodes[j + 1]
      both == ziplistMerge(a.zl, b.zl)
      keep == IF a.zl.len >= b.zl.len THEN j ELSE j + 1
      lose == IF keep = j THEN j + 1 ELSE j
      q == [Store(raw, keep, both, Len(both.es)) EXCEPT !.nodes[lose].count = 0]
  IN  quicklistCompress(__quicklistDelNode(q, lose), j)

MergeAt(ql, j) ==
  IF _quicklistNodeAllowMerge(ql, j, j + 1) THEN _quicklistZiplistMerge(ql, j)
  ELSE ql

(* The two nodes on the left of center, the two on its right, center with  *)
(* its left neighbour, and the result with its right one.                  *)
_quicklistMergeNodes(ql, center) ==
  LET k == Pos(ql, center)
      l == MergeAt(ql, k - 2)
      kl == Pos(l, center)
      r == MergeAt(l, kl + 1)
      kr == Pos(r, center)
      c == MergeAt(r, kr - 1)
      kc == IF _quicklistNodeAllowMerge(r, kr - 1, kr) THEN kr - 1 ELSE kr
  IN  MergeAt(c, kc)

\* Mutant: both halves keep the entry at the offset.
SplitKeepsBoth(ql, k, off, after) ==
  LET zl == ql.nodes[k].zl
      Half(start, num) == ziplistDeleteRange(zl, start, num)
      all == Len(zl.es)
  IN  [node |-> IF after THEN Half(off + 1, all) ELSE Half(0, off),
       new  |-> IF after THEN Half(0, off) ELSE Half(off, all)]

(* The entries of node k up to the offset and those after it; the entry at *)
(* the offset stays in the node.                                           *)
_quicklistSplitNode(ql, k, off, after) ==
  LET zl == ql.nodes[k].zl
      Half(start, num) == ziplistDeleteRange(zl, start, num)
      all == Len(zl.es)
  IN  [node |-> IF after THEN Half(off + 1, all) ELSE Half(0, off),
       new  |-> IF after THEN Half(0, off + 1) ELSE Half(off, all)]

(* v is inserted before or after the entry e: into its node, into the node *)
(* beside it, into a new node between full ones, or at the split of a full *)
(* node.  An entry is at the tail of its node when its offset is the count *)
(* of the node, which no entry has.                                        *)
_quicklistInsert(ql, e, v, after) ==
  LET k == e.k
      full == ~_quicklistNodeAllowInsert(ql, k, v)
      at_head == ~after /\ e.off = 0
      at_tail == after /\ e.off = ql.nodes[k].count
      beside == IF after THEN k + 1 ELSE k - 1
      room == _quicklistNodeAllowInsert(ql, beside, v)
      Into(i, Ins(_)) ==
        LET u == quicklistDecompressNodeForUse(ql, i)
        IN  quicklistRecompressOnly(
              Store(u, i, Ins(u.nodes[i].zl), u.nodes[i].count + 1), i)
      InNode(zl) ==
        IF ~after THEN ziplistInsert(zl, e.zi, v)
        ELSE LET next == ziplistNext(zl, e.zi)
             IN  IF next = Nil THEN ziplistPush(zl, v, "tail")
                 ELSE ziplistInsert(zl, next, v)
      Beside(zl) == ziplistPush(zl, v, IF after THEN "head" ELSE "tail")
      Split(u) ==
        LET s == _quicklistSplitNode(u, k, e.off, after)
            left == Store(u, k, s.node, Len(s.node.es))
            new == quicklistCreateNode(u, Beside(s.new))
        IN  _quicklistMergeNodes(__quicklistInsertNode(left, k, new, after),
                                 u.nodes[k].id)
      q == CASE ~full -> Into(k, InNode)
             [] full /\ (at_head \/ at_tail) /\ Has(ql, beside) /\ room ->
                  Into(beside, Beside)
             [] full /\ (at_head \/ at_tail) /\ Has(ql, beside) /\ ~room ->
                  __quicklistInsertNode(ql, k,
                    quicklistCreateNode(ql, ziplistPush(ziplistNew, v, "head")),
                    after)
             [] OTHER -> Split(quicklistDecompressNodeForUse(ql, k))
  IN  [q EXCEPT !.count = @ + 1]

(* count entries from start on are deleted, node by node. *)
quicklistDelRange(ql, start, count) ==
  LET extent == IF start >= 0 THEN Min({count, ql.count - start})
                ELSE Min({count, -start})
      x == quicklistIndex(ql, start)
      Del(q, k, off, del) ==
        LET u == quicklistDecompressNodeForUse(q, k)
            s == Store(u, k, ziplistDeleteRange(u.nodes[k].zl, off, del),
                       u.nodes[k].count - del)
            t == [s EXCEPT !.count = @ - del]
        IN  IF t.nodes[k].count = 0 THEN __quicklistDelNode(t, k)
            ELSE quicklistRecompressOnly(t, k)
      Step(st, i) ==
        IF st.ext = 0 \/ st.id = NoNode THEN st
        ELSE LET k == Pos(st.q, st.id)
                 n == st.q.nodes[k].count
                 entire == st.off = 0 /\ st.ext >= n
                 del == CASE entire -> n
                          [] ~entire /\ st.off >= 0 /\ st.ext + st.off >= n -> n - st.off
                          [] st.off < 0 -> Min({-st.off, st.ext})
                          [] OTHER -> st.ext
             IN  [q |-> IF entire THEN __quicklistDelNode(st.q, k)
                        ELSE Del(st.q, k, st.off, del),
                  id |-> IdAt(st.q, k + 1), off |-> 0, ext |-> st.ext - del]
  IN  IF count <= 0 \/ x.e = NoEntry THEN ql
      ELSE FoldLeft(Step, [q |-> x.ql, id |-> x.ql.nodes[x.e.k].id,
                           off |-> x.e.off, ext |-> extent],
                    [i \in 1..Len(ql.nodes) |-> i]).q

-----------------------------------------------------------------------------
(* Iterators *)

NoIter == [id |-> NoNode, off |-> 0, zi |-> Nil, forward |-> TRUE]

quicklistGetIterator(ql, forward) ==
  [id |-> IdAt(ql, EndPos(ql, IF forward THEN "head" ELSE "tail")),
   off |-> IF forward THEN 0 ELSE -1, zi |-> Nil, forward |-> forward]

(* The node of the first entry is decompressed, and stays so. *)
quicklistGetIteratorAtIdx(ql, forward, idx) ==
  LET x == quicklistIndex(ql, idx)
  IN  IF x.e = NoEntry THEN [ql |-> ql, it |-> NoIter]
      ELSE [ql |-> x.ql, it |-> [id |-> IdAt(ql, x.e.k), off |-> x.e.off,
                                 zi |-> Nil, forward |-> forward]]

(* The next entry of the node, or the first of the node that follows in    *)
(* the direction of the iterator; a node that is left is compressed again. *)
quicklistNext(ql, it) ==
  LET Try(q, i) ==
        LET k == Pos(q, i.id)
            u == IF i.zi = Nil THEN quicklistDecompressNodeForUse(q, k) ELSE q
            zl == q.nodes[k].zl
            zi == CASE i.zi = Nil -> ziplistIndex(zl, i.off)
                    [] i.zi # Nil /\ i.forward -> ziplistNext(zl, i.zi)
                    [] OTHER -> ziplistPrev(zl, i.zi)
            off == IF i.zi = Nil THEN i.off
                   ELSE IF i.forward THEN i.off + 1 ELSE i.off - 1
        IN  [ql |-> u, it |-> [i EXCEPT !.zi = zi, !.off = off],
             e |-> [k |-> k, off |-> off, zi |-> zi]]
      Ended(q, i) == [ql |-> q, it |-> i, e |-> NoEntry]
      t == Try(ql, it)
      hop == [t.it EXCEPT !.id = IdAt(ql, IF it.forward THEN t.e.k + 1 ELSE t.e.k - 1),
                          !.off = IF it.forward THEN 0 ELSE -1]
      left == quicklistCompress(t.ql, t.e.k)
  IN  CASE it.id = NoNode -> Ended(ql, it)
        [] it.id # NoNode /\ t.e.zi # Nil -> t
        [] OTHER -> IF hop.id = NoNode THEN Ended(left, hop) ELSE Try(left, hop)

(* The entry is deleted; the iterator stays, or goes on when the node has  *)
(* gone with its last entry.                                               *)
quicklistDelEntry(ql, it, e) ==
  LET q == quicklistDelIndex(ql, e.k, e.zi)
      gone == Len(q.nodes) < Len(ql.nodes)
  IN  [ql |-> q,
       it |-> IF ~gone THEN [it EXCEPT !.zi = Nil]
              ELSE [it EXCEPT !.zi = Nil,
                              !.id = IdAt(ql, IF it.forward THEN e.k + 1 ELSE e.k - 1),
                              !.off = IF it.forward THEN 0 ELSE -1]]

quicklistReleaseIterator(ql, it) ==
  IF it.id = NoNode THEN ql ELSE quicklistCompress(ql, Pos(ql, it.id))

(* A copy: compressed nodes are copied as they are, and the length of the  *)
(* copy decides what is compressed.                                        *)
quicklistDup(ql) ==
  LET Add(q, n) ==
        LET r == __quicklistInsertNode(q, Len(q.nodes),
                   [n EXCEPT !.id = FreshId(q), !.recompress = FALSE], TRUE)
        IN  [r EXCEPT !.count = @ + n.count]
  IN  FoldLeft(Add, quicklistNew(ql.fill, ql.compress), ql.nodes)

quicklistAppendZiplist(ql, zl) ==
  LET q == __quicklistInsertNode(ql, Len(ql.nodes),
             quicklistCreateNode(ql, ziplistLenStored(zl)), TRUE)
  IN  [q EXCEPT !.count = @ + ziplistLen(zl)]

quicklistAppendValuesFromZiplist(ql, zl) ==
  FoldLeft(LAMBDA q, e : quicklistPush(q, e.c.v, "tail"), ql, zl.es)

-----------------------------------------------------------------------------
(* Bookmarks *)

quicklistBookmarkCreate(ql, name, k) ==
  [ql EXCEPT !.marks = [m \in DOMAIN @ \union {name} |->
                          IF m = name THEN IdAt(ql, k) ELSE @[m]]]

quicklistBookmarkDelete(ql, name) ==
  [ql EXCEPT !.marks = [m \in DOMAIN @ \ {name} |-> @[m]]]

-----------------------------------------------------------------------------
(* The list type *)

(* The state of a walk over a list. *)
Walking(x) == [ql |-> x.ql, it |-> x.it, got |-> <<>>, left |-> 0, done |-> FALSE]

(* LRANGE, SORT and LPOS: up to n values from an index on. *)
listTypeWalk(ql, idx, forward, n) ==
  LET Step(st, i) ==
        LET x == quicklistNext(st.ql, st.it)
        IN  IF st.done THEN st
            ELSE IF x.e = NoEntry THEN [st EXCEPT !.ql = x.ql, !.done = TRUE]
            ELSE [st EXCEPT !.ql = x.ql, !.it = x.it,
                            !.got = Append(@, ValueAt(x.ql, x.e))]
      w == FoldLeft(Step, Walking(quicklistGetIteratorAtIdx(ql, forward, idx)),
                    [i \in 1..n |-> i])
  IN  [ql |-> w.ql, got |-> w.got]

(* LINSERT: before or after the first entry equal to the pivot. *)
linsertCommand(ql, pivot, v, after) ==
  LET Step(st, i) ==
        LET x == quicklistNext(st.ql, st.it)
        IN  IF st.done THEN st
            ELSE IF x.e = NoEntry THEN [st EXCEPT !.ql = x.ql, !.done = TRUE]
            ELSE IF ziplistCompare(x.ql.nodes[x.e.k].zl, x.e.zi, pivot)
            THEN [st EXCEPT !.ql = _quicklistInsert(x.ql, x.e, v, after),
                            !.done = TRUE]
            ELSE [st EXCEPT !.ql = x.ql, !.it = x.it]
  IN  FoldLeft(Step, Walking(quicklistGetIteratorAtIdx(ql, TRUE, 0)),
               [i \in 1..ql.count + 1 |-> i]).ql

(* LREM: the first (or, from the tail, the last) toremove entries equal to *)
(* v, all of them when toremove is 0.                                      *)
lremCommand(ql, v, toremove) ==
  LET forward == toremove >= 0
      Step(st, i) ==
        LET x == quicklistNext(st.ql, st.it)
            d == quicklistDelEntry(x.ql, x.it, x.e)
        IN  IF st.done THEN st
            ELSE IF x.e = NoEntry THEN [st EXCEPT !.ql = x.ql, !.done = TRUE]
            ELSE IF ziplistCompare(x.ql.nodes[x.e.k].zl, x.e.zi, v)
            THEN [st EXCEPT !.ql = d.ql, !.it = d.it, !.left = @ + 1,
                            !.done = st.left + 1 \in {toremove, -toremove}]
            ELSE [st EXCEPT !.ql = x.ql, !.it = x.it]
      start == IF forward THEN 0 ELSE -1
  IN  FoldLeft(Step, Walking(quicklistGetIteratorAtIdx(ql, forward, start)),
               [i \in 1..ql.count + 1 |-> i]).ql

(* LTRIM: what lies before start, then what lies after stop. *)
ltrimCommand(ql, s, t) ==
  LET llen == ql.count
      start == Max({0, IF s < 0 THEN llen + s ELSE s})
      end == Min({llen - 1, IF t < 0 THEN llen + t ELSE t})
      empty == start > end \/ start >= llen
      ltrim == IF empty THEN llen ELSE start
      rtrim == IF empty THEN 0 ELSE llen - end - 1
  IN  quicklistDelRange(quicklistDelRange(ql, 0, ltrim), -rtrim, rtrim)

-----------------------------------------------------------------------------
(* The values of a list, and what has to hold of its nodes. *)

Values(ql) ==
  FlattenSeq([k \in Nodes(ql) |->
    [i \in 1..Len(ql.nodes[k].zl.es) |-> ql.nodes[k].zl.es[i].c.v]])

EndsAreRaw(ql) ==
  ql.nodes # <<>> => ~ql.nodes[1].lzf /\ ~ql.nodes[Len(ql.nodes)].lzf

NodesAreSound(ql) ==
  /\ ql.ok
  /\ ql.count = Len(Values(ql))
  /\ \A k \in Nodes(ql) :
       LET n == ql.nodes[k]
       IN  /\ n.zl.ok /\ ziplistValidateIntegrity(n.zl)
           /\ n.count = Len(n.zl.es) /\ n.count > 0 /\ n.sz = n.zl.bytes
           /\ ql.fill >= 0 => n.count <= Max({1, ql.fill})
  /\ \A m \in DOMAIN ql.marks : Pos(ql, ql.marks[m]) # NoNode

=============================================================================
