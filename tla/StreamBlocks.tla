---------------------------- MODULE StreamBlocks ----------------------------
(***************************************************************************)
(* The two structures of a stream.                                         *)
(*                                                                         *)
(* The listpack (listpack.c): a list of strings and integers in one block  *)
(* of memory.  An element ends with its own length, written so that it can *)
(* be read from right to left, and no element depends on the size of       *)
(* another.                                                                *)
(*                                                                         *)
(* Abstractions.  As in Ziplist: the block is the sequence of its elements,*)
(* a pointer into it is a byte offset, the sizes and lengths are kept and  *)
(* the bytes of a string are not.                                          *)
(*                                                                         *)
(* The radix tree (rax.c): a node has one child per character or, when it  *)
(* is compressed, a run of characters and one child.  A node is a key when *)
(* the characters on the way to it are one.                                *)
(*                                                                         *)
(* Abstractions.  A pointer to a node is a number; a node that replaces    *)
(* another, or that realloc moves, keeps the number.  The layout of a node *)
(* in memory, its padding and the failures of malloc are left out, and     *)
(* keys are shorter than RAX_NODE_MAX_SIZE.  A character is a number.      *)
(***************************************************************************)
EXTENDS Integers, Sequences

LOCAL INSTANCE SequencesExt
LOCAL INSTANCE FiniteSetsExt

CONSTANTS
  LP_HDR_NUMELE_UNKNOWN,   \* the count that stands for "too many"
  INT32_MAX                \* the greatest integer stored in four bytes

-----------------------------------------------------------------------------
(* The listpack *)

LP_HDR_SIZE == 6
Null == 0

Within(n, max) == n >= -max - 1 /\ n <= max

(* The encoding of a value and the bytes it takes.  A negative integer is  *)
(* stored as its two's complement in the width of the encoding.            *)
lpEncodeGetType(v) ==
  IF v[1] = "str"
  THEN [enc |-> "str", v |-> v,
        len |-> v[3] + (CASE v[3] < 64 -> 1 [] v[3] < 4096 -> 2 [] OTHER -> 5)]
  ELSE LET n == v[2]
           AsInt(enc, max, len) ==
             [enc |-> enc, len |-> len,
              v |-> <<"int", IF n < 0 /\ max > 0 THEN 2 * max + 2 + n ELSE n>>]
       IN  CASE n >= 0 /\ n <= 127   -> AsInt("7bit", 0, 1)
             [] Within(n, 4095)      -> AsInt("13bit", 4095, 2)
             [] Within(n, 32767)     -> AsInt("16bit", 32767, 3)
             [] Within(n, 8388607)   -> AsInt("24bit", 8388607, 4)
             [] Within(n, INT32_MAX) -> AsInt("32bit", INT32_MAX, 5)
             [] OTHER                -> AsInt("64bit", 0, 9)

(* The bytes of the length l at the end of an element. *)
lpEncodeBacklen(l) ==
  CASE l <= 127 -> 1 [] l < 16383 -> 2 [] l < 2097151 -> 3
    [] l < 268435455 -> 4 [] OTHER -> 5

lpNew == [bytes |-> LP_HDR_SIZE + 1, num |-> 0, es |-> <<>>]

SizeFwd(e) == e.c.len + lpEncodeBacklen(e.c.len)
SizeBack(e) == e.back + lpEncodeBacklen(e.back)

PosOf(lp, i) ==
  LP_HDR_SIZE + FoldLeft(LAMBDA n, e : n + SizeFwd(e), 0, SubSeq(lp.es, 1, i - 1))

EofPos(lp) == lp.bytes - 1

EleAt(lp, p) ==
  LET I == {i \in 1..Len(lp.es) + 1 : PosOf(lp, i) = p}
  IN  IF I = {} THEN 0 ELSE CHOOSE i \in I : TRUE

-----------------------------------------------------------------------------
(* Walking *)

lpSkip(lp, p) == p + SizeFwd(lp.es[EleAt(lp, p)])

lpNext(lp, p) ==
  LET q == lpSkip(lp, p) IN IF q = EofPos(lp) THEN Null ELSE q

(* The length before p is the one the element to its left ends with. *)
lpPrev(lp, p) ==
  IF p = LP_HDR_SIZE THEN Null
  ELSE p - SizeBack(lp.es[EleAt(lp, p) - 1])

lpFirst(lp) == IF LP_HDR_SIZE = EofPos(lp) THEN Null ELSE LP_HDR_SIZE

lpLast(lp) == lpPrev(lp, EofPos(lp))

Count(lp) ==
  LET Walk[p \in Int] == IF p = Null THEN 0 ELSE 1 + Walk[lpNext(lp, p)]
  IN  Walk[lpFirst(lp)]

lpLength(lp) == IF lp.num # LP_HDR_NUMELE_UNKNOWN THEN lp.num ELSE Count(lp)

(* lpLength also stores a length the header can hold again. *)
lpLengthStored(lp) ==
  IF lp.num = LP_HDR_NUMELE_UNKNOWN /\ Count(lp) < LP_HDR_NUMELE_UNKNOWN
  THEN [lp EXCEPT !.num = Count(lp)] ELSE lp

(* The value of an element: an integer from its two's complement. *)
lpGet(lp, p) ==
  LET c == lp.es[EleAt(lp, p)].c
      negstart == CASE c.enc = "13bit" -> 4096 [] c.enc = "16bit" -> 32768
                    [] c.enc = "24bit" -> 8388608
                    [] c.enc = "32bit" -> INT32_MAX + 1 [] OTHER -> 0
      negmax == 2 * negstart - 1
  IN  IF negstart > 0 /\ c.v[2] >= negstart
      THEN <<"int", -(negmax - c.v[2]) - 1>> ELSE c.v

(* The element with an index, from the nearer end when the length is known.*)
lpSeek(lp, idx) ==
  LET n == lp.num
      Fwd[i \in Int, p \in Int] ==
        IF i <= 0 \/ p = Null THEN p ELSE Fwd[i - 1, lpNext(lp, p)]
      Back[i \in Int, p \in Int] ==
        IF i >= -1 \/ p = Null THEN p ELSE Back[i + 1, lpPrev(lp, p)]
      index == IF n # LP_HDR_NUMELE_UNKNOWN /\ idx < 0 THEN n + idx ELSE idx
  IN  IF n # LP_HDR_NUMELE_UNKNOWN
      THEN IF index < 0 \/ index >= n THEN Null
           ELSE IF index > n \div 2 THEN Back[index - n, lpLast(lp)]
           ELSE Fwd[index, lpFirst(lp)]
      ELSE IF index < 0 THEN Back[index, lpLast(lp)] ELSE Fwd[index, lpFirst(lp)]

-----------------------------------------------------------------------------
(* Changes *)

Nothing == <<"nothing">>

(* v is inserted before or after the element at p or takes its place;      *)
(* Nothing in its place deletes the element.                               *)
lpInsert(lp, v, pos, w) ==
  LET where == IF v = Nothing THEN "replace" ELSE w
      p == IF where = "after" THEN lpSkip(lp, pos) ELSE pos
      i == EleAt(lp, p)
      n == Len(lp.es)
      c == lpEncodeGetType(v)
      new == IF v = Nothing THEN <<>> ELSE <<[c |-> c, back |-> c.len]>>
      added == IF v = Nothing THEN 0 ELSE c.len + lpEncodeBacklen(c.len)
      removed == IF where = "replace" THEN SizeFwd(lp.es[i]) ELSE 0
      rest == SubSeq(lp.es, IF where = "replace" THEN i + 1 ELSE i, n)
  IN  [bytes |-> lp.bytes + added - removed,
       es |-> SubSeq(lp.es, 1, i - 1) \o new \o rest,
       num |-> CASE lp.num = LP_HDR_NUMELE_UNKNOWN -> lp.num
                 [] lp.num # LP_HDR_NUMELE_UNKNOWN /\ v = Nothing -> lp.num - 1
                 [] lp.num # LP_HDR_NUMELE_UNKNOWN /\ v # Nothing
                      /\ where = "replace" -> lp.num
                 [] OTHER -> lp.num + 1]

lpAppend(lp, v) == lpInsert(lp, v, EofPos(lp), "before")

lpDelete(lp, p) == lpInsert(lp, Nothing, p, "replace")

-----------------------------------------------------------------------------
(* What the code checks of a block it did not build itself. *)
lpValidateNext(lp, p) ==
  LET e == lp.es[EleAt(lp, p)]
  IN  p + SizeFwd(e) <= lp.bytes - 1 /\ e.back = e.c.len

lpValidateIntegrity(lp) ==
  LET n == Len(lp.es)
  IN  /\ lp.bytes = PosOf(lp, n + 1) + 1
      /\ \A i \in 1..n : lpValidateNext(lp, PosOf(lp, i))
      /\ lp.num = LP_HDR_NUMELE_UNKNOWN \/ lp.num = n

-----------------------------------------------------------------------------
(* The radix tree *)

NULL == 0
Leaf == [compr |-> FALSE, key |-> FALSE, data |-> NULL, chars |-> <<>>, kids |-> <<>>]

raxNew == [head |-> 1, numele |-> 0, numnodes |-> 1, node |-> [n \in {1} |-> Leaf]]

FreshNode(t) == CHOOSE n \in 1..Cardinality(DOMAIN t.node) + 1 : n \notin DOMAIN t.node

WithNode(t, n, v) ==
  [t EXCEPT !.node = [m \in DOMAIN @ \union {n} |-> IF m = n THEN v ELSE @[m]]]

SetKey(n, data) == [n EXCEPT !.key = TRUE, !.data = data]

Size(t, h) == Len(t.node[h].chars)

(* The first character of a run that differs from the key's, from 0 on. *)
Matched(chars, s, i) ==
  LET M[k \in Nat] == IF k < Len(chars) /\ i + k < Len(s) /\ chars[k + 1] = s[i + k + 1]
                      THEN M[k + 1] ELSE k
  IN  M[0]

(* The node where the walk for s ends, the number of characters it used,   *)
(* the place inside a compressed node, and the nodes on the way.           *)
raxLowWalk(t, s) ==
  LET Walk[h \in Nat, i \in Nat, stack \in Seq(Nat)] ==
        LET n == t.node[h]
            m == Matched(n.chars, s, i)
            c == SelectInSeq(n.chars, LAMBDA x : x = s[i + 1])
            Stop(k, j) == [h |-> h, i |-> k, j |-> j, stack |-> stack]
        IN  IF n.chars = <<>> \/ i >= Len(s) THEN Stop(i, 0)
            ELSE IF n.compr
            THEN IF m # Len(n.chars) THEN Stop(i + m, m)
                 ELSE Walk[n.kids[1], i + m, Append(stack, h)]
            ELSE IF c = 0 THEN Stop(i, 0)
            ELSE Walk[n.kids[c], i + 1, Append(stack, h)]
  IN  Walk[t.head, 0, <<>>]

-----------------------------------------------------------------------------
(* Insertion *)

(* A child for character c, at its place among the others. *)
raxAddChild(t, h, c) ==
  LET n == t.node[h]
      child == FreshNode(t)
      pos == Cardinality({k \in 1..Len(n.chars) : n.chars[k] <= c}) + 1
      with == WithNode(t, h, [n EXCEPT !.chars = InsertAt(@, pos, c),
                                       !.kids = InsertAt(@, pos, child)])
  IN  [t |-> [WithNode(with, child, Leaf) EXCEPT !.numnodes = @ + 1], h |-> child]

(* A node without children becomes a run of characters. *)
raxCompressNode(t, h, s) ==
  LET child == FreshNode(t)
      with == WithNode(t, h, [t.node[h] EXCEPT !.compr = TRUE, !.chars = s,
                                               !.kids = <<child>>])
  IN  [t |-> [WithNode(with, child, Leaf) EXCEPT !.numnodes = @ + 1], h |-> child]

\* Mutant: the node before the split keeps its mark of a compressed node.
RunKept(chars, n) == [n EXCEPT !.chars = chars]

(* The node with some of its characters: one character is no run. *)
Run(chars, n) == [n EXCEPT !.chars = chars, !.compr = Len(chars) > 1]

(* Algorithm 1: a compressed node is split at the character that differs. *)
SplitNode(t, h, j) ==
  LET n == t.node[h]
      next == n.kids[1]
      rest == SubSeq(n.chars, j + 2, Len(n.chars))
      p == FreshNode(t)
      t1 == IF rest = <<>> THEN t
            ELSE [WithNode(t, p, Run(rest, [Leaf EXCEPT !.kids = <<next>>]))
                  EXCEPT !.numnodes = @ + 1]
      split == [Leaf EXCEPT !.chars = <<n.chars[j + 1]>>,
                            !.kids = <<IF rest = <<>> THEN next ELSE p>>]
      sp == FreshNode(t1)
      t2 == WithNode(WithNode(t1, sp, split), h,
                     [Run(SubSeq(n.chars, 1, j), n) EXCEPT !.kids = <<sp>>])
  IN  IF j = 0
      THEN [t |-> WithNode(t1, h, [split EXCEPT !.key = n.key, !.data = n.data]), h |-> h]
      ELSE [t |-> [t2 EXCEPT !.numnodes = @ + 1], h |-> sp]

(* Algorithm 2: the key ends inside a compressed node. *)
SplitForKey(t, h, j, data) ==
  LET n == t.node[h]
      p == FreshNode(t)
      post == Run(SubSeq(n.chars, j + 1, Len(n.chars)), [Leaf EXCEPT !.kids = n.kids])
      trimmed == [Run(SubSeq(n.chars, 1, j), n) EXCEPT !.kids = <<p>>]
  IN  [WithNode(WithNode(t, p, SetKey(post, data)), h, trimmed)
       EXCEPT !.numnodes = @ + 1, !.numele = @ + 1]

(* The missing nodes for what is left of the key, and the key. *)
Grow(t, h, s, data) ==
  LET Step(st, i) ==
        IF st.left = <<>> THEN st
        ELSE LET run == st.t.node[st.h].chars = <<>> /\ Len(st.left) > 1
                 x == IF run THEN raxCompressNode(st.t, st.h, st.left)
                      ELSE raxAddChild(st.t, st.h, st.left[1])
             IN  [t |-> x.t, h |-> x.h, left |-> IF run THEN <<>> ELSE Tail(st.left)]
      end == FoldLeft(Step, [t |-> t, h |-> h, left |-> s], [i \in 1..Len(s) |-> i])
      n == end.t.node[end.h]
  IN  [WithNode(end.t, end.h, SetKey(n, data)) EXCEPT !.numele = IF n.key THEN @ ELSE @ + 1]

raxGenericInsert(t, s, data, overwrite) ==
  LET w == raxLowWalk(t, s)
      n == t.node[w.h]
      rest == SubSeq(s, w.i + 1, Len(s))
      ended == w.i = Len(s)
      sp == SplitNode(t, w.h, w.j)
  IN  CASE ended /\ (~n.compr \/ w.j = 0) ->
             IF ~n.key THEN [WithNode(t, w.h, SetKey(n, data)) EXCEPT !.numele = @ + 1]
             ELSE IF overwrite THEN WithNode(t, w.h, SetKey(n, data)) ELSE t
        [] ended /\ n.compr /\ w.j # 0 -> SplitForKey(t, w.h, w.j, data)
        [] ~ended /\ n.compr -> Grow(sp.t, sp.h, rest, data)
        [] OTHER -> Grow(t, w.h, rest, data)

raxInsert(t, s, data) == raxGenericInsert(t, s, data, TRUE)
raxTryInsert(t, s, data) == raxGenericInsert(t, s, data, FALSE)

AtKey(t, s, w) ==
  w.i = Len(s) /\ ~(t.node[w.h].compr /\ w.j # 0) /\ t.node[w.h].key

NotFound == -1
raxFind(t, s) ==
  LET w == raxLowWalk(t, s)
  IN  IF AtKey(t, s, w) THEN t.node[w.h].data ELSE NotFound

-----------------------------------------------------------------------------
(* Removal *)

raxRemoveChild(n, child) ==
  LET k == SelectInSeq(n.kids, LAMBDA x : x = child)
  IN  IF n.compr THEN [n EXCEPT !.compr = FALSE, !.chars = <<>>, !.kids = <<>>]
      ELSE [n EXCEPT !.chars = RemoveAt(@, k), !.kids = RemoveAt(@, k)]

(* A node a run can go through: one child and no key. *)
Chained(n) == ~n.key /\ (n.compr \/ Len(n.chars) = 1)

FreeNode(t, h) ==
  [t EXCEPT !.node = [m \in DOMAIN @ \ {h} |-> @[m]], !.numnodes = @ - 1]

(* A childless node is freed with the chain of nodes above that lead only  *)
(* to it; the first node that stays loses a child.                         *)
Reclaim(t, h, stack) ==
  LET Step(st, i) ==
        IF st.done \/ st.h = t.head THEN st
        ELSE LET up == st.stack[Len(st.stack)]
             IN  [t |-> FreeNode(st.t, st.h), h |-> up, child |-> st.h,
                  stack |-> Front(st.stack), done |-> ~Chained(st.t.node[up])]
      end == FoldLeft(Step, [t |-> t, h |-> h, child |-> NULL, stack |-> stack,
                             done |-> FALSE], [i \in 1..Len(stack) |-> i])
      n == raxRemoveChild(end.t.node[end.h], end.child)
  IN  IF end.child = NULL THEN [t |-> t, h |-> h, stack |-> stack, try |-> FALSE]
      ELSE [t |-> WithNode(end.t, end.h, n), h |-> end.h, stack |-> end.stack,
            try |-> Len(n.chars) = 1 /\ ~n.key]

(* From the highest node of the chain above h, the chain of nodes with one *)
(* child that are no keys becomes one node.                                *)
Recompress(t, h, stack) ==
  LET Up[k \in Nat, x \in Nat] ==
        IF k = 0 \/ ~Chained(t.node[stack[k]]) THEN x ELSE Up[k - 1, stack[k]]
      start == Up[Len(stack), h]
      Chain[x \in Nat] ==
        LET n == t.node[x]
            next == n.kids[Len(n.kids)]
        IN  IF Chained(t.node[next]) THEN <<x>> \o Chain[next] ELSE <<x>>
      run == Chain[start]
      last == t.node[run[Len(run)]]
      new == [Leaf EXCEPT !.compr = TRUE,
                !.chars = FlattenSeq([k \in 1..Len(run) |-> t.node[run[k]].chars]),
                !.kids = <<last.kids[Len(last.kids)]>>]
  IN  IF Len(run) = 1 THEN t
      ELSE WithNode(FoldLeft(FreeNode, t, Tail(run)), start, new)

raxRemove(t, s) ==
  LET w == raxLowWalk(t, s)
      t1 == [t EXCEPT !.node[w.h].key = FALSE, !.numele = @ - 1]
      r == Reclaim(t1, w.h, w.stack)
  IN  CASE ~AtKey(t, s, w) -> t
        [] AtKey(t, s, w) /\ Size(t, w.h) = 0 ->
             IF r.try THEN Recompress(r.t, r.h, r.stack) ELSE r.t
        [] AtKey(t, s, w) /\ Size(t, w.h) = 1 -> Recompress(t1, w.h, w.stack)
        [] OTHER -> t1

-----------------------------------------------------------------------------
(* Iterators: the node, its key, the nodes above it *)

raxStart == [node |-> NULL, key |-> <<>>, stack |-> <<>>, eof |-> TRUE, just |-> FALSE]

AddChars(it, chars) == [it EXCEPT !.key = @ \o chars]
DelChars(it, n) == [it EXCEPT !.key = SubSeq(@, 1, Len(@) - (IF n.compr THEN Len(n.chars) ELSE 1))]

(* Down to child k of the node. *)
Enter(t, it, k) ==
  LET n == t.node[it.node]
  IN  [it EXCEPT !.key = @ \o (IF n.compr THEN n.chars ELSE <<n.chars[k]>>),
                 !.stack = Append(@, it.node), !.node = n.kids[k]]

Leave(it) == [it EXCEPT !.node = it.stack[Len(it.stack)], !.stack = Front(@)]

(* The greatest key below the node. *)
raxSeekGreatest(t, it) ==
  LET Down[x \in Nat, k \in Nat] ==
        IF Size(t, x) = 0 THEN k ELSE Down[t.node[x].kids[Len(t.node[x].kids)], k + 1]
  IN  FoldLeft(LAMBDA i, k : Enter(t, i, Len(t.node[i.node].kids)), it,
               [k \in 1..Down[it.node, 0] |-> k])

Eof(it) == [it EXCEPT !.eof = TRUE]

(* The children of the node greater (or less) than the last character of   *)
(* the key, which the iterator has just come from.                         *)
Siblings(n, c, greater) ==
  {k \in 1..Len(n.chars) : IF greater THEN n.chars[k] > c ELSE n.chars[k] < c}

(* Out of a node whose keys have all been seen: up to the first node with  *)
(* a greater child, and into that child.                                   *)
NextSubtree(t, orig, noup) ==
  LET Up[d \in Nat] ==
        LET it == [orig EXCEPT !.node = IF d = 0 THEN @ ELSE orig.stack[Len(orig.stack) - d + 1],
                               !.stack = SubSeq(@, 1, Len(@) - d)]
            n == t.node[it.node]
        IN  [it |-> it, n |-> n]
      Try[d \in Nat, key \in Seq(Nat)] ==
        IF d > Len(orig.stack) THEN Eof(orig)
        ELSE LET u == Up[d]
                 it == DelChars([u.it EXCEPT !.key = key], u.n)
                 S == Siblings(u.n, key[Len(key)], TRUE)
             IN  IF ~u.n.compr /\ Len(u.n.chars) > (IF noup /\ d = 0 THEN 0 ELSE 1) /\ S # {}
                 THEN Enter(t, it, Min(S)) ELSE Try[d + 1, it.key]
  IN  Try[IF noup THEN 0 ELSE 1, orig.key]

(* One step to the next key.  With noup the last character of the key is   *)
(* not that of a child of the node: the search starts in the node itself.  *)
raxIteratorNextStep(t, it0, noup0) ==
  LET Go(st, i) ==
        LET it == st.it
        IN  IF st.done THEN st
            ELSE LET x == IF ~st.noup /\ Size(t, it.node) > 0 THEN Enter(t, it, 1)
                          ELSE NextSubtree(t, it, st.noup)
                 IN  IF x.eof THEN [it |-> Eof(it0), noup |-> FALSE, done |-> TRUE]
                     ELSE [it |-> x, noup |-> FALSE, done |-> t.node[x.node].key]
  IN  CASE it0.eof -> it0
        [] ~it0.eof /\ it0.just -> [it0 EXCEPT !.just = FALSE]
        [] OTHER -> FoldLeft(Go, [it |-> it0, noup |-> noup0, done |-> FALSE],
                             [i \in 1..t.numnodes + 1 |-> i]).it

(* One step to the previous key: a lesser child's greatest key, or the     *)
(* node itself when it is one.                                             *)
raxIteratorPrevStep(t, it0, noup0) ==
  LET Go(st, i) ==
        IF st.done THEN st
        ELSE IF ~st.noup /\ st.it.node = t.head
        THEN [it |-> Eof(it0), noup |-> FALSE, done |-> TRUE]
        ELSE LET c == st.it.key[Len(st.it.key)]
                 up == IF st.noup THEN st.it ELSE Leave(st.it)
                 n == t.node[up.node]
                 it == DelChars(up, n)
                 S == Siblings(n, c, FALSE)
                 x == IF ~n.compr /\ Len(n.chars) > (IF st.noup THEN 0 ELSE 1) /\ S # {}
                      THEN raxSeekGreatest(t, Enter(t, it, Max(S))) ELSE it
             IN  [it |-> x, noup |-> FALSE, done |-> t.node[x.node].key]
  IN  CASE it0.eof -> it0
        [] ~it0.eof /\ it0.just -> [it0 EXCEPT !.just = FALSE]
        [] OTHER -> FoldLeft(Go, [it |-> it0, noup |-> noup0, done |-> FALSE],
                             [i \in 1..t.numnodes + 1 |-> i]).it

(* A walk that ends inside the run of a key has passed the key. *)
KeyOfTheRun(n, j, lt) == n.compr /\ n.key /\ j # 0 /\ lt

raxSeek(t, op, ele) ==
  LET eq == op \in {"=", ">=", "<="}
      lt == op \in {"<", "<="}
      gt == op \in {">", ">=", "^"}
      s == IF op = "^" THEN <<>> ELSE ele
      w == raxLowWalk(t, s)
      n == t.node[w.h]
      at == [raxStart EXCEPT !.node = w.h, !.stack = w.stack, !.eof = FALSE,
               !.key = SubSeq(s, 1, IF n.compr THEN w.i - w.j ELSE w.i)]
      Step(it, noup) == IF gt THEN raxIteratorNextStep(t, it, noup)
                        ELSE raxIteratorPrevStep(t, it, noup)
      Seeked(it) == [it EXCEPT !.just = TRUE]
      beyond == AddChars(at, n.chars)
  IN  CASE t.numele = 0 -> Seeked(raxStart)
        [] t.numele > 0 /\ op = "$" ->
             Seeked(raxSeekGreatest(t, [raxStart EXCEPT !.node = t.head, !.eof = FALSE]))
        [] t.numele > 0 /\ op # "$" /\ (eq \/ op = "^") /\ AtKey(t, s, w) ->
             Seeked([at EXCEPT !.key = s])
        [] t.numele > 0 /\ op = "=" /\ ~AtKey(t, s, w) -> Seeked(Eof(at))
        [] OTHER ->
             Seeked(
               IF w.i # Len(s) /\ ~n.compr
               THEN Step(AddChars(at, <<s[w.i + 1]>>), TRUE)
               ELSE IF w.i # Len(s)
               THEN LET nodechar == n.chars[w.j + 1]
                        keychar == s[w.i + 1]
                    IN  CASE gt /\ nodechar > keychar -> Step(at, FALSE)
                          [] lt /\ nodechar < keychar -> raxSeekGreatest(t, at)
                          [] OTHER -> Step(beyond, TRUE)
               ELSE IF KeyOfTheRun(n, w.j, lt) THEN at
               ELSE Step(at, FALSE))

raxNext(t, it) == raxIteratorNextStep(t, it, FALSE)
raxPrev(t, it) == raxIteratorPrevStep(t, it, FALSE)

(* The key of an iterator, or no key. *)
Found(it) == IF it.eof THEN <<>> ELSE <<it.key>>

-----------------------------------------------------------------------------
(* What has to hold of a tree: every node is reached once, a run has one   *)
(* child, characters are in order, and no branch ends without a key.       *)

RaxSound(t) ==
  LET Kids(x) == {t.node[x].kids[k] : k \in 1..Len(t.node[x].kids)}
      N == DOMAIN t.node
  IN  /\ t.numnodes = Cardinality(N)
      /\ t.numele = Cardinality({x \in N : t.node[x].key})
      /\ t.head \in N
      /\ \A x \in N : Kids(x) \subseteq N \ {t.head}
      /\ \A x \in N \ {t.head} : Cardinality({y \in N : x \in Kids(y)}) = 1
      /\ \A x \in N :
           LET n == t.node[x]
           IN  /\ Len(n.kids) = IF n.compr THEN 1 ELSE Len(n.chars)
               /\ n.compr => Len(n.chars) > 1
               /\ ~n.compr => \A k \in 1..Len(n.chars) - 1 : n.chars[k] < n.chars[k + 1]
               /\ n.chars = <<>> /\ x # t.head => n.key
=============================================================================
