---------------------------- MODULE TCollections ----------------------------
(***************************************************************************)
(* The hash, set and list commands (t_hash.c, t_set.c, t_list.c).          *)
(*                                                                         *)
(* A hash is a function from fields to values, a set is a set: the table   *)
(* or the packed encoding that holds it does not show in what a command    *)
(* does.  A value of a hash is a number, or Word for a string that is not  *)
(* one.  A command that picks at random has as last argument the order in  *)
(* which the elements are drawn.                                           *)
(***************************************************************************)
EXTENDS TString

LOCAL INSTANCE SequencesExt
LOCAL INSTANCE FiniteSetsExt

CONSTANT Word   \* a value that is not a number

Hash(h) == <<"hash", h>>
Set(m) == <<"set", m>>

-----------------------------------------------------------------------------
(* Hashes *)

hashTypeSet(h, f, v) == (f :> v) @@ h
hashTypeDelete(h, f) == [x \in DOMAIN h \ {f} |-> h[x]]

(* The key is created empty before the command has checked its arguments. *)
hashTypeLookupWriteOrCreate(s, k, F(_, _)) ==
  OnWrite(s, k, "hash", <<>>, LAMBDA t, h : F(Put(t, k, Hash(h)), h))

hsetnxCommand(s, a) ==
  LET set(t, h) ==
        IF a[3] \in DOMAIN h THEN Reply(t, <<"int", 0>>)
        ELSE Reply(Modified(Put(t, a[2], Hash(hashTypeSet(h, a[3], a[4]))), a[2], 1), <<"int", 1>>)
  IN hashTypeLookupWriteOrCreate(s, a[2], set)

(* HSET and HMSET: a[3] is the sequence of pairs <<field, value>> *)
hsetCommand(s, a) ==
  LET set(t, h) ==
        LET n == FoldLeft(LAMBDA g, p : hashTypeSet(g, p[1], p[2]), h, a[3])
        IN Reply(Modified(Put(t, a[2], Hash(n)), a[2], Len(a[3])),
                 <<"int", Cardinality(DOMAIN n \ DOMAIN h)>>)
  IN hashTypeLookupWriteOrCreate(s, a[2], set)

HashNumber(h, f) == IF f \in DOMAIN h THEN h[f] ELSE 0

hincrbyCommand(s, a) ==
  LET add(t, h) ==
        LET old == HashNumber(h, a[3]) IN
        IF old = Word \/ old \notin LLMIN..LLMAX \/ AddOverflows(old, a[4]) THEN Fail(t)
        ELSE Reply(Modified(Put(t, a[2], Hash(hashTypeSet(h, a[3], old + a[4]))), a[2], 1),
                   <<"int", old + a[4]>>)
  IN hashTypeLookupWriteOrCreate(s, a[2], add)

hincrbyfloatCommand(s, a) ==
  LET add(t, h) ==
        LET old == HashNumber(h, a[3])  new == old + a[4] IN
        IF old = Word \/ new \notin -FloatMax..FloatMax THEN Fail(t)
        ELSE rewriteClientCommandVector(
               Modified(Put(t, a[2], Hash(hashTypeSet(h, a[3], new))), a[2], 1),
               <<"hset", a[2], <<<<a[3], new>>>>>>)
  IN hashTypeLookupWriteOrCreate(s, a[2], add)

HashField(h, f) == IF f \in DOMAIN h THEN <<"bulk", h[f]>> ELSE <<"nil">>

(* HGET and HMGET *)
hmgetCommand(s, a) ==
  OnRead(s, a[2], "hash", <<>>,
         LAMBDA t, h : Reply(t, <<"array", [i \in DOMAIN a[3] |-> HashField(h, a[3][i])]>>))

(* The loop stops with the last field of the hash. *)
hdelCommand(s, a) ==
  LET del(t, h) ==
        LET rest == FoldLeft(LAMBDA g, f : hashTypeDelete(g, f), h, a[3])
            deleted == Cardinality(DOMAIN h) - Cardinality(DOMAIN rest)
            u == IF DOMAIN rest = {} THEN dbDelete(t, a[2]) ELSE Put(t, a[2], Hash(rest))
        IN IF deleted = 0 THEN Reply(t, <<"int", 0>>)
           ELSE Reply(Modified(u, a[2], deleted), <<"int", deleted>>)
  IN OnWrite(s, a[2], "hash", <<>>, del)

(* HLEN, HEXISTS, HSTRLEN, HKEYS, HVALS and HGETALL read the hash. *)
genericHgetallCommand(s, a) ==
  OnRead(s, a[2], "hash", <<>>, LAMBDA t, h : Reply(t, <<"map", h>>))

-----------------------------------------------------------------------------
(* Random fields and members *)

hrandfieldCommand(s, a) ==
  OnRead(s, a[2], "hash", <<>>,
         LAMBDA t, h : Reply(t, <<"array", RandomSample(DOMAIN h, a[3], a[4])>>))

srandmemberCommand(s, a) ==
  OnRead(s, a[2], "set", {},
         LAMBDA t, m : Reply(t, <<"array", RandomSample(m, a[3], a[4])>>))

-----------------------------------------------------------------------------
(* Sets *)

saddCommand(s, a) ==
  LET add(t, m) ==
        LET added == Cardinality(a[3] \ m)
            u == Dirty(Put(t, a[2], Set(m \cup a[3])), added)
        IN Reply(IF added > 0 THEN signalModifiedKey(u, a[2]) ELSE u, <<"int", added>>)
  IN OnWrite(s, a[2], "set", {}, add)

sremCommand(s, a) ==
  LET rem(t, m) ==
        LET deleted == Cardinality(m \cap a[3])
            u == IF m \subseteq a[3] THEN dbDelete(t, a[2]) ELSE Put(t, a[2], Set(m \ a[3]))
        IN IF deleted = 0 THEN Reply(t, <<"int", 0>>)
           ELSE Reply(Modified(u, a[2], deleted), <<"int", deleted>>)
  IN OnWrite(s, a[2], "set", {}, rem)

(* <<"smove", source, destination, element>> *)
smoveCommand(s, a) ==
  LET src == a[2]  dst == a[3]  e == a[4]
      t == expireIfNeeded(expireIfNeeded(s, src), dst)
      m == Val(lookupKey(t, src))
      u == IF m = {e} THEN dbDelete(t, src) ELSE Put(t, src, Set(m \ {e}))
      d == IF lookupKey(t, dst) = None THEN {} ELSE Val(lookupKey(t, dst))
      w == Modified(u, src, 1)
  IN IF lookupKey(t, src) = None THEN Reply(t, <<"int", 0>>)
     ELSE IF Type(lookupKey(t, src)) # "set" \/ Type(lookupKey(t, dst)) \notin {"none", "set"}
     THEN WrongType(t)
     ELSE IF src = dst \/ e \notin m THEN Reply(t, <<"int", IF e \in m THEN 1 ELSE 0>>)
     ELSE Reply(IF e \in d THEN w ELSE Modified(Put(w, dst, Set(d \cup {e})), dst, 1), <<"int", 1>>)

(* SISMEMBER, SMISMEMBER, SCARD and SMEMBERS read the set. *)
smembersCommand(s, a) == OnRead(s, a[2], "set", {}, LAMBDA t, m : Reply(t, <<"set", m>>))

SpopMul == 5

(* SPOP with a count: DEL when the set becomes empty, else one SREM for    *)
(* every element; the elements drawn are the ones that go, or the ones     *)
(* that stay when few are left.                                            *)
spopWithCountCommand(s, a) ==
  LET k == a[2]  count == a[3]
      pop(t, m) ==
        LET size == Cardinality(m)
            remaining == size - count
            gone == IF remaining * SpopMul > count THEN ToSet(Draw(m, count, a[4]))
                    ELSE m \ ToSet(Draw(m, remaining, a[4]))
            srems(u) == FoldLeft(LAMBDA w, e : alsoPropagate(w, <<"srem", k, {e}>>, Targets),
                                 u, SetToSeq(gone))
            u == Reply(t, <<"set", gone>>)
        IN IF m = {} \/ count = 0 THEN Reply(t, <<"set", {}>>)
           ELSE IF count >= size
           THEN Reply(Modified(rewriteClientCommandVector(dbDelete(t, k), <<"del", {k}>>), k, size),
                      <<"set", m>>)
           ELSE preventCommandPropagation(srems(Modified(Put(u, k, Set(m \ gone)), k, count)))
  IN OnWrite(s, k, "set", {}, pop)

spopCommand(s, a) ==
  LET k == a[2]
      pop(t, m) ==
        LET e == Head(Draw(m, 1, a[3]))
            u == IF m = {e} THEN dbDelete(t, k) ELSE Put(t, k, Set(m \ {e}))
        IN IF m = {} THEN Reply(t, <<"nil">>)
           ELSE Modified(rewriteClientCommandVector(Reply(u, <<"bulk", e>>), <<"srem", k, {e}>>), k, 1)
  IN OnWrite(s, k, "set", {}, pop)

-----------------------------------------------------------------------------
(* Intersection, union and difference *)

(* The sets of the keys, in order, after every key has been looked up; a   *)
(* STORE command looks its sources up as a write does.                     *)
LookupSets(s, keys) ==
  FoldLeft(LAMBDA t, k :
             IF Failed(t) THEN t
             ELSE LET u == expireIfNeeded(t, k)
                  IN IF Type(lookupKeyRead(u, k)) \in {"none", "set"} THEN u ELSE WrongType(u),
           s, keys)
SetAt(s, k) == LET o == lookupKeyRead(s, k) IN IF o = None THEN {} ELSE Val(o)

(* Every element of the smallest set is looked for in the others. *)
Inter(sets) ==
  LET smallest == CHOOSE i \in DOMAIN sets :
                    \A j \in DOMAIN sets : Cardinality(sets[i]) <= Cardinality(sets[j])
  IN IF \E i \in DOMAIN sets : sets[i] = {} THEN {}
     ELSE {e \in sets[smallest] : \A j \in DOMAIN sets : e \in sets[j]}

(* SDIFF works on the elements of the first set or on the elements of all  *)
(* the others, whichever is estimated to be less.                          *)
Diff(sets) ==
  LET others == Tail(sets)
      nonempty == {i \in DOMAIN sets : sets[i] # {}}
      one == (Cardinality(nonempty) * Cardinality(sets[1])) \div 2
      two == MapThenSumSet(LAMBDA i : Cardinality(sets[i]), nonempty)
  IN IF one <= two
     THEN {e \in sets[1] : ~\E j \in DOMAIN others : e \in others[j]}
     ELSE FoldLeft(LAMBDA m, o : m \ o, sets[1], others)

SetOp(op, sets) == CASE op = "inter" -> Inter(sets)
                     [] op = "diff"  -> Diff(sets)
                     [] op = "union" -> UNION {sets[i] : i \in DOMAIN sets}

(* SINTER, SUNION and SDIFF *)
setOpCommand(s, op, keys) ==
  LET t == LookupSets(s, keys)
  IN IF Failed(t) THEN t
     ELSE Reply(t, <<"set", SetOp(op, [i \in DOMAIN keys |-> SetAt(t, keys[i])])>>)

(* The result replaces the destination, or removes it when it is empty. *)
setOpStoreCommand(s, op, dst, keys) ==
  LET t == setOpCommand(s, op, keys)
      m == t.reply[2]
  IN IF Failed(t) THEN t
     ELSE IF m # {} THEN Reply(Dirty(setKey(t, dst, Set(m)), 1), <<"int", Cardinality(m)>>)
     ELSE IF lookupKey(t, dst) = None THEN Reply(t, <<"int", 0>>)
     ELSE Reply(Modified(dbDelete(t, dst), dst, 1), <<"int", 0>>)

-----------------------------------------------------------------------------
(***************************************************************************)
(* The list commands (t_list.c).  A list is a sequence of elements; a      *)
(* blocking command that finds nothing leaves a request to block in the    *)
(* reply, <<"block", type, keys, more>>.                                   *)
(***************************************************************************)

List(l) == <<"list", l>>

listTypePush(l, e, where) == IF where = "left" THEN <<e>> \o l ELSE Append(l, e)
listTypePop(l, where) == IF where = "left" THEN Tail(l) ELSE Front(l)
End(l, where) == IF where = "left" THEN Head(l) ELSE Last(l)

(* The elements between two indexes, which count from the end when they    *)
(* are negative.                                                           *)
ListRange(l, first, last) ==
  LET n == Len(l)
      start == IF first < 0 THEN Max({n + first, 0}) ELSE first
      end == IF last < 0 THEN n + last ELSE last
  IN IF start > end \/ start >= n THEN <<>>
     ELSE SubSeq(l, start + 1, Min({end, n - 1}) + 1)

(* The elements in the order an iterator that starts at the tail, or at    *)
(* the head, returns them.                                                 *)
From(l, tail) == IF tail THEN Reverse(l) ELSE l

Magnitude(n) == IF n < 0 THEN -n ELSE n

-----------------------------------------------------------------------------
pushGenericCommand(s, a, where, xx) ==
  LET k == a[2]
      push(t, l) ==
        IF xx /\ lookupKey(t, k) = None THEN Reply(t, <<"int", 0>>)
        ELSE LET n == FoldLeft(LAMBDA m, e : listTypePush(m, e, where), l, a[3])
             IN Reply(Modified(Put(t, k, List(n)), k, Len(a[3])), <<"int", Len(n)>>)
  IN OnWrite(s, k, "list", <<>>, push)

(* <<"linsert", k, where, pivot, element>> *)
linsertCommand(s, a) ==
  LET k == a[2]
      insert(t, l) ==
        LET i == SelectInSeq(l, LAMBDA e : e = a[4])
            at == IF a[3] = "before" THEN i ELSE i + 1
        IN IF lookupKey(t, k) = None THEN Reply(t, <<"int", 0>>)
           ELSE IF i = 0 THEN Reply(t, <<"int", -1>>)
           ELSE Reply(Modified(Put(t, k, List(InsertAt(l, at, a[5]))), k, 1),
                      <<"int", Len(l) + 1>>)
  IN OnWrite(s, k, "list", <<>>, insert)

llenCommand(s, a) ==
  OnRead(s, a[2], "list", <<>>, LAMBDA t, l : Reply(t, <<"int", Len(l)>>))

(* The position of index i, or 0 *)
Position(l, i) ==
  LET p == IF i < 0 THEN Len(l) + i + 1 ELSE i + 1 IN IF p \in 1..Len(l) THEN p ELSE 0

lindexCommand(s, a) ==
  OnRead(s, a[2], "list", <<>>,
         LAMBDA t, l : Reply(t, IF Position(l, a[3]) = 0 THEN <<"nil">>
                                ELSE <<"bulk", l[Position(l, a[3])]>>))

lsetCommand(s, a) ==
  LET k == a[2]
      set(t, l) ==
        LET p == Position(l, a[3]) IN
        IF p = 0 THEN Fail(t)
        ELSE Reply(Modified(Put(t, k, List([l EXCEPT ![p] = a[4]])), k, 1), <<"ok">>)
  IN OnWrite(s, k, "list", <<>>, set)

(* The list is deleted with its last element. *)
listElementsRemoved(s, k, l, count) ==
  Modified(IF l = <<>> THEN dbDelete(s, k) ELSE Put(s, k, List(l)), k, count)

(* <<"lpop", k, count>>; count is 0 when it is not given.  LPOP key 0      *)
(* returns before it looks the key up: it is not one of the inputs.        *)
popGenericCommand(s, a, where) ==
  LET k == a[2]
      pop(t, l) ==
        LET n == Min({IF a[3] = 0 THEN 1 ELSE a[3], Len(l)})
            out == From(ListRange(l, IF where = "left" THEN 0 ELSE -n,
                                     IF where = "left" THEN n - 1 ELSE -1), where = "right")
            rest == IF where = "left" THEN SubSeq(l, n + 1, Len(l)) ELSE SubSeq(l, 1, Len(l) - n)
        IN IF lookupKey(t, k) = None THEN Reply(t, <<"nil">>)
           ELSE Reply(listElementsRemoved(t, k, rest, n), <<"array", out>>)
  IN OnWrite(s, k, "list", <<>>, pop)

lrangeCommand(s, a) ==
  OnRead(s, a[2], "list", <<>>, LAMBDA t, l : Reply(t, <<"array", ListRange(l, a[3], a[4])>>))

ltrimCommand(s, a) ==
  LET k == a[2]
      trim(t, l) ==
        LET n == Len(l)
            start == IF a[3] < 0 THEN Max({n + a[3], 0}) ELSE a[3]
            end == IF a[4] < 0 THEN n + a[4] ELSE a[4]
            empty == start > end \/ start >= n
            ltrim == IF empty THEN n ELSE start
            rtrim == IF empty THEN 0 ELSE n - Min({end, n - 1}) - 1
            rest == SubSeq(l, ltrim + 1, n - rtrim)
        IN IF lookupKey(t, k) = None THEN Reply(t, <<"ok">>)
           ELSE Reply(Modified(IF rest = <<>> THEN dbDelete(t, k) ELSE Put(t, k, List(rest)),
                               k, ltrim + rtrim), <<"ok">>)
  IN OnWrite(s, k, "list", <<>>, trim)

(* LPOS: the indexes of the matches of e from number rank on; count is -1  *)
(* when it is not given, 0 for all of them; maxlen bounds the scan.        *)
Matches(l, e, rank, count, maxlen) ==
  LET n == Len(l)
      seen == From(l, rank < 0)
      scan(r, i) ==
        IF r.done \/ (maxlen # 0 /\ i > maxlen) \/ seen[i] # e THEN r
        ELSE LET m == r.matches + 1
                 hit == m >= Magnitude(rank)
                 index == IF rank > 0 THEN i - 1 ELSE n - i
             IN [matches |-> m,
                 out |-> IF hit THEN Append(r.out, index) ELSE r.out,
                 done |-> hit /\ (count = -1 \/ (count > 0 /\ m - Magnitude(rank) + 1 >= count))]
  IN FoldLeft(scan, [matches |-> 0, out |-> <<>>, done |-> FALSE], [i \in 1..n |-> i]).out

lposCommand(s, a) ==
  IF a[4] = 0 THEN Fail(s)
  ELSE OnRead(s, a[2], "list", <<>>,
              LAMBDA t, l : Reply(t, <<"array", Matches(l, a[3], a[4], a[5], a[6])>>))

(* LREM k count element: the first count matches from the head, or from    *)
(* the tail when count is negative; all of them when it is zero.           *)
lremCommand(s, a) ==
  LET k == a[2]  toremove == Magnitude(a[3])
      sweep(l) ==
        FoldLeft(LAMBDA r, e : IF e = a[4] /\ (toremove = 0 \/ r[2] < toremove)
                               THEN <<r[1], r[2] + 1>> ELSE <<Append(r[1], e), r[2]>>,
                 <<<<>>, 0>>, From(l, a[3] < 0))
      remove(t, l) ==
        LET r == sweep(l)
            rest == From(r[1], a[3] < 0)
            u == IF r[2] > 0 THEN Modified(Put(t, k, List(rest)), k, r[2]) ELSE t
        IN IF lookupKey(t, k) = None THEN Reply(t, <<"int", 0>>)
           ELSE Reply(IF rest = <<>> THEN dbDelete(u, k) ELSE u, <<"int", r[2]>>)
  IN OnWrite(s, k, "list", <<>>, remove)

-----------------------------------------------------------------------------
(* LMOVE, RPOPLPUSH and their blocking forms *)

lmoveHandlePush(s, k, e, where) ==
  LET l == IF lookupKey(s, k) = None THEN <<>> ELSE Val(lookupKey(s, k))
  IN Reply(signalModifiedKey(Put(s, k, List(listTypePush(l, e, where))), k), <<"bulk", e>>)

(* <<"lmove", source, destination, from, to>>, with the blocking forms     *)
(* propagated as the plain ones                                            *)
lmoveGenericCommand(s, a, from, to) ==
  LET k == a[2]  dst == a[3]
      move(t, l) ==
        LET u == expireIfNeeded(t, dst)
            e == End(l, from)
            v == lmoveHandlePush(dbOverwrite(u, k, List(listTypePop(l, from))), dst, e, to)
            w == IF Val(lookupKey(v, k)) = <<>> THEN dbDelete(v, k) ELSE v
            m == Modified(w, k, 1)
        IN IF lookupKey(t, k) = None THEN Reply(t, <<"nil">>)
           ELSE IF Type(lookupKey(u, dst)) \notin {"none", "list"} THEN WrongType(u)
           ELSE CASE a[1] = "blmove"     -> rewriteClientCommandVector(m, <<"lmove", k, dst, from, to>>)
                  [] a[1] = "brpoplpush" -> rewriteClientCommandVector(m, <<"rpoplpush", k, dst>>)
                  [] OTHER -> m
  IN OnWrite(s, k, "list", <<>>, move)

Block(s, type, keys, more) ==
  IF "denyblocking" \in s.flags THEN Reply(s, <<"nil">>)
  ELSE Reply(s, <<"block", type, keys, more>>)

(* <<"blpop", keys>>: the first key that is not empty *)
blockingPopGenericCommand(s, a, where) ==
  LET try(t, k) ==
        IF t.reply # <<>> THEN t
        ELSE LET u == expireIfNeeded(t, k)
                 o == lookupKey(u, k)
             IN IF o = None THEN u
                ELSE IF Type(o) # "list" THEN WrongType(u)
                ELSE Reply(rewriteClientCommandVector(
                             listElementsRemoved(u, k, listTypePop(Val(o), where), 1),
                             <<IF where = "left" THEN "lpop" ELSE "rpop", k, 0>>),
                           <<"pair", k, End(Val(o), where)>>)
      t == FoldLeft(try, s, a[2])
  IN IF t.reply # <<>> THEN t ELSE Block(t, "list", a[2], [from |-> where])

blmoveGenericCommand(s, a, from, to) ==
  LET t == expireIfNeeded(s, a[2])
      more == [from |-> from, to |-> to, dst |-> a[3], cmd |-> a[1]]
  IN IF lookupKey(t, a[2]) = None THEN Block(t, "list", <<a[2]>>, more)
     ELSE lmoveGenericCommand(t, a, from, to)

=============================================================================
