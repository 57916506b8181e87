----------------------------- MODULE Structures -----------------------------
(***************************************************************************)
(* The data structures under the types of Redis, each beside the value it  *)
(* stands for: a sequence for a ziplist, a listpack and a quicklist, a set,*)
(* and functions for a hash, a sorted set and a radix tree.  The same for  *)
(* what supports the server: strings, lists, zipmaps, compression,         *)
(* patterns, partial sorting, the pool of keys to evict, latencies, and    *)
(* the users with their rules, which stand for the rights they mean.  A    *)
(* behaviour works on one structure; every operation changes the structure *)
(* by its code and the value by its meaning.                               *)
(***************************************************************************)
EXTENDS Quicklist, SortedSet

LOCAL INSTANCE SequencesExt
LOCAL INSTANCE FiniteSetsExt

CONSTANTS
  LP_HDR_NUMELE_UNKNOWN,
  MaxLevel,       \* the most levels of a skiplist
  Kinds,          \* the structures: [name, ops, vals, max] and parameters
  Scores,         \* the scores of members, in halves
  Ranges,         \* ranges of scores
  LexRanges,      \* ranges of members
  RaxKeys,        \* keys of a radix tree, sequences of numbers
  orig_commands,  \* the commands and the categories rules are about
  ACLCommandCategories,
  acl_pubsub_default, ACL_LOG_GROUPING_MAX_TIME_DELTA, toscan, acllog_max_len,
  sds_limits, SDS_MAX_PREALLOC, ZIPMAP_BIGLEN, ZIPMAP_VALUE_MAX_FREE,
  LZF_BYTE, MAX_LIT, LZF_UNROLLED, pqsort_small, pqsort_large, pqsort_parts,
  EVPOOL_SIZE, EVPOOL_CACHED_SDS_SIZE, LRU_CLOCK_MAX, LFU_TIME_MAX, LFU_COUNTER_MAX,
  LATENCY_TS_LEN,
  Operate(_, _, _),  \* structureOps: what an operation makes of a structure
  Answers(_, _, _)   \* structureAnswers: whether it answers as its value

SB == INSTANCE StreamBlocks
SU == INSTANCE Support
AC == INSTANCE Acl

VARIABLES
  kind,    \* the structure of this behaviour
  s,       \* the structure
  ref      \* the value it stands for
vars == <<kind, s, ref>>

Is(name, op) == kind.name = name /\ op \in kind.ops
Room == Len(ref) < kind.max

Fresh(k) ==
  CASE k.name = "ziplist"   -> ziplistNew
    [] k.name = "listpack"  -> SB!lpNew
    [] k.name = "quicklist" -> quicklistNew(k.fill, k.depth)
    [] k.name = "set"       -> setTypeCreate(k.first)
    [] k.name = "hash"      -> createHashObject
    [] k.name = "zset"      -> zaddCreate(k.first, MaxLevel)
    [] k.name = "rax"       -> SB!raxNew
    [] k.name = "acl"       -> AC!ACLInit(k.clients, k.file)
    [] k.name = "sds"       -> SU!sdsnewlen(<<>>, 0)
    [] k.name = "list"      -> [list |-> SU!listCreate, iter |-> SU!listRewind(SU!listCreate)]
    [] k.name = "zipmap"    -> SU!zipmapNew
    [] k.name = "lzf"       -> SU!lzf_start(<<>>, 0)
    [] k.name = "evpool"    -> SU!evictionPoolAlloc
    [] k.name = "latency"   -> [e \in k.events |-> <<>>]
    [] k.name \in {"glob", "pqsort", "acllog"} -> <<>>

Value0(k) ==
  CASE k.name \in {"ziplist", "listpack", "quicklist", "sds", "lzf", "glob", "pqsort", "acllog"} -> <<>>
    [] k.name = "list" -> [q |-> <<>>, at |-> 0, forward |-> TRUE]
    [] k.name = "set" -> {}
    [] k.name = "evpool" -> [q |-> <<>>, bestkey |-> <<>>]
    [] k.name = "latency" -> [e \in k.events |-> [high |-> 0, q |-> <<>>]]
    [] k.name = "acl" -> AC!AclValue(k.clients, k.file)
    [] OTHER -> [x \in {} |-> 0]

Init == \E k \in Kinds : kind = k /\ s = Fresh(k) /\ ref = Value0(k)

(* The numbers of nodes stand for pointers and mean nothing: they are given*)
(* out again in the order of the nodes, so that structures that differ in  *)
(* them only are one state.                                                *)
RenumberedList(ql) ==
  [ql EXCEPT !.nodes = [k \in DOMAIN @ |-> [@[k] EXCEPT !.id = k]],
             !.marks = [m \in DOMAIN @ |-> Pos(ql, @[m])]]

RenumberedTree(t) ==
  LET Walk[h \in DOMAIN t.node] ==
        <<h>> \o FlattenSeq([k \in DOMAIN t.node[h].kids |-> Walk[t.node[h].kids[k]]])
      order == Walk[t.head]
      New(h) == SelectInSeq(order, LAMBDA x : x = h)
  IN  [t EXCEPT !.head = 1,
                !.node = [n \in DOMAIN order |->
                  LET o == @[order[n]]
                  IN  [o EXCEPT !.kids = [k \in DOMAIN @ |-> New(@[k])]]]]

RenumberedNodes(t) ==
  LET order == SU!ListWalk(t.list, SU!listRewind(t.list))
      New(n) == SelectInSeq(order, LAMBDA x : x = n)
  IN  [list |-> [t.list EXCEPT !.head = New(@), !.tail = New(@),
                   !.node = [k \in DOMAIN order |->
                     [@[order[k]] EXCEPT !.prev = New(@), !.next = New(@)]]],
       iter |-> [t.iter EXCEPT !.next = New(@)]]

(* The bytes after the zero at the end mean nothing. *)
Forgotten(t) == [t EXCEPT !.buf = [i \in DOMAIN @ |-> IF i > t.len + 1 THEN SU!Garbage ELSE @[i]]]

(* Nor does memory of the pool that no entry uses for its key, nor the     *)
(* database of an empty entry.                                             *)
ForgottenKeys(t) ==
  LET used == {t.pool[k].cached : k \in {j \in DOMAIN t.pool : t.pool[j].key = "cached"}}
      Blank(e) == IF e.key = "NULL" THEN [e EXCEPT !.dbid = 0, !.copy = SU!NoKey] ELSE e
  IN  [t EXCEPT !.memory = [m \in DOMAIN @ |-> IF m \in used THEN @[m] ELSE SU!NoKey],
                !.pool = [k \in DOMAIN @ |-> Blank(@[k])]]

Becomes(t, r) ==
  /\ s' = CASE kind.name = "quicklist" -> RenumberedList(t)
            [] kind.name = "rax" -> RenumberedTree(t)
            [] kind.name = "list" -> RenumberedNodes(t)
            [] kind.name = "sds" -> Forgotten(t)
            [] kind.name = "evpool" -> ForgottenKeys(t)
            [] OTHER -> t
  /\ ref' = r /\ kind' = kind

InsertSeq(q, i, v) == SubSeq(q, 1, i - 1) \o <<v>> \o SubSeq(q, i, Len(q))
CutSeq(q, i, n) == SubSeq(q, 1, i - 1) \o SubSeq(q, i + n, Len(q))
SetAt(q, i, v) == [q EXCEPT ![i] = v]

-----------------------------------------------------------------------------
(* The code of the operations, by name: a takes their arguments. *)
structureOps(op, st, a) ==
  LET two == ziplistPush(ziplistPush(ziplistNew, a[1], "tail"), a[2], "tail")
  IN  CASE op = "ziplistPush" -> ziplistPush(st, a[1], a[2])
      [] op = "ziplistInsert" -> ziplistInsert(st, ziplistIndex(st, a[1]), a[2])
      [] op = "ziplistDelete" -> ziplistDelete(st, ziplistIndex(st, a[1]))
      [] op = "ziplistDeleteRange" -> ziplistDeleteRange(st, a[1], a[2])
      [] op = "ziplistReplace" -> ziplistReplace(st, ziplistIndex(st, a[1]), a[2])
      [] op = "ziplistMerge" -> ziplistMerge(two, st)
      [] op = "ziplistLen" -> ziplistLenStored(st)
      [] op = "lpAppend" -> SB!lpAppend(st, a[1])
      [] op = "lpInsert" -> SB!lpInsert(st, a[1], SB!lpSeek(st, a[2]), a[3])
      [] op = "lpDelete" -> SB!lpDelete(st, SB!lpSeek(st, a[1]))
      [] op = "lpLength" -> SB!lpLengthStored(st)
      [] op = "quicklistPush" -> quicklistPush(st, a[1], a[2])
      [] op = "quicklistPop" -> quicklistPop(st, a[1])
      [] op = "quicklistRotate" -> quicklistRotate(st)
      [] op = "quicklistIndex" -> quicklistIndex(st, a[1]).ql
      [] op = "quicklistReplaceAtIndex" -> quicklistReplaceAtIndex(st, a[1], a[2])
      [] op = "listTypeWalk" -> listTypeWalk(st, a[1], a[2], a[3]).ql
      [] op = "linsertCommand" -> linsertCommand(st, a[1], a[2], a[3])
      [] op = "lremCommand" -> lremCommand(st, a[1], a[2])
      [] op = "ltrimCommand" -> ltrimCommand(st, a[1], a[2])
      [] op = "quicklistDup" -> quicklistDup(st)
      [] op = "quicklistAppend" -> IF a[3] THEN quicklistAppendZiplist(st, two)
           ELSE quicklistAppendValuesFromZiplist(st, two)
      [] op = "setTypeAdd" -> setTypeAdd(st, a[1])
      [] op = "setTypeRemove" -> setTypeRemove(st, a[1])
      [] op = "setTypeDup" -> setTypeDup(st)
      [] op = "hsetCommand" -> hsetCommand(st, a[1], a[2])
      [] op = "hashTypeDelete" -> hashTypeDelete(st, a[1])
      [] op = "zsetAdd" -> zsetAdd(st, a[1], a[2], a[3], LAMBDA e : a[4][e], MaxLevel).zs
      [] op = "zsetDel" -> zsetDel(st, a[1])
      [] op = "zremrange" -> zremrangeGenericCommand(st, a[1], a[2])
      [] op = "zsetDup" -> zsetDup(st, LAMBDA e : a[1][e], MaxLevel)
      [] op = "zsetConvertToZiplist" -> zsetConvertToZiplistIfNeeded(st, a[1])
      [] op = "raxInsert" -> SB!raxInsert(st, a[1], a[2])
      [] op = "raxTryInsert" -> SB!raxTryInsert(st, a[1], a[2])
      [] op = "raxRemove" -> SB!raxRemove(st, a[1])
      [] op = "aclSetuser" -> AC!aclSetuser(st, a[1], a[2])
      [] op = "aclDeluser" -> AC!aclDeluser(st, a[1])
      [] op = "ACLLoadFromFile" -> AC!ACLLoadFromFile(st)
      [] op = "ACLSaveToFile" -> AC!ACLSaveToFile(st, a[1])
      [] op = "ACLLoadUsersAtStartup" -> AC!ACLLoadUsersAtStartup(st, a[1])
      [] op = "requirepass" -> AC!ACLUpdateDefaultUserPassword(st, a[1])
      [] op = "clientSetDefaultAuth" -> AC!clientSetDefaultAuth(st, a[1])
      [] op = "authCommand" -> AC!authCommand(st, a[1], a[2], a[3])
      [] op = "aclSubscribe" -> AC!aclSubscribe(st, a[1], a[2])
      [] op = "addACLLogEntry" -> AC!addACLLogEntry(st, a[1], a[2])
      [] op = "sdscatlen" -> SU!sdscatlen(st, a[1], a[2])
      [] op = "sdscpylen" -> SU!sdscpylen(st, a[1], a[2])
      [] op = "sdsgrowzero" -> SU!sdsgrowzero(st, a[1], a[2])
      [] op = "sdscatfmt" -> SU!sdscatfmt(st, a[1], a[2])
      [] op = "sdsrange" -> SU!sdsrange(st, a[1], a[2])
      [] op = "sdstrim" -> SU!sdstrim(st, a[1])
      [] op = "listAddNode" -> IF a[2] THEN SU!listAddNodeHead(st, a[1])
           ELSE SU!listAddNodeTail(st, a[1])
      [] op = "listInsertNode" -> SU!listInsertNode(st, a[1], a[2], a[3])
      [] op = "listDelNode" -> SU!listDelNode(st, a[1])
      [] op = "listRotate" -> IF a[1] THEN SU!listRotateTailToHead(st)
           ELSE SU!listRotateHeadToTail(st)
      [] op = "listJoin" -> SU!listJoin(st, a[1])
      [] op = "zipmapSet" -> SU!zipmapSet(st, a[1], a[2])
      [] op = "zipmapDel" -> SU!zipmapDel(st, a[1])
      [] op = "lzf_match" -> SU!lzf_match(st, a[1])
      [] op = "lzf_literal" -> SU!lzf_literal(st)
      [] op = "lzf_end" -> SU!lzf_end(st)
      [] op = "evictionRound" -> SU!evictionRound(st, a[1], a[2], a[3], a[4])
      [] op = "latencyAddSample" -> SU!latencyAddSample(st, a[1], a[2])

-----------------------------------------------------------------------------
(* A ziplist *)

ZiplistPush ==
  /\ Is("ziplist", "push") /\ Room
  /\ \E v \in kind.vals, w \in {"head", "tail"} :
       Becomes(Operate("ziplistPush", s, <<v, w>>), IF w = "head" THEN <<v>> \o ref ELSE Append(ref, v))

ZiplistInsert ==
  /\ Is("ziplist", "insert") /\ Room
  /\ \E i \in 1..Len(ref) : \E v \in kind.vals :
       Becomes(Operate("ziplistInsert", s, <<i - 1, v>>), InsertSeq(ref, i, v))

ZiplistDelete ==
  /\ Is("ziplist", "delete")
  /\ \E i \in 1..Len(ref) :
       Becomes(Operate("ziplistDelete", s, <<i - 1>>), CutSeq(ref, i, 1))

ZiplistDeleteRange ==
  /\ Is("ziplist", "range")
  /\ \E i \in 1..Len(ref), n \in 1..2 :
       Becomes(Operate("ziplistDeleteRange", s, <<i - 1 - Len(ref), n>>), CutSeq(ref, i, n))

ZiplistReplace ==
  /\ Is("ziplist", "replace")
  /\ \E i \in 1..Len(ref) : \E v \in kind.vals :
       Becomes(Operate("ziplistReplace", s, <<i - 1, v>>), SetAt(ref, i, v))

(* A block of one or two entries is put before this one. *)
ZiplistMerge ==
  /\ Is("ziplist", "merge") /\ ref # <<>> /\ Len(ref) + 2 <= kind.max
  /\ \E v, w \in kind.vals :
       Becomes(Operate("ziplistMerge", s, <<v, w>>),
                  <<v, w>> \o ref)

ZiplistLen ==
  /\ Is("ziplist", "len")
  /\ Becomes(Operate("ziplistLen", s, <<>>), ref)

-----------------------------------------------------------------------------
(* A listpack *)

ListpackAppend ==
  /\ Is("listpack", "append") /\ Room
  /\ \E v \in kind.vals :
       Becomes(Operate("lpAppend", s, <<v>>), Append(ref, v))

ListpackInsert ==
  /\ Is("listpack", "insert") /\ Room
  /\ \E i \in 1..Len(ref) : \E v \in kind.vals, w \in {"before", "after"} :
       Becomes(Operate("lpInsert", s, <<v, i - 1, w>>),
                  InsertSeq(ref, IF w = "before" THEN i ELSE i + 1, v))

ListpackReplace ==
  /\ Is("listpack", "replace")
  /\ \E i \in 1..Len(ref) : \E v \in kind.vals :
       Becomes(Operate("lpInsert", s, <<v, i - 1, "replace">>), SetAt(ref, i, v))

ListpackDelete ==
  /\ Is("listpack", "delete")
  /\ \E i \in 1..Len(ref) :
       Becomes(Operate("lpDelete", s, <<i - 1 - Len(ref)>>), CutSeq(ref, i, 1))

ListpackLength ==
  /\ Is("listpack", "len")
  /\ Becomes(Operate("lpLength", s, <<>>), ref)

-----------------------------------------------------------------------------
(* A quicklist *)

QuicklistPush ==
  /\ Is("quicklist", "push") /\ Room
  /\ \E v \in kind.vals, w \in {"head", "tail"} :
       Becomes(Operate("quicklistPush", s, <<v, w>>), IF w = "head" THEN <<v>> \o ref ELSE Append(ref, v))

QuicklistPop ==
  /\ Is("quicklist", "pop") /\ ref # <<>>
  /\ \E w \in {"head", "tail"} :
       Becomes(Operate("quicklistPop", s, <<w>>), IF w = "head" THEN Tail(ref) ELSE Front(ref))

QuicklistRotate ==
  /\ Is("quicklist", "rotate") /\ Len(ref) > 1
  /\ Becomes(Operate("quicklistRotate", s, <<>>), <<Last(ref)>> \o Front(ref))

(* LINDEX and LSET *)
QuicklistIndex ==
  /\ Is("quicklist", "index")
  /\ \E i \in 1..Len(ref) :
       Becomes(Operate("quicklistIndex", s, <<i - 1>>), ref)

QuicklistReplace ==
  /\ Is("quicklist", "set")
  /\ \E i \in 1..Len(ref) : \E v \in kind.vals :
       Becomes(Operate("quicklistReplaceAtIndex", s, <<i - 1 - Len(ref), v>>), SetAt(ref, i, v))

QuicklistWalk ==
  /\ Is("quicklist", "walk")
  /\ \E i \in 1..Len(ref), forward \in BOOLEAN, n \in 1..3 :
       Becomes(Operate("listTypeWalk", s, <<i - 1, forward, n>>), ref)

QuicklistInsert ==
  /\ Is("quicklist", "linsert")
  /\ \E pivot, v \in kind.vals, after \in BOOLEAN :
       LET i == SelectInSeq(ref, LAMBDA x : x = pivot)
       IN  /\ Room
           /\ Becomes(Operate("linsertCommand", s, <<pivot, v, after>>),
                      IF i = 0 THEN ref ELSE InsertSeq(ref, IF after THEN i + 1 ELSE i, v))

RemoveSome(q, v, n) ==
  LET Hits == {i \in 1..Len(q) : q[i] = v}
      Gone == {i \in Hits :
                 \/ n = 0
                 \/ n > 0 /\ Cardinality({j \in Hits : j < i}) < n
                 \/ n < 0 /\ Cardinality({j \in Hits : j > i}) < -n}
      keep == SetToSortSeq((1..Len(q)) \ Gone, <)
  IN  [i \in 1..Len(keep) |-> q[keep[i]]]

QuicklistRemove ==
  /\ Is("quicklist", "lrem")
  /\ \E v \in kind.vals, n \in {-1, 0, 2} :
       Becomes(Operate("lremCommand", s, <<v, n>>), RemoveSome(ref, v, n))

QuicklistTrim ==
  /\ Is("quicklist", "ltrim")
  /\ \E i \in 0..2, j \in {-1, -2, 1} :
       LET n == Len(ref)
           last == IF j < 0 THEN n + j ELSE Min({n - 1, j})
       IN  /\ ref # <<>>
           /\ Becomes(Operate("ltrimCommand", s, <<i, j>>), SubSeq(ref, i + 1, last + 1))

QuicklistDup ==
  /\ Is("quicklist", "dup")
  /\ Becomes(Operate("quicklistDup", s, <<>>), ref)

(* A list from an RDB file: its ziplists are appended. *)
QuicklistAppend ==
  /\ Is("quicklist", "append")
  /\ \E v, w \in kind.vals, whole \in BOOLEAN :
       /\ Len(ref) + 2 <= kind.max
       /\ Becomes(Operate("quicklistAppend", s, <<v, w, whole>>), ref \o <<v, w>>)

QuicklistBookmark ==
  /\ Is("quicklist", "mark")
  /\ \E k \in Nodes(s) :
       Becomes(quicklistBookmarkCreate(s, "m", k), ref)

QuicklistBookmarkDelete ==
  /\ Is("quicklist", "mark") /\ s.marks # [m \in {} |-> NoNode]
  /\ Becomes(quicklistBookmarkDelete(s, "m"), ref)

-----------------------------------------------------------------------------
(* A set, a hash *)

SetAdd ==
  /\ kind.name = "set"
  /\ \E v \in kind.vals :
       Becomes(Operate("setTypeAdd", s, <<v>>), ref \union {v})

SetRemove ==
  /\ kind.name = "set"
  /\ \E v \in kind.vals :
       /\ v \in ref => Cardinality(ref) > 1
       /\ Becomes(Operate("setTypeRemove", s, <<v>>), ref \ {v})

SetDup ==
  /\ kind.name = "set" /\ ref # {}
  /\ Becomes(Operate("setTypeDup", s, <<>>), ref)

Drop(g, x) == [y \in DOMAIN g \ {x} |-> g[y]]

HashSet ==
  /\ kind.name = "hash"
  /\ \E f, v \in kind.vals :
       /\ f \in DOMAIN ref \/ Cardinality(DOMAIN ref) < kind.max
       /\ Becomes(Operate("hsetCommand", s, <<f, v>>), Put(ref, f, v))

HashDelete ==
  /\ kind.name = "hash"
  /\ \E f \in kind.vals :
       /\ f \in DOMAIN ref => Cardinality(DOMAIN ref) > 1
       /\ Becomes(Operate("hashTypeDelete", s, <<f>>), Drop(ref, f))

-----------------------------------------------------------------------------
(* A sorted set: a node gets a level when it is made *)

Levels == {[v \in kind.vals |-> l] : l \in 1..MaxLevel}
          \union {[v \in kind.vals |-> IF Lex(v) % 2 = 0 THEN MaxLevel ELSE 1]}

ZsetAdd ==
  /\ kind.name = "zset"
  /\ \E v \in kind.vals, score \in Scores, flags \in kind.flags, lv \in Levels :
       LET new == IF "incr" \in flags /\ v \in DOMAIN ref THEN ref[v] + score ELSE score
           takes == IF v \in DOMAIN ref
                    THEN /\ "nx" \notin flags
                         /\ "gt" \in flags => new > ref[v]
                         /\ "lt" \in flags => new < ref[v]
                    ELSE "xx" \notin flags
       IN  /\ new \in Scores
           /\ Becomes(Operate("zsetAdd", s, <<score, v, flags, lv>>),
                      IF takes THEN Put(ref, v, new) ELSE ref)

ZsetDel ==
  /\ kind.name = "zset"
  /\ \E v \in kind.vals :
       /\ v \in DOMAIN ref => Cardinality(DOMAIN ref) > 1
       /\ Becomes(Operate("zsetDel", s, <<v>>), Drop(ref, v))

(* The members of the value in their order. *)
Ordered(z) == SetToSortSeq(DOMAIN z, LAMBDA a, b : PairLess(<<a, z[a]>>, <<b, z[b]>>))

SameScores(z) == \A a, b \in DOMAIN z : z[a] = z[b]

InRange(z, r) == {v \in DOMAIN z : zslValueGteMin(z[v], r) /\ zslValueLteMax(z[v], r)}
InLexRange(z, r) == {v \in DOMAIN z : zslLexValueGteMin(v, r) /\ zslLexValueLteMax(v, r)}

Without(z, S) == [v \in DOMAIN z \ S |-> z[v]]

ZsetRemRangeByScore ==
  /\ kind.name = "zset"
  /\ \E r \in Ranges :
       /\ DOMAIN ref \ InRange(ref, r) # {}
       /\ Becomes(Operate("zremrange", s, <<"score", r>>), Without(ref, InRange(ref, r)))

ZsetRemRangeByLex ==
  /\ kind.name = "zset"
  /\ \E r \in LexRanges :
       /\ SameScores(ref) /\ DOMAIN ref \ InLexRange(ref, r) # {}
       /\ Becomes(Operate("zremrange", s, <<"lex", r>>), Without(ref, InLexRange(ref, r)))

ZsetRemRangeByRank ==
  /\ kind.name = "zset"
  /\ \E i, j \in 0..1 :
       LET o == Ordered(ref)
       IN  /\ i <= j /\ j < Len(o) /\ Len(o) > j - i + 1
           /\ Becomes(Operate("zremrange", s, <<"rank", [min |-> i, max |-> j]>>),
                      Without(ref, {o[k] : k \in i + 1..j + 1}))

(* COPY, and the encodings a sorted set gets when it is loaded or stored.  *)
ZsetDup ==
  /\ kind.name = "zset"
  /\ \E lv \in Levels :
       /\ ref # Value0(kind)
       /\ Becomes(Operate("zsetDup", s, <<lv>>), ref)

ZsetToZiplist ==
  /\ kind.name = "zset" /\ ref # Value0(kind)
  /\ Becomes(Operate("zsetConvertToZiplist", s, <<Max({Bytes(v) : v \in DOMAIN ref})>>), ref)

-----------------------------------------------------------------------------
(* A radix tree *)

RaxInsert ==
  /\ kind.name = "rax"
  /\ \E k \in RaxKeys, d \in {0, 1} :
       /\ k \in DOMAIN ref \/ Cardinality(DOMAIN ref) < kind.max
       /\ Becomes(Operate("raxInsert", s, <<k, d>>), Put(ref, k, d))

RaxTryInsert ==
  /\ kind.name = "rax"
  /\ \E k \in RaxKeys :
       /\ k \in DOMAIN ref \/ Cardinality(DOMAIN ref) < kind.max
       /\ Becomes(Operate("raxTryInsert", s, <<k, 1>>), IF k \in DOMAIN ref THEN ref ELSE Put(ref, k, 1))

RaxRemove ==
  /\ kind.name = "rax"
  /\ \E k \in RaxKeys :
       Becomes(Operate("raxRemove", s, <<k>>), Drop(ref, k))

-----------------------------------------------------------------------------
(* Users, their clients and their file *)

AclSetuser ==
  /\ kind.name = "acl"
  /\ \E n \in kind.users : \E ops \in kind.rules :
       LET t == Operate("aclSetuser", s, <<n, ops>>)
       IN  Becomes(t, AC!ValueSetuser(ref, t, n, ops))

AclDeluser ==
  /\ Is("acl", "deluser")
  /\ \E names \in kind.deleted :
       Becomes(Operate("aclDeluser", s, <<names>>), AC!ValueDeluser(ref, names))

AclLoad ==
  /\ Is("acl", "load") /\ kind.aclfile
  /\ LET t == Operate("ACLLoadFromFile", s, <<>>)
     IN  Becomes(t, AC!ValueLoad(ref, t))

(* ACL SAVE, or CONFIG REWRITE if the users are in redis.conf. *)
AclSave ==
  /\ Is("acl", "save")
  /\ \E written \in BOOLEAN :
       Becomes(Operate("ACLSaveToFile", s, <<written>>),
               IF written THEN [ref EXCEPT !.file = <<ref.users>>] ELSE ref)

AclRestart ==
  /\ Is("acl", "restart") /\ AC!Startable(s, kind.aclfile)
  /\ Becomes(Operate("ACLLoadUsersAtStartup", s, <<kind.aclfile>>),
             AC!Gone([ref EXCEPT !.users = ref.file[1]], kind.clients))

AclRequirepass ==
  /\ Is("acl", "requirepass")
  /\ \E password \in kind.passwords \union {""} :
       Becomes(Operate("requirepass", s, <<password>>), AC!ValueRequirepass(ref, password))

AclConnect ==
  /\ kind.name = "acl"
  /\ \E c \in kind.clients :
       /\ ~s.clients[c].open
       /\ Becomes(Operate("clientSetDefaultAuth", s, <<c>>), AC!ValueConnect(ref, c))

(* A client that has subscribed can only subscribe to more. *)
AclAuth ==
  /\ kind.name = "acl"
  /\ \E c \in kind.clients, n \in kind.users \union {""}, password \in kind.passwords :
       /\ s.clients[c].open /\ s.clients[c].subs = AC!NoSubs
       /\ Becomes(Operate("authCommand", s, <<c, n, password>>),
                  AC!ValueAuth(ref, c, n, password))

AclSubscribe ==
  /\ Is("acl", "subscribe")
  /\ \E c \in kind.clients : \E req \in kind.requests :
       /\ s.clients[c].open /\ req.chans # <<>>
       /\ LET t == Operate("aclSubscribe", s, <<c, req>>)
              all == {d \in {c} : ref.users[ref.who[d]].channels = AC!Anything}
          IN  Becomes(t, AC!Lasting(ref, t, all))

-----------------------------------------------------------------------------
(* The log of what was denied; the clock does not go back *)

AclLogDenied ==
  /\ kind.name = "acllog" /\ Room
  /\ \E about \in kind.vals, now \in kind.times :
       /\ ref # <<>> => Last(ref)[2] <= now
       /\ Becomes(Operate("addACLLogEntry", s, <<about, now>>), Append(ref, <<about, now>>))

AclLogReset ==
  /\ kind.name = "acllog"
  /\ Becomes(<<>>, <<>>)

-----------------------------------------------------------------------------
(* A dynamic string: the allocator gives kind.slacks more than is asked for *)

RoomFor(n) == n <= kind.max

SdsCat ==
  /\ kind.name = "sds"
  /\ \E q \in kind.vals, slack \in kind.slacks :
       /\ RoomFor(Len(ref) + Len(q))
       /\ Becomes(Operate("sdscatlen", s, <<q, slack>>), ref \o q)

SdsCopy ==
  /\ kind.name = "sds"
  /\ \E q \in kind.vals, slack \in kind.slacks :
       Becomes(Operate("sdscpylen", s, <<q, slack>>), q)

SdsNew ==
  /\ kind.name = "sds"
  /\ \E slack \in kind.slacks : Becomes(SU!sdsnewlen(ref, slack), ref)

SdsGrow ==
  /\ kind.name = "sds"
  /\ \E n \in 1..kind.max, slack \in kind.slacks :
       Becomes(Operate("sdsgrowzero", s, <<n, slack>>),
               ref \o [i \in 1..n - Len(ref) |-> 0])

SdsFormat ==
  /\ kind.name = "sds"
  /\ \E f \in kind.formats, slack \in kind.slacks :
       /\ RoomFor(Len(ref) + Len(f[2]))
       /\ Becomes(Operate("sdscatfmt", s, <<f[1], slack>>), ref \o f[2])

(* What sdsIncrLen is for: bytes are read into the room at the end. *)
SdsRead ==
  /\ kind.name = "sds"
  /\ \E q \in kind.vals, slack \in kind.slacks :
       LET r == SU!sdsMakeRoomFor(s, Len(q), slack)
       IN  /\ RoomFor(Len(ref) + Len(q)) /\ SU!sdsCanIncr(r, Len(q))
           /\ Becomes(SU!sdsIncrLen([r EXCEPT !.buf = SU!Store(@, s.len, q)], Len(q)), ref \o q)

SdsCut ==
  /\ kind.name = "sds"
  /\ \E n \in 1..Len(ref) :
       /\ SU!sdsCanIncr(s, -n)
       /\ Becomes(SU!sdsIncrLen(s, -n), SubSeq(ref, 1, Len(ref) - n))

SdsRange ==
  /\ kind.name = "sds"
  /\ \E r \in kind.ranges :
       LET n == Len(ref)
           a == IF r[1] < 0 THEN n + r[1] ELSE r[1]
           b == IF r[2] < 0 THEN n + r[2] ELSE r[2]
       IN  Becomes(Operate("sdsrange", s, r),
                   IF a < 0 THEN <<>> ELSE SubSeq(ref, a + 1, Min({b + 1, n})))

SdsTrim ==
  /\ kind.name = "sds"
  /\ \E cset \in kind.sets :
       LET I == {i \in 1..Len(ref) : ref[i] \notin cset \union {0}}
       IN  Becomes(Operate("sdstrim", s, <<cset>>),
                   IF I = {} THEN <<>> ELSE SubSeq(ref, Min(I), Max(I)))

SdsClear == kind.name = "sds" /\ Becomes(SU!sdsclear(s), <<>>)

SdsRemoveFreeSpace == kind.name = "sds" /\ Becomes(SU!sdsRemoveFreeSpace(s), ref)

-----------------------------------------------------------------------------
(* A linked list with an iterator: ref.at is the place of the element the  *)
(* iterator returns next, 0 at the end                                     *)

ListGets(l, r) == Becomes([s EXCEPT !.list = l], r)
NodeAt(i) == SU!ListWalk(s.list, SU!listRewind(s.list))[i]

ListAdd ==
  /\ kind.name = "list" /\ Len(ref.q) < kind.max
  /\ \E v \in kind.vals, head \in BOOLEAN :
       ListGets(Operate("listAddNode", s.list, <<v, head>>),
                IF head THEN [ref EXCEPT !.q = <<v>> \o @, !.at = IF @ = 0 THEN 0 ELSE @ + 1]
                ELSE [ref EXCEPT !.q = Append(@, v)])

ListInsert ==
  /\ kind.name = "list" /\ Len(ref.q) < kind.max
  /\ \E i \in 1..Len(ref.q) : \E v \in kind.vals, after \in BOOLEAN :
       LET k == IF after THEN i + 1 ELSE i
       IN  ListGets(Operate("listInsertNode", s.list, <<NodeAt(i), v, after>>),
                    [ref EXCEPT !.q = InsertSeq(@, k, v), !.at = IF @ >= k THEN @ + 1 ELSE @])

(* Not the element the iterator is at. *)
ListDelete ==
  /\ kind.name = "list"
  /\ \E i \in 1..Len(ref.q) :
       /\ i # ref.at
       /\ ListGets(Operate("listDelNode", s.list, <<NodeAt(i)>>),
                   [ref EXCEPT !.q = CutSeq(@, i, 1), !.at = IF @ > i THEN @ - 1 ELSE @])

ListRotate ==
  /\ kind.name = "list"
  /\ \E up \in BOOLEAN :
       LET n == Len(ref.q)
           k == IF ref.at = 0 THEN 0 ELSE IF up THEN (ref.at % n) + 1 ELSE ((ref.at + n - 2) % n) + 1
       IN  ListGets(Operate("listRotate", s.list, <<up>>),
                    IF n = 0 THEN ref
                    ELSE [ref EXCEPT !.at = k, !.q = IF up THEN <<Last(@)>> \o Front(@)
                                                    ELSE Append(Tail(@), Head(@))])

(* The elements of another list, at addresses of its own. *)
ListJoin ==
  /\ kind.name = "list"
  /\ \E n \in 0..2 : \E v, w \in kind.vals :
       LET q == SubSeq(<<v, w>>, 1, n)
           Add(l, x) == SU!listAddNodeTail(l, x)
           o == FoldLeft(Add, SU!listCreate, q)
           Far(k) == IF k = 0 THEN 0 ELSE k + kind.max
           far == [o EXCEPT !.head = Far(@), !.tail = Far(@),
                     !.node = [k \in {Far(j) : j \in DOMAIN @} |->
                       [@[k - kind.max] EXCEPT !.prev = Far(@), !.next = Far(@)]]]
       IN  /\ Len(ref.q) + n <= kind.max
           /\ ListGets(Operate("listJoin", s.list, <<far>>), [ref EXCEPT !.q = @ \o q])

(* A copy or an emptied list is walked from its head. *)
ListDup ==
  /\ kind.name = "list"
  /\ LET l == SU!listDup(s.list)
     IN  Becomes([list |-> l, iter |-> SU!listRewind(l)],
                 [ref EXCEPT !.at = IF ref.q = <<>> THEN 0 ELSE 1,
                             !.forward = TRUE])

ListEmpty ==
  /\ kind.name = "list"
  /\ LET l == SU!listEmpty(s.list)
     IN  Becomes([list |-> l, iter |-> SU!listRewind(l)], [q |-> <<>>, at |-> 0, forward |-> TRUE])

ListRewind ==
  /\ kind.name = "list"
  /\ \/ Becomes([s EXCEPT !.iter = SU!listRewind(s.list)],
                 [ref EXCEPT !.at = IF ref.q = <<>> THEN 0 ELSE 1, !.forward = TRUE])
     \/ Becomes([s EXCEPT !.iter = SU!listRewindTail(s.list)],
                 [ref EXCEPT !.at = Len(ref.q), !.forward = FALSE])

ListNext ==
  /\ kind.name = "list"
  /\ Becomes([s EXCEPT !.iter = SU!listNext(s.list, s.iter)],
             [ref EXCEPT !.at = CASE @ = 0 -> 0
                                  [] ref.forward -> IF @ = Len(ref.q) THEN 0 ELSE @ + 1
                                  [] OTHER -> @ - 1])

-----------------------------------------------------------------------------
(* A zipmap *)

ZipmapSet ==
  /\ kind.name = "zipmap"
  /\ \E k \in kind.keys, v \in kind.vals :
       Becomes(Operate("zipmapSet", s, <<k, v>>), Put(ref, k, v))

ZipmapDel ==
  /\ kind.name = "zipmap"
  /\ \E k \in kind.keys : Becomes(Operate("zipmapDel", s, <<k>>), Drop(ref, k))

ZipmapLen == kind.name = "zipmap" /\ Becomes(SU!zipmapLenStored(s), ref)

-----------------------------------------------------------------------------
(* Compression of one input, step by step *)

LzfBegin ==
  /\ kind.name = "lzf" /\ ref = <<>>
  /\ \E in \in kind.vals, n \in kind.sizes : Becomes(SU!lzf_start(in, Len(in) + n), in)

LzfMatch ==
  /\ kind.name = "lzf" /\ SU!InLoop(s)
  /\ \E r \in SU!Candidates(s) : Becomes(Operate("lzf_match", s, <<r>>), ref)

LzfLiteral ==
  /\ kind.name = "lzf" /\ SU!InLoop(s)
  /\ Becomes(Operate("lzf_literal", s, <<>>), ref)

LzfEnd ==
  /\ kind.name = "lzf" /\ ref # <<>> /\ ~s.done /\ ~SU!InLoop(s)
  /\ Becomes(Operate("lzf_end", s, <<>>), ref)

-----------------------------------------------------------------------------
(* A pattern to match with grows by a token, an array to sort by an element *)

PatternGrows ==
  /\ kind.name = "glob" /\ Room
  /\ \E k \in kind.vals : Becomes(s \o k.bytes, Append(ref, k))

ArrayGrows ==
  /\ kind.name = "pqsort" /\ Room
  /\ \E x \in kind.vals : Becomes(Append(s, x), Append(ref, x))

-----------------------------------------------------------------------------
(* The pool of keys to evict: ref.q has the best candidates seen, the best *)
(* one last, and of equal ones the one seen first.                         *)

(* The time since the access, as far as the clock tells: it misses one     *)
(* unit if it started again meanwhile.                                     *)
Told(age) == IF age <= kind.now THEN age ELSE age - 1

(* How good a candidate a sample is, from the true age. *)
Score(x) ==
  CASE kind.policy.name = "lru" -> Told(x.age)
    [] kind.policy.name = "lfu" ->
         LET lost == IF kind.policy.decay_time = 0 THEN 0 ELSE Told(x.age) \div kind.policy.decay_time
         IN  LFU_COUNTER_MAX - Max({0, x.counter - lost})
    [] kind.policy.name = "ttl" -> kind.policy.ULLONG_MAX - x.expire

(* The fields of its object *)
Stored(x) ==
  CASE kind.policy.name = "lru" -> [lru |-> (kind.now - x.age) % (LRU_CLOCK_MAX + 1)]
    [] kind.policy.name = "lfu" -> [ldt |-> (kind.now - x.age) % (LFU_TIME_MAX + 1), counter |-> x.counter]
    [] kind.policy.name = "ttl" -> [expire |-> x.expire]

Candidates(q, x) ==
  LET i == Cardinality({j \in DOMAIN q : q[j].score < Score(x)})
      all == InsertSeq(q, i + 1, [key |-> <<x.dbid, x.key>>, score |-> Score(x)])
  IN  IF Len(all) > EVPOOL_SIZE THEN Tail(all) ELSE all

(* Every database that has keys is sampled, and then the best key that is  *)
(* still there is taken; the keys come and go between the rounds.          *)
EvictionRound ==
  /\ kind.name = "evpool"
  /\ \E keys \in SUBSET kind.keys, samples \in kind.samples :
       LET q == FoldLeft(Candidates, ref.q, samples)
           there == {j \in DOMAIN q : q[j].key \in keys}
           code == [j \in DOMAIN samples |->
                      [dbid |-> samples[j].dbid, key |-> samples[j].key, o |-> Stored(samples[j])]]
       IN  /\ \A j \in DOMAIN samples : <<samples[j].dbid, samples[j].key>> \in keys
           /\ {samples[j].dbid : j \in DOMAIN samples} = {k[1] : k \in keys}
           /\ keys # {}
           /\ Becomes(Operate("evictionRound", s, <<code, kind.policy, kind.now, keys>>),
                      IF there = {} THEN [q |-> <<>>, bestkey |-> <<>>]
                      ELSE [q |-> SubSeq(q, 1, Max(there) - 1), bestkey |-> q[Max(there)].key])

-----------------------------------------------------------------------------
(* Latencies of events: ref has the highest one and the last seconds with a*)
(* sample, each with its highest.                                          *)

LatencyAddSample ==
  /\ kind.name = "latency"
  /\ \E e \in kind.events, latency \in kind.vals, now \in kind.times :
       LET q == ref[e].q
           new == IF q # <<>> /\ Last(q).time = now
                  THEN Append(Front(q), [time |-> now, latency |-> Max({latency, Last(q).latency})])
                  ELSE Append(q, [time |-> now, latency |-> latency])
       IN  /\ q # <<>> => now >= Last(q).time
           /\ Becomes([s EXCEPT ![e] = Operate("latencyAddSample", @, <<latency, now>>)],
                      [ref EXCEPT ![e] = [high |-> Max({@.high, latency}),
                                          q |-> IF Len(new) > LATENCY_TS_LEN THEN Tail(new) ELSE new]])

LatencyReset ==
  /\ kind.name = "latency"
  /\ \E which \in kind.events \union {"NULL"} :
       Becomes(SU!latencyResetEvent(s, which),
               [e \in kind.events |-> IF which \in {"NULL", e} THEN [high |-> 0, q |-> <<>>] ELSE ref[e]])

-----------------------------------------------------------------------------
Next ==
  \/ ZiplistPush \/ ZiplistInsert \/ ZiplistDelete \/ ZiplistDeleteRange
  \/ ZiplistReplace \/ ZiplistMerge \/ ZiplistLen
  \/ ListpackAppend \/ ListpackInsert \/ ListpackReplace \/ ListpackDelete
  \/ ListpackLength
  \/ QuicklistPush \/ QuicklistPop \/ QuicklistRotate \/ QuicklistIndex
  \/ QuicklistReplace \/ QuicklistWalk \/ QuicklistInsert \/ QuicklistRemove
  \/ QuicklistTrim \/ QuicklistDup \/ QuicklistAppend \/ QuicklistBookmark
  \/ QuicklistBookmarkDelete
  \/ SetAdd \/ SetRemove \/ SetDup \/ HashSet \/ HashDelete
  \/ ZsetAdd \/ ZsetDel \/ ZsetRemRangeByScore \/ ZsetRemRangeByLex
  \/ ZsetRemRangeByRank \/ ZsetDup \/ ZsetToZiplist
  \/ RaxInsert \/ RaxTryInsert \/ RaxRemove
  \/ AclSetuser \/ AclDeluser \/ AclLoad \/ AclSave \/ AclRestart
  \/ AclRequirepass \/ AclConnect \/ AclAuth \/ AclSubscribe
  \/ AclLogDenied \/ AclLogReset
  \/ SdsCat \/ SdsCopy \/ SdsNew \/ SdsGrow \/ SdsFormat \/ SdsRead \/ SdsCut
  \/ SdsRange \/ SdsTrim \/ SdsClear \/ SdsRemoveFreeSpace
  \/ ListAdd \/ ListInsert \/ ListDelete \/ ListRotate \/ ListJoin \/ ListDup
  \/ ListEmpty \/ ListRewind \/ ListNext
  \/ ZipmapSet \/ ZipmapDel \/ ZipmapLen
  \/ LzfBegin \/ LzfMatch \/ LzfLiteral \/ LzfEnd \/ PatternGrows \/ ArrayGrows
  \/ EvictionRound \/ LatencyAddSample \/ LatencyReset

Spec == Init /\ [][Next]_vars

-----------------------------------------------------------------------------
(* Answers *)

\* The value at p, and no value where there is none.
Got(q, i) == IF i \in 1..Len(q) THEN <<q[i]>> ELSE <<>>

ZiplistAnswers(kd, st, val) ==
  LET n == Len(val)
      Value(p) == IF p = Nil THEN <<>> ELSE <<ziplistGet(st, p)>>
      Pair(i) == <<val[2 * i + 1], val[2 * i + 2]>>
  IN  /\ ziplistLen(st) = n
      /\ \A i \in 0..n - 1 : Value(ziplistIndex(st, i)) = <<val[i + 1]>>
      /\ \A i \in 1..n + 1 : Value(ziplistIndex(st, -i)) = Got(val, n - i + 1)
      /\ \A i \in 1..n : /\ Value(ziplistNext(st, OffsetOf(st, i))) = Got(val, i + 1)
                         /\ Value(ziplistPrev(st, OffsetOf(st, i))) = Got(val, i - 1)
      /\ \A v \in kd.vals, skip \in {0, 1} :
           LET I == {i \in 1..n : val[i] = v /\ (i - 1) % (skip + 1) = 0}
           IN  n > 0 => ziplistFind(st, Head1(st), v, skip) =
                          IF I = {} THEN Nil ELSE OffsetOf(st, Min(I))
      /\ n % 2 = 0 /\ n > 0 =>
           /\ \A a, b \in 0..n \div 2 - 1 :
                ziplistRandomPairs(st, <<a, b>>) = <<Pair(a), Pair(b)>>
           /\ ziplistRandomPairsUnique(st, n \div 2) =
                {[i \in 1..n \div 2 |-> Pair(i - 1)]}
           /\ ziplistRandomPairsUnique(st, 1) = {<<Pair(i)>> : i \in 0..n \div 2 - 1}

ListpackAnswers(kd, st, val) ==
  LET n == Len(val)
      Value(p) == IF p = SB!Null THEN <<>> ELSE <<SB!lpGet(st, p)>>
  IN  /\ SB!lpLength(st) = n
      /\ \A i \in 0..n : Value(SB!lpSeek(st, i)) = Got(val, i + 1)
      /\ \A i \in 1..n + 1 : Value(SB!lpSeek(st, -i)) = Got(val, n - i + 1)
      /\ \A i \in 1..n : /\ Value(SB!lpNext(st, SB!PosOf(st, i))) = Got(val, i + 1)
                         /\ Value(SB!lpPrev(st, SB!PosOf(st, i))) = Got(val, i - 1)

QuicklistAnswers(kd, st, val) ==
  LET n == Len(val)
      Value(idx) == LET x == quicklistIndex(st, idx)
                    IN  IF x.e = NoEntry THEN <<>> ELSE <<ValueAt(x.ql, x.e)>>
  IN  /\ st.count = n
      /\ \A i \in 0..n : Value(i) = Got(val, i + 1)
      /\ \A i \in 1..n + 1 : Value(-i) = Got(val, n - i + 1)
      /\ listTypeWalk(st, 0, TRUE, n + 1).got = val
      /\ listTypeWalk(st, -1, FALSE, n + 1).got = Reverse(val)

SetAnswers(kd, st, val) ==
  /\ setTypeSize(st) = Cardinality(val)
  /\ setTypeNext(st) = val
  /\ \A v \in kd.vals : setTypeIsMember(st, v) <=> v \in val

HashAnswers(kd, st, val) ==
  /\ hashTypeLength(st) = Cardinality(DOMAIN val)
  /\ \A f \in kd.vals :
       hashTypeGetValue(st, f) = IF f \in DOMAIN val THEN <<val[f]>> ELSE <<>>

(* The first and the last member of a range. *)
Ends(o, S) == IF S = {} THEN <<>>
              ELSE LET I == {i \in 1..Len(o) : o[i] \in S} IN <<o[Min(I)], o[Max(I)]>>

ZsetAnswers(kd, st, val) ==
  LET o == Ordered(val)
      n == Len(o)
      Zl(p, q) == IF p = Nil \/ q = Nil THEN <<>>
                  ELSE <<ziplistGet(st.zl, p), ziplistGet(st.zl, q)>>
      Sl(x, y) == IF x = NoZ \/ y = NoZ THEN <<>>
                  ELSE <<st.zsl.node[x].ele, st.zsl.node[y].ele>>
  IN  /\ zsetLength(st) = n
      /\ \A v \in kd.vals :
           zsetScore(st, v) = IF v \in DOMAIN val THEN <<val[v]>> ELSE NoScore
      /\ \A v \in kd.vals \ DOMAIN val : zsetRank(st, v, FALSE) = -1
      /\ \A i \in 1..n : /\ zsetRank(st, o[i], FALSE) = i - 1
                         /\ zsetRank(st, o[i], TRUE) = n - i
                         /\ IsZl(st) \/ st.zsl.node[zslGetElementByRank(st.zsl, i)].ele = o[i]
      /\ \A r \in Ranges :
           Ends(o, InRange(val, r)) =
             IF IsZl(st) THEN Zl(zzlFirstInRange(st.zl, r), zzlLastInRange(st.zl, r))
             ELSE Sl(zslFirstInRange(st.zsl, r), zslLastInRange(st.zsl, r))
      /\ SameScores(val) => \A r \in LexRanges :
           Ends(o, InLexRange(val, r)) =
             IF IsZl(st) THEN Zl(zzlFirstInLexRange(st.zl, r), zzlLastInLexRange(st.zl, r))
             ELSE Sl(zslFirstInLexRange(st.zsl, r), zslLastInLexRange(st.zsl, r))

(* The order of keys: by their characters, a prefix first. *)
KeyLess(a, b) ==
  LET n == Min({Len(a), Len(b)})
      D == {i \in 1..n : a[i] # b[i]}
  IN  IF D = {} THEN Len(a) < Len(b) ELSE a[Min(D)] < b[Min(D)]

(* The key a seek has to find. *)
Sought(val, op, k) ==
  LET K == DOMAIN val
      Least(S) == IF S = {} THEN <<>> ELSE <<CHOOSE a \in S : \A b \in S : ~KeyLess(b, a)>>
      Greatest(S) == IF S = {} THEN <<>> ELSE <<CHOOSE a \in S : \A b \in S : ~KeyLess(a, b)>>
  IN  CASE op = "="  -> Least(K \intersect {k})
        [] op = ">=" -> Least({a \in K : ~KeyLess(a, k)})
        [] op = ">"  -> Least({a \in K : KeyLess(k, a)})
        [] op = "<=" -> Greatest({a \in K : ~KeyLess(k, a)})
        [] op = "<"  -> Greatest({a \in K : KeyLess(a, k)})
        [] op = "^"  -> Least(K)
        [] op = "$"  -> Greatest(K)

RaxAnswers(kd, st, val) ==
  /\ st.numele = Cardinality(DOMAIN val)
  /\ \A k \in RaxKeys :
       SB!raxFind(st, k) = IF k \in DOMAIN val THEN val[k] ELSE SB!NotFound
  /\ \A k \in RaxKeys, op \in {"=", ">=", ">", "<=", "<", "^", "$"} :
       LET it == SB!raxSeek(st, op, k)
           at == SB!Found(SB!raxNext(st, it))
       IN  /\ at = Sought(val, op, k)
           /\ at # <<>> =>
                /\ SB!Found(SB!raxNext(st, SB!raxNext(st, it))) = Sought(val, ">", at[1])
                /\ SB!Found(SB!raxPrev(st, SB!raxPrev(st, it))) = Sought(val, "<", at[1])

(* A string of bytes, split and joined, quoted and read again. *)
SdsAnswers(kd, st, val) ==
  /\ SU!sdsContent(st) = val
  /\ \A q \in kd.vals :
       /\ SU!sdscmp(val, q) = IF val = q THEN 0 ELSE IF KeyLess(val, q) THEN -1 ELSE 1
       /\ SU!sdscmp(q, val) = -SU!sdscmp(val, q)
       /\ q # <<>> =>
            LET tokens == SU!sdssplitlen(val, q)
            IN  /\ SU!sdsjoin(tokens, q) = val
                /\ \A k \in DOMAIN tokens : SU!sdssplitlen(tokens[k], q) \in {<<>>, <<tokens[k]>>}
       /\ SU!sdssplitargs(SU!sdscatrepr(val) \o <<32>> \o SU!sdscatrepr(q)) = <<val, q>>
  /\ SU!sdssplitargs(Front(SU!sdscatrepr(val))) = SU!Null
  /\ SU!sdssplitargs(Append(SU!sdscatrepr(val), 97)) = SU!Null
  /\ LET plain == SelectSeq(val, LAMBDA b : b \notin {0, SU!Quote, SU!Backslash})
     IN  /\ SU!sdssplitargs(<<32>> \o plain) = (IF plain = <<>> THEN <<>> ELSE <<plain>>)
         /\ SU!sdssplitargs(<<SU!SingleQuote>> \o plain \o <<SU!Backslash, SU!SingleQuote, SU!SingleQuote>>) =
              <<Append(plain, SU!SingleQuote)>>

ListAnswers(kd, st, val) ==
  LET l == st.list
      n == Len(val.q)
      Value(x) == IF x = 0 THEN <<>> ELSE <<l.node[x].value>>
      Seen(walk) == [i \in DOMAIN walk |-> l.node[walk[i]].value]
  IN  /\ l.len = n
      /\ Seen(SU!ListWalk(l, SU!listRewind(l))) = val.q
      /\ Seen(SU!ListWalk(l, SU!listRewindTail(l))) = Reverse(val.q)
      /\ \A i \in 0..n : Value(SU!listIndex(l, i)) = Got(val.q, i + 1)
      /\ \A i \in 1..n + 1 : Value(SU!listIndex(l, -i)) = Got(val.q, n - i + 1)
      /\ \A v \in kd.vals :
           LET i == SelectInSeq(val.q, LAMBDA x : x = v)
           IN  SU!listSearchKey(l, v) = IF i = 0 THEN 0 ELSE SU!listIndex(l, i - 1)
      /\ st.iter.next = (IF val.at = 0 THEN 0 ELSE SU!listIndex(l, val.at - 1))
      /\ st.iter.forward = val.forward

ZipmapAnswers(kd, st, val) ==
  /\ SU!zipmapLen(st) = Cardinality(DOMAIN val)
  /\ \A k \in kd.keys : SU!zipmapGet(st, k) = IF k \in DOMAIN val THEN <<val[k]>> ELSE <<>>

(* So far the output expands to what was read, at the end to the input,    *)
(* unless it does not fit.                                                 *)
LzfAnswers(kd, st, val) ==
  LET out == SU!StopRun(st.op, st.lit)
      all == IF st.done THEN st.op ELSE out
  IN  /\ st.top <= st.out_len
      /\ val # <<>> => \A i \in DOMAIN all : all[i] \in 0..LZF_BYTE - 1
      /\ val # <<>> /\ ~(st.done /\ st.op = <<>>) =>
           SU!lzf_decompress(all, Len(val)) = SubSeq(val, 1, st.ip)
      /\ st.done /\ st.op # <<>> => st.ip = Len(val)

(* A pattern is a sequence of tokens: a star, or a set of bytes that one   *)
(* byte is in or, if not is set, is not in.  The empty string is matched   *)
(* by the empty pattern only.                                              *)
RECURSIVE Reads(_, _, _)
Reads(tokens, q, nocase) ==
  LET k == Last(tokens)
      Low(b) == IF nocase THEN SU!tolower(b) ELSE b
  IN  IF tokens = <<>> THEN q = <<>>
      ELSE IF k.star THEN \E i \in 0..Len(q) : Reads(Front(tokens), SubSeq(q, 1, i), nocase)
      ELSE /\ q # <<>>
           /\ (Low(Last(q)) \in {Low(b) : b \in k.set}) # k.not
           /\ Reads(Front(tokens), Front(q), nocase)

GlobAnswers(kd, st, val) ==
  \A q \in kd.strings, nocase \in BOOLEAN :
    SU!stringmatchlen(st, q, nocase) <=>
      IF q = <<>> THEN val = <<>> ELSE Reads(val, q, nocase)

(* Whatever part of the array is asked for, that part is sorted, and the   *)
(* array has the elements it had.                                          *)
PqsortAnswers(kd, st, val) ==
  \A l, r \in 0..Len(val) - 1 : l <= r =>
    LET a == SU!pqsort(st, l, r)
    IN  /\ SubSeq(a, l + 1, r + 1) = SubSeq(SortSeq(val, <), l + 1, r + 1)
        /\ SortSeq(a, <) = SortSeq(val, <)

(* The pool has the candidates, in their order, and no round ends without a*)
(* key: one that was just sampled is always among them.                    *)
EvpoolAnswers(kd, st, val) ==
  LET used == SelectSeq(st.pool, LAMBDA e : e.key # "NULL")
  IN  /\ st.bestkey = val.bestkey
      /\ val.q # <<>> => st.bestkey # <<>>
      /\ [j \in DOMAIN used |-> [key |-> <<used[j].dbid, SU!PoolKey(st, used[j])>>, score |-> used[j].idle]] = val.q

(* mad is the mean distance from the mean, each rounded down. *)
Distances(q, from) ==
  FoldLeft(LAMBDA sum, x : sum + Max({x.latency - from, from - x.latency}), 0, q)

LatencyAnswers(kd, st, val) ==
  \A e \in kd.events :
    LET q == val[e].q
        n == Len(q)
        Latencies == {q[j].latency : j \in 1..n}
        avg == Distances(q, 0) \div n
        last == Max(kd.times)
    IN  SU!analyzeLatencyForEvent(st[e], last) =
          IF n = 0 THEN [all_time_high |-> 0, avg |-> 0, min |-> 0, max |-> 0, mad |-> 0, samples |-> 0, period |-> 0]
          ELSE [all_time_high |-> val[e].high, avg |-> avg, min |-> Min(Latencies), max |-> Max(Latencies),
                mad |-> Distances(q, avg) \div n, samples |-> n, period |-> Max({1, last - q[1].time})]

structureAnswers(kd, st, val) ==
  LET name == kd.name
  IN  CASE name = "ziplist"   -> ZiplistAnswers(kd, st, val)
        [] name = "listpack"  -> ListpackAnswers(kd, st, val)
        [] name = "quicklist" -> QuicklistAnswers(kd, st, val)
        [] name = "set"       -> SetAnswers(kd, st, val)
        [] name = "hash"      -> HashAnswers(kd, st, val)
        [] name = "zset"      -> ZsetAnswers(kd, st, val)
        [] name = "rax"       -> RaxAnswers(kd, st, val)
        [] name = "acl"       -> AC!AclAnswers(kd, st, val)
        [] name = "acllog"    -> AC!LogAnswers(st, val)
        [] name = "sds"       -> SdsAnswers(kd, st, val)
        [] name = "list"      -> ListAnswers(kd, st, val)
        [] name = "zipmap"    -> ZipmapAnswers(kd, st, val)
        [] name = "lzf"       -> LzfAnswers(kd, st, val)
        [] name = "glob"      -> GlobAnswers(kd, st, val)
        [] name = "pqsort"    -> PqsortAnswers(kd, st, val)
        [] name = "evpool"    -> EvpoolAnswers(kd, st, val)
        [] name = "latency"   -> LatencyAnswers(kd, st, val)

(* What the structure says of itself in several places agrees *)
WellFormed ==
  CASE kind.name = "ziplist"   -> s.ok /\ ziplistValidateIntegrity(s)
    [] kind.name = "listpack"  -> SB!lpValidateIntegrity(s)
    [] kind.name = "quicklist" -> NodesAreSound(s) /\ EndsAreRaw(s)
    [] kind.name = "set"       -> SetSound(s)
    [] kind.name = "hash"      -> HashSound(s)
    [] kind.name = "zset"      -> ZsetSound(s)
    [] kind.name = "rax"       -> SB!RaxSound(s)
    [] kind.name = "acl"       -> AC!AclSound(s)
    [] kind.name = "sds"       -> SU!SdsSound(s)
    [] kind.name = "evpool"    -> SU!PoolSound(s)
    [] kind.name = "zipmap"    -> SU!zipmapValidateIntegrity(s)
    [] OTHER                   -> TRUE

(* Every question a structure is asked -- its length, the element at a     *)
(* positive or negative index or with a rank, the neighbours of an element,*)
(* a lookup, the ends of a range, the key a seek finds -- is answered as   *)
(* the value it stands for answers it, after any sequence of operations    *)
(* and in every encoding (ziplistIndex, lpSeek, quicklistIndex,            *)
(* intsetSearch, hashTypeGetValue, zslGetRank, raxSeek and the others).    *)
(* And what ziplistValidateIntegrity, lpValidateIntegrity and              *)
(* intsetValidateIntegrity demand of a block that was loaded also holds of *)
(* every block the code has built, no assertion of ziplist.c fails, no     *)
(* compressed node of a quicklist is read as it is and its ends are not    *)
(* compressed (redis.conf), the spans and the back pointers of a skiplist  *)
(* and the pointers of its dict are right, and the counters of a radix     *)
(* tree count its nodes and keys.  In the same sense sdstrim, sdssplitargs *)
(* and their like compute what they say, an iterator of a list survives    *)
(* what is allowed beside it, lzf_decompress undoes lzf_compress within    *)
(* the output's size, stringmatchlen matches by the meaning of a pattern,  *)
(* pqsort sorts the part it is asked for, evictionPoolPopulate keeps the   *)
(* best candidates and performEvictions finds a key in every round,        *)
(* analyzeLatencyForEvent sees the last seconds.  A user may run, read and *)
(* subscribe to exactly what the rules given by ACL SETUSER mean, also     *)
(* after ACLDescribeUser was saved and loaded; a client acts as a user     *)
(* that exists; and a subscriber's channels are allowed to its user, but   *)
(* for subscriptions that ACLKillPubsubClientsIfNeeded leaves (Acl).       *)
StandsForItsValue == WellFormed /\ Answers(kind, s, ref)

=============================================================================
