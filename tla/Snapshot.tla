------------------------------ MODULE Snapshot ------------------------------
(***************************************************************************)
(* A dataset as a snapshot: the RDB format (rdb.c), written to a file, to  *)
(* a replica or at the head of the append only file, and the commands of a *)
(* rewritten append only file (aof.c).                                     *)
(*                                                                         *)
(* Abstractions.  An RDB file is a sequence of items: an opcode, a type, a *)
(* length, a number or a string is one item, and so is the block of a      *)
(* ziplist, an intset or a listpack, as the sequence of its elements.  The *)
(* bytes of lengths and strings, and the checksum, are left out, with the  *)
(* fields that say nothing of the dataset: those about the server, and the *)
(* idle time and the frequency of a key.  A value does not record its own  *)
(* encoding in memory, so that the encoding a snapshot finds is chosen     *)
(* when it is taken: "compact" stands for ziplists, intsets and one node   *)
(* per list, "plain" for hash tables, skiplists and a node per element.    *)
(***************************************************************************)
EXTENDS TCollections, TZset, TStream

LOCAL INSTANCE SequencesExt
LOCAL INSTANCE FiniteSetsExt
LOCAL INSTANCE Functions

CONSTANT ItemsPerCmd   \* AOF_REWRITE_ITEMS_PER_CMD

(* The sequences of q one after the other.  (Appended to the empty one, q  *)
(* is evaluated by TLC once.)                                              *)
Concat(q) == FlattenSeq(<<>> \o q)

Encodings == {"compact", "plain"}

KeysOf(s, d) == {k \in Key : k[1] = d /\ s.db[k] # None}

Numbers(S) == Sorted(S, LAMBDA x, y : x < y)
Singles(q) == [i \in DOMAIN q |-> <<q[i]>>]
Couples(q, f) == Concat([i \in DOMAIN q |-> <<q[i], f[q[i]]>>])

-----------------------------------------------------------------------------
(* Writing a value *)

rdbSaveObjectType(o, enc) ==
  CASE Type(o) \in {"string", "hll"} -> "STRING"
    [] Type(o) = "list"   -> "LIST_QUICKLIST"
    [] Type(o) = "set"    -> IF enc = "compact" THEN "SET_INTSET" ELSE "SET"
    [] Type(o) = "zset"   -> IF enc = "compact" THEN "ZSET_ZIPLIST" ELSE "ZSET_2"
    [] Type(o) = "hash"   -> IF enc = "compact" THEN "HASH_ZIPLIST" ELSE "HASH"
    [] Type(o) = "stream" -> "STREAM_LISTPACKS"

(* The pending entries of a group, or those of a consumer by their IDs:    *)
(* who owns an entry is not written with the group.                        *)
rdbSaveStreamPEL(ids, pel, nacks) ==
  LET q == Sorted(ids, Smaller)
  IN <<Len(q)>> \o Concat([i \in DOMAIN q |-> IF nacks THEN <<q[i], pel[q[i]][2], pel[q[i]][3]>> ELSE <<q[i]>>])

rdbSaveStreamConsumers(cg) ==
  LET names == SetToSeq(DOMAIN cg.consumers)
  IN <<Len(names)>> \o Concat([i \in DOMAIN names |->
       <<names[i]>> \o rdbSaveStreamPEL(cg.consumers[names[i]], cg.pel, FALSE)])

rdbSaveStream(st) ==
  LET names == SetToSeq(DOMAIN st.groups)
      group(g) == <<g, st.groups[g].last[1], st.groups[g].last[2]>>
                    \o rdbSaveStreamPEL(DOMAIN st.groups[g].pel, st.groups[g].pel, TRUE)
                    \o rdbSaveStreamConsumers(st.groups[g])
  IN <<Len(st.nodes)>> \o Concat([i \in DOMAIN st.nodes |-> <<st.nodes[i][1][1], st.nodes[i]>>])
       \o <<streamLength(st), st.last[1], st.last[2], Len(names)>>
       \o Concat([i \in DOMAIN names |-> group(names[i])])

(* A skiplist is written from its tail to its head. *)
rdbSaveObject(o, enc) ==
  LET v == Val(o)
      compact == enc = "compact"
      nodes == IF compact THEN <<v>> ELSE Singles(v)
  IN CASE Type(o) \in {"string", "hll"} -> <<o>>
       [] Type(o) = "list" -> <<Len(nodes)>> \o nodes
       [] Type(o) = "set" -> IF compact THEN <<Numbers(v)>> ELSE <<Cardinality(v)>> \o SetToSeq(v)
       [] Type(o) = "zset" -> IF compact THEN <<Couples(Ranked(v), v)>>
                              ELSE <<Cardinality(DOMAIN v)>> \o Couples(Reverse(Ranked(v)), v)
       [] Type(o) = "hash" -> IF compact THEN <<Couples(SetToSeq(DOMAIN v), v)>>
                              ELSE <<Cardinality(DOMAIN v)>> \o Couples(SetToSeq(DOMAIN v), v)
       [] Type(o) = "stream" -> rdbSaveStream(v)

-----------------------------------------------------------------------------
(* Reading a value back: it starts at item at of the file p, and the next  *)
(* one at the item at of what is returned.                                 *)

Loaded(o, at) == [o |-> o, at |-> at]

(* Step, n times *)
Repeated(n, Step(_), acc) == FoldLeft(LAMBDA a, i : Step(a), acc, [i \in 1..n |-> i])

(* The pairs of a block, or of n items from item at on *)
Pairs(q, at, n) == [x \in {q[at + 2 * i] : i \in 0..(n - 1)} |-> q[CHOOSE j \in {at + 2 * i + 1 : i \in 0..(n - 1)} : q[j - 1] = x]]

rdbLoadList(p, at) == Loaded(List(Concat(SubSeq(p, at + 1, at + p[at]))), at + p[at] + 1)

rdbLoadSet(p, at) == Loaded(Set({p[at + i] : i \in 1..p[at]}), at + p[at] + 1)

rdbLoadZset(p, at) == Loaded(Zset(Pairs(p, at + 1, p[at])), at + 2 * p[at] + 1)

rdbLoadHash(p, at) == Loaded(Hash(Pairs(p, at + 1, p[at])), at + 2 * p[at] + 1)

rdbLoadEncoded(type, p, at) ==
  LET q == p[at]
  IN Loaded(CASE type = "SET_INTSET"   -> Set(ToSet(q))
              [] type = "ZSET_ZIPLIST" -> Zset(Pairs(q, 1, Len(q) \div 2))
              [] type = "HASH_ZIPLIST" -> Hash(Pairs(q, 1, Len(q) \div 2)), at + 1)

(* A consumer takes its entries from those of the group. *)
rdbLoadStreamConsumer(p, acc) ==
  LET name == p[acc.at]
      n == p[acc.at + 1]
      ids == {p[acc.at + 1 + i] : i \in 1..n}
  IN [at |-> acc.at + n + 2, consumers |-> name :> ids @@ acc.consumers,
      pel |-> [i \in DOMAIN acc.pel |-> IF i \in ids THEN [acc.pel[i] EXCEPT ![1] = name] ELSE acc.pel[i]]]

rdbLoadStreamGroup(p, acc) ==
  LET at == acc.at
      n == p[at + 3]
      id(i) == at + 4 + 3 * i
      pel == [x \in {p[id(i)] : i \in 0..(n - 1)} |->
                LET i == CHOOSE i \in 0..(n - 1) : p[id(i)] = x IN <<None, p[id(i) + 1], p[id(i) + 2]>>]
      read == Repeated(p[id(n)], LAMBDA c : rdbLoadStreamConsumer(p, c),
                    [at |-> id(n) + 1, consumers |-> [c \in {} |-> {}], pel |-> pel])
  IN [at |-> read.at,
      groups |-> p[at] :> [last |-> <<p[at + 1], p[at + 2]>>, pel |-> read.pel, consumers |-> read.consumers] @@ acc.groups]

rdbLoadStream(p, at) ==
  LET n == p[at]
      b == at + 2 * n + 1
      read == Repeated(p[b + 3], LAMBDA g : rdbLoadStreamGroup(p, g), [at |-> b + 4, groups |-> NoGroups])
  IN Loaded(Stream([nodes |-> [i \in 1..n |-> p[at + 2 * i]], last |-> <<p[b + 1], p[b + 2]>>, groups |-> read.groups]),
            read.at)

rdbLoadObject(type, p, at) ==
  CASE type = "STRING"           -> Loaded(p[at], at + 1)
    [] type = "LIST_QUICKLIST"   -> rdbLoadList(p, at)
    [] type = "SET"              -> rdbLoadSet(p, at)
    [] type = "ZSET_2"           -> rdbLoadZset(p, at)
    [] type = "HASH"             -> rdbLoadHash(p, at)
    [] type = "STREAM_LISTPACKS" -> rdbLoadStream(p, at)
    [] OTHER                     -> rdbLoadEncoded(type, p, at)

-----------------------------------------------------------------------------
(* The payload of DUMP, with the version of the format *)

RDB_VERSION == 9

createDumpPayload(o, enc) == <<rdbSaveObjectType(o, enc)>> \o rdbSaveObject(o, enc) \o <<RDB_VERSION>>

verifyDumpPayload(p) == Last(p) <= RDB_VERSION

-----------------------------------------------------------------------------
(* A dataset as an RDB file *)

rdbSaveKeyValuePair(s, k, enc) ==
  (IF s.exp[k] # NoTTL THEN <<"EXPIRETIME_MS", s.exp[k]>> ELSE <<>>)
    \o <<rdbSaveObjectType(s.db[k], enc), k[2]>> \o rdbSaveObject(s.db[k], enc)

rdbSaveRio(s, enc) ==
  LET database(d) ==
        LET keys == SetToSeq(KeysOf(s, d))
        IN IF keys = <<>> THEN <<>>
           ELSE <<"SELECTDB", d, "RESIZEDB", Len(keys), Cardinality({k \in KeysOf(s, d) : s.exp[k] # NoTTL})>>
                  \o Concat([i \in DOMAIN keys |-> rdbSaveKeyValuePair(s, keys[i], enc)])
      dbs == Numbers(Dbs)
  IN Concat([i \in DOMAIN dbs |-> database(dbs[i])]) \o <<"EOF">>

dbAddRDBLoad(s, k, o) == [s EXCEPT !.db[k] = o]

(* Read the file from item at on, with database d selected and the time to *)
(* live of the next key.  A master leaves a key out that has expired,      *)
(* unless the file is the head of an append only file.                     *)
RECURSIVE rdbLoadFrom(_, _, _, _, _, _)
rdbLoadFrom(s, p, at, d, exp, preamble) ==
  CASE p[at] = "EOF"           -> s
    [] p[at] = "SELECTDB"      -> rdbLoadFrom(s, p, at + 2, p[at + 1], exp, preamble)
    [] p[at] = "RESIZEDB"      -> rdbLoadFrom(s, p, at + 3, d, exp, preamble)
    [] p[at] = "EXPIRETIME_MS" -> rdbLoadFrom(s, p, at + 2, d, p[at + 1], preamble)
    [] OTHER ->
         LET k == <<d, p[at + 1]>>
             v == rdbLoadObject(p[at], p, at + 2)
             expired == s.role = "master" /\ ~preamble /\ exp # NoTTL /\ exp < s.now
             t == dbAddRDBLoad(s, k, v.o)
             u == IF exp = NoTTL THEN t ELSE [t EXCEPT !.exp[k] = exp]
         IN rdbLoadFrom(IF expired THEN s ELSE u, p, v.at, d, NoTTL, preamble)

rdbLoadRio(s, p, preamble) == rdbLoadFrom(s, p, 1, 0, NoTTL, preamble)

-----------------------------------------------------------------------------
(* A dataset as commands *)

(* q in pieces of at most ItemsPerCmd items *)
Chunks(q) ==
  LET n == (Len(q) + ItemsPerCmd - 1) \div ItemsPerCmd
  IN [i \in 1..n |-> SubSeq(q, (i - 1) * ItemsPerCmd + 1, Min({i * ItemsPerCmd, Len(q)}))]

rewriteListObject(k, l) == LET c == Chunks(l) IN [i \in DOMAIN c |-> <<"rpush", k, c[i]>>]

rewriteSetObject(k, m) == LET c == Chunks(SetToSeq(m)) IN [i \in DOMAIN c |-> <<"sadd", k, ToSet(c[i])>>]

rewriteSortedSetObject(k, z) ==
  LET c == Chunks(Ranked(z))
  IN [i \in DOMAIN c |-> <<"zadd", k, {}, [j \in DOMAIN c[i] |-> <<z[c[i][j]], c[i][j]>>]>>]

(* HMSET is HSET. *)
rewriteHashObject(k, h) ==
  LET c == Chunks(SetToSeq(DOMAIN h))
  IN [i \in DOMAIN c |-> <<"hset", k, [j \in DOMAIN c[i] |-> <<c[i][j], h[c[i][j]]>>]>>]

rioWriteStreamPendingEntry(k, g, c, id, nack) ==
  <<"xclaim", k, g, c, 0, <<id>>,
    [force |-> TRUE, justid |-> TRUE, time |-> nack[2], retry |-> nack[3], last |-> MinId]>>

rioWriteStreamEmptyConsumer(k, g, c) == <<"xgroup", k, "createconsumer", g, c, FALSE>>

(* An empty stream is made with an entry that is trimmed at once. *)
rewriteStreamObject(k, st) ==
  LET ids == Entries(st)
      entries == IF ids = <<>> THEN <<<<"xadd", k, FALSE, <<"maxlen", 0, FALSE, Default>>, <<0, 1>>>>>>
                 ELSE [i \in DOMAIN ids |-> <<"xadd", k, FALSE, <<"none">>, ids[i]>>]
      names == SetToSeq(DOMAIN st.groups)
      consumer(g, c) ==
        LET pel == Sorted(st.groups[g].consumers[c], Smaller)
        IN IF pel = <<>> THEN <<rioWriteStreamEmptyConsumer(k, g, c)>>
           ELSE [i \in DOMAIN pel |-> rioWriteStreamPendingEntry(k, g, c, pel[i], st.groups[g].pel[pel[i]])]
      group(g) ==
        LET cs == SetToSeq(DOMAIN st.groups[g].consumers)
        IN <<<<"xgroup", k, "create", g, st.groups[g].last, FALSE>>>>
             \o Concat([i \in DOMAIN cs |-> consumer(g, cs[i])])
  IN entries \o <<<<"xsetid", k, st.last>>>> \o Concat([i \in DOMAIN names |-> group(names[i])])

(* The bytes of a HyperLogLog are those of a string that says it is one. *)
RewriteObject(k, o) ==
  CASE Type(o) = "string" -> <<<<"set", k, Val(o), NoOpt>>>>
    [] Type(o) = "hll"    -> <<<<"set", k, Val(o), NoOpt, "hll">>>>
    [] Type(o) = "list"   -> rewriteListObject(k, Val(o))
    [] Type(o) = "set"    -> rewriteSetObject(k, Val(o))
    [] Type(o) = "zset"   -> rewriteSortedSetObject(k, Val(o))
    [] Type(o) = "hash"   -> rewriteHashObject(k, Val(o))
    [] Type(o) = "stream" -> rewriteStreamObject(k, Val(o))

rewriteAppendOnlyFileRio(s) ==
  LET keys == SetToSeq({k \in Key : s.db[k] # None})
      key(k) == RewriteObject(k, s.db[k]) \o (IF s.exp[k] = NoTTL THEN <<>> ELSE <<<<"pexpireat", k, s.exp[k]>>>>)
  IN Concat([i \in DOMAIN keys |-> key(keys[i])])
=============================================================================
