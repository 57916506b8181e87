------------------------------- MODULE Server -------------------------------
(***************************************************************************)
(* The commands on keys of any type (db.c, expire.c, sort.c, and DUMP and  *)
(* RESTORE of cluster.c), and the execution of one command (call() and the *)
(* command table of server.c), by a client, by the link with the master or *)
(* by the loader of the append only file.                                  *)
(***************************************************************************)
EXTENDS Snapshot

LOCAL INSTANCE SequencesExt
LOCAL INSTANCE FiniteSetsExt

CONSTANT Proc(_, _)   \* what a command does: the table the server uses


-----------------------------------------------------------------------------
(* db.c *)

(* <<"del", keys>>; the order of the keys is not visible. *)
delGenericCommand(s, a) ==
  LET t == FoldSet(LAMBDA k, u : expireIfNeeded(u, k), s, a[2])
      found == {k \in a[2] : lookupKey(t, k) # None}
  IN Reply(FoldSet(LAMBDA k, u : Modified(dbDelete(u, k), k, 1), t, found),
           <<"int", Cardinality(found)>>)

(* <<"exists", keys>> *)
existsCommand(s, a) ==
  LET t == FoldSet(LAMBDA k, u : expireIfNeeded(u, k), s, a[2])
  IN Reply(t, <<"int", Cardinality({k \in a[2] : lookupKeyRead(t, k) # None})>>)

touchCommand(s, a) == existsCommand(s, a)

(* <<"type", k>> *)
typeCommand(s, a) ==
  LET t == expireIfNeeded(s, a[2])
  IN Reply(t, <<"type", Type(lookupKeyRead(t, a[2]))>>)

(* <<"randomkey", db, order>>, the order in which the keys are drawn.  A   *)
(* replica whose keys all have a time to live gives up and returns a key   *)
(* that may have expired.                                                  *)
dbRandomKey(s, a) ==
  LET keys == SelectSeq(a[3], LAMBDA k : k \in KeysOf(s, a[2]))
      allvolatile == \A k \in KeysOf(s, a[2]) : s.exp[k] # NoTTL
      live == SelectSeq(keys, LAMBDA k : ~keyIsExpired(s, k))
      before(k) == SelectSeq(SubSeq(keys, 1, SelectInSeq(keys, LAMBDA x : x = k)),
                             LAMBDA x : keyIsExpired(s, x))
  IN IF live # <<>>
     THEN Reply(FoldLeft(expireIfNeeded, s, before(Head(live))), <<"key", Head(live)>>)
     ELSE IF keys # <<>> /\ s.role = "slave" /\ allvolatile THEN Reply(s, <<"key", Head(keys)>>)
     ELSE Reply(FoldLeft(expireIfNeeded, s, keys), <<"nil">>)

(* <<"keys", db>>; KEYS deletes nothing. *)
keysCommand(s, a) == Reply(s, <<"keys", {k \in KeysOf(s, a[2]) : ~keyIsExpired(s, k)}>>)

(* <<"scan", db>>, the calls of a complete iteration with an unchanged     *)
(* keyspace: what dictScan returns is DictScan's subject.                  *)
scanGenericCommand(s, a) ==
  LET t == FoldSet(LAMBDA k, u : expireIfNeeded(u, k), s, KeysOf(s, a[2]))
  IN Reply(t, <<"keys", {k \in KeysOf(s, a[2]) : ~keyIsExpired(s, k)}>>)

(* <<"rename", source, destination>> *)
renameGenericCommand(s, a, nx) ==
  LET src == a[2]
      dst == a[3]
      t == expireIfNeeded(s, src)
      u == expireIfNeeded(t, dst)
      o == lookupKey(t, src)
      free == IF lookupKey(u, dst) # None THEN dbDelete(u, dst) ELSE u
      added == dbAdd(free, dst, o)
      timed == IF t.exp[src] # NoTTL THEN setExpire(added, dst, t.exp[src]) ELSE added
      done == signalModifiedKey(Modified(dbDelete(timed, src), dst, 1), src)
  IN IF o = None THEN Fail(t)
     ELSE IF src = dst THEN Reply(t, IF nx THEN <<"int", 0>> ELSE <<"ok">>)
     ELSE IF lookupKey(u, dst) # None /\ nx THEN Reply(u, <<"int", 0>>)
     ELSE Reply(done, IF nx THEN <<"int", 1>> ELSE <<"ok">>)

(* <<"move", k, db>> *)
moveCommand(s, a) ==
  LET src == a[2]
      dst == <<a[3], src[2]>>
      t == expireIfNeeded(s, src)
      u == expireIfNeeded(t, dst)
      added == dbAdd(u, dst, lookupKey(t, src))
      timed == IF t.exp[src] # NoTTL THEN setExpire(added, dst, t.exp[src]) ELSE added
  IN IF src = dst THEN Fail(s)
     ELSE IF lookupKey(t, src) = None THEN Reply(t, <<"int", 0>>)
     ELSE IF lookupKey(u, dst) # None THEN Reply(u, <<"int", 0>>)
     ELSE Reply(signalModifiedKey(Modified(dbDelete(timed, src), dst, 1), src), <<"int", 1>>)

(* <<"copy", source, destination, replace>> *)
copyCommand(s, a) ==
  LET src == a[2]
      dst == a[3]
      t == expireIfNeeded(s, src)
      u == expireIfNeeded(t, dst)
      free == IF lookupKey(u, dst) # None THEN dbDelete(u, dst) ELSE u
      added == dbAdd(free, dst, lookupKey(t, src))
      timed == IF t.exp[src] # NoTTL THEN setExpire(added, dst, t.exp[src]) ELSE added
  IN IF src = dst THEN Fail(s)
     ELSE IF lookupKey(t, src) = None THEN Reply(t, <<"int", 0>>)
     ELSE IF lookupKey(u, dst) # None /\ ~a[4] THEN Reply(u, <<"int", 0>>)
     ELSE Reply(Modified(timed, dst, 1), <<"int", 1>>)

(* Touch the keys of a flushed or swapped database: the ones there are     *)
(* and, on a swap, the ones there will be.                                 *)
touchAllWatchedKeysInDb(s, d, with) ==
  [s EXCEPT !.touched = @ \cup {k \in Key : /\ k[1] = d
                                            /\ s.db[k] # None \/ s.db[<<with, k[2]>>] # None}]

(* <<"swapdb", db, db>>.  Keys of both databases may now be ready for the  *)
(* clients blocked on them.                                                *)
dbSwapDatabases(s, a) ==
  LET other(k) == IF k[1] = a[2] THEN <<a[3], k[2]>>
                  ELSE IF k[1] = a[3] THEN <<a[2], k[2]>> ELSE k
      t == [s EXCEPT !.db = [k \in Key |-> s.db[other(k)]],
                     !.exp = [k \in Key |-> s.exp[other(k)]]]
      u == touchAllWatchedKeysInDb(touchAllWatchedKeysInDb(t, a[2], a[3]), a[3], a[2])
      found == {k \in Key : k[1] \in {a[2], a[3]} /\ u.db[k] # None}
  IN FoldSet(LAMBDA k, w : signalKeyAsReady(w, k), u, found)

swapdbCommand(s, a) ==
  Reply(Dirty(IF a[2] = a[3] THEN s ELSE dbSwapDatabases(s, a), 1), <<"ok">>)

emptyDb(s, dbs) ==
  LET t == FoldSet(LAMBDA d, u : touchAllWatchedKeysInDb(u, d, d), s, dbs)
  IN [t EXCEPT !.db = [k \in Key |-> IF k[1] \in dbs THEN None ELSE @[k]],
               !.exp = [k \in Key |-> IF k[1] \in dbs THEN NoTTL ELSE @[k]],
               !.slavekeys = IF dbs = Dbs THEN {} ELSE @,
               !.dirty = @ + Cardinality(UNION {KeysOf(s, d) : d \in dbs})]

(* <<"flushdb", db>>: an empty database is not flushed on the replicas. *)
flushdbCommand(s, a) == Reply(emptyDb(s, {a[2]}), <<"ok">>)

(* FLUSHALL is propagated even when there is nothing to flush. *)
flushallCommand(s, a) == Reply(Dirty(emptyDb(s, Dbs), 1), <<"ok">>)

-----------------------------------------------------------------------------
(* expire.c *)

(* <<"expire", k, n>>: unit is the number of milliseconds in one. *)
expireGenericCommand(s, a, basetime, unit) ==
  LET k == a[2]
      when == a[3] * unit + basetime
      t == expireIfNeeded(s, k)
      gone == Modified(rewriteClientCommandVector(dbDelete(t, k), <<"del", {k}>>), k, 1)
  IN IF lookupKey(t, k) = None THEN Reply(t, <<"int", 0>>)
     ELSE IF checkAlreadyExpired(t, when) THEN Reply(gone, <<"int", 1>>)
     ELSE Reply(Modified(setExpire(t, k, when), k, 1), <<"int", 1>>)

ttlGenericCommand(s, a) ==
  LET t == expireIfNeeded(s, a[2])
      left == t.exp[a[2]] - t.now
  IN Reply(t, <<"int", IF lookupKeyRead(t, a[2]) = None THEN -2
                       ELSE IF t.exp[a[2]] = NoTTL THEN -1 ELSE IF left < 0 THEN 0 ELSE left>>)

persistCommand(s, a) ==
  LET t == expireIfNeeded(s, a[2])
  IN IF lookupKey(t, a[2]) = None \/ t.exp[a[2]] = NoTTL THEN Reply(t, <<"int", 0>>)
     ELSE Reply(Modified(removeExpire(t, a[2]), a[2], 1), <<"int", 1>>)

(* One key of a cycle of activeExpireCycle: the DEL is propagated before   *)
(* the key is deleted.                                                     *)
activeExpireCycleTryExpire(s, k) ==
  IF s.exp[k] # NoTTL /\ s.now > s.exp[k]
  THEN signalModifiedKey(dbDelete(propagateExpire(s, k), k), k) ELSE s

(* A writable replica expires the keys its own clients gave a time to      *)
(* live; a key that has none any more is forgotten.                        *)
expireSlaveKeys(s) ==
  LET t == FoldSet(LAMBDA k, u : activeExpireCycleTryExpire(u, k), s, s.slavekeys)
  IN [t EXCEPT !.slavekeys = {k \in @ : t.exp[k] # NoTTL}]

-----------------------------------------------------------------------------
(* cluster.c: DUMP and RESTORE.                                            *)
(* <<"restore", k, payload, replace, ttl, absolute>>; a ttl of 0 is none.  *)

restoreCommand(s, a) ==
  LET k == a[2]
      t == IF a[4] THEN s ELSE expireIfNeeded(s, k)
      deleted == a[4] /\ lookupKey(t, k) # None
      u == IF a[4] THEN dbDelete(t, k) ELSE t
      when == IF a[6] THEN a[5] ELSE a[5] + s.now
      added == dbAdd(u, k, rdbLoadObject(a[3][1], a[3], 2).o)
  IN IF ~a[4] /\ lookupKey(t, k) # None THEN Fail(t)
     ELSE IF ~verifyDumpPayload(a[3]) THEN Fail(t)
     ELSE IF a[5] # 0 /\ checkAlreadyExpired(u, when)
     THEN Reply(IF deleted THEN Modified(rewriteClientCommandVector(u, <<"del", {k}>>), k, 1) ELSE u,
                <<"ok">>)
     ELSE Reply(Modified(IF a[5] # 0 THEN setExpire(added, k, when) ELSE added, k, 1), <<"ok">>)

(* <<"dump", k, encoding>> *)
dumpCommand(s, a) ==
  LET t == expireIfNeeded(s, a[2])
      o == lookupKeyRead(t, a[2])
  IN Reply(t, IF o = None THEN <<"nil">> ELSE <<"payload", createDumpPayload(o, a[3])>>)

-----------------------------------------------------------------------------
(* sort.c: <<"sort", k, options>>                                          *)
(*   by     <<"self">>, <<"nosort">> or <<"key", weights>>: the pattern,   *)
(*          as the key each element is substituted into                    *)
(*   get    <<>>, or such a pattern                                        *)
(*   desc, offset, count (-1 is no limit), store (<<>> or a key)           *)

NoWeight == <<"none">>

(* The string or the hash field a pattern leads to. *)
lookupKeyByPattern(s, pattern, e, write) ==
  LET k == pattern[e]
      o == IF write THEN lookupKey(s, k) ELSE lookupKeyRead(s, k)
  IN IF e \notin DOMAIN pattern \/ o = None \/ Type(o) # "string" THEN NoWeight ELSE o

(* A missing weight counts as zero, and equal weights leave the order to   *)
(* the elements, so that the result is the same on a replica.              *)
sortCompare(s, by, e, f, write) ==
  LET weight(x) == IF by[1] = "self" THEN x
                   ELSE LET w == lookupKeyByPattern(s, by[2], x, write)
                        IN IF w = NoWeight THEN 0 ELSE GetLongLong(Val(w))
  IN weight(e) < weight(f) \/ (weight(e) = weight(f) /\ e < f)

(* The positions of a sequence in the order of the elements there *)
SortVector(q, Before(_, _)) ==
  LET at == Sorted(1..Len(q), LAMBDA i, j : Before(q[i], q[j]) \/ (q[i] = q[j] /\ i < j))
  IN [i \in 1..Len(q) |-> q[at[i]]]

(* The elements to sort.  A set has no order of its own: when the result   *)
(* is stored it is sorted even if no order was asked for.                  *)
ElementsOf(o) ==
  CASE o = None -> <<>>
    [] Type(o) = "list" -> Val(o)
    [] Type(o) = "set" -> Sorted(Val(o), LAMBDA x, y : x < y)
    [] Type(o) = "zset" -> Ranked(Val(o))

sortCommand(s, a) ==
  LET o == a[3]
      write == o.store # <<>>
      patterns == (IF o.by[1] = "key" THEN {o.by[2]} ELSE {}) \cup ToSet(o.get)
      looked == {a[2]} \cup UNION {Range(p) : p \in patterns}
      t == FoldSet(LAMBDA k, u : expireIfNeeded(u, k), s, looked)
      val == IF write THEN lookupKey(t, a[2]) ELSE lookupKeyRead(t, a[2])
      elements == ElementsOf(val)
      n == Len(elements)
      nosort == o.by[1] = "nosort"
      ordered == IF nosort THEN elements
                 ELSE SortVector(elements, LAMBDA e, f : sortCompare(t, o.by, e, f, write))
      all == IF o.desc THEN Reverse(ordered) ELSE ordered
      start == IF o.offset < 0 THEN 0 ELSE o.offset
      end == IF o.count < 0 THEN n - 1 ELSE Min({start + o.count - 1, n - 1})
      chosen == IF start >= n THEN <<>> ELSE SubSeq(all, start + 1, end + 1)
      got(e) == [i \in 1..Len(o.get) |->
                   LET v == lookupKeyByPattern(t, o.get[i], e, write)
                   IN IF v = NoWeight THEN 0 ELSE GetLongLong(Val(v))]
      out == IF o.get = <<>> THEN chosen
             ELSE FlattenSeq([i \in 1..Len(chosen) |-> got(chosen[i])])
      dst == o.store[1]
  IN IF val # None /\ Type(val) \notin {"list", "set", "zset"} THEN WrongType(t)
     ELSE IF ~write THEN Reply(t, <<"list", out>>)
     ELSE IF out # <<>>
     THEN Reply(Dirty(setKey(t, dst, List(out)), Len(out)), <<"int", Len(out)>>)
     ELSE IF lookupKey(t, dst) # None
     THEN Reply(Modified(dbDelete(t, dst), dst, 1), <<"int", 0>>)
     ELSE Reply(t, <<"int", 0>>)

-----------------------------------------------------------------------------
(* The commands flagged read-only *)
ReadOnly == {"get", "mget", "getrange", "strlen", "stralgo", "getbit", "bitcount", "bitpos", "bitfield_ro",
             "llen", "lindex", "lrange", "lpos", "hmget", "hgetall", "hrandfield",
             "smembers", "srandmember", "sinter", "sunion", "sdiff",
             "zrange", "zcount", "zmscore", "zrank", "zrevrank", "zrandmember", "zunion", "zinter", "zdiff",
             "geosearch", "geopos", "xrange", "xrevrange", "xlen", "xread", "xpending", "xinfo", "pfcount",
             "exists", "touch", "type", "randomkey", "keys", "scan", "ttl", "dump"}

(* redisCommandTable *)
StringProc(s, a) ==
  CASE a[1] = "set" -> setCommand(s, a)            [] a[1] = "setnx" -> setnxCommand(s, a)
    [] a[1] = "setex" -> setexCommand(s, a)        [] a[1] = "psetex" -> psetexCommand(s, a)
    [] a[1] = "get" -> getCommand(s, a)            [] a[1] = "getex" -> getexCommand(s, a)
    [] a[1] = "getdel" -> getdelCommand(s, a)      [] a[1] = "getset" -> getsetCommand(s, a)
    [] a[1] = "mget" -> mgetCommand(s, a)          [] a[1] = "mset" -> msetGenericCommand(s, a, FALSE)
    [] a[1] = "msetnx" -> msetGenericCommand(s, a, TRUE)
    [] a[1] = "setrange" -> setrangeCommand(s, a)  [] a[1] = "getrange" -> getrangeCommand(s, a)
    [] a[1] = "append" -> appendCommand(s, a)      [] a[1] = "strlen" -> strlenCommand(s, a)
    [] a[1] = "incrby" -> incrbyCommand(s, a)      [] a[1] = "decrby" -> decrbyCommand(s, a)
    [] a[1] = "incrbyfloat" -> incrbyfloatCommand(s, a)
    [] a[1] = "stralgo" -> stralgoLCS(s, a)
    [] a[1] = "setbit" -> setbitCommand(s, a)      [] a[1] = "getbit" -> getbitCommand(s, a)
    [] a[1] = "bitop" -> bitopCommand(s, a)        [] a[1] = "bitcount" -> bitcountCommand(s, a)
    [] a[1] = "bitpos" -> bitposCommand(s, a)      [] a[1] = "bitfield" -> bitfieldGeneric(s, a, FALSE)
    [] a[1] = "bitfield_ro" -> bitfieldGeneric(s, a, TRUE)
    [] a[1] = "pfadd" -> pfaddCommand(s, a)        [] a[1] = "pfcount" -> pfcountCommand(s, a)
    [] a[1] = "pfmerge" -> pfmergeCommand(s, a)

ListProc(s, a) ==
  CASE a[1] = "lpush" -> pushGenericCommand(s, a, "left", FALSE)
    [] a[1] = "rpush" -> pushGenericCommand(s, a, "right", FALSE)
    [] a[1] = "lpushx" -> pushGenericCommand(s, a, "left", TRUE)
    [] a[1] = "rpushx" -> pushGenericCommand(s, a, "right", TRUE)
    [] a[1] = "linsert" -> linsertCommand(s, a)    [] a[1] = "llen" -> llenCommand(s, a)
    [] a[1] = "lindex" -> lindexCommand(s, a)      [] a[1] = "lset" -> lsetCommand(s, a)
    [] a[1] = "lpop" -> popGenericCommand(s, a, "left")
    [] a[1] = "rpop" -> popGenericCommand(s, a, "right")
    [] a[1] = "lrange" -> lrangeCommand(s, a)      [] a[1] = "ltrim" -> ltrimCommand(s, a)
    [] a[1] = "lpos" -> lposCommand(s, a)          [] a[1] = "lrem" -> lremCommand(s, a)
    [] a[1] = "lmove" -> lmoveGenericCommand(s, a, a[4], a[5])
    [] a[1] = "rpoplpush" -> lmoveGenericCommand(s, a, "right", "left")
    [] a[1] = "blpop" -> blockingPopGenericCommand(s, a, "left")
    [] a[1] = "brpop" -> blockingPopGenericCommand(s, a, "right")
    [] a[1] = "blmove" -> blmoveGenericCommand(s, a, a[4], a[5])
    [] a[1] = "brpoplpush" -> blmoveGenericCommand(s, a, "right", "left")

HashSetProc(s, a) ==
  CASE a[1] = "hsetnx" -> hsetnxCommand(s, a)      [] a[1] = "hset" -> hsetCommand(s, a)
    [] a[1] = "hincrby" -> hincrbyCommand(s, a)    [] a[1] = "hincrbyfloat" -> hincrbyfloatCommand(s, a)
    [] a[1] = "hmget" -> hmgetCommand(s, a)        [] a[1] = "hdel" -> hdelCommand(s, a)
    [] a[1] = "hgetall" -> genericHgetallCommand(s, a)
    [] a[1] = "hrandfield" -> hrandfieldCommand(s, a)
    [] a[1] = "sadd" -> saddCommand(s, a)          [] a[1] = "srem" -> sremCommand(s, a)
    [] a[1] = "smove" -> smoveCommand(s, a)        [] a[1] = "smembers" -> smembersCommand(s, a)
    [] a[1] = "srandmember" -> srandmemberCommand(s, a)
    [] a[1] = "spop" -> spopCommand(s, a)          [] a[1] = "spopn" -> spopWithCountCommand(s, a)
    [] a[1] = "sinter" -> setOpCommand(s, "inter", a[2])
    [] a[1] = "sunion" -> setOpCommand(s, "union", a[2])
    [] a[1] = "sdiff" -> setOpCommand(s, "diff", a[2])
    [] a[1] = "sinterstore" -> setOpStoreCommand(s, "inter", a[2], a[3])
    [] a[1] = "sunionstore" -> setOpStoreCommand(s, "union", a[2], a[3])
    [] a[1] = "sdiffstore" -> setOpStoreCommand(s, "diff", a[2], a[3])

ZsetProc(s, a) ==
  CASE a[1] = "zadd" -> zaddCommand(s, a)          [] a[1] = "zincrby" -> zincrbyCommand(s, a)
    [] a[1] = "zrem" -> zremCommand(s, a)          [] a[1] = "zrange" -> zrangeCommand(s, a)
    [] a[1] = "zrangestore" -> zrangestoreCommand(s, a)
    [] a[1] = "zremrange" -> zremrangeGenericCommand(s, a)
    [] a[1] = "zcount" -> zcountCommand(s, a)      [] a[1] = "zmscore" -> zmscoreCommand(s, a)
    [] a[1] = "zrank" -> zrankGenericCommand(s, a, FALSE)
    [] a[1] = "zrevrank" -> zrankGenericCommand(s, a, TRUE)
    [] a[1] = "zrandmember" -> zrandmemberCommand(s, a)
    [] a[1] = "zunionstore" -> zunionInterDiffGenericCommand(s, "union", a[2], a[3], a[4], a[5])
    [] a[1] = "zinterstore" -> zunionInterDiffGenericCommand(s, "inter", a[2], a[3], a[4], a[5])
    [] a[1] = "zdiffstore" -> zunionInterDiffGenericCommand(s, "diff", a[2], a[3], a[4], a[5])
    [] a[1] = "zunion" -> zunionInterDiffGenericCommand(s, "union", None, a[3], a[4], a[5])
    [] a[1] = "zinter" -> zunionInterDiffGenericCommand(s, "inter", None, a[3], a[4], a[5])
    [] a[1] = "zdiff" -> zunionInterDiffGenericCommand(s, "diff", None, a[3], a[4], a[5])
    [] a[1] = "zpopmin" -> zpopCommand(s, a, "min")  [] a[1] = "zpopmax" -> zpopCommand(s, a, "max")
    [] a[1] = "bzpopmin" -> blockingGenericZpopCommand(s, a, "min")
    [] a[1] = "bzpopmax" -> blockingGenericZpopCommand(s, a, "max")
    [] a[1] = "geoadd" -> geoaddCommand(s, a)      [] a[1] = "geosearch" -> geosearchCommand(s, a)
    [] a[1] = "geosearchstore" -> geosearchstoreCommand(s, a)
    [] a[1] = "geopos" -> geoposCommand(s, a)

StreamProc(s, a) ==
  CASE a[1] = "xadd" -> xaddCommand(s, a)          [] a[1] = "xtrim" -> xtrimCommand(s, a)
    [] a[1] = "xdel" -> xdelCommand(s, a)          [] a[1] = "xsetid" -> xsetidCommand(s, a)
    [] a[1] = "xrange" -> xrangeGenericCommand(s, a, FALSE)
    [] a[1] = "xrevrange" -> xrangeGenericCommand(s, a, TRUE)
    [] a[1] = "xlen" -> xlenCommand(s, a)          [] a[1] \in {"xread", "xreadgroup"} -> xreadCommand(s, a)
    [] a[1] = "xgroup" -> xgroupCommand(s, a)      [] a[1] = "xack" -> xackCommand(s, a)
    [] a[1] = "xclaim" -> xclaimCommand(s, a)      [] a[1] = "xautoclaim" -> xautoclaimCommand(s, a)
    [] a[1] = "xpending" -> xpendingCommand(s, a)  [] a[1] = "xinfo" -> xinfoCommand(s, a)

KeyProc(s, a) ==
  CASE a[1] = "del" -> delGenericCommand(s, a)     [] a[1] = "exists" -> existsCommand(s, a)
    [] a[1] = "touch" -> touchCommand(s, a)        [] a[1] = "type" -> typeCommand(s, a)
    [] a[1] = "randomkey" -> dbRandomKey(s, a)     [] a[1] = "keys" -> keysCommand(s, a)
    [] a[1] = "scan" -> scanGenericCommand(s, a)
    [] a[1] = "rename" -> renameGenericCommand(s, a, FALSE)
    [] a[1] = "renamenx" -> renameGenericCommand(s, a, TRUE)
    [] a[1] = "move" -> moveCommand(s, a)          [] a[1] = "copy" -> copyCommand(s, a)
    [] a[1] = "swapdb" -> swapdbCommand(s, a)      [] a[1] = "flushdb" -> flushdbCommand(s, a)
    [] a[1] = "flushall" -> flushallCommand(s, a)
    [] a[1] = "expire" -> expireGenericCommand(s, a, s.now, SecMs)
    [] a[1] = "pexpire" -> expireGenericCommand(s, a, s.now, 1)
    [] a[1] = "expireat" -> expireGenericCommand(s, a, 0, SecMs)
    [] a[1] = "pexpireat" -> expireGenericCommand(s, a, 0, 1)
    [] a[1] = "ttl" -> ttlGenericCommand(s, a)     [] a[1] = "persist" -> persistCommand(s, a)
    [] a[1] = "restore" -> restoreCommand(s, a)    [] a[1] = "dump" -> dumpCommand(s, a)
    [] a[1] = "sort" -> sortCommand(s, a)

StringCommands == {"set", "setnx", "setex", "psetex", "get", "getex", "getdel", "getset", "mget", "mset",
  "msetnx", "setrange", "getrange", "append", "strlen", "incrby", "decrby", "incrbyfloat", "stralgo", "setbit",
  "getbit", "bitop", "bitcount", "bitpos", "bitfield", "bitfield_ro", "pfadd", "pfcount", "pfmerge"}
ListCommands == {"lpush", "rpush", "lpushx", "rpushx", "linsert", "llen", "lindex", "lset", "lpop", "rpop",
  "lrange", "ltrim", "lpos", "lrem", "lmove", "rpoplpush", "blpop", "brpop", "blmove", "brpoplpush"}
HashSetCommands == {"hsetnx", "hset", "hincrby", "hincrbyfloat", "hmget", "hdel", "hgetall", "hrandfield",
  "sadd", "srem", "smove", "smembers", "srandmember", "spop", "spopn", "sinter", "sunion", "sdiff",
  "sinterstore", "sunionstore", "sdiffstore"}
StreamCommands == {"xadd", "xtrim", "xdel", "xsetid", "xrange", "xrevrange", "xlen", "xread", "xreadgroup",
  "xgroup", "xack", "xclaim", "xautoclaim", "xpending", "xinfo"}
KeyCommands == {"del", "exists", "touch", "type", "randomkey", "keys", "scan", "rename", "renamenx", "move",
  "copy", "swapdb", "flushdb", "flushall", "expire", "pexpire", "expireat", "pexpireat", "ttl", "persist",
  "restore", "dump", "sort"}

redisCommandTable(s, a) ==
  LET name == a[1]
  IN IF name \in KeyCommands THEN KeyProc(s, a)
     ELSE IF name \in StringCommands THEN StringProc(s, a)
     ELSE IF name \in ListCommands THEN ListProc(s, a)
     ELSE IF name \in HashSetCommands THEN HashSetProc(s, a)
     ELSE IF name \in StreamCommands THEN StreamProc(s, a) ELSE ZsetProc(s, a)

-----------------------------------------------------------------------------
(* The commands of alsoPropagate follow the command itself, as one         *)
(* transaction if they are several and not already inside one.             *)
PropagateAlso(s) ==
  LET feed(t, op) == propagate(t, op[1], op[2])
      wrap == Len(s.also) > 1 /\ ~s.inexec /\ ~s.inmulti
      open == IF wrap THEN propagate([s EXCEPT !.inmulti = TRUE], <<"multi">>, Targets) ELSE s
      close(t) == IF wrap THEN [propagate(t, <<"exec">>, Targets) EXCEPT !.inmulti = FALSE] ELSE t
  IN close(FoldLeft(feed, open, s.also))

(* call(): what a command changed is propagated, in the form the command   *)
(* left in the argument vector.                                            *)
call(s, a) ==
  LET t == Proc([s EXCEPT !.argv = a, !.dirty = 0, !.flags = @ \cap {"denyblocking"}, !.also = <<>>,
                          !.reply = <<>>, !.readonly = a[1] \in ReadOnly], a)
      to == IF "prevent" \in t.flags THEN {}
            ELSE (IF t.dirty > 0 THEN Targets ELSE {}) \cup (t.flags \cap Targets)
      u == IF to = {} THEN t ELSE propagate(t, t.argv, to)
  IN PropagateAlso(u)

(* The fields of a command that is over *)
Settled(s) ==
  [s EXCEPT !.argv = <<>>, !.dirty = 0, !.flags = {}, !.also = <<>>, !.reply = <<>>, !.readonly = FALSE]

(* What a client can see of a value.  Of a consumer group that is who owns *)
(* which pending entry: how often and when an entry was delivered again,   *)
(* and a consumer that owns nothing, are not propagated.                   *)
StreamView(st) ==
  [entries |-> Entries(st), last |-> st.last,
   groups |-> [g \in DOMAIN st.groups |->
                 [last |-> st.groups[g].last,
                  owner |-> [i \in DOMAIN st.groups[g].pel |-> st.groups[g].pel[i][1]]]]]

View(o) == CASE Type(o) = "stream" -> <<"stream", StreamView(Val(o))>>
             [] Type(o) = "hll"    -> <<"hll", RegistersOf(Val(o))>>
             [] OTHER              -> o
=============================================================================
