----------------------------- MODULE MCCommands -----------------------------
(***************************************************************************)
(* Scenarios for the commands of every type.                               *)
(***************************************************************************)
EXTENDS Commands

LOCAL INSTANCE SequencesExt

X == <<0, "x">>
Y == <<0, "y">>
X1 == <<1, "x">>
Opts(fl, unit, ttl) == [fl |-> fl, unit |-> unit, ttl |-> ttl]
Px(n) == Opts({}, "px", n)

Scenario(setup, cmds, steps, ticks, reads) ==
  [setup |-> setup, cmds |-> cmds, steps |-> steps, ticks |-> ticks, clock |-> 3,
   evict |-> FALSE, save |-> "no", reads |-> reads]

(* Every string command on a key that may or may not have a time to live *)
Strings ==
  Scenario(<<<<"set", X, <<49>>, NoOpt>>>>,
           {<<"set", X, <<50>>, NoOpt>>, <<"set", X, <<50>>, Px(1)>>,
            <<"set", X, <<50>>, Opts({"get"}, "ex", 1)>>, <<"set", X, <<50>>, Opts({"get"}, "no", 0)>>,
            <<"set", X, <<50>>, Opts({"keepttl"}, "no", 0)>>, <<"set", X, <<50>>, Opts({"nx"}, "pxat", 5)>>,
            <<"setnx", Y, <<51>>>>, <<"psetex", Y, 1, <<51>>>>, <<"setex", Y, 1, <<51>>>>,
            <<"getex", X, Opts({"persist"}, "no", 0)>>, <<"getex", X, Px(1)>>, <<"getex", X, Opts({}, "pxat", 3)>>,
            <<"getdel", X>>, <<"getset", X, <<52>>>>, <<"incrby", X, 7>>, <<"decrby", Y, 1>>, <<"incrbyfloat", X, 1>>,
            <<"append", X, <<57>>>>, <<"setrange", X, 1, <<56>>>>,
            <<"mset", <<<<X, <<53>>>>, <<Y, <<54>>>>>>>>, <<"msetnx", <<<<X, <<53>>>>, <<Y, <<54>>>>>>>>,
            <<"expire", X, 1>>, <<"pexpire", X, 1>>, <<"expireat", X, 1>>, <<"pexpireat", X, 5>>, <<"persist", X>>,
            <<"rename", X, Y>>, <<"del", {X}>>, <<"get", X>>},
           2, 3, {<<"keys", 0>>, <<"scan", 0>>})

(* STRALGO LCS on all the strings two writes of three make *)
Lcs ==
  Scenario(<<<<"set", X, <<1, 2, 1>>, NoOpt>>, <<"set", Y, <<2, 1, 2>>, NoOpt>>>>,
           {<<"set", k, v, NoOpt>> : k \in {X, Y}, v \in {<<1, 2, 3>>, <<1, 1, 2>>, <<3, 1>>, <<2, 2, 1>>}}
             \cup {<<"append", X, <<1>>>>, <<"getrange", X, 1, -1>>, <<"strlen", X>>, <<"mget", <<X, Y>>>>},
           3, 0, {<<"stralgo", X, Y, 0>>})

Field(op, sign, bits, offset, arg, ow) ==
  [op |-> op, sign |-> sign, bits |-> bits, offset |-> offset, arg |-> arg, ow |-> ow]

(* The values 0 and 255 have a bit of each kind at no place. *)
Bits ==
  Scenario(<<<<"set", X, <<0, 64>>, NoOpt>>, <<"set", Y, <<255>>, NoOpt>>>>,
           {<<"setbit", X, 3, 1>>, <<"setbit", X, 17, 1>>, <<"setbit", X, 30, 1>>, <<"getbit", X, 9>>,
            <<"bitop", X, "and", <<X, Y>>>>, <<"bitop", X, "or", <<X, Y>>>>, <<"bitop", Y, "xor", <<X, Y, X>>>>,
            <<"bitop", Y, "not", <<X>>>>, <<"bitcount", X, 0, -1>>, <<"set", X, <<255, 255>>, Px(1)>>, <<"del", {X}>>,
            <<"bitfield", X, <<Field("set", FALSE, 4, 6, 9, "wrap"), Field("get", TRUE, 3, 5, 0, "wrap")>>>>,
            <<"bitfield", X, <<Field("incrby", TRUE, 5, 1, 12, "fail")>>>>,
            <<"bitfield_ro", X, <<Field("get", FALSE, 4, 2, 0, "wrap")>>>>},
           2, 1,
           {<<"bitpos", X, bit, start, end>> : bit \in {0, 1}, start \in {0, 1, -1}, end \in {<<>>, <<0>>, <<-1>>}}
             \cup {<<"bitfield", X, <<Field("incrby", sign, bits, 2, arg, ow)>>>> :
                     sign \in BOOLEAN, bits \in {3, 4}, arg \in {-16, -8, -5, 3, 8, 15}, ow \in {"wrap", "sat", "fail"}}
             \cup {<<"bitfield", X, <<Field("incrby", TRUE, 5, 4, arg, ow)>>>> :
                     arg \in {-16, -1, 1, 15}, ow \in {"wrap", "sat", "fail"}})

Lists ==
  Scenario(<<<<"rpush", X, <<1, 2, 1>>>>>>,
           {<<"lpush", X, <<1>>>>, <<"rpush", Y, <<1, 2>>>>, <<"lpushx", Y, <<3>>>>, <<"rpushx", X, <<2>>>>,
            <<"linsert", X, "before", 2, 3>>, <<"linsert", X, "after", 1, 3>>, <<"lset", X, -1, 2>>, <<"lset", X, 5, 2>>,
            <<"lpop", X, 0>>, <<"rpop", X, 2>>, <<"ltrim", X, 1, -2>>, <<"ltrim", X, 5, 6>>,
            <<"lrem", X, 1, 1>>, <<"lrem", X, -1, 1>>, <<"lrem", X, 0, 1>>, <<"llen", X>>, <<"lindex", X, -1>>,
            <<"lmove", X, Y, "left", "right">>, <<"lmove", X, X, "right", "left">>, <<"rpoplpush", X, Y>>,
            <<"blpop", <<Y, X>>>>, <<"brpop", <<X>>>>, <<"blmove", X, Y, "left", "left">>, <<"brpoplpush", Y, X>>,
            <<"pexpire", X, 1>>, <<"set", Y, <<49>>, NoOpt>>,
            <<"sort", X, [by |-> <<"self">>, get |-> <<>>, desc |-> FALSE, offset |-> 0, count |-> -1, store |-> <<Y>>]>>},
           2, 2,
           {<<"lrange", X, 0, -1>>, <<"lrange", X, -2, 1>>, <<"lrange", X, 1, 9>>,
            <<"lpos", X, 1, 1, 0, 0>>, <<"lpos", X, 1, -2, -1, 0>>, <<"lpos", X, 1, -1, 2, 2>>, <<"lpos", X, 2, 1, 1, 2>>})

Hashes ==
  Scenario(<<<<"hset", X, <<<<1, 4>>, <<2, Word>>>>>>>>,
           {<<"hset", X, <<<<3, 1>>, <<1, 2>>>>>>, <<"hsetnx", X, 1, 9>>, <<"hsetnx", Y, 1, 9>>, <<"hdel", X, <<1>>>>,
            <<"hdel", X, <<1, 2, 3>>>>, <<"hincrby", X, 1, 12>>, <<"hincrby", X, 2, 1>>, <<"hincrby", Y, 1, -16>>,
            <<"hincrbyfloat", X, 1, 20>>, <<"hincrbyfloat", X, 1, -1>>, <<"hmget", X, <<1, 3>>>>, <<"hgetall", X>>,
            <<"pexpire", X, 1>>, <<"copy", X, Y, FALSE>>, <<"set", Y, <<49>>, NoOpt>>, <<"rename", X, Y>>},
           3, 1, {<<"hrandfield", X, n, o>> : n \in {-2, 0, 1, 2, 5}, o \in {<<1, 2, 3>>, <<3, 2, 1>>}})

Orders == {<<1, 2, 3, 4>>, <<3, 1, 4, 2>>}
SetPairs == {<<X, Y>>, <<Y, X>>, <<X, X>>}

Sets ==
  Scenario(<<<<"sadd", X, {1, 2, 3, 4}>>, <<"sadd", Y, {2}>>>>,
           {<<"sadd", X, {1, 4}>>, <<"sadd", Y, {1, 2}>>, <<"srem", X, {1, 2}>>, <<"srem", Y, {2, 3}>>,
            <<"smove", X, Y, 1>>, <<"smove", X, Y, 2>>, <<"smove", Y, Y, 2>>, <<"pexpire", X, 1>>, <<"set", Y, <<49>>, NoOpt>>}
             \cup {<<"spop", X, o>> : o \in Orders} \cup {<<"spopn", X, n, o>> : n \in {1, 2, 3, 9}, o \in Orders}
             \cup {<<op, X, p>> : op \in {"sinterstore", "sunionstore", "sdiffstore"}, p \in SetPairs},
           2, 2,
           {<<op, p>> : op \in {"sinter", "sdiff"}, p \in SetPairs \cup {<<X, Y, X1>>, <<X, X1>>}}
             \cup {<<"srandmember", X, n, o>> : n \in {-3, 1, 2, 3, 9}, o \in Orders})

R(by, lo, hi, loex, hiex) == Range0(by, lo, hi, loex, hiex)
Rev(g) == [g EXCEPT !.rev = TRUE]
Lim(g, o, n) == [g EXCEPT !.offset = o, !.limit = n]

Zsets ==
  Scenario(<<<<"zadd", X, {}, <<<<1, 3>>, <<2, 1>>, <<2, 2>>>>>>, <<"sadd", Y, {2, 4}>>>>,
           {<<"zadd", X, {"nx"}, <<<<5, 4>>, <<5, 1>>>>>>, <<"zadd", X, {"xx", "gt"}, <<<<2, 3>>, <<1, 1>>>>>>,
            <<"zadd", X, {"incr"}, <<<<Inf, 1>>>>>>, <<"zadd", X, {"ch"}, <<<<1, 4>>, <<2, 1>>>>>>,
            <<"zadd", X, {}, <<<<-Inf, 2>>>>>>, <<"zincrby", X, Inf, 2>>, <<"zincrby", X1, 1, 1>>,
            <<"zrem", X, {1, 3}>>, <<"zremrange", X, R("rank", 0, 1, FALSE, FALSE)>>,
            <<"zremrange", X, R("score", 1, 2, TRUE, FALSE)>>, <<"zrangestore", X1, X, R("score", 2, 9, FALSE, FALSE)>>,
            <<"zpopmin", X, 1>>, <<"zpopmax", X, 2>>, <<"bzpopmin", <<X1, X>>>>, <<"bzpopmax", <<X1>>>>,
            <<"zunionstore", X, <<X, Y>>, <<1, 1>>, "sum">>, <<"zinterstore", X1, <<X, Y>>, <<-1, 2>>, "min">>,
            <<"zdiffstore", X, <<X, Y>>, <<1, 1>>, "sum">>, <<"zdiffstore", X, <<X, X>>, <<1, 1>>, "sum">>,
            <<"zrank", X, 1>>, <<"zrevrank", X, 1>>, <<"zmscore", X, <<1, 9>>>>, <<"pexpire", X, 1>>},
           2, 1,
           {<<"zrange", X, g>> : g \in {R("rank", 0, -1, FALSE, FALSE), Rev(R("rank", -2, 5, FALSE, FALSE)),
                                         R("score", 1, 2, TRUE, FALSE), Rev(R("score", 9, 1, FALSE, TRUE)),
                                         Lim(R("score", 0, 9, FALSE, FALSE), 1, 1), Lim(Rev(R("score", 9, 0, FALSE, FALSE)), 1, 9),
                                         R("score", 2, 2, TRUE, FALSE)}}
             \cup {<<"zcount", X, g>> : g \in {R("score", 1, 2, TRUE, FALSE), R("score", 0, 9, FALSE, TRUE), R("score", 3, 9, FALSE, FALSE)}}
             \cup {<<"zrandmember", X, n, <<2, 4, 1, 3>>>> : n \in {-2, 1, 2}}
             \cup {<<op, None, ks, [i \in DOMAIN ks |-> 1], "max">> :
                     op \in {"zunion", "zinter", "zdiff"}, ks \in {<<X, Y>>, <<Y, X>>, <<X, X1, Y>>, <<X, X>>}})

Shape(x, y, circle, w, h) == [xy |-> <<x, y>>, circle |-> circle, width |-> w, height |-> h]
Geo(count, any, sort) == [count |-> count, any |-> any, sort |-> sort, storedist |-> FALSE]

(* One member at any place of a map of 4 by 4 cells, and every shape *)
Places ==
  Scenario(<<>>, {<<"geoadd", X, {}, <<<<<<x, y>>, 1>>>>>> : x \in {0, 3, 5, 7}, y \in {1, 2, 5, 7}}
                   \cup {<<"geoadd", X, {"xx"}, <<<<<<1, 1>>, 2>>>>>>, <<"geopos", X, <<1, 2>>>>},
           1, 0,
           {<<"geosearch", X, Shape(x, y, TRUE, rad, rad), Geo(0, FALSE, "none")>> : x \in 0..7, y \in {0, 3, 4, 7}, rad \in {0, 1, 2, 4}}
             \cup {<<"geosearch", X, Shape(x, 4, FALSE, w, h), Geo(0, FALSE, "none")>> : x \in {0, 3, 7}, w \in 1..3, h \in 1..3})

Geos ==
  Scenario(<<>>,
           {<<"geoadd", X, {}, <<<<<<1, 2>>, 1>>, <<<<5, 5>>, 2>>, <<<<7, 2>>, 3>>>>>>,
            <<"geoadd", X, {"nx"}, <<<<<<3, 3>>, 1>>, <<<<3, 3>>, 4>>>>>>,
            <<"geosearchstore", Y, X, Shape(0, 2, TRUE, 3, 3), Geo(0, FALSE, "none")>>,
            <<"geosearchstore", X, X, Shape(0, 2, TRUE, 3, 3), [Geo(1, FALSE, "none") EXCEPT !.storedist = TRUE]>>,
            <<"geosearchstore", X, Y, Shape(4, 4, FALSE, 1, 1), Geo(0, FALSE, "none")>>, <<"zrem", X, {2}>>, <<"pexpire", Y, 1>>},
           3, 1,
           {<<"geosearch", X, Shape(x, y, TRUE, 3, 3), o>> : x \in {0, 4}, y \in {2, 5},
              o \in {Geo(2, FALSE, "none"), Geo(1, TRUE, "none"), Geo(2, FALSE, "desc"), Geo(0, FALSE, "asc")}})

Trim(kind, arg, approx, limit) == <<kind, arg, approx, limit>>
NoTrim == <<"none">>
Claim(force, justid, time, retry) == [force |-> force, justid |-> justid, time |-> time, retry |-> retry, last |-> MinId]

(* A stream with the entries 1-1 to 1-n, restored from the payload of a    *)
(* DUMP, two entries to a node                                             *)
Node(i, j) == [n \in 1..(j - i + 1) |-> <<<<1, i + n - 1>>, TRUE>>]
Restored(nodes, last, groups) ==
  <<"restore", X, createDumpPayload(Stream([nodes |-> nodes, last |-> last, groups |-> groups]), "plain"),
    FALSE, 0, FALSE>>

Streams ==
  Scenario(<<Restored(<<Node(1, 2), Node(3, 4), Node(5, 5)>>, <<1, 5>>, NoGroups)>>,
           {<<"xadd", X, FALSE, NoTrim, Special>>, <<"xadd", X, FALSE, Trim("maxlen", 3, TRUE, -1), Special>>,
            <<"xadd", X, FALSE, Trim("maxlen", 2, FALSE, -1), Special>>, <<"xadd", Y, TRUE, NoTrim, Special>>,
            <<"xadd", Y, FALSE, Trim("minid", <<2, 0>>, TRUE, -1), <<2, 5>>>>, <<"xadd", X, FALSE, NoTrim, <<1, 2>>>>,
            <<"xtrim", X, Trim("maxlen", 1, TRUE, 2)>>, <<"xtrim", X, Trim("minid", <<1, 4>>, TRUE, -1)>>,
            <<"xtrim", X, Trim("minid", <<1, 4>>, FALSE, -1)>>, <<"xdel", X, <<<<1, 1>>, <<1, 5>>>>>>, <<"xdel", X, <<<<1, 2>>>>>>,
            <<"xdel", X, <<<<1, 3>>, <<1, 4>>>>>>, <<"xsetid", X, <<1, 9>>>>, <<"xsetid", X, <<9, 9>>>>, <<"xlen", X>>,
            <<"xread", <<X>>, <<<<1, 2>>>>, 1, FALSE>>, <<"copy", X, Y, TRUE>>, <<"del", {X}>>},
           2, 1,
           {<<op, X, lo, hi, loex, hiex, n>> : op \in {"xrange", "xrevrange"}, lo \in {MinId, <<1, 2>>}, hi \in {<<1, 4>>, MaxId},
              loex \in BOOLEAN, hiex \in BOOLEAN, n \in {0, 1}})

(* Consumer a of group g has been given the first two entries. *)
Pending == [last |-> <<1, 2>>, pel |-> <<1, 1>> :> <<"a", 3, 1>> @@ <<1, 2>> :> <<"a", 3, 1>>,
            consumers |-> "a" :> {<<1, 1>>, <<1, 2>>}]
Groups ==
  Scenario(<<Restored(<<Node(1, 2), Node(3, 3)>>, <<1, 3>>, "g" :> Pending)>>,
           {<<"xreadgroup", <<X>>, <<id>>, n, FALSE, "g", c, noack>> : id \in {Special, MinId}, n \in {0, 1}, c \in {"a", "b"}, noack \in BOOLEAN}
             \cup {<<"xgroup", X, "create", "h", Special, FALSE>>, <<"xgroup", Y, "create", "g", MinId, TRUE>>,
                   <<"xgroup", X, "setid", "g", MinId, FALSE>>, <<"xgroup", X, "destroy", "g", <<>>, FALSE>>,
                   <<"xgroup", X, "createconsumer", "g", "c", FALSE>>, <<"xgroup", X, "delconsumer", "g", "a", FALSE>>,
                   <<"xack", X, "g", <<<<1, 1>>, <<1, 3>>>>>>, <<"xdel", X, <<<<1, 1>>>>>>, <<"xadd", X, FALSE, NoTrim, Special>>,
                   <<"xclaim", X, "g", "b", 0, <<<<1, 1>>, <<1, 3>>>>, Claim(TRUE, FALSE, -1, -1)>>,
                   <<"xclaim", X, "g", "b", 1, <<<<1, 2>>>>, Claim(FALSE, TRUE, 2, 4)>>,
                   <<"xclaim", X, "g", "b", 0, <<<<2, 2>>>>, [Claim(FALSE, TRUE, 2, 4) EXCEPT !.last = <<1, 4>>]>>,
                   <<"xautoclaim", X, "g", "b", 1, MinId, 1, FALSE>>,
                   <<"xpending", X, "g", 0, MinId, MaxId, 9, <<"a">>>>, <<"xinfo", X, "groups">>, <<"xinfo", X, "consumers", "g">>},
           2, 1,
           {<<"xautoclaim", X, "g", "b", idle, start, n, TRUE>> : idle \in {0, 1}, start \in {MinId, <<1, 2>>}, n \in {1, 2}}
             \cup {<<"xinfo", X, "stream", 0>>})

Hlls ==
  Scenario(<<<<"pfadd", X, <<<<2, 1>>>>>>>>,
           {<<"pfadd", X, <<<<reg, n>>>>>> : reg \in {1, 3}, n \in {1, 2}}
             \cup {<<"pfadd", X, <<<<2, 3>>>>>>, <<"pfadd", Y, <<<<1, 2>>, <<4, 1>>>>>>, <<"pfadd", Y, <<>>>>,
                   <<"pfcount", <<X>>>>, <<"pfcount", <<X, Y>>>>, <<"pfmerge", Y, <<X>>>>, <<"pfmerge", X, <<Y>>>>, <<"pexpire", X, 1>>},
           3, 0, {<<"pfcount", <<X>>>>, <<"pfcount", <<X, Y>>>>})

ByKey == <<"key", (1 :> X) @@ (2 :> Y) @@ (3 :> X1)>>
Sort(by, desc, offset, count, store) ==
  [by |-> by, get |-> <<>>, desc |-> desc, offset |-> offset, count |-> count, store |-> store]

Payload == createDumpPayload(Str(<<51>>), "plain")
Newer(p) == [p EXCEPT ![Len(p)] = RDB_VERSION + 1]

(* Keys of two databases, evicted, moved and flushed *)
Keys ==
  [Scenario(<<<<"set", X, <<49>>, Opts({}, "pxat", 4)>>, <<"rpush", Y, <<3, 1, 2>>>>, <<"set", X1, <<49>>, NoOpt>>>>,
            {<<"rename", X, Y>>, <<"renamenx", X, Y>>, <<"move", X, 1>>, <<"move", X1, 0>>,
             <<"copy", X, X1, TRUE>>, <<"copy", Y, X, TRUE>>, <<"swapdb", 0, 1>>, <<"flushdb", 0>>,
             <<"flushall">>, <<"del", {X, Y}>>, <<"exists", {X, Y}>>, <<"touch", {X}>>, <<"type", X>>, <<"ttl", X>>,
             <<"randomkey", 0, <<X, Y>>>>, <<"scan", 0>>,
             <<"restore", Y, createDumpPayload(List(<<2, 1>>), "compact"), TRUE, 6, TRUE>>,
             <<"restore", X, Payload, FALSE, 0, FALSE>>, <<"restore", X, Payload, TRUE, 2, TRUE>>,
             <<"restore", Y, Newer(Payload), TRUE, 0, FALSE>>, <<"dump", Y, "plain">>,
             <<"sort", Y, Sort(ByKey, FALSE, 0, -1, <<X>>)>>, <<"sort", Y, Sort(<<"nosort">>, TRUE, 1, 1, <<Y>>)>>},
            2, 2, {<<"keys", 0>>, <<"scan", 0>>}
              \cup {<<"sort", Y, Sort(by, desc, o, n, <<>>)>> : by \in {<<"self">>, ByKey}, desc \in BOOLEAN, o \in {0, 1}, n \in {-1, 1}})
   EXCEPT !.evict = TRUE]

(* A value of every type, with and without a time to live, is saved: X is  *)
(* the one that changes.                                                   *)
Saves ==
  [Scenario(<<Restored(<<Node(1, 2), Node(3, 3)>>, <<1, 4>>, "g" :> Pending), <<"hset", Y, <<<<1, 4>>, <<2, Word>>, <<3, 1>>>>>>>>,
            {<<"set", X, <<50>>, Px(1)>>, <<"rpush", X1, <<1, 2, 1>>>>, <<"sadd", X1, {1, 2, 3}>>,
             <<"zadd", X1, {}, <<<<1, 3>>, <<2, 1>>, <<-Inf, 2>>>>>>, <<"pfadd", X1, <<<<2, 1>>, <<3, 2>>>>>>,
             <<"pexpire", Y, 1>>, <<"xdel", X, <<<<1, 1>>, <<1, 2>>, <<1, 3>>>>>>,
             <<"xreadgroup", <<X>>, <<Special>>, 0, FALSE, "g", "b", FALSE>>},
            2, 1, {})
   EXCEPT !.save = "yes"]

MCNodeMax == [role \in {"master", "slave"} |-> IF role = "master" THEN 2 ELSE 3]
MCHllBytes == [role \in {"master", "slave"} |-> IF role = "master" THEN 6 ELSE 4]

MCScenarios ==
  [strings |-> Strings, lcs |-> Lcs, bits |-> Bits, lists |-> Lists, hashes |-> Hashes, sets |-> Sets, zsets |-> Zsets,
   places |-> Places, geos |-> Geos, streams |-> Streams, groups |-> Groups, hlls |-> Hlls, keys |-> Keys,
   saves |-> Saves]
=============================================================================
