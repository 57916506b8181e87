---------------------------- MODULE MCStructures ----------------------------
(***************************************************************************)
(* Small instances of the data structures.  The limits of the headers are  *)
(* three or four entries, so that they are passed; a string of 250 bytes   *)
(* makes an entry of 253, which passes 254 as soon as its first field      *)
(* grows.  The sizes of the supporting code are small in the same way: a   *)
(* string changes its type at 3, 5 and 10 bytes and doubles below four, a  *)
(* byte of compressed output holds three bits, the eviction pool has three *)
(* entries and a series of latencies two.                                  *)
(***************************************************************************)
EXTENDS Structures

LOCAL INSTANCE TLC

Str(name, len) == <<"str", name, len>>
Num(n) == <<"int", n>>

MCINT32 == 268435455
MCLevels == <<4096, 8192, 16384, 32768, 65536>>
MCNoise == {Str("z", 300)}

Zl == [name |-> "ziplist", max |-> 4,
       ops |-> {"push", "insert", "delete", "range", "replace", "merge", "len"},
       vals |-> {Str("e", 250), Str("b", 300), Str("s", 2), Num(1), Num(128)}]

Lp == [name |-> "listpack", max |-> 4,
       ops |-> {"append", "insert", "replace", "delete", "len"},
       vals |-> {Str("b", 130), Num(-4097), Num(127), Num(-1)}]

(* Two entries to a node.  In the second and the third list the nodes but  *)
(* the outer ones are compressed.  There no operation that leaves a node   *)
(* inside the list to be compressed again later (LINDEX, LRANGE, LREM and  *)
(* LINSERT) is mixed with one that can make that node the head or the      *)
(* tail: it would stay compressed there.                                   *)
Ql == [name |-> "quicklist", max |-> 5, fill |-> 2, depth |-> 0,
       ops |-> {"push", "pop", "rotate", "set", "index", "walk", "linsert", "lrem",
                "ltrim", "dup", "append", "mark"},
       vals |-> {Str("a", 60), Str("z", 300)}]
QlEnds == [Ql EXCEPT !.max = 6, !.depth = 1,
             !.ops = {"push", "pop", "rotate", "ltrim", "append", "mark"}]
QlWalks == [Ql EXCEPT !.max = 6, !.depth = 1,
              !.ops = {"push", "set", "index", "walk", "linsert", "dup", "append"},
              !.vals = {Str("a", 60), Str("c", 70)}]

St == [name |-> "set", first |-> Num(1), max |-> 4,
       vals |-> {Num(1), Num(-32769), Num(32767), Num(-268435457), Str("s", 3)}]

Ha == [name |-> "hash", max |-> 3, vals |-> {Str("f", 2), Str("l", 65), Num(128), Num(1)}]

Zs == [name |-> "zset", first |-> Str("a", 1), max |-> 3,
       flags |-> {{}, {"incr"}, {"nx"}, {"xx", "gt"}, {"lt"}},
       vals |-> {Str("a", 1), Str("b", 1), Str("c", 1)}]

Rx == [name |-> "rax", max |-> 4]

(* A part of the command table, with categories as in the source.  The     *)
(* rules are about commands in the first instance, about keys and passwords*)
(* in the second and about channels in the third.                          *)
Cmd(name, flags, subs) == [name |-> name, flags |-> flags, subs |-> subs]
MCCommandTable ==
  <<Cmd("get", {"read", "string", "fast"}, {}), Cmd("set", {"write", "string", "slow"}, {}),
    Cmd("del", {"keyspace", "write", "slow"}, {}),
    Cmd("config", {"admin", "slow", "dangerous"}, {"get", "set"}),
    Cmd("auth", {"connection", "fast", "no_auth"}, {}),
    Cmd("subscribe", {"pubsub", "slow"}, {}), Cmd("psubscribe", {"pubsub", "slow"}, {})>>
MCCategories == <<"keyspace", "read", "write", "string", "pubsub", "admin", "fast", "slow",
                  "dangerous", "connection">>

Line(name, rules) == [name |-> name, rules |-> rules]
Req(cmd, sub, keys, chans) == [cmd |-> cmd, sub |-> sub, keys |-> keys, chans |-> chans]
Glob(c) == <<c, 42>>

AclCommands ==
  [name |-> "acl", ops |-> {}, clients |-> {}, users |-> {"u"}, aclfile |-> FALSE,
   rules |-> {<<r>> : r \in {<<"allcommands">>, <<"nocommands">>, <<"+@", "string">>,
                <<"-@", "string">>, <<"+@", "slow">>, <<"-@", "slow">>, <<"+", "get">>,
                <<"-", "set">>, <<"+|", "config", "get">>, <<"+|", "config", "set">>,
                <<"-", "config">>, <<"+", "config">>}}
             \union {<<<<"nocommands">>, <<"+", "unknown">>>>, <<<<"allcommands">>, <<"+@", "x">>>>},
   file |-> <<>>, deleted |-> {}, passwords |-> {}, keys |-> {}, channels |-> {}, requests |-> {}]

AclFile ==
  [AclCommands EXCEPT !.ops = {"save", "restart"},
     !.rules = {<<r>> : r \in {<<"on">>, <<"off">>, <<"~", Glob(97)>>, <<"allkeys">>,
                                <<">", "p">>, <<"<", "p">>, <<"!", <<"x", "p">>>>}}
               \union {<<<<"resetkeys">>, <<"~", <<97, 32>>>>>>, <<<<"reset">>, <<"+", "get">>>>},
     !.file = <<Line("u", <<<<"on">>, <<"#", <<"hash", "p">>>>, <<"+", "unknown">>>>)>>,
     !.passwords = {"p", "q"}, !.keys = {<<97>>, <<97, 98>>, <<98>>}]

AclLogins ==
  [AclCommands EXCEPT !.ops = {"requirepass"}, !.clients = {"c"}, !.users = {"default", "u"},
     !.rules = {<<<<"on">>, <<"+@", "string">>>>, <<<<"off">>>>, <<<<"nopass">>>>, <<<<"#", <<"hash", "p">>>>>>,
                <<<<"-", "set">>, <<"~", <<98>>>>>>},
     !.passwords = {"p", "q"},
     !.requests = {Req("get", "", <<<<97, 98>>>>, <<>>), Req("set", "", <<<<98>>, <<97>>>>, <<>>),
                   Req("auth", "", <<>>, <<>>)}]

AclSessions ==
  [AclCommands EXCEPT !.ops = {"deluser", "load", "subscribe"}, !.clients = {"c", "d"},
     !.aclfile = TRUE, !.deleted = {<<"u">>, <<"u", "default">>},
     !.rules = {<<<<"&", Glob(97)>>>>, <<<<"resetchannels">>, <<"&", <<97>>>>>>, <<<<"allchannels">>>>,
                <<<<"on">>, <<"nopass">>, <<"+", "subscribe">>>>},
     !.file = <<Line("u", <<<<"on">>, <<"nopass">>, <<"+@", "pubsub">>, <<"&", Glob(97)>>>>),
                Line("default", <<<<"on">>, <<"nopass">>, <<"+@", "pubsub">>>>)>>,
     !.passwords = {"p"}, !.channels = {<<97>>, <<97, 98>>, Glob(97)},
     !.requests = {Req("subscribe", "", <<>>, <<<<97, 98>>>>),
                   Req("psubscribe", "", <<>>, <<Glob(97)>>)}]

(* A string is of type 5 below three bytes and of type 8 below five, and   *)
(* doubles below four.                                                     *)
Sd == [name |-> "sds", max |-> 5, slacks |-> {0, 2},
       vals |-> {<<97>>, <<0, 92>>, <<97, 34, 97>>}, sets |-> {{97}, {34, 92}},
       ranges |-> {<<0, 1>>, <<1, -2>>, <<-3, -1>>, <<-6, 2>>, <<2, 1>>, <<1, 9>>, <<5, 5>>, <<0, -9>>},
       formats |-> {<<<<<<"c", 97>>, <<"i", -12>>>>, <<97, 45, 49, 50>>>>,
                    <<<<<<"s", <<97, 97>>>>, <<"c", 34>>>>, <<97, 97, 34>>>>}]
MCSdsLimits == <<3, 5, 10, 100>>

Li == [name |-> "list", max |-> 4, vals |-> {"a", "b"}]

Zm == [name |-> "zipmap", keys |-> {<<1, "k">>, <<2, "l">>, <<3, "m">>},
       vals |-> {<<1, "t">>, <<2, "u">>, <<3, "v">>, <<6, "w">>}]
ZmMany == [Zm EXCEPT !.keys = {<<n, "k">> : n \in 1..4}, !.vals = {<<1, "t">>}]

(* A byte is below eight; a run has two literals. *)
Repeat(q, n) == [i \in 1..n * Len(q) |-> q[((i - 1) % Len(q)) + 1]]
Lz == [name |-> "lzf", sizes |-> {-4, 0, 2},
       vals |-> [1..6 -> {0, 1}] \union {Repeat(<<0>>, n) : n \in {9, 13, 17}}
                \union {Repeat(<<0, 1, 1>>, 5) \o <<2>>, <<2, 0, 1, 1, 2, 2, 0, 1, 1, 2, 2>>}]

Token(bytes, set, not) == [star |-> FALSE, bytes |-> bytes, set |-> set, not |-> not]
Gl == [name |-> "glob", max |-> 3,
       vals |-> {[star |-> TRUE, bytes |-> <<42>>, set |-> {}, not |-> FALSE],
                 Token(<<63>>, 0..255, FALSE), Token(<<97>>, {97}, FALSE),
                 Token(<<92, 42>>, {42}, FALSE), Token(<<91, 97, 92, 93, 93>>, {97, 93}, FALSE),
                 Token(<<91, 94, 98, 93>>, {98}, TRUE), Token(<<91, 99, 45, 97, 93>>, 97..99, FALSE)},
       strings |-> UNION {[1..n -> {97, 66, 42}] : n \in 0..3}]

Pq == [name |-> "pqsort", max |-> 6, vals |-> {1, 2, 3}]

Al == [name |-> "acllog", max |-> 5, vals |-> {"a", "b", "c"}, times |-> {0, 1, 3}]

(* Two keys fit in the memory of an entry, the third does not; the clock   *)
(* has started again after an age above 2.                                 *)
EpKeys == {<<0, <<1, "a">>>>, <<1, <<1, "a">>>>, <<0, <<9, "l">>>>}
EpSamples(objects) ==
  LET Of(k) == {[dbid |-> k[1], key |-> k[2]] @@ o : o \in objects}
      one == UNION {{<<x>> : x \in Of(k)} : k \in EpKeys}
  IN  one \union {p[1] \o p[2] : p \in {r \in one \X one :
                     r[1][1].dbid = 0 /\ <<r[1][1].dbid, r[1][1].key>> # <<r[2][1].dbid, r[2][1].key>>}}
Ep == [name |-> "evpool", keys |-> EpKeys, now |-> 2, policy |-> [name |-> "lru"],
       samples |-> EpSamples({[age |-> n] : n \in {0, 3, 4}})]
EpFreq == [Ep EXCEPT !.policy = [name |-> "lfu", decay_time |-> 2],
                     !.samples = EpSamples({[age |-> 3, counter |-> 0], [age |-> 4, counter |-> 3]})]
EpTtl == [Ep EXCEPT !.policy = [name |-> "ttl", ULLONG_MAX |-> 100],
                    !.samples = EpSamples({[expire |-> n] : n \in {0, 5}})]

La == [name |-> "latency", events |-> {"command", "fork"}, vals |-> {1, 4}, times |-> 1..3]

MCKinds == {Zl, Lp, Ql, QlEnds, QlWalks, St, Ha, Zs, Rx, AclCommands, AclFile, AclLogins, AclSessions, Al, Sd,
            Li, Zm, ZmMany, Lz, Gl, Pq, Ep, EpFreq, EpTtl, La}

MCOrder == <<Str("a", 1), Str("b", 1), Str("c", 1)>>
MCScores == {0, 1, 2}
Rg(min, max, minex, maxex) == [min |-> min, max |-> max, minex |-> minex, maxex |-> maxex]
MCRanges == {Rg(0, 1, FALSE, FALSE), Rg(0, 2, TRUE, TRUE), Rg(1, 2, FALSE, TRUE)}
MCLexRanges == {Rg(LexMin, Str("b", 1), FALSE, TRUE), Rg(Str("b", 1), LexMax, FALSE, FALSE),
                Rg(Str("a", 1), Str("b", 1), TRUE, FALSE)}
MCRaxKeys == {<<>>, <<1>>, <<1, 2, 3>>, <<1, 2, 2, 1>>, <<1, 2, 3, 4>>, <<2>>}
=============================================================================
