----------------------------- MODULE MCClients -----------------------------
(***************************************************************************)
(* Plays for three clients.                                                *)
(***************************************************************************)
EXTENDS Clients

LOCAL INSTANCE SequencesExt

X == <<0, "x">>
Y == <<0, "y">>
X1 == <<1, "x">>

Put1(k, v) == <<"set", k, <<v>>, NoOpt>>
Px(k, n) == <<"set", k, <<49>>, [fl |-> {}, unit |-> "px", ttl |-> n]>>
Push(k, l) == <<"rpush", k, l>>
Bpop(ks) == <<"blpop", ks>>

(* The programs of a, b and c; the versions of RESP and the timeouts of    *)
(* their blocking commands                                                 *)
Play(setup, a, b, c, ticks, faults) ==
  [setup |-> setup, prog |-> [a |-> a, b |-> b, c |-> c], resp |-> [a |-> 3, b |-> 3, c |-> 2],
   wait |-> [a |-> 1, b |-> 0, c |-> 1], ticks |-> ticks, faults |-> faults, acks |-> FALSE, victims |-> {"x"}]

Transactions ==
  Play(<<Px(X, 1), Put1(Y, 50)>>,
       <<{<<"watch", {X, Y}>>}, {<<"multi">>, <<"unwatch">>}, {Put1(Y, 51), Push(X, <<1>>), <<"nosuch">>},
         {Bpop(<<X>>), <<"watch", {Y}>>, <<"discard">>}, {<<"exec">>}>>,
       <<{Put1(X, 52), <<"get", X>>, <<"rename", Y, X>>, <<"flushall">>, <<"swapdb", 0, 1>>, <<"exec">>,
          <<"eval", "wr">>, <<"persist", X>>}>>,
       <<>>, 2, {<<"evict">>})

Lists ==
  Play(<<>>,
       <<{Bpop(<<X, Y>>), <<"brpop", <<X>>>>}>>,
       <<{<<"blmove", X, Y, "left", "right">>, <<"brpoplpush", X, X>>}>>,
       <<{Push(X, <<1>>), Push(X, <<1, 2>>), <<"eval", "push">>, <<"multi">>, Put1(Y, 49)},
         {Push(X, <<3>>), <<"client", "unblock", "a", TRUE>>, <<"client", "unblock", "b", FALSE>>,
          <<"client", "kill", "b">>, <<"client", "kill", "c">>, <<"quit">>},
         {<<"exec">>, Push(X, <<4>>)}>>,
       0, {<<"close", "a">>, <<"demote">>})

(* The push of one client's BLMOVE is what the other one waits for. *)
Chain ==
  Play(<<>>,
       <<{<<"blmove", X, Y, "left", "left">>}>>, <<{Bpop(<<Y>>), <<"blmove", Y, X, "left", "left">>}>>,
       <<{Push(X, <<1>>), <<"zadd", X, {}, <<<<1, 1>>>>>>}, {Push(Y, <<2, 3>>), Push(X, <<2>>), <<"del", {X}>>},
         {Push(X, <<4>>), Bpop(<<Y>>)}>>,
       0, {<<"close", "b">>})

(* Sorted sets and streams, on keys that others want to be lists *)
Zadd(k, l) == <<"zadd", k, {}, l>>
Read(id) == <<"xread", <<X, Y>>, <<<<0, 0>>, id>>, 0, TRUE>>
Xadd(k, id) == <<"xadd", k, FALSE, <<"none">>, id>>
Group(c) == <<"xreadgroup", <<X>>, <<Special>>, 1, TRUE, "g", c, FALSE>>
Zsets ==
  Play(<<>>,
       <<{<<"bzpopmin", <<X, Y>>>>}>>, <<{<<"bzpopmax", <<X>>>>, Bpop(<<X>>)}>>,
       <<{Zadd(X, <<<<1, 1>>>>), Zadd(X, <<<<1, 1>>, <<2, 2>>>>), Push(X, <<1>>), <<"bzpopmin", <<X>>>>},
         {Zadd(X, <<<<3, 3>>>>), Zadd(Y, <<<<1, 1>>>>), <<"del", {X}>>}, {Zadd(X, <<<<4, 4>>>>), <<"rename", Y, X>>}>>,
       0, {<<"close", "a">>})
Streams ==
  Play(<<<<"xgroup", X, "create", "g", <<0, 0>>, TRUE>>>>,
       <<{Read(<<0, 1>>), Group("m")}>>, <<{Group("m"), Group("n"), Read(<<0, 2>>)}>>,
       <<{Xadd(X, <<0, 1>>), Xadd(Y, <<0, 1>>), <<"xgroup", X, "destroy", "g", <<>>, FALSE>>, <<"multi">>},
         {Xadd(X, <<0, 2>>), Xadd(Y, <<0, 3>>), <<"del", {X}>>}, {Xadd(X, <<0, 4>>), <<"exec">>}>>,
       0, {})

(* CLIENT PAUSE of writes (1) or of everything (2), with a key about to    *)
(* expire or to be evicted and a client that waits for replicas            *)
Pause(n, type) == <<"client", "pause", n, type>>
Pauses ==
  Play(<<Px(X, 1)>>,
       <<{Pause(1, 1), Pause(2, 2)}, {<<"client", "unpause">>, <<"get", X>>}>>,
       <<{<<"multi">>, <<"eval", "wr">>}, {Put1(Y, 51), <<"exec">>}>>,
       <<{<<"wait", 1>>, Bpop(<<X>>)}>>, 0, {<<"evict">>})

Demoted ==
  Play(<<>>, <<{Pause(1, 1)}>>, <<{Bpop(<<X>>), Put1(Y, 49)}, {<<"get", Y>>}>>,
       <<{<<"wait", 1>>, <<"multi">>}, {Push(Y, <<1>>), <<"wait", 1>>}, {<<"exec">>}>>, 0, {<<"demote">>})

Waits ==
  [Play(<<>>,
        <<{Put1(X, 49)}, {<<"wait", 1>>, <<"wait", 2>>}>>,
        <<{Put1(X, 50), <<"multi">>}, {<<"wait", 1>>}, {<<"exec">>}>>,
        <<>>, 0, {<<"lost">>}) EXCEPT !.acks = TRUE]

Track(o, to, ps) == <<"client", "tracking", TRUE, o, to, ps>>
Tracking ==
  [Play(<<Put1(X, 49), Put1(Y, 49)>>,
        <<{Track({}, Nobody, <<>>), Track({"noloop"}, Nobody, <<>>), Track({"optin"}, "b", <<>>), Track({"optout"}, Nobody, <<>>),
           Track({"bcast"}, Nobody, <<{"x"}>>), Track({"bcast", "noloop"}, Nobody, <<{"x"}, {"y"}>>)},
          {<<"get", X>>, <<"client", "caching", TRUE>>, <<"client", "caching", FALSE>>},
          {<<"mget", <<X, Y>>>>, Put1(X, 50), <<"eval", "read">>}, {<<"client", "tracking", FALSE, {}, Nobody, <<>>>>, <<"reset">>}>>,
        <<{Put1(X, 51), <<"del", {Y}>>, <<"flushdb", 0>>, <<"swapdb", 0, 1>>}, {Put1(X, 52)}>>,
        <<>>, 0, {<<"close", "b">>}) EXCEPT !.victims = Names]

Channel ==
  Play(<<>>,
       <<{<<"subscribe", {"h"}>>, <<"psubscribe", {"h", "i"}>>, Track({}, "c", <<>>)}, {<<"unsubscribe", {"h"}>>, <<"get", X>>, <<"multi">>},
         {<<"punsubscribe", {"h", "i"}>>, <<"reset">>, <<"subscribe", {"i"}>>}, {<<"exec">>, <<"hello", 2>>, <<"quit">>}>>,
       <<{<<"publish", "h">>, <<"psubscribe", {"h"}>>, Put1(X, 49)}>>,
       <<{<<"subscribe", {"h", "i"}>>}, {<<"get", X>>, <<"unsubscribe", {"h", "i"}>>, <<"reset">>}>>,
       0, {<<"close", "a">>})

Scripted ==
  Play(<<Put1(X, 49), <<"sadd", Y, {1, 2}>>>>,
       <<{<<"eval", "wr">>, <<"script", "load", "wr">>, <<"eval", "draw">>, <<"eval", "push">>},
         {<<"evalsha", "wr">>, <<"evalsha", "read">>, <<"multi">>}, {<<"evalsha", "wr">>, <<"eval", "wr">>, <<"evalsha", "drawe">>}, {<<"exec">>}>>,
       <<{<<"script", "flush", "">>, <<"script", "load", "drawe">>, Put1(X, 50)}, {<<"evalsha", "read">>, <<"eval", "drawe">>}>>,
       <<>>, 0, {<<"fullsync">>, <<"rewrite">>})

MCNodeMax == [role \in {"master", "slave"} |-> 2]
MCHllBytes == [role \in {"master", "slave"} |-> 6]

MCScripts ==
  [wr    |-> [keys |-> {X}, cmds |-> <<<<"get", X>>, Put1(X, 53)>>, effects |-> FALSE],
   push  |-> [keys |-> {X, Y}, cmds |-> <<Push(X, <<7>>), Push(Y, <<8>>)>>, effects |-> TRUE],
   read  |-> [keys |-> {X}, cmds |-> <<<<"get", X>>>>, effects |-> FALSE],
   draw  |-> [keys |-> {Y}, cmds |-> <<<<"srandmember", Y, 1, <<1, 2, 3>>>>, <<"sadd", Y, {3}>>>>, effects |-> FALSE],
   drawe |-> [keys |-> {Y}, cmds |-> <<<<"spop", Y, <<2, 1, 3>>>>, <<"sadd", Y, {3}>>>>, effects |-> TRUE]]

MCPlays == [transactions |-> Transactions, lists |-> Lists, chain |-> Chain, zsets |-> Zsets, streams |-> Streams,
            pauses |-> Pauses, demoted |-> Demoted, waits |-> Waits, tracking |-> Tracking, channel |-> Channel, scripted |-> Scripted]
=============================================================================
