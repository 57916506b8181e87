------------------------------ MODULE TStream -------------------------------
(***************************************************************************)
(* The stream commands and the consumer groups (t_stream.c).               *)
(*                                                                         *)
(* A stream is a sequence of nodes, each one a listpack of the radix tree; *)
(* a node is a sequence of entries <<ID, live>>, an entry that is not live *)
(* being a tombstone.  The fields of an entry are left out: they never     *)
(* change and are read together with its ID.  An ID is <<ms, seq>>.        *)
(* The node structure matters because approximate trimming removes whole   *)
(* nodes only, and how many entries a node holds is a configuration        *)
(* parameter that a replica may have different from its master.            *)
(***************************************************************************)
EXTENDS Keyspace

LOCAL INSTANCE SequencesExt
LOCAL INSTANCE FiniteSetsExt
LOCAL INSTANCE Functions

CONSTANTS
  IdMax,          \* UINT64_MAX, the greatest time or sequence of an ID
  NodeMaxEntries  \* stream-node-max-entries, by the role of the server

MinId == <<0, 0>>
MaxId == <<IdMax, IdMax>>
Special == <<>>  \* the IDs *, $ and > of the commands that accept them

NoGroups == [g \in {} |-> 0]
streamNew == [nodes |-> <<>>, last |-> MinId, groups |-> NoGroups]
Stream(st) == <<"stream", st>>

-----------------------------------------------------------------------------
(* Stream IDs *)

streamCompareID(a, b) ==
  CASE a[1] > b[1] -> 1 [] a[1] < b[1] -> -1
    [] a[1] = b[1] /\ a[2] > b[2] -> 1 [] a[1] = b[1] /\ a[2] < b[2] -> -1
    [] a = b -> 0

Smaller(a, b) == streamCompareID(a, b) < 0

streamIncrID(id) ==
  CASE id[2] < IdMax -> <<id[1], id[2] + 1>>
    [] id[2] = IdMax /\ id[1] < IdMax -> <<id[1] + 1, 0>>
    [] id = MaxId -> MinId

streamDecrID(id) ==
  CASE id[2] > 0 -> <<id[1], id[2] - 1>>
    [] id[2] = 0 /\ id[1] > 0 -> <<id[1] - 1, IdMax>>
    [] id = MinId -> MaxId

streamNextID(last, now) == IF now > last[1] THEN <<now, 0>> ELSE streamIncrID(last)

-----------------------------------------------------------------------------
(* The entries *)

LiveCount(node) == Len(SelectSeq(node, LAMBDA e : e[2]))

streamLength(st) == FoldLeft(LAMBDA n, node : n + LiveCount(node), 0, st.nodes)

(* The entries start..end, found from the node the radix tree seeks to. *)
streamIterator(st, start, end, rev) ==
  LET seek(id) == {i \in 1..Len(st.nodes) : ~Smaller(id, st.nodes[i][1][1])}
      at == IF rev THEN IF end = MinId \/ seek(end) = {} THEN Len(st.nodes) ELSE Max(seek(end))
            ELSE IF start = MinId \/ seek(start) = {} THEN 1 ELSE Max(seek(start))
      nodes == IF rev THEN SubSeq(st.nodes, 1, at) ELSE SubSeq(st.nodes, at, Len(st.nodes))
      within == SelectSeq(FlattenSeq(nodes),
                          LAMBDA e : e[2] /\ ~Smaller(e[1], start) /\ ~Smaller(end, e[1]))
      ids == [i \in 1..Len(within) |-> within[i][1]]
  IN IF rev THEN Reverse(ids) ELSE ids

Entries(st) == streamIterator(st, MinId, MaxId, FALSE)

streamLastValidID(st) == Head(streamIterator(st, MinId, MaxId, TRUE))

(* The first ID of the first node, whether or not its entry was deleted *)
streamGetEdgeID(st) == IF st.nodes = <<>> THEN MaxId ELSE st.nodes[1][1][1]

(* The stream with one more entry; the tail node counts its tombstones. *)
streamAppendItem(st, id, nodemax) ==
  LET n == Len(st.nodes)
      full == n = 0 \/ Len(st.nodes[n]) >= nodemax
  IN [st EXCEPT !.last = id,
                !.nodes = IF full THEN Append(@, << <<id, TRUE>> >>)
                          ELSE [@ EXCEPT ![n] = Append(@, <<id, TRUE>>)]]

(* A node is removed with its last live entry. *)
streamDeleteItem(st, id) ==
  LET mark(node) == [i \in 1..Len(node) |-> IF node[i][1] = id THEN <<id, FALSE>> ELSE node[i]]
      marked == [i \in 1..Len(st.nodes) |-> mark(st.nodes[i])]
      dead(i) == LiveCount(marked[i]) = 0 /\ LiveCount(st.nodes[i]) > 0
      kept == SelectSeq([i \in 1..Len(marked) |-> <<dead(i), marked[i]>>], LAMBDA p : ~p[1])
  IN [st EXCEPT !.nodes = [i \in 1..Len(kept) |-> kept[i][2]]]

(* Trim from the head: whole nodes first and, unless the trimming is       *)
(* approximate, the head of the first node that has to stay.               *)
(* trim is <<"none">> or <<strategy, argument, approximate, limit>>.       *)
streamTrim(st, trim, limit) ==
  LET maxlen == trim[1] = "maxlen"
      cut(node, len) ==
        [i \in 1..Len(node) |->
           <<node[i][1],
             node[i][2] /\ IF maxlen THEN LiveCount(SubSeq(node, 1, i)) > len - trim[2]
                           ELSE ~Smaller(node[i][1], trim[2])>>]
      stay(acc, node) == [acc EXCEPT !.nodes = Append(@, node), !.stop = TRUE]
      step(acc, node) ==
        LET n == LiveCount(node)
            whole == IF maxlen THEN acc.len - n >= trim[2] ELSE Smaller(Last(node)[1], trim[2])
        IN CASE \/ acc.stop
                \/ maxlen /\ acc.len <= trim[2]
                \/ limit # 0 /\ acc.deleted + n > limit -> stay(acc, node)
             [] OTHER ->
                  IF whole THEN [acc EXCEPT !.len = @ - n, !.deleted = @ + n]
                  ELSE IF trim[3] THEN stay(acc, node)
                  ELSE LET m == cut(node, acc.len)
                       IN [stay(acc, m) EXCEPT !.deleted = @ + n - LiveCount(m)]
      res == FoldLeft(step, [nodes |-> <<>>, len |-> streamLength(st), deleted |-> 0,
                             stop |-> FALSE], st.nodes)
  IN IF trim[1] = "none" THEN st ELSE [st EXCEPT !.nodes = res.nodes]

Default == -1  \* LIMIT is not given

(* A limit needs ~, and what the master or the file sends has none. *)
TrimSyntaxError(s, trim) ==
  /\ trim[1] # "none" /\ trim[4] # Default /\ ~trim[3]
  /\ s.caller \notin {"master", "aof"}

TrimLimit(s, trim) ==
  IF trim[1] = "none" \/ s.caller \in {"master", "aof"} \/ ~trim[3] THEN 0
  ELSE IF trim[4] = Default THEN 100 * NodeMaxEntries[s.role] ELSE trim[4]

\* Mutant: an approximate trim is propagated as it came.
RewriteTrimNothing(st, trim) == trim

(* An approximate trim is propagated as the exact one with its outcome. *)
streamRewriteTrimArgument(st, trim) ==
  IF trim[1] = "none" \/ ~trim[3] THEN trim
  ELSE <<trim[1], IF trim[1] = "maxlen" THEN streamLength(st) ELSE streamGetEdgeID(st),
         FALSE, trim[4]>>

-----------------------------------------------------------------------------
(* Commands on the entries *)

(* <<"xadd", k, nomkstream, trim, id>> *)
xaddCommand(s, a) ==
  LET k == a[2]
      add(t, st) ==
        LET id == IF a[5] = Special THEN streamNextID(st.last, t.now) ELSE a[5]
            added == streamAppendItem(st, id, NodeMaxEntries[t.role])
            new == streamTrim(added, a[4], TrimLimit(t, a[4]))
            w == Modified(Put(t, k, Stream(new)), k, 1)
            argv == <<"xadd", k, a[3], streamRewriteTrimArgument(new, a[4]), id>>
        IN IF a[3] /\ lookupKey(t, k) = None THEN Reply(t, <<"nil">>)
           ELSE IF st.last = MaxId \/ ~Smaller(st.last, id) THEN Fail(t)
           ELSE signalKeyAsReady(Reply(rewriteClientCommandVector(w, argv), <<"id", id>>), k)
  IN IF TrimSyntaxError(s, a[4]) \/ a[5] = MinId THEN Fail(s)
     ELSE OnWrite(s, k, "stream", streamNew, add)

(* <<"xtrim", k, trim>> *)
xtrimCommand(s, a) ==
  LET k == a[2]
      do(t, st) ==
        LET new == streamTrim(st, a[3], TrimLimit(t, a[3]))
            n == streamLength(st) - streamLength(new)
            w == Put(t, k, Stream(new))
        IN IF lookupKey(t, k) = None THEN Reply(t, <<"int", 0>>)
           ELSE IF n = 0 THEN Reply(w, <<"int", 0>>)
           ELSE Reply(Modified(rewriteClientCommandVector(
                        w, <<"xtrim", k, streamRewriteTrimArgument(new, a[3])>>), k, n),
                      <<"int", n>>)
  IN IF TrimSyntaxError(s, a[3]) THEN Fail(s) ELSE OnWrite(s, k, "stream", streamNew, do)

(* <<"xdel", k, ids>> *)
xdelCommand(s, a) ==
  LET k == a[2]
      del(t, st) ==
        LET new == FoldLeft(streamDeleteItem, st, a[3])
            n == streamLength(st) - streamLength(new)
        IN IF n = 0 THEN Reply(t, <<"int", 0>>)
           ELSE Reply(Modified(Put(t, k, Stream(new)), k, n), <<"int", n>>)
  IN OnWrite(s, k, "stream", streamNew, del)

(* <<"xsetid", k, id>> *)
xsetidCommand(s, a) ==
  LET k == a[2]
      set(t, st) ==
        IF \/ lookupKey(t, k) = None
           \/ streamLength(st) > 0 /\ Smaller(a[3], streamLastValidID(st)) THEN Fail(t)
        ELSE Reply(Dirty(Put(t, k, Stream([st EXCEPT !.last = a[3]])), 1), <<"ok">>)
  IN OnWrite(s, k, "stream", streamNew, set)

Truncate(q, count) == IF count = 0 \/ count >= Len(q) THEN q ELSE SubSeq(q, 1, count)

(* <<"xrange", k, start, end, start excluded, end excluded, count>>; the   *)
(* count is 0 when it is not given.  xrevrange takes the same arguments.   *)
xrangeGenericCommand(s, a, rev) ==
  LET start == IF a[5] THEN streamIncrID(a[3]) ELSE a[3]
      end == IF a[6] THEN streamDecrID(a[4]) ELSE a[4]
  IN IF (a[5] /\ a[3] = MaxId) \/ (a[6] /\ a[4] = MinId) THEN Fail(s)
     ELSE OnRead(s, a[2], "stream", streamNew, LAMBDA t, st :
            Reply(t, <<"ids", Truncate(streamIterator(st, start, end, rev), a[7])>>))

xlenCommand(s, a) ==
  OnRead(s, a[2], "stream", streamNew, LAMBDA t, st : Reply(t, <<"int", streamLength(st)>>))

-----------------------------------------------------------------------------
(* Consumer groups.  A group is its last delivered ID, its pending entries *)
(* list (ID -> <<consumer, delivery time, delivery count>>) and its        *)
(* consumers, each one with the pending entries list of its own.           *)

streamCreateCG(id) == [last |-> id, pel |-> [i \in {} |-> 0], consumers |-> [c \in {} |-> {}]]

HasGroup(st, g) == g \in DOMAIN st.groups

SetGroup(st, g, cg) == [st EXCEPT !.groups = (g :> cg) @@ @]

streamLookupConsumer(cg, c) ==
  IF c \in DOMAIN cg.consumers THEN cg ELSE [cg EXCEPT !.consumers = (c :> {}) @@ @]

streamDelConsumer(cg, c) ==
  IF c \notin DOMAIN cg.consumers THEN cg
  ELSE [cg EXCEPT !.pel = Restrict(@, DOMAIN @ \ cg.consumers[c]),
                  !.consumers = Restrict(@, DOMAIN @ \ {c})]

(* Give the pending entry to a consumer: it leaves the list of its owner. *)
AssignNACK(cg, id, c, time, count) ==
  LET left == IF id \in DOMAIN cg.pel
              THEN [cg EXCEPT !.consumers[cg.pel[id][1]] = @ \ {id}] ELSE cg
  IN [left EXCEPT !.pel = (id :> <<c, time, count>>) @@ @, !.consumers[c] = @ \cup {id}]

(* A command of its own carries every change of a pending entry to the     *)
(* replicas and to the file, in a form that can be applied twice.          *)
streamPropagateXCLAIM(s, k, g, cg, id) ==
  propagate(s, <<"xclaim", k, g, cg.pel[id][1], 0, <<id>>,
                 [force |-> TRUE, justid |-> TRUE, time |-> cg.pel[id][2],
                  retry |-> cg.pel[id][3], last |-> cg.last]>>, Targets)

streamPropagateGroupID(s, k, g, cg) ==
  propagate(s, <<"xgroup", k, "setid", g, cg.last>>, Targets)

streamPropagateConsumerCreation(s, k, g, c) ==
  propagate(s, <<"xgroup", k, "createconsumer", g, c>>, Targets)

(* The IDs of a set from start on, in order *)
PendingFrom(ids, start) == Sorted({i \in ids : ~Smaller(i, start)}, Smaller)

(* streamReplyWithRange for a group: deliver the entries from start on,    *)
(* with an entry in the pending lists unless noack.                        *)
DeliverNew(s, k, g, c, start, count, noack) ==
  LET st == Val(s.db[k])
      ids == Truncate(streamIterator(st, start, MaxId, FALSE), count)
      deliver(acc, id) ==
        LET cg == acc[2]
            seen == [cg EXCEPT !.last = IF Smaller(@, id) THEN id ELSE @]
            new == AssignNACK(seen, id, c, acc[1].now, 1)
        IN IF noack THEN <<acc[1], seen>>
           ELSE <<streamPropagateXCLAIM(acc[1], k, g, new, id), new>>
      res == FoldLeft(deliver, <<s, st.groups[g]>>, ids)
      t == IF noack /\ res[2].last # st.groups[g].last
           THEN streamPropagateGroupID(res[1], k, g, res[2]) ELSE res[1]
  IN <<Put(t, k, Stream(SetGroup(st, g, res[2]))), ids>>

(* streamReplyWithRangeFromConsumerPEL: the history of the consumer.  An   *)
(* entry deleted meanwhile is reported without its fields; the others      *)
(* count one more delivery.                                                *)
DeliverHistory(s, k, g, c, start, count) ==
  LET st == Val(s.db[k])
      ids == Truncate(PendingFrom(st.groups[g].consumers[c], start), count)
      again(cg, id) ==
        IF id \notin ToSet(Entries(st)) THEN cg
        ELSE [cg EXCEPT !.pel[id] = <<c, s.now, @[3] + 1>>]
  IN <<Put(s, k, Stream(SetGroup(st, g, FoldLeft(again, st.groups[g], ids)))), ids>>

(* Serve one stream of XREADGROUP: gt is > or the ID the history starts    *)
(* after.                                                                  *)
ReadGroup(s, k, g, c, gt, count, noack) ==
  LET st == Val(s.db[k])
      cg == streamLookupConsumer(st.groups[g], c)
      t == Put(s, k, Stream(SetGroup(st, g, cg)))
      u == IF noack /\ c \notin DOMAIN st.groups[g].consumers
           THEN streamPropagateConsumerCreation(t, k, g, c) ELSE t
  IN IF gt = Special THEN DeliverNew(u, k, g, c, streamIncrID(cg.last), count, noack)
     ELSE DeliverHistory(u, k, g, c, streamIncrID(gt), count)

(* <<"xread", keys, ids, count, block>> and                                *)
(* <<"xreadgroup", keys, ids, count, block, group, consumer, noack>>       *)
xreadCommand(s, a) ==
  LET keys == a[2]
      grp == a[1] = "xreadgroup"
      t0 == FoldLeft(expireIfNeeded, s, keys)
      obj(i) == lookupKeyRead(t0, keys[i])
      n == 1..Len(keys)
      gt(i) == IF a[3][i] # Special \/ grp THEN a[3][i]
               ELSE IF obj(i) = None THEN MinId ELSE Val(obj(i)).last
      top(i) == IF streamLength(Val(obj(i))) = 0 THEN MinId ELSE streamLastValidID(Val(obj(i)))
      ready(i) ==
        /\ obj(i) # None
        /\ IF grp THEN a[3][i] # Special \/ Smaller(Val(obj(i)).groups[a[6]].last, top(i))
           ELSE Smaller(gt(i), top(i))
      serve(acc, i) ==
        IF ~ready(i) THEN acc
        ELSE IF grp
        THEN LET r == ReadGroup(acc[1], keys[i], a[6], a[7], gt(i), a[4], a[8])
             IN <<Dirty(r[1], 1), Append(acc[2], <<keys[i], r[2]>>)>>
        ELSE <<acc[1], Append(acc[2], <<keys[i],
                 Truncate(streamIterator(Val(obj(i)), streamIncrID(gt(i)), MaxId, FALSE), a[4])>>)>>
      res == FoldLeft(serve, <<t0, <<>>>>, [i \in n |-> i])
      reply == IF res[2] # <<>> THEN <<"streams", res[2]>>
               ELSE IF a[5] /\ "denyblocking" \notin s.flags THEN <<"block", a[1], keys, [i \in n |-> gt(i)]>> ELSE <<"nil">>
  IN IF \E i \in n : obj(i) # None /\ Type(obj(i)) # "stream"
     THEN preventCommandPropagation(WrongType(t0))
     ELSE IF grp /\ \E i \in n : obj(i) = None \/ ~HasGroup(Val(obj(i)), a[6])
     THEN preventCommandPropagation(Fail(t0))
     ELSE preventCommandPropagation(Reply(res[1], reply))

(* <<"xgroup", k, subcommand, group, argument, mkstream>> *)
xgroupCommand(s, a) ==
  LET k == a[2]
      g == a[4]
      save(t, st, n, r) == Reply(Dirty(Put(t, k, Stream(st)), n), r)
      create(t, st) ==
        LET id == IF a[5] = Special THEN st.last ELSE a[5]
            missing == lookupKey(t, k) = None
            u == IF missing THEN signalModifiedKey(t, k) ELSE t
        IN IF (missing /\ ~a[6]) \/ HasGroup(st, g) THEN Fail(t)
           ELSE save(u, SetGroup(st, g, streamCreateCG(id)), 1, <<"ok">>)
      within(t, st) ==
        LET cg == st.groups[g]
            new == streamLookupConsumer(cg, a[5])
        IN CASE a[3] = "setid" ->
                  save(t, SetGroup(st, g, [cg EXCEPT !.last = IF a[5] = Special THEN st.last
                                                               ELSE a[5]]), 1, <<"ok">>)
             [] a[3] = "destroy" ->
                  signalKeyAsReady(save(t, [st EXCEPT !.groups = Restrict(@, DOMAIN @ \ {g})],
                                        1, <<"int", 1>>), k)
             [] a[3] = "createconsumer" ->
                  IF new = cg THEN Reply(t, <<"int", 0>>)
                  ELSE save(t, SetGroup(st, g, new), 1, <<"int", 1>>)
             [] a[3] = "delconsumer" ->
                  save(t, SetGroup(st, g, streamDelConsumer(cg, a[5])), 1, <<"int">>)
      do(t, st) ==
        IF a[3] = "create" THEN create(t, st)
        ELSE IF lookupKey(t, k) = None THEN Fail(t)
        ELSE IF ~HasGroup(st, g)
        THEN IF a[3] = "destroy" THEN Reply(t, <<"int", 0>>) ELSE Fail(t)
        ELSE within(t, st)
  IN OnWrite(s, k, "stream", streamNew, do)

(* <<"xack", k, group, ids>> *)
xackCommand(s, a) ==
  LET k == a[2]
      one(cg, id) ==
        IF id \notin DOMAIN cg.pel THEN cg
        ELSE [cg EXCEPT !.consumers[cg.pel[id][1]] = @ \ {id},
                        !.pel = Restrict(@, DOMAIN @ \ {id})]
      ack(t, st) ==
        IF ~HasGroup(st, a[3]) THEN Reply(t, <<"int", 0>>)
        ELSE LET cg == FoldLeft(one, st.groups[a[3]], a[4])
                 n == Cardinality(DOMAIN st.groups[a[3]].pel) - Cardinality(DOMAIN cg.pel)
             IN Reply(Dirty(Put(t, k, Stream(SetGroup(st, a[3], cg))), n), <<"int", n>>)
  IN OnRead(s, k, "stream", streamNew, ack)

(* Claim one entry for consumer c.  acc is <<server, group, claimed IDs>>. *)
ClaimOne(acc, k, g, c, id, time, retry, justid) ==
  LET cg == streamLookupConsumer(acc[2], c)
      count == IF id \in DOMAIN cg.pel THEN cg.pel[id][3] ELSE 1
      new == AssignNACK(cg, id, c, time,
                        IF retry >= 0 THEN retry ELSE IF justid THEN count ELSE count + 1)
  IN <<Dirty(streamPropagateXCLAIM(acc[1], k, g, new, id), 1), new, Append(acc[3], id)>>

(* <<"xclaim", k, group, consumer, min idle, ids, options>> *)
xclaimCommand(s, a) ==
  LET k == a[2]
      g == a[3]
      opt == a[7]
      claim(t, st) ==
        LET cg == st.groups[g]
            cg1 == [cg EXCEPT !.last = IF Smaller(@, opt.last) THEN opt.last ELSE @]
            time == IF opt.time = -1 \/ opt.time > t.now THEN t.now ELSE opt.time
            one(acc, id) ==
              IF \/ id \notin DOMAIN acc[2].pel /\ ~(opt.force /\ id \in ToSet(Entries(st)))
                 \/ id \in DOMAIN acc[2].pel /\ t.now - acc[2].pel[id][2] < a[5]
              THEN acc
              ELSE ClaimOne(acc, k, g, a[4], id, time, opt.retry, opt.justid)
            res == FoldLeft(one, <<t, cg1, <<>>>>, a[6])
            u == IF cg1.last # cg.last /\ res[3] = <<>>
                 THEN Dirty(streamPropagateGroupID(res[1], k, g, res[2]), 1) ELSE res[1]
        IN IF ~HasGroup(st, g) THEN Fail(t)
           ELSE preventCommandPropagation(
                  Reply(Put(u, k, Stream(SetGroup(st, g, res[2]))), <<"ids", res[3]>>))
  IN OnRead(s, k, "stream", streamNew, claim)

(* <<"xautoclaim", k, group, consumer, min idle, start, count, justid>>.   *)
(* At most ten entries per claimed one are looked at; the reply starts     *)
(* with the entry the next call has to start from.                         *)
xautoclaimCommand(s, a) ==
  LET k == a[2]
      g == a[3]
      claim(t, st) ==
        LET cg == st.groups[g]
            ids == PendingFrom(DOMAIN cg.pel, a[6])
            look(acc, id) ==  \* <<claim, entries looked at>>
              IF Len(acc[1][3]) = a[7] \/ acc[2] = 10 * a[7] THEN acc
              ELSE <<IF t.now - cg.pel[id][2] < a[5] THEN acc[1]
                     ELSE ClaimOne(acc[1], k, g, a[4], id, t.now, -1, a[8]), acc[2] + 1>>
            res == FoldLeft(look, <<<<t, cg, <<>>>>, 0>>, ids)
            next == IF res[2] < Len(ids) THEN ids[res[2] + 1] ELSE MinId
        IN IF ~HasGroup(st, g) THEN Fail(t)
           ELSE preventCommandPropagation(
                  Reply(Put(res[1][1], k, Stream(SetGroup(st, g, res[1][2]))),
                        <<"claimed", next, res[1][3]>>))
  IN OnRead(s, k, "stream", streamNew, claim)

(* <<"xpending", k, group, min idle, start, end, count, consumer>>; the    *)
(* consumer is <<>> for all of them.                                       *)
xpendingCommand(s, a) ==
  LET list(t, st) ==
        LET cg == st.groups[a[3]]
            pel == IF a[8] = <<>> THEN DOMAIN cg.pel
                   ELSE IF a[8][1] \in DOMAIN cg.consumers THEN cg.consumers[a[8][1]] ELSE {}
            in == {i \in pel : /\ ~Smaller(i, a[5]) /\ ~Smaller(a[6], i)
                               /\ a[4] = 0 \/ t.now - cg.pel[i][2] >= a[4]}
        IN IF ~HasGroup(st, a[3]) THEN Fail(t)
           ELSE Reply(t, <<"ids", Truncate(Sorted(in, Smaller), a[7])>>)
  IN OnRead(s, a[2], "stream", streamNew, list)

(* What XINFO STREAM FULL says of a group, at most count pending entries   *)
(* (0: all) of each list being shown                                       *)
xinfoReplyWithStreamInfo(st, count) ==
  LET shown(ids) == Truncate(Sorted(ids, Smaller), count)
      group(cg) == [last |-> cg.last, count |-> Cardinality(DOMAIN cg.pel), pending |-> shown(DOMAIN cg.pel),
                    consumers |-> [c \in DOMAIN cg.consumers |-> shown(cg.consumers[c])]]
  IN [length |-> streamLength(st), last |-> st.last,
      entries |-> Truncate(Entries(st), count),
      groups |-> [g \in DOMAIN st.groups |-> group(st.groups[g])]]

(* <<"xinfo", k, "stream", count>>, <<"xinfo", k, "groups">> and <<"xinfo",*)
(* k, "consumers", group>>; the idle times of the consumers are left out.  *)
xinfoCommand(s, a) ==
  LET info(t, st) ==
        CASE a[3] = "stream" -> Reply(t, <<"info", xinfoReplyWithStreamInfo(st, a[4])>>)
          [] a[3] = "groups" ->
               Reply(t, <<"groups", [g \in DOMAIN st.groups |->
                          <<Cardinality(DOMAIN st.groups[g].consumers), Cardinality(DOMAIN st.groups[g].pel),
                            st.groups[g].last>>]>>)
          [] a[3] = "consumers" ->
               IF ~HasGroup(st, a[4]) THEN Fail(t)
               ELSE Reply(t, <<"consumers", [c \in DOMAIN st.groups[a[4]].consumers |->
                                             Cardinality(st.groups[a[4]].consumers[c])]>>)
  IN IF lookupKeyRead(expireIfNeeded(s, a[2]), a[2]) = None THEN Fail(expireIfNeeded(s, a[2]))
     ELSE OnRead(s, a[2], "stream", streamNew, info)

=============================================================================
