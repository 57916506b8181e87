------------------------------- MODULE Clients ------------------------------
(***************************************************************************)
(* The clients of a server: publish and subscribe (pubsub.c), client side  *)
(* caching (tracking.c), the clients that wait for a key, for replicas or  *)
(* for the end of a pause (blocked.c, timeout.c, WAIT of replication.c),   *)
(* scripts (scripting.c), transactions (multi.c), the commands about       *)
(* connections (networking.c), processCommand (server.c) and the part of   *)
(* the event loop that serves those who waited.                            *)
(*                                                                         *)
(* The server runs one command at a time, to its end.  A scenario gives    *)
(* each client a program: the alternatives of its first command, of its    *)
(* second command and so on.  The replica and the file are kept up to date *)
(* with the streams they are sent.                                         *)
(***************************************************************************)
EXTENDS Server

LOCAL INSTANCE SequencesExt
LOCAL INSTANCE FiniteSetsExt
LOCAL INSTANCE Functions

(***************************************************************************)
(* What the server sends to a client that did not ask for it: the messages *)
(* of the channels it subscribed to (pubsub.c) and the invalidations of    *)
(* the keys it caches (tracking.c).                                        *)
(*                                                                         *)
(* A pattern is the set of channels it matches and a prefix the set of     *)
(* names that start with it: two prefixes overlap iff the sets meet.       *)
(***************************************************************************)

CONSTANTS
  Client,       \* connections, by ID
  Replicas,     \* that acknowledge what they have processed
  Channels,     \* of the messages
  MaxTracked    \* tracking-table-max-keys

Nobody == "nobody"
NoCache == [k \in {} |-> 0]

(* struct client.  wait is the timeout the client gives to the commands    *)
(* that block.  cache is what the application behind the connection        *)
(* remembers of what it read, watch the values at the time of WATCH, and   *)
(* wrote the offset after what was last propagated for the client: the     *)
(* server has none of these.                                               *)
NewClient(resp, wait) ==
  [flags |-> {}, resp |-> resp, queue |-> <<>>, watch |-> NoCache, btype |-> "none", bkeys |-> <<>>,
   more |-> <<>>, timeout |-> 0, wait |-> wait, argv |-> <<>>, woff |-> 0, wrote |-> 0,
   redir |-> Nobody, prefixes |-> {}, chans |-> {}, pats |-> {}, got |-> <<>>, cache |-> NoCache]

(* off is the replication offset, in commands, before the current step,    *)
(* and victim is the next key that dictGetRandomKey would draw from the    *)
(* table.                                                                  *)
NewWorld(s, resp, wait) ==
  [s |-> s, cl |-> [c \in Client |-> NewClient(resp[c], wait[c])],
   watched |-> [k \in Key |-> {}], blocking |-> [k \in Key |-> <<>>], timeouts |-> {},
   unblocked |-> <<>>, paused |-> <<>>, pausetype |-> 0, pauseend |-> 0, pausetx |-> FALSE,
   table |-> [n \in Names |-> {}], bcast |-> NoCache,
   chans |-> [h \in Channels |-> {}], pats |-> NoCache,
   scripts |-> {}, scache |-> <<>>, off |-> 0, acks |-> [p \in Replicas |-> 0],
   waiting |-> <<>>, getack |-> FALSE, victim |-> "", failed |-> {}]

Has(w, c, f) == f \in w.cl[c].flags
Flag(w, c, f) == [w EXCEPT !.cl[c].flags = @ \cup f]
Unflag(w, c, f) == [w EXCEPT !.cl[c].flags = @ \ f]
Alive(w, c) == ~Has(w, c, "gone")

(* addReply: the replies to the command the client sent last *)
Answer(w, c, a) == [w EXCEPT !.cl[c].got = Append(@, a)]
Ok(w, c) == Answer(w, c, <<"ok">>)
Refuse(w, c) == Answer(w, c, <<"error">>)

-----------------------------------------------------------------------------
(* pubsub.c *)

clientSubscriptionsCount(w, c) == Cardinality(w.cl[c].chans) + Cardinality(w.cl[c].pats)

SubscribersOf(w, p) == IF p \in DOMAIN w.pats THEN w.pats[p] ELSE {}

(* A pattern without subscribers is not in the dictionary. *)
SetSubscribers(w, p, cs) ==
  [w EXCEPT !.pats = IF cs = {} THEN Restrict(@, DOMAIN @ \ {p}) ELSE (p :> cs) @@ @]

subscribeCommand(w, c, chs) ==
  IF Has(w, c, "denyblocking") /\ ~Has(w, c, "multi") THEN Refuse(w, c)
  ELSE Ok(Flag([w EXCEPT !.cl[c].chans = @ \cup chs,
                         !.chans = [h \in Channels |-> IF h \in chs THEN @[h] \cup {c} ELSE @[h]]],
               c, {"pubsub"}), c)

psubscribeCommand(w, c, p) ==
  IF Has(w, c, "denyblocking") /\ ~Has(w, c, "multi") THEN Refuse(w, c)
  ELSE Ok(Flag(SetSubscribers([w EXCEPT !.cl[c].pats = @ \cup {p}], p, SubscribersOf(w, p) \cup {c}),
               c, {"pubsub"}), c)

pubsubUnsubscribeChannels(w, c, chs) ==
  [w EXCEPT !.cl[c].chans = @ \ chs,
            !.chans = [h \in Channels |-> IF h \in chs THEN @[h] \ {c} ELSE @[h]]]

pubsubUnsubscribePattern(w, c, p) ==
  SetSubscribers([w EXCEPT !.cl[c].pats = @ \ {p}], p, SubscribersOf(w, p) \ {c})

pubsubUnsubscribeAll(w, c) ==
  FoldSet(LAMBDA p, u : pubsubUnsubscribePattern(u, c, p),
          pubsubUnsubscribeChannels(w, c, w.cl[c].chans), w.cl[c].pats)

LeavePubsub(w, c) == IF clientSubscriptionsCount(w, c) = 0 THEN Unflag(w, c, {"pubsub"}) ELSE w

unsubscribeCommand(w, c, chs) == LeavePubsub(Ok(pubsubUnsubscribeChannels(w, c, chs), c), c)

punsubscribeCommand(w, c, p) == LeavePubsub(Ok(pubsubUnsubscribePattern(w, c, p), c), c)

(* One message for the channel and one for each pattern that matches it *)
pubsubPublishMessage(w, h) ==
  Cardinality(w.chans[h]) + MapThenSumSet(LAMBDA p : IF h \in p THEN Cardinality(w.pats[p]) ELSE 0, DOMAIN w.pats)

(* The message is sent to the replicas, and is not in the file. *)
publishCommand(w, c, h) ==
  Answer([w EXCEPT !.s = propagate(@, <<"publish", h>>, {"repl"})], c, <<"int", pubsubPublishMessage(w, h)>>)

-----------------------------------------------------------------------------
(* tracking.c *)

(* Where the invalidations for c go *)
Receiver(w, c) == IF w.cl[c].redir = Nobody THEN c ELSE w.cl[c].redir

CanReceive(w, c) ==
  LET d == Receiver(w, c)
  IN Alive(w, d) /\ (w.cl[d].resp > 2 \/ (d # c /\ Has(w, d, "pubsub")))

(* The application drops what it cached under the names ns. *)
Drop(w, c, ns) == [w EXCEPT !.cl[c].cache = Restrict(@, {k \in DOMAIN @ : k[2] \notin ns})]

sendTrackingMessage(w, c, ns) ==
  IF ~Alive(w, Receiver(w, c)) THEN Flag(w, c, {"brokenredir"})
  ELSE IF CanReceive(w, c) THEN Drop(w, c, ns) ELSE w

trackingRememberKeyToBroadcast(w, c, n) ==
  [w EXCEPT !.bcast = [p \in DOMAIN @ |-> IF n \in p THEN [@[p] EXCEPT !.keys = (n :> c) @@ @] ELSE @[p]]]

\* Mutant: a client with NOLOOP is told of no change at all.
InvalidateNoLoop(w, c, n, bcast) ==
  LET told == {d \in w.table[n] : /\ Alive(w, d) /\ Has(w, d, "tracking") /\ ~Has(w, d, "bcast")
                                  /\ ~Has(w, d, "noloop")}
  IN FoldSet(LAMBDA d, v : sendTrackingMessage(v, d, {n}), [w EXCEPT !.table[n] = {}], told)

(* A key changed (or is forgotten, without bcast).  c is Nobody when it is *)
(* not the doing of a client.  The key leaves the table.                   *)
trackingInvalidateKeyRaw(w, c, n, bcast) ==
  LET u == IF bcast THEN trackingRememberKeyToBroadcast(w, c, n) ELSE w
      told == {d \in w.table[n] : /\ Alive(w, d) /\ Has(w, d, "tracking") /\ ~Has(w, d, "bcast")
                                  /\ ~(Has(w, d, "noloop") /\ d = c)}
  IN FoldSet(LAMBDA d, v : sendTrackingMessage(v, d, {n}), [u EXCEPT !.table[n] = {}], told)

trackingInvalidateKeysOnFlush(w) ==
  LET on == {d \in Client : Alive(w, d) /\ Has(w, d, "tracking")}
  IN FoldSet(LAMBDA d, u : sendTrackingMessage(u, d, Names), [w EXCEPT !.table = [n \in Names |-> {}]], on)

(* The keys of a read-only command are remembered for the client, unless   *)
(* CLIENT CACHING says otherwise.                                          *)
trackingRememberKeys(w, c, keys) ==
  LET caching == Has(w, c, "caching")
  IN IF (Has(w, c, "optin") /\ ~caching) \/ (Has(w, c, "optout") /\ caching) THEN w
     ELSE [w EXCEPT !.table = [n \in Names |-> IF \E k \in keys : k[2] = n THEN @[n] \cup {c} ELSE @[n]],
                    !.cl[c].cache = [k \in keys |-> w.s.db[k]] @@ @]

(* A table that is too large loses a key. *)
trackingLimitUsedSlots(w) ==
  LET used == {n \in Names : w.table[n] # {}}
  IN IF Cardinality(used) <= MaxTracked \/ w.victim \notin used THEN w
     ELSE trackingInvalidateKeyRaw(w, Nobody, w.victim, FALSE)

(* beforeSleep: the keys changed since the last time.  A client with       *)
(* NOLOOP is not told of the keys it was the last one to change.           *)
trackingBroadcastInvalidationMessages(w) ==
  LET tell(u, p, c) ==
        LET ks == w.bcast[p].keys
            ns == {n \in DOMAIN ks : ~(Has(w, c, "noloop") /\ ks[n] = c)}
        IN IF ns = {} THEN u ELSE sendTrackingMessage(u, c, ns)
      prefix(p, u) == FoldSet(LAMBDA c, v : tell(v, p, c), u, w.bcast[p].clients)
      sent == FoldSet(prefix, w, DOMAIN w.bcast)
  IN [sent EXCEPT !.bcast = [p \in DOMAIN @ |-> [@[p] EXCEPT !.keys = NoCache]]]

TrackingFlags == {"tracking", "brokenredir", "bcast", "optin", "optout", "caching", "noloop"}

(* The client leaves its prefixes.  Its ID stays in the table.  The        *)
(* application, which asked for it, no longer trusts its cache.            *)
disableTracking(w, c) ==
  LET leave(p, u) ==
        LET rest == u.bcast[p].clients \ {c}
        IN [u EXCEPT !.bcast = IF rest = {} THEN Restrict(@, DOMAIN @ \ {p}) ELSE [@ EXCEPT ![p].clients = rest]]
  IN [Unflag(FoldSet(leave, w, w.cl[c].prefixes), c, TrackingFlags)
        EXCEPT !.cl[c].prefixes = {}, !.cl[c].cache = NoCache]

enableBcastTrackingForPrefix(w, c, p) ==
  LET old == IF p \in DOMAIN w.bcast THEN w.bcast[p] ELSE [clients |-> {}, keys |-> NoCache]
  IN [w EXCEPT !.bcast = (p :> [old EXCEPT !.clients = @ \cup {c}]) @@ @, !.cl[c].prefixes = @ \cup {p}]

enableTracking(w, c, options, redir, prefixes) ==
  LET u == [Unflag(w, c, TrackingFlags \ {"caching"}) EXCEPT !.cl[c].redir = redir]
      all == IF prefixes = <<>> THEN {Names} ELSE ToSet(prefixes)
      v == IF "bcast" \in options THEN FoldSet(LAMBDA p, x : enableBcastTrackingForPrefix(x, c, p), u, all) ELSE u
  IN Flag(v, c, {"tracking"} \cup options)

(* The prefixes of a command that overlap with one the client has, or with *)
(* a later one of the command                                              *)
Overlapping(w, c, prefixes) ==
  {i \in DOMAIN prefixes : \/ \E p \in w.cl[c].prefixes : p \cap prefixes[i] # {}
                           \/ \E j \in DOMAIN prefixes : j > i /\ prefixes[j] \cap prefixes[i] # {}}

(* Whether to go on.  On an overlap inside the command the C function      *)
(* returns the index of the prefix, which is 0 for the first one only.     *)
checkPrefixCollisionsOrReply(w, c, prefixes) ==
  LET bad == Overlapping(w, c, prefixes)
  IN bad = {} \/ (Min(bad) > 1 /\ \A p \in w.cl[c].prefixes : p \cap prefixes[Min(bad)] = {})

(* CLIENT TRACKING: <<"tracking", on, options, redirect, prefixes>> *)
clientTracking(w, c, a) ==
  LET o == a[3]
      switch == Has(w, c, "tracking") /\ (Has(w, c, "bcast") # ("bcast" \in o))
      reopt == ("optin" \in o /\ Has(w, c, "optout")) \/ ("optout" \in o /\ Has(w, c, "optin"))
      told == IF "bcast" \in o /\ Overlapping(w, c, a[5]) # {} THEN Refuse(w, c) ELSE w
  IN IF a[4] # Nobody /\ ~Alive(w, a[4]) THEN Refuse(w, c)
     ELSE IF ~a[2] THEN Ok(disableTracking(w, c), c)
     ELSE IF \/ "bcast" \notin o /\ a[5] # <<>>
             \/ switch \/ reopt
             \/ "bcast" \in o /\ o \cap {"optin", "optout"} # {}
             \/ {"optin", "optout"} \subseteq o THEN Refuse(w, c)
     ELSE IF "bcast" \in o /\ ~checkPrefixCollisionsOrReply(w, c, a[5]) THEN told
     ELSE Ok(enableTracking(told, c, o, a[4], a[5]), c)

(* CLIENT CACHING YES and NO *)
clientCaching(w, c, yes) ==
  IF Has(w, c, "tracking") /\ Has(w, c, IF yes THEN "optin" ELSE "optout")
  THEN Ok(Flag(w, c, {"caching"}), c) ELSE Refuse(w, c)

-----------------------------------------------------------------------------
CONSTANT ServeKey(_, _)   \* who is served when a key is ready

BlockedOnKeys == {"list", "zset", "stream"}
Blocked(w, c) == Has(w, c, "blocked")

-----------------------------------------------------------------------------
(* What every change of a key does *)

touchWatchedKey(w, k) ==
  [w EXCEPT !.cl = [c \in Client |-> IF c \in w.watched[k] THEN [@[c] EXCEPT !.flags = @ \cup {"dirtycas"}] ELSE @[c]]]

(* signalModifiedKey.  The application drops what it changes itself if it  *)
(* asked not to be told.                                                   *)
Signal(w, c, k) ==
  LET own(told) == IF c # Nobody /\ Has(w, c, "noloop") THEN Drop(told, c, {k[2]}) ELSE told
  IN own(trackingInvalidateKeyRaw(touchWatchedKey(w, k), c, k[2], TRUE))

(* signalKeyAsReady queues a key if somebody is blocked on it, and somebody*)
(* on a key of its type; pending are the keys that are queued already.     *)
Ready(w, old, pending) ==
  LET btype(k) == Type(w.s.db[k])
      wanted(k) == w.blocking[k] # <<>> /\ k \notin pending /\ \E c \in Client : w.cl[c].btype = btype(k)
  IN [w EXCEPT !.s.ready = SelectSeq(@, LAMBDA k : k \in ToSet(old) \/ wanted(k))]

-----------------------------------------------------------------------------
(* Blocking *)

addClientToTimeoutTable(w, c) ==
  IF w.cl[c].timeout = 0 THEN w
  ELSE Flag([w EXCEPT !.timeouts = @ \cup {<<w.cl[c].timeout, c>>}], c, {"intable"})

removeClientFromTimeoutTable(w, c) ==
  IF ~Has(w, c, "intable") THEN w
  ELSE Unflag([w EXCEPT !.timeouts = @ \ {<<w.cl[c].timeout, c>>}], c, {"intable"})

(* A paused client keeps its command, to be executed later. *)
blockClient(w, c, btype) ==
  LET u == addClientToTimeoutTable(Flag([w EXCEPT !.cl[c].btype = btype], c, {"blocked"}), c)
  IN IF btype # "pause" THEN u
     ELSE Flag([u EXCEPT !.paused = Append(@, c)], c, {"pending"})

(* The keys without repetition, in the order of the command *)
blockForKeys(w, c, btype, keys, timeout, more) ==
  LET u == [w EXCEPT !.cl[c].timeout = timeout, !.cl[c].bkeys = keys, !.cl[c].more = more,
                     !.blocking = [k \in Key |-> IF k \in ToSet(keys) THEN Append(@[k], c) ELSE @[k]]]
  IN blockClient(u, c, btype)

unblockClientWaitingData(w, c) ==
  [w EXCEPT !.blocking = [k \in Key |-> SelectSeq(@[k], LAMBDA d : d # c)],
            !.cl[c].bkeys = <<>>, !.cl[c].more = <<>>]

queueClientForReprocessing(w, c) ==
  IF Has(w, c, "unblocked") THEN w
  ELSE Flag([w EXCEPT !.unblocked = Append(@, c)], c, {"unblocked"})

(* CLIENT CACHING is for one command, or for one transaction. *)
resetClient(w, c, prevcmd) ==
  LET u == [w EXCEPT !.cl[c].argv = <<>>]
  IN IF Has(w, c, "multi") \/ prevcmd = "client" THEN u ELSE Unflag(u, c, {"caching"})

Leave(w, c) ==
  [Unflag(w, c, {"blocked"}) EXCEPT !.cl[c].btype = "none"]

\* Mutant: a client unblocked for another reason than its timeout stays in the timeout table.
unblockClientKeepTimeout(w, c) ==
  LET btype == w.cl[c].btype
      u == CASE btype \in BlockedOnKeys -> unblockClientWaitingData(w, c)
             [] btype = "wait"  -> [w EXCEPT !.waiting = SelectSeq(@, LAMBDA d : d # c)]
             [] btype = "pause" -> [w EXCEPT !.paused = SelectSeq(@, LAMBDA d : d # c)]
      v == IF btype = "pause" THEN u ELSE resetClient(u, c, "blocking")
  IN queueClientForReprocessing(Leave(v, c), c)

unblockClient(w, c) ==
  LET btype == w.cl[c].btype
      u == CASE btype \in BlockedOnKeys -> unblockClientWaitingData(w, c)
             [] btype = "wait"  -> [w EXCEPT !.waiting = SelectSeq(@, LAMBDA d : d # c)]
             [] btype = "pause" -> [w EXCEPT !.paused = SelectSeq(@, LAMBDA d : d # c)]
      v == IF btype = "pause" THEN u ELSE resetClient(u, c, "blocking")
      x == removeClientFromTimeoutTable(Leave(v, c), c)
  IN queueClientForReprocessing(x, c)

replicationCountAcksByOffset(w, offset) == Cardinality({p \in Replicas : w.acks[p] >= offset})

replyToBlockedClientTimedOut(w, c) ==
  CASE w.cl[c].btype \in BlockedOnKeys -> Answer(w, c, <<"nil">>)
    [] w.cl[c].btype = "wait"  -> Answer(w, c, <<"acks", replicationCountAcksByOffset(w, w.cl[c].more[1])>>)
    [] w.cl[c].btype = "pause" -> [w EXCEPT !.failed = @ \cup {"btype"}]

checkBlockedClientTimeout(w, c) ==
  IF Blocked(w, c) /\ w.cl[c].timeout # 0 /\ w.cl[c].timeout < w.s.now
  THEN unblockClient(replyToBlockedClientTimedOut(w, c), c) ELSE w

handleBlockedClientsTimeout(w) ==
  LET due == {e \in w.timeouts : e[1] < w.s.now}
      one(e, u) == LET v == checkBlockedClientTimeout(Unflag(u, e[2], {"intable"}), e[2])
                   IN [v EXCEPT !.timeouts = @ \ {e}]
  IN FoldSet(one, w, due)

(* The master became a replica: the clients it can no longer serve are     *)
(* told so and closed; those in a pause will be processed from scratch.    *)
disconnectAllBlockedClients(w) ==
  LET one(c, u) == Flag(unblockClient(Refuse(u, c), c), c, {"closing"})
  IN FoldSet(one, w, {c \in Client : Blocked(w, c) /\ w.cl[c].btype # "pause"})

-----------------------------------------------------------------------------
(* WAIT *)

waitCommand(w, c, numreplicas) ==
  LET n == replicationCountAcksByOffset(w, w.cl[c].woff)
      u == [w EXCEPT !.cl[c].timeout = IF w.cl[c].wait = 0 THEN 0 ELSE w.s.now + w.cl[c].wait,
                     !.cl[c].more = <<w.cl[c].woff, numreplicas>>,
                     !.waiting = <<c>> \o @, !.getack = TRUE]
  IN IF w.s.role = "slave" THEN Refuse(w, c)
     ELSE IF n >= numreplicas \/ Has(w, c, "multi") THEN Answer(w, c, <<"acks", n>>)
     ELSE blockClient(u, c, "wait")

\* Mutant: the offset a satisfied client waited for is not compared.
processClientsNoOffset(w) ==
  LET one(acc, c) ==
        LET need == acc.w.cl[c].more
            n == replicationCountAcksByOffset(acc.w, need[1])
            done(m) == unblockClient(Answer(acc.w, c, <<"acks", m>>), c)
        IN IF acc.num > 0 /\ acc.num >= need[2] THEN [acc EXCEPT !.w = done(acc.num)]
           ELSE IF n >= need[2] THEN [w |-> done(n), off |-> need[1], num |-> n] ELSE acc
  IN FoldLeft(one, [w |-> w, off |-> 0, num |-> 0], w.waiting).w

(* beforeSleep.  A client that asks for no more than one that was just     *)
(* satisfied is answered without counting again.                           *)
processClientsWaitingReplicas(w) ==
  LET one(acc, c) ==
        LET need == acc.w.cl[c].more
            n == replicationCountAcksByOffset(acc.w, need[1])
            done(m) == unblockClient(Answer(acc.w, c, <<"acks", m>>), c)
        IN IF acc.off > 0 /\ acc.off >= need[1] /\ acc.num >= need[2] THEN [acc EXCEPT !.w = done(acc.num)]
           ELSE IF n >= need[2] THEN [w |-> done(n), off |-> need[1], num |-> n] ELSE acc
  IN FoldLeft(one, [w |-> w, off |-> 0, num |-> 0], w.waiting).w

-----------------------------------------------------------------------------
(* CLIENT PAUSE: nobody (2), or nobody who may write (1), is served.  The  *)
(* end is never reset, so a new pause may inherit a later one.             *)
pauseClients(w, end, type) ==
  [w EXCEPT !.pausetype = Max({@, type}), !.pauseend = Max({@, end}),
            !.pausetx = @ \/ w.s.inexec, !.s.paused = Max({w.pauseend, end}) >= w.s.now]

\* Mutant: the end of a pause does not give the clients back.
unpauseNobody(w) == [w EXCEPT !.pausetype = 0, !.s.paused = FALSE]

unpauseClients(w) ==
  FoldLeft(unblockClient, [w EXCEPT !.pausetype = 0, !.s.paused = FALSE], w.paused)

checkClientPauseTimeout(w) == IF w.pausetype # 0 /\ w.pauseend < w.s.now THEN unpauseClients(w) ELSE w

-----------------------------------------------------------------------------
(* The server goes from w.s to s, in the doing of c, and the keys s has    *)
(* signalled are signalled.  A key that had expired was deleted first,     *)
(* which is no client's doing, and ends a pause that is over.  Nothing may *)
(* be propagated while clients are paused (the assertion of propagate()).  *)
Becomes(w, c, s) ==
  LET expired == {k \in Key : keyIsExpired(w.s, k) /\ s.exp[k] # w.s.exp[k]}
      late(u) == s.repl # w.s.repl /\ u.pausetype # 0 /\ ~u.pausetx
      next(u) == [u EXCEPT !.s = [s EXCEPT !.touched = {}, !.paused = u.s.paused],
                           !.cl = IF c = Nobody \/ s.repl = w.s.repl THEN @ ELSE [@ EXCEPT ![c].wrote = w.off + Len(s.repl)],
                           !.failed = IF late(u) THEN @ \cup {"propagate"} ELSE @]
      gone(k, x) == IF k \in expired THEN Signal(x, Nobody, k) ELSE x
      changed(k, x) == IF k \in expired /\ s.db[k] = None THEN x ELSE Signal(x, c, k)
  IN FoldSet(LAMBDA k, x : changed(k, gone(k, x)), next(IF expired # {} THEN checkClientPauseTimeout(w) ELSE w),
             s.touched)

-----------------------------------------------------------------------------
(* Serving the clients blocked on a key *)

Rotate(w, k) == [w EXCEPT !.blocking[k] = Append(Tail(@), Head(@))]

(* serveClientBlockedOnList: e was popped from k for c.  BLMOVE fails, and *)
(* the element goes back, if the destination is not a list.                *)
serveClientBlockedOnList(w, c, k, e, rest) ==
  LET more == w.cl[c].more
      popped == dbOverwrite(w.s, k, List(rest))
      pop == <<IF more.from = "left" THEN "lpop" ELSE "rpop", k, 0>>
      t == expireIfNeeded(popped, more.dst)
      move == IF more.cmd = "brpoplpush" THEN <<"rpoplpush", k, more.dst>>
              ELSE <<"lmove", k, more.dst, more.from, more.to>>
  IN IF "dst" \notin DOMAIN more
     THEN Answer(Becomes(w, c, propagate(popped, pop, Targets)), c, <<"pair", k, e>>)
     ELSE IF Type(lookupKey(t, more.dst)) \in {"none", "list"}
     THEN LET u == propagate(lmoveHandlePush(t, more.dst, e, more.to), move, Targets)
          IN Answer(Becomes(w, c, u), c, <<"bulk", e>>)
     ELSE LET u == dbOverwrite(t, k, List(listTypePush(rest, e, more.from)))
          IN Answer(Becomes(w, c, u), c, <<"wrongtype">>)

\* Mutant: one client is served for a key, however many elements it has.
serveOneClient(w, k) ==
  LET c == Head(w.blocking[k])
      l == Val(w.s.db[k])
      from == w.cl[c].more.from
      u == unblockClient(serveClientBlockedOnList(w, c, k, End(l, from), listTypePop(l, from)), c)
  IN IF w.blocking[k] = <<>> \/ w.cl[c].btype # "list" THEN w
     ELSE IF Val(u.s.db[k]) = <<>> THEN [u EXCEPT !.s = dbDelete(@, k)] ELSE u

(* In the order they blocked, as long as there are elements.  A client     *)
(* that waits for another type goes to the end of the queue.               *)
serveClientsBlockedOnListKey(w, k) ==
  LET one(u, i) ==
        LET c == Head(u.blocking[k])
            l == Val(u.s.db[k])
            from == u.cl[c].more.from
        IN IF u.cl[c].btype # "list" THEN Rotate(u, k)
           ELSE IF l = <<>> THEN u
           ELSE unblockClient(serveClientBlockedOnList(u, c, k, End(l, from), listTypePop(l, from)), c)
      all == FoldLeft(one, w, [i \in 1..Len(w.blocking[k]) |-> i])
  IN IF Val(all.s.db[k]) = <<>> THEN [all EXCEPT !.s = dbDelete(@, k)] ELSE all

serveClientsBlockedOnSortedSetKey(w, k) ==
  LET one(acc, i) ==
        LET u == acc[1]
            c == Head(u.blocking[k])
            from == u.cl[c].more.from
            t == genericZpopCommand(u.s, k, from, 1, TRUE)
            v == propagate(t, <<IF from = "max" THEN "zpopmax" ELSE "zpopmin", k, 1>>, Targets)
        IN IF acc[2] = 0 THEN acc
           ELSE IF u.cl[c].btype # "zset" THEN <<Rotate(u, k), acc[2]>>
           ELSE <<unblockClient(Answer(Becomes(u, c, v), c, t.reply), c), acc[2] - 1>>
      card == Cardinality(DOMAIN Val(w.s.db[k]))
  IN FoldLeft(one, <<w, card>>, [i \in 1..Len(w.blocking[k]) |-> i])[1]

(* Everybody who waits for an ID below the last one.  A member of a group  *)
(* waits for what its group has not seen, as the others left it.           *)
serveClientsBlockedOnStreamKey(w, k) ==
  LET one(u, c) ==
        LET a == u.cl[c].more.argv
            grp == a[1] = "xreadgroup"
            st == Val(u.s.db[k])
            gt == IF grp THEN st.groups[a[6]].last
                  ELSE u.cl[c].more.ids[SelectInSeq(u.cl[c].bkeys, LAMBDA q : q = k)]
            v == ReadGroup(u.s, k, a[6], a[7], Special, a[4], a[8])
            ids == Truncate(streamIterator(st, streamIncrID(gt), MaxId, FALSE), a[4])
        IN IF u.cl[c].btype # "stream" THEN u
           ELSE IF grp /\ ~HasGroup(st, a[6]) THEN unblockClient(Refuse(u, c), c)
           ELSE IF ~Smaller(gt, st.last) THEN u
           ELSE IF grp THEN unblockClient(Answer(Becomes(u, c, v[1]), c, <<"streams", <<<<k, v[2]>>>>>>), c)
           ELSE unblockClient(Answer(u, c, <<"streams", <<<<k, ids>>>>>>), c)
  IN FoldLeft(one, w, w.blocking[k])

(* By the type of the value *)
serveClientsBlockedOnKey(w, k) ==
  LET type == Type(w.s.db[k])
  IN CASE type = "list"   -> serveClientsBlockedOnListKey(w, k)
       [] type = "zset"   -> serveClientsBlockedOnSortedSetKey(w, k)
       [] type = "stream" -> serveClientsBlockedOnStreamKey(w, k)
       [] OTHER -> w

(* The keys of the list in their order; a client served by BLMOVE may make *)
(* another key ready, so again until there is none.                        *)
RECURSIVE handleClientsBlockedOnKeys(_)
handleClientsBlockedOnKeys(w) ==
  LET l == w.s.ready
      one(u, i) ==
        LET k == l[i]
            t == expireIfNeeded(u.s, k)
        IN Ready(ServeKey(Becomes(u, Nobody, t), k), u.s.ready, {l[j] : j \in (i + 1)..Len(l)})
  IN IF l = <<>> THEN w
     ELSE handleClientsBlockedOnKeys(FoldLeft(one, [w EXCEPT !.s.ready = <<>>], [i \in 1..Len(l) |-> i]))

-----------------------------------------------------------------------------
(***************************************************************************)
(* Lua scripts (scripting.c) and the cache of the scripts the replicas and *)
(* the append only file know (replication.c).                              *)
(*                                                                         *)
(* A script is a list of commands: what it computes in between is Lua's.   *)
(* effects says that it calls redis.replicate_commands(), so that its      *)
(* writes are propagated instead of the script itself.                     *)
(***************************************************************************)

CONSTANTS
  Scripts,          \* by SHA: the keys, the commands and the way of propagation
  ScriptCacheSize   \* server.repl_scriptcache_size

(* The commands flagged random, and those that are refused in a script *)
Random == {"srandmember", "hrandfield", "zrandmember", "spop", "spopn", "randomkey", "scan", "xread", "xpending"}

IsWrite(a) == a[1] \notin ReadOnly
IsError(reply) == reply # <<>> /\ reply[1] \in {"error", "wrongtype"}

-----------------------------------------------------------------------------
(* The replication script cache: the newest script first *)

replicationScriptCacheFlush(w) == [w EXCEPT !.scache = <<>>]

replicationScriptCacheAdd(w, sha) ==
  [w EXCEPT !.scache = <<sha>> \o (IF Len(@) = ScriptCacheSize THEN Front(@) ELSE @)]

replicationScriptCacheExists(w, sha) == sha \in ToSet(w.scache)

-----------------------------------------------------------------------------
(* A command of a script, executed without the flags that propagate it *)
CallNone(s, a) == [Proc([s EXCEPT !.argv = a, !.dirty = 0, !.flags = @ \cap {"denyblocking"}, !.also = <<>>,
                                  !.reply = <<>>, !.readonly = a[1] \in ReadOnly], a) EXCEPT !.also = <<>>]

(* The keys the caller gave to EVAL are those it is told about. *)
RememberKeys(w, c, keys) ==
  IF ~Has(w, c, "tracking") THEN w
  ELSE IF ~Has(w, c, "bcast") THEN trackingRememberKeys(w, c, keys)
  ELSE [w EXCEPT !.cl[c].cache = [k \in {q \in keys : \E p \in w.cl[c].prefixes : q[2] \in p} |-> w.s.db[k]] @@ @]

(* x is the world, what the script did so far and whether it has failed.   *)
(* A write after a random command is refused unless the effects are what   *)
(* is propagated; the first write opens a transaction in the stream.       *)
luaRedisGenericCommand(x, c, sc, a) ==
  LET refused == IsWrite(a) /\ ((x.random /\ ~sc.effects) \/ x.w.s.role = "slave")
      emit == sc.effects /\ ~x.multi /\ ~Has(x.w, c, "multi") /\ (x.write \/ IsWrite(a))
      s0 == [x.w.s EXCEPT !.flags = {"denyblocking"}]
      s1 == IF emit THEN propagate([s0 EXCEPT !.inmulti = TRUE], <<"multi">>, Targets) ELSE s0
      s2 == IF sc.effects THEN call(s1, a) ELSE CallNone(s1, a)
      u == Ready(Becomes(x.w, c, s2), x.w.s.ready, {})
      v == IF a[1] \in ReadOnly THEN RememberKeys(u, c, sc.keys) ELSE u
  IN IF x.failed THEN x
     ELSE IF refused THEN [x EXCEPT !.failed = TRUE]
     ELSE [w |-> v, random |-> x.random \/ a[1] \in Random, write |-> x.write \/ IsWrite(a),
           multi |-> x.multi \/ emit, dirty |-> x.dirty + s2.dirty,
           failed |-> IsError(s2.reply)]

\* Mutant: a script sent by its SHA is always propagated by its SHA.
PropagateShaOnly(w, sha, evalsha, changed) ==
  IF changed THEN <<w, <<IF evalsha THEN "evalsha" ELSE "eval", sha>>>> ELSE <<w, <<>>>>

(* What is propagated in place of a script: nothing, the script, or - when *)
(* it was called by its SHA and changed nothing - the order to load it     *)
PropagateScript(w, sha, evalsha, changed) ==
  IF evalsha /\ ~replicationScriptCacheExists(w, sha)
  THEN <<replicationScriptCacheAdd(w, sha), IF changed THEN <<"eval", sha>> ELSE <<"script", "load", sha>>>>
  ELSE IF changed THEN <<w, <<IF evalsha THEN "evalsha" ELSE "eval", sha>>>> ELSE <<w, <<>>>>

evalGenericCommand(w, c, sha, evalsha) ==
  LET sc == Scripts[sha]
      known == [w EXCEPT !.scripts = @ \cup {sha}]
      begin == [w |-> known, random |-> FALSE, write |-> FALSE, multi |-> FALSE, dirty |-> 0, failed |-> FALSE]
      x == FoldLeft(LAMBDA y, a : luaRedisGenericCommand(y, c, sc, a), begin, sc.cmds)
      reply == Answer(x.w, c, IF x.failed THEN <<"error">> ELSE <<"script", sha>>)
      exec == [propagate(reply.s, <<"exec">>, Targets) EXCEPT !.inmulti = FALSE]
      p == PropagateScript(reply, sha, evalsha, x.dirty > 0)
  IN IF evalsha /\ sha \notin w.scripts THEN Refuse(w, c)
     ELSE IF sc.effects THEN (IF x.multi THEN Becomes(reply, c, exec) ELSE reply)
     ELSE IF p[2] = <<>> THEN p[1] ELSE Becomes(p[1], c, propagate(p[1].s, p[2], Targets))

(* SCRIPT LOAD and SCRIPT FLUSH *)
scriptCommand(w, c, a) ==
  CASE a[2] = "load" ->
         Ok(Becomes([w EXCEPT !.scripts = @ \cup {a[3]}], c, propagate(w.s, a, Targets)), c)
    [] a[2] = "flush" ->
         Ok(replicationScriptCacheFlush(Becomes([w EXCEPT !.scripts = {}], c, propagate(w.s, a, Targets))), c)

-----------------------------------------------------------------------------
(* A replica, or a server that loads the file, runs a script *)
RunScript(s, sc) ==
  LET after(x, a, t) == [s |-> Settled(t), random |-> x.random \/ a[1] \in Random, failed |-> IsError(t.reply)]
      one(x, a) == IF x.failed THEN x
                   ELSE IF IsWrite(a) /\ x.random /\ ~sc.effects THEN [x EXCEPT !.failed = TRUE]
                   ELSE after(x, a, call(x.s, a))
  IN FoldLeft(one, [s |-> s, random |-> FALSE, failed |-> FALSE], sc.cmds).s

(* ... or another command of the stream; x is the server and the scripts   *)
(* it knows.                                                               *)
ApplyOne(x, a) ==
  CASE a[1] \in {"multi", "exec", "publish", "getack"} -> x
    [] a[1] = "script"  -> [x EXCEPT !.scripts = IF a[2] = "load" THEN @ \cup {a[3]} ELSE {}]
    [] a[1] \in {"eval", "evalsha"} ->
         IF a[1] = "evalsha" /\ a[2] \notin x.scripts THEN x
         ELSE [s |-> RunScript(x.s, Scripts[a[2]]), scripts |-> x.scripts \cup {a[2]}]
    [] OTHER -> [x EXCEPT !.s = Settled(call(@, a))]

-----------------------------------------------------------------------------
CONSTANTS
  ClientProc(_, _, _),   \* what a command other than EXEC does for a client
  Plays                  \* scenarios, by name

VARIABLES
  w,        \* the server and its clients
  replica,  \* a replica and the scripts it knows
  file,     \* what a server that loads the append only file has, and knows
  env       \* the scenario and what is left of its budgets

vars == <<w, replica, file, env>>

-----------------------------------------------------------------------------
(* multi.c *)

unwatchAllKeys(v, c) ==
  [v EXCEPT !.watched = [k \in Key |-> @[k] \ {c}], !.cl[c].watch = NoCache]

discardTransaction(v, c) ==
  unwatchAllKeys(Unflag([v EXCEPT !.cl[c].queue = <<>>], c, {"multi", "dirtycas", "dirtyexec"}), c)

flagTransaction(v, c) == IF Has(v, c, "multi") THEN Flag(v, c, {"dirtyexec"}) ELSE v

queueMultiCommand(v, c, a) ==
  Answer(IF Has(v, c, "dirtyexec") THEN v ELSE [v EXCEPT !.cl[c].queue = Append(@, a)], c, <<"queued">>)

multiCommand(v, c) == IF Has(v, c, "multi") THEN Refuse(v, c) ELSE Ok(Flag(v, c, {"multi"}), c)

discardCommand(v, c) == IF Has(v, c, "multi") THEN Ok(discardTransaction(v, c), c) ELSE Refuse(v, c)

(* What a client sees of a key *)
Visible(v, k) == IF keyIsExpired(v.s, k) THEN None ELSE v.s.db[k]

(* A key that is watched already keeps its first value. *)
watchCommand(v, c, keys) ==
  IF Has(v, c, "multi") THEN Refuse(v, c)
  ELSE Ok([v EXCEPT !.watched = [k \in Key |-> IF k \in keys THEN @[k] \cup {c} ELSE @[k]],
                    !.cl[c].watch = @ @@ [k \in keys |-> Visible(v, k)]], c)

unwatchCommand(v, c) == Ok(Unflag(unwatchAllKeys(v, c), c, {"dirtycas"}), c)

\* Mutant: the time to live of the watched keys is not looked at.
isWatchedKeyExpiredNever(v, c) == FALSE

isWatchedKeyExpired(v, c) == \E k \in DOMAIN v.cl[c].watch : keyIsExpired(v.s, k)

(* What EXEC answers when it runs: the watched keys that are not what they *)
(* were, and whether every command of the queue had one reply              *)
ExecAnswer(v, c, replies) ==
  <<"exec", {k \in DOMAIN v.cl[c].watch : v.cl[c].watch[k] # Visible(v, k)}, Len(replies) = Len(v.cl[c].queue)>>

(* EXEC.  MULTI was sent with the first command of the queue that wrote;   *)
(* then EXEC is sent too.                                                  *)
execCommand(v, c) ==
  LET dirty == isWatchedKeyExpired(v, c) \/ v.cl[c].flags \cap {"dirtycas", "dirtyexec"} # {}
      begin == [unwatchAllKeys(Flag(v, c, {"denyblocking"}), c) EXCEPT !.s.inexec = TRUE, !.cl[c].got = <<>>]
      closed(x) == [discardTransaction(Unflag(x, c, {"denyblocking"}), c)
                      EXCEPT !.s.inexec = FALSE, !.s.inmulti = FALSE,
                             !.cl[c].got = v.cl[c].got \o <<ExecAnswer(v, c, @)>>]
      end(x) == IF x.s.inmulti THEN Becomes(closed(x), c, propagate(closed(x).s, <<"exec">>, Targets)) ELSE closed(x)
  IN IF ~Has(v, c, "multi") THEN Refuse(v, c)
     ELSE IF dirty THEN discardTransaction(Answer(v, c, <<"aborted">>), c)
     ELSE end(FoldLeft(LAMBDA x, a : ClientProc(x, c, a), begin, v.cl[c].queue))

-----------------------------------------------------------------------------
(* networking.c *)

unlinkClient(v, c) ==
  LET u == [v EXCEPT !.unblocked = SelectSeq(@, LAMBDA d : d # c)]
  IN IF Has(v, c, "tracking") THEN disableTracking(u, c) ELSE u

freeClient(v, c) ==
  LET u == IF Blocked(v, c) THEN unblockClient(v, c) ELSE v
  IN [unlinkClient(pubsubUnsubscribeAll(unwatchAllKeys(u, c), c), c)
        EXCEPT !.cl[c] = [NewClient(2, 0) EXCEPT !.flags = {"gone"}]]

resetCommand(v, c) ==
  LET u == IF Has(v, c, "tracking") THEN disableTracking(v, c) ELSE v
      x == pubsubUnsubscribeAll(discardTransaction([u EXCEPT !.cl[c].resp = 2], c), c)
  IN Ok(Unflag(x, c, {"pubsub"}), c)

clientKill(v, c, d) ==
  IF ~Alive(v, d) THEN Refuse(v, c)
  ELSE IF c = d THEN Flag(Ok(v, c), c, {"closing"}) ELSE Ok(freeClient(v, d), c)

clientUnblock(v, c, d, error) ==
  IF Blocked(v, d)
  THEN Answer(unblockClient(IF error THEN Refuse(v, d) ELSE replyToBlockedClientTimedOut(v, d), d), c, <<"int", 1>>)
  ELSE Answer(v, c, <<"int", 0>>)

clientCommand(v, c, a) ==
  CASE a[2] = "kill"     -> clientKill(v, c, a[3])
    [] a[2] = "unblock"  -> clientUnblock(v, c, a[3], a[4])
    [] a[2] = "pause"    -> Ok(pauseClients(v, IF a[3] = 0 THEN 0 ELSE v.s.now + a[3], a[4]), c)
    [] a[2] = "unpause"  -> Ok(unpauseClients(v), c)
    [] a[2] = "tracking" -> clientTracking(v, c, Tail(a))
    [] a[2] = "caching"  -> clientCaching(v, c, a[3])

helloCommand(v, c, ver) == Ok([v EXCEPT !.cl[c].resp = ver], c)

-----------------------------------------------------------------------------
(* call() for a command on the dataset *)

ReadKeys(a) == IF a[1] = "mget" THEN ToSet(a[2]) ELSE {a[2]}

(* FLUSHDB and FLUSHALL make the caches forget everything; SWAPDB says     *)
(* nothing to them, and the application has to know.                       *)
SignalDb(v, s, flush) ==
  LET touched == FoldSet(LAMBDA k, u : touchWatchedKey(u, k), v, s.touched)
      told == IF flush THEN trackingInvalidateKeysOnFlush(touched)
              ELSE FoldSet(LAMBDA c, u : Drop(u, c, Names), touched, Client)
  IN Becomes(told, Nobody, [s EXCEPT !.touched = {}])

Timeout(v, c) == IF v.cl[c].wait = 0 THEN 0 ELSE v.s.now + v.cl[c].wait

callData(v, c, a) ==
  LET t == call([v.s EXCEPT !.flags = IF Has(v, c, "denyblocking") THEN {"denyblocking"} ELSE {}], a)
      changed == IF a[1] \in {"flushdb", "flushall", "swapdb"} THEN SignalDb(v, t, a[1] # "swapdb")
                 ELSE Becomes(v, c, t)
      u == Ready(changed, v.s.ready, {})
      b == t.reply
  IN IF b # <<>> /\ b[1] = "block"
     THEN IF b[2] \in BlockedOnKeys THEN blockForKeys(u, c, b[2], b[3], Timeout(v, c), b[4])
          ELSE blockForKeys(u, c, "stream", b[3], Timeout(v, c), [argv |-> a, ids |-> b[4]])
     ELSE IF a[1] \in ReadOnly THEN RememberKeys(Answer(u, c, b), c, ReadKeys(a))
     ELSE Answer(u, c, b)

(* redisCommandTable, for the commands that are not about the dataset *)
callOther(v, c, a) ==
  CASE a[1] = "multi" -> multiCommand(v, c)          [] a[1] = "discard" -> discardCommand(v, c)
    [] a[1] = "watch" -> watchCommand(v, c, a[2])    [] a[1] = "unwatch" -> unwatchCommand(v, c)
    [] a[1] = "subscribe" -> subscribeCommand(v, c, a[2])
    [] a[1] = "unsubscribe" -> unsubscribeCommand(v, c, a[2])
    [] a[1] = "psubscribe" -> psubscribeCommand(v, c, a[2])
    [] a[1] = "punsubscribe" -> punsubscribeCommand(v, c, a[2])
    [] a[1] = "publish" -> publishCommand(v, c, a[2])
    [] a[1] = "client" -> clientCommand(v, c, a)     [] a[1] = "reset" -> resetCommand(v, c)
    [] a[1] = "hello" -> helloCommand(v, c, a[2])    [] a[1] = "wait" -> waitCommand(v, c, a[2])
    [] a[1] = "eval" -> evalGenericCommand(v, c, a[2], FALSE)
    [] a[1] = "evalsha" -> evalGenericCommand(v, c, a[2], TRUE)
    [] a[1] = "script" -> scriptCommand(v, c, a)

Other == {"multi", "discard", "watch", "unwatch", "subscribe", "unsubscribe", "psubscribe", "punsubscribe",
          "publish", "client", "reset", "hello", "wait", "eval", "evalsha", "script"}

callQueued(v, c, a) ==
  LET name == a[1]
  IN IF name \in Other THEN callOther(v, c, a) ELSE callData(v, c, a)

(* The pause of a transaction begins when it is over. *)
callAny(v, c, a) ==
  LET u == IF a[1] = "exec" THEN execCommand(v, c) ELSE ClientProc(v, c, a)
  IN [u EXCEPT !.pausetx = FALSE]

-----------------------------------------------------------------------------
(* processCommand *)

MayReplicate(a) == a[1] \in {"publish", "eval", "evalsha", "script", "pfcount"}
                   \/ (a[1] \notin Other \cup {"exec"} /\ IsWrite(a))
WritesData(a) == a[1] \notin Other \cup {"exec"} /\ IsWrite(a)

(* A command, or for EXEC one of those in the queue *)
AnyOf(v, c, a, P(_)) == P(a) \/ (a[1] = "exec" /\ \E i \in DOMAIN v.cl[c].queue : P(v.cl[c].queue[i]))

rejectCommand(v, c, a) ==
  IF a[1] = "exec" THEN discardTransaction(Refuse(v, c), c) ELSE Refuse(flagTransaction(v, c), c)

InPubsub == {"subscribe", "unsubscribe", "psubscribe", "punsubscribe", "reset"}
Immediate == {"exec", "discard", "multi", "watch", "reset"}

(* The replication offset inside a step *)
Offset(v) == v.off + Len(v.s.repl)

(* The command is refused, postponed, queued or executed; what it made     *)
(* ready is served before the next command.                                *)
processCommand(v, c, a) ==
  LET limited == IF \E d \in Client : Has(v, d, "tracking") THEN trackingLimitUsedSlots(v) ELSE v
      after(u) == [u EXCEPT !.cl[c].woff = Offset(u)]
  IN IF a[1] = "quit" THEN Flag(Ok(v, c), c, {"closing"})
     ELSE IF a[1] = "nosuch" THEN rejectCommand(v, c, a)
     ELSE IF \/ v.s.role = "slave" /\ AnyOf(v, c, a, WritesData)
             \/ Has(v, c, "pubsub") /\ v.cl[c].resp = 2 /\ a[1] \notin InPubsub
     THEN rejectCommand(limited, c, a)
     ELSE IF v.pausetype = 2 \/ (v.pausetype = 1 /\ AnyOf(v, c, a, MayReplicate))
     THEN blockClient([limited EXCEPT !.cl[c].timeout = 0, !.cl[c].argv = a], c, "pause")
     ELSE IF Has(v, c, "multi") /\ a[1] \notin Immediate THEN queueMultiCommand(limited, c, a)
     ELSE handleClientsBlockedOnKeys(after(callAny(limited, c, a)))

processCommandAndResetClient(v, c, a) ==
  LET reset(u) == IF ~Alive(u, c) \/ Blocked(u, c) THEN u ELSE resetClient(u, c, a[1])
  IN reset(processCommand([v EXCEPT !.cl[c].got = <<>>], c, a))

(* The clients in the queue, also those that join it meanwhile: a command  *)
(* that waited for the end of a pause is executed now.                     *)
RECURSIVE processUnblockedClients(_)
processUnblockedClients(v) ==
  LET c == Head(v.unblocked)
      u == Unflag([v EXCEPT !.unblocked = Tail(@)], c, {"unblocked"})
  IN IF v.unblocked = <<>> THEN v
     ELSE processUnblockedClients(
            IF Blocked(u, c) \/ ~Has(u, c, "pending") THEN u
            ELSE processCommandAndResetClient(Unflag(u, c, {"pending"}), c, u.cl[c].argv))

-----------------------------------------------------------------------------
(* The end of a step: what was propagated is applied. *)
Forget(s) == [s EXCEPT !.aof = <<>>, !.repl = <<>>, !.touched = {}, !.ready = <<>>]

(* A client that cannot be told of changes does not cache. *)
Trust(v) ==
  [v EXCEPT !.cl = [c \in Client |-> IF Has(v, c, "tracking") /\ CanReceive(v, c) THEN @[c]
                                     ELSE [@[c] EXCEPT !.cache = NoCache]]]

Settle(v) ==
  /\ w' = Trust([v EXCEPT !.s = Forget(Settled(@)), !.off = Offset(v)])
  /\ replica' = FoldLeft(ApplyOne, [replica EXCEPT !.s.now = v.s.now], v.s.repl)
  /\ file' = FoldLeft(ApplyOne, [file EXCEPT !.s.now = v.s.now], v.s.aof)

Init ==
  /\ \E n \in DOMAIN Plays :
       env = [name |-> n, pc |-> [c \in Client |-> 1], ticks |-> Plays[n].ticks, faults |-> Plays[n].faults]
  /\ LET p == Plays[env.name]
         t == FoldLeft(LAMBDA s, a : Settled(call(s, a)), NewServer("master", 1), p.setup)
         loader == [NewServer("master", 1) EXCEPT !.loading = TRUE, !.caller = "aof"]
         slave == [NewServer("slave", 1) EXCEPT !.caller = "master"]
     IN /\ w = NewWorld(Forget(t), p.resp, p.wait)
        /\ replica = FoldLeft(ApplyOne, [s |-> slave, scripts |-> {}], t.repl)
        /\ file = FoldLeft(ApplyOne, [s |-> loader, scripts |-> {}], t.aof)

Idle(c) == Alive(w, c) /\ w.cl[c].flags \cap {"blocked", "closing", "pending"} = {}

(* The next command of a client's program arrives. *)
Command(c, a, victim) ==
  /\ Idle(c)
  /\ Settle(processCommandAndResetClient([w EXCEPT !.victim = victim], c, a))
  /\ env' = [env EXCEPT !.pc[c] = @ + 1]

(* The fault f of the scenario happens. *)
Fault(f) == f \in env.faults /\ env' = [env EXCEPT !.faults = @ \ {f}]

(* The connection is closed, whatever the client was doing. *)
Disconnect(c) ==
  /\ Fault(<<"close", c>>) /\ Alive(w, c)
  /\ Settle(freeClient(w, c))

(* The clock advances while somebody waits for a moment. *)
MayTick ==
  env.ticks > 0 \/ (\E e \in w.timeouts : e[1] >= w.s.now) \/ (w.pausetype # 0 /\ w.pauseend >= w.s.now)

Tick ==
  /\ MayTick
  /\ LET s == [w.s EXCEPT !.now = @ + 1, !.paused = w.pausetype # 0 /\ w.pauseend >= w.s.now + 1]
     IN Settle([w EXCEPT !.s = s])
  /\ env' = [env EXCEPT !.ticks = Max({0, @ - 1})]

(* A fast or a slow expire cycle tries a key; a replica and a paused       *)
(* master do not.                                                          *)
activeExpireCycle(k) ==
  LET u == checkClientPauseTimeout(w)
      t == activeExpireCycleTryExpire(u.s, k)
  IN /\ keyIsExpired(w.s, k) /\ w.s.role = "master" /\ ~u.s.paused
     /\ Settle(Becomes(u, Nobody, t))
     /\ UNCHANGED env

performEvictions(k) ==
  LET u == checkClientPauseTimeout(w)
      t == signalModifiedKey(dbDelete(propagateExpire(u.s, k), k), k)
  IN /\ Fault(<<"evict">>)
     /\ w.s.db[k] # None /\ w.s.role = "master" /\ ~u.s.paused
     /\ Settle(Becomes(u, Nobody, t))

serverCron ==
  /\ w.pausetype # 0 /\ w.pauseend < w.s.now
  /\ Settle(checkClientPauseTimeout(w))
  /\ UNCHANGED env

(* REPLCONF GETACK, unless clients are paused *)
RequestAck(v) ==
  LET ask(u) == IF u.pausetype # 0 THEN u
                ELSE [u EXCEPT !.getack = FALSE, !.s = Feed(@, <<"getack">>, {"repl"})]
  IN IF v.getack THEN ask(checkClientPauseTimeout(v)) ELSE v

freeClientsInAsyncFreeQueue(v) ==
  FoldSet(LAMBDA c, u : freeClient(u, c), v, {c \in Client : Has(v, c, "closing")})

AfterSleep(v) ==
  LET u == RequestAck(processUnblockedClients(processClientsWaitingReplicas(handleBlockedClientsTimeout(v))))
  IN handleClientsBlockedOnKeys(freeClientsInAsyncFreeQueue(trackingBroadcastInvalidationMessages(u)))

SomethingToDo ==
  \/ \E e \in w.timeouts : e[1] < w.s.now
  \/ w.unblocked # <<>>
  \/ \E c \in ToSet(w.waiting) : replicationCountAcksByOffset(w, w.cl[c].more[1]) >= w.cl[c].more[2]
  \/ w.getack /\ (w.pausetype = 0 \/ w.pauseend < w.s.now)
  \/ \E p \in DOMAIN w.bcast : w.bcast[p].keys # NoCache
  \/ \E c \in Client : Has(w, c, "closing")

beforeSleep ==
  /\ SomethingToDo
  /\ Settle(AfterSleep(w))
  /\ UNCHANGED env

(* REPLICAOF *)
replicationSetMaster ==
  /\ Fault(<<"demote">>)
  /\ Settle(disconnectAllBlockedClients([w EXCEPT !.s.role = "slave"]))

(* A replica acknowledges what it has processed, or is lost. *)
Ack(p, offset) ==
  /\ Plays[env.name].acks /\ w.acks[p] \in 0..(offset - 1)
  /\ w' = [w EXCEPT !.acks[p] = offset]
  /\ UNCHANGED <<replica, file, env>>

ReplicaLost(p) ==
  /\ Fault(<<"lost">>)
  /\ w' = [w EXCEPT !.acks[p] = -1]
  /\ UNCHANGED <<replica, file>>

(* startBgsaveForReplication: a replica loads a snapshot, with the scripts *)
FullResync ==
  /\ Fault(<<"fullsync">>) /\ w.s.role = "master"
  /\ w' = replicationScriptCacheFlush(w)
  /\ replica' = [s |-> [replica.s EXCEPT !.db = w.s.db, !.exp = w.s.exp], scripts |-> w.scripts]
  /\ UNCHANGED file

(* rewriteAppendOnlyFileBackground: the new file holds no scripts. *)
RewriteFile ==
  /\ Fault(<<"rewrite">>)
  /\ w' = replicationScriptCacheFlush(w)
  /\ file' = [s |-> [file.s EXCEPT !.db = w.s.db, !.exp = w.s.exp], scripts |-> {}]
  /\ UNCHANGED replica

Program(c) == Plays[env.name].prog[c]

Next ==
  \/ \E c \in Client : /\ env.pc[c] <= Len(Program(c))
                       /\ \E a \in Program(c)[env.pc[c]], n \in Plays[env.name].victims : Command(c, a, n)
  \/ \E c \in Client : Disconnect(c)
  \/ Tick
  \/ \E k \in Key : activeExpireCycle(k)
  \/ \E k \in Key : performEvictions(k)
  \/ serverCron
  \/ beforeSleep
  \/ replicationSetMaster
  \/ \E p \in Replicas : Ack(p, w.off)
  \/ \E p \in Replicas : ReplicaLost(p)
  \/ FullResync
  \/ RewriteFile

(* The event loop goes on, its timer fires and time passes; no client has  *)
(* to send anything.  (Weak fairness: each of the three either cannot      *)
(* happen again and again, or happens again and again.)                    *)
Fairness ==
  /\ []<>~MayTick \/ []<><<w'.s.now # w.s.now>>_vars
  /\ []<>~SomethingToDo \/ []<><<beforeSleep>>_vars
  /\ []<>~(w.pausetype # 0 /\ w.pauseend < w.s.now) \/ []<><<w'.pausetype = 0>>_vars

Spec == Init /\ [][Next]_vars /\ Fairness

-----------------------------------------------------------------------------
(* EXEC runs the whole queue, with one reply each, and only if no watched  *)
(* key is different from what it was at WATCH (touchWatchedKey,            *)
(* isWatchedKeyExpired): whoever changed it, and also if it has expired    *)
(* and is still in the dictionary.                                         *)
ExecIsIsolated ==
  \A c \in Client : LET got == w.cl[c].got IN
    got # <<>> /\ got[1][1] = "exec" => got[1] = <<"exec", {}, TRUE>>

(* Nobody stays blocked on a key that has what is waited for: a push wakes *)
(* up the clients blocked on the key (signalKeyAsReady), also from inside  *)
(* a script or a transaction, and also when it is the push that a client   *)
(* blocked in BLMOVE causes when it is served itself.                      *)
NobodyMissesAKey ==
  \A c \in Client : Blocked(w, c) =>
    \A i \in DOMAIN w.cl[c].bkeys : LET k == w.cl[c].bkeys[i]
                                        o == w.s.db[k]
                                        a == w.cl[c].more.argv IN
      Type(o) = w.cl[c].btype =>
        /\ w.cl[c].btype = "stream"
        /\ IF a[1] = "xreadgroup" THEN HasGroup(Val(o), a[6]) /\ ~Smaller(Val(o).groups[a[6]].last, Val(o).last)
           ELSE ~Smaller(w.cl[c].more.ids[i], Val(o).last)

(* The application behind a connection with tracking never holds a value   *)
(* the key does not have, unless the invalidation is among the broadcasts  *)
(* of the next beforeSleep.                                                *)
CachesFresh ==
  \A c \in Client : \A k \in DOMAIN w.cl[c].cache :
    \/ w.cl[c].cache[k] = w.s.db[k]
    \/ \E p \in w.cl[c].prefixes : LET ks == w.bcast[p].keys IN
         k[2] \in DOMAIN ks /\ ~(Has(w, c, "noloop") /\ ks[k[2]] = c)

(* The replica and the file get all that transactions, scripts and blocked *)
(* clients do; a script that is sent by its SHA is one they know, also     *)
(* after SCRIPT FLUSH, a full resynchronization or a rewrite of the file   *)
(* (replicationScriptCacheExists).                                         *)
FollowersAgree ==
  w.s.role = "master" =>
    \A x \in {replica, file} :
      /\ x.s.exp = w.s.exp /\ \A k \in Key : View(x.s.db[k]) = View(w.s.db[k])
      /\ ToSet(w.scache) \subseteq x.scripts

(* WAIT answers no more replicas than have acknowledged the last write     *)
(* that was propagated for the client, also when the wait times out and    *)
(* when the answer is that of another client which waited too.             *)
WaitIsHonest ==
  [][\A c \in Client : LET got == w'.cl[c].got IN
       got # w.cl[c].got /\ got # <<>> /\ got[1][1] = "acks" =>
         got[1][2] <= replicationCountAcksByOffset(w', w'.cl[c].wrote)]_vars

(* A client that blocks with a timeout, or because of a pause, does not    *)
(* wait forever, whatever the others do.                                   *)
NobodyWaitsForever ==
  \A c \in Client : (Blocked(w, c) /\ (w.cl[c].timeout # 0 \/ w.cl[c].btype = "pause")) ~> ~Blocked(w, c)

(* The assertions of propagate() and of replyToBlockedClientTimedOut hold. *)
AssertionsHold == w.failed = {}

=============================================================================
