------------------------------ MODULE Sentinel ------------------------------
(***************************************************************************)
(* Redis Sentinel (sentinel.c): processes that watch one replicated group  *)
(* of Redis servers, agree that its master is down, elect one of them for  *)
(* an epoch and let it promote a slave; the others learn the new master    *)
(* from the hello messages.                                                *)
(*                                                                         *)
(* Each Sentinel is single-threaded: an action is one tick of its timer,   *)
(* one message or one command.  Time is abstract: what is due in a tick is *)
(* the tick's input.  A Sentinel is a record n: what it believes of the    *)
(* group is n.m, what it would read back after a crash is n.disk, and      *)
(* n.out collects what one handler sends.  A Redis server is external: it  *)
(* has a role, obeys SLAVEOF and tells INFO.                               *)
(***************************************************************************)
EXTENDS Integers, FiniteSets
LOCAL INSTANCE FiniteSetsExt
LOCAL INSTANCE TLC

CONSTANTS Sentinels,     \* ids of the Sentinels (strings)
          Instances,     \* the Redis servers: positive numbers, in runid order
          parallel_syncs,
          Attributes,    \* the priority and the replication offset of each server
          Scenarios      \* how each behaviour starts, and which faults it may see

NoOne == 0               \* no server, and the argument of SLAVEOF NO ONE
Nobody == "*"            \* no Sentinel

VARIABLES sn,       \* the Sentinels
          inst,     \* the Redis servers
          net,      \* the messages on their way
          env,      \* the scenario and what is left of its faults
          elected   \* history: <<failover epoch, Sentinel>> of every election won

vars == <<sn, inst, net, env, elected>>

NONE == 0
WAIT_START == 1
SELECT_SLAVE == 2
SEND_SLAVEOF_NOONE == 3
WAIT_PROMOTION == 4
RECONF_SLAVES == 5
UPDATE_CONFIG == 6

-----------------------------------------------------------------------------
(* Instances and the configuration file                                    *)

\* A slave and another Sentinel as they are when they enter their tables.
NewSlave == [sdown |-> FALSE, reconf |-> {}]
NewSentinel == [down |-> FALSE, leader |-> Nobody, lepoch |-> 0]

createSentinelRedisInstance(addr, quorum, slaves, sents) ==
  [addr |-> addr, quorum |-> quorum, cfg |-> 0, leader |-> Nobody, lepoch |-> 0,
   sdown |-> FALSE, odown |-> FALSE, role |-> "master", state |-> NONE,
   fepoch |-> 0, force |-> FALSE, cool |-> FALSE, promoted |-> NoOne,
   slaves |-> [i \in slaves |-> NewSlave], sents |-> [y \in sents |-> NewSentinel]]

\* The group when the Sentinel does not monitor it.
NoMaster == createSentinelRedisInstance(NoOne, 1, {}, {})
Monitors(n) == n.m.addr # NoOne

\* A promoted slave is announced as soon as it has acknowledged the switch.
sentinelGetCurrentMasterAddress(m) ==
  IF m.promoted # NoOne /\ m.state >= RECONF_SLAVES THEN m.promoted ELSE m.addr

\* Mutant: the epoch of the last vote is not written down.
NoLeaderEpoch(n) ==
  [epoch |-> n.epoch, addr |-> sentinelGetCurrentMasterAddress(n.m),
   quorum |-> n.m.quorum, cfg |-> n.m.cfg, lepoch |-> 0,
   slaves |-> {IF i = sentinelGetCurrentMasterAddress(n.m) THEN n.m.addr ELSE i :
                 i \in DOMAIN n.m.slaves},
   sents |-> DOMAIN n.m.sents]

\* Mutant: the old master is written, whatever was promoted.
OldMasterWritten(n) ==
  [epoch |-> n.epoch, addr |-> n.m.addr, quorum |-> n.m.quorum, cfg |-> n.m.cfg,
   lepoch |-> n.m.lepoch, slaves |-> DOMAIN n.m.slaves, sents |-> DOMAIN n.m.sents]

\* During a failover the promoted slave is written as the master, and the old
\* master in its place among the slaves.
rewriteConfigSentinelOption(n) ==
  [epoch |-> n.epoch, addr |-> sentinelGetCurrentMasterAddress(n.m),
   quorum |-> n.m.quorum, cfg |-> n.m.cfg, lepoch |-> n.m.lepoch,
   slaves |-> {IF i = sentinelGetCurrentMasterAddress(n.m) THEN n.m.addr ELSE i :
                 i \in DOMAIN n.m.slaves},
   sents |-> DOMAIN n.m.sents]

sentinelFlushConfig(n) == [n EXCEPT !.disk = rewriteConfigSentinelOption(n)]

\* A Sentinel that starts from the file d.  Who got its last vote is forgotten, that
\* it voted in that epoch is not.
sentinelHandleConfiguration(d) ==
  [up |-> TRUE, epoch |-> IF d.cfg > d.epoch THEN d.cfg ELSE d.epoch, tilt |-> FALSE,
   sim |-> {}, out |-> {}, disk |-> d,
   m |-> IF d.addr = NoOne THEN NoMaster
         ELSE [createSentinelRedisInstance(d.addr, d.quorum, d.slaves, d.sents)
                 EXCEPT !.cfg = d.cfg, !.lepoch = d.lepoch]]

\* Forget the slaves, any failover and, but for a switch of address, the Sentinels.
sentinelResetMaster(n, addr, slaves, sents) ==
  [n EXCEPT !.m =
     [createSentinelRedisInstance(addr, n.m.quorum, slaves, {}) EXCEPT
        !.sents = sents, !.cfg = n.m.cfg, !.lepoch = n.m.lepoch, !.fepoch = n.m.fepoch]]

\* Mutant: the old master is forgotten.
OldMasterForgotten(n, addr) ==
  sentinelFlushConfig(
    sentinelResetMaster(n, addr, DOMAIN n.m.slaves \ {addr}, n.m.sents))

\* The old master stays in the table, as a slave.
sentinelResetMasterAndChangeAddress(n, addr) ==
  sentinelFlushConfig(
    sentinelResetMaster(n, addr, (DOMAIN n.m.slaves \cup {n.m.addr}) \ {addr}, n.m.sents))

-----------------------------------------------------------------------------
(* The election                                                            *)

\* One vote per epoch, and none in an old one; both are written before the answer
\* leaves.  A vote for another Sentinel delays a failover of our own.
sentinelVoteLeader(n, x, e, id) ==
  LET vote(u) ==
        IF u.m.lepoch < e /\ u.epoch <= e
        THEN sentinelFlushConfig(
               [u EXCEPT !.m.leader = id, !.m.lepoch = u.epoch,
                         !.m.cool = @ \/ id # x])
        ELSE u
  IN vote(IF e > n.epoch THEN sentinelFlushConfig([n EXCEPT !.epoch = e]) ELSE n)

\* The votes the other Sentinels reported for id in the current epoch.
sentinelLeaderIncr(n, id) ==
  Cardinality({y \in DOMAIN n.m.sents :
                 n.m.sents[y].leader = id /\ n.m.sents[y].lepoch = n.epoch})

\* A majority of the Sentinels it knows, and the quorum.
Wins(n, votes) ==
  votes >= (Cardinality(DOMAIN n.m.sents) + 1) \div 2 + 1 /\ votes >= n.m.quorum

\* Who leads epoch e in n's eyes, after n has voted: for the Sentinel that is ahead,
\* or else for itself.  (A tie goes to the first of the dict.)
sentinelGetLeader(n, x, e) ==
  LET ids == {n.m.sents[y].leader : y \in DOMAIN n.m.sents} \ {Nobody}
      ahead == {id \in ids : /\ sentinelLeaderIncr(n, id) > 0
                             /\ \A o \in ids : sentinelLeaderIncr(n, o)
                                                 <= sentinelLeaderIncr(n, id)}
      first == IF ahead = {} THEN Nobody ELSE CHOOSE id \in ahead : TRUE
      count(v, id) == sentinelLeaderIncr(v, id)
                        + IF v.m.leader = id /\ v.m.lepoch = e THEN 1 ELSE 0
      most(v) == IF count(v, v.m.leader) > count(v, first) \/ first = Nobody
                 THEN v.m.leader ELSE first
      verdict(v, id) == [n |-> v, leader |-> IF id # Nobody /\ Wins(v, count(v, id))
                                             THEN id ELSE Nobody]
      told(v) == verdict(v, IF v.m.leader # Nobody /\ v.m.lepoch = e
                            THEN most(v) ELSE first)
  IN told(sentinelVoteLeader(n, x, e, IF first = Nobody THEN x ELSE first))

-----------------------------------------------------------------------------
(* The failover                                                            *)

Send(n, msgs) == [n EXCEPT !.out = @ \cup msgs]
sentinelSendSlaveOf(n, x, i, of) == Send(n, {[t |-> "slaveof", from |-> x, to |-> i, of |-> of]})

\* The epoch is not written here: the vote that follows in the same tick does it.
sentinelStartFailover(n, force) ==
  [n EXCEPT !.epoch = @ + 1, !.m.state = WAIT_START, !.m.fepoch = n.epoch + 1,
            !.m.cool = TRUE, !.m.force = force]

sentinelAbortFailover(n) ==
  [n EXCEPT !.m.state = NONE, !.m.promoted = NoOne, !.m.force = FALSE]

\* Lower priority, then greater offset, then smaller runid.
compareSlavesForPromotion(i, j) ==
  LET a == Attributes[i] b == Attributes[j]
  IN \/ a.prio < b.prio
     \/ a.prio = b.prio /\ (a.off > b.off \/ (a.off = b.off /\ i <= j))

\* A slave that can be reached has told its priority and offset lately.
sentinelSelectSlave(n, reach) ==
  LET good == {i \in DOMAIN n.m.slaves \cap reach :
                 ~n.m.slaves[i].sdown /\ Attributes[i].prio # 0}
  IN IF good = {} THEN NoOne
     ELSE CHOOSE i \in good : \A j \in good : compareSlavesForPromotion(i, j)

\* Go on as the elected leader or on the user's order; wait for votes otherwise.
sentinelFailoverWaitStart(n, x, late) ==
  LET go(r) ==
        IF r.leader # x /\ ~r.n.m.force
        THEN IF late THEN sentinelAbortFailover(r.n) ELSE r.n
        ELSE [r.n EXCEPT !.m.state = SELECT_SLAVE,
                         !.up = "crash-after-election" \notin r.n.sim]
  IN go(sentinelGetLeader(n, x, n.m.fepoch))

sentinelFailoverSelectSlave(n, reach) ==
  LET take(i) == IF i = NoOne THEN sentinelAbortFailover(n)
                 ELSE [n EXCEPT !.m.promoted = i, !.m.state = SEND_SLAVEOF_NOONE]
  IN take(sentinelSelectSlave(n, reach))

sentinelFailoverSendSlaveOfNoOne(n, x, reach, late) ==
  IF n.m.promoted \in reach
  THEN [sentinelSendSlaveOf(n, x, n.m.promoted, NoOne) EXCEPT !.m.state = WAIT_PROMOTION]
  ELSE IF late THEN sentinelAbortFailover(n) ELSE n

sentinelFailoverWaitPromotion(n, late) == IF late THEN sentinelAbortFailover(n) ELSE n

Flags(n, i) == n.m.slaves[i].reconf

\* The failover ends when the slaves that answer follow the promoted one, or by
\* timeout with a last SLAVEOF to those that were not told; not while the promoted
\* slave itself is unreachable.
sentinelFailoverDetectEnd(n, x, reach, late) ==
  LET others == DOMAIN n.m.slaves \ {n.m.promoted}
      left == {i \in others : "DONE" \notin Flags(n, i) /\ ~n.m.slaves[i].sdown}
      untold == {i \in others \cap reach : Flags(n, i) \cap {"DONE", "SENT"} = {}}
      tell(u, i) == [sentinelSendSlaveOf(u, x, i, n.m.promoted)
                       EXCEPT !.m.slaves[i].reconf = @ \cup {"SENT"}]
      end(u) == [u EXCEPT !.m.state = UPDATE_CONFIG]
  IN IF n.m.slaves[n.m.promoted].sdown THEN n
     ELSE IF late THEN FoldSet(LAMBDA i, u : tell(u, i), end(n), untold)
     ELSE IF left = {} THEN end(n) ELSE n

\* At most parallel_syncs slaves at a time; one that was told long ago counts as done,
\* and is told again.
sentinelFailoverReconfNextSlave(n, x, reach, slow, late) ==
  LET in_progress == Cardinality({i \in DOMAIN n.m.slaves :
                                    Flags(n, i) \cap {"SENT", "INPROG"} # {}})
      expire(u, i) == IF slow /\ "SENT" \in Flags(u, i)
                      THEN [u EXCEPT !.m.slaves[i].reconf = (@ \ {"SENT"}) \cup {"DONE"}]
                      ELSE u
      tell(u, k, i) == IF Flags(u, i) \cap {"SENT", "INPROG"} = {} /\ i \in reach
                       THEN [n |-> [sentinelSendSlaveOf(u, x, i, u.m.promoted)
                                      EXCEPT !.m.slaves[i].reconf = @ \cup {"SENT"}],
                             k |-> k + 1]
                       ELSE [n |-> u, k |-> k]
      next(v, i) == IF v.k >= parallel_syncs \/ "DONE" \in Flags(v.n, i) THEN v
                    ELSE tell(expire(v.n, i), v.k, i)
  IN sentinelFailoverDetectEnd(
       FoldSet(LAMBDA i, v : next(v, i), [n |-> n, k |-> in_progress],
               DOMAIN n.m.slaves \ {n.m.promoted}).n,
       x, reach, late)

sentinelFailoverStateMachine(n, x, reach, slow, late) ==
  CASE n.m.state = WAIT_START -> sentinelFailoverWaitStart(n, x, late)
    [] n.m.state = SELECT_SLAVE -> sentinelFailoverSelectSlave(n, reach)
    [] n.m.state = SEND_SLAVEOF_NOONE -> sentinelFailoverSendSlaveOfNoOne(n, x, reach, late)
    [] n.m.state = WAIT_PROMOTION -> sentinelFailoverWaitPromotion(n, late)
    [] n.m.state = RECONF_SLAVES -> sentinelFailoverReconfNextSlave(n, x, reach, slow, late)
    [] OTHER -> n

sentinelFailoverSwitchToPromotedSlave(n) ==
  sentinelResetMasterAndChangeAddress(n, n.m.promoted)

-----------------------------------------------------------------------------
(* The timer                                                               *)

\* What is due in a tick: the verdict on a server, an answer from a Sentinel (an
\* old one expires), the timeout of a slave that was told to reconfigure, the timeout
\* of whatever else the Sentinel waits for, a jump of the clock.
Tick ==
  [down |-> NoOne, ask |-> Nobody, old |-> FALSE, slow |-> FALSE, late |-> FALSE,
   odd |-> FALSE]
Ticks == {Tick, [Tick EXCEPT !.slow = TRUE], [Tick EXCEPT !.late = TRUE],
          [Tick EXCEPT !.odd = TRUE]}
           \cup {[Tick EXCEPT !.down = i] : i \in Instances}
           \cup {[Tick EXCEPT !.ask = y, !.old = o] : y \in Sentinels, o \in BOOLEAN}

\* Down is: it does not answer, or it is the master and calls itself a slave.
sentinelCheckSubjectivelyDown(n, i, reach) ==
  IF i = n.m.addr THEN [n EXCEPT !.m.sdown = i \notin reach \/ n.m.role = "slave"]
  ELSE IF i \in DOMAIN n.m.slaves THEN [n EXCEPT !.m.slaves[i].sdown = i \notin reach]
  ELSE n

sentinelCheckObjectivelyDown(n) ==
  [n EXCEPT !.m.odown =
     /\ n.m.sdown
     /\ 1 + Cardinality({y \in DOMAIN n.m.sents : n.m.sents[y].down}) >= n.m.quorum]

\* Ask the Sentinels ys, and for their vote when a failover is on.
sentinelAskMasterStateToOtherSentinels(n, x, ys, old) ==
  LET asked == ys \cap DOMAIN n.m.sents
      cleared == IF ~old THEN n
                 ELSE [n EXCEPT !.m.sents =
                         [y \in DOMAIN n.m.sents |->
                            IF y \in asked
                            THEN [n.m.sents[y] EXCEPT !.down = FALSE, !.leader = Nobody]
                            ELSE n.m.sents[y]]]
  IN IF ~n.m.sdown THEN cleared
     ELSE Send(cleared, {[t |-> "ask", from |-> x, to |-> y, addr |-> n.m.addr,
                          epoch |-> n.epoch, id |-> IF n.m.state > NONE THEN x ELSE Nobody] :
                           y \in asked})

\* Down for the quorum, no failover on, and none tried lately.
sentinelStartFailoverIfNeeded(n, x, late) ==
  IF n.m.odown /\ n.m.state = NONE /\ (~n.m.cool \/ late)
  THEN sentinelAskMasterStateToOtherSentinels(
         sentinelStartFailover(n, FALSE), x, Sentinels, FALSE)
  ELSE n

\* The acting half for the master.
sentinelHandleRedisInstance(n, x, reach, tick) ==
  LET machine(u) == sentinelFailoverStateMachine(
                      u, x, reach, tick.slow, tick.late /\ u.m.fepoch = n.m.fepoch)
  IN sentinelAskMasterStateToOtherSentinels(
       machine(sentinelStartFailoverIfNeeded(
         sentinelCheckObjectivelyDown(
           IF tick.down = n.m.addr
           THEN sentinelCheckSubjectivelyDown(n, tick.down, reach) ELSE n),
         x, tick.late)),
       x, {tick.ask}, tick.old)

\* The master, then its slaves, then the end of a failover.
sentinelHandleDictOfRedisInstances(n, x, reach, tick) ==
  LET slaves(u) == IF tick.down # u.m.addr
                   THEN sentinelCheckSubjectivelyDown(u, tick.down, reach) ELSE u
      switch(u) == IF u.m.state = UPDATE_CONFIG
                   THEN sentinelFailoverSwitchToPromotedSlave(u) ELSE u
  IN switch(slaves(sentinelHandleRedisInstance(n, x, reach, tick)))

\* In tilt mode, until its period has passed, a Sentinel does not act.
sentinelTimer(n, x, reach, tick) ==
  IF tick.odd \/ (n.tilt /\ ~tick.late) THEN [n EXCEPT !.tilt = TRUE]
  ELSE sentinelHandleDictOfRedisInstances([n EXCEPT !.tilt = FALSE], x, reach, tick)

-----------------------------------------------------------------------------
(* What arrives                                                            *)

sentinelMasterLooksSane(n, reach) ==
  n.m.role = "master" /\ ~n.m.sdown /\ ~n.m.odown /\ n.m.addr \in reach

\* What server i tells in answer to INFO.
Info(w, i) ==
  [from |-> i, of |-> w[i].master,
   role |-> IF w[i].master = NoOne THEN "master" ELSE "slave",
   link |-> w[i].master # NoOne /\ w[w[i].master].up,
   replicas |-> {j \in Instances : w[j].up /\ w[j].master = i}]

\* INFO of the master: the slaves it names enter the table.
InfoOfMaster(n, info) ==
  LET new == info.replicas \ DOMAIN n.m.slaves
      seen(u) == [u EXCEPT !.m.role = info.role]
  IN seen(IF new = {} THEN n
          ELSE sentinelFlushConfig(
                 [n EXCEPT !.m.slaves = n.m.slaves @@ [j \in new |-> NewSlave]]))

\* The promoted slave calls itself a master: the new configuration exists, under the
\* epoch of the election, and is on disk before anybody hears of it.
Promoted(n) ==
  sentinelFlushConfig([n EXCEPT !.m.cfg = n.m.fepoch, !.m.state = RECONF_SLAVES,
                                !.up = "crash-after-promotion" \notin n.sim])

\* INFO of a slave i.  A slave that calls itself a master for four hello periods
\* (patience 1), or follows another master for failover_timeout (patience 2), is brought
\* in line with a master that looks sane.
InfoOfSlave(n, x, i, info, reach, patience) ==
  LET flags == Flags(n, i)
      inprog == IF "SENT" \in flags /\ info.of = n.m.promoted
                THEN (flags \ {"SENT"}) \cup {"INPROG"} ELSE flags
      moved == IF "INPROG" \in inprog /\ info.link
               THEN (inprog \ {"INPROG"}) \cup {"DONE"} ELSE inprog
      fixed(wait) ==
        IF /\ patience >= wait /\ sentinelMasterLooksSane(n, reach)
           /\ ~n.m.slaves[i].sdown
        THEN sentinelSendSlaveOf(n, x, i, n.m.addr) ELSE n
  IN IF n.tilt THEN n
     ELSE IF info.role = "slave"
     THEN [(IF info.of = n.m.addr THEN n ELSE fixed(2)) EXCEPT !.m.slaves[i].reconf = moved]
     ELSE IF i # n.m.promoted THEN fixed(1)
     ELSE IF n.m.state = WAIT_PROMOTION THEN Promoted(n) ELSE n

sentinelRefreshInstanceInfo(n, x, info, reach, patience) ==
  IF info.from = n.m.addr THEN InfoOfMaster(n, info)
  ELSE IF info.from \in DOMAIN n.m.slaves
  THEN InfoOfSlave(n, x, info.from, info, reach, patience) ELSE n

\* What x tells of itself and of the group.
sentinelSendHello(n, x) ==
  [from |-> x, epoch |-> n.epoch, addr |-> sentinelGetCurrentMasterAddress(n.m),
   cfg |-> n.m.cfg]

\* Meet the sender, catch up with its epoch, and take its configuration if it is newer.
sentinelProcessHelloMessage(n, h) ==
  LET meet(u) == IF h.from \in DOMAIN u.m.sents THEN u
                 ELSE sentinelFlushConfig(
                        [u EXCEPT !.m.sents = @ @@ [y \in {h.from} |-> NewSentinel]])
      catch(u) == IF h.epoch > u.epoch
                  THEN sentinelFlushConfig([u EXCEPT !.epoch = h.epoch]) ELSE u
      adopt(u) == IF h.cfg <= u.m.cfg THEN u
                  ELSE IF h.addr = u.m.addr THEN [u EXCEPT !.m.cfg = h.cfg]
                  ELSE sentinelResetMasterAndChangeAddress(
                         [u EXCEPT !.m.cfg = h.cfg], h.addr)
  IN IF Monitors(n) THEN adopt(catch(meet(n))) ELSE n

\* SENTINEL IS-MASTER-DOWN-BY-ADDR: is this master down, and who has x's vote?  
IsMasterDownByAddr(n, x, q) ==
  LET ri == Monitors(n) /\ n.m.addr = q.addr
      answer(u, leader, lepoch) ==
        [n |-> u, from |-> x, down |-> ri /\ ~u.tilt /\ u.m.sdown, leader |-> leader,
         lepoch |-> lepoch]
      voted(u) == answer(u, u.m.leader, u.m.lepoch)
  IN IF ri /\ q.id # Nobody THEN voted(sentinelVoteLeader(n, x, q.epoch, q.id))
     ELSE answer(n, Nobody, 0)

sentinelReceiveIsMasterDownReply(n, v) ==
  IF v.from \notin DOMAIN n.m.sents THEN n
  ELSE [n EXCEPT !.m.sents[v.from] =
          [down |-> v.down, leader |-> IF v.leader = Nobody THEN @.leader ELSE v.leader,
           lepoch |-> IF v.leader = Nobody THEN @.lepoch ELSE v.lepoch]]

-----------------------------------------------------------------------------
(* The user's commands                                                     *)

sentinelResetMastersByPattern(n) == sentinelResetMaster(n, n.m.addr, {}, NoMaster.sents)

\* SENTINEL FAILOVER: no agreement is asked for.
FailoverCommand(n, reach) ==
  IF n.m.state # NONE \/ sentinelSelectSlave(n, reach) = NoOne
  THEN n ELSE sentinelStartFailover(n, TRUE)

MonitorCommand(n, addr, quorum) ==
  IF Monitors(n) THEN n
  ELSE sentinelFlushConfig(
         [n EXCEPT !.m = createSentinelRedisInstance(addr, quorum, {}, {})])

RemoveCommand(n) == sentinelFlushConfig([n EXCEPT !.m = NoMaster])

sentinelSetCommand(n, quorum) == sentinelFlushConfig([n EXCEPT !.m.quorum = quorum])

\* A command c = <<name, Sentinel, argument>>; all but MONITOR need the group's name
\* to be known.
sentinelCommand(n, c, reach) ==
  CASE c[1] = "simulate-failure" -> [n EXCEPT !.sim = {c[3]}]
    [] c[1] = "flushconfig" -> sentinelFlushConfig(n)
    [] c[1] = "monitor" -> MonitorCommand(n, c[3][1], c[3][2])
    [] ~Monitors(n) -> n
    [] c[1] = "reset" -> sentinelResetMastersByPattern(n)
    [] c[1] = "failover" -> FailoverCommand(n, reach)
    [] c[1] = "remove" -> RemoveCommand(n)
    [] c[1] = "set-quorum" -> sentinelSetCommand(n, c[3])

-----------------------------------------------------------------------------
(* The system                                                              *)

\* A scenario: the first master and its slaves, the quorum, the Sentinels that monitor
\* the group and which others they know, the bounds on epochs and on questions on their
\* way, <<Sentinel, server>> pairs where the Sentinel is too slow to notice a crash; then
\* what may still happen: servers that crash and how many come back, answers that get
\* too old, Sentinels that crash, that see the clock jump, links to servers that are cut and
\* Sentinels that are apart, messages that are lost, commands that users give.
Init ==
  \E sc \in Scenarios :
    /\ env = sc
    /\ inst = [i \in Instances |->
                 [up |-> i \in {sc.master} \cup sc.slaves,
                  master |-> IF i = sc.master THEN NoOne ELSE sc.master]]
    /\ sn = [x \in Sentinels |->
               sentinelHandleConfiguration(
                 [epoch |-> 0, addr |-> IF x \in sc.monitors THEN sc.master ELSE NoOne,
                  quorum |-> sc.quorum, cfg |-> 0, lepoch |-> 0,
                  slaves |-> IF x \in sc.monitors THEN sc.slaves ELSE {},
                  sents |-> IF x \in sc.monitors THEN sc.knows[x] ELSE {}])]
    /\ net = {}
    /\ elected = {}

Reach(x) == {i \in Instances : inst[i].up /\ <<x, i>> \notin env.cut}

\* For x to become n is a change, within the bounds.
Allowed(x, n) ==
  /\ [n EXCEPT !.out = {}] # sn[x] \/ ~(n.out \subseteq net)
  /\ n.out # {} => Cardinality({g \in net \cup n.out : g.t = "ask"}) <= env.net
  /\ n.epoch <= env.epochs

\* Sentinel x becomes n.  A process that exits sends nothing.
Becomes(x, n) ==
  /\ sn' = [sn EXCEPT ![x] = [n EXCEPT !.out = {}]]
  /\ net' = net \cup IF n.up THEN n.out ELSE {}
  /\ elected' = IF /\ sn[x].m.state <= WAIT_START /\ n.m.state = SELECT_SLAVE
                   /\ ~n.m.force
                THEN elected \cup {<<n.m.fepoch, x>>} ELSE elected
  /\ UNCHANGED inst

\* A tick in which something is due, or in which a failover goes on.
Ticked(x, tick) == sentinelTimer(sn[x], x, Reach(x), tick)
Due(x, tick) ==
  /\ sn[x].up /\ Monitors(sn[x])
  /\ tick.odd => x \in env.tilts
  /\ tick.old => <<x, tick.ask>> \in env.old
  /\ tick.down # NoOne => <<x, tick.down>> \notin env.blind
  /\ ~\E g \in net : g.t = "ask" /\ g.from = x /\ g.to = tick.ask
  /\ Allowed(x, Ticked(x, tick))

Timer(x, tick) ==
  /\ Due(x, tick)
  /\ Becomes(x, Ticked(x, tick))
  /\ env' = IF tick.odd THEN [env EXCEPT !.tilts = @ \ {x}]
            ELSE IF tick.old THEN [env EXCEPT !.old = @ \ {<<x, tick.ask>>}] ELSE env

\* The periodic hello from y reaches x.
Hello(x, y) == sentinelProcessHelloMessage(sn[x], sentinelSendHello(sn[y], y))
News(x, y) ==
  /\ x # y /\ sn[x].up /\ sn[y].up /\ Monitors(sn[y]) /\ <<x, y>> \notin env.apart
  /\ Allowed(x, Hello(x, y))

GetHello(x, y) ==
  /\ News(x, y)
  /\ Becomes(x, Hello(x, y))
  /\ UNCHANGED env

\* The periodic INFO and its answer.  After four periods of the hello messages nobody
\* that x can hear has news for it; after failover_timeout no failover of theirs, or of
\* its own, still reconfigures the slaves.
Informed(x, i, patience) ==
  sentinelRefreshInstanceInfo(sn[x], x, Info(inst, i), Reach(x), patience)
Informs(x, i, patience) ==
  /\ sn[x].up /\ i \in Reach(x)
  /\ patience >= 1 => \A y \in Sentinels : ~News(x, y)
  /\ patience = 2 => \A y \in Sentinels : sn[y].up /\ <<x, y>> \notin env.apart
                                           => sn[y].m.state # RECONF_SLAVES
  /\ Allowed(x, Informed(x, i, patience))

GetInfo(x, i, patience) ==
  /\ Informs(x, i, patience)
  /\ Becomes(x, Informed(x, i, patience))
  /\ UNCHANGED env

\* A Sentinel answers; the answer is lost if the one who asked is gone.
Delivered(g) ==
  IF g.t = "ask" THEN sn[g.to].up /\ <<g.from, g.to>> \notin env.apart ELSE inst[g.to].up
RecvAsk(g) ==
  /\ g.t = "ask" /\ Delivered(g)
  /\ LET r == IsMasterDownByAddr(sn[g.to], g.to, g)
     IN sn' = [sn EXCEPT ![g.to] = r.n,
                         ![g.from] = IF @.up THEN sentinelReceiveIsMasterDownReply(@, r) ELSE @]
  /\ net' = net \ {g}
  /\ UNCHANGED <<inst, env, elected>>

\* The server obeys; CONFIG REWRITE makes its new role survive a restart.
RecvSlaveOf(g) ==
  /\ g.t = "slaveof" /\ Delivered(g)
  /\ inst' = [inst EXCEPT ![g.to].master = g.of]
  /\ net' = net \ {g}
  /\ UNCHANGED <<sn, env, elected>>

Command(c) ==
  /\ sn[c[2]].up
  /\ Becomes(c[2], sentinelCommand(sn[c[2]], c, Reach(c[2])))
  /\ env' = [env EXCEPT !.cmds = @ \ {c}]

Lose(g) ==
  /\ env.losses > 0
  /\ env' = [env EXCEPT !.losses = @ - 1]
  /\ net' = net \ {g}
  /\ UNCHANGED <<sn, inst, elected>>

SentinelCrash(x) ==
  /\ x \in env.scrash /\ sn[x].up
  /\ env' = [env EXCEPT !.scrash = @ \ {x}]
  /\ sn' = [sn EXCEPT ![x].up = FALSE]
  /\ net' = {g \in net : g.t # "ask" \/ g.to # x}
  /\ UNCHANGED <<inst, elected>>

SentinelRestart(x) ==
  /\ ~sn[x].up
  /\ sn' = [sn EXCEPT ![x] = sentinelHandleConfiguration(sn[x].disk)]
  /\ UNCHANGED <<inst, net, env, elected>>

InstanceCrash(i) ==
  /\ i \in env.icrash /\ inst[i].up
  /\ env' = [env EXCEPT !.icrash = @ \ {i}]
  /\ inst' = [inst EXCEPT ![i].up = FALSE]
  /\ net' = {g \in net : g.t # "slaveof" \/ g.to # i}
  /\ UNCHANGED <<sn, elected>>

InstanceRestart(i) ==
  /\ ~inst[i].up /\ env.iback > 0
  /\ env' = [env EXCEPT !.iback = @ - 1]
  /\ inst' = [inst EXCEPT ![i].up = TRUE]
  /\ UNCHANGED <<sn, net, elected>>

Heal ==
  /\ env.cut # {} \/ env.apart # {}
  /\ env' = [env EXCEPT !.cut = {}, !.apart = {}]
  /\ UNCHANGED <<sn, inst, net, elected>>

Next ==
  \/ \E x \in Sentinels, tick \in Ticks : Timer(x, tick)
  \/ \E x \in Sentinels, i \in Instances, patience \in 0 .. 2 : GetInfo(x, i, patience)
  \/ \E x, y \in Sentinels : GetHello(x, y)
  \/ \E g \in net : RecvAsk(g)
  \/ \E g \in net : RecvSlaveOf(g)
  \/ \E c \in env.cmds : Command(c)
  \/ \E g \in net : Lose(g)
  \/ \E x \in Sentinels : SentinelCrash(x)
  \/ \E x \in Sentinels : SentinelRestart(x)
  \/ \E i \in Instances : InstanceCrash(i)
  \/ \E i \in Instances : InstanceRestart(i)
  \/ Heal

\* The timers, the periodic INFO and hello, the delivery of commands to the servers,
\* and the supervisor that restarts a Sentinel; not the questions between Sentinels,
\* which repeat for ever.
Acts == {tick \in Ticks : tick.ask = Nobody}
Work ==
  \/ \E x \in Sentinels, tick \in Acts : Timer(x, tick)
  \/ \E x \in Sentinels, i \in Instances, patience \in 0 .. 2 : GetInfo(x, i, patience)
  \/ \E x, y \in Sentinels : GetHello(x, y)
  \/ \E g \in net : RecvSlaveOf(g)
  \/ \E x \in Sentinels : SentinelRestart(x)
CanWork ==
  \/ \E x \in Sentinels : (\E tick \in Acts : Due(x, tick)) \/ ~sn[x].up
  \/ \E x \in Sentinels, i \in Instances, patience \in 0 .. 2 : Informs(x, i, patience)
  \/ \E x, y \in Sentinels : News(x, y)
  \/ \E g \in net : g.t = "slaveof" /\ Delivered(g)

\* While there is work it goes on: the weak fairness of Work, its ENABLED spelt out.
Fairness == []<>~CanWork \/ []<><<Work>>_vars

Spec == Init /\ [][Next]_vars /\ Fairness

-----------------------------------------------------------------------------
(* Properties                                                              *)

\* At most one Sentinel is elected for a failover epoch, whatever crashes, restarts
\* and delays happen in between (sentinelVoteLeader, sentinelGetLeader).
OneLeaderPerEpoch == \A a, b \in elected : a[1] = b[1] => a = b

\* Where the group's master is, according to a Sentinel and to its file.
Announced(x) ==
  {c \in {<<sn[x].m.cfg, sentinelGetCurrentMasterAddress(sn[x].m)>>,
          <<sn[x].disk.cfg, sn[x].disk.addr>>} : c[1] > 0 /\ c[2] # NoOne}

\* A configuration epoch names one master: two Sentinels that give a configuration the
\* same epoch, in memory or on disk, send clients to the same server.
OneMasterPerConfig ==
  \A x, y \in Sentinels : \A a \in Announced(x), b \in Announced(y) : a[1] = b[1] => a = b

\* Everybody that runs agrees who the master is, and the servers are what that says.
Settled ==
  \E i \in Instances :
    /\ \A x \in Sentinels : sn[x].up /\ Monitors(sn[x])
                            => sn[x].m.addr = i /\ sn[x].m.state = NONE
    /\ \A j \in Instances : inst[j].up => inst[j].master = IF j = i THEN NoOne ELSE i

\* A failover that got as far as a promotion is completed, though its leader crash:
\* the Sentinels come to name one master, and every server that runs, the old master
\* included, ends up in the role that gives it, unless the new master is in its turn
\* found down or called a slave: then another failover is due.
FailoverCompletes ==
  (\E x \in Sentinels : sn[x].m.cfg > 0)
    ~> (Settled \/ \E x \in Sentinels : /\ sn[x].m.cfg > 0
                                         /\ (sn[x].m.sdown \/ sn[x].m.role = "slave"))

=============================================================================
