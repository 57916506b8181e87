-------------------------- MODULE ClusterElection --------------------------
(***************************************************************************)
(* The replica election of Redis Cluster (cluster.c): the slaves of one    *)
(* master that is flagged FAIL, or that the administrator asked to fail    *)
(* over, ask every master for its vote and the one with a majority takes   *)
(* the master's slots under a new configuration epoch.                     *)
(*                                                                         *)
(* A node is single-threaded.  What a handler queues leaves the node only  *)
(* after the next clusterBeforeSleep(), which first writes nodes.conf when *)
(* a handler asked for it: the outboxes and the disk make a crash between  *)
(* the two visible.  Time is abstract: the age of the current attempt is a *)
(* phase.  What may change at any moment whatever the nodes do (the FAIL   *)
(* flag a node has for the master, a manual failover, the age of a voter's *)
(* last vote) is an input of the step that reads it.                       *)
(***************************************************************************)
EXTENDS Integers, FiniteSets

CONSTANTS Master,      \* the masters that serve slots, the failing one included
          Old,         \* the failing master
          Slave,       \* its slaves
          MaxEpoch,    \* bound on the epochs of all environments
          Environments \* the failures and administrators to start with

ASSUME OldIsMaster == Old \in Master
ASSUME SlavesAreNotMasters == Slave \cap Master = {}
ASSUME MastersFinite == IsFiniteSet(Master)
ASSUME MaxEpochIsNat == MaxEpoch \in Nat \ {0}

\* The nodes that are dead for good; the values of force, that is whether CLUSTER
\* FAILOVER FORCE is used; may a vote arrive after the retry time has elapsed;
\* bounds on the epochs an election may use and on the crashes to come.
Environment ==
  [down : SUBSET (Master \cup Slave), forces : SUBSET BOOLEAN, lateAcks : BOOLEAN,
   epochs : 0 .. MaxEpoch, crashes : Nat]

ASSUME EnvironmentsTyped == Environments \subseteq Environment

VARIABLES currentEpoch,   \* server.cluster->currentEpoch of each node
          lastVoteEpoch,  \* server.cluster->lastVoteEpoch of each master
          owner,          \* who serves Old's slots, in each node's view ...
          ownerEpoch,     \* ... and with which configEpoch
          auth,           \* failover_auth_{time,epoch,count,sent} of each slave
          todo,           \* nodes with CLUSTER_TODO_SAVE_CONFIG set
          disk,           \* nodes.conf of each node
          outbox,         \* queued since the last clusterBeforeSleep
          net,            \* on the wire
          env,            \* the environment; env.crashes counts down
          cast,           \* history: the votes that left their voter
          won             \* history: the elections won

vars == <<currentEpoch, lastVoteEpoch, owner, ownerEpoch, auth, todo, disk, outbox,
          net, env, cast, won>>

Node == Master \cup Slave
Alive == Node \ env.down
Epoch == 0 .. MaxEpoch
Phases == {"idle", "scheduled", "open", "expired"}

\* Mutant: half of the masters is taken for a majority.
HalfOfMasters == Cardinality(Master) \div 2

NeededQuorum == Cardinality(Master) \div 2 + 1

Max(a, b) == IF a >= b THEN a ELSE b

Request(s, e, cfg, force) ==
  [type |-> "request", from |-> s, epoch |-> e, config |-> cfg, force |-> force]

Ack(v, s, e) == [type |-> "ack", from |-> v, to |-> s, epoch |-> e]

Requests == [type : {"request"}, from : Slave, epoch : Epoch, config : Epoch,
             force : BOOLEAN]
Acks == [type : {"ack"}, from : Master, to : Slave, epoch : Epoch]
Message == Requests \cup Acks

NoAttempt == [phase |-> "idle", epoch |-> 0, count |-> 0, sent |-> FALSE]

\* What clusterSaveConfig writes: the "vars" line and the slots with their owner.
Config(n) == [currentEpoch |-> currentEpoch[n], ownerEpoch |-> ownerEpoch[n],
              owner |-> owner[n],
              lastVoteEpoch |-> IF n \in Master THEN lastVoteEpoch[n] ELSE 0]

Init ==
  /\ currentEpoch = [n \in Node |-> 1]
  /\ lastVoteEpoch = [v \in Master |-> 0]
  /\ owner = [n \in Node |-> Old]
  /\ ownerEpoch = [n \in Node |-> 1]
  /\ auth = [s \in Slave |-> NoAttempt]
  /\ todo = {}
  /\ disk = [n \in Node |-> Config(n)]
  /\ outbox = [n \in Node |-> {}]
  /\ net = {}
  /\ env \in Environments
  /\ cast = {}
  /\ won = {}
-----------------------------------------------------------------------------
(* The slave.                                                              *)

IsSlave(s) == owner[s] # s

\* The preconditions of clusterHandleSlaveFailover: s is a slave of a master that
\* serves slots and that is flagged FAIL, or force is set (a manual failover).
CanFailover(s, fail, force) == /\ IsSlave(s)
                               /\ fail \/ force
                               /\ owner[s] = Old

\* What is still on its way of the earlier attempts of s, when delays may exceed
\* the retry time and when they may not.
OfAttempt(s, m) == IF m.type = "request" THEN m.from = s ELSE m.to = s
Pending(s, ms) == {m \in ms : env.lateAcks \/ ~OfAttempt(s, m)}

\* Mutant: failover_auth_count is not reset.
ScheduledAttemptKeepsCount(s, force) ==
  [phase |-> IF force THEN "open" ELSE "scheduled", epoch |-> auth[s].epoch,
   count |-> auth[s].count, sent |-> FALSE]

ScheduledAttempt(s, force) == [phase |-> IF force THEN "open" ELSE "scheduled",
                               epoch |-> auth[s].epoch, count |-> 0, sent |-> FALSE]

\* The retry time has elapsed: set up a new attempt.
ScheduleElection(s, fail, force) ==
  /\ CanFailover(s, fail, force)
  /\ auth[s].phase = "idle"
  /\ auth' = [auth EXCEPT ![s] = ScheduledAttempt(s, force)]
  /\ net' = Pending(s, net)
  /\ outbox' = [n \in Node |-> Pending(s, outbox[n])]
  /\ UNCHANGED <<currentEpoch, lastVoteEpoch, owner, ownerEpoch, todo, disk, env,
                 cast, won>>

ElectionEpoch(s) == currentEpoch[s] + 1
AuthRequest(s, force) == Request(s, ElectionEpoch(s), ownerEpoch[s], force)

\* The delay has elapsed: ask every master for its vote under a new epoch.  Run
\* from clusterBeforeSleep, after it read its flags, the requests leave before
\* the new currentEpoch is saved; run from clusterCron they wait for the save.
RequestVotes(s, fail, force, beforeSleep) ==
  /\ CanFailover(s, fail, force)
  /\ auth[s].phase = "open" /\ ~auth[s].sent
  /\ currentEpoch[s] < env.epochs
  /\ currentEpoch' = [currentEpoch EXCEPT ![s] = ElectionEpoch(s)]
  /\ auth' = [auth EXCEPT ![s] = [@ EXCEPT !.epoch = ElectionEpoch(s), !.sent = TRUE]]
  /\ todo' = todo \cup {s}
  /\ IF beforeSleep
       THEN net' = net \cup {AuthRequest(s, force)} /\ UNCHANGED outbox
       ELSE outbox' = [outbox EXCEPT ![s] = @ \cup {AuthRequest(s, force)}] /\ UNCHANGED net
  /\ UNCHANGED <<lastVoteEpoch, owner, ownerEpoch, disk, env, cast, won>>

\* The quorum is reached: become the master of Old's slots and save at once.
WinElection(s, fail, force) ==
  /\ CanFailover(s, fail, force)
  /\ auth[s].phase = "open" /\ auth[s].sent
  /\ auth[s].count >= NeededQuorum
  /\ owner' = [owner EXCEPT ![s] = s]
  /\ ownerEpoch' = [ownerEpoch EXCEPT ![s] = auth[s].epoch]
  /\ disk' = [disk EXCEPT ![s] = [Config(s) EXCEPT !.owner = s, !.ownerEpoch = auth[s].epoch]]
  /\ todo' = todo \ {s}
  /\ won' = won \cup {[slave |-> s, epoch |-> auth[s].epoch]}
  /\ UNCHANGED <<currentEpoch, lastVoteEpoch, auth, outbox, net, env, cast>>

\* clusterProcessPacket, FAILOVER_AUTH_ACK: count the vote of a master that
\* serves slots, unless it is older than the attempt.
Counts(s, m) == /\ m.from = Old => owner[s] = Old
                /\ m.epoch >= auth[s].epoch

ReceiveAck(s, m) ==
  /\ m.type = "ack" /\ m.to = s
  /\ net' = net \ {m}
  /\ currentEpoch' = [currentEpoch EXCEPT ![s] = Max(@, m.epoch)]
  /\ auth' = IF Counts(s, m) THEN [auth EXCEPT ![s].count = @ + 1] ELSE auth
  /\ UNCHANGED <<lastVoteEpoch, owner, ownerEpoch, todo, disk, outbox, env, cast, won>>

NextPhase == [idle |-> "idle", scheduled |-> "open", open |-> "expired", expired |-> "idle"]

\* Time passes the next of failover_auth_time, auth_timeout and auth_retry_time.
AuthTimePasses(s) ==
  /\ auth' = [auth EXCEPT ![s].phase = NextPhase[@]]
  /\ UNCHANGED <<currentEpoch, lastVoteEpoch, owner, ownerEpoch, todo, disk, outbox, net,
                 env, cast, won>>
-----------------------------------------------------------------------------
(* The voter.                                                              *)

\* The tests of clusterSendFailoverAuthIfNeeded; fail says whether v has Old
\* flagged FAIL, and recent whether v voted about Old within two node timeouts.
MayVote(v, m, fail, recent) ==
  /\ v = Old => owner[v] = Old /\ ~fail
  /\ m.epoch >= currentEpoch[v]
  /\ lastVoteEpoch[v] # m.epoch
  /\ owner[v] # m.from
  /\ fail \/ m.force
  /\ ~recent
  /\ ownerEpoch[v] <= m.config

\* clusterProcessPacket, FAILOVER_AUTH_REQUEST.  A request is broadcast: it stays on
\* the wire for the masters it has not reached, and those that ignore it change
\* nothing.
ReceiveRequest(v, m, fail, recent) ==
  /\ m.type = "request"
  /\ currentEpoch[v] < m.epoch \/ MayVote(v, m, fail, recent)
  /\ currentEpoch' = [currentEpoch EXCEPT ![v] = Max(@, m.epoch)]
  /\ IF MayVote(v, m, fail, recent)
       THEN /\ lastVoteEpoch' = [lastVoteEpoch EXCEPT ![v] = m.epoch]
            /\ todo' = todo \cup {v}
            /\ outbox' = [outbox EXCEPT ![v] = @ \cup {Ack(v, m.from, m.epoch)}]
       ELSE UNCHANGED <<lastVoteEpoch, todo, outbox>>
  /\ UNCHANGED <<owner, ownerEpoch, auth, disk, net, env, cast, won>>
-----------------------------------------------------------------------------
(* Every node.                                                             *)

NewerClaim(m, n) == owner[m] = m /\ ownerEpoch[n] < ownerEpoch[m]

\* A PING or PONG of m with news reaches n.  A master's header claims the slots it serves:
\* clusterUpdateSlotsConfigWith rebinds them when the claim is newer, and the
\* node that lost them, or its slaves, turn into slaves of the sender.
ReceivePing(m, n) ==
  /\ currentEpoch[n] < currentEpoch[m] \/ NewerClaim(m, n)
  /\ currentEpoch' = [currentEpoch EXCEPT ![n] = Max(@, currentEpoch[m])]
  /\ IF NewerClaim(m, n)
       THEN /\ owner' = [owner EXCEPT ![n] = m]
            /\ ownerEpoch' = [ownerEpoch EXCEPT ![n] = ownerEpoch[m]]
            /\ todo' = todo \cup {n}
       ELSE UNCHANGED <<owner, ownerEpoch, todo>>
  /\ UNCHANGED <<lastVoteEpoch, auth, disk, outbox, net, env, cast, won>>

Votes(ms) == {[voter |-> m.from, slave |-> m.to, epoch |-> m.epoch] :
                m \in {x \in ms : x.type = "ack"}}

\* clusterBeforeSleep saves what the handlers changed, then the event loop writes
\* the queued messages.
clusterBeforeSleep(n) ==
  /\ n \in todo \/ outbox[n] # {}
  /\ disk' = IF n \in todo THEN [disk EXCEPT ![n] = Config(n)] ELSE disk
  /\ todo' = todo \ {n}
  /\ net' = net \cup outbox[n]
  /\ outbox' = [outbox EXCEPT ![n] = {}]
  /\ cast' = cast \cup Votes(outbox[n])
  /\ UNCHANGED <<currentEpoch, lastVoteEpoch, owner, ownerEpoch, auth, env, won>>

\* The process dies and starts again from nodes.conf (clusterLoadConfig): its
\* queue, what was sent to its sockets and what was not saved are lost.
Restart(n) ==
  /\ env.crashes > 0
  /\ env' = [env EXCEPT !.crashes = @ - 1]
  /\ currentEpoch' = [currentEpoch EXCEPT ![n] = Max(disk[n].currentEpoch, disk[n].ownerEpoch)]
  /\ lastVoteEpoch' = [v \in Master |-> IF v = n THEN disk[n].lastVoteEpoch ELSE lastVoteEpoch[v]]
  /\ owner' = [owner EXCEPT ![n] = disk[n].owner]
  /\ ownerEpoch' = [ownerEpoch EXCEPT ![n] = disk[n].ownerEpoch]
  /\ auth' = [s \in Slave |-> IF s = n THEN NoAttempt ELSE auth[s]]
  /\ todo' = todo \ {n}
  /\ outbox' = [outbox EXCEPT ![n] = {}]
  /\ net' = {m \in net : m.type = "ack" => m.to # n}
  /\ UNCHANGED <<disk, cast, won>>

Next ==
  \/ \E s \in Slave \cap Alive, fail \in BOOLEAN, force \in env.forces :
       ScheduleElection(s, fail, force)
  \/ \E s \in Slave \cap Alive, fail \in BOOLEAN, force \in env.forces, sleep \in BOOLEAN :
       RequestVotes(s, fail, force, sleep)
  \/ \E s \in Slave \cap Alive, fail \in BOOLEAN, force \in env.forces :
       WinElection(s, fail, force)
  \/ \E s \in Slave \cap Alive : AuthTimePasses(s)
  \/ \E s \in Slave \cap Alive, m \in net : ReceiveAck(s, m)
  \/ \E v \in Master \cap Alive, m \in net, fail, recent \in BOOLEAN :
       ReceiveRequest(v, m, fail, recent)
  \/ \E n \in Alive : clusterBeforeSleep(n)
  \/ \E n \in Alive : Restart(n)
  \/ \E m, n \in Alive : ReceivePing(m, n)

Spec == Init /\ [][Next]_vars
-----------------------------------------------------------------------------
\* The types of the state.
TypeOK ==
  /\ currentEpoch \in [Node -> Epoch]
  /\ lastVoteEpoch \in [Master -> Epoch]
  /\ owner \in [Node -> Node]
  /\ ownerEpoch \in [Node -> Epoch]
  /\ auth \in [Slave -> [phase : Phases, epoch : Epoch, count : Nat, sent : BOOLEAN]]
  /\ todo \subseteq Node
  /\ disk \in [Node -> [currentEpoch : Epoch, ownerEpoch : Epoch, owner : Node,
                        lastVoteEpoch : Epoch]]
  /\ outbox \in [Node -> SUBSET Message]
  /\ net \subseteq Message
  /\ env \in Environment
  /\ cast \subseteq [voter : Master, slave : Slave, epoch : Epoch]
  /\ won \subseteq [slave : Slave, epoch : Epoch]

\* A master never gives two different slaves its vote for one epoch, not even
\* across a crash: lastVoteEpoch is on disk before the vote leaves.
OneVotePerEpoch ==
  \A a, b \in cast : a.voter = b.voter /\ a.epoch = b.epoch => a.slave = b.slave

\* "It is not possible that different slaves get the same config epoch during a
\* failover election, because the slaves need to get voted by a majority" (the
\* comment above clusterHandleConfigEpochCollision).
ElectionSafety == \A a, b \in won : a.epoch = b.epoch => a.slave = b.slave

\* A slave that won was voted by a majority of the masters in the epoch it won.
ElectedByMajority ==
  \A w \in won :
    2 * Cardinality({c \in cast : c.slave = w.slave /\ c.epoch = w.epoch})
      > Cardinality(Master)

\* The votes a slave counts are votes that different masters cast for it in the
\* epoch of the attempt it is running: failover_auth_count.
CountedVotesAreReal ==
  \A s \in Slave : auth[s].sent =>
    auth[s].count <= Cardinality({c \in cast : c.slave = s /\ c.epoch = auth[s].epoch})

\* A slave that has won outranks the configuration it replaces everywhere: no
\* node that still follows the old master knows a configuration as new.
WinnerOutranks ==
  \A n \in Node : \A w \in won : owner[n] = Old => ownerEpoch[n] < w.epoch
=============================================================================
