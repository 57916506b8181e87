----------------------------- MODULE ClusterBus -----------------------------
(***************************************************************************)
(* The bus of a Redis Cluster (cluster.c): which nodes a node knows, the   *)
(* links it opens to them, PING, PONG and MEET with their gossip, how a    *)
(* node that does not answer becomes PFAIL and then FAIL, how it is        *)
(* cleared, how nodes join and are forgotten, the state of the cluster,    *)
(* replicas that migrate to orphaned masters and the manual failover.      *)
(*                                                                         *)
(* A node is a number, its node ID; a node in handshake has a random name, *)
(* one of Temp.  Timers are nondeterministic: a step of clusterCron says   *)
(* which timer is due.  clusterBeforeSleep runs at the end of a step.      *)
(* Elections are the subject of ClusterElection, and the epochs and slots  *)
(* that change with them of ClusterConfig: here every slot keeps its       *)
(* master, but for a manual failover.                                      *)
(***************************************************************************)
EXTENDS Integers, Sequences, FiniteSets
LOCAL INSTANCE SequencesExt
LOCAL INSTANCE FiniteSetsExt
LOCAL INSTANCE Functions
LOCAL INSTANCE TLC

CONSTANTS Node,          \* the node IDs, numbers because they are compared
          Temp,          \* the random names of nodes in handshake
          Slot,          \* the hash slots
          None,          \* a null pointer, no address
          Environments   \* the clusters to start with, and what happens to them

VARIABLES cluster,    \* server.cluster of every node
          net,        \* the packets in flight, in the order they were sent
          env,        \* which nodes run, where, what may still happen
          suspected   \* <<n, x>>: n has flagged x as PFAIL

vars == <<cluster, net, env, suspected>>

Ids == Node \cup Temp
-----------------------------------------------------------------------------
(* The table of nodes of one node: c is its server.cluster.                *)

Is(c, x, flag) == flag \in c.nodes[x].flags
Known(c) == DOMAIN c.nodes
NumSlots(c, x) == Cardinality({j \in Slot : c.slots[j] = x})
Bad(flags) == flags \cap {"pfail", "fail"} # {}

\* createClusterNode.
createClusterNode(addr, flags) ==
  [addr |-> addr, flags |-> flags, slaveof |-> None, slaves |-> {}, epoch |-> 0,
   link |-> "none", ping |-> FALSE, failOld |-> TRUE, reports |-> {}, orphaned |-> "no"]

Flag(c, x, add, del) == [c EXCEPT !.nodes[x].flags = (@ \ del) \cup add]
UpdateLater(c) == [c EXCEPT !.todo = TRUE]

\* clusterNodeRemoveSlave.
RemoveSlave(c, m, s) ==
  LET left == c.nodes[m].slaves \ {s}
  IN [c EXCEPT !.nodes[m].slaves = left,
               !.nodes[m].flags = IF left = {} /\ s \in c.nodes[m].slaves
                                    THEN @ \ {"migrate_to"} ELSE @]

\* clusterNodeAddSlave.
AddSlave(c, m, s) ==
  [c EXCEPT !.nodes[m].slaves = @ \cup {s}, !.nodes[m].flags = @ \cup {"migrate_to"}]

SlaveOf(c, x) == c.nodes[x].slaveof
Unslave(c, x) == IF SlaveOf(c, x) = None THEN c ELSE RemoveSlave(c, SlaveOf(c, x), x)

\* clusterSetNodeAsMaster.
SetNodeAsMaster(c, me, x) ==
  IF Is(c, x, "master") THEN c
  ELSE LET d == Unslave(c, x)
           more == IF SlaveOf(c, x) # None /\ x # me THEN {"migrate_to"} ELSE {}
       IN UpdateLater([Flag(d, x, {"master"} \cup more, {"slave"}) EXCEPT !.nodes[x].slaveof = None])

NoFailover == [end |-> FALSE, can |-> FALSE, slave |-> None, offset |-> -1]

\* clusterSetMaster.
SetMaster(c, me, m) ==
  LET d == IF Is(c, me, "master") THEN Flag(c, me, {"slave"}, {"master", "migrate_to"})
           ELSE Unslave(c, me)
  IN AddSlave([d EXCEPT !.nodes[me].slaveof = m, !.mf = NoFailover], m, me)

\* clusterDelNode and freeClusterNode.
DelNode(c, x) ==
  LET d == IF Is(c, x, "slave") THEN Unslave(c, x) ELSE c
  IN [d EXCEPT
        !.slots = [j \in Slot |-> IF @[j] = x THEN None ELSE @[j]],
        !.nodes = [y \in Known(d) \ {x} |->
           [@[y] EXCEPT !.slaveof = IF y \in d.nodes[x].slaves THEN None ELSE @,
                        !.reports = @ \ {x}]]]

\* clusterRenameNode: the handshake tells the name of the node.
RenameNode(c, x, name) ==
  [c EXCEPT !.nodes = (name :> @[x]) @@ Restrict(@, Known(c) \ {x})]

\* A random name that is free.
Fresh(c) == Min(Temp \ Known(c))
CanName(c) == Temp \ Known(c) # {}

\* clusterHandshakeInProgress.
HandshakeInProgress(c, a) ==
  \E x \in Known(c) : Is(c, x, "handshake") /\ c.nodes[x].addr = a

\* clusterStartHandshake.
StartHandshake(c, a) ==
  IF HandshakeInProgress(c, a) THEN c
  ELSE [c EXCEPT !.nodes = (Fresh(c) :> createClusterNode(a, {"handshake", "meet"})) @@ @]
-----------------------------------------------------------------------------
(* The state of the cluster.                                               *)

Voters(c) == {x \in Known(c) : Is(c, x, "master") /\ NumSlots(c, x) > 0}
Quorum(size) == (size \div 2) + 1

\* clusterUpdateState of node me.  A master that just started, or that was among
\* the minority a moment ago, waits before it serves again.
UpdateState(c, me) ==
  LET size == Cardinality(Voters(c))
      reachable == Cardinality({x \in Voters(c) : ~Bad(c.nodes[x].flags)})
      covered == \A j \in Slot : c.slots[j] # None /\ ~Is(c, c.slots[j], "fail")
      few == reachable < Quorum(size)
      ok == covered /\ ~few
      minority == few \/ c.minority
      done == [c EXCEPT !.todo = FALSE]
  IN IF Is(c, me, "master") /\ c.state = "fail" /\ c.booting THEN done
     ELSE [done EXCEPT !.size = size, !.minority = minority,
             !.state = IF ~ok THEN "fail"
                       ELSE IF @ = "fail" /\ Is(c, me, "master") /\ minority THEN "fail"
                       ELSE "ok"]

\* Mutant: a slave that has received more than nothing of the stream is ready.
HandleManualFailoverEarly(c, me) ==
  IF Is(c, me, "slave") /\ c.mf.end /\ c.mf.offset # -1 /\ c.offset > 0
    THEN [c EXCEPT !.mf.can = TRUE] ELSE c

\* clusterHandleManualFailover: the slave has all its master had when it paused.
HandleManualFailover(c, me) ==
  IF Is(c, me, "slave") /\ c.mf.end /\ c.mf.offset # -1 /\ c.mf.offset = c.offset
    THEN [c EXCEPT !.mf.can = TRUE] ELSE c

\* clusterBeforeSleep.
BeforeSleep(c, me) ==
  LET d == HandleManualFailover(c, me) IN IF d.todo THEN UpdateState(d, me) ELSE d

\* Mutant: a node this one can reach is marked as well.
MarkReachable(c, me, x) ==
  LET failures == Cardinality(c.nodes[x].reports) + (IF Is(c, me, "master") THEN 1 ELSE 0)
  IN IF Is(c, x, "fail") \/ failures < Quorum(c.size) THEN c
     ELSE UpdateLater([Flag(c, x, {"fail"}, {"pfail"}) EXCEPT
                         !.nodes[x].failOld = FALSE, !.failing = @ \cup {x}])

\* Mutant: the node does not count itself.
MarkUncounted(c, me, x) ==
  IF ~Is(c, x, "pfail") \/ Is(c, x, "fail") \/ Cardinality(c.nodes[x].reports) < Quorum(c.size) THEN c
  ELSE UpdateLater([Flag(c, x, {"fail"}, {"pfail"}) EXCEPT
                      !.nodes[x].failOld = FALSE, !.failing = @ \cup {x}])

\* markNodeAsFailingIfNeeded; failing collects the FAIL messages to broadcast.
MarkNodeAsFailingIfNeeded(c, me, x) ==
  LET failures == Cardinality(c.nodes[x].reports) + (IF Is(c, me, "master") THEN 1 ELSE 0)
  IN IF ~Is(c, x, "pfail") \/ Is(c, x, "fail") \/ failures < Quorum(c.size) THEN c
     ELSE UpdateLater([Flag(c, x, {"fail"}, {"pfail"}) EXCEPT
                         !.nodes[x].failOld = FALSE, !.failing = @ \cup {x}])

\* clearNodeFailureIfNeeded.
ClearNodeFailureIfNeeded(c, x) ==
  IF Is(c, x, "slave") \/ NumSlots(c, x) = 0 \/ c.nodes[x].failOld
    THEN UpdateLater(Flag(c, x, {}, {"fail"}))
    ELSE c
-----------------------------------------------------------------------------
(* Packets.                                                                *)

\* The nodes a packet of me gossips about (clusterSendPing).
Eligible(c, me) ==
  {x \in Known(c) \ {me} :
     /\ ~Is(c, x, "handshake") /\ ~Is(c, x, "noaddr")
     /\ Is(c, x, "pfail") \/ c.nodes[x].link # "none" \/ NumSlots(c, x) > 0}

\* clusterSetGossipEntry.
GossipEntry(c, x) == [id |-> x, flags |-> c.nodes[x].flags, addr |-> c.nodes[x].addr]

\* A connection is known by the node that opened it and the name it opened it for.
\* clusterBuildMessageHdr: a slave publishes the slots and the epoch of its master.
Message(c, me, type, conn, to, about) ==
  LET m == IF Is(c, me, "slave") /\ SlaveOf(c, me) # None THEN SlaveOf(c, me) ELSE me
  IN [type |-> type, from |-> me, to |-> to, conn |-> conn,
      slave |-> Is(c, me, "slave"), slaveof |-> SlaveOf(c, me),
      slots |-> {j \in Slot : c.slots[j] = m}, epoch |-> c.nodes[m].epoch,
      offset |-> c.offset, paused |-> Is(c, me, "master") /\ c.mf.end,
      gossip |-> IF type \in {"ping", "pong", "meet"}
                   THEN {GossipEntry(c, x) : x \in Eligible(c, me) \ {to}} ELSE {},
      about |-> about]

\* Who answers at an address.
At(a) == CHOOSE p \in Node : env.where[p] = a
Answers(a) == \E p \in Node : env.where[p] = a /\ p \in env.up
Reach(p, q) == {p, q} \subseteq env.up /\ (p \in env.cut <=> q \in env.cut)

\* The packet of me to the node it knows as x, if anybody is there.
Send(c, me, x, type, about) ==
  IF Answers(c.nodes[x].addr)
    THEN <<Message(c, me, type, <<me, x>>, At(c.nodes[x].addr), about)>> ELSE <<>>

\* clusterBroadcastMessage and clusterBroadcastPong: to every node with a link.
Linked(c, me) ==
  {x \in Known(c) \ {me} : c.nodes[x].link # "none" /\ ~Is(c, x, "handshake")}
Broadcast(c, me, type, about) ==
  FoldSet(LAMBDA x, out : out \o Send(c, me, x, type, about), <<>>, Linked(c, me))

\* clusterSendFail for every node that was marked in this step.
SendFail(c, me) ==
  FoldLeft(LAMBDA out, x : out \o Broadcast(c, me, "fail", x), <<>>, SetToSortSeq(c.failing, <))

\* The connection of a packet still exists.
Live(cl, p) == /\ p.conn[2] \in Known(cl[p.conn[1]])
               /\ cl[p.conn[1]].nodes[p.conn[2]].link # "none"

\* Node n ends a step as c, having sent out: clusterBeforeSleep runs, what was on
\* the links it closed is lost.
Becomes(n, c, rest, out) ==
  LET d == BeforeSleep([c EXCEPT !.failing = {}], n)
  IN /\ cluster' = [cluster EXCEPT ![n] = d]
     /\ net' = SelectSeq(rest \o out \o SendFail(c, n), LAMBDA p : Live(cluster', p))
     /\ suspected' = suspected \cup {<<n, x>> : x \in {y \in Known(d) : Is(d, y, "pfail")}}
-----------------------------------------------------------------------------
(* clusterProcessPacket.                                                   *)

\* nodeUpdateAddressIfNeeded; a link to the old address is closed.
UpdateAddressIfNeeded(c, x, addr, conn, me) ==
  IF conn = <<me, x>> \/ c.nodes[x].addr = addr THEN c
  ELSE UpdateLater([Flag(c, x, {}, {"noaddr"}) EXCEPT !.nodes[x].addr = addr, !.nodes[x].link = "none"])

\* Mutant: the blacklist is not consulted.
MayAddForgotten(c, s, x) == s # None

\* A node the gossip tells of is added when a known node tells, unless it was
\* forgotten a moment ago (clusterBlacklistExists).
MayAdd(c, s, x) == s # None /\ x \notin c.black

\* A master that says a node is failing, or that it is not
\* (clusterNodeAddFailureReport, clusterNodeDelFailureReport).
Report(c, me, s, g) ==
  IF s = None \/ g.id = me THEN c
  ELSE IF ~Is(c, s, "master") THEN c
  ELSE IF Bad(g.flags)
    THEN MarkNodeAsFailingIfNeeded([c EXCEPT !.nodes[g.id].reports = @ \cup {s}], me, g.id)
    ELSE [c EXCEPT !.nodes[g.id].reports = @ \ {s}]

\* One entry g of clusterProcessGossipSection, from the sender s (or None): a
\* failure report, a new address of a node in trouble, or a node to add.
GossipOne(c, me, s, g) ==
  LET x == g.id
      d == Report(c, me, s, g)
  IN IF x \in Known(c)
       THEN IF Bad(d.nodes[x].flags) /\ ~Bad(g.flags) /\ d.nodes[x].addr # g.addr
              THEN [Flag(d, x, {}, {"noaddr"}) EXCEPT !.nodes[x].addr = g.addr,
                                                      !.nodes[x].link = "none"]
              ELSE d
       ELSE IF MayAdd(c, s, x)
         THEN [c EXCEPT !.nodes = (x :> createClusterNode(g.addr, g.flags)) @@ @]
         ELSE c

ProcessGossipSection(c, me, s, p) ==
  FoldSet(LAMBDA g, d : GossipOne(d, me, s, g), c, p.gossip)

\* What the header of any packet from a known node tells: its epoch, and to a slave
\* in a manual failover the offset at which its master paused.
LearnHeader(c, me, p) ==
  LET s == p.from
  IN IF s \notin Known(c) THEN c
     ELSE [c EXCEPT !.nodes[s].epoch = IF p.epoch > @ THEN p.epoch ELSE @,
            !.mf.offset = IF c.mf.end /\ @ = -1 /\ SlaveOf(c, me) = s /\ p.paused
                            THEN p.offset ELSE @]

\* The sender is a master, or a slave, perhaps of another master than before.
SwitchRole(c, me, p) ==
  LET s == p.from
      d == IF Is(c, s, "slave") THEN c
           ELSE UpdateLater([Flag(c, s, {"slave"}, {"master", "migrate_to"}) EXCEPT
                  !.slots = [j \in Slot |-> IF @[j] = s THEN None ELSE @[j]]])
  IN IF p.slaveof = None THEN SetNodeAsMaster(c, me, s)
     ELSE IF p.slaveof \in Known(c) /\ SlaveOf(c, s) # p.slaveof
       THEN AddSlave([Unslave(d, s) EXCEPT !.nodes[s].slaveof = p.slaveof], p.slaveof, s)
       ELSE d

\* clusterUpdateSlotsConfigWith: the slots s claims with a newer configuration; a
\* node whose master is left without slots follows the new owner.
UpdateSlotsConfigWith(c, me, s, e, slots) ==
  LET lost == {j \in slots : IF c.slots[j] = None THEN TRUE
                             ELSE c.slots[j] # s /\ c.nodes[c.slots[j]].epoch < e}
      cur == IF Is(c, me, "master") THEN me ELSE SlaveOf(c, me)
      d == [c EXCEPT !.slots = [j \in Slot |-> IF j \in lost THEN s ELSE @[j]],
                     !.todo = @ \/ lost # {}]
  IN IF cur # None /\ (\E j \in lost : c.slots[j] = cur) /\ NumSlots(d, cur) = 0
       THEN SetMaster(d, me, s)
       ELSE d

UpdateSlots(c, me, p) ==
  IF Is(c, p.from, "master") THEN UpdateSlotsConfigWith(c, me, p.from, p.epoch, p.slots) ELSE c

\* The answer of a node this one opened a link to.
PongReceived(c, x) ==
  LET d == [c EXCEPT !.nodes[x].ping = FALSE]
  IN IF Is(c, x, "pfail") THEN UpdateLater(Flag(d, x, {}, {"pfail"}))
     ELSE IF Is(c, x, "fail") THEN ClearNodeFailureIfNeeded(d, x)
     ELSE d

\* PING, PONG and MEET once it is clear who sent them, for the link to node e or,
\* when the other side opened the connection, e = None.
ProcessConfig(c, me, p, e) ==
  LET s == p.from
      a == IF p.type = "ping" THEN UpdateAddressIfNeeded(c, s, env.where[s], p.conn, me) ELSE c
      d == IF e # None /\ p.type = "pong" THEN PongReceived(a, e) ELSE a
  IN ProcessGossipSection(UpdateSlots(SwitchRole(d, me, p), me, p), me, s, p)

\* PING and MEET are answered on their connection.
Pong(c, me, p) ==
  IF p.type \in {"ping", "meet"} THEN <<Message(c, me, "pong", p.conn, p.from, None)>> ELSE <<>>

\* The packet p, the first on its connection, reaches the node n.
Arrives(i, n, types) ==
  /\ net[i].type \in types /\ net[i].to = n
  /\ \A k \in 1..(i - 1) : <<net[k].conn, net[k].to>> # <<net[i].conn, n>>
  /\ Reach(net[i].from, n)
  /\ LET conn == net[i].conn IN cluster[conn[1]].nodes[conn[2]].link = "up"

\* PING, MEET or PONG on a connection the sender opened.  A node that is met is added
\* under a random name; its gossip is not processed, for it is not known.
ReceiveInbound(i, n) ==
  /\ Arrives(i, n, {"ping", "meet", "pong"})
  /\ net[i].conn[1] # n
  /\ LET p == net[i]
         c == LearnHeader(cluster[n], n, p)
         stranger == p.from \notin Known(c)
         met == [c EXCEPT !.nodes = (Fresh(c) :> createClusterNode(env.where[p.from], {"handshake"})) @@ @]
         d == IF stranger /\ p.type = "meet" THEN ProcessGossipSection(met, n, None, p) ELSE c
     IN /\ stranger /\ p.type = "meet" => CanName(c)
        /\ Becomes(n, IF stranger THEN d ELSE ProcessConfig(d, n, p, None),
                   RemoveAt(net, i), Pong(d, n, p))
  /\ UNCHANGED env

\* A packet on a link this node opened, to the node it knows as e.  It ends a
\* handshake, or shows that somebody else answers at this address.
ReceiveOnLink(i, n) ==
  /\ Arrives(i, n, {"ping", "pong"})
  /\ net[i].conn[1] = n
  /\ LET p == net[i]
         e == p.conn[2]
         s == p.from
         c == LearnHeader(cluster[n], n, p)
         rest == RemoveAt(net, i)
         out == Pong(c, n, p)
         renamed == PongReceived(Flag(RenameNode(c, e, s), s,
                      {IF p.slave THEN "slave" ELSE "master"}, {"handshake"}), s)
         Renamed(q) == IF q.conn = p.conn THEN [q EXCEPT !.conn = <<n, s>>] ELSE q
     IN IF Is(c, e, "handshake")
          THEN IF s \in Known(c)
                 THEN Becomes(n, DelNode(UpdateAddressIfNeeded(c, s, env.where[s], p.conn, n), e), rest, out)
                 ELSE Becomes(n, renamed, [k \in DOMAIN rest |-> Renamed(rest[k])], out)
          ELSE IF e # s
                 THEN Becomes(n, [Flag(c, e, {"noaddr"}, {}) EXCEPT !.nodes[e].addr = None,
                                                                   !.nodes[e].link = "none"], rest, out)
                 ELSE Becomes(n, ProcessConfig(c, n, p, e), rest, out)
  /\ UNCHANGED env

\* FAIL: whoever is known may say so, the sender counted the reports.
ReceiveFail(i, n) ==
  /\ Arrives(i, n, {"fail"})
  /\ LET p == net[i]
         c == LearnHeader(cluster[n], n, p)
         x == p.about
         ignored == p.from \notin Known(c) \/ x = n \/ (IF x \in Known(c) THEN Is(c, x, "fail") ELSE TRUE)
     IN Becomes(n, IF ignored THEN c
                   ELSE UpdateLater([Flag(c, x, {"fail"}, {"pfail"}) EXCEPT !.nodes[x].failOld = FALSE]),
                RemoveAt(net, i), <<>>)
  /\ UNCHANGED env

\* The master a slave asks to hand over: no writes until the failover is over.
Paused(c, s) == [c EXCEPT !.mf = [NoFailover EXCEPT !.end = TRUE, !.slave = s], !.paused = TRUE]

\* MFSTART, answered with a PING that tells the offset.
ReceiveMFStart(i, n) ==
  /\ Arrives(i, n, {"mfstart"})
  /\ LET p == net[i]
         s == p.from
         c == LearnHeader(cluster[n], n, p)
         mine == IF s \in Known(c) THEN SlaveOf(c, s) = n ELSE FALSE
         d == IF mine THEN Paused(c, s) ELSE c
     IN Becomes(n, d, RemoveAt(net, i), IF mine THEN <<Message(d, n, "ping", p.conn, s, None)>> ELSE <<>>)
  /\ UNCHANGED env
-----------------------------------------------------------------------------
(* clusterCron and the link handlers.                                      *)

\* clusterCountNonFailingSlaves.
OkSlaves(c, m) == {s \in c.nodes[m].slaves : ~Is(c, s, "fail")}
Orphaned(c, m) == Is(c, m, "master") /\ ~Is(c, m, "fail") /\ Is(c, m, "migrate_to") /\ OkSlaves(c, m) = {}
Candidates(c, me) ==
  {x \in Known(c) \ {me} : c.nodes[x].flags \cap {"noaddr", "handshake"} = {}
                           /\ Is(c, x, "master") /\ ~Is(c, x, "fail")}
MaxSlaves(c, me) == Max({0} \cup {Cardinality(OkSlaves(c, m)) : m \in Candidates(c, me)})

\* Mutant: the time restarts at every check.
OrphanedNow(c, x) == IF Orphaned(c, x) THEN "new" ELSE "no"

\* Since when a master has been orphaned.
OrphanedTime(c, x) ==
  IF ~Orphaned(c, x) THEN "no" ELSE IF c.nodes[x].orphaned = "no" THEN "new" ELSE c.nodes[x].orphaned

\* clusterHandleSlaveMigration: the slave with the smallest ID of the master with
\* the most working slaves moves to a master that has been orphaned for a while.
HandleSlaveMigration(c, me) ==
  LET mine == SlaveOf(c, me)
      most == MaxSlaves(c, me)
      working == {s \in c.nodes[mine].slaves : ~Bad(c.nodes[s].flags)}
      noted == [x \in Known(c) |-> [c.nodes[x] EXCEPT !.orphaned = OrphanedTime(c, x)]]
      targets == {x \in Known(c) : Orphaned(c, x) /\ NumSlots(c, x) > 0}
      movers == {me} \cup UNION {c.nodes[m].slaves : m \in {x \in Known(c) :
                   Is(c, x, "master") /\ Cardinality(OkSlaves(c, x)) = most}}
      d == [c EXCEPT !.nodes = noted]
  IN IF c.state # "ok" \/ Cardinality(working) <= 1 THEN c
     ELSE IF targets # {} /\ me = Min(movers) /\ noted[Min(targets)].orphaned = "old"
       THEN SetMaster(d, me, Min(targets))
       ELSE d

\* The end of clusterCron.
CronTail(c, me) ==
  LET try == /\ Is(c, me, "slave") /\ MaxSlaves(c, me) >= 2
             /\ \E x \in Candidates(c, me) : Orphaned(c, x) /\ NumSlots(c, x) > 0
             /\ SlaveOf(c, me) \in Candidates(c, me)
             /\ Cardinality(OkSlaves(c, SlaveOf(c, me))) = MaxSlaves(c, me)
      d == IF try THEN HandleSlaveMigration(c, me) ELSE c
  IN [d EXCEPT !.todo = @ \/ d.state = "fail"]

Cron(n, c, out) == Becomes(n, CronTail(c, n), net, out) /\ UNCHANGED env

Up(n) == n \in env.up
Peers(n) == Known(cluster[n]) \ {n}
Has(n, x, flag) == Is(cluster[n], x, flag)
Entry(n, x) == cluster[n].nodes[x]

\* No timer of a node is due.
CronIdle(n) ==
  /\ Up(n)
  /\ BeforeSleep(CronTail(cluster[n], n), n) # cluster[n]
  /\ Cron(n, cluster[n], <<>>)

\* A node without a link; a connect that fails at once counts as a ping.
CronConnect(n, x) ==
  /\ Up(n) /\ Entry(n, x).link = "none" /\ ~Has(n, x, "noaddr")
  /\ IF Answers(Entry(n, x).addr)
       THEN Cron(n, [cluster[n] EXCEPT !.nodes[x].link = "connecting"], <<>>)
       ELSE /\ ~Entry(n, x).ping
            /\ Cron(n, [cluster[n] EXCEPT !.nodes[x].ping = TRUE], <<>>)

\* clusterLinkConnectHandler.
LinkConnectHandler(n, x) ==
  /\ Up(n) /\ Entry(n, x).link = "connecting"
  /\ LET a == Entry(n, x).addr
         c == cluster[n]
         meet == Has(n, x, "meet")
         d == [Flag(c, x, {}, {"meet"}) EXCEPT !.nodes[x].link = "up", !.nodes[x].ping = @ \/ ~meet]
     IN IF Answers(a) /\ Reach(n, At(a))
          THEN Becomes(n, d, net, Send(d, n, x, IF meet THEN "meet" ELSE "ping", None))
          ELSE Becomes(n, [c EXCEPT !.nodes[x].link = "none"], net, <<>>)
  /\ UNCHANGED env

\* A ping is due: the last pong is old, or the node was picked at random.
CronPing(n, x) ==
  /\ Up(n) /\ Len(net) < env.net
  /\ Entry(n, x).link = "up" /\ ~Entry(n, x).ping
  /\ ~Has(n, x, "handshake") /\ ~Has(n, x, "noaddr")
  /\ LET c == [cluster[n] EXCEPT !.nodes[x].ping = TRUE]
     IN Cron(n, c, Send(c, n, x, "ping", None))

\* A master pings the slave that wants to take over, all the time.
CronPingSlave(n, x) ==
  /\ Up(n) /\ Len(net) <= env.net
  /\ cluster[n].mf.end /\ cluster[n].mf.slave = x /\ Has(n, n, "master")
  /\ Entry(n, x).link = "up" /\ Entry(n, x).ping
  /\ Cron(n, cluster[n], Send(cluster[n], n, x, "ping", None))

\* x has been silent for the node timeout: it is down or out of reach, or slow.
Silent(n, x) == Entry(n, x).ping /\ ~(Answers(Entry(n, x).addr) /\ Reach(n, At(Entry(n, x).addr)))

CronTimeout(n, x) ==
  /\ Up(n) /\ Silent(n, x)
  /\ ~Has(n, x, "handshake") /\ ~Has(n, x, "noaddr") /\ ~Bad(Entry(n, x).flags)
  /\ Cron(n, UpdateLater(Flag(cluster[n], x, {"pfail"}, {})), <<>>)

CronTimeoutSlow(n, x) ==
  /\ Up(n) /\ env.slow > 0 /\ Entry(n, x).ping /\ ~Silent(n, x)
  /\ ~Has(n, x, "handshake") /\ ~Has(n, x, "noaddr") /\ ~Bad(Entry(n, x).flags)
  /\ Becomes(n, CronTail(UpdateLater(Flag(cluster[n], x, {"pfail"}, {})), n), net, <<>>)
  /\ env' = [env EXCEPT !.slow = @ - 1]

\* The link is reset when nothing is heard, or closed on an I/O error.
CronDropLink(n, x) ==
  /\ Up(n) /\ Entry(n, x).link \in {"up", "dead"} /\ (Silent(n, x) \/ Entry(n, x).link = "dead")
  /\ Cron(n, [cluster[n] EXCEPT !.nodes[x].link = "none"], <<>>)

\* A handshake has a limited lifespan.
CronHandshakeTimeout(n, x) ==
  /\ Up(n) /\ Has(n, x, "handshake")
  /\ Cron(n, DelNode(cluster[n], x), <<>>)

\* A manual failover takes too long.  The slave's time is over before the answers
\* to its request would be, and before its master serves writes again.
ManualFailoverCheckTimeout(n) ==
  /\ Up(n) /\ cluster[n].mf.end
  /\ \A i \in DOMAIN net : n \notin {net[i].from, net[i].to}
  /\ Cron(n, [cluster[n] EXCEPT !.mf = NoFailover], <<>>)
-----------------------------------------------------------------------------
(* The passing of time.                                                    *)

Time(n, c) == Becomes(n, c, net, <<>>) /\ UNCHANGED env

\* clusterNodeCleanupFailureReports: a report nobody repeats is too old.
ReportExpires(n, x, r) ==
  /\ Up(n) /\ r \in Entry(n, x).reports
  /\ env.expiries > 0
  /\ Becomes(n, [cluster[n] EXCEPT !.nodes[x].reports = @ \ {r}], net, <<>>)
  /\ env' = [env EXCEPT !.expiries = @ - 1]

\* The FAIL flag is older than CLUSTER_FAIL_UNDO_TIME_MULT node timeouts.
FailAges(n, x) ==
  /\ Up(n) /\ Has(n, x, "fail") /\ ~Entry(n, x).failOld
  /\ Time(n, [cluster[n] EXCEPT !.nodes[x].failOld = TRUE])

\* CLUSTER_SLAVE_MIGRATION_DELAY has passed.
OrphanAges(n, x) ==
  /\ Up(n) /\ Entry(n, x).orphaned = "new"
  /\ Time(n, [cluster[n] EXCEPT !.nodes[x].orphaned = "old"])

\* CLUSTER_WRITABLE_DELAY has passed since the node started.
BootDelayOver(n) ==
  /\ Up(n) /\ cluster[n].booting
  /\ Time(n, [cluster[n] EXCEPT !.booting = FALSE])

\* The rejoin delay has passed since the node was among a minority.
RejoinDelayOver(n) ==
  /\ Up(n) /\ cluster[n].minority /\ ~UpdateState([cluster[n] EXCEPT !.minority = FALSE], n).minority
  /\ Time(n, [cluster[n] EXCEPT !.minority = FALSE])

\* CLUSTER_BLACKLIST_TTL is over.  The user had that minute to forget the node
\* everywhere, and what was sent before has arrived.
BlacklistExpires(n, x) ==
  /\ Up(n) /\ x \in cluster[n].black /\ env.todo = {}
  /\ \A i \in DOMAIN net : \A g \in net[i].gossip : g.id # x
  /\ Time(n, [cluster[n] EXCEPT !.black = @ \ {x}])
-----------------------------------------------------------------------------
(* CLUSTER commands: <<subcommand, node, argument>> in env.todo.           *)

Executed(cmd) == env' = [env EXCEPT !.todo = @ \ {cmd}]
Command(sub, n, arg) == Up(n) /\ <<sub, n, arg>> \in env.todo

ClusterMeet(n, a) ==
  /\ Command("meet", n, a) /\ CanName(cluster[n])
  /\ Becomes(n, StartHandshake(cluster[n], a), net, <<>>)
  /\ env' = [env EXCEPT !.todo = @ \ {<<"meet", n, a>>}, !.met = @ \cup {<<n, At(a)>>}]

Forget(c, x) == DelNode([c EXCEPT !.black = @ \cup {x}], x)

\* A FORGET that is refused is tried again.
ClusterForget(n, x) ==
  /\ Command("forget", n, x)
  /\ x \in Known(cluster[n]) /\ x # n /\ SlaveOf(cluster[n], n) # x
  /\ Becomes(n, Forget(cluster[n], x), net, <<>>)
  /\ env' = [env EXCEPT !.todo = @ \ {<<"forget", n, x>>}, !.forgot = @ \cup {<<n, x>>}]

\* clusterReset, soft; a master must be empty.
ClusterReset(n) ==
  /\ Command("reset", n, 0)
  /\ LET c == cluster[n]
         d == [SetNodeAsMaster(c, n, n) EXCEPT !.mf = NoFailover, !.slots = [j \in Slot |-> None],
                 !.offset = IF Is(c, n, "slave") THEN 0 ELSE @]
         e == FoldSet(LAMBDA x, t : DelNode(t, x), d, Known(d) \ {n})
     IN Becomes(n, IF Is(c, n, "master") /\ c.offset > 0 THEN c ELSE UpdateLater(e), net, <<>>)
  /\ Executed(<<"reset", n, 0>>)

ClusterReplicate(n, x) ==
  /\ Command("replicate", n, x)
  /\ LET c == cluster[n]
         ok == /\ x \in Known(c) /\ x # n
               /\ ~Is(c, x, "slave")
               /\ ~(Is(c, n, "master") /\ (NumSlots(c, n) > 0 \/ c.offset > 0))
     IN Becomes(n, IF ok THEN UpdateLater(SetMaster(c, n, x)) ELSE c, net, <<>>)
  /\ Executed(<<"replicate", n, x>>)

\* FAILOVER, with FORCE when the argument is 1.
ClusterFailover(n, force) ==
  /\ Command("failover", n, force)
  /\ LET c == cluster[n]
         m == SlaveOf(c, n)
         ok == /\ Is(c, n, "slave") /\ m # None
               /\ force = 1 \/ (~Is(c, m, "fail") /\ c.nodes[m].link # "none")
         d == [c EXCEPT !.mf = [NoFailover EXCEPT !.end = TRUE, !.can = (force = 1)]]
     IN IF ~ok THEN Becomes(n, c, net, <<>>)
        ELSE Becomes(n, d, net, IF force = 1 \/ c.nodes[m].link # "up" THEN <<>>
                                ELSE Send(d, n, m, "mfstart", None))
  /\ env' = [env EXCEPT !.todo = @ \ {<<"failover", n, force>>}, !.forced = @ \/ force = 1]
-----------------------------------------------------------------------------
(* Writes, replication, and the slave that takes over.                     *)

\* A write of a client, acknowledged by the master.
Write(n) ==
  /\ Up(n) /\ Has(n, n, "master") /\ NumSlots(cluster[n], n) > 0
  /\ ~cluster[n].paused /\ cluster[n].state = "ok"
  /\ cluster[n].offset < env.stream
  /\ Becomes(n, [cluster[n] EXCEPT !.offset = @ + 1], net, <<>>)
  /\ env' = [env EXCEPT !.acked = [@ EXCEPT ![n] = cluster[n].offset + 1]]

\* replicationCron pings the slaves, but not while the clients are paused for a
\* manual failover.
MayPingSlaves(c) == ~(c.mf.end /\ c.paused)

ReplicationPing(n) ==
  /\ Up(n) /\ Has(n, n, "master") /\ Entry(n, n).slaves # {}
  /\ MayPingSlaves(cluster[n]) /\ cluster[n].offset < env.stream
  /\ Time(n, [cluster[n] EXCEPT !.offset = @ + 1])

\* The slave applies the next item of the stream.
Replicate(n) ==
  /\ Up(n) /\ SlaveOf(cluster[n], n) # None
  /\ LET m == SlaveOf(cluster[n], n)
     IN Reach(n, m) /\ Is(cluster[m], m, "master") /\ cluster[n].offset < cluster[m].offset
  /\ Time(n, [cluster[n] EXCEPT !.offset = @ + 1])

\* A slave that lost its dataset, or wrote more than its new master, starts over.
FullSync(n) ==
  /\ Up(n) /\ SlaveOf(cluster[n], n) # None
  /\ LET m == SlaveOf(cluster[n], n)
     IN Reach(n, m) /\ Is(cluster[m], m, "master") /\ cluster[n].offset > cluster[m].offset
  /\ Time(n, [cluster[n] EXCEPT !.offset = 0])

\* The slave won the election of its manual failover (the subject of
\* ClusterElection) and replaces its master (clusterFailoverReplaceYourMaster).
FailoverReplaceYourMaster(n) ==
  /\ Up(n) /\ Has(n, n, "slave") /\ cluster[n].mf.end /\ cluster[n].mf.can
  /\ SlaveOf(cluster[n], n) # None
  /\ LET c == cluster[n]
         m == SlaveOf(c, n)
         e == 1 + Max({c.nodes[x].epoch : x \in Known(c)})
         d == SetNodeAsMaster(c, n, n)
         t == UpdateLater([d EXCEPT !.slots = [j \in Slot |-> IF @[j] = m THEN n ELSE @[j]],
                          !.nodes[n].epoch = e, !.mf = NoFailover])
     IN /\ Becomes(n, t, net, Broadcast(UpdateState(t, n), n, "pong", None))
        /\ env' = [env EXCEPT !.handover = IF env.forced THEN @
                                           ELSE [from |-> m, offset |-> c.offset]]

\* The pause of a manual failover lasts twice as long as the slave's attempt: the
\* slave has given up by then, or its promotion is known to the old master.
PauseEnds(n) ==
  /\ Up(n) /\ cluster[n].paused
  /\ \A s \in Node : ~cluster[s].mf.end
  /\ \A i \in DOMAIN net : net[i].to # n
  /\ Time(n, [cluster[n] EXCEPT !.paused = FALSE])
-----------------------------------------------------------------------------
(* Faults.                                                                 *)

\* The links to a node that crashes are dead, what was sent to it is lost.
Crash(n) ==
  /\ Up(n) /\ n \in env.crashes
  /\ cluster' = [p \in Node |-> [cluster[p] EXCEPT !.nodes = [x \in Known(cluster[p]) |->
       IF @[x].addr = env.where[n] /\ @[x].link # "none" THEN [@[x] EXCEPT !.link = "dead"] ELSE @[x]]]]
  /\ net' = SelectSeq(net, LAMBDA p : p.to # n /\ p.conn[1] # n)
  /\ env' = [env EXCEPT !.up = @ \ {n}, !.crashes = @ \ {n}]
  /\ UNCHANGED suspected

\* What clusterLoadConfig and clusterInit make of nodes.conf: handshakes are not
\* in it, PFAIL flags are if they were saved.
Restarted(c, saved) ==
  LET ids == {x \in Known(c) : ~Is(c, x, "handshake")}
      drop == IF saved THEN {} ELSE {"pfail"}
  IN [c EXCEPT !.nodes = [x \in ids |-> [@[x] EXCEPT !.flags = @ \ drop, !.link = "none",
                            !.failOld = FALSE, !.reports = {}, !.orphaned = "no"]],
               !.size = 1, !.state = "fail", !.booting = TRUE, !.minority = FALSE, !.black = {},
               !.mf = NoFailover, !.paused = FALSE, !.todo = FALSE, !.failing = {}]

\* A node starts again, perhaps at the address another node had.
Restart(n, a, saved) ==
  /\ ~Up(n) /\ <<n, a>> \in env.restarts
  /\ \A p \in Node \ {n} : env.where[p] # a \/ ~Up(p)
  /\ cluster' = [cluster EXCEPT ![n] = Restarted(@, saved)]
  /\ env' = [env EXCEPT !.up = @ \cup {n}, !.restarts = @ \ {<<n, a>>},
       !.where = [p \in Node |-> IF p = n THEN a ELSE IF @[p] = a THEN None ELSE @[p]]]
  /\ UNCHANGED <<net, suspected>>

\* A partition isolates a node, and heals.
Cut(n) ==
  /\ env.cuts > 0 /\ env.cut = {}
  /\ env' = [env EXCEPT !.cut = {n}, !.cuts = @ - 1]
  /\ UNCHANGED <<cluster, net, suspected>>

Heal ==
  /\ env.cut # {}
  /\ env' = [env EXCEPT !.cut = {}]
  /\ UNCHANGED <<cluster, net, suspected>>
-----------------------------------------------------------------------------
\* A cluster of nodes e.knows[n] for each node n, with the owners of the slots and
\* the master of each node, that has run for a while.
Started(e) ==
  LET Slaves(n, x) == {s \in e.knows[n] \ {x} : e.master[s] = x}
      Seen(n, x) ==
        [createClusterNode(x, {IF e.master[x] = x THEN "master" ELSE "slave"} \cup
             (IF Slaves(n, x) = {} THEN {} ELSE {"migrate_to"}) \cup
             (IF x \in e.failed \ {n} THEN {"fail"} ELSE {}))
           EXCEPT !.slaveof = IF e.master[x] = x THEN None ELSE e.master[x],
                  !.slaves = Slaves(n, x), !.epoch = x, !.link = IF x # n /\ {n, x} \subseteq e.up THEN "up" ELSE "none"]
      Slots(n) == [j \in Slot |-> IF e.owner[j] \in e.knows[n] THEN e.owner[j] ELSE None]
  IN [n \in Node |->
        [nodes |-> [x \in e.knows[n] |-> Seen(n, x)], slots |-> Slots(n),
         size |-> Cardinality({e.owner[j] : j \in Slot} \cap e.knows[n]),
         state |-> IF (e.failed \cup {None}) \cap Range(Slots(n)) = {} THEN "ok" ELSE "fail",
         booting |-> FALSE, minority |-> FALSE, black |-> {}, mf |-> NoFailover,
         offset |-> 0, paused |-> FALSE, todo |-> FALSE, failing |-> {}]]

Init ==
  \E e \in Environments :
    /\ cluster = Started(e)
    /\ net = <<>>
    /\ env = [name |-> e.name, up |-> e.up, cut |-> {}, where |-> [n \in Node |-> n],
              net |-> e.net, stream |-> e.stream, slow |-> e.slow, expiries |-> e.expiries, crashes |-> e.crashes,
              restarts |-> e.restarts, cuts |-> e.cuts, todo |-> e.todo,
              met |-> {}, forgot |-> {}, forced |-> FALSE, acked |-> [n \in Node |-> 0],
              handover |-> [from |-> None, offset |-> 0]]
    /\ suspected = Node \X e.failed

Next ==
  \/ \E i \in DOMAIN net : ReceiveInbound(i, net[i].to)
  \/ \E i \in DOMAIN net : ReceiveOnLink(i, net[i].to)
  \/ \E i \in DOMAIN net : ReceiveFail(i, net[i].to)
  \/ \E i \in DOMAIN net : ReceiveMFStart(i, net[i].to)
  \/ \E n \in Node : CronIdle(n)
  \/ \E n \in Node : \E x \in Peers(n) : CronConnect(n, x)
  \/ \E n \in Node : \E x \in Peers(n) : LinkConnectHandler(n, x)
  \/ \E n \in Node : \E x \in Peers(n) : CronPing(n, x)
  \/ \E n \in Node : \E x \in Peers(n) : CronPingSlave(n, x)
  \/ \E n \in Node : \E x \in Peers(n) : CronTimeout(n, x)
  \/ \E n \in Node : \E x \in Peers(n) : CronTimeoutSlow(n, x)
  \/ \E n \in Node : \E x \in Peers(n) : CronDropLink(n, x)
  \/ \E n \in Node : \E x \in Peers(n) : CronHandshakeTimeout(n, x)
  \/ \E n \in Node : ManualFailoverCheckTimeout(n)
  \/ \E n \in Node : \E x \in Peers(n) : \E r \in Entry(n, x).reports : ReportExpires(n, x, r)
  \/ \E n \in Node : \E x \in Peers(n) : FailAges(n, x)
  \/ \E n \in Node : \E x \in Peers(n) : OrphanAges(n, x)
  \/ \E n \in Node : BootDelayOver(n)
  \/ \E n \in Node : RejoinDelayOver(n)
  \/ \E n \in Node : \E x \in cluster[n].black : BlacklistExpires(n, x)
  \/ \E n, a \in Node : ClusterMeet(n, a)
  \/ \E n, x \in Node : ClusterForget(n, x)
  \/ \E n \in Node : ClusterReset(n)
  \/ \E n, x \in Node : ClusterReplicate(n, x)
  \/ \E n \in Node, force \in {0, 1} : ClusterFailover(n, force)
  \/ \E n \in Node : Write(n)
  \/ \E n \in Node : ReplicationPing(n)
  \/ \E n \in Node : Replicate(n)
  \/ \E n \in Node : FullSync(n)
  \/ \E n \in Node : FailoverReplaceYourMaster(n)
  \/ \E n \in Node : PauseEnds(n)
  \/ \E n \in Node : Crash(n)
  \/ \E n, a \in Node, saved \in BOOLEAN : Restart(n, a, saved)
  \/ \E n \in Node : Cut(n)
  \/ Heal

Spec == Init /\ [][Next]_vars

(* Fairness: the event loop reads what has arrived, clusterCron runs ten times a *)
(* second, pings when a pong is old and finds what is due.                       *)

CanReceive == \E i \in DOMAIN net :
  Arrives(i, net[i].to, {"ping", "pong", "meet", "fail", "mfstart"})
Receives == ~(Range(net) \subseteq Range(net'))

CanPing == \E n \in env.up : \E x \in Peers(n) :
  /\ Len(net) < env.net
  /\ Entry(n, x).link = "up" /\ ~Entry(n, x).ping /\ ~Has(n, x, "handshake")
Pings == Len(net') > Len(net)

Unheard(n, x) == Silent(n, x) /\ Entry(n, x).flags \cap {"handshake", "noaddr", "pfail", "fail"} = {}
Unlinked(n, x) == Entry(n, x).link = "none" /\ ~Has(n, x, "noaddr")
                  /\ (~Entry(n, x).ping \/ Answers(Entry(n, x).addr))
IsDue(n) == \/ \E x \in Peers(n) : \/ Unheard(n, x) \/ Unlinked(n, x)
                                   \/ Entry(n, x).link \in {"connecting", "dead"}
                                   \/ Entry(n, x).orphaned = "new"
            \/ BeforeSleep(CronTail(cluster[n], n), n) # cluster[n]
CanDo == \E n \in env.up : IsDue(n)
Does == net' = net /\ cluster' # cluster

Fairness ==
  /\ []<>~CanReceive \/ []<><<Receives>>_vars
  /\ []<>~CanPing \/ []<><<Pings>>_vars
  /\ []<>~CanDo \/ []<><<Does>>_vars

FairSpec == Spec /\ Fairness
-----------------------------------------------------------------------------
\* Whom node n takes for failing was suspected by a majority of the masters that
\* serve slots, however reports, their expiry and FAIL messages are interleaved
\* (markNodeAsFailingIfNeeded).
FailNeedsMajority ==
  \A n \in env.up : \A x \in Peers(n) :
    Has(n, x, "fail") =>
      LET voters == {cluster[n].slots[j] : j \in Slot} \ {None}
      IN Cardinality({m \in voters : <<m, x>> \in suspected}) >= Quorum(Cardinality(voters))

\* The nodes that belong together: they did at the start, or somebody said MEET.
Together(n, x) ==
  LET e == CHOOSE e \in Environments : e.name = env.name
      Join(g) == g \cup UNION {e.knows[m] : m \in g}
                   \cup UNION {{p[1], p[2]} : p \in {q \in env.met : {q[1], q[2]} \cap g # {}}}
  IN x \in Join(Join(Join({n})))

\* A node only knows nodes of its own cluster, whatever answers at the address of a
\* node that is gone, and does not hear again of one it was told to forget
\* (clusterProcessGossipSection, clusterBlacklistAddNode).
NoStrangers ==
  \A n \in env.up : \A x \in Peers(n) \ Temp : Together(n, x) /\ <<n, x>> \notin env.forgot

\* A manual failover without FORCE loses no write its master acknowledged: nothing
\* is written after the offset the slave waited for (clusterHandleManualFailover).
HandoverLosesNothing ==
  env.handover.from # None => env.acked[env.handover.from] <= env.handover.offset

Noticed(gone) ==
  \A n \in env.up : \A x \in gone \cap Known(cluster[n]) :
    LET voters == {cluster[n].slots[j] : j \in Slot} \ {None}
    IN Has(n, x, "fail") \/ Cardinality(voters \cap env.up) < Max({2, Quorum(Cardinality(voters))})

Followers(m) == {n \in env.up : SlaveOf(cluster[n], n) = m}
Crowded == {m \in Node : Cardinality(Followers(m)) >= 2}
Lonely == {m \in env.up : /\ Has(m, m, "migrate_to") /\ NumSlots(cluster[m], m) > 0
                          /\ Followers(m) = {}}

\* A node that crashed is flagged as failing by every node that knows it, as long
\* as two masters and a majority of them are left, although reports expire and a slow
\* node is suspected too (clusterCron, markNodeAsFailingIfNeeded, clusterSendFail).
CrashIsNoticed ==
  (env.restarts = {} /\ ~Noticed(Node \ env.up)) ~> Noticed(Node \ env.up)

\* A master whose slaves are all down gets one of a master that has two, though no
\* node tells another to move (clusterHandleSlaveMigration).
OrphanIsAdopted == (env.todo = {} /\ Lonely # {} /\ Crowded # {}) ~> (Lonely = {})
=============================================================================
