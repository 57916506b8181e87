--------------------------- MODULE ClusterConfig ---------------------------
(***************************************************************************)
(* How the nodes of a Redis Cluster agree on who serves which hash slot    *)
(* (cluster.c).  Every node has a view: its currentEpoch and, for every    *)
(* node, the configEpoch, the role and the slots it knows.  The header of  *)
(* a PING or PONG publishes the sender's own configuration; UPDATE tells a *)
(* node that what it claims is out of date.  Configuration epochs may be   *)
(* taken without consensus (CLUSTER FAILOVER TAKEOVER, the end of a slot   *)
(* import, CLUSTER BUMPEPOCH), and masters that end with the same epoch    *)
(* resolve the collision.  Failure detection and the election are modelled *)
(* elsewhere: here a failover is a takeover.                               *)
(***************************************************************************)
EXTENDS Integers, FiniteSets, FiniteSetsExt

CONSTANTS Node,       \* the node IDs, numbers because they are compared
          Slot,       \* the hash slots, numbers because they are scanned in order
          None,       \* a null pointer
          Environments \* the clusters and surroundings to start with

ASSUME NodesAreNats == Node \subseteq Nat /\ Slot \subseteq Nat /\ None \notin Node

\* When the cluster starts: the master of each node, or None, the configEpoch of
\* each node and the node that serves each slot.  Then the commands the
\* administrator uses, and how often; the bound on the packets in flight; and
\* whether links may break and lose what is in flight.  Slots belong to masters.
Environment ==
  [master : [Node -> Node \cup {None}], epoch : [Node -> Nat],
   owner : [Slot -> Node \cup {None}],
   commands : SUBSET {"takeover", "bumpepoch", "setslot"}, ops : Nat,
   net : Nat, lossy : BOOLEAN]

ASSUME StartIsTyped ==
  \A e \in Environments :
    /\ e \in Environment
    /\ \A j \in Slot : e.owner[j] # None => e.master[e.owner[j]] = None

VARIABLES view,  \* what each node knows: server.cluster
          net,   \* the packets in flight
          env    \* the environment; env.ops counts down

vars == <<view, net, env>>

Max2(a, b) == IF a >= b THEN a ELSE b

IsMaster(v, n) == v.master[n] = None
MasterOf(v, n) == IF IsMaster(v, n) THEN n ELSE v.master[n]
SlotsOf(v, n) == {j \in Slot : v.owner[j] = n}

Init ==
  /\ env \in Environments
  /\ \E greatest \in {env.epoch[m] : m \in Node} :
       /\ \A m \in Node : env.epoch[m] <= greatest
       /\ view = [n \in Node |->
            [currentEpoch |-> greatest, epoch |-> env.epoch,
             master |-> env.master, owner |-> env.owner, importing |-> {}]]
  /\ net = {}
-----------------------------------------------------------------------------
(* Packets.                                                                *)

\* clusterBuildMessageHdr for the view v of node n: a slave publishes the slots
\* and the epoch of its master.
Header(v, n, to) ==
  [from |-> n, to |-> to, currentEpoch |-> v.currentEpoch,
   configEpoch |-> v.epoch[MasterOf(v, n)], slots |-> SlotsOf(v, MasterOf(v, n)),
   slaveof |-> v.master[n]]

\* Mutant: an UPDATE carries currentEpoch instead of the configEpoch of the node.
NodeConfigCurrent(v, m) == [node |-> m, epoch |-> v.currentEpoch, slots |-> SlotsOf(v, m)]

\* What clusterSendUpdate adds: the configuration of one node, in the view v.
NodeConfig(v, m) == [node |-> m, epoch |-> v.epoch[m], slots |-> SlotsOf(v, m)]
NoConfig == [node |-> None, epoch |-> 0, slots |-> {}]

Ping(v, n, to) == [hdr |-> Header(v, n, to), update |-> NoConfig]
Update(v, n, to, m) == [hdr |-> Header(v, n, to), update |-> NodeConfig(v, m)]

Packet ==
  [hdr : [from : Node, to : Node, currentEpoch : Nat, configEpoch : Nat,
          slots : SUBSET Slot, slaveof : Node \cup {None}],
   update : [node : Node \cup {None}, epoch : Nat, slots : SUBSET Slot]]
-----------------------------------------------------------------------------
(* The steps of clusterProcessPacket on the view v of node n, for the      *)
(* header h of the packet.                                                 *)

\* The sender's epochs, when they are newer than the known ones.
LearnEpochs(v, h) == [v EXCEPT !.currentEpoch = Max2(@, h.currentEpoch),
                               !.epoch[h.from] = Max2(@, h.configEpoch)]

\* A master that turned into a slave loses its slots.
SwitchRole(v, h) ==
  [v EXCEPT !.master[h.from] = h.slaveof,
            !.owner = [j \in Slot |-> IF /\ h.slaveof # None /\ IsMaster(v, h.from)
                                         /\ v.owner[j] = h.from
                                        THEN None ELSE v.owner[j]]]

\* Mutant: a claim with an equal epoch wins.
ReboundOnEqual(v, m, e, slots) ==
  {j \in slots : /\ v.owner[j] # m
                 /\ j \notin v.importing
                 /\ v.owner[j] = None \/ v.epoch[v.owner[j]] <= e}

\* Mutant: only unassigned slots are taken over.
ReboundUnassigned(v, m, e, slots) ==
  {j \in slots : v.owner[j] = None /\ j \notin v.importing}

\* The slots a claim of m, with configEpoch e, takes over.
Rebound(v, m, e, slots) ==
  {j \in slots : /\ v.owner[j] # m
                 /\ j \notin v.importing
                 /\ v.owner[j] = None \/ v.epoch[v.owner[j]] < e}

\* clusterSetMaster; a master that turns into a slave closes its imports.
SetMaster(v, n, m) ==
  [v EXCEPT !.master[n] = m, !.importing = IF IsMaster(v, n) THEN {} ELSE @]

\* clusterUpdateSlotsConfigWith: rebind the slots, and follow the new owner when
\* the last slot of this node, or of its master, is gone.
UpdateSlotsConfigWith(v, n, m, e, slots) ==
  LET lost == Rebound(v, m, e, slots)
      w == [v EXCEPT !.owner = [j \in Slot |-> IF j \in lost THEN m ELSE v.owner[j]]]
      cur == MasterOf(v, n)
  IN IF m = n THEN v
     ELSE IF (\E j \in lost : v.owner[j] = cur) /\ SlotsOf(w, cur) = {}
       THEN SetMaster(w, n, m)
       ELSE w

Dirty(v, h) == SlotsOf(v, MasterOf(v, h.from)) # h.slots

\* The slots the sender claims although a newer configuration gives them to others.
Outdated(v, h) == {j \in h.slots : /\ v.owner[j] \notin {h.from, None}
                                   /\ v.epoch[v.owner[j]] > h.configEpoch}

\* clusterHandleConfigEpochCollision: of two masters with the same epoch, the one
\* with the smaller ID takes a new one.
ResolveCollision(v, n, h) ==
  IF /\ IsMaster(v, n) /\ IsMaster(v, h.from)
     /\ h.configEpoch = v.epoch[n] /\ v.epoch[h.from] = v.epoch[n]
     /\ n < h.from
    THEN [v EXCEPT !.currentEpoch = @ + 1, !.epoch[n] = v.currentEpoch + 1]
    ELSE v

\* A PING or PONG: roles, then the slots a master claims, then the UPDATE for a
\* sender that is out of date, then the collision.
ReceivePing(n, p) ==
  LET h == p.hdr
      u == SwitchRole(LearnEpochs(view[n], h), h)
      w == IF IsMaster(u, h.from) /\ Dirty(u, h)
             THEN UpdateSlotsConfigWith(u, n, h.from, h.configEpoch, h.slots) ELSE u
      stale == IF Dirty(u, h) THEN Outdated(w, h) ELSE {}
  IN /\ p.update = NoConfig
     /\ view' = [view EXCEPT ![n] = ResolveCollision(w, n, h)]
     /\ net' = (net \ {p}) \cup
          IF stale = {} THEN {} ELSE {Update(w, n, h.from, w.owner[Min(stale)])}
     /\ UNCHANGED env

\* An UPDATE about a node is used when it is newer than what is known of it.
ReceiveUpdate(n, p) ==
  LET v == LearnEpochs(view[n], p.hdr)
      c == p.update
      w == [v EXCEPT !.master[c.node] = None, !.epoch[c.node] = c.epoch]
  IN /\ c # NoConfig
     /\ view' = [view EXCEPT ![n] =
          IF v.epoch[c.node] >= c.epoch THEN v
          ELSE UpdateSlotsConfigWith(w, n, c.node, c.epoch, c.slots)]
     /\ net' = net \ {p}
     /\ UNCHANGED env

\* clusterCron pings the other nodes, again and again.
SendPing(n, m) ==
  /\ n # m
  /\ Cardinality(net) < env.net
  /\ net' = net \cup {Ping(view[n], n, m)}
  /\ UNCHANGED <<view, env>>

LosePacket(p) == env.lossy /\ net' = net \ {p} /\ UNCHANGED <<view, env>>
-----------------------------------------------------------------------------
(* The commands of the administrator.                                      *)

\* clusterBumpConfigEpochWithoutConsensus.
Bump(v, n) ==
  IF v.epoch[n] = 0 \/ v.epoch[n] # Max({v.epoch[m] : m \in Node} \cup {v.currentEpoch})
    THEN [v EXCEPT !.currentEpoch = @ + 1, !.epoch[n] = v.currentEpoch + 1]
    ELSE v

\* clusterFailoverReplaceYourMaster.
ReplaceYourMaster(v, n) ==
  [v EXCEPT !.master[n] = None,
            !.owner = [j \in Slot |-> IF v.owner[j] = v.master[n] THEN n ELSE v.owner[j]]]

Command(name) ==
  /\ name \in env.commands /\ env.ops > 0
  /\ env' = [env EXCEPT !.ops = @ - 1]
  /\ UNCHANGED net

Takeover(n) ==
  /\ Command("takeover")
  /\ ~IsMaster(view[n], n)
  /\ view' = [view EXCEPT ![n] = ReplaceYourMaster(Bump(@, n), n)]

BumpEpoch(n) ==
  /\ Command("bumpepoch")
  /\ view' = [view EXCEPT ![n] = Bump(@, n)]

SetslotImporting(n, j) ==
  /\ Command("setslot")
  /\ IsMaster(view[n], n) /\ view[n].owner[j] # n
  /\ view' = [view EXCEPT ![n].importing = @ \cup {j}]

\* clusterDelSlot, clusterAddSlot and the end of the import.
Imported(v, n, j) == [v EXCEPT !.owner[j] = n, !.importing = @ \ {j}]

\* CLUSTER SETSLOT <slot> NODE <myself> at the node that imported the slot.
SetslotNode(n, j) ==
  /\ IsMaster(view[n], n) /\ j \in view[n].importing
  /\ view' = [view EXCEPT ![n] = Bump(Imported(@, n, j), n)]
  /\ UNCHANGED <<net, env>>

Next ==
  \/ \E n, m \in Node : SendPing(n, m)
  \/ \E p \in net : ReceivePing(p.hdr.to, p)
  \/ \E p \in net : ReceiveUpdate(p.hdr.to, p)
  \/ \E p \in net : LosePacket(p)
  \/ \E n \in Node : Takeover(n) \/ BumpEpoch(n)
  \/ \E n \in Node, j \in Slot : SetslotImporting(n, j) \/ SetslotNode(n, j)

Spec == Init /\ [][Next]_vars

Links == {l \in Node \X Node : l[1] # l[2]}

\* clusterCron keeps pinging every node, and finds the room to do so only because
\* packets leave the links; and the administrator finishes an import.  Both are
\* possible in every state, so that this excludes no finite behaviour.
Fairness ==
  /\ \A l \in Links : []<><<SendPing(l[1], l[2])>>_vars
  /\ []<>(\A n \in Node : view[n].importing = {})

FairSpec == Spec /\ Fairness
-----------------------------------------------------------------------------
\* The types of the state.
TypeOK ==
  /\ view \in [Node -> [currentEpoch : Nat, epoch : [Node -> Nat],
                        master : [Node -> Node \cup {None}],
                        owner : [Slot -> Node \cup {None}], importing : SUBSET Slot]]
  /\ net \subseteq Packet
  /\ env \in Environment

\* In every view a slot is served by a node that the view takes for a master,
\* whatever packets and commands changed the roles (clusterDelNodeSlots,
\* clusterSetNodeAsMaster); clusterSetMaster asserts it of the node itself.
SlotsServedByMasters ==
  \A n \in Node, j \in Slot :
    view[n].owner[j] # None => IsMaster(view[n], view[n].owner[j])

\* A node's currentEpoch is never behind a configuration epoch it knows, so that
\* the epochs it generates are new to it.
CurrentEpochIsGreatest ==
  \A n, m \in Node : view[n].epoch[m] <= view[n].currentEpoch

\* Nobody knows a newer epoch of a master than the master itself.
NobodyKnowsBetter ==
  \A n, m \in Node : IsMaster(view[m], m) => view[n].epoch[m] <= view[m].epoch[m]

\* A node that holds a slot of its own never accepts a claim of it that is not
\* newer than its own configuration: a served slot is lost only to a greater epoch.
LostToGreaterEpoch ==
  [][\A n \in Node, j \in Slot :
       view[n].owner[j] = n /\ view'[n].owner[j] \notin {n, None} =>
         view'[n].epoch[view'[n].owner[j]] > view[n].epoch[n]]_vars

Masters == {n \in Node : IsMaster(view[n], n)}

\* Once the administrator stops, the nodes end with the same owner for every slot,
\* where links deliver what is sent.
ViewsAgree == <>[](env.lossy \/ \A n, m \in Node : view[n].owner = view[m].owner)
=============================================================================
