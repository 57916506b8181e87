------------------------ MODULE ClusterConfigProofs ------------------------
(***************************************************************************)
(* What ClusterConfig guarantees for every set of nodes and slots, every   *)
(* number of packets in flight, lost and reordered ones included, and any  *)
(* use of the commands that take an epoch without consensus.               *)
(*                                                                         *)
(* The inductive invariant rests on one quantity, the ceiling of a node:   *)
(* its own configEpoch while it is a master and its currentEpoch while it  *)
(* is a slave, because a slave may take any epoch up to that one when it   *)
(* is promoted.  The ceiling of a node never decreases, and nothing known  *)
(* or in flight about a node is above it.                                  *)
(***************************************************************************)
EXTENDS ClusterConfig, WellFoundedInduction, TLAPS

View == [currentEpoch : Nat, epoch : [Node -> Nat], master : [Node -> Node \cup {None}],
         owner : [Slot -> Node \cup {None}], importing : SUBSET Slot]

Hdr == [from : Node, to : Node, currentEpoch : Nat, configEpoch : Nat,
        slots : SUBSET Slot, slaveof : Node \cup {None}]

Conf == [node : Node \cup {None}, epoch : Nat, slots : SUBSET Slot]

\* Slots are served by masters, in the view v.
ServedByMasters(v) == \A s \in Slot : v.owner[s] # None => IsMaster(v, v.owner[s])

\* No epoch is greater than the current one, in the view v.
EpochsCurrent(v) == \A m \in Node : v.epoch[m] <= v.currentEpoch

GoodView(v) == v \in View /\ EpochsCurrent(v) /\ ServedByMasters(v)

\* The greatest epoch that others may know of node n, whose view is v.
Ceiling(v, n) == IF IsMaster(v, n) THEN v.epoch[n] ELSE v.currentEpoch

\* A packet is not about its receiver, and its header covers the epochs in it.
GoodPacket(p) ==
  /\ p \in Packet
  /\ p.hdr.from # p.hdr.to
  /\ p.hdr.configEpoch <= p.hdr.currentEpoch
  /\ p.update # NoConfig =>
       /\ p.update.node \in Node \ {p.hdr.to}
       /\ p.update.epoch <= p.hdr.currentEpoch

\* What the packet says about the sender and the node of an UPDATE is covered.
Covered(views, p) ==
  /\ p.hdr.configEpoch <= Ceiling(views[p.hdr.from], p.hdr.from)
  /\ p.update # NoConfig =>
       p.update.epoch <= Ceiling(views[p.update.node], p.update.node)

IInv ==
  /\ view \in [Node -> View] /\ env \in Environment
  /\ \A n \in Node : GoodView(view[n])
  /\ \A p \in net : GoodPacket(p)
  /\ \A n, m \in Node : view[n].epoch[m] <= Ceiling(view[m], m)
  /\ \A p \in net : Covered(view, p)

\* A step of node n from the view v to the view w is fine: the result is a view,
\* the ceiling of n does not decrease, and a slot of n goes to another node only
\* with an epoch greater than that of n.
GoodStep(v, w, n) ==
  /\ GoodView(w)
  /\ Ceiling(v, n) <= Ceiling(w, n)
  /\ \A s \in Slot : v.owner[s] = n /\ w.owner[s] \notin {n, None} =>
                       w.epoch[w.owner[s]] > v.epoch[n]
-----------------------------------------------------------------------------
(* The operators on views.                                                 *)

\* Of a non-empty set of naturals Min returns a member (clusterProcessPacket
\* takes the first slot of its scan).
LEMMA MinIsMember ==
  ASSUME NEW S, S \subseteq Nat, S # {}
  PROVE  Min(S) \in S
<1> DEFINE R == OpToRel(<, Nat)
<1>1. IsWellFoundedOn(R, Nat)
  BY NatLessThanWellFounded, Zenon
<1>2. \A x, y \in Nat : y < x => <<y, x>> \in R
  BY Zenon DEF OpToRel
<1> HIDE DEF R
<1>3. PICK x \in S : \A y \in S : ~(<<y, x>> \in R)
  BY <1>1, WFMin, Zenon
<1>4. \A y \in S : ~(y < x)
  BY <1>2, <1>3, Zenon
<1>5. \A y \in S : x <= y
  BY <1>4
<1> QED
  BY <1>5, Zenon DEF Min

\* The greatest element of a set is the one Max returns.
LEMMA MaxIsGreatest ==
  ASSUME NEW S, S \subseteq Nat, NEW x \in S, \A y \in S : y <= x
  PROVE  Max(S) = x
<1>1. \A z \in S : (\A y \in S : z >= y) => z = x
  OBVIOUS
<1>2. \A y \in S : x >= y
  OBVIOUS
<1> QED
  BY <1>1, <1>2, Zenon DEF Max

\* Learning the epochs of a header whose sender is another node.
LEMMA LearnEpochsIsGood ==
  ASSUME NEW v, GoodView(v), NEW h \in Hdr, h.configEpoch <= h.currentEpoch,
         NEW n \in Node, h.from # n
  PROVE  LET w == LearnEpochs(v, h)
         IN  /\ GoodView(w)
             /\ w.master = v.master /\ w.owner = v.owner /\ w.importing = v.importing
             /\ w.currentEpoch >= v.currentEpoch /\ w.currentEpoch >= h.currentEpoch
             /\ w.epoch[h.from] >= h.configEpoch
             /\ w.epoch[h.from] \in {v.epoch[h.from], h.configEpoch}
             /\ \A m \in Node \ {h.from} : w.epoch[m] = v.epoch[m]
<1> DEFINE w == LearnEpochs(v, h)
<1>1. /\ v \in View /\ h.from \in Node /\ h.currentEpoch \in Nat /\ h.configEpoch \in Nat
      /\ EpochsCurrent(v) /\ ServedByMasters(v)
  BY DEF GoodView, Hdr
<1>2. /\ w \in View /\ w.master = v.master /\ w.owner = v.owner /\ w.importing = v.importing
      /\ w.currentEpoch = Max2(v.currentEpoch, h.currentEpoch)
      /\ w.epoch = [v.epoch EXCEPT ![h.from] = Max2(v.epoch[h.from], h.configEpoch)]
  BY <1>1, Zenon DEF LearnEpochs, View, Max2
<1> HIDE DEF w
<1>3. /\ v.currentEpoch \in Nat /\ v.epoch \in [Node -> Nat]
  BY <1>1 DEF View
<1>4. /\ w.currentEpoch >= v.currentEpoch /\ w.currentEpoch >= h.currentEpoch
      /\ w.epoch[h.from] >= h.configEpoch
      /\ w.epoch[h.from] \in {v.epoch[h.from], h.configEpoch}
      /\ \A m \in Node \ {h.from} : w.epoch[m] = v.epoch[m]
  BY <1>1, <1>2, <1>3 DEF Max2
<1>5. EpochsCurrent(w)
  BY <1>1, <1>2, <1>3 DEF EpochsCurrent, Max2
<1>6. ServedByMasters(w)
  BY <1>1, <1>2 DEF ServedByMasters, IsMaster
<1> QED
  BY <1>2, <1>4, <1>5, <1>6 DEF GoodView, w

\* Learning the role of the sender: a master that turned into a slave loses its
\* slots, nobody else does.
LEMMA SwitchRoleIsGood ==
  ASSUME NEW v, GoodView(v), NEW h \in Hdr
  PROVE  LET w == SwitchRole(v, h)
         IN  /\ GoodView(w)
             /\ w.master = [v.master EXCEPT ![h.from] = h.slaveof]
             /\ w.currentEpoch = v.currentEpoch /\ w.epoch = v.epoch
             /\ \A s \in Slot : \/ w.owner[s] = v.owner[s]
                                \/ w.owner[s] = None /\ v.owner[s] = h.from
<1> DEFINE w == SwitchRole(v, h)
           Lost(s) == h.slaveof # None /\ IsMaster(v, h.from) /\ v.owner[s] = h.from
<1>1. /\ v \in View /\ h.from \in Node /\ h.slaveof \in Node \cup {None}
      /\ EpochsCurrent(v) /\ ServedByMasters(v)
  BY SMTT(60) DEF GoodView, Hdr
<1>2. /\ w \in View /\ w.currentEpoch = v.currentEpoch /\ w.epoch = v.epoch
      /\ w.master = [v.master EXCEPT ![h.from] = h.slaveof]
      /\ w.owner = [s \in Slot |-> IF Lost(s) THEN None ELSE v.owner[s]]
  BY <1>1, Zenon DEF SwitchRole, View
<1> HIDE DEF w
<1>3. EpochsCurrent(w)
  BY <1>1, <1>2 DEF EpochsCurrent
<1>4. ServedByMasters(w)
  <2> SUFFICES ASSUME NEW s \in Slot, w.owner[s] # None
               PROVE  w.master[w.owner[s]] = None
    BY DEF ServedByMasters, IsMaster
  <2>1. w.owner[s] = v.owner[s] /\ ~Lost(s) /\ v.owner[s] \in Node
    BY <1>1, <1>2 DEF View
  <2>2. v.master[v.owner[s]] = None
    BY <1>1, <2>1 DEF ServedByMasters, IsMaster
  <2>3. v.owner[s] = h.from => h.slaveof = None
    BY <2>1, <2>2 DEF IsMaster
  <2> QED
    BY <1>1, <1>2, <2>1, <2>2, <2>3 DEF View
<1> QED
  BY <1>2, <1>3, <1>4 DEF GoodView, w

\* Rebinding the slots that master m claims with epoch e.  A node that loses its
\* last slot follows m; every slot that changes hands had no owner or one with a
\* smaller epoch.
LEMMA UpdateSlotsIsGood ==
  ASSUME NEW v, GoodView(v), NEW n \in Node, NEW m \in Node \ {n}, IsMaster(v, m),
         NEW e \in Nat, NEW slots \in SUBSET Slot
  PROVE  LET w == UpdateSlotsConfigWith(v, n, m, e, slots)
         IN  /\ GoodView(w)
             /\ w.currentEpoch = v.currentEpoch /\ w.epoch = v.epoch
             /\ \A k \in Node \ {n} : w.master[k] = v.master[k]
             /\ IsMaster(w, n) => IsMaster(v, n)
             /\ \A s \in Slot : \/ w.owner[s] = v.owner[s]
                                \/ /\ w.owner[s] = m
                                   /\ v.owner[s] # None => v.epoch[v.owner[s]] < e
<1> DEFINE lost == Rebound(v, m, e, slots)
           r == [v EXCEPT !.owner = [s \in Slot |-> IF s \in lost THEN m ELSE v.owner[s]]]
           w == UpdateSlotsConfigWith(v, n, m, e, slots)
           cur == MasterOf(v, n)
<1>1. v \in View /\ EpochsCurrent(v) /\ ServedByMasters(v) /\ v.master[m] = None /\ None \notin Node
  BY NodesAreNats DEF GoodView, IsMaster
<1>2. \A s \in lost : s \in Slot /\ (v.owner[s] # None => v.epoch[v.owner[s]] < e)
  BY DEF Rebound
<1> HIDE DEF lost
<1>3. /\ r \in View /\ r.currentEpoch = v.currentEpoch /\ r.epoch = v.epoch /\ r.master = v.master
      /\ r.owner = [s \in Slot |-> IF s \in lost THEN m ELSE v.owner[s]]
      /\ r.importing = v.importing
  BY <1>1 DEF View
<1>4. w = IF (\E s \in lost : v.owner[s] = cur) /\ SlotsOf(r, cur) = {}
            THEN SetMaster(r, n, m) ELSE r
  BY DEF UpdateSlotsConfigWith, lost
<1> HIDE DEF r, w, cur
<1>5. ServedByMasters(r)
  BY <1>1, <1>3 DEF ServedByMasters, IsMaster, View
<1>6. CASE w = r
  BY <1>1, <1>2, <1>3, <1>5, <1>6 DEF GoodView, EpochsCurrent, IsMaster, w
<1>7. CASE w = SetMaster(r, n, m) /\ SlotsOf(r, cur) = {}
  <2>1. /\ w \in View /\ w.currentEpoch = r.currentEpoch /\ w.epoch = r.epoch
        /\ w.owner = r.owner /\ w.master = [r.master EXCEPT ![n] = m]
    BY <1>3, <1>7, Zenon DEF SetMaster, View
  <2>2. \A s \in Slot : r.owner[s] # n
    <3>1. CASE cur = n
      BY <1>7, <3>1 DEF SlotsOf
    <3>2. CASE cur # n
      <4>1. r.master[n] # None
        BY <1>3, <3>2 DEF cur, MasterOf, IsMaster
      <4> QED
        BY <1>5, <1>1, <4>1 DEF ServedByMasters, IsMaster
    <3> QED
      BY <3>1, <3>2
  <2>3. ServedByMasters(w)
    BY <1>1, <1>3, <1>5, <2>1, <2>2 DEF ServedByMasters, IsMaster, View
  <2>4. ~IsMaster(w, n) /\ \A k \in Node \ {n} : w.master[k] = v.master[k]
    BY <1>1, <1>3, <2>1 DEF IsMaster, View
  <2>5. EpochsCurrent(w)
    BY <1>1, <1>3, <2>1 DEF EpochsCurrent
  <2> QED
    BY <1>2, <1>3, <2>1, <2>3, <2>4, <2>5 DEF GoodView, w
<1> QED
  BY <1>4, <1>6, <1>7

\* A new epoch for node n: the next one after all it knows.
LEMMA NewEpochIsGood ==
  ASSUME NEW v, GoodView(v), NEW n \in Node
  PROVE  LET w == [v EXCEPT !.currentEpoch = @ + 1, !.epoch[n] = v.currentEpoch + 1]
         IN  /\ GoodView(w)
             /\ w.master = v.master /\ w.owner = v.owner /\ w.importing = v.importing
             /\ w.currentEpoch = v.currentEpoch + 1 /\ w.epoch[n] = w.currentEpoch
             /\ \A m \in Node \ {n} : w.epoch[m] = v.epoch[m]
<1> DEFINE w == [v EXCEPT !.currentEpoch = @ + 1, !.epoch[n] = v.currentEpoch + 1]
<1>1. v \in View /\ EpochsCurrent(v) /\ ServedByMasters(v)
  BY DEF GoodView
<1>2. v.currentEpoch \in Nat /\ v.epoch \in [Node -> Nat]
  BY <1>1 DEF View
<1>3. /\ w \in View
      /\ w.master = v.master /\ w.owner = v.owner /\ w.importing = v.importing
      /\ w.currentEpoch = v.currentEpoch + 1
      /\ w.epoch = [v.epoch EXCEPT ![n] = v.currentEpoch + 1]
  <2>1. PICK x \in Nat : x = v.currentEpoch + 1
    BY <1>2
  <2>2. w = [v EXCEPT !.currentEpoch = x, !.epoch[n] = x]
    BY <2>1
  <2> QED
    BY <1>1, <2>1, <2>2, Zenon DEF View
<1> HIDE DEF w
<1>4. EpochsCurrent(w)
  BY <1>1, <1>2, <1>3 DEF EpochsCurrent
<1>5. ServedByMasters(w)
  BY <1>1, <1>3 DEF ServedByMasters, IsMaster
<1> QED
  BY <1>2, <1>3, <1>4, <1>5 DEF GoodView, w

\* A collision is resolved by a new epoch or not at all.
LEMMA ResolveCollisionIsGood ==
  ASSUME NEW v, GoodView(v), NEW n \in Node, NEW h
  PROVE  LET w == ResolveCollision(v, n, h)
         IN  /\ GoodView(w)
             /\ w.master = v.master /\ w.owner = v.owner
             /\ Ceiling(v, n) <= Ceiling(w, n)
             /\ \A m \in Node \ {n} : w.epoch[m] = v.epoch[m]
<1> DEFINE u == [v EXCEPT !.currentEpoch = @ + 1, !.epoch[n] = v.currentEpoch + 1]
           w == ResolveCollision(v, n, h)
<1>1. w \in {u, v}
  BY DEF ResolveCollision
<1>2. /\ v.currentEpoch \in Nat /\ v.epoch[n] \in Nat /\ v.epoch[n] <= v.currentEpoch
  BY DEF GoodView, View, EpochsCurrent
<1>3. /\ GoodView(u) /\ u.master = v.master /\ u.owner = v.owner
      /\ u.currentEpoch = v.currentEpoch + 1 /\ u.epoch[n] = u.currentEpoch
      /\ \A m \in Node \ {n} : u.epoch[m] = v.epoch[m]
  BY NewEpochIsGood, Zenon
<1> HIDE DEF u, w
<1>4. CASE w = v
  BY <1>2, <1>4 DEF Ceiling, w
<1>5. CASE w = u
  BY <1>2, <1>3, <1>5 DEF Ceiling, IsMaster, w
<1> QED
  BY <1>1, <1>4, <1>5

\* After a bump the node's epoch is the greatest it knows, and at least the one
\* that was current before.
LEMMA BumpIsGood ==
  ASSUME NEW v, GoodView(v), NEW n \in Node
  PROVE  LET w == Bump(v, n)
         IN  /\ GoodView(w)
             /\ w.master = v.master /\ w.owner = v.owner /\ w.importing = v.importing
             /\ w.currentEpoch >= v.currentEpoch /\ w.epoch[n] = w.currentEpoch
             /\ \A m \in Node \ {n} : w.epoch[m] = v.epoch[m]
<1> DEFINE u == [v EXCEPT !.currentEpoch = @ + 1, !.epoch[n] = v.currentEpoch + 1]
           w == Bump(v, n)
           Known == {v.epoch[m] : m \in Node} \cup {v.currentEpoch}
<1>1. /\ v.currentEpoch \in Nat /\ \A m \in Node : v.epoch[m] \in Nat /\ v.epoch[m] <= v.currentEpoch
  BY DEF GoodView, View, EpochsCurrent
<1>2. Max(Known) = v.currentEpoch
  <2>1. Known \subseteq Nat /\ v.currentEpoch \in Known /\ \A y \in Known : y <= v.currentEpoch
    BY <1>1
  <2> QED
    BY <2>1, MaxIsGreatest
<1>3. w = u \/ (w = v /\ v.epoch[n] = v.currentEpoch)
  BY <1>2, SMTT(60) DEF Bump
<1>4. /\ GoodView(u) /\ u.master = v.master /\ u.owner = v.owner /\ u.importing = v.importing
      /\ u.currentEpoch = v.currentEpoch + 1 /\ u.epoch[n] = u.currentEpoch
      /\ \A m \in Node \ {n} : u.epoch[m] = v.epoch[m]
  BY NewEpochIsGood, ZenonT(60)
<1> HIDE DEF u, w
<1> QED
  BY <1>1, <1>3, <1>4 DEF w

\* The promotion of a slave: the slots of its master become its own.
LEMMA ReplaceYourMasterIsGood ==
  ASSUME NEW v, GoodView(v), NEW n \in Node, ~IsMaster(v, n)
  PROVE  LET w == ReplaceYourMaster(v, n)
         IN  /\ GoodView(w)
             /\ w.currentEpoch = v.currentEpoch /\ w.epoch = v.epoch
             /\ IsMaster(w, n)
             /\ \A s \in Slot : w.owner[s] \in {v.owner[s], n}
<1> DEFINE w == ReplaceYourMaster(v, n)
<1>1. /\ v \in View /\ EpochsCurrent(v) /\ ServedByMasters(v)
      /\ v.master[n] \in Node /\ v.master[n] # None /\ None \notin Node
  BY NodesAreNats DEF GoodView, View, IsMaster
<1>2. /\ w \in View /\ w.currentEpoch = v.currentEpoch /\ w.epoch = v.epoch
      /\ w.master = [v.master EXCEPT ![n] = None]
      /\ w.owner = [s \in Slot |-> IF v.owner[s] = v.master[n] THEN n ELSE v.owner[s]]
  BY <1>1, Zenon DEF ReplaceYourMaster, View
<1> HIDE DEF w
<1>3. ServedByMasters(w)
  BY <1>1, <1>2 DEF ServedByMasters, IsMaster, View
<1>4. EpochsCurrent(w) /\ IsMaster(w, n)
  BY <1>1, <1>2 DEF EpochsCurrent, IsMaster, View
<1> QED
  BY <1>2, <1>3, <1>4 DEF GoodView, w
-----------------------------------------------------------------------------
(* The packets of a node and its steps.                                    *)

\* What a node sends is covered by its view.
LEMMA HeaderIsGood ==
  ASSUME NEW v, GoodView(v), NEW n \in Node, NEW to \in Node
  PROVE  LET h == Header(v, n, to)
         IN  /\ h \in Hdr /\ h.from = n /\ h.to = to /\ h.currentEpoch = v.currentEpoch
             /\ h.configEpoch <= v.currentEpoch /\ h.configEpoch <= Ceiling(v, n)
<1>1. v \in View /\ EpochsCurrent(v) /\ MasterOf(v, n) \in Node
  BY DEF GoodView, MasterOf, IsMaster, View
<1>2. v.epoch[MasterOf(v, n)] \in Nat /\ v.epoch[MasterOf(v, n)] <= v.currentEpoch
  BY <1>1 DEF View, EpochsCurrent
<1>3. v.epoch[MasterOf(v, n)] <= Ceiling(v, n)
  BY <1>1, <1>2 DEF Ceiling, MasterOf
<1>4. v.currentEpoch \in Nat /\ v.master[n] \in Node \cup {None}
  BY <1>1 DEF View
<1>5. SlotsOf(v, MasterOf(v, n)) \subseteq Slot
  BY DEF SlotsOf
<1> QED
  BY <1>2, <1>3, <1>4, <1>5 DEF Header, Hdr

\* A good step of one node, with good packets, keeps the invariant: what others
\* know stays below ceilings that do not decrease.
LEMMA StepOfOneNode ==
  ASSUME IInv, NEW n \in Node, NEW w, GoodStep(view[n], w, n),
         view' = [view EXCEPT ![n] = w],
         \A m \in Node \ {n} : w.epoch[m] <= Ceiling(view[m], m),
         \A p \in net' : p \in net \/ (GoodPacket(p) /\ Covered(view', p)),
         env' \in Environment
  PROVE  IInv'
<1>1. /\ w \in View /\ view \in [Node -> View] /\ view'[n] = w
      /\ view' \in [Node -> View] /\ \A m \in Node \ {n} : view'[m] = view[m]
  BY DEF IInv, GoodStep, GoodView
<1>2. \A m \in Node : GoodView(view'[m])
  BY <1>1 DEF IInv, GoodStep
<1>3. \A m \in Node : /\ Ceiling(view[m], m) <= Ceiling(view'[m], m)
                      /\ Ceiling(view[m], m) \in Nat /\ Ceiling(view'[m], m) \in Nat
  <2>1. \A m \in Node : Ceiling(view[m], m) \in Nat /\ Ceiling(view'[m], m) \in Nat
    BY <1>1 DEF Ceiling, View
  <2> QED
    BY <1>1, <2>1 DEF GoodStep
<1>4. ASSUME NEW k \in Node, NEW m \in Node
      PROVE  view'[k].epoch[m] <= Ceiling(view'[m], m)
  <2>1. view'[k].epoch[m] \in Nat
    BY <1>1 DEF View
  <2>2. CASE k # n
    <3>1. view'[k] = view[k] /\ view[k].epoch[m] <= Ceiling(view[m], m)
      BY <1>1, <2>2 DEF IInv
    <3> QED
      BY <1>3, <2>1, <3>1
  <2>3. CASE k = n /\ m # n
    BY <1>1, <1>3, <2>1, <2>3
  <2>4. CASE k = n /\ m = n
    BY <1>1, <2>4 DEF Ceiling, GoodStep, GoodView, EpochsCurrent, View
  <2> QED
    BY <2>2, <2>3, <2>4
<1>5. ASSUME NEW p \in net'
      PROVE  GoodPacket(p) /\ Covered(view', p)
  <2>1. CASE p \in net
    <3>1. GoodPacket(p) /\ Covered(view, p)
      BY <2>1 DEF IInv
    <3>2. /\ p.hdr.from \in Node /\ p.hdr.configEpoch \in Nat /\ p.update.epoch \in Nat
          /\ p.update # NoConfig => p.update.node \in Node
      BY <3>1 DEF GoodPacket, Packet
    <3> QED
      BY <1>3, <3>1, <3>2 DEF Covered
  <2> QED
    BY <2>1, Zenon
<1> QED
  BY <1>1, <1>2, <1>4, <1>5, Zenon DEF IInv

\* The view of a node after the slots of a PING are handled, and after a
\* collision is resolved.
Heard(v, n, h) ==
  LET u == SwitchRole(LearnEpochs(v, h), h)
  IN  IF IsMaster(u, h.from) /\ Dirty(u, h)
        THEN UpdateSlotsConfigWith(u, n, h.from, h.configEpoch, h.slots) ELSE u

\* Hearing a PING: what the view learns is what the header says.
LEMMA HeardIsGood ==
  ASSUME NEW v, GoodView(v), NEW n \in Node, NEW h \in Hdr, h.from # n,
         h.configEpoch <= h.currentEpoch
  PROVE  LET w == Heard(v, n, h)
         IN  /\ GoodStep(v, w, n)
             /\ w.epoch[h.from] \in {v.epoch[h.from], h.configEpoch}
             /\ \A m \in Node \ {h.from} : w.epoch[m] = v.epoch[m]
<1> DEFINE l == LearnEpochs(v, h)
           u == SwitchRole(l, h)
           w == Heard(v, n, h)
<1>1. /\ h.from \in Node /\ h.configEpoch \in Nat /\ h.slots \in SUBSET Slot /\ n # h.from
  BY DEF Hdr
<1>2. /\ GoodView(l)
      /\ l.master = v.master /\ l.owner = v.owner
      /\ l.currentEpoch >= v.currentEpoch
      /\ l.epoch[h.from] >= h.configEpoch
      /\ l.epoch[h.from] \in {v.epoch[h.from], h.configEpoch}
      /\ \A m \in Node \ {h.from} : l.epoch[m] = v.epoch[m]
  BY LearnEpochsIsGood
<1>3. /\ GoodView(u)
      /\ u.master = [l.master EXCEPT ![h.from] = h.slaveof]
      /\ u.currentEpoch = l.currentEpoch /\ u.epoch = l.epoch
      /\ \A s \in Slot : \/ u.owner[s] = l.owner[s]
                         \/ u.owner[s] = None /\ l.owner[s] = h.from
  BY <1>2, SwitchRoleIsGood
<1>4. w = u \/ (IsMaster(u, h.from) /\ w = UpdateSlotsConfigWith(u, n, h.from, h.configEpoch, h.slots))
  BY DEF Heard
<1> HIDE DEF l, u, w
<1>5. /\ v \in View /\ l \in View /\ u \in View
  BY <1>2, <1>3 DEF GoodView
<1>6. /\ GoodView(w) /\ w.currentEpoch = u.currentEpoch /\ w.epoch = u.epoch
      /\ IsMaster(w, n) => IsMaster(u, n)
      /\ \A s \in Slot : \/ w.owner[s] = u.owner[s]
                         \/ /\ w.owner[s] = h.from
                            /\ u.owner[s] # None => u.epoch[u.owner[s]] < h.configEpoch
  <2>1. CASE w = u
    BY <1>3, <2>1
  <2>2. CASE IsMaster(u, h.from) /\ w = UpdateSlotsConfigWith(u, n, h.from, h.configEpoch, h.slots)
    BY <1>1, <1>3, <2>2, UpdateSlotsIsGood
  <2> QED
    BY <1>4, <2>1, <2>2
<1>7. Ceiling(v, n) <= Ceiling(w, n)
  <2>1. IsMaster(u, n) <=> IsMaster(v, n)
    BY <1>1, <1>2, <1>3, <1>5 DEF IsMaster, View
  <2>2. /\ w.epoch[n] = v.epoch[n] /\ w.currentEpoch >= v.currentEpoch
        /\ v.epoch[n] \in Nat /\ v.currentEpoch \in Nat /\ w.currentEpoch \in Nat
        /\ v.epoch[n] <= v.currentEpoch
    BY <1>1, <1>2, <1>3, <1>5, <1>6 DEF View, GoodView, EpochsCurrent
  <2> QED
    BY <1>6, <2>1, <2>2 DEF Ceiling
<1>8. ASSUME NEW s \in Slot, v.owner[s] = n, w.owner[s] \notin {n, None}
      PROVE  w.epoch[w.owner[s]] > v.epoch[n]
  <2>1. u.owner[s] = n /\ n # None
    BY <1>1, <1>2, <1>3, <1>8, NodesAreNats
  <2>2. w.owner[s] = h.from /\ u.epoch[n] < h.configEpoch
    BY <1>6, <1>8, <2>1
  <2>3. w.epoch[h.from] >= h.configEpoch /\ u.epoch[n] = v.epoch[n]
    BY <1>1, <1>2, <1>3, <1>6
  <2>4. w.epoch[h.from] \in Nat /\ v.epoch[n] \in Nat
    BY <1>1, <1>5, <1>6 DEF View, GoodView
  <2> QED
    BY <1>1, <2>2, <2>3, <2>4
<1> QED
  BY <1>2, <1>3, <1>6, <1>7, <1>8 DEF GoodStep, w

\* A PING or PONG; the UPDATE that answers it is covered as well.
LEMMA ReceivePingPreserves ==
  ASSUME IInv, NEW p \in net, ReceivePing(p.hdr.to, p)
  PROVE  IInv' /\ GoodStep(view[p.hdr.to], view'[p.hdr.to], p.hdr.to)
               /\ \A m \in Node \ {p.hdr.to} : view'[m] = view[m]
<1> DEFINE h == p.hdr
           n == p.hdr.to
           v == view[n]
           u == SwitchRole(LearnEpochs(v, h), h)
           w == Heard(v, n, h)
           r == ResolveCollision(w, n, h)
           stale == IF Dirty(u, h) THEN Outdated(w, h) ELSE {}
           q == Update(w, n, h.from, w.owner[Min(stale)])
<1>1. /\ GoodPacket(p) /\ Covered(view, p)
      /\ h \in Hdr /\ n \in Node /\ h.from \in Node /\ h.from # n
      /\ h.configEpoch <= h.currentEpoch
      /\ GoodView(v) /\ view \in [Node -> View]
  BY DEF IInv, GoodPacket, Packet, Hdr
<1>2. /\ view' = [view EXCEPT ![n] = r]
      /\ net' = (net \ {p}) \cup (IF stale = {} THEN {} ELSE {q})
      /\ env' = env
  BY DEF ReceivePing, Heard
<1>3. /\ GoodStep(v, w, n) /\ GoodView(w)
      /\ w.epoch[h.from] \in {v.epoch[h.from], h.configEpoch}
      /\ \A m \in Node \ {h.from} : w.epoch[m] = v.epoch[m]
  <2> HIDE DEF h, n, v
  <2> QED
    BY <1>1, HeardIsGood DEF GoodStep
<1>4. /\ GoodView(r) /\ r.master = w.master /\ r.owner = w.owner
      /\ Ceiling(w, n) <= Ceiling(r, n)
      /\ \A m \in Node \ {n} : r.epoch[m] = w.epoch[m]
  <2> HIDE DEF h, n, w
  <2> QED
    BY <1>1, <1>3, ResolveCollisionIsGood, SMTT(60)
<1> HIDE DEF w, r
<1>5. v \in View /\ w \in View /\ r \in View
  BY <1>1, <1>3, <1>4 DEF GoodView
<1>6. Ceiling(v, n) \in Nat /\ Ceiling(w, n) \in Nat /\ Ceiling(r, n) \in Nat
  BY <1>1, <1>5 DEF Ceiling, View
<1>7. GoodStep(v, r, n)
  <2>1. Ceiling(v, n) <= Ceiling(r, n)
    BY <1>3, <1>4, <1>6 DEF GoodStep
  <2>2. \A s \in Slot : w.owner[s] \in Node \cup {None}
    BY <1>5, SMTT(60) DEF View
  <2>3. \A s \in Slot : v.owner[s] = n /\ r.owner[s] \notin {n, None} =>
                          r.epoch[r.owner[s]] > v.epoch[n]
    BY <1>3, <1>4, <2>2, SMTT(60) DEF GoodStep
  <2> QED
    BY <1>4, <2>1, <2>3, SMTT(60) DEF GoodStep
<1>8. \A m \in Node \ {n} : r.epoch[m] <= Ceiling(view[m], m)
  BY <1>1, <1>3, <1>4 DEF IInv, Covered
<1>9. ASSUME stale # {}
      PROVE  GoodPacket(q) /\ Covered(view', q)
  <2> DEFINE k == w.owner[Min(stale)]
  <2>1. Min(stale) \in stale
    BY <1>9, MinIsMember, NodesAreNats, <1>1, ZenonT(60) DEF Outdated, Hdr
  <2>2. Min(stale) \in Slot /\ k \in Node \ {h.from}
    BY <1>1, <1>5, <2>1 DEF Outdated, Hdr, View
  <2>3. /\ q.hdr \in Hdr /\ q.hdr.from = n /\ q.hdr.to = h.from
        /\ q.hdr.currentEpoch = w.currentEpoch
        /\ q.hdr.configEpoch <= w.currentEpoch /\ q.hdr.configEpoch <= Ceiling(w, n)
    <3>1. q.hdr = Header(w, n, h.from)
      BY Zenon DEF Update
    <3>2. GoodView(w) /\ n \in Node /\ h.from \in Node
      BY <1>1, <1>3
    <3> HIDE DEF q, w, h, n
    <3>3. /\ Header(w, n, h.from) \in Hdr /\ Header(w, n, h.from).from = n
          /\ Header(w, n, h.from).to = h.from
          /\ Header(w, n, h.from).currentEpoch = w.currentEpoch
          /\ Header(w, n, h.from).configEpoch <= w.currentEpoch
          /\ Header(w, n, h.from).configEpoch <= Ceiling(w, n)
      BY <3>2, HeaderIsGood, SMTT(60)
    <3> QED
      BY <3>1, <3>3
  <2>4. /\ q.update \in Conf /\ q.update.node = k /\ q.update.epoch = w.epoch[k]
        /\ q.update.epoch <= w.currentEpoch
    <3>1. w.epoch[k] \in Nat /\ w.epoch[k] <= w.currentEpoch /\ SlotsOf(w, k) \subseteq Slot
      BY <1>3, <1>5, <2>2, ZenonT(60) DEF View, GoodView, EpochsCurrent, SlotsOf
    <3> QED
      BY <2>2, <3>1, ZenonT(60) DEF Update, NodeConfig, Conf
  <2>5. q \in Packet
    BY <2>3, <2>4, ZenonT(60) DEF Packet, Hdr, Conf, Update
  <2>6. w.epoch[k] <= Ceiling(view'[k], k)
    <3>1. CASE k = n
      <4>1. w.epoch[n] <= Ceiling(w, n) /\ w.epoch[n] \in Nat
        BY <1>1, <1>3, <1>5, SMTT(60) DEF Ceiling, GoodView, EpochsCurrent, View
      <4> QED
        BY <1>1, <1>2, <1>4, <1>6, <3>1, <4>1, SMTT(60)
    <3>2. CASE k # n
      <4>1. view'[k] = view[k] /\ r.epoch[k] = w.epoch[k]
        BY <1>1, <1>2, <1>4, <2>2, <3>2, ZenonT(60)
      <4> QED
        BY <1>8, <2>2, <3>2, <4>1, ZenonT(60)
    <3> QED
      BY <3>1, <3>2, ZenonT(60)
  <2>7. q.hdr.configEpoch <= Ceiling(view'[n], n)
    <3>1. q.hdr.configEpoch \in Nat
      BY <2>3, Zenon DEF Hdr
    <3>2. view'[n] = r
      BY <1>1, <1>2
    <3>3. q.hdr.configEpoch <= Ceiling(r, n)
      <4> HIDE DEF q, n
      <4> QED
        BY <1>4, <1>6, <2>3, <3>1, SMTT(60)
    <3> QED
      BY <3>2, <3>3, SMTT(60)
  <2> HIDE DEF q, k
  <2> QED
    BY <1>1, <2>2, <2>3, <2>4, <2>5, <2>6, <2>7, SMTT(60) DEF GoodPacket, Covered
<1>A. \A x \in net' : x \in net \/ (GoodPacket(x) /\ Covered(view', x))
  BY <1>2, <1>9
<1>B. env' \in Environment
  BY <1>2 DEF IInv
<1> HIDE DEF n, v, stale, q
<1> QED
  BY <1>1, <1>2, <1>7, <1>8, <1>A, <1>B, StepOfOneNode, Zenon DEF n, v

\* An UPDATE, about another node than the receiver.
LEMMA ReceiveUpdatePreserves ==
  ASSUME IInv, NEW p \in net, ReceiveUpdate(p.hdr.to, p)
  PROVE  IInv' /\ GoodStep(view[p.hdr.to], view'[p.hdr.to], p.hdr.to)
               /\ \A m \in Node \ {p.hdr.to} : view'[m] = view[m]
<1> DEFINE h == p.hdr
           n == p.hdr.to
           c == p.update
           o == view[n]
           v == LearnEpochs(o, h)
           w == [v EXCEPT !.master[c.node] = None, !.epoch[c.node] = c.epoch]
           r == IF v.epoch[c.node] >= c.epoch THEN v
                ELSE UpdateSlotsConfigWith(w, n, c.node, c.epoch, c.slots)
<1>1. /\ GoodPacket(p) /\ Covered(view, p)
      /\ h \in Hdr /\ n \in Node /\ h.from \in Node /\ h.from # n
      /\ h.configEpoch <= h.currentEpoch /\ h.configEpoch \in Nat /\ h.currentEpoch \in Nat
      /\ c \in Conf /\ c.node \in Node \ {n} /\ c.epoch \in Nat /\ c.epoch <= h.currentEpoch
      /\ c.slots \in SUBSET Slot
      /\ GoodView(o) /\ view \in [Node -> View] /\ o \in View
  BY DEF IInv, GoodPacket, Packet, Hdr, Conf, ReceiveUpdate, GoodView
<1>2. /\ view' = [view EXCEPT ![n] = r]
      /\ net' = net \ {p} /\ env' = env /\ c # NoConfig
  BY DEF ReceiveUpdate
<1> HIDE DEF h, n, c, o
<1>3. /\ GoodView(v) /\ v.master = o.master /\ v.owner = o.owner
      /\ v.currentEpoch >= o.currentEpoch /\ v.currentEpoch >= h.currentEpoch
      /\ v.epoch[h.from] \in {o.epoch[h.from], h.configEpoch}
      /\ \A m \in Node \ {h.from} : v.epoch[m] = o.epoch[m]
  BY <1>1, LearnEpochsIsGood
<1> HIDE DEF v
<1>4. /\ v \in View /\ v.currentEpoch \in Nat /\ o.currentEpoch \in Nat
      /\ \A m \in Node : v.epoch[m] \in Nat /\ o.epoch[m] \in Nat
  BY <1>1, <1>3 DEF GoodView, View
<1>5. /\ w \in View /\ w.currentEpoch = v.currentEpoch /\ w.owner = v.owner
      /\ w.master = [v.master EXCEPT ![c.node] = None]
      /\ w.epoch = [v.epoch EXCEPT ![c.node] = c.epoch]
  BY <1>1, <1>4, Zenon DEF View
<1> HIDE DEF w
<1>6. GoodView(w) /\ IsMaster(w, c.node) /\ (IsMaster(w, n) <=> IsMaster(v, n))
  <2>1. EpochsCurrent(w)
    BY <1>1, <1>3, <1>4, <1>5 DEF GoodView, EpochsCurrent, View
  <2>2. ServedByMasters(w)
    BY <1>1, <1>3, <1>4, <1>5 DEF GoodView, ServedByMasters, IsMaster, View
  <2>3. IsMaster(w, c.node) /\ (IsMaster(w, n) <=> IsMaster(v, n))
    BY <1>1, <1>4, <1>5 DEF IsMaster, View
  <2> QED
    BY <1>5, <2>1, <2>2, <2>3 DEF GoodView
<1>7. Ceiling(o, n) <= Ceiling(v, n) /\ Ceiling(v, n) = Ceiling(w, n) /\ Ceiling(o, n) \in Nat
  <2>1. v.epoch[n] = o.epoch[n] /\ (IsMaster(o, n) <=> IsMaster(v, n))
    BY <1>1, <1>3 DEF IsMaster
  <2>2. w.epoch[n] = v.epoch[n]
    BY <1>1, <1>4, <1>5, SMTT(60)
  <2> QED
    BY <1>1, <1>3, <1>4, <1>5, <1>6, <2>1, <2>2 DEF Ceiling
<1>8. CASE r = v
  <2>1. GoodStep(o, r, n)
    BY <1>3, <1>7, <1>8 DEF GoodStep
  <2>2. \A m \in Node \ {n} : r.epoch[m] <= Ceiling(view[m], m)
    BY <1>1, <1>3, <1>8 DEF IInv, Covered, o, h
  <2>3. env' \in Environment /\ \A x \in net' : x \in net
    BY <1>2 DEF IInv
  <2> QED
    BY <1>1, <1>2, <2>1, <2>2, <2>3, StepOfOneNode, Zenon DEF n, o
<1>9. CASE r = UpdateSlotsConfigWith(w, n, c.node, c.epoch, c.slots)
  <2>1. /\ GoodView(r) /\ r.currentEpoch = w.currentEpoch /\ r.epoch = w.epoch
        /\ IsMaster(r, n) => IsMaster(w, n)
        /\ \A s \in Slot : \/ r.owner[s] = w.owner[s]
                           \/ /\ r.owner[s] = c.node
                              /\ w.owner[s] # None => w.epoch[w.owner[s]] < c.epoch
    <3> DEFINE e == UpdateSlotsConfigWith(w, n, c.node, c.epoch, c.slots)
    <3>1. /\ GoodView(e) /\ e.currentEpoch = w.currentEpoch /\ e.epoch = w.epoch
          /\ IsMaster(e, n) => IsMaster(w, n)
          /\ \A s \in Slot : \/ e.owner[s] = w.owner[s]
                             \/ /\ e.owner[s] = c.node
                                /\ w.owner[s] # None => w.epoch[w.owner[s]] < c.epoch
      BY <1>1, <1>6, UpdateSlotsIsGood, SMTT(60)
    <3> HIDE DEF e, r
    <3> QED
      BY <1>9, <3>1, Zenon DEF e
  <2> HIDE DEF r
  <2>2. Ceiling(w, n) <= Ceiling(r, n)
    <3>1. w.epoch[n] \in Nat /\ w.currentEpoch \in Nat /\ w.epoch[n] <= w.currentEpoch
      BY <1>1, <1>6 DEF GoodView, View, EpochsCurrent
    <3> QED
      BY <2>1, <3>1 DEF Ceiling
  <2>3. Ceiling(w, n) \in Nat /\ Ceiling(r, n) \in Nat
    BY <1>1, <1>6, <2>1 DEF GoodView, View, Ceiling
  <2>4. ASSUME NEW s \in Slot, o.owner[s] = n, r.owner[s] \notin {n, None}
        PROVE  r.epoch[r.owner[s]] > o.epoch[n]
    <3>1. w.owner[s] = n /\ n # None
      BY <1>1, <1>3, <1>5, <2>4, NodesAreNats
    <3>2. r.owner[s] = c.node /\ w.epoch[n] < c.epoch
      BY <2>1, <2>4, <3>1, SMTT(60)
    <3>3. r.epoch[c.node] = c.epoch /\ w.epoch[n] = o.epoch[n]
      BY <1>1, <1>3, <1>4, <1>5, <2>1 DEF View
    <3> QED
      BY <1>1, <1>4, <3>2, <3>3
  <2>5. GoodStep(o, r, n)
    BY <1>7, <2>1, <2>2, <2>3, <2>4 DEF GoodStep
  <2>6. ASSUME NEW m \in Node \ {n}
        PROVE  r.epoch[m] <= Ceiling(view[m], m)
    <3>1. CASE m = c.node
      <4>1. r.epoch[m] = c.epoch
        BY <1>1, <1>4, <1>5, <2>1, <3>1 DEF View
      <4> QED
        BY <1>1, <1>2, <3>1, <4>1, SMTT(60) DEF Covered, c
    <3>2. CASE m # c.node
      <4>1. r.epoch[m] = v.epoch[m]
        BY <1>1, <1>4, <1>5, <2>1, <3>2 DEF View
      <4>2. v.epoch[m] \in {o.epoch[m], h.configEpoch} /\ (m # h.from => v.epoch[m] = o.epoch[m])
        BY <1>3
      <4>3. o.epoch[m] <= Ceiling(view[m], m)
        BY <1>1 DEF IInv, o
      <4>4. h.configEpoch <= Ceiling(view[h.from], h.from)
        BY <1>1 DEF Covered, h
      <4> QED
        BY <4>1, <4>2, <4>3, <4>4, SMTT(60)
    <3> QED
      BY <3>1, <3>2
  <2>7. env' \in Environment /\ \A x \in net' : x \in net
    BY <1>2 DEF IInv
  <2> QED
    BY <1>1, <1>2, <2>5, <2>6, <2>7, StepOfOneNode, ZenonT(60) DEF n, o
<1> QED
  BY <1>8, <1>9

\* The packets of clusterCron.
LEMMA SendPingPreserves ==
  ASSUME IInv, NEW n \in Node, NEW m \in Node, SendPing(n, m)
  PROVE  IInv'
<1> DEFINE q == Ping(view[n], n, m)
<1>1. view' = view /\ env' = env /\ net' = net \cup {q} /\ n # m /\ GoodView(view[n])
  BY SMTT(60) DEF SendPing, IInv
<1>2. /\ q.hdr \in Hdr /\ q.hdr.from = n /\ q.hdr.to = m
      /\ q.hdr.currentEpoch = view[n].currentEpoch
      /\ q.hdr.configEpoch <= view[n].currentEpoch
      /\ q.hdr.configEpoch <= Ceiling(view[n], n)
      /\ q.update = NoConfig /\ q = [hdr |-> q.hdr, update |-> NoConfig]
  BY <1>1, HeaderIsGood DEF Ping
<1> HIDE DEF q
<1>3. q \in Packet
  BY <1>2 DEF Packet, Hdr, NoConfig
<1>4. GoodPacket(q) /\ Covered(view, q)
  BY <1>1, <1>2, <1>3 DEF GoodPacket, Covered
<1> QED
  BY <1>1, <1>4 DEF IInv

\* The commands that change the view of one node, and leave the packets alone.
LEMMA CommandPreserves ==
  ASSUME IInv, NEW n \in Node, NEW w, GoodStep(view[n], w, n),
         view' = [view EXCEPT ![n] = w], net' = net, env' \in Environment,
         \A m \in Node \ {n} : w.epoch[m] = view[n].epoch[m]
  PROVE  IInv' /\ GoodStep(view[n], view'[n], n) /\ \A m \in Node \ {n} : view'[m] = view[m]
<1>1. \A m \in Node \ {n} : w.epoch[m] <= Ceiling(view[m], m)
  BY DEF IInv
<1>2. IInv'
  BY <1>1, StepOfOneNode, Zenon
<1> QED
  BY <1>2, Zenon DEF IInv

\* A command counts down the operations left.
LEMMA CommandIsTyped ==
  ASSUME env \in Environment, NEW name, Command(name)
  PROVE  env' \in Environment /\ net' = net
BY DEF Environment, Command

\* A bump alone: CLUSTER BUMPEPOCH.
LEMMA BumpIsAStep ==
  ASSUME NEW v, GoodView(v), NEW n \in Node
  PROVE  GoodStep(v, Bump(v, n), n)
<1> DEFINE w == Bump(v, n)
<1>1. /\ GoodView(w) /\ w.master = v.master /\ w.owner = v.owner
      /\ w.currentEpoch >= v.currentEpoch /\ w.epoch[n] = w.currentEpoch
  BY BumpIsGood
<1> HIDE DEF w
<1>2. /\ v.epoch[n] \in Nat /\ v.currentEpoch \in Nat /\ w.currentEpoch \in Nat
      /\ v.epoch[n] <= v.currentEpoch
  BY <1>1 DEF GoodView, View, EpochsCurrent
<1>3. Ceiling(v, n) <= Ceiling(w, n)
  BY <1>1, <1>2 DEF Ceiling
<1>4. \A s \in Slot : v.owner[s] = n => w.owner[s] = n
  BY <1>1
<1> QED
  BY <1>1, <1>3, <1>4 DEF GoodStep, w

\* CLUSTER FAILOVER TAKEOVER: the new master starts with the greatest epoch it
\* knows, which is no smaller than any epoch others know of it.
LEMMA TakeoverPreserves ==
  ASSUME IInv, NEW n \in Node, Takeover(n)
  PROVE  IInv' /\ GoodStep(view[n], view'[n], n) /\ \A m \in Node \ {n} : view'[m] = view[m]
<1> DEFINE v == view[n]
           b == Bump(v, n)
           w == ReplaceYourMaster(b, n)
<1>1. /\ GoodView(v) /\ ~IsMaster(v, n) /\ view' = [view EXCEPT ![n] = w]
      /\ env' \in Environment /\ net' = net
  BY CommandIsTyped DEF Takeover, IInv
<1> HIDE DEF v
<1>2. /\ GoodView(b) /\ b.master = v.master /\ b.owner = v.owner
      /\ b.currentEpoch >= v.currentEpoch /\ b.epoch[n] = b.currentEpoch
      /\ \A m \in Node \ {n} : b.epoch[m] = v.epoch[m]
  BY <1>1, BumpIsGood
<1> HIDE DEF b
<1>3. /\ GoodView(w) /\ w.currentEpoch = b.currentEpoch /\ w.epoch = b.epoch /\ IsMaster(w, n)
      /\ \A s \in Slot : w.owner[s] \in {b.owner[s], n}
  BY <1>1, <1>2, ReplaceYourMasterIsGood DEF IsMaster
<1> HIDE DEF w
<1>4. GoodStep(v, w, n)
  BY <1>1, <1>2, <1>3 DEF GoodStep, Ceiling
<1>5. \A m \in Node \ {n} : w.epoch[m] = v.epoch[m]
  BY <1>2, <1>3
<1> QED
  BY <1>1, <1>4, <1>5, CommandPreserves, Zenon DEF v

\* CLUSTER BUMPEPOCH.
LEMMA BumpEpochPreserves ==
  ASSUME IInv, NEW n \in Node, BumpEpoch(n)
  PROVE  IInv' /\ GoodStep(view[n], view'[n], n) /\ \A m \in Node \ {n} : view'[m] = view[m]
<1>1. /\ GoodView(view[n]) /\ view' = [view EXCEPT ![n] = Bump(view[n], n)]
      /\ env' \in Environment /\ net' = net
  BY CommandIsTyped DEF BumpEpoch, IInv
<1>2. \A m \in Node \ {n} : Bump(view[n], n).epoch[m] = view[n].epoch[m]
  BY <1>1, BumpIsGood
<1> QED
  BY <1>1, <1>2, BumpIsAStep, CommandPreserves, Zenon

\* CLUSTER SETSLOT IMPORTING.
LEMMA SetslotImportingPreserves ==
  ASSUME IInv, NEW n \in Node, NEW j \in Slot, SetslotImporting(n, j)
  PROVE  IInv' /\ GoodStep(view[n], view'[n], n) /\ \A m \in Node \ {n} : view'[m] = view[m]
<1> DEFINE v == view[n]
           w == [v EXCEPT !.importing = @ \cup {j}]
<1>1. /\ GoodView(v) /\ v \in View /\ view' = [view EXCEPT ![n] = w]
      /\ env' \in Environment /\ net' = net
  BY CommandIsTyped DEF SetslotImporting, IInv, GoodView
<1>2. /\ w \in View /\ w.currentEpoch = v.currentEpoch /\ w.epoch = v.epoch
      /\ w.master = v.master /\ w.owner = v.owner
  BY <1>1 DEF View
<1> HIDE DEF w, v
<1>3. GoodStep(v, w, n)
  <2>1. Ceiling(v, n) \in Nat /\ Ceiling(w, n) = Ceiling(v, n)
    BY <1>1, <1>2 DEF Ceiling, IsMaster, View
  <2>2. GoodView(w)
    BY <1>1, <1>2 DEF GoodView, EpochsCurrent, ServedByMasters, IsMaster
  <2> QED
    BY <1>2, <2>1, <2>2 DEF GoodStep
<1> QED
  BY <1>1, <1>2, <1>3, CommandPreserves, Zenon DEF v

\* CLUSTER SETSLOT NODE at the end of an import.
LEMMA SetslotNodePreserves ==
  ASSUME IInv, NEW n \in Node, NEW j \in Slot, SetslotNode(n, j)
  PROVE  IInv' /\ GoodStep(view[n], view'[n], n) /\ \A m \in Node \ {n} : view'[m] = view[m]
<1> DEFINE v == view[n]
           u == Imported(v, n, j)
           w == Bump(u, n)
<1>1. /\ GoodView(v) /\ v \in View /\ view' = [view EXCEPT ![n] = w] /\ IsMaster(v, n)
      /\ env' \in Environment /\ net' = net
  BY DEF SetslotNode, IInv, GoodView
<1>2. /\ u \in View /\ u.currentEpoch = v.currentEpoch /\ u.epoch = v.epoch
      /\ u.master = v.master /\ u.owner = [v.owner EXCEPT ![j] = n]
  BY <1>1, Zenon DEF View, Imported
<1> HIDE DEF u, v
<1>3. GoodView(u)
  <2>1. EpochsCurrent(u)
    BY <1>1, <1>2 DEF GoodView, EpochsCurrent
  <2>2. ServedByMasters(u)
    BY <1>1, <1>2 DEF GoodView, ServedByMasters, IsMaster, View
  <2> QED
    BY <1>2, <2>1, <2>2 DEF GoodView
<1>4. GoodStep(u, w, n)
  BY <1>3, BumpIsAStep
<1>5. w.owner = u.owner /\ \A m \in Node \ {n} : w.epoch[m] = u.epoch[m]
  BY <1>3, BumpIsGood
<1> HIDE DEF w
<1>6. GoodStep(v, w, n)
  <2>1. Ceiling(v, n) = Ceiling(u, n)
    BY <1>2 DEF Ceiling, IsMaster
  <2>2. \A s \in Slot : v.owner[s] = n => w.owner[s] = n
    BY <1>1, <1>2, <1>5 DEF View
  <2> QED
    BY <1>4, <2>1, <2>2 DEF GoodStep
<1>7. \A m \in Node \ {n} : w.epoch[m] = v.epoch[m]
  BY <1>2, <1>5
<1> QED
  BY <1>1, <1>6, <1>7, CommandPreserves, Zenon DEF v
-----------------------------------------------------------------------------
(* The results.                                                            *)

\* A cluster starts with the same view everywhere.
LEMMA InitEstablishes == Init => IInv
<1> SUFFICES ASSUME Init PROVE IInv
  OBVIOUS
<1>1. env \in Environments /\ env \in Environment /\ net = {}
  BY StartIsTyped DEF Init
<1>2. PICK greatest \in {env.epoch[m] : m \in Node} :
        /\ \A m \in Node : env.epoch[m] <= greatest
        /\ view = [n \in Node |->
             [currentEpoch |-> greatest, epoch |-> env.epoch,
              master |-> env.master, owner |-> env.owner, importing |-> {}]]
  BY Zenon DEF Init
<1>3. /\ env.epoch \in [Node -> Nat] /\ greatest \in Nat
      /\ env.master \in [Node -> Node \cup {None}] /\ env.owner \in [Slot -> Node \cup {None}]
      /\ \A s \in Slot : env.owner[s] # None => env.master[env.owner[s]] = None
  BY <1>1, <1>2, StartIsTyped DEF Environment
<1>4. view \in [Node -> View]
  BY <1>2, <1>3 DEF View
<1>5. ASSUME NEW n \in Node
      PROVE  /\ GoodView(view[n])
             /\ \A m \in Node : view[n].epoch[m] <= Ceiling(view[m], m)
  <2>1. EpochsCurrent(view[n]) /\ ServedByMasters(view[n])
    BY <1>2, <1>3, SMTT(60) DEF EpochsCurrent, ServedByMasters, IsMaster
  <2>2. \A m \in Node : view[n].epoch[m] <= Ceiling(view[m], m)
    BY <1>2, <1>3, SMTT(60) DEF Ceiling
  <2> QED
    BY <1>4, <2>1, <2>2 DEF GoodView
<1> QED
  BY <1>1, <1>4, <1>5 DEF IInv

\* Every step keeps the invariant, and is a good step of every node.
LEMMA StepPreserves ==
  IInv /\ [Next]_vars =>
    IInv' /\ \A n \in Node : view'[n] = view[n] \/ GoodStep(view[n], view'[n], n)
<1> SUFFICES ASSUME IInv, [Next]_vars
             PROVE  /\ IInv'
                    /\ \A n \in Node : view'[n] = view[n] \/ GoodStep(view[n], view'[n], n)
  OBVIOUS
<1>1. CASE \E n, m \in Node : SendPing(n, m)
  <2>1. PICK n, m \in Node : SendPing(n, m)
    BY <1>1
  <2>2. view' = view
    BY <2>1 DEF SendPing
  <2> QED
    BY <2>1, <2>2, SendPingPreserves
<1>2. CASE \E p \in net : ReceivePing(p.hdr.to, p)
  BY <1>2, ReceivePingPreserves
<1>3. CASE \E p \in net : ReceiveUpdate(p.hdr.to, p)
  BY <1>3, ReceiveUpdatePreserves
<1>4. CASE \E p \in net : LosePacket(p)
  BY <1>4 DEF LosePacket, IInv
<1>5. CASE \E n \in Node : Takeover(n) \/ BumpEpoch(n)
  BY <1>5, TakeoverPreserves, BumpEpochPreserves
<1>6. CASE \E n \in Node, j \in Slot : SetslotImporting(n, j) \/ SetslotNode(n, j)
  BY <1>6, SetslotImportingPreserves, SetslotNodePreserves
<1>7. CASE UNCHANGED vars
  BY <1>7 DEF vars, IInv
<1> QED
  BY <1>1, <1>2, <1>3, <1>4, <1>5, <1>6, <1>7 DEF Next

\* The invariant holds in every reachable state.
LEMMA Invariance == Spec => []IInv
<1>1. IInv /\ [Next]_vars => IInv'
  BY StepPreserves
<1> QED
  BY <1>1, InitEstablishes, PTL DEF Spec

\* The types of the views, the packets and the environment are kept.
THEOREM TypeCorrect == Spec => []TypeOK
<1>1. IInv => TypeOK
  BY DEF IInv, TypeOK, GoodPacket, View
<1> QED
  BY <1>1, Invariance, PTL

\* In every view a slot is served by a node that the view takes for a master,
\* whatever packets were lost or came late (clusterProcessPacket,
\* clusterUpdateSlotsConfigWith, clusterFailoverReplaceYourMaster).
THEOREM MastersServeTheSlots == Spec => []SlotsServedByMasters
<1>1. IInv => SlotsServedByMasters
  BY DEF IInv, GoodView, ServedByMasters, SlotsServedByMasters
<1> QED
  BY <1>1, Invariance, PTL

\* No node knows a configuration epoch greater than its currentEpoch, so that the
\* epoch clusterBumpConfigEpochWithoutConsensus takes is new to the node.
THEOREM KnownEpochsAreCurrent == Spec => []CurrentEpochIsGreatest
<1>1. IInv => CurrentEpochIsGreatest
  BY DEF IInv, GoodView, EpochsCurrent, CurrentEpochIsGreatest
<1> QED
  BY <1>1, Invariance, PTL

\* Nobody knows a newer epoch of a master than the master itself, although a slave
\* publishes the epoch of its master as its own and may be promoted later.
THEOREM MastersKnowBest == Spec => []NobodyKnowsBetter
<1>1. IInv => NobodyKnowsBetter
  <2> SUFFICES ASSUME IInv, NEW n \in Node, NEW m \in Node, IsMaster(view[m], m)
               PROVE  view[n].epoch[m] <= view[m].epoch[m]
    BY DEF NobodyKnowsBetter
  <2>1. view[n].epoch[m] <= Ceiling(view[m], m)
    BY DEF IInv
  <2> QED
    BY <2>1 DEF Ceiling
<1> QED
  BY <1>1, Invariance, PTL

\* A slot that a node serves goes to another node only with a configuration epoch
\* greater than its own (clusterUpdateSlotsConfigWith), in every step.
THEOREM SlotsGoToGreaterEpochs == Spec => LostToGreaterEpoch
<1> DEFINE Lost == \A n \in Node, j \in Slot :
                     view[n].owner[j] = n /\ view'[n].owner[j] \notin {n, None} =>
                       view'[n].epoch[view'[n].owner[j]] > view[n].epoch[n]
<1>1. IInv /\ [Next]_vars => [Lost]_vars
  <2> SUFFICES ASSUME IInv, [Next]_vars, NEW n \in Node, NEW j \in Slot,
                      view[n].owner[j] = n, view'[n].owner[j] \notin {n, None}
               PROVE  view'[n].epoch[view'[n].owner[j]] > view[n].epoch[n]
    OBVIOUS
  <2>1. GoodStep(view[n], view'[n], n)
    BY StepPreserves
  <2> QED
    BY <2>1 DEF GoodStep
<1> QED
  BY <1>1, Invariance, PTL DEF Spec, LostToGreaterEpoch
=============================================================================
