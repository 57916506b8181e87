------------------------ MODULE ClusterElectionProofs ------------------------
(***************************************************************************)
(* The safety of the replica election, for any masters, slaves and bounds: *)
(* at most one slave wins an epoch, with the votes of a majority that were *)
(* really cast for it.  The assumption is the one the code makes too: a    *)
(* message does not stay on the way for longer than the retry time of the  *)
(* election it belongs to (Timely).                                        *)
(*                                                                         *)
(* The inductive invariant says three things.  A voter's memory: what it   *)
(* has cast is not newer than what its nodes.conf says, what it has queued *)
(* is newer, and its last vote is not newer than its current epoch, so it  *)
(* cannot vote twice, not even after a crash.  A slave's attempt: all that *)
(* is on its way for a slave with an open attempt is of the epoch of that  *)
(* attempt.  The count: every vote counted was cast and has left the wire, *)
(* so that none is counted twice.                                          *)
(***************************************************************************)
EXTENDS ClusterElection, FiniteSetTheorems, TLAPS

\* No message outlives the retry time.
Timely == \A e \in Environments : ~e.lateAcks

Vote(v, s, e) == [voter |-> v, slave |-> s, epoch |-> e]

\* The masters that voted for s in epoch e, and those of them whose vote has
\* reached s or was lost.
Voters(s, e) == {v \in Master : Vote(v, s, e) \in cast}
Received(s, e) == {v \in Voters(s, e) : Ack(v, s, e) \notin net}

\* lastVoteEpoch is on disk before the vote leaves, and never decreases.
VotersRemember ==
  \A v \in Master :
    /\ disk[v].lastVoteEpoch <= lastVoteEpoch[v]
    /\ lastVoteEpoch[v] <= currentEpoch[v]
    /\ disk[v].lastVoteEpoch <= disk[v].currentEpoch
    /\ \A c \in cast : c.voter = v => c.epoch <= disk[v].lastVoteEpoch

\* What a node has queued is its own; a queued vote is not saved yet.
QueuedVotesAreNew ==
  \A n \in Node : \A m \in outbox[n] :
    /\ m.from = n
    /\ m.type = "ack" => /\ n \in todo
                         /\ disk[n].lastVoteEpoch < m.epoch
                         /\ m.epoch <= lastVoteEpoch[n]
                         /\ \A k \in outbox[n] : k.type = "ack" /\ k.epoch = m.epoch => k = m

SentVotesWereCast == \A m \in net : m.type = "ack" => Vote(m.from, m.to, m.epoch) \in cast

\* What is on its way for s.
OnTheWay(s) ==
  {m \in Message : OfAttempt(s, m) /\ (m \in net \/ \E n \in Node : m \in outbox[n])}

AttemptsApart ==
  \A s \in Slave :
    /\ auth[s].sent => \A m \in OnTheWay(s) : m.epoch = auth[s].epoch
    /\ ~auth[s].sent /\ auth[s].phase # "idle" => OnTheWay(s) = {} /\ auth[s].count = 0

CountIsReceived ==
  \A s \in Slave : auth[s].sent => auth[s].count <= Cardinality(Received(s, auth[s].epoch))

WonByMajority == \A w \in won : Cardinality(Voters(w.slave, w.epoch)) >= NeededQuorum

IInv == /\ TypeOK /\ ~env.lateAcks
        /\ VotersRemember /\ QueuedVotesAreNew /\ SentVotesWereCast /\ OneVotePerEpoch
        /\ AttemptsApart /\ CountIsReceived /\ WonByMajority

-----------------------------------------------------------------------------
(* Sets of masters and of votes.                                           *)

\* Sets of masters are finite, and a larger one has no fewer masters.
LEMMA SetsOfMasters ==
  ASSUME NEW A \in SUBSET Master, NEW B \in SUBSET A
  PROVE  /\ IsFiniteSet(A) /\ Cardinality(A) \in Nat /\ Cardinality(B) \in Nat
         /\ Cardinality(B) <= Cardinality(A)
  BY MastersFinite, FS_Subset, FS_CardinalityType

\* The quorum of clusterHandleSlaveFailover is more than half of the masters.
LEMMA QuorumIsMajority ==
  /\ NeededQuorum \in Nat \ {0} /\ 2 * NeededQuorum > Cardinality(Master)
  /\ Cardinality(Master) \in Nat
  BY MastersFinite, FS_CardinalityType DEF NeededQuorum

\* A vote is determined by its voter, once the slave and the epoch are given.
LEMMA VotesAreVoters ==
  ASSUME TypeOK, NEW s \in Slave, NEW e
  PROVE  Cardinality({c \in cast : c.slave = s /\ c.epoch = e}) = Cardinality(Voters(s, e))
<1> DEFINE C == {c \in cast : c.slave = s /\ c.epoch = e}
           f == [v \in Voters(s, e) |-> Vote(v, s, e)]
<1>1. f \in [Voters(s, e) -> C]
  BY DEF Voters, Vote
<1>2. \A v, w \in Voters(s, e) : f[v] = f[w] => v = w
  BY DEF Vote
<1>3. ASSUME NEW c \in C PROVE \E v \in Voters(s, e) : f[v] = c
  <2>1. c \in [voter : Master, slave : Slave, epoch : Epoch] /\ c.slave = s /\ c.epoch = e
    BY DEF TypeOK
  <2>2. c = Vote(c.voter, s, e) /\ c.voter \in Master
    BY <2>1 DEF Vote
  <2> QED
    BY <2>2 DEF Voters
<1>4. f \in Bijection(Voters(s, e), C)
  BY <1>1, <1>2, <1>3 DEF Bijection, Injection, Surjection, IsInjective
<1>5. IsFiniteSet(Voters(s, e))
  BY SetsOfMasters DEF Voters
<1> QED
  BY <1>4, <1>5, FS_Bijection DEF ExistsBijection

-----------------------------------------------------------------------------
(* The invariant holds initially and is preserved by every action.         *)

\* Nobody asked, voted or won yet, so the invariant holds at first.
LEMMA InitEstablishes == ASSUME Timely, Init PROVE IInv
<1>1. 1 \in Epoch /\ 0 \in Epoch
  BY MaxEpochIsNat DEF Epoch
<1>2. env \in Environment /\ ~env.lateAcks
  BY EnvironmentsTyped DEF Init, Timely
<1>3. TypeOK
  BY <1>1, <1>2, OldIsMaster DEF Init, TypeOK, Node, NoAttempt, Phases, Config
<1>4. VotersRemember /\ QueuedVotesAreNew /\ SentVotesWereCast /\ OneVotePerEpoch
  BY DEF Init, VotersRemember, QueuedVotesAreNew, SentVotesWereCast, OneVotePerEpoch, Config, Node
<1>5. AttemptsApart /\ CountIsReceived /\ WonByMajority
  BY DEF Init, AttemptsApart, CountIsReceived, WonByMajority, NoAttempt
<1> QED
  BY <1>2, <1>3, <1>4, <1>5 DEF IInv

\* A count stays covered when no vote that was received is on the wire again.
LEMMA StillReceived ==
  ASSUME NEW t \in Slave, auth'[t] = auth[t], cast \subseteq cast',
         \A v \in Master, e \in Epoch :
           Vote(v, t, e) \in cast /\ Ack(v, t, e) \in net' => Ack(v, t, e) \in net,
         auth[t].epoch \in Epoch, auth[t].count \in Nat,
         auth[t].count <= Cardinality(Received(t, auth[t].epoch))
  PROVE  (auth[t].count <= Cardinality(Received(t, auth[t].epoch)))'
<1>1. PICK e \in Epoch : e = auth[t].epoch
  OBVIOUS
<1>2. Received(t, e) \subseteq Received(t, e)' /\ Received(t, e)' \subseteq Master
  BY DEF Received, Voters
<1>3. /\ Cardinality(Received(t, e)) <= Cardinality(Received(t, e)')
      /\ Cardinality(Received(t, e)) \in Nat /\ Cardinality(Received(t, e)') \in Nat
  BY <1>2, SetsOfMasters
<1> QED
  BY <1>1, <1>3

\* ScheduleElection: the attempt starts with an empty count and nothing on its way.
LEMMA ScheduleElectionPreserves ==
  ASSUME IInv, NEW s \in Slave, NEW fail \in BOOLEAN, NEW force \in BOOLEAN,
         ScheduleElection(s, fail, force)
  PROVE  IInv'
<1> USE DEF IInv
<1>0. /\ net' \subseteq net /\ \A n \in Node : outbox'[n] \subseteq outbox[n]
      /\ \A m \in Message : OfAttempt(s, m) => m \notin net' /\ \A n \in Node : m \notin outbox'[n]
  BY DEF ScheduleElection, Pending
<1>1. TypeOK'
  BY <1>0 DEF TypeOK, ScheduleElection, ScheduledAttempt, Phases
<1>2. VotersRemember'
  BY DEF ScheduleElection, VotersRemember
<1>3. QueuedVotesAreNew'
  BY <1>0 DEF ScheduleElection, QueuedVotesAreNew
<1>4. SentVotesWereCast' /\ OneVotePerEpoch' /\ ~env'.lateAcks
  BY <1>0 DEF ScheduleElection, SentVotesWereCast, OneVotePerEpoch
<1>5. AttemptsApart'
  <2> SUFFICES ASSUME NEW t \in Slave
               PROVE  /\ auth'[t].sent => \A m \in OnTheWay(t)' : m.epoch = auth'[t].epoch
                      /\ ~auth'[t].sent /\ auth'[t].phase # "idle"
                           => OnTheWay(t)' = {} /\ auth'[t].count = 0
    BY DEF AttemptsApart
  <2>1. OnTheWay(t)' \subseteq OnTheWay(t)
    BY <1>0 DEF OnTheWay, OfAttempt
  <2>2. CASE t = s
    <3>1. auth'[s].sent = FALSE /\ auth'[s].count = 0
      BY DEF ScheduleElection, ScheduledAttempt, TypeOK
    <3>2. OnTheWay(s)' = {}
      BY <1>0 DEF OnTheWay, OfAttempt
    <3> QED
      BY <2>2, <3>1, <3>2
  <2>3. CASE t # s
    <3>1. auth'[t] = auth[t]
      BY <2>3 DEF ScheduleElection, TypeOK
    <3> QED
      BY <2>1, <3>1 DEF AttemptsApart
  <2> QED
    BY <2>2, <2>3
<1>6. CountIsReceived'
  <2> SUFFICES ASSUME NEW t \in Slave, auth'[t].sent
               PROVE  (auth[t].count <= Cardinality(Received(t, auth[t].epoch)))'
    BY DEF CountIsReceived
  <2>1. auth'[t] = auth[t]
    BY DEF ScheduleElection, ScheduledAttempt, TypeOK
  <2>2. /\ auth[t].epoch \in Epoch /\ auth[t].count \in Nat
        /\ auth[t].count <= Cardinality(Received(t, auth[t].epoch))
    BY <2>1 DEF TypeOK, CountIsReceived
  <2> QED
    BY <1>0, <2>1, <2>2, StillReceived DEF ScheduleElection
<1>7. WonByMajority'
  BY DEF ScheduleElection, WonByMajority, Voters
<1> QED
  BY <1>1, <1>2, <1>3, <1>4, <1>5, <1>6, <1>7

\* RequestVotes: the first messages of the attempt carry its epoch.
LEMMA RequestVotesPreserves ==
  ASSUME IInv, NEW s \in Slave, NEW fail \in BOOLEAN, NEW force \in BOOLEAN,
         NEW sleep \in BOOLEAN, RequestVotes(s, fail, force, sleep)
  PROVE  IInv'
<1> USE DEF IInv
<1> DEFINE r == AuthRequest(s, force)
<1>0. /\ s \in Node /\ s \notin Master
      /\ currentEpoch[s] \in Nat /\ ElectionEpoch(s) \in Epoch
  <2>1. s \in Node /\ s \notin Master
    BY SlavesAreNotMasters DEF Node
  <2>2. currentEpoch[s] \in Epoch /\ env.epochs \in 0 .. MaxEpoch
    BY <2>1 DEF TypeOK, Environment
  <2> QED
    BY <2>1, <2>2, MaxEpochIsNat DEF RequestVotes, Epoch, ElectionEpoch
<1>1. /\ r \in Requests /\ r.type = "request" /\ r.from = s /\ r.epoch = ElectionEpoch(s)
      /\ r \in Message
  BY <1>0 DEF AuthRequest, Request, Requests, Message, TypeOK
<1>2. /\ net' \subseteq net \cup {r} /\ \A n \in Node : outbox'[n] \subseteq outbox[n] \cup {r}
      /\ \A n \in Node \ {s} : outbox'[n] = outbox[n]
  BY DEF RequestVotes, TypeOK
<1>3. TypeOK'
  <2>1. net' \subseteq Message
    BY <1>1, <1>2 DEF TypeOK
  <2>3. outbox' \in [Node -> SUBSET Message]
    <3>1. CASE sleep
      BY <3>1 DEF RequestVotes, TypeOK
    <3>2. CASE ~sleep
      <4>1. outbox' = [outbox EXCEPT ![s] = @ \cup {r}]
        BY <3>2 DEF RequestVotes
      <4>2. outbox[s] \cup {r} \in SUBSET Message
        BY <1>0, <1>1 DEF TypeOK
      <4> QED
        BY <4>1, <4>2, Zenon DEF TypeOK
    <3> QED
      BY <3>1, <3>2
  <2>2. auth' \in [Slave -> [phase : Phases, epoch : Epoch, count : Nat, sent : BOOLEAN]]
    BY <1>0, ZenonT(60) DEF RequestVotes, TypeOK
  <2> QED
    BY <1>0, <2>1, <2>2, <2>3, Zenon DEF RequestVotes, TypeOK
<1>4. VotersRemember'
  BY <1>0 DEF RequestVotes, VotersRemember, TypeOK, Node
<1>5. QueuedVotesAreNew'
  BY <1>1, <1>2 DEF RequestVotes, QueuedVotesAreNew
<1>6. SentVotesWereCast' /\ OneVotePerEpoch' /\ ~env'.lateAcks
  BY <1>1, <1>2 DEF RequestVotes, SentVotesWereCast, OneVotePerEpoch
<1>7. auth'[s].sent /\ auth'[s].epoch = ElectionEpoch(s) /\ auth'[s].count = 0
  BY DEF RequestVotes, TypeOK, AttemptsApart
<1>8. AttemptsApart'
  <2> SUFFICES ASSUME NEW t \in Slave
               PROVE  /\ auth'[t].sent => \A m \in OnTheWay(t)' : m.epoch = auth'[t].epoch
                      /\ ~auth'[t].sent /\ auth'[t].phase # "idle"
                           => OnTheWay(t)' = {} /\ auth'[t].count = 0
    BY DEF AttemptsApart
  <2>1. CASE t = s
    <3>1. OnTheWay(s) = {}
      BY DEF RequestVotes, AttemptsApart
    <3>2. OnTheWay(s)' \subseteq {r}
      BY <1>2, <3>1 DEF OnTheWay, OfAttempt
    <3> QED
      BY <1>1, <1>7, <2>1, <3>2
  <2>2. CASE t # s
    <3>1. auth'[t] = auth[t]
      BY <2>2 DEF RequestVotes, TypeOK
    <3>2. OnTheWay(t)' \subseteq OnTheWay(t)
      BY <1>1, <1>2, <2>2 DEF OnTheWay, OfAttempt
    <3> QED
      BY <3>1, <3>2 DEF AttemptsApart
  <2> QED
    BY <2>1, <2>2
<1>9. CountIsReceived'
  <2> SUFFICES ASSUME NEW t \in Slave, auth'[t].sent
               PROVE  (auth[t].count <= Cardinality(Received(t, auth[t].epoch)))'
    BY DEF CountIsReceived
  <2>1. CASE t = s
    <3>1. Cardinality(Received(t, auth[t].epoch)') \in Nat
      BY SetsOfMasters DEF Received, Voters
    <3> QED
      BY <1>7, <2>1, <3>1
  <2>2. CASE t # s
    <3>1. auth'[t] = auth[t]
      BY <2>2 DEF RequestVotes, TypeOK
    <3>2. /\ auth[t].epoch \in Epoch /\ auth[t].count \in Nat
          /\ auth[t].count <= Cardinality(Received(t, auth[t].epoch))
      BY <3>1 DEF TypeOK, CountIsReceived
    <3>3. \A v \in Master, e \in Epoch : Ack(v, t, e) \in net' => Ack(v, t, e) \in net
      BY <1>1, <1>2 DEF Ack
    <3> QED
      BY <3>1, <3>2, <3>3, StillReceived DEF RequestVotes
  <2> QED
    BY <2>1, <2>2
<1>10. WonByMajority'
  BY DEF RequestVotes, WonByMajority, Voters
<1> QED
  BY <1>3, <1>4, <1>5, <1>6, <1>8, <1>9, <1>10

\* WinElection: the count that reached the quorum is covered by votes.
LEMMA WinElectionPreserves ==
  ASSUME IInv, NEW s \in Slave, NEW fail \in BOOLEAN, NEW force \in BOOLEAN,
         WinElection(s, fail, force)
  PROVE  IInv'
<1> USE DEF IInv
<1>0. s \in Node /\ s \notin Master /\ auth[s].epoch \in Epoch /\ auth[s].count \in Nat
  BY SlavesAreNotMasters DEF Node, TypeOK
<1>1. TypeOK'
  <2> DEFINE Conf == [currentEpoch : Epoch, ownerEpoch : Epoch, owner : Node,
                      lastVoteEpoch : Epoch]
             c == [Config(s) EXCEPT !.owner = s, !.ownerEpoch = auth[s].epoch]
  <2>1. 0 \in Epoch /\ currentEpoch[s] \in Epoch /\ ownerEpoch[s] \in Epoch /\ owner[s] \in Node
    BY <1>0, MaxEpochIsNat DEF Epoch, TypeOK
  <2>2. Config(s) \in Conf
    BY <1>0, <2>1 DEF Config
  <2>3. c \in Conf
    BY <1>0, <2>2, Zenon
  <2>4. disk' = [disk EXCEPT ![s] = c] /\ disk \in [Node -> Conf]
    BY DEF WinElection, TypeOK
  <2>5. disk' \in [Node -> Conf]
    BY <2>3, <2>4, Zenon
  <2> QED
    BY <1>0, <2>5 DEF WinElection, TypeOK
<1>2. VotersRemember' /\ QueuedVotesAreNew' /\ SentVotesWereCast' /\ OneVotePerEpoch'
      /\ ~env'.lateAcks
  <2>1. \A v \in Master : disk'[v] = disk[v]
    BY <1>0 DEF WinElection, TypeOK, Node
  <2>2. VotersRemember'
    BY <2>1, Zenon DEF WinElection, VotersRemember
  <2>3. \A m \in outbox[s] : m.type # "ack"
    BY <1>0 DEF QueuedVotesAreNew, TypeOK, Message, Requests, Acks
  <2>4. \A n \in Node \ {s} : disk'[n] = disk[n] /\ (n \in todo => n \in todo')
    BY <1>0 DEF WinElection, TypeOK
  <2>5. QueuedVotesAreNew'
    BY <2>3, <2>4 DEF WinElection, QueuedVotesAreNew
  <2> QED
    BY <2>2, <2>5 DEF WinElection, SentVotesWereCast, OneVotePerEpoch
<1>3. AttemptsApart'
  BY DEF WinElection, AttemptsApart, OnTheWay
<1>4. CountIsReceived'
  BY DEF WinElection, CountIsReceived, Received, Voters
<1>5. WonByMajority'
  <2>1. auth[s].count <= Cardinality(Received(s, auth[s].epoch))
    BY DEF WinElection, CountIsReceived
  <2>2. /\ Cardinality(Received(s, auth[s].epoch)) <= Cardinality(Voters(s, auth[s].epoch))
        /\ Cardinality(Received(s, auth[s].epoch)) \in Nat
        /\ Cardinality(Voters(s, auth[s].epoch)) \in Nat
    BY SetsOfMasters DEF Received, Voters
  <2>3. Cardinality(Voters(s, auth[s].epoch)) >= NeededQuorum
    BY <1>0, <2>1, <2>2, QuorumIsMajority DEF WinElection
  <2>4. won' = won \cup {[slave |-> s, epoch |-> auth[s].epoch]} /\ cast' = cast
    BY DEF WinElection
  <2> QED
    BY <2>3, <2>4, SMTT(60) DEF WonByMajority, Voters
<1> QED
  BY <1>1, <1>2, <1>3, <1>4, <1>5

\* The time to start or to retry an election only opens its guards.
LEMMA AuthTimePassesPreserves ==
  ASSUME IInv, NEW s \in Slave, AuthTimePasses(s)
  PROVE  IInv'
<1> USE DEF IInv
<1>0. /\ \A t \in Slave : /\ auth'[t].sent = auth[t].sent /\ auth'[t].epoch = auth[t].epoch
                          /\ auth'[t].count = auth[t].count
                          /\ auth'[t].phase # "idle" => auth[t].phase # "idle"
      /\ auth' \in [Slave -> [phase : Phases, epoch : Epoch, count : Nat, sent : BOOLEAN]]
  <2>1. NextPhase[auth[s].phase] \in Phases
        /\ (auth[s].phase = "idle" => NextPhase[auth[s].phase] = "idle")
    BY DEF TypeOK, Phases, NextPhase
  <2> QED
    BY <2>1 DEF AuthTimePasses, TypeOK
<1>1. TypeOK'
  BY <1>0 DEF AuthTimePasses, TypeOK
<1>2. VotersRemember' /\ QueuedVotesAreNew' /\ SentVotesWereCast' /\ OneVotePerEpoch'
      /\ ~env'.lateAcks /\ WonByMajority'
  BY DEF AuthTimePasses, VotersRemember, QueuedVotesAreNew, SentVotesWereCast,
         OneVotePerEpoch, WonByMajority, Voters
<1>3. AttemptsApart'
  BY <1>0 DEF AuthTimePasses, AttemptsApart, OnTheWay
<1>4. CountIsReceived'
  BY <1>0 DEF AuthTimePasses, CountIsReceived, Received, Voters
<1> QED
  BY <1>1, <1>2, <1>3, <1>4

\* ReceiveAck: the voter joins those whose vote was received.
LEMMA ReceiveAckPreserves ==
  ASSUME IInv, NEW s \in Slave, NEW m \in net, ReceiveAck(s, m)
  PROVE  IInv'
<1> USE DEF IInv
<1>0. /\ s \in Node /\ m \in Acks /\ m.to = s /\ m.from \in Master /\ m.epoch \in Epoch
      /\ m = Ack(m.from, s, m.epoch) /\ m \in OnTheWay(s)
  BY DEF ReceiveAck, TypeOK, Message, Requests, Acks, Ack, Node, OnTheWay, OfAttempt
<1>1. /\ net' = net \ {m} /\ outbox' = outbox /\ cast' = cast
      /\ \A t \in Slave \ {s} : auth'[t] = auth[t]
      /\ auth'[s].sent = auth[s].sent /\ auth'[s].epoch = auth[s].epoch
      /\ auth'[s].phase = auth[s].phase
      /\ auth'[s].count = IF Counts(s, m) THEN auth[s].count + 1 ELSE auth[s].count
  BY DEF ReceiveAck, TypeOK
<1>2. TypeOK'
  <2>1. Max(currentEpoch[s], m.epoch) \in Epoch
    BY <1>0 DEF Max, TypeOK
  <2>2. auth' \in [Slave -> [phase : Phases, epoch : Epoch, count : Nat, sent : BOOLEAN]]
    BY DEF ReceiveAck, TypeOK
  <2> QED
    BY <1>1, <2>1, <2>2, Zenon DEF ReceiveAck, TypeOK
<1>3. VotersRemember'
  <2>1. \A v \in Master : currentEpoch'[v] = currentEpoch[v]
    BY SlavesAreNotMasters DEF ReceiveAck, TypeOK, Node
  <2> QED
    BY <2>1 DEF ReceiveAck, VotersRemember
<1>4. QueuedVotesAreNew' /\ SentVotesWereCast' /\ OneVotePerEpoch' /\ ~env'.lateAcks
      /\ WonByMajority'
  BY DEF ReceiveAck, QueuedVotesAreNew, SentVotesWereCast, OneVotePerEpoch, WonByMajority,
         Voters
<1>5. AttemptsApart'
  <2>1. \A t \in Slave : OnTheWay(t)' \subseteq OnTheWay(t)
    BY <1>1 DEF OnTheWay, OfAttempt
  <2>2. auth[s].sent \/ auth[s].phase = "idle"
    BY <1>0 DEF AttemptsApart
  <2> QED
    BY <1>1, <2>1, <2>2 DEF AttemptsApart
<1>6. CountIsReceived'
  <2> SUFFICES ASSUME NEW t \in Slave, auth'[t].sent
               PROVE  (auth[t].count <= Cardinality(Received(t, auth[t].epoch)))'
    BY DEF CountIsReceived
  <2>1. /\ auth[t].epoch \in Epoch /\ auth[t].count \in Nat
        /\ auth[t].count <= Cardinality(Received(t, auth[t].epoch))
    BY <1>1 DEF TypeOK, CountIsReceived
  <2>2. CASE auth'[t].count = auth[t].count
    <3>1. PICK e \in Epoch : e = auth[t].epoch
      BY <2>1
    <3>2. Received(t, e) \subseteq Received(t, e)' /\ Received(t, e)' \subseteq Master
      BY <1>1 DEF Received, Voters
    <3>3. /\ Cardinality(Received(t, e)) <= Cardinality(Received(t, e)')
          /\ Cardinality(Received(t, e)) \in Nat /\ Cardinality(Received(t, e)') \in Nat
      BY <3>2, SetsOfMasters
    <3>4. auth'[t].epoch = e
      BY <1>1, <3>1
    <3> QED
      BY <2>1, <2>2, <3>1, <3>3, <3>4
  <2>3. CASE auth'[t].count # auth[t].count
    <3>1. t = s /\ auth'[s].count = auth[s].count + 1
      BY <1>1, <2>3
    <3>2. PICK e \in Epoch : e = auth[s].epoch
      BY <2>1, <3>1
    <3>3. m.epoch = e /\ auth'[s].epoch = e
      BY <1>0, <1>1, <3>1, <3>2 DEF AttemptsApart
    <3>4. Vote(m.from, s, e) \in cast
      BY <1>0, <3>3 DEF SentVotesWereCast, Acks
    <3>5. m.from \notin Received(s, e) /\ Received(s, e) \subseteq Master
      BY <1>0, <3>3 DEF Received, Voters
    <3>6. Received(s, e)' = Received(s, e) \cup {m.from}
      BY <1>0, <1>1, <3>3, <3>4 DEF Received, Voters, Ack
    <3>7. /\ IsFiniteSet(Received(s, e)) /\ Cardinality(Received(s, e)) \in Nat
          /\ Cardinality(Received(s, e) \cup {m.from}) = Cardinality(Received(s, e)) + 1
      BY <3>5, SetsOfMasters, FS_AddElement, Zenon
    <3> QED
      BY <2>1, <3>1, <3>2, <3>3, <3>6, <3>7
  <2> QED
    BY <2>2, <2>3
<1> QED
  BY <1>2, <1>3, <1>4, <1>5, <1>6

\* ReceiveRequest: a vote is newer than all earlier votes of the voter, and of
\* the epoch of the attempt that asked for it.
LEMMA ReceiveRequestPreserves ==
  ASSUME IInv, NEW v \in Master, NEW m \in net, NEW fail \in BOOLEAN, NEW recent \in BOOLEAN,
         ReceiveRequest(v, m, fail, recent)
  PROVE  IInv'
<1> USE DEF IInv
<1> DEFINE a == Ack(v, m.from, m.epoch)
<1>0. /\ v \in Node /\ m \in Requests /\ m.from \in Slave /\ m.epoch \in Epoch
      /\ m \in OnTheWay(m.from) /\ currentEpoch[v] \in Epoch /\ lastVoteEpoch[v] \in Epoch
      /\ disk[v].lastVoteEpoch \in Epoch
  BY DEF ReceiveRequest, TypeOK, Message, Requests, Acks, Node, OnTheWay, OfAttempt
<1>1. a \in Acks /\ a \in Message /\ a.type = "ack" /\ a.from = v /\ a.to = m.from
      /\ a.epoch = m.epoch
  BY <1>0 DEF Ack, Acks, Message
<1>2. /\ Max(currentEpoch[v], m.epoch) \in Epoch
      /\ currentEpoch[v] <= Max(currentEpoch[v], m.epoch)
      /\ m.epoch <= Max(currentEpoch[v], m.epoch)
  BY <1>0, MaxEpochIsNat DEF Max, Epoch
<1>3. CASE ~MayVote(v, m, fail, recent)
  <2>1. UNCHANGED <<lastVoteEpoch, todo, outbox, owner, ownerEpoch, auth, disk, net, env, cast, won>>
        /\ currentEpoch' = [currentEpoch EXCEPT ![v] = Max(@, m.epoch)]
    BY <1>3 DEF ReceiveRequest
  <2>2. TypeOK'
    BY <1>2, <2>1, Zenon DEF TypeOK
  <2>3. VotersRemember'
    BY <1>0, <1>2, <2>1, MaxEpochIsNat DEF VotersRemember, TypeOK, Epoch, Node
  <2>4. QueuedVotesAreNew' /\ SentVotesWereCast' /\ OneVotePerEpoch' /\ ~env'.lateAcks
    BY <2>1 DEF QueuedVotesAreNew, SentVotesWereCast, OneVotePerEpoch
  <2>5. AttemptsApart' /\ CountIsReceived' /\ WonByMajority'
    BY <2>1 DEF AttemptsApart, CountIsReceived, WonByMajority, OnTheWay, Received, Voters
  <2> QED
    BY <2>2, <2>3, <2>4, <2>5
<1>4. CASE MayVote(v, m, fail, recent)
  <2>1. /\ currentEpoch' = [currentEpoch EXCEPT ![v] = Max(@, m.epoch)]
        /\ lastVoteEpoch' = [lastVoteEpoch EXCEPT ![v] = m.epoch]
        /\ todo' = todo \cup {v} /\ outbox' = [outbox EXCEPT ![v] = @ \cup {a}]
        /\ UNCHANGED <<owner, ownerEpoch, auth, disk, net, env, cast, won>>
    BY <1>4 DEF ReceiveRequest
  <2>2. lastVoteEpoch[v] < m.epoch
    BY <1>0, <1>4, MaxEpochIsNat DEF MayVote, VotersRemember, Epoch
  <2>3. TypeOK'
    <3>1. outbox' \in [Node -> SUBSET Message]
      BY <1>0, <1>1, <2>1, SMTT(60) DEF TypeOK
    <3> QED
      BY <1>0, <1>2, <2>1, <3>1 DEF TypeOK
  <2>4. VotersRemember'
    BY <1>0, <1>2, <2>1, <2>2, MaxEpochIsNat DEF VotersRemember, TypeOK, Epoch, Node
  <2>5. QueuedVotesAreNew'
    <3> SUFFICES ASSUME NEW n \in Node, NEW k \in outbox'[n]
                 PROVE  /\ k.from = n
                        /\ k.type = "ack" =>
                             /\ n \in todo' /\ disk'[n].lastVoteEpoch < k.epoch
                             /\ k.epoch <= lastVoteEpoch'[n]
                             /\ \A l \in outbox'[n] :
                                  l.type = "ack" /\ l.epoch = k.epoch => l = k
      BY DEF QueuedVotesAreNew
    <3>1. CASE n # v
      <4>1. outbox'[n] = outbox[n] /\ disk'[n] = disk[n] /\ lastVoteEpoch'[n] = lastVoteEpoch[n]
            /\ (n \in todo => n \in todo')
        BY <2>1, <3>1 DEF TypeOK
      <4> QED
        BY <4>1 DEF QueuedVotesAreNew
    <3>2. CASE n = v
      <4>1. outbox'[v] = outbox[v] \cup {a} /\ disk'[v] = disk[v] /\ v \in todo'
            /\ lastVoteEpoch'[v] = m.epoch
        BY <1>0, <2>1 DEF TypeOK
      <4>2. disk[v].lastVoteEpoch < m.epoch
        BY <1>0, <2>2, MaxEpochIsNat DEF VotersRemember, Epoch
      <4>3. \A l \in outbox[v] : l.type = "ack" => l.epoch \in Epoch /\ l.epoch < m.epoch
        BY <1>0, <2>2, MaxEpochIsNat, SMTT(60) DEF QueuedVotesAreNew, Epoch, TypeOK, Message, Requests, Acks
      <4>4. CASE k = a
        BY <1>0, <1>1, <3>2, <4>1, <4>2, <4>3, <4>4, MaxEpochIsNat DEF Epoch
      <4>5. CASE k \in outbox[v] /\ k # a
        <5>1. k.from = v /\ (k.type = "ack" => disk[v].lastVoteEpoch < k.epoch)
          BY <1>0, <4>5 DEF QueuedVotesAreNew
        <5>2. k.type = "ack" => k.epoch <= m.epoch /\ k.epoch # a.epoch
          BY <1>0, <1>1, <4>3, <4>5, MaxEpochIsNat DEF Epoch
        <5>3. k.type = "ack" => \A l \in outbox[v] : l.type = "ack" /\ l.epoch = k.epoch => l = k
          BY <1>0, <4>5 DEF QueuedVotesAreNew
        <5> QED
          BY <3>2, <4>1, <5>1, <5>2, <5>3
      <4> QED
        BY <3>2, <4>1, <4>4, <4>5, SMTT(60)
    <3> QED
      BY <3>1, <3>2
  <2>6. SentVotesWereCast' /\ OneVotePerEpoch' /\ ~env'.lateAcks
    BY <2>1 DEF SentVotesWereCast, OneVotePerEpoch
  <2>7. AttemptsApart'
    <3> SUFFICES ASSUME NEW t \in Slave
                 PROVE  /\ auth[t].sent => \A k \in OnTheWay(t)' : k.epoch = auth[t].epoch
                        /\ ~auth[t].sent /\ auth[t].phase # "idle"
                             => OnTheWay(t)' = {} /\ auth[t].count = 0
      BY <2>1 DEF AttemptsApart
    <3>1. OnTheWay(t)' \subseteq OnTheWay(t) \cup {a}
      BY <2>1, SMTT(60) DEF OnTheWay, OfAttempt, TypeOK
    <3>2. CASE t = m.from
      BY <1>0, <1>1, <3>1, <3>2 DEF AttemptsApart
    <3>3. CASE t # m.from
      <4>1. a \notin OnTheWay(t)'
        BY <1>1, <3>3, SMTT(60) DEF OnTheWay, OfAttempt
      <4> QED
        BY <3>1, <4>1 DEF AttemptsApart
    <3> QED
      BY <3>2, <3>3, SMTT(60)
  <2>8. CountIsReceived' /\ WonByMajority'
    BY <2>1 DEF CountIsReceived, WonByMajority, Received, Voters
  <2> QED
    BY <2>3, <2>4, <2>5, <2>6, <2>7, <2>8
<1> QED
  BY <1>3, <1>4

\* A PING raises currentEpoch, and votes and counts stay what they were.
LEMMA ReceivePingPreserves ==
  ASSUME IInv, NEW m \in Node, NEW n \in Node, ReceivePing(m, n)
  PROVE  IInv'
<1> USE DEF IInv
<1>1. /\ currentEpoch[n] \in Epoch /\ currentEpoch[m] \in Epoch /\ ownerEpoch[m] \in Epoch
      /\ Max(currentEpoch[n], currentEpoch[m]) \in Epoch
      /\ currentEpoch[n] <= Max(currentEpoch[n], currentEpoch[m])
  BY MaxEpochIsNat DEF Max, Epoch, TypeOK
<1>2. /\ owner' \in [Node -> Node] /\ ownerEpoch' \in [Node -> Epoch]
      /\ todo' \subseteq Node /\ todo \subseteq todo'
  BY <1>1, ZenonT(60) DEF ReceivePing, TypeOK
<1>3. TypeOK'
  BY <1>1, <1>2, Zenon DEF ReceivePing, TypeOK
<1>4. VotersRemember'
  BY <1>1, MaxEpochIsNat DEF ReceivePing, VotersRemember, TypeOK, Epoch, Node
<1>5. QueuedVotesAreNew' /\ SentVotesWereCast' /\ OneVotePerEpoch' /\ ~env'.lateAcks
  BY <1>2 DEF ReceivePing, QueuedVotesAreNew, SentVotesWereCast, OneVotePerEpoch
<1>6. AttemptsApart' /\ CountIsReceived' /\ WonByMajority'
  BY DEF ReceivePing, AttemptsApart, CountIsReceived, WonByMajority, OnTheWay, Received, Voters
<1> QED
  BY <1>3, <1>4, <1>5, <1>6

\* clusterBeforeSleep: the votes that leave are saved in the same step.
LEMMA BeforeSleepPreserves ==
  ASSUME IInv, NEW n \in Node, clusterBeforeSleep(n)
  PROVE  IInv'
<1> USE DEF IInv
<1> DEFINE New == Votes(outbox[n])
<1>1. /\ net' = net \cup outbox[n] /\ outbox' = [outbox EXCEPT ![n] = {}] /\ cast' = cast \cup New
      /\ todo' = todo \ {n} /\ disk' = IF n \in todo THEN [disk EXCEPT ![n] = Config(n)] ELSE disk
      /\ UNCHANGED <<currentEpoch, lastVoteEpoch, owner, ownerEpoch, auth, env, won>>
  BY DEF clusterBeforeSleep
<1>2. \A m \in outbox[n] : m.type = "ack" =>
        /\ n \in Master /\ n \in todo /\ m = Ack(n, m.to, m.epoch) /\ m.to \in Slave
        /\ m.epoch \in Epoch /\ disk[n].lastVoteEpoch < m.epoch /\ m.epoch <= lastVoteEpoch[n]
  BY DEF QueuedVotesAreNew, TypeOK, Message, Requests, Acks, Ack
<1>3. ASSUME NEW c \in New
      PROVE  /\ n \in Master /\ n \in todo /\ c = Vote(n, c.slave, c.epoch)
             /\ c.slave \in Slave /\ c.epoch \in Epoch /\ c.voter = n
             /\ Ack(n, c.slave, c.epoch) \in outbox[n]
             /\ disk[n].lastVoteEpoch < c.epoch /\ c.epoch <= lastVoteEpoch[n]
  <2>1. PICK m \in outbox[n] : /\ m.type = "ack"
                               /\ c = [voter |-> m.from, slave |-> m.to, epoch |-> m.epoch]
    BY DEF Votes
  <2>2. m.from = n /\ c.voter = n /\ c.slave = m.to /\ c.epoch = m.epoch
    BY <2>1 DEF QueuedVotesAreNew
  <2>3. c = Vote(n, c.slave, c.epoch)
    BY <2>1, <2>2 DEF Vote
  <2> QED
    BY <1>2, <2>1, <2>2, <2>3
<1>4. TypeOK'
  <2>1. New \subseteq [voter : Master, slave : Slave, epoch : Epoch]
    BY <1>3 DEF Vote
  <2>2. Config(n) \in [currentEpoch : Epoch, ownerEpoch : Epoch, owner : Node,
                       lastVoteEpoch : Epoch]
    BY MaxEpochIsNat DEF Config, TypeOK, Epoch
  <2>3. disk' \in [Node -> [currentEpoch : Epoch, ownerEpoch : Epoch, owner : Node,
                            lastVoteEpoch : Epoch]]
    BY <1>1, <2>2 DEF TypeOK
  <2>4. net' \subseteq Message /\ outbox' \in [Node -> SUBSET Message]
    BY <1>1 DEF TypeOK
  <2> QED
    BY <1>1, <2>1, <2>3, <2>4 DEF TypeOK
<1>5. \A v \in Master : /\ disk'[v].lastVoteEpoch \in Epoch
                        /\ disk[v].lastVoteEpoch <= disk'[v].lastVoteEpoch
                        /\ disk'[v].lastVoteEpoch <= lastVoteEpoch[v]
                        /\ disk'[v].lastVoteEpoch <= disk'[v].currentEpoch
                        /\ v = n /\ n \in todo => disk'[v].lastVoteEpoch = lastVoteEpoch[v]
  <2> SUFFICES ASSUME NEW v \in Master
               PROVE  /\ disk'[v].lastVoteEpoch \in Epoch
                      /\ disk[v].lastVoteEpoch <= disk'[v].lastVoteEpoch
                      /\ disk'[v].lastVoteEpoch <= lastVoteEpoch[v]
                      /\ disk'[v].lastVoteEpoch <= disk'[v].currentEpoch
                      /\ v = n /\ n \in todo => disk'[v].lastVoteEpoch = lastVoteEpoch[v]
    OBVIOUS
  <2>1. v \in Node /\ lastVoteEpoch[v] \in Epoch /\ disk[v].lastVoteEpoch \in Epoch
    BY DEF TypeOK, Node
  <2>2. CASE v = n /\ n \in todo
    <3>1. disk'[v] = Config(v)
      BY <1>1, <2>1, <2>2 DEF TypeOK
    <3>2. disk'[v].lastVoteEpoch = lastVoteEpoch[v] /\ disk'[v].currentEpoch = currentEpoch[v]
      BY <3>1 DEF Config
    <3> QED
      BY <2>1, <3>2, MaxEpochIsNat DEF VotersRemember, Epoch
  <2>3. CASE ~(v = n /\ n \in todo)
    <3>1. disk'[v] = disk[v]
      BY <1>1, <2>1, <2>3 DEF TypeOK
    <3> QED
      BY <2>1, <2>3, <3>1, MaxEpochIsNat DEF VotersRemember, Epoch
  <2> QED
    BY <2>2, <2>3
<1>6. VotersRemember'
  <2> SUFFICES ASSUME NEW v \in Master
               PROVE  /\ disk'[v].lastVoteEpoch <= lastVoteEpoch[v]
                      /\ lastVoteEpoch[v] <= currentEpoch[v]
                      /\ disk'[v].lastVoteEpoch <= disk'[v].currentEpoch
                      /\ \A c \in cast' : c.voter = v => c.epoch <= disk'[v].lastVoteEpoch
    BY <1>1 DEF VotersRemember
  <2>1. lastVoteEpoch[v] <= currentEpoch[v]
    BY DEF VotersRemember
  <2>2. ASSUME NEW c \in cast, c.voter = v PROVE c.epoch <= disk'[v].lastVoteEpoch
    <3>1. c.epoch <= disk[v].lastVoteEpoch /\ c.epoch \in Epoch /\ disk[v].lastVoteEpoch \in Epoch
      BY <2>2, SMTT(60) DEF VotersRemember, TypeOK, Node
    <3> QED
      BY <1>5, <3>1, MaxEpochIsNat DEF Epoch
  <2>3. ASSUME NEW c \in New, c.voter = v PROVE c.epoch <= disk'[v].lastVoteEpoch
    BY <1>3, <1>5, <2>3, SMTT(60)
  <2> QED
    BY <1>1, <1>5, <2>1, <2>2, <2>3, SMTT(60)
<1>7. QueuedVotesAreNew'
  <2> SUFFICES ASSUME NEW k \in Node, NEW m \in outbox'[k]
               PROVE  /\ m.from = k
                      /\ m.type = "ack" =>
                           /\ k \in todo' /\ disk'[k].lastVoteEpoch < m.epoch
                           /\ m.epoch <= lastVoteEpoch'[k]
                           /\ \A l \in outbox'[k] :
                                l.type = "ack" /\ l.epoch = m.epoch => l = m
    BY DEF QueuedVotesAreNew
  <2>1. k # n
    BY <1>1 DEF TypeOK
  <2>2. outbox'[k] = outbox[k] /\ disk'[k] = disk[k] /\ (k \in todo => k \in todo')
    BY <1>1, <2>1 DEF TypeOK
  <2> QED
    BY <1>1, <2>2 DEF QueuedVotesAreNew
<1>8. SentVotesWereCast' /\ ~env'.lateAcks
  <2>1. ASSUME NEW m \in outbox[n], m.type = "ack" PROVE Vote(m.from, m.to, m.epoch) \in New
    BY <2>1 DEF Votes, Vote
  <2> QED
    BY <1>1, <2>1 DEF SentVotesWereCast
<1>9. OneVotePerEpoch'
  <2> SUFFICES ASSUME NEW b \in cast', NEW c \in cast', b.voter = c.voter, b.epoch = c.epoch
               PROVE  b.slave = c.slave
    BY SMTT(60) DEF OneVotePerEpoch
  <2>1. ASSUME NEW x \in New, NEW y \in cast PROVE ~(x.voter = y.voter /\ x.epoch = y.epoch)
    <3>1. y.voter = n => y.epoch <= disk[n].lastVoteEpoch /\ y.epoch \in Epoch
      BY <1>3 DEF VotersRemember, TypeOK
    <3>2. disk[n].lastVoteEpoch \in Epoch
      BY DEF TypeOK
    <3> QED
      BY <1>3, <3>1, <3>2, MaxEpochIsNat DEF Epoch
  <2>2. CASE b \in cast /\ c \in cast
    BY <2>2 DEF OneVotePerEpoch
  <2>3. CASE b \in New /\ c \in New
    <3>1. Ack(n, b.slave, b.epoch) = Ack(n, c.slave, c.epoch)
      BY <1>3, <2>3, SMTT(60) DEF QueuedVotesAreNew, Ack
    <3> QED
      BY <3>1 DEF Ack
  <2> QED
    BY <1>1, <2>1, <2>2, <2>3
<1>10. AttemptsApart'
  <2>1. \A t \in Slave : OnTheWay(t)' \subseteq OnTheWay(t)
    BY <1>1, SMTT(60) DEF OnTheWay, OfAttempt, TypeOK
  <2> QED
    BY <1>1, <2>1, SMTT(60) DEF AttemptsApart
<1>11. CountIsReceived'
  <2> SUFFICES ASSUME NEW t \in Slave, auth'[t].sent
               PROVE  (auth[t].count <= Cardinality(Received(t, auth[t].epoch)))'
    BY DEF CountIsReceived
  <2>1. /\ auth[t].epoch \in Epoch /\ auth[t].count \in Nat /\ auth'[t] = auth[t]
        /\ auth[t].count <= Cardinality(Received(t, auth[t].epoch))
    BY <1>1 DEF TypeOK, CountIsReceived
  <2>2. ASSUME NEW v \in Master, NEW e \in Epoch, Vote(v, t, e) \in cast, Ack(v, t, e) \in net'
        PROVE  Ack(v, t, e) \in net
    <3>1. e <= disk[v].lastVoteEpoch
      BY <2>2 DEF VotersRemember, Vote
    <3>2. ASSUME Ack(v, t, e) \in outbox[n] PROVE v = n /\ disk[n].lastVoteEpoch < e
      BY <1>2, <3>2 DEF Ack
    <3>3. disk[v].lastVoteEpoch \in Epoch
      BY DEF TypeOK, Node
    <3> QED
      BY <1>1, <2>2, <3>1, <3>2, <3>3, MaxEpochIsNat DEF Epoch
  <2> QED
    BY <1>1, <2>1, <2>2, StillReceived, SMTT(60)
<1>12. WonByMajority'
  <2> SUFFICES ASSUME NEW w \in won PROVE Cardinality(Voters(w.slave, w.epoch)') >= NeededQuorum
    BY <1>1 DEF WonByMajority
  <2>1. Voters(w.slave, w.epoch) \subseteq Voters(w.slave, w.epoch)'
        /\ Voters(w.slave, w.epoch)' \subseteq Master
    BY <1>1 DEF Voters
  <2> QED
    BY <2>1, SetsOfMasters, QuorumIsMajority DEF WonByMajority
<1> QED
  BY <1>4, <1>6, <1>7, <1>8, <1>9, <1>10, <1>11, <1>12

\* Restart: the voter is back to what it saved, and its queue is lost.
LEMMA RestartPreserves ==
  ASSUME IInv, NEW n \in Node, Restart(n)
  PROVE  IInv'
<1> USE DEF IInv
<1>1. /\ disk[n].currentEpoch \in Epoch /\ disk[n].ownerEpoch \in Epoch /\ disk[n].owner \in Node
      /\ disk[n].lastVoteEpoch \in Epoch
      /\ Max(disk[n].currentEpoch, disk[n].ownerEpoch) \in Epoch
      /\ disk[n].currentEpoch <= Max(disk[n].currentEpoch, disk[n].ownerEpoch)
  BY MaxEpochIsNat DEF Max, Epoch, TypeOK
<1>2. /\ net' \subseteq net /\ \A k \in Node : outbox'[k] \subseteq outbox[k]
      /\ outbox'[n] = {} /\ cast' = cast /\ won' = won /\ disk' = disk
      /\ \A k \in Node \ {n} : k \in todo => k \in todo'
  BY DEF Restart, TypeOK
<1>3. \A t \in Slave : auth'[t] = IF t = n THEN NoAttempt ELSE auth[t]
  BY DEF Restart
<1>4. TypeOK'
  <2>1. env' \in Environment
    BY DEF Restart, TypeOK, Environment
  <2>2. NoAttempt \in [phase : Phases, epoch : Epoch, count : Nat, sent : BOOLEAN]
    BY MaxEpochIsNat DEF NoAttempt, Phases, Epoch
  <2>3. auth' \in [Slave -> [phase : Phases, epoch : Epoch, count : Nat, sent : BOOLEAN]]
    BY <2>2 DEF Restart, TypeOK
  <2>4. lastVoteEpoch' \in [Master -> Epoch]
    BY <1>1 DEF Restart, TypeOK
  <2> QED
    BY <1>1, <1>2, <2>1, <2>3, <2>4 DEF Restart, TypeOK
<1>5. VotersRemember'
  <2> SUFFICES ASSUME NEW v \in Master
               PROVE  /\ disk[v].lastVoteEpoch <= lastVoteEpoch'[v]
                      /\ lastVoteEpoch'[v] <= currentEpoch'[v]
    BY <1>2 DEF VotersRemember
  <2>1. v \in Node
    BY DEF Node
  <2>2. CASE v = n
    <3>1. /\ lastVoteEpoch'[v] = disk[v].lastVoteEpoch
          /\ currentEpoch'[v] = Max(disk[n].currentEpoch, disk[n].ownerEpoch)
      BY <2>1, <2>2 DEF Restart, TypeOK
    <3> QED
      BY <1>1, <2>2, <3>1, MaxEpochIsNat DEF VotersRemember, Epoch
  <2>3. CASE v # n
    BY <2>1, <2>3, SMTT(60) DEF Restart, VotersRemember, TypeOK
  <2> QED
    BY <2>2, <2>3, SMTT(60)
<1>6. QueuedVotesAreNew'
  <2>1. \A k \in Node \ {n} : k \in Master => lastVoteEpoch'[k] = lastVoteEpoch[k]
    BY DEF Restart
  <2>2. ASSUME NEW k \in Node, NEW m \in outbox[k], m.type = "ack" PROVE k \in Master
    BY <2>2 DEF QueuedVotesAreNew, TypeOK, Message, Requests, Acks
  <2> QED
    BY <1>2, <2>1, <2>2 DEF QueuedVotesAreNew
<1>7. SentVotesWereCast' /\ OneVotePerEpoch' /\ ~env'.lateAcks /\ WonByMajority'
  BY <1>2 DEF Restart, SentVotesWereCast, OneVotePerEpoch, WonByMajority, Voters, TypeOK,
              Environment
<1>8. AttemptsApart'
  <2>1. \A t \in Slave : OnTheWay(t)' \subseteq OnTheWay(t)
    BY <1>2, SMTT(60) DEF OnTheWay, OfAttempt
  <2> QED
    BY <1>3, <2>1 DEF AttemptsApart, NoAttempt
<1>9. CountIsReceived'
  <2> SUFFICES ASSUME NEW t \in Slave, auth'[t].sent
               PROVE  (auth[t].count <= Cardinality(Received(t, auth[t].epoch)))'
    BY DEF CountIsReceived
  <2>1. auth'[t] = auth[t]
    BY <1>3, SMTT(60) DEF NoAttempt
  <2>2. /\ auth[t].epoch \in Epoch /\ auth[t].count \in Nat
        /\ auth[t].count <= Cardinality(Received(t, auth[t].epoch))
    BY <2>1 DEF TypeOK, CountIsReceived
  <2> QED
    BY <1>2, <2>1, <2>2, StillReceived, SMTT(60)
<1> QED
  BY <1>4, <1>5, <1>6, <1>7, <1>8, <1>9

\* Every action of the nodes, of the network and of a crash keeps the invariant.
LEMMA StepPreserves == IInv /\ [Next]_vars => IInv'
<1> SUFFICES ASSUME IInv, [Next]_vars PROVE IInv'
  OBVIOUS
<1>0. Alive \subseteq Node /\ Slave \cap Alive \subseteq Slave /\ Master \cap Alive \subseteq Master
      /\ env.forces \subseteq BOOLEAN
  BY SMTT(60) DEF Alive, IInv, TypeOK, Environment
<1>1. CASE Next
  BY <1>0, <1>1, ScheduleElectionPreserves, RequestVotesPreserves, WinElectionPreserves,
     AuthTimePassesPreserves, ReceiveAckPreserves, ReceiveRequestPreserves,
     BeforeSleepPreserves, RestartPreserves, ReceivePingPreserves, SMTT(60) DEF Next
<1>2. CASE UNCHANGED vars
  <2>1. TypeOK' /\ ~env'.lateAcks
    BY <1>2, SMTT(60) DEF vars, IInv, TypeOK
  <2>2. VotersRemember' /\ QueuedVotesAreNew'
    BY <1>2, SMTT(60) DEF vars, IInv, VotersRemember, QueuedVotesAreNew
  <2>3. SentVotesWereCast' /\ OneVotePerEpoch' /\ WonByMajority'
    BY <1>2, SMTT(60) DEF vars, IInv, SentVotesWereCast, OneVotePerEpoch, WonByMajority, Voters
  <2>4. AttemptsApart'
    BY <1>2, SMTT(60) DEF vars, IInv, AttemptsApart, OnTheWay
  <2>5. CountIsReceived'
    BY <1>2, SMTT(60) DEF vars, IInv, CountIsReceived, Received, Voters
  <2> QED
    BY <2>1, <2>2, <2>3, <2>4, <2>5 DEF IInv
<1> QED
  BY <1>1, <1>2

\* The inductive invariant of the election holds in every reachable state.
LEMMA Invariance == ASSUME Timely PROVE Spec => []IInv
<1>1. Init => IInv
  BY InitEstablishes
<1>2. IInv /\ [Next]_vars => IInv'
  BY StepPreserves
<1> QED
  BY <1>1, <1>2, PTL DEF Spec
-----------------------------------------------------------------------------
(* The theorems.                                                           *)

\* Two majorities share a master, and a master votes once in an epoch.
LEMMA InvariantIsSafe == IInv => ElectionSafety
<1> SUFFICES ASSUME IInv, NEW a \in won, NEW b \in won, a.epoch = b.epoch
             PROVE  a.slave = b.slave
  BY DEF ElectionSafety
<1> DEFINE A == Voters(a.slave, a.epoch)
           B == Voters(b.slave, b.epoch)
<1>1. /\ A \subseteq Master /\ B \subseteq Master /\ Cardinality(A) \in Nat
      /\ Cardinality(B) \in Nat
  BY SetsOfMasters DEF Voters
<1>2. Cardinality(A) >= NeededQuorum /\ Cardinality(B) >= NeededQuorum
  BY DEF IInv, WonByMajority
<1>3. Cardinality(A) + Cardinality(B) > Cardinality(Master)
  BY <1>1, <1>2, QuorumIsMajority
<1>4. PICK v \in Master : v \in A /\ v \in B
  BY <1>1, <1>3, MastersFinite, FS_MajoritiesIntersect
<1> QED
  BY <1>4 DEF Voters, Vote, IInv, OneVotePerEpoch

\* For any set of masters, any slaves and any bound on the epochs, two slaves do
\* not win the same epoch, whatever crashes, however the handlers, saves and
\* messages of the nodes interleave.
THEOREM ElectionIsSafe == ASSUME Timely PROVE Spec => []ElectionSafety
<1>1. Spec => []IInv
  BY Invariance
<1> QED
  BY <1>1, InvariantIsSafe, PTL

\* failover_auth_count never exceeds the number of masters that voted for the
\* slave in the epoch of its attempt.
THEOREM CountsAreReal == ASSUME Timely PROVE Spec => []CountedVotesAreReal
<1>1. IInv => CountedVotesAreReal
  <2> SUFFICES ASSUME IInv, NEW s \in Slave, auth[s].sent
               PROVE  auth[s].count
                        <= Cardinality({c \in cast : c.slave = s /\ c.epoch = auth[s].epoch})
    BY DEF CountedVotesAreReal
  <2> DEFINE e == auth[s].epoch
  <2>1. auth[s].count <= Cardinality(Received(s, e)) /\ auth[s].count \in Nat
    BY DEF IInv, CountIsReceived, TypeOK
  <2>2. /\ Cardinality(Received(s, e)) <= Cardinality(Voters(s, e))
        /\ Cardinality(Received(s, e)) \in Nat /\ Cardinality(Voters(s, e)) \in Nat
    BY SetsOfMasters DEF Received, Voters
  <2>3. Cardinality({c \in cast : c.slave = s /\ c.epoch = e}) = Cardinality(Voters(s, e))
    BY VotesAreVoters DEF IInv
  <2> QED
    BY <2>1, <2>2, <2>3
<1>2. Spec => []IInv
  BY Invariance
<1> QED
  BY <1>1, <1>2, PTL

\* A slave that won was voted by more than half of the masters in the epoch it
\* won: the quorum of clusterHandleSlaveFailover counts masters, not packets.
THEOREM WinnersHaveAMajority == ASSUME Timely PROVE Spec => []ElectedByMajority
<1>1. IInv => ElectedByMajority
  <2> SUFFICES ASSUME IInv, NEW w \in won
               PROVE  2 * Cardinality({c \in cast : c.slave = w.slave /\ c.epoch = w.epoch})
                        > Cardinality(Master)
    BY DEF ElectedByMajority
  <2>1. w.slave \in Slave
    BY DEF IInv, TypeOK
  <2>2. Cardinality({c \in cast : c.slave = w.slave /\ c.epoch = w.epoch})
          = Cardinality(Voters(w.slave, w.epoch))
    BY <2>1, VotesAreVoters DEF IInv
  <2>3. Cardinality(Voters(w.slave, w.epoch)) \in Nat
    BY SetsOfMasters DEF Voters
  <2> QED
    BY <2>2, <2>3, QuorumIsMajority DEF IInv, WonByMajority
<1>2. Spec => []IInv
  BY Invariance
<1> QED
  BY <1>1, <1>2, PTL

\* No master gives two slaves its vote for one epoch, not even when it crashes
\* between handling the request and writing its reply.
THEOREM VotesAreNotRepeated == ASSUME Timely PROVE Spec => []OneVotePerEpoch
<1>1. IInv => OneVotePerEpoch
  BY DEF IInv
<1>2. Spec => []IInv
  BY Invariance
<1> QED
  BY <1>1, <1>2, PTL

=============================================================================
