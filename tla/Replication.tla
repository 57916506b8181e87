---------------------------- MODULE Replication ----------------------------
(***************************************************************************)
(* Asynchronous replication (replication.c): full and partial              *)
(* resynchronization, the replication backlog, the two replication ids     *)
(* with which a promoted replica serves the replicas of its old master,    *)
(* chained replicas, and the replication position kept in RDB files.       *)
(*                                                                         *)
(* The stream is a sequence of commands; offsets count commands where the  *)
(* code counts bytes.  The dataset of a server is the sequence of the      *)
(* writes it has executed, each with the database it was executed in, so   *)
(* that two servers hold the same data only if they executed the same      *)
(* writes.  RDB transfers go through a file (repl-diskless-sync no).       *)
(***************************************************************************)
EXTENDS Integers, FiniteSets, Sequences, SequencesExt

CONSTANTS Node,          \* the servers
          Db,            \* database numbers; 0 is one of them
          None,          \* a null pointer, an unset id
          BacklogSize,   \* repl-backlog-size, in commands
          Environments   \* the deployments and surroundings the servers may start in

\* What operators, networks, children and timers may do to the servers.
Disturbances == {"replicaof", "promote", "drop", "restart", "bgsave", "bgsave-fails",
                 "load-fails", "free-backlog", "resize", "ping"}

\* replicaof in the redis.conf of each server there is; whether the replicas
\* have done their first synchronization; the databases clients use; whether
\* operators may make servers replicate in a ring; the disturbances that happen;
\* and the bounds on writes and on the disturbances to come.
IsEnvironment(e) ==
  /\ DOMAIN e.replicaof \subseteq Node
  /\ \A n \in DOMAIN e.replicaof : e.replicaof[n] \in (DOMAIN e.replicaof \ {n}) \cup {None}
  /\ e.synced \in BOOLEAN /\ e.rings \in BOOLEAN
  /\ e.dbs \subseteq Db /\ e.dist \subseteq Disturbances
  /\ {e.writes, e.ops} \subseteq Nat

ASSUME ReplicationAssumption ==
  /\ None \notin Node /\ 0 \in Db /\ Db \subseteq Nat
  /\ BacklogSize \in Nat \ {0}
  /\ \A e \in Environments : IsEnvironment(e)

VARIABLES srv,      \* srv[n]: struct redisServer of n, the replication part
          conn,     \* conn[n]: the connection of n to its master, or None
          nextId,   \* the next random replication id
          written,  \* the writes of clients so far, each with its number
          env       \* the environment; env.ops counts down

vars == <<srv, conn, nextId, written, env>>

Servers == DOMAIN env.replicaof

\* Commands of the replication stream.
Write(k, db) == [op |-> "write", w |-> k, db |-> db]

Select(db) == [op |-> "select", w |-> 0, db |-> db]

Ping == [op |-> "ping", w |-> 0, db |-> 0]


\* What a server that executes commands from its master keeps: the dataset
\* and the database its master client has selected.  call() of one command.
Exec(at, c) ==
  CASE c.op = "write"  -> [at EXCEPT !.data = Append(@, [w |-> c.w, db |-> at.db])]
    [] c.op = "select" -> [at EXCEPT !.db = c.db]
    [] c.op = "ping"   -> at

\* The dataset at hand after the commands of a stream.
Replay(data, db, stream) == FoldLeft(Exec, [data |-> data, db |-> db], stream).data

-----------------------------------------------------------------------------

\* A server just started with dataset d and no replication history.
InitServer(host, id, d) ==
  [masterhost |-> host,
   state      |-> IF host = None THEN "none" ELSE "connect",   \* repl_state
   replid     |-> id,
   replid2    |-> None,
   second     |-> -1,           \* second_replid_offset
   offset     |-> 0,            \* master_repl_offset
   backlog    |-> None,         \* repl_backlog_off and the commands held
   slaveseldb |-> -1,
   master     |-> None,         \* the client of the link: replid, reploff, db
   cached     |-> None,         \* cached_master
   xfer       |-> None,         \* master_replid and master_initial_offset
   data       |-> d,
   child      |-> None,         \* the RDB child and its snapshot
   rdb        |-> None]         \* dump.rdb

\* server.slaves of m, and the ones canFeedReplicaReplBuffer lets through.
Slaves(m) == {n \in Servers : conn[n] # None /\ conn[n].peer = m /\ conn[n].st # "closed"}

canFeedReplicaReplBuffer(cs, m) ==
  {n \in Servers : cs[n] # None /\ cs[n].peer = m /\ cs[n].st \in {"wait_end", "online"}}

FeedReplicas(cs, m, cmds) ==
  [n \in Servers |->
     IF n \in canFeedReplicaReplBuffer(cs, m) THEN [cs[n] EXCEPT !.buf = @ \o cmds] ELSE cs[n]]

\* disconnectSlaves, or m goes away: m closes its side.  What it had written
\* to a socket may still be read, the output buffer of a replica whose RDB is
\* not ready was not written.
disconnectSlaves(cs, m) ==
  [n \in Servers |->
     IF cs[n] # None /\ cs[n].peer = m
     THEN [cs[n] EXCEPT !.st = "closed", !.buf = IF cs[n].st = "online" THEN @ ELSE <<>>]
     ELSE cs[n]]

-----------------------------------------------------------------------------
\* The backlog.

createReplicationBacklog(s) ==
  IF s.backlog = None THEN [s EXCEPT !.backlog = [off |-> s.offset + 1, hist |-> <<>>]] ELSE s

\* The most recent commands that fit.
Newest(hist) == SubSeq(hist, Len(hist) - BacklogSize + 1, Len(hist))

feedReplicationBacklog(s, cmds) ==
  LET all  == s.backlog.hist \o cmds
      hist == IF Len(all) > BacklogSize THEN Newest(all) ELSE all
      off  == s.offset + Len(cmds)
  IN  IF s.backlog = None THEN s
      ELSE [s EXCEPT !.offset = off,
                     !.backlog = [off |-> off - Len(hist) + 1, hist |-> hist]]

\* Mutant: the second id is accepted for every offset.
MayContinueAnyOffset(s, id, off) ==
  /\ id \in {s.replid, s.replid2}
  /\ s.backlog # None
  /\ off >= s.backlog.off
  /\ off <= s.backlog.off + Len(s.backlog.hist)

\* masterTryPartialResynchronization: the conditions for +CONTINUE.
MayContinue(s, id, off) ==
  /\ id = s.replid \/ (id = s.replid2 /\ off <= s.second)
  /\ s.backlog # None
  /\ off >= s.backlog.off
  /\ off <= s.backlog.off + Len(s.backlog.hist)

addReplyReplicationBacklog(s, off) ==
  SubSeq(s.backlog.hist, off - s.backlog.off + 1, Len(s.backlog.hist))

-----------------------------------------------------------------------------
\* Replication ids.

clearReplicationId2(s) == [s EXCEPT !.replid2 = None, !.second = -1]

shiftReplicationId(s) ==
  [s EXCEPT !.replid2 = s.replid, !.second = s.offset + 1, !.replid = nextId]

-----------------------------------------------------------------------------
\* RDB files.

\* rdbPopulateSaveInfo: the database the stream is in, None when there is no
\* replication information to save.
StreamDb(s) ==
  CASE s.masterhost = None /\ s.backlog # None -> IF s.slaveseldb = -1 THEN 0 ELSE s.slaveseldb
    [] OTHER -> IF s.master # None THEN s.master.db
                ELSE IF s.cached # None THEN s.cached.db ELSE None

\* The snapshot the RDB child of s writes.
Snapshot(s) ==
  [data |-> s.data, db |-> StreamDb(s), replid |-> s.replid, offset |-> s.offset,
   killed |-> FALSE]

\* replicationSetupSlaveForFullResync: +FULLRESYNC goes to the socket and the
\* output buffer starts to accumulate.
SetupForFullResync(c, id, off, buf) ==
  [c EXCEPT !.st = "wait_end", !.init = off, !.buf = buf,
            !.hdr = Append(@, [reply |-> "full", replid |-> id, offset |-> off])]

\* startBgsaveForReplication: fork, and set up every replica that waits.
ForkedServer(s) == [s EXCEPT !.child = Snapshot(s), !.slaveseldb = -1]

SetupWaiting(cs, m, s) ==
  [n \in Servers |-> IF cs[n] # None /\ cs[n].peer = m /\ cs[n].st = "wait_start"
                  THEN SetupForFullResync(cs[n], s.replid, s.offset, <<>>) ELSE cs[n]]

-----------------------------------------------------------------------------
\* The master client.

\* replicationCacheMaster through freeClient(server.master).
CacheMaster(s) ==
  IF s.master = None THEN s ELSE [s EXCEPT !.cached = s.master, !.master = None]

replicationCacheMasterUsingMyself(s, db) ==
  [s EXCEPT !.cached = [replid |-> s.replid, reploff |-> s.offset, db |-> db]]

-----------------------------------------------------------------------------
\* The servers when they have just started, with empty datasets.
Fresh ==
  /\ srv = [n \in Servers |-> InitServer(env.replicaof[n], n, <<>>)]
  /\ conn = [n \in Servers |-> None]
  /\ nextId = 1

\* The same servers when one BGSAVE of the master has synchronized every
\* replica and nothing was written yet.
AfterFirstSync ==
  LET snap == [data |-> <<>>, db |-> 0, replid |-> 1, offset |-> 0, killed |-> FALSE]
      s(n) == createReplicationBacklog([InitServer(env.replicaof[n], 1, <<>>) EXCEPT !.rdb = snap])
  IN  /\ srv = [n \in Servers |->
                  IF env.replicaof[n] = None THEN s(n)
                  ELSE [s(n) EXCEPT !.state = "connected",
                                    !.master = [replid |-> 1, reploff |-> 0, db |-> 0]]]
      /\ conn = [n \in Servers |->
                   IF env.replicaof[n] = None THEN None
                   ELSE [peer |-> env.replicaof[n], st |-> "online", init |-> 0,
                         hdr |-> <<>>, buf |-> <<>>]]
      /\ nextId = 2

Init ==
  /\ env \in Environments
  /\ IF env.synced THEN AfterFirstSync ELSE Fresh
  /\ written = 0

\* A disturbance is one of the environment's, within its bound.
Disturb(op) == op \in env.dist /\ env.ops > 0 /\ env' = [env EXCEPT !.ops = @ - 1]

\* A client writes to master m: call and replicationFeedSlaves.
WriteCommand(m, db) ==
  /\ srv[m].masterhost = None
  /\ written < env.writes /\ written' = written + 1
  /\ LET s    == [srv[m] EXCEPT !.data = Append(@, [w |-> written + 1, db |-> db])]
         cmds == (IF s.slaveseldb # db THEN <<Select(db)>> ELSE <<>>) \o <<Write(written + 1, db)>>
     IN  IF s.backlog = None /\ Slaves(m) = {}
         THEN srv' = [srv EXCEPT ![m] = s] /\ UNCHANGED conn
         ELSE /\ srv' = [srv EXCEPT ![m] =
                           feedReplicationBacklog([s EXCEPT !.slaveseldb = db], cmds)]
              /\ conn' = FeedReplicas(conn, m, cmds)
  /\ UNCHANGED <<nextId, env>>

\* replicationCron of a master pings its replicas.
PingReplicas(m) ==
  /\ Disturb("ping")
  /\ srv[m].masterhost = None /\ Slaves(m) # {}
  /\ srv' = [srv EXCEPT ![m] = feedReplicationBacklog(@, <<Ping>>)]
  /\ conn' = FeedReplicas(conn, m, <<Ping>>)
  /\ UNCHANGED <<nextId, written>>

\* PSYNC, sent by n when it is connected to its master and handled there by
\* syncCommand.  n's request does not change while it is under way.
Psync(n) ==
  LET m    == srv[n].masterhost
      id   == IF srv[n].cached = None THEN 0 ELSE srv[n].cached.replid
      off  == IF srv[n].cached = None THEN -1 ELSE srv[n].cached.reploff + 1
      link == [peer |-> m, st |-> "wait_start", init |-> 0, hdr |-> <<>>, buf |-> <<>>]
      asks == [srv EXCEPT ![n].state = "handshake"]
      new  == srv[m].backlog = None /\ Slaves(m) = {}
      s    == IF new THEN createReplicationBacklog(
                            clearReplicationId2([srv[m] EXCEPT !.replid = nextId]))
              ELSE srv[m]
      mate == {y \in Slaves(m) : conn[y].st = "wait_end"}
  IN  /\ srv[n].state = "connect"
      /\ srv[m].masterhost = None \/ srv[m].state = "connected"
      /\ UNCHANGED <<written, env>>
      /\ \/ /\ MayContinue(srv[m], id, off)
            /\ srv' = asks
            /\ conn' = [conn EXCEPT ![n] =
                 [link EXCEPT !.st = "online",
                              !.hdr = <<[reply |-> "continue", replid |-> srv[m].replid, offset |-> 0]>>,
                              !.buf = addReplyReplicationBacklog(srv[m], off)]]
            /\ UNCHANGED nextId
         \/ /\ ~MayContinue(srv[m], id, off)
            /\ nextId' = IF new THEN nextId + 1 ELSE nextId
            /\ \/ /\ s.child # None /\ mate # {}                 \* CASE 1, attach
                  /\ \E y \in mate :
                       conn' = [conn EXCEPT ![n] =
                                  SetupForFullResync(link, s.replid, conn[y].init, conn[y].buf)]
                  /\ srv' = [asks EXCEPT ![m] = [s EXCEPT !.slaveseldb = -1]]
               \/ /\ s.child # None /\ mate = {}                 \* CASE 1, wait
                  /\ conn' = [conn EXCEPT ![n] = link]
                  /\ srv' = [asks EXCEPT ![m] = s]
               \/ /\ s.child = None                              \* CASE 3
                  /\ conn' = SetupWaiting([conn EXCEPT ![n] = link], m, s)
                  /\ srv' = [asks EXCEPT ![m] = ForkedServer(s)]

\* Mutant: a fork is started only when every replica waits for one.
StartForkForAll(m) ==
  /\ srv[m].child = None
  /\ Slaves(m) # {}
  /\ \A n \in Slaves(m) : conn[n].st = "wait_start"
  /\ srv' = [srv EXCEPT ![m] = ForkedServer(@)]
  /\ conn' = SetupWaiting(conn, m, srv[m])
  /\ UNCHANGED <<nextId, written, env>>

\* replicationStartPendingFork, called by replicationCron.
StartPendingFork(m) ==
  /\ srv[m].child = None
  /\ \E n \in Slaves(m) : conn[n].st = "wait_start"
  /\ srv' = [srv EXCEPT ![m] = ForkedServer(@)]
  /\ conn' = SetupWaiting(conn, m, srv[m])
  /\ UNCHANGED <<nextId, written, env>>

\* BGSAVE asked by a client or by the save points: no replica is set up.
Bgsave(m) ==
  /\ Disturb("bgsave")
  /\ srv[m].child = None
  /\ srv' = [srv EXCEPT ![m].child = Snapshot(srv[m])]
  /\ UNCHANGED <<conn, nextId, written>>

\* updateSlavesWaitingBgsave when the RDB child succeeds: the file goes to the
\* replicas that wait for it, ahead of the commands accumulated.
BgsaveDone(m) ==
  /\ srv[m].child # None /\ ~srv[m].child.killed
  /\ srv' = [srv EXCEPT ![m].child = None, ![m].rdb = srv[m].child]
  /\ conn' = [n \in Servers |->
                IF n \in Slaves(m) /\ conn[n].st = "wait_end"
                THEN [conn[n] EXCEPT !.st = "online",
                                     !.hdr = Append(@, [reply |-> "rdb", rdb |-> srv[m].child])]
                ELSE conn[n]]
  /\ UNCHANGED <<nextId, written, env>>

\* The same when the child fails or was killed: replicas are disconnected.
BgsaveFailed(m) ==
  /\ srv[m].child # None
  /\ \/ srv[m].child.killed /\ UNCHANGED env
     \/ ~srv[m].child.killed /\ Disturb("bgsave-fails")
  /\ srv' = [srv EXCEPT ![m].child = None]
  /\ conn' = [n \in Servers |->
                IF n \in Slaves(m) /\ conn[n].st = "wait_end"
                THEN [conn[n] EXCEPT !.st = "closed", !.buf = <<>>] ELSE conn[n]]
  /\ UNCHANGED <<nextId, written>>

-----------------------------------------------------------------------------
\* What n has to read next on its link: the replies written ahead of the
\* output buffer, then the commands.
NextReply(n) == Head(conn[n].hdr)

Replied(n, reply) == conn[n] # None /\ conn[n].hdr # <<>> /\ NextReply(n).reply = reply

Consume(cs, n) == [cs EXCEPT ![n].hdr = Tail(@)]

\* slaveTryPartialResynchronization reads +CONTINUE.
Continued(s, id) ==
  LET t == IF id = s.cached.replid THEN s
           ELSE [s EXCEPT !.replid2 = s.cached.replid, !.second = s.offset + 1,
                          !.replid = id, !.cached.replid = id]
  IN  createReplicationBacklog(
        [t EXCEPT !.master = t.cached, !.cached = None, !.state = "connected"])

ReceiveContinue(n) ==
  /\ srv[n].state = "handshake" /\ Replied(n, "continue")
  /\ LET id == NextReply(n).replid
         cs == Consume(conn, n)
     IN  /\ srv' = [srv EXCEPT ![n] = Continued(@, id)]
         /\ conn' = IF id = srv[n].cached.replid THEN cs ELSE disconnectSlaves(cs, n)
  /\ UNCHANGED <<nextId, written, env>>

\* It reads +FULLRESYNC and syncWithMaster prepares the transfer.
FullResync(s, id, off) ==
  [s EXCEPT !.cached = None, !.xfer = [replid |-> id, reploff |-> off],
            !.backlog = None, !.state = "transfer"]

ReceiveFullResync(n) ==
  /\ srv[n].state = "handshake" /\ Replied(n, "full")
  /\ srv' = [srv EXCEPT ![n] = FullResync(@, NextReply(n).replid, NextReply(n).offset)]
  /\ conn' = disconnectSlaves(Consume(conn, n), n)
  /\ UNCHANGED <<nextId, written, env>>

\* readSyncBulkPayload, once the file is complete: it becomes dump.rdb and
\* the dataset, the link starts at the position of +FULLRESYNC.
KillChild(s) == IF s.child = None THEN s ELSE [s EXCEPT !.child.killed = TRUE]

Loaded(s, rdb) ==
  createReplicationBacklog(clearReplicationId2(
    [KillChild(s) EXCEPT !.data = rdb.data, !.rdb = rdb, !.state = "connected",
       !.master = [replid |-> s.xfer.replid, reploff |-> s.xfer.reploff, db |-> rdb.db],
       !.replid = s.xfer.replid, !.offset = s.xfer.reploff, !.xfer = None]))

ReceiveRdb(n) ==
  /\ srv[n].state = "transfer" /\ Replied(n, "rdb")
  /\ srv' = [srv EXCEPT ![n] = Loaded(@, NextReply(n).rdb)]
  /\ conn' = Consume(conn, n)
  /\ UNCHANGED <<nextId, written, env>>

\* rdbLoad fails after emptyDb: cancelReplicationHandshake.  The file was
\* already renamed, but it cannot be loaded by a restart either.
LoadFails(n) ==
  /\ Disturb("load-fails")
  /\ srv[n].state = "transfer" /\ Replied(n, "rdb")
  /\ srv' = [srv EXCEPT ![n] = [KillChild(@) EXCEPT !.data = <<>>, !.rdb = None,
                                                   !.xfer = None, !.state = "connect"]]
  /\ conn' = [conn EXCEPT ![n] = None]
  /\ UNCHANGED <<nextId, written>>

\* processCommandAndResetClient and commandProcessed of the master client:
\* execute one command, advance reploff, proxy the command verbatim.
Applied(s, c) ==
  LET at == Exec([data |-> s.data, db |-> s.master.db], c)
  IN  [s EXCEPT !.data = at.data, !.master.db = at.db, !.master.reploff = @ + 1]

ReceiveCommand(n) ==
  /\ srv[n].state = "connected" /\ conn[n].hdr = <<>> /\ conn[n].buf # <<>>
  /\ LET c == Head(conn[n].buf)
     IN  /\ srv' = [srv EXCEPT ![n] = feedReplicationBacklog(Applied(@, c), <<c>>)]
         /\ conn' = FeedReplicas([conn EXCEPT ![n].buf = Tail(@)], n, <<c>>)
  /\ UNCHANGED <<nextId, written, env>>

\* The link of n is gone: freeClient(server.master), or the error paths and
\* time-outs of the handshake and the transfer (cancelReplicationHandshake).
LinkLost(n) ==
  /\ srv' = [srv EXCEPT ![n] = [CacheMaster(@) EXCEPT !.state = "connect", !.xfer = None]]
  /\ conn' = [conn EXCEPT ![n] = None]
  /\ UNCHANGED <<nextId, written>>

DropLink(n) ==
  /\ Disturb("drop")
  /\ conn[n] # None
  /\ LinkLost(n)

\* n reads the end of a connection its master closed.
ReadEof(n) ==
  /\ conn[n] # None /\ conn[n].st = "closed"
  /\ LinkLost(n)
  /\ UNCHANGED env

-----------------------------------------------------------------------------
\* The masters above m, as configured; a ring is the operators' mistake.
Above(m) ==
  LET up(S) == S \cup {srv[n].masterhost : n \in S \ {None}}
  IN  FoldLeft(LAMBDA S, i : up(S), {m}, [i \in 1 .. Cardinality(Servers) |-> i])

MayReplicate(n, m) == m # n /\ (env.rings \/ n \notin Above(m))

\* REPLICAOF host port: replicationSetMaster.
SetMaster(s, m) ==
  LET t == [CacheMaster(s) EXCEPT !.masterhost = m, !.state = "connect", !.xfer = None]
  IN  IF s.masterhost = None THEN replicationCacheMasterUsingMyself(t, 0) ELSE t

ReplicaOf(n, m) ==
  /\ Disturb("replicaof")
  /\ MayReplicate(n, m) /\ srv[n].masterhost # m
  /\ srv' = [srv EXCEPT ![n] = SetMaster(@, m)]
  /\ conn' = [disconnectSlaves(conn, n) EXCEPT ![n] = None]
  /\ UNCHANGED <<nextId, written>>

\* REPLICAOF NO ONE: replicationUnsetMaster.
UnsetMaster(s) ==
  [shiftReplicationId(s) EXCEPT !.masterhost = None, !.master = None, !.cached = None,
                                !.xfer = None, !.state = "none", !.slaveseldb = -1]

ReplicaOfNoOne(n) ==
  /\ Disturb("promote")
  /\ srv[n].masterhost # None
  /\ srv' = [srv EXCEPT ![n] = UnsetMaster(@)]
  /\ conn' = [disconnectSlaves(conn, n) EXCEPT ![n] = None]
  /\ nextId' = nextId + 1
  /\ UNCHANGED written

\* Mutant: the backlog is freed under attached replicas.
FreeBacklogInUse(m) ==
  /\ Disturb("free-backlog")
  /\ srv[m].masterhost = None /\ srv[m].backlog # None
  /\ srv' = [srv EXCEPT ![m] = clearReplicationId2([@ EXCEPT !.replid = nextId, !.backlog = None])]
  /\ nextId' = nextId + 1
  /\ UNCHANGED <<conn, written>>

\* replicationCron frees the backlog of a master without replicas.
FreeBacklog(m) ==
  /\ Disturb("free-backlog")
  /\ srv[m].masterhost = None /\ srv[m].backlog # None /\ Slaves(m) = {}
  /\ srv' = [srv EXCEPT ![m] = clearReplicationId2([@ EXCEPT !.replid = nextId, !.backlog = None])]
  /\ nextId' = nextId + 1
  /\ UNCHANGED <<conn, written>>

\* CONFIG SET repl-backlog-size: the backlog starts again, empty.
resizeReplicationBacklog(m) ==
  /\ Disturb("resize")
  /\ srv[m].backlog # None
  /\ srv' = [srv EXCEPT ![m] = createReplicationBacklog([@ EXCEPT !.backlog = None])]
  /\ UNCHANGED <<conn, nextId, written>>

\* Mutant: a master too takes its id and offset from the RDB file.
RestartedKeepsId(s, host) ==
  LET d == IF s.rdb = None THEN <<>> ELSE s.rdb.data
      t == [InitServer(host, nextId, d) EXCEPT !.rdb = s.rdb]
      u == [t EXCEPT !.replid = s.rdb.replid, !.offset = s.rdb.offset]
  IN  IF s.rdb = None THEN t
      ELSE IF host = None THEN createReplicationBacklog(u)
      ELSE replicationCacheMasterUsingMyself(u, s.rdb.db)

\* n stops, and starts again as a replica of host or as a master: loadDataFromDisk.
Restarted(s, host) ==
  LET d == IF s.rdb = None THEN <<>> ELSE s.rdb.data
      t == [InitServer(host, nextId, d) EXCEPT !.rdb = s.rdb]
  IN  IF host # None /\ s.rdb # None /\ s.rdb.db # None
      THEN replicationCacheMasterUsingMyself(
             [t EXCEPT !.replid = s.rdb.replid, !.offset = s.rdb.offset], s.rdb.db)
      ELSE t

Restart(n, host) ==
  /\ Disturb("restart")
  /\ host # None => MayReplicate(n, host)
  /\ srv' = [srv EXCEPT ![n] = Restarted(@, host)]
  /\ conn' = [disconnectSlaves(conn, n) EXCEPT ![n] = None]
  /\ nextId' = nextId + 1
  /\ UNCHANGED written

-----------------------------------------------------------------------------
\* What a server does by itself on its links and with its child processes.
ReplicaStep(n) ==
  \/ Psync(n)
  \/ ReceiveContinue(n)
  \/ ReceiveFullResync(n)
  \/ ReceiveRdb(n)
  \/ ReceiveCommand(n)
  \/ ReadEof(n)

MasterStep(m) ==
  \/ StartPendingFork(m)
  \/ BgsaveDone(m)

Next ==
  \/ \E n \in Servers : Psync(n)
  \/ \E n \in Servers : ReceiveContinue(n)
  \/ \E n \in Servers : ReceiveFullResync(n)
  \/ \E n \in Servers : ReceiveRdb(n)
  \/ \E n \in Servers : ReceiveCommand(n)
  \/ \E n \in Servers : ReadEof(n)
  \/ \E m \in Servers : StartPendingFork(m)
  \/ \E m \in Servers : BgsaveDone(m)
  \/ \E m \in Servers : BgsaveFailed(m)
  \/ \E m \in Servers, db \in env.dbs : WriteCommand(m, db)
  \/ \E m \in Servers : PingReplicas(m)
  \/ \E m \in Servers : Bgsave(m)
  \/ \E n \in Servers : LoadFails(n)
  \/ \E n \in Servers : DropLink(n)
  \/ \E n, m \in Servers : ReplicaOf(n, m)
  \/ \E n \in Servers : ReplicaOfNoOne(n)
  \/ \E m \in Servers : FreeBacklog(m)
  \/ \E m \in Servers : resizeReplicationBacklog(m)
  \/ \E n \in Servers, host \in Servers \cup {None} : Restart(n, host)

Spec == Init /\ [][Next]_vars

\* A server keeps serving its links (the event loop and replicationCron), and
\* an RDB child that is not killed terminates.
FairSpec ==
  /\ Spec
  /\ \A n \in Node : /\ WF_vars(n \in Servers /\ ReplicaStep(n))
                     /\ WF_vars(n \in Servers /\ (MasterStep(n) \/ BgsaveFailed(n)))

-----------------------------------------------------------------------------
\* Types of the server fields and of the links.
TypeOK ==
  /\ nextId \in Nat /\ written \in 0 .. env.writes /\ IsEnvironment(env)
  /\ \A n \in Servers :
       LET s == srv[n]
           c == conn[n]
       IN  /\ s.masterhost \in Servers \cup {None}
           /\ s.state \in {"none", "connect", "handshake", "transfer", "connected"}
           /\ (s.state = "none") = (s.masterhost = None)
           /\ (s.state = "connected") = (s.master # None)
           /\ (s.state = "transfer") = (s.xfer # None)
           /\ s.replid \in Servers \cup 1 .. nextId - 1
           /\ s.offset \in Nat
           /\ s.slaveseldb \in Db \cup {-1}
           /\ s.backlog # None => Len(s.backlog.hist) <= BacklogSize
           /\ (c # None) = (s.state \in {"handshake", "transfer", "connected"})
           /\ c # None => /\ c.peer = s.masterhost
                          /\ c.st \in {"wait_start", "wait_end", "online", "closed"}

\* Where replica n will be once it has read the replies written ahead of the
\* commands: data, the database selected, and the offset.
Base(n) ==
  LET c == conn[n]
      s == srv[n]
      m == c.peer
      rdbs == {i \in DOMAIN c.hdr : c.hdr[i].reply = "rdb"}
      sent == c.hdr[CHOOSE i \in rdbs : TRUE].rdb
  IN  CASE c.st = "wait_end" -> [data |-> srv[m].child.data, db |-> srv[m].child.db, off |-> c.init]
        [] c.st = "online" /\ rdbs # {} -> [data |-> sent.data, db |-> sent.db, off |-> c.init]
        [] c.st = "online" /\ rdbs = {} /\ s.state = "connected" ->
             [data |-> s.data, db |-> s.master.db, off |-> s.master.reploff]
        [] OTHER -> [data |-> s.data, db |-> s.cached.db, off |-> s.cached.reploff]

\* A link that is up carries exactly what the replica misses: its data, after
\* the RDB file and the commands on their way to it, is the data of its master,
\* and the two agree on the offset.  This is what +CONTINUE, the copied output
\* buffer of a shared BGSAVE, the SELECTs and the second id must preserve.
StreamComplete ==
  \A m \in Servers : \A n \in Slaves(m) :
    conn[n].st # "wait_start" =>
      LET b == Base(n)
      IN  /\ Replay(b.data, b.db, conn[n].buf) = srv[m].data
          /\ b.off + Len(conn[n].buf) = srv[m].offset

\* The positions n can present to a master or serve to replicas.
Claims(n) ==
  LET s == srv[n]
  IN  {[replid |-> p.replid, off |-> p.reploff] : p \in {s.master, s.cached} \ {None}}
      \cup (IF s.backlog # None THEN {[replid |-> s.replid, off |-> s.offset]} ELSE {})

\* A replication id and an offset name one dataset: of two servers that present
\* the same id, the one with the smaller offset holds a prefix of the other's
\* data, and at equal offsets they hold the same data.
IdAndOffsetNameTheData ==
  \A n, m \in Servers : \A p \in Claims(n), q \in Claims(m) :
    p.replid = q.replid /\ p.off <= q.off =>
      /\ IsPrefix(srv[n].data, srv[m].data)
      /\ p.off = q.off => srv[n].data = srv[m].data

\* The assertion of replicationFeedSlaves: "We can't have slaves attached and
\* no backlog".
SlavesHaveBacklog == \A m \in Servers : Slaves(m) # {} => srv[m].backlog # None

\* The replicas of a master that do not hold its data, or are not linked to it.
Behind == {n \in Servers :
             LET m == srv[n].masterhost
             IN  /\ m # None /\ srv[m].masterhost = None
                 /\ ~(srv[n].state = "connected" /\ srv[n].data = srv[m].data)}

\* Once the disturbances end, the replicas of a master end up connected to it
\* with the same data: no handshake, BGSAVE or transfer is waited for forever.
ReplicasCatchUp == []<>(Behind = {})

=============================================================================
