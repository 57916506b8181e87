-------------------------------- MODULE Aof --------------------------------
(***************************************************************************)
(* The append only file: writes are fed to aof_buf, flushed to the file in *)
(* beforeSleep() and serverCron(), fsynced by the main thread or by the    *)
(* bio thread, and the file is rewritten by a forked child to which the    *)
(* parent streams the differences.  aof.c, bio.c and their callers in      *)
(* server.c, config.c and networking.c.                                    *)
(*                                                                         *)
(* A file is a sequence of units; a command takes two, so that a write can *)
(* stop in the middle of a command.  A write command is a number, and what *)
(* it does to the dataset is to add <<number, db>> to it: the database is  *)
(* the one selected when the command is executed or replayed.              *)
(***************************************************************************)
EXTENDS Integers, Sequences

CONSTANTS
    Client,         \* the connected clients
    Db,             \* database numbers, 0 among them
    Environments,   \* the configurations and surroundings the server may start in
    MaxWrites,      \* bound: write commands executed
    MaxForks        \* bound: children asked for by clients or by growth

\* What operators, the disk, children and slow clients may do to the server.
Disturbances == {"bgrewriteaof", "auto-rewrite", "bgsave", "config", "kill", "power-loss",
                 "shutdown", "disk-error", "fsync-error", "child-error", "slow-client"}

\* appendfsync, no-appendfsync-on-rewrite, the databases the clients write to,
\* the disturbances that happen, and the bound on failures, crashes and
\* configuration changes.
Environment ==
    [policy : {"always", "everysec", "no"}, nofsync : BOOLEAN, dbs : SUBSET Db,
     ops : SUBSET Disturbances, faults : Nat]

ASSUME AofAssumption ==
    /\ 0 \in Db /\ Db \subseteq Nat
    /\ Environments \subseteq Environment
    /\ MaxWrites \in Nat /\ MaxForks \in Nat

VARIABLES
    s,              \* the server process, its child, its bio jobs and the disk
    client,         \* replies not yet sent, and the write handler, of each client
    fired,          \* clients whose events were served since the last beforeSleep()
    acked,          \* writes whose reply was sent while the AOF was on
    written         \* number of write commands executed

vars == <<s, client, fired, acked, written>>

----------------------------------------------------------------------------
\* Commands as they are in a file or a buffer

Select(d) == [op |-> "select", db |-> d]
Write(w) == [op |-> "write", id |-> w]
Preamble(data) == [op |-> "rdb", data |-> data]

Bytes(cmds) == [i \in 1..2 * Len(cmds) |-> <<cmds[(i + 1) \div 2], i % 2>>]

WellFormed(bytes) ==
    \A i \in 1..Len(bytes) : /\ bytes[i][2] = i % 2
                             /\ i % 2 = 0 => bytes[i][1] = bytes[i - 1][1]

\* The commands loadAppendOnlyFile() reads completely: a command cut short by
\* the end of the file is dropped, because aof-load-truncated is yes.
Commands(bytes) == [i \in 1..(Len(bytes) \div 2) |-> bytes[2 * i][1]]

\* What the fake client executes; an RDB preamble leaves its database alone.
Execute(fake, cmd) ==
    CASE cmd.op = "select" -> [fake EXCEPT !.db = cmd.db]
      [] cmd.op = "write"  -> [fake EXCEPT !.data = Append(@, <<cmd.id, fake.db>>)]
      [] cmd.op = "rdb"    -> [fake EXCEPT !.data = cmd.data]

\* The fake client starts in database 0, with an empty dataset.
Start == [db |-> 0, data |-> <<>>]

Run(cmds) ==
    LET run[i \in 0..Len(cmds)] == IF i = 0 THEN Start ELSE Execute(run[i - 1], cmds[i])
    IN run[Len(cmds)]

Replay(bytes) == Run(Commands(bytes)).data

Ids(data) == {data[i][1] : i \in 1..Len(data)}

----------------------------------------------------------------------------
\* The file after a crash, the memory after a restart

NoKid == [st |-> "none", file |-> <<>>, pipe |-> <<>>]

\* What loadAppendOnlyFile() leaves in a process started with appendonly yes.
Loaded(old, bytes) ==
    LET valid == SubSeq(bytes, 1, 2 * (Len(bytes) \div 2))
    IN [up |-> TRUE, state |-> "on", data |-> Replay(valid), buf |-> <<>>, seldb |-> -1,
        size |-> Len(valid), fsoff |-> Len(valid), postponed |-> 0, due |-> FALSE,
        status |-> "ok", bio |-> "ok", jobs |-> <<>>, sched |-> FALSE,
        child |-> "none", kid |-> NoKid, rwbuf |-> <<>>, stop |-> FALSE,
        bytes |-> valid, synced |-> IF old.synced > Len(valid) THEN Len(valid) ELSE old.synced,
        env |-> old.env, gen |-> old.gen, forks |-> old.forks, faults |-> old.faults]

Init == /\ \E e \in Environments :
              s = Loaded([env |-> e, synced |-> 0, gen |-> 0, forks |-> 0, faults |-> 0], <<>>)
        /\ client = [c \in Client |-> [pending |-> {}, handler |-> "none"]]
        /\ fired = {}
        /\ acked = {}
        /\ written = 0

MayFail(m, fault) == fault \in m.env.ops /\ m.faults < m.env.faults

Failed(m) == [m EXCEPT !.faults = @ + 1]

Exit(m) == [m EXCEPT !.up = FALSE]

----------------------------------------------------------------------------
\* flushAppendOnlyFile().  The handlers below are functions from a state of the
\* process to the set of the states it may end in.

aofFsyncInProgress(m) == m.jobs # <<>>

Job(gen) == [gen |-> gen, at |-> -1]

\* Mutant: the offset advances although the running fsync may not cover it.
TryFsyncAdvances(m, syncing) ==
    IF m.env.policy = "everysec" /\ m.due
      THEN {[m EXCEPT !.due = FALSE, !.fsoff = m.size,
                      !.jobs = IF syncing THEN @ ELSE Append(@, Job(m.gen))]}
    ELSE {m}

TryFsync(m, syncing) ==
    IF m.env.nofsync /\ m.child # "none" THEN {m}
    ELSE IF m.env.policy = "always"
      THEN {[m EXCEPT !.synced = Len(m.bytes), !.fsoff = m.size, !.due = FALSE]}
           \cup (IF MayFail(m, "disk-error") THEN {Exit(Failed(m))} ELSE {})
    ELSE IF m.env.policy = "everysec" /\ m.due
      THEN {IF syncing THEN [m EXCEPT !.due = FALSE]
            ELSE [m EXCEPT !.due = FALSE, !.jobs = Append(@, Job(m.gen)), !.fsoff = m.size]}
    ELSE {m}

\* ftruncate() to aof_current_size after a short write.
Truncated(m, n) == [m EXCEPT !.bytes = SubSeq(@, 1, n), !.synced = IF @ > n THEN n ELSE @]

\* The outcomes of aofWrite(): n units written, -1 for none or for a short
\* write that ftruncate() removed.
aofWrite(m) ==
    LET Put(k) == [m EXCEPT !.bytes = @ \o SubSeq(m.buf, 1, k)]
        Short  == 1..(Len(m.buf) - 1)
    IN {[m |-> Put(Len(m.buf)), n |-> Len(m.buf)]}
       \cup (IF ~MayFail(m, "disk-error") THEN {}
             ELSE {[m |-> Failed(m), n |-> -1]}
                  \cup {[m |-> Failed(Truncated(Put(k), m.size)), n |-> -1] : k \in Short}
                  \cup {[m |-> Failed(Put(k)), n |-> k] : k \in Short})

WriteError(m, n) ==
    LET kept == IF n > 0 THEN n ELSE 0
    IN [m EXCEPT !.status = "err", !.size = @ + kept,
                 !.buf = SubSeq(@, kept + 1, Len(@))]

AfterWrite(w, syncing) ==
    IF w.n = Len(w.m.buf)
      THEN TryFsync([w.m EXCEPT !.status = "ok", !.size = @ + w.n, !.buf = <<>>], syncing)
    ELSE IF w.m.env.policy = "always" THEN {Exit(w.m)}
    ELSE {WriteError(w.m, w.n)}

\* Mutant: an empty buffer never causes an fsync.
FlushOnlyBuffer(m, force) ==
    IF m.buf = <<>> THEN {m}
    ELSE UNION {AfterWrite(w, aofFsyncInProgress(m)) : w \in aofWrite([m EXCEPT !.postponed = 0])}

flushAppendOnlyFile(m, force) ==
    LET syncing == m.env.policy = "everysec" /\ aofFsyncInProgress(m)
    IN IF m.buf = <<>>
         THEN IF m.env.policy = "everysec" /\ m.fsoff # m.size /\ m.due /\ ~syncing
              THEN TryFsync(m, FALSE) ELSE {m}
       ELSE IF syncing /\ ~force /\ m.postponed < 2
         THEN {[m EXCEPT !.postponed = 1]}
       ELSE UNION {AfterWrite(w, syncing) : w \in aofWrite([m EXCEPT !.postponed = 0])}

----------------------------------------------------------------------------
\* Feeding commands and rewriting the file

feedAppendOnlyFile(m, d, w) ==
    LET out == Bytes((IF d # m.seldb THEN <<Select(d)>> ELSE <<>>) \o <<Write(w)>>)
    IN [m EXCEPT !.seldb = d,
                 !.buf = IF m.state = "on" THEN @ \o out ELSE @,
                 !.rwbuf = IF m.child = "aof" THEN @ \o out ELSE @]

\* call() and propagate(): the command changes the dataset, then is fed.
Call(m, d, w) ==
    LET done == [m EXCEPT !.data = Append(@, <<w, d>>)]
    IN IF m.state = "off" THEN done ELSE feedAppendOnlyFile(done, d, w)

\* The child has the dataset of the moment of the fork.
Forked(m) ==
    [m EXCEPT !.child = "aof", !.stop = FALSE, !.sched = FALSE,
              !.kid = [st |-> "dump", file |-> Bytes(<<Preamble(m.data)>>), pipe |-> <<>>],
              !.seldb = -1]

\* The bound on the children that clients and the growth of the file ask for.
CanFork(m) == m.forks < MaxForks

Counted(m) == [m EXCEPT !.forks = @ + 1]

killAppendOnlyChild(m) ==
    IF m.child # "aof" THEN m
    ELSE [m EXCEPT !.rwbuf = <<>>, !.kid = NoKid, !.child = "none"]

\* The end of backgroundRewriteDoneHandler(), and resetChildState().
Cleanup(m) ==
    [m EXCEPT !.rwbuf = <<>>, !.kid = NoKid, !.child = "none",
              !.sched = IF m.state = "wait_rewrite" THEN TRUE ELSE @]

\* Mutant: the buffer that was just written to the new file is kept.
SwitchFileKeepsBuffer(m) ==
    [m EXCEPT !.seldb = -1, !.size = Len(m.bytes), !.fsoff = Len(m.bytes),
              !.due = FALSE, !.state = "on"]

\* The new file replaces the old one as the one the server writes to.
SwitchFile(m) ==
    [m EXCEPT !.seldb = -1, !.size = Len(m.bytes), !.fsoff = Len(m.bytes),
              !.due = FALSE, !.buf = <<>>, !.state = "on"]

\* rename(): the child has fsynced its part of the new file; the residual
\* differences are fsynced by the policy.
Renamed(m) ==
    LET new == m.kid.file \o m.rwbuf
        g   == m.gen + 1
    IN [m EXCEPT !.bytes = new, !.gen = g,
                 !.synced = IF m.env.policy = "always" THEN Len(new) ELSE Len(m.kid.file),
                 !.jobs = IF m.env.policy = "everysec" THEN Append(@, Job(g)) ELSE @]

backgroundRewriteDoneHandler(m) ==
    IF m.kid.st = "failed" THEN {Cleanup(m)}
    ELSE {Cleanup(IF m.state = "off" THEN Renamed(m) ELSE SwitchFile(Renamed(m)))}
         \cup (IF MayFail(m, "disk-error") THEN {Cleanup(Failed(m))} ELSE {})

----------------------------------------------------------------------------
\* The event loop: file events of the clients, serverCron(), beforeSleep()

writeCommandsDeniedByDiskError(m) ==
    m.state # "off" /\ (m.status = "err" \/ m.bio = "err")

Reply(ids) == acked' = IF s.state = "on" THEN acked \cup ids ELSE acked

\* The readable event of c alone: one write command is executed.
Readable(c) ==
    /\ s.up /\ c \notin fired /\ written < MaxWrites
    /\ ~writeCommandsDeniedByDiskError(s)
    /\ written' = written + 1
    /\ fired' = fired \cup {c}
    /\ client' = [client EXCEPT ![c].pending = @ \cup {written + 1}]
    /\ \E d \in s.env.dbs : s' = Call(s, d, written + 1)
    /\ UNCHANGED acked

\* The writable event of c alone, after which its handler is removed.
sendReplyToClient(c) ==
    /\ s.up /\ c \notin fired /\ client[c].handler # "none"
    /\ client' = [client EXCEPT ![c] = [pending |-> {}, handler |-> "none"]]
    /\ Reply(client[c].pending)
    /\ fired' = fired \cup {c}
    /\ UNCHANGED <<s, written>>

\* Mutant: the readable event always comes first.
SentInReadFirst(c, w) == client[c].pending \cup {w}

\* What aeProcessEvents() sends when c is readable and writable at once: with
\* AE_BARRIER the writable event is served first.
SentIn(c, w) ==
    IF client[c].handler = "barrier" THEN client[c].pending ELSE client[c].pending \cup {w}

ReadableAndWritable(c) ==
    LET w == written + 1
    IN /\ s.up /\ c \notin fired /\ client[c].handler # "none" /\ w \in 1..MaxWrites
       /\ ~writeCommandsDeniedByDiskError(s)
       /\ written' = w
       /\ fired' = fired \cup {c}
       /\ client' = [client EXCEPT ![c] = [pending |-> {w} \ SentIn(c, w), handler |-> "none"]]
       /\ \E d \in s.env.dbs : s' = Call(s, d, w)
       /\ Reply(SentIn(c, w))

\* handleClientsWithPendingWrites(): the clients in slow could not take all
\* of their replies and get a handler.
HandlerFor(m) == IF m.state = "on" /\ m.env.policy = "always" THEN "barrier" ELSE "plain"

beforeSleep ==
    /\ s.up
    /\ \E m \in IF s.state = "on" THEN flushAppendOnlyFile(s, FALSE) ELSE {s} :
       LET queued == {c \in Client : client[c].pending # {} /\ client[c].handler = "none"}
       IN \E slow \in IF m.up /\ "slow-client" \in s.env.ops THEN SUBSET queued ELSE {{}} :
          /\ s' = m
          /\ client' = [c \in Client |->
                IF c \in slow THEN [client[c] EXCEPT !.handler = HandlerFor(m)]
                ELSE IF c \in queued /\ m.up THEN [client[c] EXCEPT !.pending = {}]
                ELSE client[c]]
          /\ IF m.up THEN Reply(UNION {client[c].pending : c \in queued \ slow})
                     ELSE UNCHANGED acked
    /\ fired' = {}
    /\ UNCHANGED written

\* A rewrite that was scheduled, or asked for by the growth of the file.
StartRewrite(m) ==
    IF m.child # "none" THEN {m}
    ELSE IF m.sched
      THEN {Forked(m)} \cup (IF MayFail(m, "child-error") THEN {Failed(m)} ELSE {})
    ELSE {m} \cup (IF "auto-rewrite" \in m.env.ops /\ m.state = "on" /\ CanFork(m)
                   THEN {Counted(Forked(m))} ELSE {})

checkChildrenDone(m) ==
    CASE m.child = "aof" /\ m.kid.st \in {"ok", "failed"} -> backgroundRewriteDoneHandler(m)
      [] m.child = "rdb" /\ m.kid.st = "ok" -> {[m EXCEPT !.child = "none", !.kid = NoKid]}
      [] OTHER -> {m}

FlushPostponed(m) ==
    IF m.state = "on" /\ m.postponed # 0 THEN flushAppendOnlyFile(m, FALSE) ELSE {m}

FlushAfterError(m) ==
    IF m.up /\ m.state = "on" /\ m.status = "err" THEN flushAppendOnlyFile(m, FALSE) ELSE {m}

\* second: the part of the handler that runs once a second runs this time.
serverCron(second) ==
    /\ s.up
    /\ \E m1 \in StartRewrite(s) : \E m2 \in checkChildrenDone(m1) :
       \E m3 \in FlushPostponed(m2) :
          s' \in IF second THEN FlushAfterError(m3) ELSE {m3}
    /\ UNCHANGED <<client, fired, acked, written>>

\* unixtime advances: past aof_last_fsync, or two seconds after a postponement.
Tick == /\ s.up /\ s.env.policy = "everysec"
        /\ \E p \in {s.postponed} \cup (IF s.postponed = 1 THEN {2} ELSE {}) :
              s' = [s EXCEPT !.due = TRUE, !.postponed = p]
        /\ s' # s
        /\ UNCHANGED <<client, fired, acked, written>>

----------------------------------------------------------------------------
\* The rewriting child and the pipes between it and the parent

Others == UNCHANGED <<client, fired, acked, written>>

MaySend(m) == m.child = "aof" /\ m.rwbuf # <<>> /\ ~m.stop

\* The pipe takes some of the buffer.
aofChildWriteDiffData ==
    /\ s.up /\ MaySend(s)
    /\ \E k \in 1..Len(s.rwbuf) :
          s' = [s EXCEPT !.kid.pipe = @ \o SubSeq(s.rwbuf, 1, k),
                         !.rwbuf = SubSeq(@, k + 1, Len(@))]
    /\ Others

\* The child has dumped the dataset and writes "!" to the parent.
ChildAsksToStop ==
    /\ s.up /\ s.child = "aof" /\ s.kid.st = "dump"
    /\ s' = [s EXCEPT !.kid.st = "asked"]
    /\ Others

aofChildPipeReadable ==
    /\ s.up /\ s.child = "aof" /\ s.kid.st = "asked"
    /\ s' = [s EXCEPT !.stop = TRUE, !.kid.st = "acked"]
    /\ Others

\* With the acknowledgement the child reads the final differences, writes
\* them, fsyncs, renames its temporary file and exits.
ChildFinishes ==
    /\ s.up /\ s.child = "aof" /\ s.kid.st = "acked"
    /\ s' = [s EXCEPT !.kid = [st |-> "ok", file |-> @.file \o @.pipe, pipe |-> <<>>]]
    /\ Others

ChildFails ==
    /\ s.up /\ s.child = "aof" /\ s.kid.st \in {"dump", "asked", "acked"}
    /\ MayFail(s, "child-error")
    /\ s' = [Failed(s) EXCEPT !.kid.st = "failed"]
    /\ Others

\* BGSAVE, which excludes a rewrite, and the end of its child.
Bgsave ==
    /\ s.up /\ "bgsave" \in s.env.ops /\ s.child = "none" /\ CanFork(s)
    /\ s' = [s EXCEPT !.child = "rdb", !.kid.st = "dump", !.forks = @ + 1]
    /\ Others

BgsaveEnds ==
    /\ s.up /\ s.child = "rdb" /\ s.kid.st = "dump"
    /\ s' = [s EXCEPT !.kid.st = "ok"]
    /\ Others

----------------------------------------------------------------------------
\* The bio thread: the fsync covers what the file holds when it starts

BioStart ==
    /\ s.up /\ s.jobs # <<>> /\ s.jobs[1].at = -1
    /\ s' = [s EXCEPT !.jobs[1].at = Len(s.bytes)]
    /\ Others

\* A descriptor closed in the meantime counts as a success (EBADF).
BioFinish ==
    /\ s.up /\ s.jobs # <<>> /\ s.jobs[1].at >= 0
    /\ LET job == Head(s.jobs)
           hit == s.state # "off" /\ job.gen = s.gen /\ job.at > s.synced
       IN \/ s' = [s EXCEPT !.jobs = Tail(@), !.bio = "ok",
                            !.synced = IF hit THEN job.at ELSE @]
          \/ /\ MayFail(s, "fsync-error")
             /\ s' = [Failed(s) EXCEPT !.jobs = Tail(@), !.bio = "err"]
    /\ Others

----------------------------------------------------------------------------
\* Commands of the operators, crashes and restarts

bgrewriteaofCommand ==
    /\ s.up /\ "bgrewriteaof" \in s.env.ops /\ CanFork(s)
    /\ \/ s.child = "rdb" /\ s' = [Counted(s) EXCEPT !.sched = TRUE]
       \/ s.child = "none" /\ s' = Counted(Forked(s))
    /\ Others

\* CONFIG SET appendonly no
stopAppendOnly ==
    /\ s.up /\ s.state # "off" /\ MayFail(s, "config")
    /\ \E m \in flushAppendOnlyFile(Failed(s), TRUE) :
          s' = IF ~m.up THEN m
               ELSE [killAppendOnlyChild(m) EXCEPT !.state = "off", !.sched = FALSE,
                        !.buf = <<>>, !.seldb = -1, !.synced = Len(m.bytes), !.fsoff = m.size]
    /\ Others

\* CONFIG SET appendonly yes
startAppendOnly ==
    /\ s.up /\ s.state = "off" /\ MayFail(s, "config")
    /\ LET m == Failed(s)
           w == IF m.child = "rdb" THEN [m EXCEPT !.sched = TRUE]
                ELSE Forked(killAppendOnlyChild(m))
       IN s' = [w EXCEPT !.state = "wait_rewrite", !.due = FALSE, !.bio = "ok", !.status = "ok"]
    /\ Others

\* SHUTDOWN, refused while the first AOF is being written.
prepareForShutdown ==
    /\ s.up /\ s.state # "off" /\ MayFail(s, "shutdown")
    /\ ~(s.state = "wait_rewrite" /\ s.child = "aof")
    /\ \E m \in flushAppendOnlyFile(killAppendOnlyChild(Failed(s)), TRUE) :
          s' = IF m.up THEN Exit([m EXCEPT !.synced = Len(m.bytes)]) ELSE m
    /\ Others

\* The process dies; what it wrote is in the page cache.
Kill == /\ s.up /\ s.state # "off" /\ MayFail(s, "kill")
        /\ s' = Exit(Failed(s))
        /\ Others

\* The machine stops; of what was not fsynced any prefix may be on disk.
PowerLoss ==
    /\ s.state # "off" /\ MayFail(s, "power-loss")
    /\ \E n \in s.synced..Len(s.bytes) :
          s' = [Exit(Failed(s)) EXCEPT !.bytes = SubSeq(@, 1, n), !.synced = n]
    /\ Others

\* loadDataFromDisk() in a new process; the clients are gone.
loadAppendOnlyFile ==
    /\ ~s.up /\ WellFormed(s.bytes)
    /\ s' = Loaded(s, s.bytes)
    /\ client' = [c \in Client |-> [pending |-> {}, handler |-> "none"]]
    /\ fired' = {}
    /\ UNCHANGED <<acked, written>>

----------------------------------------------------------------------------
MainThread ==
    \/ \E c \in Client : Readable(c) \/ sendReplyToClient(c) \/ ReadableAndWritable(c)
    \/ beforeSleep
    \/ \E second \in BOOLEAN : serverCron(second)
    \/ aofChildWriteDiffData
    \/ aofChildPipeReadable

Next == \/ MainThread
        \/ Tick
        \/ ChildAsksToStop \/ ChildFinishes \/ ChildFails
        \/ Bgsave \/ BgsaveEnds
        \/ BioStart \/ BioFinish
        \/ bgrewriteaofCommand \/ stopAppendOnly \/ startAppendOnly \/ prepareForShutdown
        \/ Kill \/ PowerLoss \/ loadAppendOnlyFile

Spec == Init /\ [][Next]_vars

\* The event loop calls beforeSleep(), serverCron() and the pipe's handler again
\* and again, the bio thread serves its queue, time passes, a child that does not
\* fail finishes, and a server that went down is started again.
Fairness ==
    /\ WF_vars(beforeSleep) /\ WF_vars(serverCron(TRUE)) /\ WF_vars(Tick)
    /\ WF_vars(BioStart) /\ WF_vars(BioFinish)
    /\ WF_vars(ChildAsksToStop) /\ WF_vars(aofChildPipeReadable)
    /\ WF_vars(ChildFinishes) /\ WF_vars(BgsaveEnds)
    /\ WF_vars(loadAppendOnlyFile)

FairSpec == Spec /\ Fairness

----------------------------------------------------------------------------
Cmd == [op : {"select"}, db : Db] \cup [op : {"write"}, id : 1..MaxWrites]
IsPreamble(c) == c.op = "rdb" /\ Ids(c.data) \subseteq 1..MaxWrites

IsBytes(b) == \A i \in 1..Len(b) : b[i][2] \in 0..1 /\ (b[i][1] \in Cmd \/ IsPreamble(b[i][1]))

\* The fields of the process and of the disk have their types; sizes never
\* exceed the file.
TypeOK ==
    /\ s.up \in BOOLEAN /\ s.due \in BOOLEAN /\ s.sched \in BOOLEAN /\ s.stop \in BOOLEAN
    /\ s.state \in {"on", "wait_rewrite", "off"}
    /\ \A i \in 1..Len(s.data) : s.data[i] \in (1..MaxWrites) \X Db
    /\ IsBytes(s.bytes) /\ IsBytes(s.buf) /\ IsBytes(s.rwbuf)
    /\ IsBytes(s.kid.file) /\ IsBytes(s.kid.pipe)
    /\ s.seldb \in Db \cup {-1}
    /\ s.postponed \in 0..2
    /\ s.status \in {"ok", "err"} /\ s.bio \in {"ok", "err"}
    /\ s.child \in {"none", "aof", "rdb"}
    /\ s.kid.st \in {"none", "dump", "asked", "acked", "ok", "failed"}
    /\ s.kid.st = "none" <=> s.child = "none"
    /\ s.synced \in 0..Len(s.bytes) /\ s.fsoff <= s.size
    /\ \A i \in 1..Len(s.jobs) : s.jobs[i].gen <= s.gen
    /\ \A c \in Client : /\ client[c].pending \subseteq 1..written
                         /\ client[c].handler \in {"none", "plain", "barrier"}
    /\ fired \subseteq Client
    /\ acked \subseteq 1..written

\* While the AOF is on, the file followed by aof_buf replays to the dataset: no
\* short write, retry, rewrite or restart loses, repeats or misdirects a command.
AofHoldsTheDataset ==
    s.up /\ s.state = "on" =>
        /\ WellFormed(s.bytes \o s.buf)
        /\ Replay(s.bytes \o s.buf) = s.data

Durable(m) == Ids(Replay(SubSeq(m.bytes, 1, m.synced)))

\* Where a reply waits for the fsync: no-appendfsync-on-rewrite gives that up on
\* purpose, and a handler that was installed while the AOF was off has no
\* AE_BARRIER, so that after CONFIG SET appendonly yes a slow client can be read
\* from and answered before the next flush.
Waits(m) ==
    /\ m.env.policy = "always" /\ ~m.env.nofsync
    /\ ~({"config", "slow-client"} \subseteq m.env.ops)

\* With appendfsync always, a write whose reply was sent while the AOF was on is
\* fsynced, and stays so through rewrites, crashes and reconfigurations.
AckedWritesSurvive == Waits(s) => acked \subseteq Durable(s)

\* aof_fsync_offset is honest for the policy that reads it: with no fsync pending
\* and none failed, everything before it is on disk.  Where processes are killed
\* it is not: loadAppendOnlyFile() sets it to the size of a file whose end the
\* dead process may not have fsynced.
FsyncOffsetIsDurable ==
    s.env.policy = "everysec" /\ "kill" \notin s.env.ops
        /\ s.up /\ s.state = "on" /\ s.jobs = <<>> /\ s.bio = "ok"
        => s.synced >= s.fsoff

\* Every write is fsynced in the end, also when the clients stop writing right
\* after it.  An fsync of the bio thread that failed is not repeated, nor is the
\* one a killed process did not get to.
WritesReachTheDisk ==
    []<>(s.state = "on" /\ {"kill", "fsync-error"} \cap s.env.ops = {}
            => s.buf = <<>> /\ s.synced = Len(s.bytes))

=============================================================================
