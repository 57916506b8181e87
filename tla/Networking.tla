----------------------------- MODULE Networking ------------------------------
(***************************************************************************)
(* Clients and the event loop of networking.c, ae.c and beforeSleep(), on  *)
(* top of the I/O threads of module IOThreads: accepting, reading, parsing *)
(* pipelined commands, blocking, pausing and unblocking, replying, and     *)
(* closing clients now or later.                                           *)
(*                                                                         *)
(* Every command of a client arrives in two pieces.  What commands do is   *)
(* in env.pipeline, a kind per command:                                    *)
(*   "get"    replies                  "quit"  replies, then closes        *)
(*   "bad"    is a protocol error      "block" waits for "wake" or timeout *)
(*   "wake"   serves blocked clients   "kill"  is CLIENT KILL TYPE normal  *)
(*   "pause" and "unpause" are CLIENT PAUSE WRITE and CLIENT UNPAUSE, and  *)
(*   "set"    replies, and is postponed by a pause                         *)
(* A reply is the index of the command it answers.                         *)
(***************************************************************************)
EXTENDS IOThreads, Integers, Sequences, SequencesExt

CONSTANTS
  Environments,     \* the scenarios: see IsEnvironment
  PendingPerThread  \* 2 in stopThreadedIOIfNeeded()

VARIABLES
  s,      \* the clients and the lists of clients, touched by every thread
  pc,     \* "poll", "events", "reads" or "writes": the place in aeMain()
  fired,  \* the file events aeApiPoll() returned and main has not run yet
  env     \* the scenario

vars == <<ioVars, s, pc, fired, env>>

\* doReads: io-threads-do-reads.  limit: the hard limit of the output buffer
\* of a normal client, in replies.  qblimit: client-query-buffer-limit, in
\* pieces.  faults: how often a peer may close, reset or stop reading.
IsEnvironment(e) ==
  /\ DOMAIN e = {"pipeline", "doReads", "maxclients", "limit", "qblimit",
                 "faults", "idle"}
  /\ e.doReads \in BOOLEAN /\ e.idle \subseteq Client
  /\ {e.maxclients, e.limit, e.qblimit, e.faults} \subseteq Nat
  /\ DOMAIN e.pipeline = Client

ASSUME NetworkingAssumption ==
  /\ PendingPerThread \in Nat \ {0}
  /\ \A e \in Environments : IsEnvironment(e)

Kind(c, i) == env.pipeline[c][i]

\* createClient() and what the kernel holds of the connection: arrived counts
\* the pieces in the socket, read those in querybuf, parsed those consumed.
Connecting ==
  [alive |-> FALSE, conn |-> "connecting", arrived |-> 0, read |-> 0,
   parsed |-> 0, argv |-> 0, cmds |-> 0, reply |-> <<>>, sent |-> <<>>, flags |-> {},
   handler |-> FALSE]

Init ==
  /\ IOInit
  /\ env \in Environments
  /\ pc = "poll" /\ fired = <<>>
  /\ s = [cl |-> [c \in Client |-> Connecting], panic |-> FALSE,
          pending_read |-> <<>>, pending_write |-> <<>>, to_close |-> <<>>,
          unblocked |-> <<>>, paused |-> FALSE]

-----------------------------------------------------------------------------
(* Flags and lists *)

Has(st, c, f) == f \in st.cl[c].flags

Flag(st, c, F) == [st EXCEPT !.cl[c].flags = @ \cup F]

Unflag(st, c, F) == [st EXCEPT !.cl[c].flags = @ \ F]

freeClientAsync(st, c) ==
  IF Has(st, c, "CLOSE_ASAP") THEN st
  ELSE [Flag(st, c, {"CLOSE_ASAP"}) EXCEPT !.to_close = Append(@, c)]

clientInstallWriteHandler(st, c) ==
  IF Has(st, c, "PENDING_WRITE") THEN st
  ELSE [Flag(st, c, {"PENDING_WRITE"}) EXCEPT !.pending_write = <<c>> \o @]

clientHasPendingReplies(st, c) == st.cl[c].reply # <<>>

prepareClientToWrite(st, c) ==
  IF ~clientHasPendingReplies(st, c) /\ ~Has(st, c, "PENDING_READ")
    THEN clientInstallWriteHandler(st, c) ELSE st

closeClientOnOutputBufferLimitReached(st, c) ==
  IF Len(st.cl[c].reply) >= env.limit THEN freeClientAsync(st, c) ELSE st

\* addReply() of the answer to command i.
addReply(st, c, i) ==
  IF ~st.cl[c].alive \/ Has(st, c, "CLOSE_ASAP") THEN st
  ELSE LET ready == prepareClientToWrite(st, c)
       IN IF Has(st, c, "CLOSE_AFTER_REPLY") THEN ready
          ELSE closeClientOnOutputBufferLimitReached(
                 [ready EXCEPT !.cl[c].reply = Append(@, i)], c)

Without(q, c) == SelectSeq(q, LAMBDA d : d # c)

\* Mutant: a client that is freed stays in the list of pending reads.
unlinkClientKeepsRead(st, c) ==
  [st EXCEPT !.pending_write = Without(@, c), !.unblocked = Without(@, c),
             !.cl[c].alive = FALSE, !.cl[c].conn = "closed",
             !.cl[c].handler = FALSE, !.cl[c].flags = {}]

\* Closes the socket and takes the client out of the lists its flags name.
unlinkClient(st, c) ==
  [st EXCEPT !.pending_write = Without(@, c), !.pending_read = Without(@, c),
             !.unblocked = Without(@, c),
             !.cl[c].alive = FALSE, !.cl[c].conn = "closed",
             !.cl[c].handler = FALSE, !.cl[c].flags = {}]

\* freeClient() of a normal client.
freeClient(st, c) == unlinkClient([st EXCEPT !.to_close = Without(@, c)], c)

freeClientsInAsyncFreeQueue(st) ==
  FoldLeft(LAMBDA t, c : freeClient(t, c), st, st.to_close)

-----------------------------------------------------------------------------
(* Blocking *)

queueClientForReprocessing(st, c) ==
  IF Has(st, c, "UNBLOCKED") THEN st
  ELSE [Flag(st, c, {"UNBLOCKED"}) EXCEPT !.unblocked = Append(@, c)]

unblockClient(st, c) ==
  queueClientForReprocessing(Unflag(st, c, {"BLOCKED", "PAUSED"}), c)

\* A blocked client is answered and unblocked.
Answer(st, c) == unblockClient(addReply(st, c, st.cl[c].argv), c)

Waiting(st) == {c \in Client : Has(st, c, "BLOCKED") /\ ~Has(st, c, "PAUSED")}

\* replyToBlockedClientTimedOut() and unblockClient() for those in T.
checkBlockedClientTimeout(st, T) ==
  FoldLeft(LAMBDA t, c : Answer(t, c), st, SetToSeq(T))

unpauseClients(st) ==
  FoldLeft(LAMBDA t, c : unblockClient(t, c), [st EXCEPT !.paused = FALSE],
           SetToSeq({c \in Client : Has(st, c, "PAUSED")}))

-----------------------------------------------------------------------------
(* Commands *)

\* CLIENT KILL TYPE normal SKIPME yes: every other client goes at once.
KillOthers(st, c) ==
  FoldLeft(LAMBDA t, d : freeClient(t, d), st,
           SetToSeq({d \in Client \ {c} : st.cl[d].alive}))

\* The command that is in argv runs, and the client is reset.
call(st, c) ==
  LET i   == st.cl[c].argv
      k   == Kind(c, i)
      ran == [st EXCEPT !.cl[c].cmds = @ + 1]
  IN CASE k \in {"get", "set"} -> addReply(ran, c, i)
       [] k = "quit"  -> Flag(addReply(ran, c, i), c, {"CLOSE_AFTER_REPLY"})
       [] k = "block" -> Flag(ran, c, {"BLOCKED"})
       [] k = "wake"  -> addReply(checkBlockedClientTimeout(ran, Waiting(ran)),
                                  c, i)
       [] k = "kill"  -> addReply(KillOthers(ran, c), c, i)
       [] k = "pause" -> addReply([ran EXCEPT !.paused = TRUE], c, i)
       [] k = "unpause" -> addReply(unpauseClients(ran), c, i)

\* processCommand() postpones writes while they are paused: the client keeps
\* its argv and is marked to run it later.
processCommandAndResetClient(st, c) ==
  IF st.paused /\ Kind(c, st.cl[c].argv) = "set"
    THEN Flag(st, c, {"BLOCKED", "PAUSED", "PENDING_COMMAND"})
    ELSE call(st, c)

processPendingCommandsAndResetClient(st, c) ==
  IF Has(st, c, "PENDING_COMMAND")
    THEN processCommandAndResetClient(Unflag(st, c, {"PENDING_COMMAND"}), c)
    ELSE st

\* Mutant: input is parsed although a parsed command waits in argv.
BusyFlagsNoPending == {"BLOCKED", "CLOSE_AFTER_REPLY", "CLOSE_ASAP"}

\* The flags that stop processInputBuffer().
BusyFlags == {"BLOCKED", "PENDING_COMMAND", "CLOSE_AFTER_REPLY", "CLOSE_ASAP"}

\* The next command of the buffer is complete, or in error, or still short.
processMultibulkBuffer(st, c) ==
  LET r   == st.cl[c]
      i   == r.parsed \div 2 + 1
      got == [st EXCEPT !.cl[c].parsed = IF r.read < 2 * i THEN r.read ELSE 2 * i,
                        !.cl[c].argv = i]
  IN IF Kind(c, i) = "bad"
       THEN [ok |-> FALSE, st |-> Flag(addReply(got, c, i), c,
                                       {"CLOSE_AFTER_REPLY"})]
     ELSE [ok |-> r.read >= 2 * i, st |-> got]

RECURSIVE processInputBuffer(_, _)
processInputBuffer(st, c) ==
  LET r == st.cl[c]
  IN IF ~r.alive \/ r.parsed >= r.read \/ r.flags \cap BusyFlags # {} THEN st
     ELSE LET p == processMultibulkBuffer(st, c)
          IN IF ~p.ok THEN p.st
             ELSE IF Has(st, c, "PENDING_READ")
               THEN Flag(p.st, c, {"PENDING_COMMAND"})
             ELSE processInputBuffer(processCommandAndResetClient(p.st, c), c)

\* The part of readQueryFromClient() after postponeClientRead().
ReadQuery(st, c) ==
  LET r == st.cl[c]
  IN IF r.conn = "reset" \/ (r.conn = "eof" /\ r.read = r.arrived)
       THEN freeClientAsync(st, c)
     ELSE IF r.read = r.arrived THEN st
     ELSE LET got == [st EXCEPT !.cl[c].read = r.arrived]
          IN IF r.arrived - r.parsed > env.qblimit THEN freeClientAsync(got, c)
             ELSE processInputBuffer(got, c)

postponeClientRead(st, c) ==
  /\ active /\ env.doReads
  /\ st.cl[c].flags \cap {"PENDING_READ", "BLOCKED"} = {}

readQueryFromClient(st, c) ==
  IF postponeClientRead(st, c)
    THEN [Flag(st, c, {"PENDING_READ"}) EXCEPT !.pending_read = <<c>> \o @]
    ELSE ReadQuery(st, c)

\* What the socket takes at once: everything, or a single reply when slow.
Taken(r) == IF r.conn = "slow" /\ Len(r.reply) > 1 THEN 1 ELSE Len(r.reply)

writeToClient(st, c, handler_installed) ==
  LET r    == st.cl[c]
      n    == Taken(r)
      sent == [st EXCEPT !.cl[c].sent = @ \o SubSeq(r.reply, 1, n),
                         !.cl[c].reply = SubSeq(@, n + 1, Len(@))]
      done == IF handler_installed
                THEN [sent EXCEPT !.cl[c].handler = FALSE] ELSE sent
  IN IF r.conn = "reset" /\ r.reply # <<>> THEN freeClientAsync(st, c)
     ELSE IF clientHasPendingReplies(sent, c) THEN sent
     ELSE IF Has(st, c, "CLOSE_AFTER_REPLY") THEN freeClientAsync(done, c)
     ELSE done

-----------------------------------------------------------------------------
(* The phases of beforeSleep() that only the main thread runs *)

\* Mutant: the handler is left to prepareClientToWrite().
InstallNothing(st, c) == st

\* A reply made by the read in a thread has no write handler yet.
InstallAfterRead(st, c) ==
  IF st.cl[c].alive /\ clientHasPendingReplies(st, c)
    THEN clientInstallWriteHandler(st, c) ELSE st

\* The loop of handleClientsWithPendingReadsUsingThreads() after the wait.
RECURSIVE RunPendingReads(_)
RunPendingReads(st) ==
  IF st.pending_read = <<>> THEN st
  ELSE LET c  == Head(st.pending_read)
           s1 == [Unflag(st, c, {"PENDING_READ"}) EXCEPT
                    !.pending_read = Tail(@),
                    !.panic = @ \/ Has(st, c, "BLOCKED")]
           s2 == processPendingCommandsAndResetClient(s1, c)
       IN RunPendingReads(InstallAfterRead(processInputBuffer(s2, c), c))

RECURSIVE processUnblockedClients(_)
processUnblockedClients(st) ==
  IF st.unblocked = <<>> THEN st
  ELSE LET c  == Head(st.unblocked)
           s1 == [Unflag(st, c, {"UNBLOCKED"}) EXCEPT !.unblocked = Tail(@)]
           s2 == IF Has(s1, c, "BLOCKED") THEN s1
                 ELSE processInputBuffer(
                        processPendingCommandsAndResetClient(s1, c), c)
       IN processUnblockedClients(s2)

\* Write, and install the handler for what the socket did not take.
WriteOne(st, c) ==
  IF Has(st, c, "CLOSE_ASAP") THEN st
  ELSE LET w == writeToClient(st, c, FALSE)
       IN IF clientHasPendingReplies(w, c) /\ ~Has(w, c, "CLOSE_ASAP")
            THEN [w EXCEPT !.cl[c].handler = TRUE] ELSE w

handleClientsWithPendingWrites(st) ==
  FoldLeft(LAMBDA t, c : WriteOne(Unflag(t, c, {"PENDING_WRITE"}), c),
           [st EXCEPT !.pending_write = <<>>], st.pending_write)

\* The threads have written: install the handlers, empty the list.
AfterThreadedWrites(st) ==
  FoldLeft(LAMBDA t, c : IF clientHasPendingReplies(t, c)
                           THEN [t EXCEPT !.cl[c].handler = TRUE] ELSE t,
           [st EXCEPT !.pending_write = <<>>], st.pending_write)

-----------------------------------------------------------------------------
(* The world outside *)

\* A peer connects; acceptCommonHandler() takes it or turns it away.
Accept(c) ==
  /\ pc = "events" /\ s.cl[c].conn = "connecting"
  /\ IF Cardinality({d \in Client : s.cl[d].alive}) >= env.maxclients
       THEN s' = [s EXCEPT !.cl[c].conn = "closed"]
       ELSE s' = [s EXCEPT !.cl[c].conn = "ok", !.cl[c].alive = TRUE]
  /\ UNCHANGED <<ioVars, pc, fired, env>>

\* The next piece of the pipeline reaches the socket.
Arrive(c) ==
  /\ s.cl[c].conn \in {"ok", "slow"}
  /\ s.cl[c].arrived < 2 * Len(env.pipeline[c])
  /\ s' = [s EXCEPT !.cl[c].arrived = @ + 1]
  /\ UNCHANGED <<ioVars, pc, fired, env>>

\* The peer closes, resets or stops reading.
PeerFails(c) ==
  /\ env.faults > 0 /\ s.cl[c].conn \in {"ok", "slow"}
  /\ \E f \in {"eof", "reset", "slow"} : s' = [s EXCEPT !.cl[c].conn = f]
  /\ env' = [env EXCEPT !.faults = @ - 1]
  /\ UNCHANGED <<ioVars, pc, fired>>

-----------------------------------------------------------------------------
(* The main thread *)

Readable(c) == LET r == s.cl[c] IN
  r.alive /\ (r.arrived > r.read \/ r.conn \in {"eof", "reset"})

\* aeApiPoll() returns the clients that are readable or writable.
aeApiPoll ==
  /\ pc = "poll" /\ main = "loop"
  /\ fired' = [c \in {d \in Client : Readable(d) \/ s.cl[d].handler} |->
                 [r |-> Readable(c), w |-> s.cl[c].handler]]
  /\ pc' = "events"
  /\ UNCHANGED <<ioVars, s, env>>

\* The readable event first, then the writable one, if still registered.
aeProcessEvents(c) ==
  /\ pc = "events" /\ c \in DOMAIN fired
  /\ LET s1 == IF fired[c].r /\ s.cl[c].alive
                 THEN readQueryFromClient(s, c) ELSE s
     IN s' = IF fired[c].w /\ s1.cl[c].handler
               THEN writeToClient(s1, c, TRUE) ELSE s1
  /\ fired' = [d \in DOMAIN fired \ {c} |-> fired[d]]
  /\ UNCHANGED <<ioVars, pc, env>>

\* Time events: idle clients are closed, a pause may have elapsed.  Then
\* beforeSleep() begins with the clients whose blocking operation timed out.
processTimeEvents ==
  /\ pc = "events" /\ DOMAIN fired = {}
  /\ \E I \in SUBSET {c \in env.idle : s.cl[c].alive /\ ~Has(s, c, "BLOCKED")},
        over \in BOOLEAN, T \in SUBSET Waiting(s) :
       LET s1 == FoldLeft(LAMBDA t, c : freeClient(t, c), s, SetToSeq(I))
           s2 == IF over /\ s1.paused THEN unpauseClients(s1) ELSE s1
       IN s' = checkBlockedClientTimeout(s2, T)
  /\ pc' = "reads"
  /\ UNCHANGED <<ioVars, fired, env>>

\* The clients of a list are dealt out to the threads in turn.
InTurn(q) == [c \in Range(q) |-> ((CHOOSE i \in 1..Len(q) : q[i] = c) - 1)
                                   % IoThreadsNum]

ReadsUseThreads == active /\ env.doReads /\ s.pending_read # <<>>

handleClientsWithPendingReadsUsingThreads ==
  /\ pc = "reads" /\ main = "loop" /\ ReadsUseThreads
  /\ Distribute("read", InTurn(s.pending_read))
  /\ UNCHANGED <<s, pc, fired, env>>

ReadsDone ==
  /\ pc = "reads"
  /\ \/ main = "loop" /\ ~ReadsUseThreads /\ UNCHANGED ioVars
        /\ s' = processUnblockedClients(s)
     \/ WaitDone /\ s' = processUnblockedClients(RunPendingReads(s))
  /\ pc' = "writes"
  /\ UNCHANGED <<fired, env>>

FewWrites == Len(s.pending_write) < IoThreadsNum * PendingPerThread

\* No client, or few of them and the threads already off: plain writes.
PlainWrites ==
  /\ pc = "writes" /\ main = "loop" /\ ~active /\ FewWrites
  /\ s' = freeClientsInAsyncFreeQueue(handleClientsWithPendingWrites(s))
  /\ pc' = "poll"
  /\ UNCHANGED <<ioVars, fired, env>>

NoWrites ==
  /\ pc = "writes" /\ main = "loop" /\ active /\ s.pending_write = <<>>
  /\ s' = freeClientsInAsyncFreeQueue(s)
  /\ pc' = "poll"
  /\ UNCHANGED <<ioVars, fired, env>>

\* stopThreadedIO() would first serve reads still pending: there are none.
stopThreadedIOIfNeeded ==
  /\ pc = "writes" /\ FewWrites /\ s.pending_write # <<>>
  /\ stopBegin
  /\ s' = [s EXCEPT !.panic = @ \/ s.pending_read # <<>>]
  /\ UNCHANGED <<pc, fired, env>>

StopThreads ==
  /\ pc = "writes" /\ (stopLock \/ stopDone)
  /\ UNCHANGED <<s, pc, fired, env>>

StartThreads ==
  /\ pc = "writes" /\ ~FewWrites /\ startThreadedIO
  /\ UNCHANGED <<s, pc, fired, env>>

\* Clients about to be closed are dropped from the list, the others dealt out.
handleClientsWithPendingWritesUsingThreads ==
  /\ pc = "writes" /\ ~FewWrites
  /\ LET q == SelectSeq(s.pending_write, LAMBDA c : ~Has(s, c, "CLOSE_ASAP"))
     IN /\ Distribute("write", InTurn(q))
        /\ s' = [s EXCEPT !.pending_write = q,
                          !.cl = [c \in Client |->
                             [s.cl[c] EXCEPT !.flags = @ \ {"PENDING_WRITE"}]]]
  /\ UNCHANGED <<pc, fired, env>>

WritesDone ==
  /\ pc = "writes" /\ WaitDone
  /\ s' = freeClientsInAsyncFreeQueue(AfterThreadedWrites(s))
  /\ pc' = "poll"
  /\ UNCHANGED <<fired, env>>

-----------------------------------------------------------------------------
(* Threads at work: one client at a time, by main or by a thread *)

Work(c) == IF op = "write" THEN writeToClient(s, c, FALSE)
           ELSE readQueryFromClient(s, c)

MainServes(c) == ServeOwn(c) /\ s' = Work(c) /\ UNCHANGED <<pc, fired, env>>

ThreadServes(t, c) == Serve(t, c) /\ s' = Work(c) /\ UNCHANGED <<pc, fired, env>>

MainSteps ==
  /\ setIOPendingCount \/ OwnDone
  /\ UNCHANGED <<s, pc, fired, env>>

ThreadSteps(t) ==
  /\ SeesWork(t) \/ SeesNothing(t) \/ TakesMutex(t) \/ ReleasesMutex(t)
     \/ EmptiesList(t) \/ DropsCount(t)
  /\ UNCHANGED <<s, pc, fired, env>>

Next ==
  \/ \E c \in Client : Accept(c)
  \/ \E c \in Client : Arrive(c)
  \/ \E c \in Client : PeerFails(c)
  \/ aeApiPoll
  \/ \E c \in Client : aeProcessEvents(c)
  \/ processTimeEvents
  \/ handleClientsWithPendingReadsUsingThreads
  \/ ReadsDone
  \/ PlainWrites
  \/ NoWrites
  \/ stopThreadedIOIfNeeded
  \/ StopThreads
  \/ StartThreads
  \/ handleClientsWithPendingWritesUsingThreads
  \/ WritesDone
  \/ \E c \in Client : MainServes(c)
  \/ \E t \in Thread, c \in Client : ThreadServes(t, c)
  \/ MainSteps
  \/ \E t \in Thread : ThreadSteps(t)

\* Fairness, written with the conditions under which a thread can go on in
\* place of ENABLED.  The main thread goes on unless it waits for a count or a
\* mutex; an I/O thread goes on unless it waits for its mutex.  Main is
\* strongly fair: a thread that finds no work lets go of its mutex for a
\* million looks at its count, so main gets the mutex in the end.
MainCanStep ==
  /\ main = "wait" => \A t \in Thread : pending[t] = 0
  /\ main = "stop" /\ next \in Thread => mutex[next] = "none"

MainStep == <<pc, main, next, fired, active, served[0]>>' #
            <<pc, main, next, fired, active, served[0]>>

ThreadCanStep(t) == tpc[t] = "lock" => mutex[t] = "none"

ThreadStep(t) == <<tpc[t], served[t]>>' # <<tpc[t], served[t]>>

\* Time passes: the pause ends and the blocking operations time out.
Expiring == s.paused \/ Waiting(s) # {}

TimeoutsElapse == pc = "events" /\ pc' = "reads" /\ ~s'.paused
                  /\ Waiting(s) \cap Waiting(s') = {}

\* The network delivers what was sent.
Delivered == \A c \in Client : s.cl[c].conn \in {"ok", "slow", "connecting"}
                => s.cl[c].arrived = 2 * Len(env.pipeline[c])

Fairness ==
  /\ <>[]~MainCanStep \/ []<><<MainStep>>_vars
  /\ \A t \in Thread : []<>~ThreadCanStep(t) \/ []<><<ThreadStep(t)>>_vars
  /\ <>[]~Expiring \/ []<><<TimeoutsElapse>>_vars
  /\ []<>Delivered

Spec == Init /\ [][Next]_vars

FairSpec == Spec /\ Fairness

-----------------------------------------------------------------------------
(* Properties *)

\* Every pipelined command of a client is answered once and in order,
\* whatever mix of event loop, I/O threads, pauses and blocking ran it: what
\* was sent and what is buffered are the answers 1, 2, ... of the commands
\* executed (a protocol error is answered too; a blocked command is not yet).
RepliesInOrder == \A c \in Client :
  LET r == s.cl[c]
      q == r.sent \o r.reply
  IN /\ \A i \in 1..Len(q) : q[i] = i
     /\ r.alive /\ ~Has(s, c, "CLOSE_ASAP") /\ ~Has(s, c, "CLOSE_AFTER_REPLY")
          => Len(q) = r.cmds - (IF c \in Waiting(s) THEN 1 ELSE 0)

\* Freed memory is never reached again: a client that was freed is in no list
\* of clients, of the server or of a thread, and no assertion on the lists or
\* flags fails.
NoDanglingClient ==
  /\ ~s.panic
  /\ \A c \in Client : s.cl[c].alive \/
       c \notin Range(s.pending_read) \cup Range(s.pending_write)
            \cup Range(s.to_close) \cup Range(s.unblocked)
            \cup UNION {list[j] : j \in Lists}

\* A client that is not closed and whose connection holds has every command it
\* sends answered in the end: no reply waits for a write handler nobody
\* installs, no parsed command is forgotten between a thread and the event
\* loop, no client meant to be closed after its reply lingers.
EveryCommandAnswered == \A c \in Client :
  <>[](s.cl[c].alive /\ s.cl[c].conn # "reset")
    => <>(Len(s.cl[c].sent) = Len(env.pipeline[c]))
=============================================================================
