------------------------------ MODULE IOThreads ------------------------------
(***************************************************************************)
(* The handshake between the main thread and the I/O threads of            *)
(* networking.c.  Main hands every thread a list of clients, raises its    *)
(* pending count, serves a list of its own, and spins until every count is *)
(* zero again.  A thread that sees no work for a while takes and releases  *)
(* its mutex, which main holds while threaded I/O is off.  The atomics are *)
(* sequentially consistent (atomicSetWithSync); the lists are not atomic,  *)
(* and are safe only because of the protocol modelled here.                *)
(* What is done to a client is in module Networking.                       *)
(***************************************************************************)
EXTENDS Naturals, FiniteSets

CONSTANTS
  Client,       \* the connected clients
  IoThreadsNum  \* server.io_threads_num, the main thread included

ASSUME ThreadsAssumption == IoThreadsNum \in Nat \ {0} /\ IsFiniteSet(Client)

\* Thread 0 is the main thread.
Lists == 0..(IoThreadsNum - 1)

Thread == 1..(IoThreadsNum - 1)

VARIABLES
  main,    \* "loop", "set", "own", "wait" or "stop": where the main thread is
  next,    \* the thread the loop of "set" and "stop" has come to
  op,      \* io_threads_op
  list,    \* io_threads_list
  served,  \* the clients of its list that a thread is done with
  pending, \* io_threads_pending
  active,  \* server.io_threads_active
  mutex,   \* io_threads_mutex: "main", "thread" or "none"
  tpc      \* where a thread is in IOThreadMain

ioVars == <<main, next, op, list, served, pending, active, mutex, tpc>>

Ops == {"read", "write"}

\* initThreadedIO() takes every mutex before it creates the thread.
IOInit ==
  /\ main = "loop" /\ next = 1 /\ op = "read" /\ active = FALSE
  /\ list = [j \in Lists |-> {}] /\ served = [j \in Lists |-> {}]
  /\ pending = [t \in Thread |-> 0]
  /\ mutex = [t \in Thread |-> "main"]
  /\ tpc = [t \in Thread |-> "spin"]

-----------------------------------------------------------------------------
(* The main thread *)

startThreadedIO ==
  /\ main = "loop" /\ ~active
  /\ active' = TRUE
  /\ mutex' = [t \in Thread |-> "none"]
  /\ UNCHANGED <<main, next, op, list, served, pending, tpc>>

\* Fill the lists; the callers deal the clients out in turn.
Distribute(o, target) ==
  /\ main = "loop" /\ active
  /\ op' = o
  /\ list' = [j \in Lists |-> {c \in DOMAIN target : target[c] = j}]
  /\ served' = [j \in Lists |-> {}]
  /\ main' = "set" /\ next' = 1
  /\ UNCHANGED <<pending, active, mutex, tpc>>

\* Give the start condition to the next thread, in the order of the loop.
setIOPendingCount ==
  /\ main = "set"
  /\ \/ /\ next \in Thread
        /\ pending' = [pending EXCEPT ![next] = Cardinality(list[next])]
        /\ next' = next + 1
        /\ UNCHANGED main
     \/ /\ next \notin Thread
        /\ main' = "own"
        /\ UNCHANGED <<pending, next>>
  /\ UNCHANGED <<op, list, served, active, mutex, tpc>>

\* Main serves one client of its own slice.
ServeOwn(c) ==
  /\ main = "own" /\ c \in list[0] \ served[0]
  /\ served' = [served EXCEPT ![0] = @ \cup {c}]
  /\ UNCHANGED <<main, next, op, list, pending, active, mutex, tpc>>

OwnDone ==
  /\ main = "own" /\ served[0] = list[0]
  /\ list' = [list EXCEPT ![0] = {}]
  /\ served' = [served EXCEPT ![0] = {}]
  /\ main' = "wait"
  /\ UNCHANGED <<next, op, pending, active, mutex, tpc>>

\* Mutant: main does not wait for the threads.
WaitDoneEarly ==
  /\ main = "wait"
  /\ main' = "loop"
  /\ UNCHANGED <<next, op, list, served, pending, active, mutex, tpc>>

\* The busy wait ends when every count has been seen at zero.
WaitDone ==
  /\ main = "wait" /\ \A t \in Thread : pending[t] = 0
  /\ main' = "loop"
  /\ UNCHANGED <<next, op, list, served, pending, active, mutex, tpc>>

stopBegin ==
  /\ main = "loop" /\ active
  /\ main' = "stop" /\ next' = 1
  /\ UNCHANGED <<op, list, served, pending, active, mutex, tpc>>

\* Takes the mutexes in order, waiting for a thread that holds one.
stopLock ==
  /\ main = "stop" /\ next \in Thread /\ mutex[next] = "none"
  /\ mutex' = [mutex EXCEPT ![next] = "main"]
  /\ next' = next + 1
  /\ UNCHANGED <<main, op, list, served, pending, active, tpc>>

stopDone ==
  /\ main = "stop" /\ next \notin Thread
  /\ active' = FALSE /\ main' = "loop"
  /\ UNCHANGED <<next, op, list, served, pending, mutex, tpc>>

-----------------------------------------------------------------------------
(* IOThreadMain *)

\* The spinning loop sees a count that is not zero, and starts.
SeesWork(t) ==
  /\ tpc[t] = "spin" /\ pending[t] # 0
  /\ tpc' = [tpc EXCEPT ![t] = "work"]
  /\ UNCHANGED <<main, next, op, list, served, pending, active, mutex>>

\* A million looks found nothing: go through the mutex.
SeesNothing(t) ==
  /\ tpc[t] = "spin" /\ pending[t] = 0
  /\ tpc' = [tpc EXCEPT ![t] = "lock"]
  /\ UNCHANGED <<main, next, op, list, served, pending, active, mutex>>

TakesMutex(t) ==
  /\ tpc[t] = "lock" /\ mutex[t] = "none"
  /\ mutex' = [mutex EXCEPT ![t] = "thread"]
  /\ tpc' = [tpc EXCEPT ![t] = "unlock"]
  /\ UNCHANGED <<main, next, op, list, served, pending, active>>

ReleasesMutex(t) ==
  /\ tpc[t] = "unlock"
  /\ mutex' = [mutex EXCEPT ![t] = "none"]
  /\ tpc' = [tpc EXCEPT ![t] = "spin"]
  /\ UNCHANGED <<main, next, op, list, served, pending, active>>

Serve(t, c) ==
  /\ tpc[t] = "work" /\ c \in list[t] \ served[t]
  /\ served' = [served EXCEPT ![t] = @ \cup {c}]
  /\ UNCHANGED <<main, next, op, list, pending, active, mutex, tpc>>

EmptiesList(t) ==
  /\ tpc[t] = "work" /\ served[t] = list[t]
  /\ list' = [list EXCEPT ![t] = {}]
  /\ served' = [served EXCEPT ![t] = {}]
  /\ tpc' = [tpc EXCEPT ![t] = "emptied"]
  /\ UNCHANGED <<main, next, op, pending, active, mutex>>

DropsCount(t) ==
  /\ tpc[t] = "emptied"
  /\ pending' = [pending EXCEPT ![t] = 0]
  /\ tpc' = [tpc EXCEPT ![t] = "spin"]
  /\ UNCHANGED <<main, next, op, list, served, active, mutex>>

-----------------------------------------------------------------------------
IONext ==
  \/ startThreadedIO
  \/ \E S \in SUBSET Client, o \in Ops :
       \E target \in [S -> Lists] : Distribute(o, target)
  \/ setIOPendingCount
  \/ \E c \in Client : ServeOwn(c)
  \/ OwnDone
  \/ WaitDone
  \/ stopBegin
  \/ stopLock
  \/ stopDone
  \/ \E t \in Thread :
       \/ SeesWork(t) \/ SeesNothing(t) \/ TakesMutex(t) \/ ReleasesMutex(t)
       \/ EmptiesList(t) \/ DropsCount(t)
       \/ \E c \in Client : Serve(t, c)

IOSpec == IOInit /\ [][IONext]_ioVars

IOTypeOK ==
  /\ main \in {"loop", "set", "own", "wait", "stop"}
  /\ next \in 1..IoThreadsNum
  /\ op \in Ops
  /\ list \in [Lists -> SUBSET Client]
  /\ served \in [Lists -> SUBSET Client]
  /\ pending \in [Thread -> Nat]
  /\ active \in BOOLEAN
  /\ mutex \in [Thread -> {"main", "thread", "none"}]
  /\ tpc \in [Thread -> {"spin", "work", "emptied", "lock", "unlock"}]

\* The clients a thread may be reading or writing now.
Touches(t) == IF tpc[t] = "work" THEN list[t] \ served[t] ELSE {}

\* What the comments of IOThreadMain() and freeClientAsync() rely on: while a
\* thread works, main is in none of the code that touches every client and
\* every list (it deals out nothing, runs no command, frees nobody), no two
\* threads touch one client, main's own slice included, and the thread that
\* works was given work, so its assertion on the count holds.
OneThreadPerClient ==
  /\ \A t \in Thread : tpc[t] \in {"work", "emptied"} =>
       /\ main \in {"set", "own", "wait"}
       /\ pending[t] # 0
  /\ \A t \in Thread : \A u \in Thread \ {t} : Touches(t) \cap Touches(u) = {}
  /\ \A t \in Thread : Touches(t) \cap (list[0] \ served[0]) = {}
=============================================================================
