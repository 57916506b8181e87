--------------------------- MODULE IOThreadsProofs ---------------------------
(***************************************************************************)
(* For any number of clients and I/O threads: no client is ever touched by *)
(* two threads (OneThreadPerClient).  The inductive invariant adds that a  *)
(* count is raised only between "set" and the end of the wait, that it     *)
(* stays raised as long as its thread works, and that the lists dealt out  *)
(* are disjoint.                                                           *)
(***************************************************************************)
EXTENDS IOThreads, FiniteSetTheorems, TLAPS

\* Outside the threaded section every count is zero, and inside the loop that
\* raises the counts those not reached yet are.
CountsRaisedInOrder ==
  /\ main \in {"loop", "stop"} => \A t \in Thread : pending[t] = 0
  /\ main = "set" => \A t \in Thread : t >= next => pending[t] = 0

\* A thread works only while its count is raised.
WorkersHaveCounts ==
  \A t \in Thread : tpc[t] \in {"work", "emptied"} => pending[t] # 0

ListsDisjoint ==
  \A j, k \in Lists : j # k => list[j] \cap list[k] = {}

IInv == IOTypeOK /\ CountsRaisedInOrder /\ WorkersHaveCounts /\ ListsDisjoint

\* Thread numbers are positions of the arrays of lists, and never 0.
LEMMA ThreadsAreLists == /\ Thread \subseteq Lists /\ 0 \in Lists /\ 0 \notin Thread
                         /\ Thread \subseteq Nat /\ 1 \in 1..IoThreadsNum
                         /\ \A n \in Thread : n + 1 \in 1..IoThreadsNum
  BY ThreadsAssumption DEF Thread, Lists

\* A list of clients is finite, so its length is a number.
LEMMA ListLength == ASSUME NEW S \in SUBSET Client PROVE Cardinality(S) \in Nat
  BY ThreadsAssumption, FS_Subset, FS_CardinalityType

\* The inductive invariant gives the exclusion of the threads.
LEMMA Exclusion == IInv => OneThreadPerClient
<1> SUFFICES ASSUME IInv PROVE OneThreadPerClient
  OBVIOUS
<1>1. ASSUME NEW t \in Thread, tpc[t] \in {"work", "emptied"}
      PROVE main \in {"set", "own", "wait"} /\ pending[t] # 0
  BY <1>1 DEF IInv, IOTypeOK, CountsRaisedInOrder, WorkersHaveCounts
<1>2. ASSUME NEW t \in Thread, NEW u \in Thread \ {t}
      PROVE Touches(t) \cap Touches(u) = {}
  <2>1. list[t] \cap list[u] = {}
    BY ThreadsAreLists DEF IInv, ListsDisjoint
  <2> QED
    BY <2>1 DEF Touches
<1>3. ASSUME NEW t \in Thread PROVE Touches(t) \cap (list[0] \ served[0]) = {}
  <2>1. list[t] \cap list[0] = {}
    BY ThreadsAreLists DEF IInv, ListsDisjoint
  <2> QED
    BY <2>1 DEF Touches
<1> QED
  BY <1>1, <1>2, <1>3 DEF OneThreadPerClient

\* initThreadedIO() establishes it.
LEMMA InitEstablishes == IOInit => IInv
<1> SUFFICES ASSUME IOInit PROVE IInv
  OBVIOUS
<1>1. IOTypeOK
  BY ThreadsAreLists, Zenon DEF IOInit, IOTypeOK, Ops
<1>2. CountsRaisedInOrder /\ WorkersHaveCounts
  BY DEF IOInit, CountsRaisedInOrder, WorkersHaveCounts
<1>3. ListsDisjoint
  BY DEF IOInit, ListsDisjoint
<1> QED
  BY <1>1, <1>2, <1>3 DEF IInv

\* Every step of the main thread and of an I/O thread preserves it.
LEMMA StepPreserves == IInv /\ [IONext]_ioVars => IInv'
<1> SUFFICES ASSUME IInv, [IONext]_ioVars PROVE IInv'
  OBVIOUS
<1> USE ThreadsAreLists DEF IInv
<1>0. CASE UNCHANGED ioVars
  BY <1>0 DEF ioVars, IOTypeOK, CountsRaisedInOrder, WorkersHaveCounts,
              ListsDisjoint
<1>1. CASE startThreadedIO
  BY <1>1 DEF startThreadedIO, IOTypeOK, CountsRaisedInOrder,
              WorkersHaveCounts, ListsDisjoint
<1>2. ASSUME NEW S \in SUBSET Client, NEW o \in Ops,
             NEW target \in [S -> Lists], Distribute(o, target)
      PROVE IInv'
  <2>1. IOTypeOK'
    BY <1>2 DEF Distribute, IOTypeOK
  <2>2. CountsRaisedInOrder' /\ WorkersHaveCounts'
    BY <1>2 DEF Distribute, CountsRaisedInOrder, WorkersHaveCounts, IOTypeOK
  <2>3. ListsDisjoint'
    BY <1>2 DEF Distribute, ListsDisjoint
  <2> QED
    BY <2>1, <2>2, <2>3
<1>3. CASE setIOPendingCount
  <2>1. CASE /\ next \in Thread
             /\ pending' = [pending EXCEPT ![next] = Cardinality(list[next])]
             /\ next' = next + 1
             /\ UNCHANGED main
    <3>1. Cardinality(list[next]) \in Nat
      BY <2>1, ListLength DEF IOTypeOK
    <3>2. IOTypeOK'
      BY <1>3, <2>1, <3>1 DEF setIOPendingCount, IOTypeOK
    <3>3. CountsRaisedInOrder'
      BY <1>3, <2>1, <3>1, <3>2
      DEF setIOPendingCount, IOTypeOK, CountsRaisedInOrder
    <3>4. WorkersHaveCounts'
      <4>1. tpc[next] \notin {"work", "emptied"}
        BY <1>3, <2>1 DEF setIOPendingCount, CountsRaisedInOrder,
                          WorkersHaveCounts, IOTypeOK
      <4> QED
        BY <1>3, <2>1, <4>1 DEF setIOPendingCount, WorkersHaveCounts, IOTypeOK
    <3>5. ListsDisjoint'
      BY <1>3 DEF setIOPendingCount, ListsDisjoint
    <3> QED
      BY <3>2, <3>3, <3>4, <3>5
  <2>2. CASE next \notin Thread /\ main' = "own" /\ UNCHANGED <<pending, next>>
    BY <1>3, <2>2 DEF setIOPendingCount, IOTypeOK, CountsRaisedInOrder,
                      WorkersHaveCounts, ListsDisjoint
  <2> QED
    BY <1>3, <2>1, <2>2 DEF setIOPendingCount
<1>4. ASSUME NEW c \in Client, ServeOwn(c) PROVE IInv'
  BY <1>4 DEF ServeOwn, IOTypeOK, CountsRaisedInOrder, WorkersHaveCounts,
              ListsDisjoint
<1>5. CASE OwnDone
  BY <1>5 DEF OwnDone, IOTypeOK, CountsRaisedInOrder, WorkersHaveCounts,
              ListsDisjoint
<1>6. CASE WaitDone
  BY <1>6 DEF WaitDone, IOTypeOK, CountsRaisedInOrder, WorkersHaveCounts,
              ListsDisjoint
<1>7. CASE stopBegin
  BY <1>7 DEF stopBegin, IOTypeOK, CountsRaisedInOrder, WorkersHaveCounts,
              ListsDisjoint
<1>8. CASE stopLock
  BY <1>8 DEF stopLock, IOTypeOK, CountsRaisedInOrder, WorkersHaveCounts,
              ListsDisjoint
<1>9. CASE stopDone
  BY <1>9, Zenon DEF stopDone, IOTypeOK, CountsRaisedInOrder, WorkersHaveCounts,
              ListsDisjoint
<1>10. ASSUME NEW t \in Thread,
              SeesWork(t) \/ SeesNothing(t) \/ TakesMutex(t) \/ ReleasesMutex(t)
       PROVE IInv'
  BY <1>10 DEF SeesWork, SeesNothing, TakesMutex, ReleasesMutex, IOTypeOK,
               CountsRaisedInOrder, WorkersHaveCounts, ListsDisjoint
<1>11. ASSUME NEW t \in Thread, EmptiesList(t) PROVE IInv'
  BY <1>11 DEF EmptiesList, IOTypeOK, CountsRaisedInOrder, WorkersHaveCounts,
               ListsDisjoint
<1>12. ASSUME NEW t \in Thread, DropsCount(t) PROVE IInv'
  BY <1>12 DEF DropsCount, IOTypeOK, CountsRaisedInOrder, WorkersHaveCounts,
               ListsDisjoint
<1>13. ASSUME NEW t \in Thread, NEW c \in Client, Serve(t, c) PROVE IInv'
  BY <1>13 DEF Serve, IOTypeOK, CountsRaisedInOrder, WorkersHaveCounts,
               ListsDisjoint
<1> QED
  BY <1>0, <1>1, <1>2, <1>3, <1>4, <1>5, <1>6, <1>7, <1>8, <1>9, <1>10,
     <1>11, <1>12, <1>13 DEF IONext

\* No client is touched by two threads, for every set of clients and every
\* number of I/O threads: the protocol of the counts in networking.c is enough.
THEOREM ThreadsExclude == IOSpec => []OneThreadPerClient
<1>1. IOSpec => []IInv
  BY InitEstablishes, StepPreserves, PTL DEF IOSpec
<1> QED
  BY <1>1, Exclusion, PTL
=============================================================================
