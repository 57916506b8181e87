---------------------------- MODULE MCNetworking ----------------------------
(* Networking for TLC: one I/O thread beside the main thread, and two clients *)
(* with short pipelines.  PendingPerThread is 1 instead of 2, so that two     *)
(* clients are enough for the threads to be started and stopped.              *)
EXTENDS Networking

CONSTANTS a, b

\* Blocking, waking, closing and killing between two clients.
Quiet == [doReads |-> TRUE, maxclients |-> 2, limit |-> 9, qblimit |-> 9,
          faults |-> 0, idle |-> {}, pipeline |-> (a :> <<>> @@ b :> <<>>)]

With(pa, pb) == [Quiet EXCEPT !.pipeline = (a :> pa @@ b :> pb)]

MCEnvironments ==
  { With(<<"get", "get">>, <<"get", "get">>),
    With(<<"block", "get">>, <<"get", "wake">>),
    With(<<"get", "kill">>, <<"get", "block">>),
    With(<<"pause", "unpause">>, <<"set", "get">>),
    With(<<"get", "quit">>, <<"get", "bad">>),
    [With(<<"get", "get">>, <<"get">>) EXCEPT !.faults = 1],
    [With(<<"get", "get">>, <<"get">>) EXCEPT !.limit = 2, !.faults = 1],
    [With(<<"get", "get">>, <<"get">>) EXCEPT !.qblimit = 2, !.idle = {a}],
    [With(<<"get", "get">>, <<"get">>) EXCEPT !.maxclients = 1],
    [With(<<"get", "get">>, <<"get", "get">>) EXCEPT !.doReads = FALSE] }
=============================================================================
