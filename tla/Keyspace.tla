------------------------------ MODULE Keyspace ------------------------------
(***************************************************************************)
(* The keyspace of one server (db.c, expire.c) and the propagation of      *)
(* commands to the append only file and to the replicas (server.c).        *)
(*                                                                         *)
(* A server is a record; every C function that changes server state is an  *)
(* operator from a server to a server.  The modules of the data types and  *)
(* of the clients are built on these operators.                            *)
(*                                                                         *)
(* Abstractions.  A key is <<database, name>>.  An object is <<type,       *)
(* value>>; its encoding is not part of it.  A command is the tuple <<name,*)
(* key, arguments>>, its argument vector after parsing.  DEL and UNLINK    *)
(* differ only in the thread that frees the value, and are both "del".     *)
(***************************************************************************)
EXTENDS Integers, Sequences, FiniteSets, TLC

LOCAL INSTANCE SequencesExt

CONSTANTS
  Dbs,    \* database numbers
  Names,  \* names of keys
  SecMs   \* milliseconds in a second

Key == Dbs \X Names

None == <<"none">>
NoTTL == -1
Type(o) == o[1]
Val(o) == o[2]

Targets == {"aof", "repl"}

(* The part of struct redisServer, redisDb and client the commands use.    *)
(* The fields from argv on belong to the command being executed.           *)
NewServer(role, clock) ==
  [db |-> [k \in Key |-> None], exp |-> [k \in Key |-> NoTTL],
   role |-> role, now |-> clock, loading |-> FALSE, paused |-> FALSE,
   slavekeys |-> {},
   caller |-> "client", argv |-> <<>>, readonly |-> FALSE,
   dirty |-> 0, flags |-> {}, also |-> <<>>, reply |-> <<>>,
   inexec |-> FALSE, inmulti |-> FALSE,
   aof |-> <<>>, repl |-> <<>>, touched |-> {}, ready |-> <<>>]

-----------------------------------------------------------------------------
(* Propagation *)

\* Mutant: times to live are written to the file as they came.
AofFormRelative(s, a) == a

(* EXPIRE, PEXPIRE, EXPIREAT and SET ... PX are written to the file with   *)
(* an absolute time.                                                       *)
AofForm(s, a) ==
  CASE a[1] = "expire"   -> <<"pexpireat", a[2], a[3] * SecMs + s.now>>
    [] a[1] = "pexpire"  -> <<"pexpireat", a[2], a[3] + s.now>>
    [] a[1] = "expireat" -> <<"pexpireat", a[2], a[3] * SecMs>>
    [] a[1] = "set" /\ a[4].unit = "px" ->
         [a EXCEPT ![4] = [@ EXCEPT !.unit = "pxat", !.ttl = @ + s.now]]
    [] OTHER -> a

(* A server that is loading feeds nothing, and a replica passes on to its  *)
(* own replicas what its master sends it, not what it executes.            *)
Feed(s, a, to) ==
  [s EXCEPT !.aof  = IF "aof" \in to /\ ~s.loading THEN Append(@, AofForm(s, a)) ELSE @,
            !.repl = IF "repl" \in to /\ ~s.loading /\ s.role = "master" THEN Append(@, a) ELSE @]

(* The first write of a transaction is preceded by MULTI. *)
propagate(s, a, to) ==
  Feed(IF s.inexec /\ ~s.inmulti THEN Feed([s EXCEPT !.inmulti = TRUE], <<"multi">>, Targets) ELSE s, a, to)

alsoPropagate(s, a, to) ==
  IF s.loading THEN s ELSE [s EXCEPT !.also = Append(@, <<a, to>>)]

(* A replica deletes no key on its own: its master sends it the DEL. *)
propagateExpire(s, k) == propagate(s, <<"del", {k}>>, Targets)

rewriteClientCommandVector(s, a) == [s EXCEPT !.argv = a]

forceCommandPropagation(s, to) == [s EXCEPT !.flags = @ \cup to]

preventCommandPropagation(s) == [s EXCEPT !.flags = @ \cup {"prevent"}]

-----------------------------------------------------------------------------
(* The dictionary of keys and the dictionary of expires *)

signalModifiedKey(s, k) == [s EXCEPT !.touched = @ \cup {k}]

signalKeyAsReady(s, k) ==
  IF k \in ToSet(s.ready) THEN s ELSE [s EXCEPT !.ready = Append(@, k)]

dbAdd(s, k, o) == signalKeyAsReady([s EXCEPT !.db[k] = o], k)

dbOverwrite(s, k, o) == [s EXCEPT !.db[k] = o]

dbDelete(s, k) == [s EXCEPT !.db[k] = None, !.exp[k] = NoTTL]

removeExpire(s, k) == [s EXCEPT !.exp[k] = NoTTL]

(* A writable replica has to expire by itself the keys its own clients     *)
(* gave a time to live.                                                    *)
setExpire(s, k, when) ==
  [s EXCEPT !.exp[k] = when,
            !.slavekeys = IF s.role = "slave" /\ s.caller = "client" THEN @ \cup {k} ELSE @]

keyIsExpired(s, k) == ~s.loading /\ s.exp[k] # NoTTL /\ s.now > s.exp[k]

\* Mutant: the clients that watch or cache an expired key are not told.
expireSilently(s, k) ==
  IF ~keyIsExpired(s, k) \/ s.role = "slave" \/ s.paused THEN s
  ELSE propagateExpire(dbDelete(s, k), k)

expireIfNeeded(s, k) ==
  IF ~keyIsExpired(s, k) \/ s.role = "slave" \/ s.paused THEN s
  ELSE signalModifiedKey(propagateExpire(dbDelete(s, k), k), k)

lookupKey(s, k) == s.db[k]

(* A key that is logically expired but still in the dictionary is not      *)
(* there for a client that reads a replica.                                *)
lookupKeyRead(s, k) ==
  IF /\ keyIsExpired(s, k)
     /\ s.role = "master" \/ (s.caller # "master" /\ s.readonly)
  THEN None ELSE lookupKey(s, k)

checkAlreadyExpired(s, when) == when <= s.now /\ ~s.loading /\ s.role = "master"

genericSetKey(s, k, o, keepttl, signal) ==
  LET t == expireIfNeeded(s, k)
      u == IF lookupKey(t, k) = None THEN dbAdd(t, k, o) ELSE dbOverwrite(t, k, o)
      w == IF keepttl THEN u ELSE removeExpire(u, k)
  IN IF signal THEN signalModifiedKey(w, k) ELSE w

setKey(s, k, o) == genericSetKey(s, k, o, FALSE, TRUE)

-----------------------------------------------------------------------------
(* What the code of every command shares *)

(* The members of a set in the order Before *)
Sorted(S, Before(_, _)) ==
  [i \in 1..Cardinality(S) |-> CHOOSE x \in S : Cardinality({y \in S : Before(y, x)}) = i - 1]

Reply(s, r) == [s EXCEPT !.reply = r]
WrongType(s) == Reply(s, <<"wrongtype">>)
Fail(s) == Reply(s, <<"error">>)

(* Count a change of the dataset. *)
Dirty(s, n) == [s EXCEPT !.dirty = @ + n]

(* signalModifiedKey and server.dirty++ at the end of a write *)
Modified(s, k, n) == Dirty(signalModifiedKey(s, k), n)

(* lookupKeyWrite and checkType: F is applied to the server and the value  *)
(* of the key, or to empty if there is no such key.                        *)
OnWrite(s, k, type, empty, F(_, _)) ==
  LET t == expireIfNeeded(s, k)
      o == lookupKey(t, k)
  IN CASE o = None       -> F(t, empty)
       [] Type(o) = type -> F(t, Val(o))
       [] OTHER          -> WrongType(t)

(* lookupKeyRead and checkType *)
OnRead(s, k, type, empty, F(_, _)) ==
  LET t == expireIfNeeded(s, k)
      o == lookupKeyRead(t, k)
  IN CASE o = None       -> F(t, empty)
       [] Type(o) = type -> F(t, Val(o))
       [] OTHER          -> WrongType(t)

(* Change the value of a key in place, creating the key if it is missing. *)
Put(s, k, o) == IF s.db[k] = None THEN dbAdd(s, k, o) ELSE dbOverwrite(s, k, o)

-----------------------------------------------------------------------------
(* Random elements of a collection of pairwise distinct members *)

(* n draws without putting back, with order as the order of the draws *)
Draw(members, n, order) == SubSeq(SelectSeq(order, LAMBDA e : e \in members), 1, n)

(* How SRANDMEMBER, HRANDFIELD and ZRANDMEMBER sample: with repetition,    *)
(* the whole collection, by removing members until count are left, or by   *)
(* drawing until count different ones have come.                           *)
SampleMul == 3
RandomSample(members, l, order) ==
  LET size == Cardinality(members)
      count == IF l < 0 THEN -l ELSE l
      first == Head(Draw(members, 1, order))
  IN IF count = 0 \/ size = 0 THEN <<>>
     ELSE IF l < 0 \/ count = 1 THEN [i \in 1..count |-> first]
     ELSE IF count >= size THEN SetToSeq(members)
     ELSE IF count * SampleMul > size
     THEN SetToSeq(members \ ToSet(Draw(members, size - count, order)))
     ELSE Draw(members, count, order)
=============================================================================
