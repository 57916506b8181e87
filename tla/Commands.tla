------------------------------ MODULE Commands ------------------------------
(***************************************************************************)
(* The commands of a master, the replica that applies the stream of its    *)
(* commands late, and the server that will load its append only file.      *)
(*                                                                         *)
(* A scenario is a record: the commands that set the dataset up, those     *)
(* clients may then send, how many of them, how often the clock advances,  *)
(* whether keys may be evicted and the dataset is saved, and the queries   *)
(* whose answers are checked.                                              *)
(***************************************************************************)
EXTENDS Server

LOCAL INSTANCE SequencesExt
LOCAL INSTANCE FiniteSetsExt
LOCAL INSTANCE Functions

CONSTANTS
  Scenarios,  \* what clients do, by the name of the scenario
  LoadDelay   \* how long after a write the file is loaded, in milliseconds

VARIABLES
  m,       \* the master
  r,       \* the replica
  f,       \* the dataset a server has after loading the file
  stream,  \* sent to the replica and not yet applied
  env      \* the name of the scenario and what is left of its budgets

(* What clients do.  (TLC evaluates a definition once, and the value of a  *)
(* constant whenever it is used.)                                          *)
Script == Scenarios

vars == <<m, r, f, stream, env>>

-----------------------------------------------------------------------------
(* Commands one after the other.  (Asked for the domain of t, TLC finds    *)
(* out what t is before it turns to the command.)                          *)
Calls(s, q) ==
  FoldLeft(LAMBDA t, a : IF DOMAIN t = {} THEN t ELSE Settled(call(t, a)), s, q)

(* processCommand for the link with the master, and loadAppendOnlyFile:    *)
(* the commands of a transaction are executed at EXEC.                     *)
ApplyAll(s, q) == Calls(s, SelectSeq(q, LAMBDA a : a[1] \notin {"multi", "exec"}))

(* The commands at the head of the stream that are applied together *)
Unit(q) == IF Head(q)[1] # "multi" THEN <<Head(q)>>
           ELSE SubSeq(q, 1, SelectInSeq(q, LAMBDA a : a[1] = "exec"))

Forget(s) == [s EXCEPT !.aof = <<>>, !.repl = <<>>, !.touched = {}, !.ready = <<>>]

(* What a step of the master sends to the replica and writes to the file *)
Send(t) ==
  /\ m' = [Settled(t) EXCEPT !.aof = <<>>, !.repl = <<>>]
  /\ stream' = stream \o t.repl
  /\ f' = Forget(ApplyAll([f EXCEPT !.now = t.now + LoadDelay], t.aof))

Do(a) == call([m EXCEPT !.touched = {}, !.ready = <<>>], a)

-----------------------------------------------------------------------------
Init ==
  /\ \E n \in DOMAIN Script : LET c == Script[n] IN
       env = [name |-> n, steps |-> c.steps, ticks |-> c.ticks, evict |-> c.evict, save |-> c.save]
  /\ LET c == Script[env.name]
         t == Calls(NewServer("master", c.clock), c.setup)
         loader == [NewServer("master", c.clock + LoadDelay) EXCEPT !.loading = TRUE, !.caller = "aof"]
         replica == [NewServer("slave", c.clock) EXCEPT !.caller = "master"]
     IN /\ m = Forget(t)
        /\ r = Forget(ApplyAll(replica, t.repl))
        /\ f = Forget(ApplyAll(loader, t.aof))
  /\ stream = <<>>

(* A client's command *)
Execute(a) ==
  /\ env.steps > 0
  /\ env' = [env EXCEPT !.steps = @ - 1]
  /\ Send(Do(a))
  /\ UNCHANGED r

ReplicaApplies ==
  /\ stream # <<>>
  /\ r' = Forget(ApplyAll(r, Unit(stream)))
  /\ stream' = SubSeq(stream, Len(Unit(stream)) + 1, Len(stream))
  /\ UNCHANGED <<m, f, env>>

Tick ==
  /\ env.ticks > 0
  /\ env' = [env EXCEPT !.ticks = @ - 1]
  /\ m' = [m EXCEPT !.now = @ + 1, !.touched = {}, !.ready = <<>>]
  /\ r' = [r EXCEPT !.now = @ + 1]
  /\ UNCHANGED <<f, stream>>

(* serverCron expires a key, or reclaims memory. *)
activeExpireCycle(k) ==
  /\ m.exp[k] # NoTTL /\ m.now > m.exp[k]
  /\ Send(activeExpireCycleTryExpire([m EXCEPT !.touched = {}, !.ready = <<>>], k))
  /\ UNCHANGED <<r, env>>

performEvictions(k) ==
  /\ env.evict /\ m.db[k] # None
  /\ env' = [env EXCEPT !.evict = FALSE]
  /\ Send(signalModifiedKey(dbDelete(propagateExpire([m EXCEPT !.touched = {}, !.ready = <<>>], k), k), k))
  /\ UNCHANGED r

(* The replica asks for the whole dataset again, as an RDB file: the       *)
(* master is responsible for the keys in it that have expired.             *)
FullResync(enc) ==
  /\ env.save = "yes"
  /\ env' = [env EXCEPT !.save = "done"]
  /\ r' = Forget(rdbLoadRio(emptyDb(r, Dbs), rdbSaveRio(m, enc), FALSE))
  /\ stream' = <<>>
  /\ UNCHANGED <<m, f>>

(* The file is rewritten: as commands, or (aof-use-rdb-preamble) as an RDB *)
(* file with commands after it.                                            *)
rewriteAppendOnlyFile(form) ==
  /\ env.save = "yes"
  /\ env' = [env EXCEPT !.save = "done"]
  /\ LET empty == emptyDb(f, Dbs)
     IN f' = Forget(IF form = "commands" THEN ApplyAll(empty, rewriteAppendOnlyFileRio(m))
                    ELSE rdbLoadRio(empty, rdbSaveRio(m, form), TRUE))
  /\ UNCHANGED <<m, r, stream>>

Next ==
  \/ \E a \in Script[env.name].cmds : Execute(a)
  \/ ReplicaApplies
  \/ Tick
  \/ \E k \in Key : activeExpireCycle(k)
  \/ \E k \in Key : performEvictions(k)
  \/ \E enc \in Encodings : FullResync(enc)
  \/ \E form \in Encodings \cup {"commands"} : rewriteAppendOnlyFile(form)

Spec == Init /\ [][Next]_vars

-----------------------------------------------------------------------------
(* The values of b are those of a. *)
SameValues(a, b) == \A k \in Key : View(b.db[k]) = View(a.db[k])

(* What a rewritten file rebuilds of a value: XCLAIM makes no pending      *)
(* entry of a message that was deleted.                                    *)
Rebuilt(o) ==
  IF Type(o) # "stream" THEN View(o)
  ELSE LET v == StreamView(Val(o))
           owned(g) == Restrict(v.groups[g].owner, DOMAIN v.groups[g].owner \cap ToSet(v.entries))
       IN <<"stream", [v EXCEPT !.groups = [g \in DOMAIN v.groups |-> [v.groups[g] EXCEPT !.owner = owned(g)]]]>>

(* A server that starts from an RDB file of m has what m would answer. *)
RdbHolds(enc) ==
  LET t == rdbLoadRio(NewServer("master", m.now), rdbSaveRio(m, enc), FALSE)
  IN \A k \in Key : /\ t.db[k] = lookupKeyRead(m, k)
                     /\ t.exp[k] = IF t.db[k] = None THEN NoTTL ELSE m.exp[k]

(* A replica that has applied the stream, and a server that loads the      *)
(* append only file at any time, hold the dataset.  A command that draws   *)
(* at random, reads the clock, trims approximately or depends on a         *)
(* configuration is propagated (rewriteClientCommandVector, alsoPropagate, *)
(* streamPropagateXCLAIM) as what it did; no command is missing from the   *)
(* file (feedAppendOnlyFile) and no time to live in it starts again with   *)
(* the load (catAppendOnlyExpireAtCommand).  On the replica a key expires  *)
(* no earlier than on the master.  The same holds for a replica that is    *)
(* sent the dataset as an RDB file (rdbSaveRio), for a file that was       *)
(* rewritten (rewriteAppendOnlyFileRio), and for a restart from the RDB.   *)
CopiesFollow ==
  /\ stream = <<>> =>
       /\ SameValues(m, r)
       /\ \A k \in Key : /\ (r.exp[k] = NoTTL) <=> (m.exp[k] = NoTTL)
                         /\ r.exp[k] >= m.exp[k]
  /\ f.exp = m.exp
  /\ IF env.save = "done" THEN \A k \in Key : Rebuilt(f.db[k]) = Rebuilt(m.db[k]) ELSE SameValues(m, f)
  /\ env.save = "yes" => \A enc \in Encodings : RdbHolds(enc)

(* What WATCH and the client side caches see of a value: the entries of a  *)
(* stream, but not its groups.                                             *)
Watched(o) == IF Type(o) = "stream" THEN <<"stream", Entries(Val(o))>> ELSE View(o)

(* A key whose value or time to live changes is signalled to the clients   *)
(* that watch or cache it (signalModifiedKey), and a key that appears to   *)
(* the clients blocked on it (signalKeyAsReady).                           *)
ChangesAreSignalled ==
  [][\A k \in Key :
       /\ Watched(m.db[k]) # Watched(m'.db[k]) \/ m.exp[k] # m'.exp[k] => k \in m'.touched
       /\ m.db[k] = None /\ Type(m'.db[k]) \in {"list", "zset", "stream"} => k \in ToSet(m'.ready)]_vars

-----------------------------------------------------------------------------
(* What the answers of the commands with an algorithm of their own mean *)

Value0(s, k, empty) == IF lookupKeyRead(s, k) = None THEN empty ELSE Val(lookupKeyRead(s, k))

(* The elements of q from index first to index last, in order *)
Slice(q, first, last) ==
  LET index(i) == IF i < 0 THEN Len(q) + i ELSE i
      at == {p \in 1..Len(q) : index(first) <= p - 1 /\ p - 1 <= index(last)}
  IN [i \in 1..Cardinality(at) |-> q[Min(at) + i - 1]]

Subsequences(q) == {[i \in 1..Cardinality(I) |-> q[Sorted(I, LAMBDA x, y : x < y)[i]]] : I \in SUBSET (1..Len(q))}

(* STRALGO LCS: a longest common subsequence, and the ranges of its runs *)
IsLcs(a, b, res, ranges) ==
  LET common == Subsequences(a) \cap Subsequences(b)
      at == UNION {{<<x[1] + i, x[3] + i>> : i \in 0..(x[2] - x[1])} : x \in ToSet(ranges)}
  IN /\ res \in common /\ \A c \in common : Len(c) <= Len(res)
     /\ Cardinality(at) = Len(res)
     /\ \A p \in at : a[p[1]] = b[p[2]]
     /\ \A p \in at, q \in at : p[1] < q[1] <=> p[2] < q[2]

(* BITFIELD: the exact result when it fits the type; else what the kind of *)
(* overflow asks for                                                       *)
BitfieldResult(b, o) ==
  LET low == IF o.sign THEN -(2 ^ (o.bits - 1)) ELSE 0
      high == IF o.sign THEN 2 ^ (o.bits - 1) - 1 ELSE 2 ^ o.bits - 1
      raw == MapThenSumSet(LAMBDA i : Bit(b, o.offset + i) * 2 ^ (o.bits - 1 - i), 0..(o.bits - 1))
      old == IF o.sign /\ raw > high THEN raw - 2 ^ o.bits ELSE raw
      exact == old + o.arg
  IN IF exact \in low..high THEN <<"int", exact>>
     ELSE CASE o.ow = "fail" -> <<"nil">>
            [] o.ow = "sat"  -> <<"int", IF exact > high THEN high ELSE low>>
            [] o.ow = "wrap" -> <<"int", CHOOSE v \in low..high : (v - exact) % 2 ^ o.bits = 0>>

(* The members in a range of scores or of names, as ZRANGE orders them *)
InRange(z, range) ==
  LET q == Swapped(range)
      v(e) == IF q.by = "lex" THEN e ELSE z[e]
      in == {e \in DOMAIN z : ValueGteMin(v(e), q) /\ ValueLteMax(v(e), q)}
      seq == Sorted(in, LAMBDA x, y : z[x] < z[y] \/ (z[x] = z[y] /\ x < y))
      all == IF q.rev THEN Reverse(seq) ELSE seq
      n == Len(all) - q.offset
  IN IF n <= 0 THEN <<>> ELSE SubSeq(all, q.offset + 1, q.offset + (IF q.limit < 0 THEN n ELSE Min({n, q.limit})))

(* A random sample of count members: different ones, or -count of any *)
IsSample(sample, members, count) ==
  /\ ToSet(sample) \subseteq members
  /\ IF count >= 0 THEN IsInjective(sample) /\ Len(sample) = Min({count, Cardinality(members)})
     ELSE Len(sample) = IF members = {} THEN 0 ELSE -count

(* The members of sorted sets combined, the score of a missing one aside *)
ZsetOp(op, zs) ==
  LET first == DOMAIN zs[1]
      others == UNION {DOMAIN zs[i] : i \in 2..Len(zs)}
  IN CASE op = "zinter" -> {e \in first : \A i \in DOMAIN zs : e \in DOMAIN zs[i]}
       [] op = "zunion" -> first \cup others
       [] op = "zdiff"  -> first \ others

(* The entries of a stream between two IDs *)
Between(st, start, end, startex, endex) ==
  Sorted({i \in ToSet(Entries(st)) : /\ ~Smaller(i, start) /\ ~Smaller(end, i)
                                     /\ ~(startex /\ i = start) /\ ~(endex /\ i = end)}, Smaller)

(* Whether ans is the right answer to the query a *)
RightAnswer(s, a, ans) ==
  CASE a[1] = "stralgo" ->
         IsLcs(Value0(s, a[2], <<>>), Value0(s, a[3], <<>>), ans[2], ans[3])
    [] a[1] = "bitfield" ->
         LET o == a[3][1] IN ans = <<BitfieldResult(GrowZero(Value0(s, a[2], <<>>), MaxBulk), o)>>
    [] a[1] = "bitpos" ->
         LET b == Value0(s, a[2], <<>>)
             index(i) == IF i < 0 THEN Max({Len(b) + i, 0}) ELSE i
             end == IF a[5] = <<>> THEN Len(b) - 1 ELSE index(a[5][1])
             bytes == {i \in 0..(Len(b) - 1) : i >= index(a[4]) /\ i <= end}
             hit == {i \in 0..(Len(b) * ByteBits - 1) : i \div ByteBits \in bytes /\ Bit(b, i) = a[3]}
         IN ans = <<"int", IF hit # {} THEN Min(hit)
                           ELSE IF a[3] = 0 /\ (b = <<>> \/ (a[5] = <<>> /\ bytes # {})) THEN Len(b) * ByteBits
                           ELSE -1>>
    [] a[1] = "lrange" -> ans = <<"array", Slice(Value0(s, a[2], <<>>), a[3], a[4])>>
    [] a[1] = "lpos" ->
         LET l == Value0(s, a[2], <<>>)
             n == Len(l)
             seen == {i \in 1..n : a[6] = 0 \/ (IF a[4] > 0 THEN i ELSE n + 1 - i) <= a[6]}
             hits == Sorted({i \in seen : l[i] = a[3]}, LAMBDA i, j : IF a[4] > 0 THEN i < j ELSE i > j)
             rest == SubSeq(hits, Magnitude(a[4]), Len(hits))
             out == IF a[5] = 0 THEN rest ELSE SubSeq(rest, 1, Min({Len(rest), IF a[5] = -1 THEN 1 ELSE a[5]}))
         IN ans = <<"array", [i \in DOMAIN out |-> out[i] - 1]>>
    [] a[1] = "srandmember" -> IsSample(ans[2], Value0(s, a[2], {}), a[3])
    [] a[1] = "zrandmember" -> IsSample(ans[2], DOMAIN Value0(s, a[2], <<>>), a[3])
    [] a[1] = "hrandfield" -> IsSample(ans[2], DOMAIN Value0(s, a[2], <<>>), a[3])
    [] a[1] = "sinter" -> ans = <<"set", {e \in SetAt(s, a[2][1]) : \A i \in DOMAIN a[2] : e \in SetAt(s, a[2][i])}>>
    [] a[1] = "sdiff" -> ans = <<"set", SetAt(s, a[2][1]) \ UNION {SetAt(s, a[2][i]) : i \in 2..Len(a[2])}>>
    [] a[1] = "zrange" ->
         LET z == Value0(s, a[2], <<>>)
         IN ans = <<"array", IF a[3].by = "rank" THEN Slice(IF a[3].rev THEN Reverse(Ranked(z)) ELSE Ranked(z), a[3].lo, a[3].hi)
                         ELSE InRange(z, a[3])>>
    [] a[1] = "zcount" -> ans = <<"int", Len(InRange(Value0(s, a[2], <<>>), a[3]))>>
    [] a[1] \in {"zinter", "zunion", "zdiff"} ->
         LET zs == [i \in DOMAIN a[3] |-> Source(s, a[3][i], 1).z]
         IN /\ DOMAIN ans[2] = ZsetOp(a[1], zs)
            /\ a[1] = "zdiff" => \A e \in DOMAIN ans[2] : ans[2][e] = zs[1][e]
            /\ a[1] # "zdiff" /\ a[5] = "max" /\ (\A i \in DOMAIN a[4] : a[4][i] = 1) =>
                 \A e \in DOMAIN ans[2] :
                   ans[2][e] = Max({zs[i][e] : i \in {j \in DOMAIN zs : e \in DOMAIN zs[j]}})
    [] a[1] = "geosearch" ->
         LET z == Value0(s, a[2], <<>>)
             d(e) == geohashGetDistance(a[3].xy, decodeGeohash(z[e]))
             all == {e \in DOMAIN z : geohashGetDistanceIfInShape(a[3], decodeGeohash(z[e]))}
             n == IF a[4].count = 0 THEN Cardinality(all) ELSE Min({a[4].count, Cardinality(all)})
         IN /\ IsInjective(ans[2]) /\ Len(ans[2]) = n /\ ToSet(ans[2]) \subseteq all
            /\ ~a[4].any /\ a[4].sort # "desc" => \A e \in ToSet(ans[2]), g \in all \ ToSet(ans[2]) : d(e) <= d(g)
    [] a[1] = "xrange" ->
         ans = <<"ids", Truncate(Between(Value0(s, a[2], streamNew), a[3], a[4], a[5], a[6]), a[7])>>
    [] a[1] = "xrevrange" ->
         ans = <<"ids", Truncate(Reverse(Between(Value0(s, a[2], streamNew), a[3], a[4], a[5], a[6])), a[7])>>
    [] a[1] = "xautoclaim" ->
         LET pel == Value0(s, a[2], streamNew).groups[a[3]].pel
             idle == {i \in DOMAIN pel : ~Smaller(i, a[6]) /\ s.now - pel[i][2] >= a[5]}
         IN /\ ToSet(ans[3]) = {i \in idle : ans[2] = MinId \/ Smaller(i, ans[2])}
            /\ Len(ans[3]) <= a[7] /\ (Len(ans[3]) < a[7] => ans[2] = MinId)
    [] a[1] = "xinfo" ->
         \A g \in DOMAIN ans[2].groups : LET cg == ans[2].groups[g] IN
           cg.count = FoldSet(LAMBDA c, n : n + Len(cg.consumers[c]), 0, DOMAIN cg.consumers)
    [] a[1] = "pfcount" ->
         ans = <<"card", [x \in Registers |->
                            Max({0} \cup {RegistersOf(Val(lookupKeyRead(s, a[2][i])))[x] :
                                         i \in {j \in DOMAIN a[2] : lookupKeyRead(s, a[2][j]) # None}})]>>
    [] a[1] = "sort" ->
         LET q == ans[2]
             o == a[3]
             all == ElementsOf(lookupKeyRead(s, a[2]))
             count(p, e) == Cardinality({i \in DOMAIN p : p[i] = e})
             after(e, g) == sortCompare(s, o.by, g, e, FALSE)
         IN /\ o.count < 0 /\ o.offset = 0 => Len(q) = Len(all) /\ \A e \in ToSet(all) : count(q, e) = count(all, e)
            /\ \A i \in 1..(Len(q) - 1) : IF o.desc THEN ~after(q[i + 1], q[i]) ELSE ~after(q[i], q[i + 1])
    [] a[1] \in {"keys", "scan"} ->
         ans = <<"keys", {k \in KeysOf(s, a[2]) : s.exp[k] = NoTTL \/ s.now <= s.exp[k]}>>

(* The commands with an algorithm of their own answer what their           *)
(* definition says: the longest common subsequence, bit fields that        *)
(* overflow, ranges and counts found from both ends, set operations with   *)
(* two algorithms each, samples, the areas of a geo search, the nodes of a *)
(* stream and the cursor of XAUTOCLAIM, the order of SORT.                 *)
AnswersAreRight ==
  \A a \in Script[env.name].reads : LET ans == call(m, a).reply
                       IN (Len(ans) = 1 /\ a[1] # "bitfield") \/ RightAnswer(m, a, ans)

=============================================================================
