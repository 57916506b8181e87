-------------------------------- MODULE TZset -------------------------------
(***************************************************************************)
(* The sorted set commands (t_zset.c) and the geo commands (geo.c).        *)
(*                                                                         *)
(* A sorted set is a function from members to scores.  Scores are integers *)
(* between the infinities; NaN is what the sum of opposite infinities is.  *)
(* Members are integers, ordered as their strings would be.  A range is a  *)
(* record with its two ends, as the command gives them, and whether each   *)
(* end is excluded.  Walks are those of the packed encoding: by-lex walks  *)
(* of a set whose scores differ depend on the encoding.                    *)
(***************************************************************************)
EXTENDS Keyspace

LOCAL INSTANCE SequencesExt
LOCAL INSTANCE FiniteSetsExt

Inf == 99
NaN == 1000
IsInf(x) == x \in {Inf, -Inf}

Plus(x, y) == IF IsInf(x) THEN (IF y = -x THEN NaN ELSE x)
              ELSE IF IsInf(y) THEN y ELSE x + y

Times(w, x) == IF w = 0 \/ x = 0 THEN (IF IsInf(w) \/ IsInf(x) THEN NaN ELSE 0)
               ELSE IF IsInf(w) \/ IsInf(x) THEN (IF (w > 0) = (x > 0) THEN Inf ELSE -Inf)
               ELSE w * x

Zset(z) == <<"zset", z>>

(* The members in the order of the set: by score, then by name *)
Ranked(z) == Sorted(DOMAIN z, LAMBDA x, y : z[x] < z[y] \/ (z[x] = z[y] /\ x < y))

Without(z, ms) == [m \in DOMAIN z \ ms |-> z[m]]

-----------------------------------------------------------------------------
(* ZADD and ZINCRBY *)

(* The outcome of adding one member: the set, and what happened to it *)
zsetAdd(z, score, m, flags) ==
  LET there == m \in DOMAIN z
      new == IF "incr" \in flags /\ there THEN Plus(z[m], score) ELSE score
  IN IF (there /\ "nx" \in flags) \/ (~there /\ "xx" \in flags) THEN <<z, "nop", 0>>
     ELSE IF new = NaN THEN <<z, "nan", 0>>
     ELSE IF ~there THEN <<(m :> new) @@ z, "added", new>>
     ELSE IF ("lt" \in flags /\ new >= z[m]) \/ ("gt" \in flags /\ new <= z[m]) THEN <<z, "nop", 0>>
     ELSE IF new = z[m] THEN <<z, "same", new>>
     ELSE <<[z EXCEPT ![m] = new], "updated", new>>

CompatibleFlags(flags, pairs) ==
  /\ \A p \in {{"nx", "xx"}, {"nx", "gt"}, {"nx", "lt"}, {"gt", "lt"}} : ~p \subseteq flags
  /\ "incr" \in flags => Len(pairs) = 1

(* <<"zadd", k, flags, pairs>>, the pairs being <<score, member>> *)
zaddGenericCommand(s, k, flags, pairs) ==
  LET add(r, p) == LET q == zsetAdd(r[1], p[1], p[2], flags)
                   IN <<q[1], Append(r[2], q[2]), q[3]>>
      count(outs, what) == Len(SelectSeq(outs, LAMBDA o : o \in what))
      run(t, z) ==
        LET r == FoldLeft(add, <<z, <<>>, 0>>, pairs)
            changed == count(r[2], {"added", "updated"})
            u == Dirty(Put(t, k, Zset(r[1])), changed)
            w == IF changed > 0 THEN signalModifiedKey(u, k) ELSE u
        IN IF z = <<>> /\ "xx" \in flags
           THEN Reply(t, IF "incr" \in flags THEN <<"nil">> ELSE <<"int", 0>>)
           ELSE IF "nan" \in ToSet(r[2]) THEN Fail(t)
           ELSE Reply(w, IF "incr" \in flags
                         THEN (IF count(r[2], {"nop"}) = 0 THEN <<"double", r[3]>> ELSE <<"nil">>)
                         ELSE <<"int", IF "ch" \in flags THEN changed ELSE count(r[2], {"added"})>>)
  IN IF CompatibleFlags(flags, pairs) THEN OnWrite(s, k, "zset", <<>>, run) ELSE Fail(s)

zaddCommand(s, a) == zaddGenericCommand(s, a[2], a[3], a[4])
zincrbyCommand(s, a) == zaddGenericCommand(s, a[2], {"incr"}, <<<<a[3], a[4]>>>>)

(* The set is deleted with its last member. *)
MembersRemoved(s, k, z, gone) ==
  LET u == IF DOMAIN z \subseteq gone THEN dbDelete(s, k) ELSE Put(s, k, Zset(Without(z, gone)))
  IN IF gone = {} THEN s ELSE Modified(u, k, Cardinality(gone))

zremCommand(s, a) ==
  LET rem(t, z) == LET gone == a[3] \cap DOMAIN z
                   IN Reply(MembersRemoved(t, a[2], z, gone), <<"int", Cardinality(gone)>>)
  IN OnWrite(s, a[2], "zset", <<>>, rem)

-----------------------------------------------------------------------------
(* Ranges.  A range has by ("rank", "score" or "lex"), its ends lo and hi  *)
(* in the order of the command, loex and hiex, rev, offset and limit.      *)

Range0(by, lo, hi, loex, hiex) ==
  [by |-> by, lo |-> lo, hi |-> hi, loex |-> loex, hiex |-> hiex,
   rev |-> FALSE, offset |-> 0, limit |-> -1]

(* With REV the ends are given as the greatest and the least. *)
Swapped(r) == IF r.rev /\ r.by # "rank"
              THEN [r EXCEPT !.lo = r.hi, !.hi = r.lo, !.loex = r.hiex, !.hiex = r.loex] ELSE r

ValueGteMin(v, r) == IF r.loex THEN v > r.lo ELSE v >= r.lo
ValueLteMax(v, r) == IF r.hiex THEN v < r.hi ELSE v <= r.hi

zslIsInRange(vals, r) ==
  /\ ~(r.lo > r.hi \/ (r.lo = r.hi /\ (r.loex \/ r.hiex)))
  /\ vals # <<>> /\ ValueGteMin(Last(vals), r) /\ ValueLteMax(Head(vals), r)

(* The position of the first (the last, when reverse) element in range, or *)
(* 0: it is the first that passes one end, if it passes the other too.     *)
FirstInRange(vals, r) ==
  LET i == SelectInSeq(vals, LAMBDA v : ValueGteMin(v, r))
  IN IF ~zslIsInRange(vals, r) \/ i = 0 THEN 0 ELSE IF ValueLteMax(vals[i], r) THEN i ELSE 0
LastInRange(vals, r) ==
  LET i == SelectLastInSeq(vals, LAMBDA v : ValueLteMax(v, r))
  IN IF ~zslIsInRange(vals, r) \/ i = 0 THEN 0 ELSE IF ValueGteMin(vals[i], r) THEN i ELSE 0

(* ZRANGE and ZREVRANGE by rank *)
genericZrangebyrankCommand(z, r) ==
  LET n == Cardinality(DOMAIN z)
      start == IF r.lo < 0 THEN Max({n + r.lo, 0}) ELSE r.lo
      end == Min({IF r.hi < 0 THEN n + r.hi ELSE r.hi, n - 1})
      seq == IF r.rev THEN Reverse(Ranked(z)) ELSE Ranked(z)
  IN IF start > end THEN <<>> ELSE SubSeq(seq, start + 1, end + 1)

(* By score and by lex: skip offset elements from the first one in range,  *)
(* then take elements up to limit while they are in range.  A negative     *)
(* offset skips them all, a negative limit takes them all.                 *)
genericZrangebyscoreCommand(z, q) ==
  LET r == Swapped(q)
      seq == Ranked(z)  n == Len(seq)
      vals == [i \in 1..n |-> IF r.by = "lex" THEN seq[i] ELSE z[seq[i]]]
      first == IF r.rev THEN LastInRange(vals, r) ELSE FirstInRange(vals, r)
      walk == IF first = 0 THEN <<>>
              ELSE IF r.rev THEN Reverse(SubSeq(seq, 1, first)) ELSE SubSeq(seq, first, n)
      in(m) == LET v == IF r.by = "lex" THEN m ELSE z[m]
               IN IF r.rev THEN ValueGteMin(v, r) ELSE ValueLteMax(v, r)
      rest == IF r.offset < 0 THEN <<>> ELSE SubSeq(walk, r.offset + 1, Len(walk))
      stop == SelectInSeq(rest, LAMBDA m : ~in(m))
      inside == IF stop = 0 THEN rest ELSE SubSeq(rest, 1, stop - 1)
  IN IF r.limit < 0 THEN inside ELSE SubSeq(inside, 1, Min({r.limit, Len(inside)}))

RangeOf(z, r) == IF r.by = "rank" THEN genericZrangebyrankCommand(z, r)
                 ELSE genericZrangebyscoreCommand(z, r)

(* ZRANGE and its ancestors *)
zrangeCommand(s, a) ==
  IF a[3].limit # -1 /\ a[3].by = "rank" THEN Fail(s)
  ELSE OnRead(s, a[2], "zset", <<>>, LAMBDA t, z : Reply(t, <<"array", RangeOf(z, a[3])>>))

(* A result replaces the destination, or removes it when it is empty. *)
StoreZset(s, dst, z) ==
  IF DOMAIN z # {}
  THEN Reply(Dirty(setKey(s, dst, Zset(z)), 1), <<"int", Cardinality(DOMAIN z)>>)
  ELSE IF lookupKey(s, dst) = None THEN Reply(s, <<"int", 0>>)
  ELSE Reply(Modified(dbDelete(s, dst), dst, 1), <<"int", 0>>)

(* <<"zrangestore", destination, source, range>> *)
zrangestoreCommand(s, a) ==
  LET store(t, z) == StoreZset(t, a[2], [m \in ToSet(RangeOf(z, a[4])) |-> z[m]])
  IN IF a[4].limit # -1 /\ a[4].by = "rank" THEN Fail(s)
     ELSE OnWrite(s, a[3], "zset", <<>>, store)

(* ZREMRANGEBYRANK, ZREMRANGEBYSCORE and ZREMRANGEBYLEX *)
zremrangeGenericCommand(s, a) ==
  LET rem(t, z) == LET gone == ToSet(RangeOf(z, a[3]))
                   IN Reply(MembersRemoved(t, a[2], z, gone), <<"int", Cardinality(gone)>>)
  IN OnWrite(s, a[2], "zset", <<>>, rem)

(* ZCOUNT and ZLEXCOUNT, by the ranks of the first and the last in range *)
zcountCommand(s, a) ==
  LET count(z) ==
        LET seq == Ranked(z)  n == Len(seq)
            vals == [i \in 1..n |-> IF a[3].by = "lex" THEN seq[i] ELSE z[seq[i]]]
            first == FirstInRange(vals, a[3])  last == LastInRange(vals, a[3])
        IN IF first = 0 THEN 0 ELSE (n - (first - 1)) - (IF last = 0 THEN 0 ELSE n - last)
  IN OnRead(s, a[2], "zset", <<>>, LAMBDA t, z : Reply(t, <<"int", count(z)>>))

zmscoreCommand(s, a) ==
  LET score(z, m) == IF m \in DOMAIN z THEN <<"double", z[m]>> ELSE <<"nil">>
  IN OnRead(s, a[2], "zset", <<>>,
            LAMBDA t, z : Reply(t, <<"array", [i \in DOMAIN a[3] |-> score(z, a[3][i])]>>))

zsetRank(z, m, reverse) ==
  LET rank == SelectInSeq(Ranked(z), LAMBDA x : x = m)
  IN IF reverse THEN Cardinality(DOMAIN z) - rank ELSE rank - 1

zrankGenericCommand(s, a, reverse) ==
  OnRead(s, a[2], "zset", <<>>,
         LAMBDA t, z : Reply(t, IF a[3] \in DOMAIN z THEN <<"int", zsetRank(z, a[3], reverse)>>
                                ELSE <<"nil">>))

-----------------------------------------------------------------------------
(* ZUNIONSTORE, ZINTERSTORE, ZDIFFSTORE and their plain forms *)

zunionInterAggregate(x, y, aggregate) ==
  CASE aggregate = "sum" -> (IF y = NaN \/ Plus(x, y) = NaN THEN 0 ELSE Plus(x, y))
    [] aggregate = "min" -> (IF y # NaN /\ y < x THEN y ELSE x)
    [] aggregate = "max" -> (IF y # NaN /\ y > x THEN y ELSE x)

Weighted(w, x) == IF Times(w, x) = NaN THEN 0 ELSE Times(w, x)

(* A source is a key's sorted set, or its set with score 1, and a weight. *)
Source(s, k, w) ==
  LET o == lookupKeyRead(s, k)
  IN [key |-> k, weight |-> w,
      z |-> CASE Type(o) = "none" -> <<>>
              [] Type(o) = "set"  -> [m \in Val(o) |-> 1]
              [] Type(o) = "zset" -> Val(o)]
Size(src) == Cardinality(DOMAIN src.z)

(* qsort by cardinality, which leaves equal ones in the order they had *)
ByCardinality(srcs) ==
  LET order == Sorted(DOMAIN srcs,
                 LAMBDA i, j : Size(srcs[i]) < Size(srcs[j]) \/ (Size(srcs[i]) = Size(srcs[j]) /\ i < j))
  IN [i \in DOMAIN srcs |-> srcs[order[i]]]

(* The smallest source is the one iterated. *)
InterSources(srcs, aggregate) ==
  LET members == {m \in DOMAIN srcs[1].z : \A i \in DOMAIN srcs : m \in DOMAIN srcs[i].z}
      score(m) == FoldLeft(LAMBDA x, src : zunionInterAggregate(x, Times(src.weight, src.z[m]), aggregate),
                           Weighted(srcs[1].weight, srcs[1].z[m]), Tail(srcs))
  IN [m \in members |-> score(m)]

UnionSources(srcs, aggregate) ==
  FoldLeft(LAMBDA acc, src :
             [m \in DOMAIN acc \cup DOMAIN src.z |->
                LET x == IF m \in DOMAIN src.z THEN Weighted(src.weight, src.z[m]) ELSE 0
                IN IF m \notin DOMAIN acc THEN x
                   ELSE IF m \notin DOMAIN src.z THEN acc[m]
                   ELSE zunionInterAggregate(acc[m], x, aggregate)],
           <<>>, srcs)

(* ZDIFF does nothing if a source is the first one again; else it looks    *)
(* the members of the first up in the others, or removes the members of    *)
(* the others, whichever is estimated to be less.                          *)
zsetChooseDiffAlgorithm(srcs) ==
  LET one == (Len(srcs) * Size(srcs[1])) \div 2
      two == FoldLeft(LAMBDA n, src : n + Size(src), 0, srcs)
  IN IF \E i \in 2..Len(srcs) : srcs[i].key = srcs[1].key THEN 0 ELSE IF one <= two THEN 1 ELSE 2

DiffSources(srcs) ==
  LET z == srcs[1].z  rest == Tail(srcs)
  IN CASE zsetChooseDiffAlgorithm(srcs) = 0 -> <<>>
       [] zsetChooseDiffAlgorithm(srcs) = 1 ->
            Without(z, {m \in DOMAIN z : \E i \in DOMAIN rest : m \in DOMAIN rest[i].z})
       [] OTHER -> FoldLeft(LAMBDA acc, src : Without(acc, DOMAIN src.z), z, rest)

(* <<"zunionstore", destination, keys, weights, aggregate>>, with None as  *)
(* destination for the forms that reply with the result                    *)
zunionInterDiffGenericCommand(s, op, dst, keys, weights, aggregate) ==
  LET t == FoldLeft(LAMBDA u, k :
                      IF u.reply # <<>> THEN u
                      ELSE LET w == expireIfNeeded(u, k)
                           IN IF Type(lookupKeyRead(w, k)) \in {"none", "set", "zset"} THEN w ELSE WrongType(w),
                    s, keys)
      srcs == [i \in DOMAIN keys |-> Source(t, keys[i], weights[i])]
      z == CASE op = "inter" -> InterSources(ByCardinality(srcs), aggregate)
             [] op = "union" -> UnionSources(ByCardinality(srcs), aggregate)
             [] op = "diff"  -> DiffSources(srcs)
  IN IF t.reply # <<>> THEN t
     ELSE IF dst # None THEN StoreZset(t, dst, z)
     ELSE Reply(t, <<"map", z>>)

(* <<"zrandmember", k, count, order of the draws>> *)
zrandmemberCommand(s, a) ==
  OnRead(s, a[2], "zset", <<>>,
         LAMBDA t, z : Reply(t, <<"array", RandomSample(DOMAIN z, a[3], a[4])>>))

-----------------------------------------------------------------------------
(* ZPOPMIN, ZPOPMAX and their blocking forms: <<"zpopmin", k, count>> *)
genericZpopCommand(s, k, where, count, emitkey) ==
  LET pop(t, z) ==
        LET seq == IF where = "max" THEN Reverse(Ranked(z)) ELSE Ranked(z)
            out == SubSeq(seq, 1, Min({count, Len(seq)}))
            flat == [i \in DOMAIN out |-> <<out[i], z[out[i]]>>]
        IN IF z = <<>> THEN Reply(t, <<"array", <<>>>>)
           ELSE Reply(MembersRemoved(t, k, z, ToSet(out)),
                      IF emitkey THEN <<"pair", k, flat>> ELSE <<"array", flat>>)
  IN IF count <= 0 THEN Reply(s, <<"array", <<>>>>) ELSE OnWrite(s, k, "zset", <<>>, pop)

zpopCommand(s, a, where) == genericZpopCommand(s, a[2], where, a[3], FALSE)

(* <<"bzpopmin", keys>> *)
blockingGenericZpopCommand(s, a, where) ==
  LET try(t, k) ==
        IF t.reply # <<>> THEN t
        ELSE LET u == expireIfNeeded(t, k)
             IN IF lookupKey(u, k) = None THEN u
                ELSE IF Type(lookupKey(u, k)) # "zset" THEN WrongType(u)
                ELSE rewriteClientCommandVector(genericZpopCommand(u, k, where, 1, TRUE),
                                                <<IF where = "max" THEN "zpopmax" ELSE "zpopmin", k, 1>>)
      t == FoldLeft(try, s, a[2])
  IN IF t.reply # <<>> THEN t
     ELSE IF "denyblocking" \in t.flags THEN Reply(t, <<"nil">>)
     ELSE Reply(t, <<"block", "zset", a[2], [from |-> where]>>)

-----------------------------------------------------------------------------
(***************************************************************************)
(* The geo commands (geo.c) and the hashes of positions (geohash.c,        *)
(* geohash_helper.c).                                                      *)
(*                                                                         *)
(* The map is the projected one: a cylinder, 2^GeoStep cells around and    *)
(* 2^GeoStep cells high, with coordinates in half cells.  Distances on it  *)
(* are Euclidean, and kept squared; the curvature of the earth is left     *)
(* out.  A hash is the column and the row of a cell and the number of bits *)
(* of each; bits interleaves them.                                         *)
(***************************************************************************)

CONSTANT GeoStep   \* GEO_STEP_MAX, 26 in the code

CoordMax == 2 * 2 ^ GeoStep      \* GEO_LONG_MAX and GEO_LAT_MAX
MercatorMax == CoordMax \div 2
Cell(step) == CoordMax \div 2 ^ step

Distance(x, y) == IF x < y THEN y - x ELSE x - y
LongDistance(x, y) == LET d == Distance(x, y) IN Min({d, CoordMax - d})
Square(x) == x * x
geohashGetDistance(p, q) == Square(LongDistance(p[1], q[1])) + Square(Distance(p[2], q[2]))

(* The bits of the column and of the row, alternating *)
interleave64(lat, long) ==
  LET bits[i \in 0..GeoStep + 1] ==
        IF i = 0 THEN 0
        ELSE bits[i - 1] + 4 ^ (i - 1) * (((lat \div 2 ^ (i - 1)) % 2) + 2 * ((long \div 2 ^ (i - 1)) % 2))
  IN bits[GeoStep + 1]

geohashEncode(p, step) == [long |-> p[1] \div Cell(step), lat |-> p[2] \div Cell(step), step |-> step]
geohashAlign52Bits(h) == interleave64(h.lat, h.long) * 4 ^ (GeoStep - h.step)
ScoreOf(p) == geohashAlign52Bits(geohashEncode(p, GeoStep))

(* The centre of the cell a score stands for; a coordinate past the end of *)
(* the range is the end of the range.                                      *)
deinterleave64(score) ==
  LET take(from) == MapThenSumSet(LAMBDA i : 2 ^ i * ((score \div 2 ^ (2 * i + from)) % 2), 0..GeoStep)
  IN [long |-> take(1), lat |-> take(0)]
decodeGeohash(score) ==
  LET h == deinterleave64(score)
  IN <<Min({2 * h.long + 1, CoordMax}), Min({2 * h.lat + 1, CoordMax})>>

\* Mutant: the cells beyond the date line are not reached.
geohashNeighborNoWrap(h, dx, dy) ==
  IF h.long + dx \in 0..(2 ^ h.step - 1) /\ h.lat + dy \in 0..(2 ^ h.step - 1)
  THEN [h EXCEPT !.long = @ + dx, !.lat = @ + dy] ELSE h

geohashNeighbor(h, dx, dy) ==
  [h EXCEPT !.long = (@ + dx + 2 ^ h.step) % 2 ^ h.step, !.lat = (@ + dy + 2 ^ h.step) % 2 ^ h.step]

-----------------------------------------------------------------------------
(* A shape is its centre and a circle (width and height hold the radius)   *)
(* or a rectangle (they hold the halves of its sides).                     *)

RadiusSquared(shape) ==
  IF shape.circle THEN Square(shape.width) ELSE Square(shape.width) + Square(shape.height)

geohashGetDistanceIfInShape(shape, p) ==
  IF shape.circle THEN geohashGetDistance(shape.xy, p) <= Square(shape.width)
  ELSE LongDistance(shape.xy[1], p[1]) <= shape.width /\ Distance(shape.xy[2], p[2]) <= shape.height

(* Nearer to the poles fewer bits are used. *)
geohashEstimateStepsByRadius(r2, lat) ==
  LET doublings == IF r2 >= Square(MercatorMax) THEN 0
                   ELSE CHOOSE n \in 1..2 * GeoStep :
                          /\ r2 * 4 ^ n >= Square(MercatorMax)
                          /\ r2 * 4 ^ (n - 1) < Square(MercatorMax)
      polar == IF 85 * Distance(lat, MercatorMax) > 66 * MercatorMax
               THEN (IF 85 * Distance(lat, MercatorMax) > 80 * MercatorMax THEN 2 ELSE 1) ELSE 0
  IN IF r2 = 0 THEN GeoStep ELSE Max({1, Min({GeoStep, 1 + doublings - 2 - polar})})

Edges(h) == [west |-> h.long * Cell(h.step), east |-> (h.long + 1) * Cell(h.step),
             south |-> h.lat * Cell(h.step), north |-> (h.lat + 1) * Cell(h.step)]

(* One bit less when a neighbour ends inside the shape *)
DecreaseStep(shape, h) ==
  LET lon == shape.xy[1]  lat == shape.xy[2]  r2 == RadiusSquared(shape)
  IN \/ Square(Distance(lat, Edges(geohashNeighbor(h, 0, 1)).north)) < r2
     \/ Square(Distance(lat, Edges(geohashNeighbor(h, 0, -1)).south)) < r2
     \/ Square(LongDistance(lon, Edges(geohashNeighbor(h, 1, 0)).east)) < r2
     \/ Square(LongDistance(lon, Edges(geohashNeighbor(h, -1, 0)).west)) < r2

(* The centre cell and its neighbours, in the order they are searched,     *)
(* without those the bounding box does not reach.                          *)
geohashCalculateAreasByShapeWGS84(shape) ==
  LET steps == geohashEstimateStepsByRadius(RadiusSquared(shape), shape.xy[2])
      h0 == geohashEncode(shape.xy, steps)
      h == IF steps > 1 /\ DecreaseStep(shape, h0) THEN geohashEncode(shape.xy, steps - 1) ELSE h0
      e == Edges(h)
      useless(d) ==
        /\ h.step >= 2
        /\ \/ d[2] = -1 /\ e.south < shape.xy[2] - shape.height
           \/ d[2] = 1  /\ e.north > shape.xy[2] + shape.height
           \/ d[1] = -1 /\ e.west < shape.xy[1] - shape.width
           \/ d[1] = 1  /\ e.east > shape.xy[1] + shape.width
      order == <<<<0, 0>>, <<0, 1>>, <<0, -1>>, <<1, 0>>, <<-1, 0>>, <<1, 1>>, <<-1, 1>>, <<1, -1>>, <<-1, -1>>>>
      kept == SelectSeq(order, LAMBDA d : ~useless(d))
  IN [i \in DOMAIN kept |-> geohashNeighbor(h, kept[i][1], kept[i][2])]

(* The members whose score has the hash as a prefix, up to limit in all *)
membersOfGeoHashBox(z, h, shape, found, limit) ==
  LET low == geohashAlign52Bits(h)  high == low + 4 ^ (GeoStep - h.step)
      add(ga, m) == IF (limit > 0 /\ Len(ga) >= limit) \/ z[m] < low \/ z[m] >= high
                       \/ ~geohashGetDistanceIfInShape(shape, decodeGeohash(z[m]))
                    THEN ga ELSE Append(ga, m)
  IN FoldLeft(add, found, Ranked(z))

(* A cell that is the same as the last one searched is skipped. *)
membersOfAllNeighbors(z, areas, shape, limit) ==
  FoldLeft(LAMBDA r, i : IF r[2] > 1 /\ areas[i] = areas[r[2]] THEN r
                         ELSE <<membersOfGeoHashBox(z, areas[i], shape, r[1], limit), i>>,
           <<<<>>, 0>>, [i \in DOMAIN areas |-> i])[1]

SortPoints(z, found, shape, sort) ==
  LET d(i) == geohashGetDistance(shape.xy, decodeGeohash(z[found[i]]))
      before(i, j) == IF d(i) = d(j) THEN i < j ELSE IF sort = "asc" THEN d(i) < d(j) ELSE d(i) > d(j)
      order == Sorted(DOMAIN found, before)
  IN IF sort = "none" THEN found ELSE [i \in DOMAIN found |-> found[order[i]]]

(* o has count (0 for all), any, sort and storedist *)
georadius(z, shape, o) ==
  LET sort == IF o.count # 0 /\ o.sort = "none" /\ ~o.any THEN "asc" ELSE o.sort
      found == membersOfAllNeighbors(z, geohashCalculateAreasByShapeWGS84(shape), shape,
                                     IF o.any THEN o.count ELSE 0)
      n == IF o.count = 0 THEN Len(found) ELSE Min({o.count, Len(found)})
  IN SubSeq(SortPoints(z, found, shape, sort), 1, n)

-----------------------------------------------------------------------------
(* <<"geoadd", k, flags, points>>, the points being <<position, member>>;  *)
(* it is propagated as the ZADD it becomes.                                *)
geoaddCommand(s, a) ==
  LET zadd == <<"zadd", a[2], a[3], [i \in DOMAIN a[4] |-> <<ScoreOf(a[4][i][1]), a[4][i][2]>>]>>
  IN IF {"nx", "xx"} \subseteq a[3] THEN Fail(s)
     ELSE zaddCommand(rewriteClientCommandVector(s, zadd), zadd)

(* GEOSEARCH and GEORADIUS: <<"geosearch", k, shape, options>> *)
geosearchCommand(s, a) ==
  IF a[4].any /\ a[4].count = 0 THEN Fail(s)
  ELSE OnRead(s, a[2], "zset", <<>>,
              LAMBDA t, z : Reply(t, <<"array", IF z = <<>> THEN <<>> ELSE georadius(z, a[3], a[4])>>))

(* GEOSEARCHSTORE and GEORADIUS with STORE or STOREDIST: <<"geosearchstore",*)
(* destination, source, shape, options>>.  A missing source leaves the     *)
(* destination as it is.                                                   *)
geosearchstoreCommand(s, a) ==
  LET dst == a[2]  shape == a[4]
      store(t, z) ==
        LET ms == georadius(z, shape, a[5])
            score(m) == IF a[5].storedist THEN geohashGetDistance(shape.xy, decodeGeohash(z[m])) ELSE z[m]
            new == [m \in ToSet(ms) |-> score(m)]
        IN IF z = <<>> THEN Reply(t, <<"array", <<>>>>)
           ELSE IF ms # <<>> THEN Reply(Dirty(setKey(t, dst, Zset(new)), Len(ms)), <<"int", Len(ms)>>)
           ELSE IF lookupKey(t, dst) = None THEN Reply(t, <<"int", 0>>)
           ELSE Reply(Modified(dbDelete(t, dst), dst, 1), <<"int", 0>>)
  IN IF a[5].any /\ a[5].count = 0 THEN Fail(s) ELSE OnRead(s, a[3], "zset", <<>>, store)

(* GEOPOS, and GEODIST between two members *)
geoposCommand(s, a) ==
  LET pos(z, m) == IF m \in DOMAIN z THEN decodeGeohash(z[m]) ELSE <<"nil">>
  IN OnRead(s, a[2], "zset", <<>>,
            LAMBDA t, z : Reply(t, <<"array", [i \in DOMAIN a[3] |-> pos(z, a[3][i])]>>))

=============================================================================
