------------------------------- MODULE TString ------------------------------
(***************************************************************************)
(* The commands on strings (t_string.c), on strings as arrays of bits      *)
(* (bitops.c) and as HyperLogLogs (hyperloglog.c).                         *)
(*                                                                         *)
(* A string is a sequence of bytes.  LLMAX stands for LLONG_MAX; a decimal *)
(* number has one digit per byte, as ll2string writes it.                  *)
(***************************************************************************)
EXTENDS Keyspace

LOCAL INSTANCE SequencesExt
LOCAL INSTANCE FiniteSetsExt

CONSTANTS
  W,       \* width of a long long, in bits
  MaxBulk  \* proto_max_bulk_len, in bytes

LLMAX == 2 ^ (W - 1) - 1
LLMIN == -(2 ^ (W - 1))

Str(b) == <<"string", b>>
Nul(n) == [i \in 1..n |-> 0]

-----------------------------------------------------------------------------
(* Numbers and strings *)

ll2string(n) ==
  LET digits[m \in Nat] ==
        IF m < 10 THEN <<48 + m>> ELSE Append(digits[m \div 10], 48 + (m % 10))
  IN IF n < 0 THEN <<45>> \o digits[-n] ELSE digits[n]

(* string2ll accepts exactly what ll2string writes. *)
IsLL(b) == \E n \in LLMIN..LLMAX : ll2string(n) = b
string2ll(b) == CHOOSE n \in LLMIN..LLMAX : ll2string(n) = b

(* A missing string counts as zero.  The floats of the model are integers, *)
(* finite up to FloatMax.                                                  *)
GetLongLong(b) == IF b = <<>> THEN 0 ELSE string2ll(b)
FloatMax == 2 ^ W
IsFloat(b) == \E n \in -FloatMax..FloatMax : ll2string(n) = b
GetLongDouble(b) ==
  IF b = <<>> THEN 0 ELSE CHOOSE n \in -FloatMax..FloatMax : ll2string(n) = b

(* The options of SET and GETEX: flags, and the time to live, ttl, in the  *)
(* unit "ex", "px", "exat" or "pxat" ("no" when there is none).            *)
Opt(fl, unit, ttl) == [fl |-> fl, unit |-> unit, ttl |-> ttl]
NoOpt == Opt({}, "no", 0)

parseExtendedStringArguments(o, command) ==
  /\ o.fl \subseteq IF command = "set" THEN {"nx", "xx", "get", "keepttl"} ELSE {"persist"}
  /\ ~{"nx", "xx"} \subseteq o.fl
  /\ ~{"nx", "get"} \subseteq o.fl
  /\ o.unit # "no" => o.fl \cap {"keepttl", "persist"} = {}

checkStringLength(s, n) == s.caller = "master" \/ n <= MaxBulk

(* The time to live in milliseconds, and the time it ends at. *)
Milliseconds(o) == IF o.unit \in {"ex", "exat"} THEN o.ttl * SecMs ELSE o.ttl
When(s, o) == Milliseconds(o) + IF o.unit \in {"ex", "px"} THEN s.now ELSE 0
ValidExpire(o) == o.unit = "no" \/ o.ttl > 0

-----------------------------------------------------------------------------
(* SET and its variants *)

getGenericCommand(s, k) ==
  OnRead(s, k, "string", <<>>,
         LAMBDA t, v : Reply(t, IF lookupKeyRead(t, k) = None THEN <<"nil">> ELSE <<"bulk", v>>))

Failed(s) == s.reply = <<"wrongtype">>

StoreString(s, k, v, o) ==
  LET t == Dirty(genericSetKey(s, k, Str(v), "keepttl" \in o.fl, TRUE), 1)
      unit == IF o.unit \in {"exat", "pxat"} THEN "pxat" ELSE "px"
  IN CASE o.unit # "no" ->
            rewriteClientCommandVector(setExpire(t, k, When(s, o)),
                                       <<"set", k, v, Opt({}, unit, Milliseconds(o))>>)
       [] o.unit = "no" /\ "get" \in o.fl ->
            rewriteClientCommandVector(t, <<"set", k, v, [o EXCEPT !.fl = @ \ {"get"}]>>)
       [] OTHER -> t

setGenericCommand(s, k, v, o) ==
  LET t == IF o.fl \cap {"nx", "xx"} # {} THEN expireIfNeeded(s, k) ELSE s
      g == IF "get" \in o.fl THEN getGenericCommand(t, k) ELSE Reply(t, <<"ok">>)
      there == lookupKey(t, k) # None
  IN IF ~ValidExpire(o) THEN Fail(s)
     ELSE IF ("nx" \in o.fl /\ there) \/ ("xx" \in o.fl /\ ~there) THEN Reply(t, <<"nil">>)
     ELSE IF Failed(g) THEN g
     ELSE StoreString(g, k, v, o)

(* SET of the bytes of a HyperLogLog makes one. *)
setCommand(s, a) ==
  IF ~parseExtendedStringArguments(a[4], "set") THEN Fail(s)
  ELSE IF Len(a) = 5 THEN Dirty(setKey(s, a[2], <<a[5], a[3]>>), 1)
  ELSE setGenericCommand(s, a[2], a[3], a[4])

setnxCommand(s, a) == setGenericCommand(s, a[2], a[3], Opt({"nx"}, "no", 0))

setexCommand(s, a) == setGenericCommand(s, a[2], a[4], Opt({}, "ex", a[3]))

psetexCommand(s, a) == setGenericCommand(s, a[2], a[4], Opt({}, "px", a[3]))

getCommand(s, a) == getGenericCommand(s, a[2])

(* GETEX is propagated as the change it made: DEL, PEXPIRE, PEXPIREAT or   *)
(* PERSIST.                                                                *)
getexCommand(s, a) ==
  LET k == a[2]  o == a[3]
      g == getGenericCommand(s, k)
      absolute == o.unit \in {"exat", "pxat"}
      cmd == IF absolute THEN "pexpireat" ELSE "pexpire"
      changed(t, argv) == Modified(rewriteClientCommandVector(t, argv), k, 1)
  IN IF ~parseExtendedStringArguments(o, "get") THEN Fail(s)
     ELSE IF Failed(g) \/ g.reply = <<"nil">> THEN g
     ELSE IF ~ValidExpire(o) THEN Fail(g)
     ELSE IF absolute /\ checkAlreadyExpired(g, Milliseconds(o))
     THEN changed(dbDelete(g, k), <<"del", {k}>>)
     ELSE IF o.unit # "no"
     THEN changed(setExpire(g, k, When(g, o)), <<cmd, k, Milliseconds(o)>>)
     ELSE IF "persist" \in o.fl /\ g.exp[k] # NoTTL
     THEN changed(removeExpire(g, k), <<"persist", k>>)
     ELSE g

getdelCommand(s, a) ==
  LET k == a[2]  g == getGenericCommand(s, k) IN
  IF Failed(g) \/ lookupKey(g, k) = None THEN g
  ELSE Modified(rewriteClientCommandVector(dbDelete(g, k), <<"del", {k}>>), k, 1)

getsetCommand(s, a) ==
  LET g == getGenericCommand(s, a[2]) IN
  IF Failed(g) THEN g
  ELSE rewriteClientCommandVector(Dirty(setKey(g, a[2], Str(a[3])), 1),
                                  <<"set", a[2], a[3], NoOpt>>)

mgetCommand(s, a) ==
  LET t == FoldLeft(LAMBDA u, k : expireIfNeeded(u, k), s, a[2])
      get(k) == LET o == lookupKeyRead(t, k)
                IN IF Type(o) = "string" THEN <<"bulk", Val(o)>> ELSE <<"nil">>
  IN Reply(t, <<"array", [i \in DOMAIN a[2] |-> get(a[2][i])]>>)

(* a[2] is the sequence of pairs <<key, value>> *)
msetGenericCommand(s, a, nx) ==
  LET look(u, p) == IF u.reply = <<>> /\ nx
                    THEN LET w == expireIfNeeded(u, p[1])
                         IN IF lookupKey(w, p[1]) = None THEN w ELSE Reply(w, <<"int", 0>>)
                    ELSE u
      t == FoldLeft(look, s, a[2])
      set(u, p) == setKey(u, p[1], Str(p[2]))
  IN IF t.reply = <<>>
     THEN Dirty(FoldLeft(set, Reply(t, <<"ok">>), a[2]), Len(a[2])) ELSE t

-----------------------------------------------------------------------------
(* Changing a part of a string *)

(* sdsgrowzero *)
GrowZero(b, n) == IF Len(b) >= n THEN b ELSE b \o Nul(n - Len(b))

Overwrite(b, offset, v) ==
  LET g == GrowZero(b, offset + Len(v))
  IN [i \in 1..Len(g) |-> IF i - offset \in 1..Len(v) THEN v[i - offset] ELSE g[i]]

setrangeCommand(s, a) ==
  LET k == a[2]  offset == a[3]  v == a[4]
      write(t, b) ==
        IF v = <<>> THEN Reply(t, <<"int", Len(b)>>)
        ELSE IF ~checkStringLength(t, offset + Len(v)) THEN Fail(t)
        ELSE LET n == Overwrite(b, offset, v)
             IN Reply(Modified(Put(t, k, Str(n)), k, 1), <<"int", Len(n)>>)
  IN IF offset < 0 THEN Fail(s) ELSE OnWrite(s, k, "string", <<>>, write)

(* The part of b between two indexes, which count from the end when they   *)
(* are negative.                                                           *)
ByteRange(b, first, last) ==
  LET n == Len(b)
      from == IF first < 0 THEN Max({n + first, 0}) ELSE first
      upto == IF last < 0 THEN Max({n + last, 0}) ELSE last
      end == IF upto >= n THEN n - 1 ELSE upto
  IN IF (first < 0 /\ last < 0 /\ first > last) \/ from > end \/ n = 0 THEN <<>>
     ELSE SubSeq(b, from + 1, end + 1)

getrangeCommand(s, a) ==
  OnRead(s, a[2], "string", <<>>,
         LAMBDA t, b : Reply(t, <<"bulk", ByteRange(b, a[3], a[4])>>))

appendCommand(s, a) ==
  LET k == a[2]
      append(t, b) ==
        IF lookupKey(t, k) # None /\ ~checkStringLength(t, Len(b) + Len(a[3])) THEN Fail(t)
        ELSE Reply(Modified(Put(t, k, Str(b \o a[3])), k, 1), <<"int", Len(b) + Len(a[3])>>)
  IN OnWrite(s, k, "string", <<>>, append)

strlenCommand(s, a) ==
  OnRead(s, a[2], "string", <<>>, LAMBDA t, b : Reply(t, <<"int", Len(b)>>))

(* The sum is computed only after it is known to fit. *)
AddOverflows(old, incr) ==
  \/ incr < 0 /\ old < 0 /\ incr < LLMIN - old
  \/ incr > 0 /\ old > 0 /\ incr > LLMAX - old

incrDecrCommand(s, k, incr) ==
  LET add(t, b) ==
        IF \/ IF b = <<>> THEN lookupKey(t, k) # None ELSE ~IsLL(b)
           \/ AddOverflows(GetLongLong(b), incr)
        THEN Fail(t)
        ELSE LET n == GetLongLong(b) + incr
             IN Reply(Modified(Put(t, k, Str(ll2string(n))), k, 1), <<"int", n>>)
  IN OnWrite(s, k, "string", <<>>, add)

incrbyCommand(s, a) == incrDecrCommand(s, a[2], a[3])

(* DECRBY negates its argument; -LLONG_MIN is LLONG_MIN. *)
decrbyCommand(s, a) == incrDecrCommand(s, a[2], IF a[3] = LLMIN THEN LLMIN ELSE -a[3])

(* A sum of floats depends on the machine: it is propagated as the result. *)
incrbyfloatCommand(s, a) ==
  LET k == a[2]
      add(t, b) ==
        IF \/ IF b = <<>> THEN lookupKey(t, k) # None ELSE ~IsFloat(b)
           \/ GetLongDouble(b) + a[3] \notin -FloatMax..FloatMax
        THEN Fail(t)
        ELSE LET v == ll2string(GetLongDouble(b) + a[3])
             IN rewriteClientCommandVector(Modified(Put(t, k, Str(v)), k, 1),
                                           <<"set", k, v, Opt({"keepttl"}, "no", 0)>>)
  IN OnWrite(s, k, "string", <<>>, add)

-----------------------------------------------------------------------------
(* STRALGO LCS: the longest common subsequence of two strings *)

(* LCS[i, j]: the length for the first i bytes of a and the first j of b *)
LcsTable(a, b) ==
  LET t[i \in 0..Len(a), j \in 0..Len(b)] ==
        CASE i = 0 \/ j = 0 -> 0
          [] i > 0 /\ j > 0 /\ a[i] = b[j] -> t[i - 1, j - 1] + 1
          [] OTHER -> Max({t[i - 1, j], t[i, j - 1]})
  IN t

(* The walk back through the table: the string found, and the ranges of    *)
(* contiguous matches emitted, of at least minlen bytes.  as, ae, bs are   *)
(* arange_start, arange_end and brange_start, counted from one; as = 0     *)
(* means that no range is open.                                            *)
LcsWalk(a, b, minlen) ==
  LET t == LcsTable(a, b)
      emit(w) == [w EXCEPT !.as = 0,
                           !.out = IF w.ae - w.as + 1 >= minlen
                                   THEN Append(@, <<w.as, w.ae, w.bs, w.bs + w.ae - w.as>>) ELSE @]
      match(w) ==
        LET first == w.as = 0
            contiguous == w.as = w.i + 1 /\ w.bs = w.j + 1
            u == CASE first -> [w EXCEPT !.as = w.i, !.ae = w.i, !.bs = w.j]
                   [] ~first /\ contiguous -> [w EXCEPT !.as = @ - 1, !.bs = @ - 1]
                   [] OTHER -> w
            v == [u EXCEPT !.res = <<a[w.i]>> \o @, !.i = @ - 1, !.j = @ - 1]
        IN IF (~first /\ ~contiguous) \/ u.as = 1 \/ u.bs = 1 THEN emit(v) ELSE v
      skip(w) ==
        LET v == IF t[w.i - 1, w.j] > t[w.i, w.j - 1]
                 THEN [w EXCEPT !.i = @ - 1] ELSE [w EXCEPT !.j = @ - 1]
        IN IF w.as # 0 THEN emit(v) ELSE v
      step(w, n) == CASE w.i = 0 \/ w.j = 0 -> w
                      [] w.i > 0 /\ w.j > 0 /\ a[w.i] = b[w.j] -> match(w)
                      [] OTHER -> skip(w)
  IN FoldLeft(step, [i |-> Len(a), j |-> Len(b), res |-> <<>>, out |-> <<>>,
                     as |-> 0, ae |-> 0, bs |-> 0],
              [n \in 1..(Len(a) + Len(b)) |-> n])

(* STRALGO LCS KEYS a[2] a[3] MINMATCHLEN a[4] *)
stralgoLCS(s, a) ==
  LET t == expireIfNeeded(expireIfNeeded(s, a[2]), a[3])
      o == lookupKeyRead(t, a[2])
      p == lookupKeyRead(t, a[3])
      bytes(x) == IF x = None THEN <<>> ELSE Val(x)
      w == LcsWalk(bytes(o), bytes(p), a[4])
  IN IF {Type(o), Type(p)} \subseteq {"none", "string"}
     THEN Reply(t, <<"lcs", w.res, w.out>>) ELSE Fail(t)

-----------------------------------------------------------------------------
(***************************************************************************)
(* The commands that see a string as an array of bits (bitops.c).          *)
(*                                                                         *)
(* A bit has a position: bit 0 is the most significant bit of the first    *)
(* byte.  A byte has ByteBits bits.  The loops of redisPopcount,           *)
(* redisBitpos and BITOP that go by words compute what the loops over the  *)
(* bytes left compute, and are abstracted to those.                        *)
(***************************************************************************)

ByteBits == 8

Bit(b, i) ==
  IF i \div ByteBits >= Len(b) THEN 0
  ELSE (b[(i \div ByteBits) + 1] \div 2 ^ (7 - (i % ByteBits))) % 2

SetBit(b, i, on) ==
  [b EXCEPT ![(i \div ByteBits) + 1] = @ + (on - Bit(b, i)) * 2 ^ (7 - (i % ByteBits))]

redisPopcount(b) == Cardinality({i \in 0..(Len(b) * ByteBits - 1) : Bit(b, i) = 1})

(* The first bit equal to bit; the string is padded with zeros. *)
redisBitpos(b, bit) ==
  LET at == {i \in 0..(Len(b) * ByteBits) : Bit(b, i) = bit}
  IN IF at = {} THEN -1 ELSE Min(at)

(* Integers of any width at any offset *)
getUnsignedBitfield(b, offset, bits) ==
  FoldLeft(LAMBDA v, j : 2 * v + Bit(b, offset + j - 1), 0, [j \in 1..bits |-> j])

getSignedBitfield(b, offset, bits) ==
  LET u == getUnsignedBitfield(b, offset, bits)
  IN IF u >= 2 ^ (bits - 1) THEN u - 2 ^ bits ELSE u

setUnsignedBitfield(b, offset, bits, value) ==
  FoldLeft(LAMBDA p, j : SetBit(p, offset + j - 1, (value \div 2 ^ (bits - j)) % 2),
           b, [j \in 1..bits |-> j])

(* Casts between uint64_t and int64_t *)
ToUnsigned(n) == n % 2 ^ W
ToSigned(n) == IF ToUnsigned(n) > LLMAX THEN ToUnsigned(n) - 2 ^ W ELSE ToUnsigned(n)

setSignedBitfield(b, offset, bits, value) ==
  setUnsignedBitfield(b, offset, bits, ToUnsigned(value))

(* What the result of an operation is when it overflows ("no" when it does *)
(* not), and *limit.                                                       *)
checkUnsignedBitfieldOverflow(value, incr, bits, owtype) ==
  LET max == 2 ^ bits - 1
      maxincr == ToSigned(max - value)
      minincr == ToSigned(-value)
      wrap == ToUnsigned(value + incr) % 2 ^ bits
  IN IF value > max \/ (incr > 0 /\ incr > maxincr)
     THEN <<"over", IF owtype = "wrap" THEN wrap ELSE max>>
     ELSE IF incr < 0 /\ incr < minincr
     THEN <<"under", IF owtype = "wrap" THEN wrap ELSE 0>>
     ELSE <<"no", 0>>

checkSignedBitfieldOverflow(value, incr, bits, owtype) ==
  LET max == 2 ^ (bits - 1) - 1
      min == -max - 1
      maxincr == ToSigned(max - value)
      minincr == ToSigned(min - value)
      c == ToUnsigned(ToUnsigned(value) + ToUnsigned(incr)) % 2 ^ bits
      wrap == IF c >= 2 ^ (bits - 1) THEN c - 2 ^ bits ELSE c
  IN IF \/ value > max
        \/ bits # W /\ incr > maxincr
        \/ value >= 0 /\ incr > 0 /\ incr > maxincr
     THEN <<"over", IF owtype = "wrap" THEN wrap ELSE max>>
     ELSE IF \/ value < min
             \/ bits # W /\ incr < minincr
             \/ value < 0 /\ incr < 0 /\ incr < minincr
     THEN <<"under", IF owtype = "wrap" THEN wrap ELSE min>>
     ELSE <<"no", 0>>

-----------------------------------------------------------------------------
(* The commands *)

ValidOffset(i) == i >= 0 /\ i \div ByteBits < MaxBulk

(* Make room for bit number maxbit. *)
RoomFor(b, maxbit) == GrowZero(b, (maxbit \div ByteBits) + 1)

setbitCommand(s, a) ==
  LET k == a[2]  i == a[3]
      set(t, b) == Reply(Modified(Put(t, k, Str(SetBit(RoomFor(b, i), i, a[4]))), k, 1),
                         <<"int", Bit(b, i)>>)
  IN IF ~ValidOffset(i) \/ a[4] \notin {0, 1} THEN Fail(s)
     ELSE OnWrite(s, k, "string", <<>>, set)

getbitCommand(s, a) ==
  IF ~ValidOffset(a[3]) THEN Fail(s)
  ELSE OnRead(s, a[2], "string", <<>>, LAMBDA t, b : Reply(t, <<"int", Bit(b, a[3])>>))

ByteAnd(x, y) == FoldLeft(LAMBDA r, i : r + ((x \div 2 ^ i) % 2) * ((y \div 2 ^ i) % 2) * 2 ^ i,
                          0, [i \in 1..ByteBits |-> i - 1])
ByteOp(op, x, y) == CASE op = "and" -> ByteAnd(x, y)
                      [] op = "or"  -> x + y - ByteAnd(x, y)
                      [] op = "xor" -> x + y - 2 * ByteAnd(x, y)

(* <<"bitop", target, op, sources>> *)
bitopCommand(s, a) ==
  LET target == a[2]  op == a[3]  keys == a[4]
      look(u, k) ==
        IF Failed(u) THEN u
        ELSE LET t == expireIfNeeded(u, k)
             IN IF Type(lookupKeyRead(t, k)) \in {"none", "string"} THEN t ELSE WrongType(t)
      t == FoldLeft(look, s, keys)
      src == [i \in DOMAIN keys |->
                LET o == lookupKeyRead(t, keys[i]) IN IF o = None THEN <<>> ELSE Val(o)]
      maxlen == Max({Len(src[i]) : i \in DOMAIN keys})
      byte(i, j) == IF j > Len(src[i]) THEN 0 ELSE src[i][j]
      first(j) == IF op = "not" THEN 255 - byte(1, j) ELSE byte(1, j)
      res == [j \in 1..maxlen |->
                FoldLeft(LAMBDA x, i : ByteOp(op, x, byte(i, j)), first(j),
                         [i \in 1..(Len(keys) - 1) |-> i + 1])]
  IN IF op = "not" /\ Len(keys) # 1 THEN Fail(s)
     ELSE IF Failed(t) THEN t
     ELSE IF maxlen > 0 THEN Reply(Dirty(setKey(t, target, Str(res)), 1), <<"int", maxlen>>)
     ELSE IF lookupKey(t, target) # None
     THEN Reply(Modified(dbDelete(t, target), target, 1), <<"int", 0>>)
     ELSE Reply(t, <<"int", 0>>)

bitcountCommand(s, a) ==
  OnRead(s, a[2], "string", <<>>,
         LAMBDA t, b : Reply(t, <<"int", redisPopcount(ByteRange(b, a[3], a[4]))>>))

(* BITPOS key bit start end; end is <<>> when it is not given. *)
bitposCommand(s, a) ==
  LET bit == a[3]  start == a[4]
      given == a[5] # <<>>
      pos(t, b) ==
        LET n == Len(b)
            end == IF given THEN a[5][1] ELSE n - 1
            clip(i) == IF i < 0 THEN Max({n + i, 0}) ELSE i
            last == Min({clip(end), n - 1})
            part == SubSeq(b, clip(start) + 1, last + 1)
            p == redisBitpos(part, bit)
        IN IF lookupKeyRead(t, a[2]) = None THEN IF bit = 1 THEN -1 ELSE 0
           ELSE IF clip(start) > last THEN -1
           ELSE IF given /\ bit = 0 /\ p = Len(part) * ByteBits THEN -1
           ELSE IF p = -1 THEN -1 ELSE p + clip(start) * ByteBits
  IN IF bit \notin {0, 1} THEN Fail(s)
     ELSE OnRead(s, a[2], "string", <<>>, LAMBDA t, b : Reply(t, <<"int", pos(t, b)>>))

(* One operation of BITFIELD, [op, sign, bits, offset, arg, ow], on the    *)
(* bytes b: the new bytes and the reply.                                   *)
BitfieldOp(b, o) ==
  LET old == IF o.sign THEN getSignedBitfield(b, o.offset, o.bits)
             ELSE getUnsignedBitfield(b, o.offset, o.bits)
      base == IF o.op = "incrby" THEN old ELSE IF o.sign THEN o.arg ELSE ToUnsigned(o.arg)
      incr == IF o.op = "incrby" THEN o.arg ELSE 0
      check == IF o.sign THEN checkSignedBitfieldOverflow(base, incr, o.bits, o.ow)
               ELSE checkUnsignedBitfieldOverflow(base, incr, o.bits, o.ow)
      new == IF check[1] = "no" THEN base + incr ELSE check[2]
      put == IF o.sign THEN setSignedBitfield(b, o.offset, o.bits, new)
             ELSE setUnsignedBitfield(b, o.offset, o.bits, new)
  IN IF o.op = "get" THEN <<b, <<"int", old>>>>
     ELSE IF check[1] # "no" /\ o.ow = "fail" THEN <<b, <<"nil">>>>
     ELSE <<put, <<"int", IF o.op = "incrby" THEN new ELSE old>>>>

ValidType(o) == o.bits \in 1..(IF o.sign THEN W ELSE W - 1)

(* BITFIELD grows the string to the highest bit written even when every    *)
(* operation then fails.                                                   *)
bitfieldGeneric(s, a, readonlycmd) ==
  LET k == a[2]  ops == a[3]
      writes == {i \in DOMAIN ops : ops[i].op # "get"}
      highest == Max({ops[i].offset + ops[i].bits - 1 : i \in writes})
      run(b) == FoldLeft(LAMBDA r, o : LET x == BitfieldOp(r[1], o)
                                       IN <<x[1], Append(r[2], x[2])>>,
                         <<b, <<>>>>, ops)
      read(t, b) == Reply(t, run(b)[2])
      write(t, b) == LET r == run(RoomFor(b, highest))
                     IN Reply(Modified(Put(t, k, Str(r[1])), k, Cardinality(writes)), r[2])
  IN IF \E i \in DOMAIN ops : ~ValidType(ops[i]) \/ ~ValidOffset(ops[i].offset) THEN Fail(s)
     ELSE IF writes = {} THEN OnRead(s, k, "string", <<>>, read)
     ELSE IF readonlycmd THEN Fail(s)
     ELSE OnWrite(s, k, "string", <<>>, write)

-----------------------------------------------------------------------------
(***************************************************************************)
(* The HyperLogLog (hyperloglog.c).                                        *)
(*                                                                         *)
(* The value is a string with a header, the encoding and the cached        *)
(* cardinality, and then the registers: dense, one counter each, or        *)
(* sparse, a sequence of opcodes for runs of equal registers.  It is kept  *)
(* apart from the other strings as an object of type "hll".  An opcode is  *)
(* <<kind, value, run length>>.  An element is the register it hashes to   *)
(* and the length of its pattern 00..1.  The estimate is a function of the *)
(* registers, so the cache holds the registers it was computed from.       *)
(***************************************************************************)

CONSTANTS
  HllRegisters,    \* HLL_REGISTERS
  HllValMax,       \* HLL_SPARSE_VAL_MAX_VALUE
  HllValLen,       \* HLL_SPARSE_VAL_MAX_LEN
  HllZeroLen,      \* HLL_SPARSE_ZERO_MAX_LEN
  HllSparseBytes   \* hll-sparse-max-bytes, by the role of the server

Registers == 0..(HllRegisters - 1)
NoRegisters == [r \in Registers |-> 0]
Stale == <<>>   \* the cache is not valid

Hll(h) == <<"hll", h>>

Bytes(op) == IF op[1] = "xzero" THEN 2 ELSE 1
Zero(len) == <<IF len > HllZeroLen THEN "xzero" ELSE "zero", 0, len>>
Value(v, len) == <<"val", v, len>>

(* The number of registers the first n opcodes cover *)
Covered(ops, n) == FoldLeft(LAMBDA c, op : c + op[3], 0, SubSeq(ops, 1, n))
SizeInBytes(ops) == FoldLeft(LAMBDA c, op : c + Bytes(op), 0, ops)

(* hllSparseToDense, hllMerge and hllSparseRegHisto read the runs alike. *)
hllSparseRegisters(ops) ==
  [r \in Registers |-> ops[CHOOSE i \in DOMAIN ops :
                             Covered(ops, i - 1) <= r /\ r < Covered(ops, i)][2]]

RegistersOf(h) == IF h.enc = "dense" THEN h.regs ELSE hllSparseRegisters(h.regs)

createHLLObject == [enc |-> "sparse", regs |-> <<<<"xzero", 0, HllRegisters>>>>, card |-> NoRegisters]

hllDenseSet(h, index, count) ==
  IF count > h.regs[index] THEN [h EXCEPT !.regs[index] = count] ELSE h

hllSparseToDense(h) == [h EXCEPT !.enc = "dense", !.regs = RegistersOf(h)]

(* The opcodes a split leaves in place of op, which covers first on *)
SplitOp(op, first, index, count) ==
  LET last == first + op[3] - 1
      part(len) == IF len = 0 THEN <<>>
                   ELSE <<IF op[1] = "val" THEN Value(op[2], len) ELSE Zero(len)>>
  IN part(index - first) \o <<Value(count, 1)>> \o part(last - index)

(* Merge adjacent opcodes with the same value: five steps from the opcode  *)
(* before the one changed, each one a merge or a move to the right.        *)
MergeValues(ops, from) ==
  LET step(m, n) ==
        LET i == m.at
            q == m.ops
            fits == /\ i < Len(q) /\ q[i][1] = "val" /\ q[i + 1][1] = "val"
                    /\ q[i][2] = q[i + 1][2] /\ q[i][3] + q[i + 1][3] <= HllValLen
        IN IF fits THEN [m EXCEPT !.ops = RemoveAt([q EXCEPT ![i + 1][3] = @ + q[i][3]], i)]
           ELSE [m EXCEPT !.at = @ + 1]
  IN FoldLeft(step, [ops |-> ops, at |-> from], <<1, 2, 3, 4, 5>>).ops

hllSparseSet(h, index, count, maxbytes) ==
  LET ops == h.regs
      at == CHOOSE i \in DOMAIN ops : Covered(ops, i - 1) <= index /\ index < Covered(ops, i)
      op == ops[at]
      first == Covered(ops, at - 1)
      single == op[3] = 1 /\ op[1] # "xzero"
      new == IF single THEN <<Value(count, 1)>> ELSE SplitOp(op, first, index, count)
      all == SubSeq(ops, 1, at - 1) \o new \o SubSeq(ops, at + 1, Len(ops))
      promote == hllDenseSet(hllSparseToDense(h), index, count)
  IN IF count > HllValMax THEN promote
     ELSE IF op[1] = "val" /\ op[2] >= count THEN h
     ELSE IF SizeInBytes(all) > SizeInBytes(ops) /\ SizeInBytes(all) > maxbytes THEN promote
     ELSE [h EXCEPT !.regs = MergeValues(all, IF at > 1 THEN at - 1 ELSE 1), !.card = Stale]

hllSet(h, index, count, maxbytes) ==
  IF h.enc = "dense" THEN hllDenseSet(h, index, count) ELSE hllSparseSet(h, index, count, maxbytes)

hllMerge(max, h) ==
  LET regs == RegistersOf(h)
  IN [r \in Registers |-> IF regs[r] > max[r] THEN regs[r] ELSE max[r]]

-----------------------------------------------------------------------------
(* <<"pfadd", k, elements>>, the elements being <<register, count>> *)
pfaddCommand(s, a) ==
  LET k == a[2]
      add(t, h0) ==
        LET missing == lookupKey(t, k) = None
            h == FoldLeft(LAMBDA g, e : hllSet(g, e[1], e[2], HllSparseBytes[t.role]), h0, a[3])
            updated == missing \/ RegistersOf(h) # RegistersOf(h0)
        IN IF updated THEN Reply(Modified(Put(t, k, Hll([h EXCEPT !.card = Stale])), k, 1), <<"int", 1>>)
           ELSE Reply(t, <<"int", 0>>)
  IN OnWrite(s, k, "hll", createHLLObject, add)

(* The maximum of the registers of every key; a missing key is empty. *)
MergeKeys(s, keys) ==
  FoldLeft(LAMBDA max, k : IF lookupKeyRead(s, k) = None THEN max ELSE hllMerge(max, Val(lookupKeyRead(s, k))),
           NoRegisters, keys)

AreHLLObjects(s, keys) == \A i \in DOMAIN keys : Type(lookupKeyRead(s, keys[i])) \in {"none", "hll"}

(* <<"pfcount", keys>>: the count of one key is cached in its value, and   *)
(* the change of the value is propagated.                                  *)
pfcountCommand(s, a) ==
  LET k == a[2][1]
      t == FoldLeft(expireIfNeeded, s, a[2])
      count(u, h) ==
        IF lookupKey(u, k) = None THEN Reply(u, <<"card", NoRegisters>>)
        ELSE IF h.card # Stale THEN Reply(u, <<"card", h.card>>)
        ELSE Reply(Modified(Put(u, k, Hll([h EXCEPT !.card = RegistersOf(h)])), k, 1),
                   <<"card", RegistersOf(h)>>)
  IN IF Len(a[2]) = 1 THEN OnWrite(s, k, "hll", createHLLObject, count)
     ELSE IF ~AreHLLObjects(t, a[2]) THEN WrongType(t)
     ELSE Reply(t, <<"card", MergeKeys(t, a[2])>>)

(* <<"pfmerge", destination, sources>>; the destination is a source too. *)
pfmergeCommand(s, a) ==
  LET keys == <<a[2]>> \o a[3]
      t == FoldLeft(expireIfNeeded, s, keys)
      max == MergeKeys(t, keys)
      dense == \E i \in DOMAIN keys : /\ lookupKeyRead(t, keys[i]) # None
                                      /\ Val(lookupKeyRead(t, keys[i])).enc = "dense"
      o == lookupKey(t, a[2])
      h0 == IF o = None THEN createHLLObject ELSE Val(o)
      h1 == IF dense /\ h0.enc = "sparse" THEN hllSparseToDense(h0) ELSE h0
      set(h, r) == IF max[r] = 0 THEN h ELSE hllSet(h, r, max[r], HllSparseBytes[t.role])
      h2 == FoldLeft(set, h1, [i \in 1..HllRegisters |-> i - 1])
  IN IF ~AreHLLObjects(t, keys) THEN WrongType(t)
     ELSE Reply(Modified(Put(t, a[2], Hll([h2 EXCEPT !.card = Stale])), a[2], 1), <<"ok">>)

=============================================================================
