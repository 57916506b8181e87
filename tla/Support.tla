------------------------------- MODULE Support -------------------------------
(***************************************************************************)
(* The supporting code under the rest of the server: glob-style matching   *)
(* (util.c), the dynamic string and arguments in quotes (sds.c), the linked*)
(* list (adlist.c), the zipmap (zipmap.c), compression (lzf_c.c, lzf_d.c), *)
(* the partial quicksort (pqsort.c), the pool of keys to evict (evict.c)   *)
(* and the samples of latencies (latency.c).                               *)
(*                                                                         *)
(* Abstractions.  A string is the sequence of its bytes, numbers.  A C     *)
(* pointer into it is a position, and the byte after the last is zero, as  *)
(* sds keeps it.  Memory does not run out.  The sizes at which the code    *)
(* changes its ways are constants, so that small instances pass them.      *)
(***************************************************************************)
EXTENDS Integers, Sequences, FiniteSets, TLC

LOCAL INSTANCE SequencesExt
LOCAL INSTANCE FiniteSetsExt

CONSTANTS
  sds_limits,             \* the first length too long for each type of string
  SDS_MAX_PREALLOC,       \* from here on a string no longer doubles
  ZIPMAP_BIGLEN,          \* 254: a length that takes five bytes
  ZIPMAP_VALUE_MAX_FREE,  \* 4: as many free bytes are given back
  LZF_BYTE,               \* 2^8: what a byte holds
  MAX_LIT,                \* 2^5: the longest run of literals
  LZF_UNROLLED,           \* 16: bytes compared in the unrolled part
  pqsort_small,           \* 7: fewer are sorted by insertion
  pqsort_large,           \* 40: more take the median of nine
  pqsort_parts,           \* 8: the distance of the nine is a part of this
  EVPOOL_SIZE,            \* 16
  EVPOOL_CACHED_SDS_SIZE, \* 255: a longer key is not kept in the pool's memory
  LRU_CLOCK_MAX,          \* 2^24 - 1: the clock starts again from 0
  LFU_TIME_MAX,           \* 65535: so does the one of minutes
  LFU_COUNTER_MAX,        \* 255
  LATENCY_TS_LEN          \* 160: samples of an event

-----------------------------------------------------------------------------
(* Glob-style patterns (util.c) *)

Star == 42
Question == 63
LBracket == 91
RBracket == 93
Backslash == 92
Caret == 94
Dash == 45

(* The byte at a position: the terminating zero after the last one. *)
ByteAt(q, i) == IF i <= Len(q) THEN q[i] ELSE 0

Least(a, b) == IF a < b THEN a ELSE b
Most(a, b) == IF a < b THEN b ELSE a

tolower(c) == IF c \in 65..90 THEN c + 32 ELSE c

Same(a, b, nocase) == IF nocase THEN tolower(a) = tolower(b) ELSE a = b

(* The character class from position i on: whether it matches the byte c,  *)
(* and the position of the last byte it takes.                             *)
RECURSIVE ClassFrom(_, _, _, _, _)
ClassFrom(p, i, c, nocase, match) ==
  LET left == Len(p) - i + 1
      Low(b) == IF nocase THEN tolower(b) ELSE b
      from == Low(Least(ByteAt(p, i), ByteAt(p, i + 2)))
      to == Low(Most(ByteAt(p, i), ByteAt(p, i + 2)))
  IN  CASE ByteAt(p, i) = Backslash /\ left >= 2 ->
             ClassFrom(p, i + 2, c, nocase, match \/ p[i + 1] = c)
        [] ByteAt(p, i) = RBracket -> [match |-> match, last |-> i]
        [] left = 0 -> [match |-> match, last |-> i - 1]
        [] OTHER ->
             IF left >= 3 /\ p[i + 1] = Dash
             THEN ClassFrom(p, i + 3, c, nocase, match \/ Low(c) \in from..to)
             ELSE ClassFrom(p, i + 1, c, nocase, match \/ Same(p[i], c, nocase))

RECURSIVE SkipStars(_, _)
SkipStars(p, i) == IF ByteAt(p, i) = Star THEN SkipStars(p, i + 1) ELSE i

(* The rest of the pattern p from i on against the rest of s from j on. *)
RECURSIVE MatchFrom(_, _, _, _, _)
MatchFrom(p, i, s, j, nocase) ==
  LET Goes(last) ==
        IF j = Len(s) THEN SkipStars(p, last + 1) > Len(p)
        ELSE MatchFrom(p, last + 1, s, j + 1, nocase)
  IN  IF i > Len(p) \/ j > Len(s) THEN i > Len(p) /\ j > Len(s)
      ELSE CASE p[i] = Star ->
                  LET k == SkipStars(p, i)
                  IN  k > Len(p) \/ \E m \in j..Len(s) : MatchFrom(p, k, s, m, nocase)
             [] p[i] = Question -> Goes(i)
             [] p[i] = LBracket ->
                  LET not == ByteAt(p, i + 1) = Caret
                      class == ClassFrom(p, IF not THEN i + 2 ELSE i + 1, s[j], nocase, FALSE)
                  IN  class.match # not /\ Goes(class.last)
             [] OTHER ->
                  LET k == IF p[i] = Backslash /\ i < Len(p) THEN i + 1 ELSE i
                  IN  Same(p[k], s[j], nocase) /\ Goes(k)

stringmatchlen(p, s, nocase) == MatchFrom(p, 1, s, 1, nocase)
-----------------------------------------------------------------------------
(* The dynamic string (sds.c): a header of a type, which bounds the length *)
(* and the size it can hold, and a buffer of alloc bytes and a zero.       *)

SdsTypes == <<"SDS_TYPE_5", "SDS_TYPE_8", "SDS_TYPE_16", "SDS_TYPE_32">>
TypeNumber(type) == CHOOSE n \in 1..4 : SdsTypes[n] = type
Garbage == 999

sdsTypeMaxSize(type) == sds_limits[TypeNumber(type)] - 1
sdsReqType(size) == SdsTypes[CHOOSE n \in 1..4 :
                      size < sds_limits[n] /\ \A m \in 1..n - 1 : size >= sds_limits[m]]
sdsHdrSize(type) == <<1, 3, 5, 9>>[TypeNumber(type)]

(* A string of type 5 has no room to remember: its size is its length. *)
sdsalloc(s) == IF s.type = "SDS_TYPE_5" THEN s.len ELSE s.alloc
sdsavail(s) == sdsalloc(s) - s.len
sdsContent(s) == SubSeq(s.buf, 1, s.len)

(* Bytes written to the buffer from position at (0 is the first) on. *)
Store(buf, at, q) == [i \in 1..Len(buf) |-> IF i - at \in 1..Len(q) THEN q[i - at] ELSE buf[i]]

(* A buffer of size bytes and the zero, with the first bytes of another. *)
Buffer(size, q) == [i \in 1..size + 1 |-> IF i <= Len(q) THEN q[i] ELSE Garbage]

(* The allocator gives slack bytes more than it was asked for. *)
Usable(type, asked, slack) == Least(asked + slack, sdsTypeMaxSize(type))

sdsnewlen(q, slack) ==
  LET type == IF q = <<>> THEN "SDS_TYPE_8" ELSE sdsReqType(Len(q))
  IN  [type |-> type, len |-> Len(q),
       alloc |-> IF type = "SDS_TYPE_5" THEN 0 ELSE Usable(type, Len(q), slack),
       buf |-> Buffer(Len(q) + slack, Append(q, 0))]

sdssetlen(s, n) == [s EXCEPT !.len = n]

sdsMakeRoomFor(s, addlen, slack) ==
  LET want == s.len + addlen
      newlen == IF want < SDS_MAX_PREALLOC THEN 2 * want ELSE want + SDS_MAX_PREALLOC
      type == IF sdsReqType(newlen) = "SDS_TYPE_5" THEN "SDS_TYPE_8" ELSE sdsReqType(newlen)
  IN  IF sdsavail(s) >= addlen THEN s
      ELSE [type |-> type, len |-> s.len, alloc |-> Usable(type, newlen, slack),
            buf |-> Buffer(newlen + slack,
                           IF type = s.type THEN s.buf ELSE SubSeq(s.buf, 1, s.len + 1))]

sdsRemoveFreeSpace(s) ==
  LET type == sdsReqType(s.len)
      same == s.type = type \/ TypeNumber(type) > 2
  IN  IF sdsavail(s) = 0 THEN s
      ELSE [type |-> IF same THEN s.type ELSE type, len |-> s.len,
            alloc |-> IF ~same /\ type = "SDS_TYPE_5" THEN 0 ELSE s.len,
            buf |-> Buffer(s.len, SubSeq(s.buf, 1, s.len + 1))]

sdsclear(s) == [sdssetlen(s, 0) EXCEPT !.buf[1] = 0]

sdsIncrLen(s, incr) == [s EXCEPT !.len = @ + incr, !.buf[s.len + incr + 1] = 0]

(* What the assertion of sdsIncrLen asks of its caller. *)
sdsCanIncr(s, incr) ==
  IF s.type = "SDS_TYPE_5"
  THEN \/ incr > 0 /\ s.len + incr <= sdsTypeMaxSize(s.type)
       \/ incr < 0 /\ s.len >= -incr
  ELSE IF incr >= 0 THEN s.alloc - s.len >= incr ELSE s.len >= -incr

sdsgrowzero(s, len, slack) ==
  LET r == sdsMakeRoomFor(s, len - s.len, slack)
  IN  IF len <= s.len THEN s
      ELSE [r EXCEPT !.buf = Store(@, s.len, [i \in 1..len - s.len + 1 |-> 0]), !.len = len]

sdscatlen(s, q, slack) ==
  LET r == sdsMakeRoomFor(s, Len(q), slack)
  IN  [r EXCEPT !.buf = Store(@, s.len, Append(q, 0)), !.len = s.len + Len(q)]

sdscpylen(s, q, slack) ==
  LET r == IF sdsalloc(s) < Len(q) THEN sdsMakeRoomFor(s, Len(q) - s.len, slack) ELSE s
  IN  [r EXCEPT !.buf = Store(@, 0, Append(q, 0)), !.len = Len(q)]

(* The digits are written from the last to the first, then turned around. *)
RECURSIVE DigitsBackwards(_)
DigitsBackwards(v) == <<48 + (v % 10)>> \o (IF v < 10 THEN <<>> ELSE DigitsBackwards(v \div 10))

sdsll2str(value) ==
  Reverse(IF value < 0 THEN Append(DigitsBackwards(-value), Dash) ELSE DigitsBackwards(value))

(* A format is a sequence of bytes and of the directives <<"s", string>>   *)
(* and <<"i", number>>, two bytes each; at most one byte is asked for       *)
(* before each, and what an argument needs when it comes.                  *)
sdscatfmt(s, fmt, slack) ==
  LET bytes == FoldLeft(LAMBDA n, f : n + (IF f[1] = "c" THEN 1 ELSE 2), 0, fmt)
      Put1(t, q) == [t EXCEPT !.buf = Store(@, t.len, q), !.len = @ + Len(q)]
      One(t, f) ==
        LET r == IF sdsavail(t) = 0 THEN sdsMakeRoomFor(t, 1, slack) ELSE t
            q == CASE f[1] = "c" -> <<f[2]>> [] f[1] = "s" -> f[2] [] f[1] = "i" -> sdsll2str(f[2])
        IN  Put1(IF f[1] # "c" /\ sdsavail(r) < Len(q) THEN sdsMakeRoomFor(r, Len(q), slack) ELSE r, q)
      t == FoldLeft(One, sdsMakeRoomFor(s, 2 * bytes, slack), fmt)
  IN  [t EXCEPT !.buf[t.len + 1] = 0]

sdssubstr(s, start, len) ==
  LET from == IF start \notin 0..s.len - 1 THEN 0 ELSE start
      n == IF start \notin 0..s.len - 1 THEN 0 ELSE Least(len, s.len - start)
  IN  [s EXCEPT !.buf = Store(@, 0, Append(SubSeq(s.buf, from + 1, from + n), 0)), !.len = n]

(* A negative start that is before the first byte is a huge size_t. *)
sdsrange(s, start, end) ==
  LET a == IF start < 0 THEN s.len + start ELSE start
      b == IF end < 0 THEN s.len + end ELSE end
  IN  IF s.len = 0 THEN s ELSE sdssubstr(s, a, IF a > b THEN 0 ELSE b - a + 1)

(* strchr finds the zero at the end of the set of characters, too. *)
RECURSIVE TrimFrom(_, _, _)
TrimFrom(s, cset, sp) ==
  IF sp < s.len /\ s.buf[sp + 1] \in cset \union {0} THEN TrimFrom(s, cset, sp + 1) ELSE sp

RECURSIVE TrimTo(_, _, _, _)
TrimTo(s, cset, sp, ep) ==
  IF ep > sp /\ s.buf[ep + 1] \in cset \union {0} THEN TrimTo(s, cset, sp, ep - 1) ELSE ep

sdstrim(s, cset) ==
  LET sp == TrimFrom(s, cset, 0)
      ep == TrimTo(s, cset, sp, s.len - 1)
      n == IF sp > ep THEN 0 ELSE ep - sp + 1
  IN  [s EXCEPT !.buf = Store(@, 0, Append(SubSeq(s.buf, sp + 1, sp + n), 0)), !.len = n]

sdscmp(a, b) ==
  LET n == Least(Len(a), Len(b))
      D == {i \in 1..n : a[i] # b[i]}
      d == CHOOSE i \in D : \A j \in D : i <= j
  IN  IF D # {} THEN (IF a[d] < b[d] THEN -1 ELSE 1)
      ELSE IF Len(a) > Len(b) THEN 1 ELSE IF Len(a) < Len(b) THEN -1 ELSE 0

(* The length and the size fit the type, the buffer holds them and ends    *)
(* with a zero.                                                            *)
SdsSound(s) ==
  /\ s.len <= sdsalloc(s) /\ sdsalloc(s) <= sdsTypeMaxSize(s.type)
  /\ sdsalloc(s) + 1 <= Len(s.buf)
  /\ s.buf[s.len + 1] = 0
  /\ \A i \in 1..s.len : s.buf[i] # Garbage

(* The tokens of s from position start on, the separator sought from j on. *)
RECURSIVE SplitFrom(_, _, _, _)
SplitFrom(q, sep, start, j) ==
  IF j > Len(q) - Len(sep) THEN <<SubSeq(q, start + 1, Len(q))>>
  ELSE IF SubSeq(q, j + 1, j + Len(sep)) = sep
  THEN <<SubSeq(q, start + 1, j)>> \o SplitFrom(q, sep, j + Len(sep), j + Len(sep))
  ELSE SplitFrom(q, sep, start, j + 1)

sdssplitlen(q, sep) == IF q = <<>> THEN <<>> ELSE SplitFrom(q, sep, 0, 0)

sdsjoin(argv, sep) ==
  FoldLeft(LAMBDA t, i : t \o argv[i] \o (IF i # Len(argv) THEN sep ELSE <<>>),
           <<>>, [i \in 1..Len(argv) |-> i])

-----------------------------------------------------------------------------
(* Arguments in quotes (sds.c) *)

Quote == 34
SingleQuote == 39
isspace(c) == c \in {32} \union 9..13
isprint(c) == c \in 32..126
HexDigits == <<48, 49, 50, 51, 52, 53, 54, 55, 56, 57, 97, 98, 99, 100, 101, 102>>
is_hex_digit(c) == c \in 48..57 \union 97..102 \union 65..70
hex_digit_to_int(c) == (CHOOSE n \in 1..16 : HexDigits[n] = tolower(c)) - 1

(* The letter after the backslash for a byte that has one: n r t a b. *)
Escapes == (10 :> 110) @@ (13 :> 114) @@ (9 :> 116) @@ (7 :> 97) @@ (8 :> 98)

sdscatrepr(q) ==
  LET One(c) == CASE c \in {Backslash, Quote} -> <<Backslash, c>>
                  [] c \in DOMAIN Escapes -> <<Backslash, Escapes[c]>>
                  [] isprint(c) -> <<c>>
                  [] OTHER -> <<Backslash, 120, HexDigits[(c \div 16) + 1], HexDigits[(c % 16) + 1]>>
  IN  <<Quote>> \o FlattenSeq(<<>> \o [i \in DOMAIN q |-> One(q[i])]) \o <<Quote>>

Unescaped(c) == IF \E b \in DOMAIN Escapes : Escapes[b] = c
                THEN CHOOSE b \in DOMAIN Escapes : Escapes[b] = c ELSE c

(* The token at position p, in mode "" (no quotes), "inq" or "insq": its   *)
(* bytes and the position after it.  Null is an error of the syntax.       *)
Null == <<-1>>

RECURSIVE TokenFrom(_, _, _, _)
TokenFrom(line, p, mode, current) ==
  LET At(i) == ByteAt(line, p + i)
      next == IF At(0) = 0 THEN p ELSE p + 1
      Takes(c, i) == TokenFrom(line, p + i + 1, mode, Append(current, c))
      Closes == IF At(1) # 0 /\ ~isspace(At(1)) THEN Null
                ELSE <<current, next>>
  IN  CASE mode = "inq" ->
             CASE /\ At(0) = Backslash /\ At(1) = 120
                  /\ is_hex_digit(At(2)) /\ is_hex_digit(At(3)) ->
                    Takes(16 * hex_digit_to_int(At(2)) + hex_digit_to_int(At(3)), 3)
               [] At(0) = Backslash /\ At(1) # 0
                  /\ ~(At(1) = 120 /\ is_hex_digit(At(2)) /\ is_hex_digit(At(3))) ->
                    Takes(Unescaped(At(1)), 1)
               [] At(0) = Quote -> Closes
               [] At(0) = 0 -> Null
               [] OTHER -> Takes(At(0), 0)
        [] mode = "insq" ->
             CASE At(0) = Backslash /\ At(1) = SingleQuote -> Takes(SingleQuote, 1)
               [] At(0) = SingleQuote -> Closes
               [] At(0) = 0 -> Null
               [] OTHER -> Takes(At(0), 0)
        [] mode = "" ->
             CASE At(0) \in {32, 10, 13, 9, 0} -> <<current, next>>
               [] At(0) = Quote -> TokenFrom(line, p + 1, "inq", current)
               [] At(0) = SingleQuote -> TokenFrom(line, p + 1, "insq", current)
               [] OTHER -> Takes(At(0), 0)

RECURSIVE ArgsFrom(_, _, _)
ArgsFrom(line, p, vector) ==
  IF ByteAt(line, p) # 0 /\ isspace(line[p]) THEN ArgsFrom(line, p + 1, vector)
  ELSE IF ByteAt(line, p) = 0 THEN vector
  ELSE LET t == TokenFrom(line, p, "", <<>>)
       IN  IF t = Null THEN Null ELSE ArgsFrom(line, t[2], Append(vector, t[1]))

(* The line is a C string: it ends at its first zero. *)
sdssplitargs(line) == ArgsFrom(line, 1, <<>>)

-----------------------------------------------------------------------------
(* The doubly linked list (adlist.c): nodes by their address, 0 is NULL.   *)

listCreate == [head |-> 0, tail |-> 0, len |-> 0, node |-> [n \in {} |-> 0]]

NewAddress(l) == CHOOSE n \in 1..Cardinality(DOMAIN l.node) + 1 : n \notin DOMAIN l.node
Allocated(l, n, x) == [l EXCEPT !.node = (n :> x) @@ @, !.len = @ + 1]
SetNext(l, n, x) == IF n = 0 THEN l ELSE [l EXCEPT !.node[n].next = x]
SetPrev(l, n, x) == IF n = 0 THEN l ELSE [l EXCEPT !.node[n].prev = x]

listAddNodeHead(l, value) ==
  LET n == NewAddress(l)
      m == Allocated(l, n, [prev |-> 0, next |-> l.head, value |-> value])
  IN  IF l.len = 0 THEN [m EXCEPT !.head = n, !.tail = n]
      ELSE [SetPrev(m, l.head, n) EXCEPT !.head = n]

listAddNodeTail(l, value) ==
  LET n == NewAddress(l)
      m == Allocated(l, n, [prev |-> l.tail, next |-> 0, value |-> value])
  IN  IF l.len = 0 THEN [m EXCEPT !.head = n, !.tail = n]
      ELSE [SetNext(m, l.tail, n) EXCEPT !.tail = n]

listInsertNode(l, old, value, after) ==
  LET n == NewAddress(l)
      x == IF after THEN [prev |-> old, next |-> l.node[old].next, value |-> value]
           ELSE [prev |-> l.node[old].prev, next |-> old, value |-> value]
      m == Allocated(l, n, x)
      ends == [m EXCEPT !.tail = IF after /\ @ = old THEN n ELSE @,
                        !.head = IF ~after /\ @ = old THEN n ELSE @]
  IN  SetPrev(SetNext(ends, x.prev, n), x.next, n)

listDelNode(l, n) ==
  LET x == l.node[n]
      a == IF x.prev # 0 THEN SetNext(l, x.prev, x.next) ELSE [l EXCEPT !.head = x.next]
      b == IF x.next # 0 THEN SetPrev(a, x.next, x.prev) ELSE [a EXCEPT !.tail = x.prev]
  IN  [b EXCEPT !.node = [k \in DOMAIN @ \ {n} |-> @[k]], !.len = @ - 1]

listRotateTailToHead(l) ==
  LET t == l.tail
      a == SetNext([l EXCEPT !.tail = l.node[t].prev], l.node[t].prev, 0)
      b == SetPrev(a, l.head, t)
  IN  IF l.len <= 1 THEN l
      ELSE [b EXCEPT !.node[t].prev = 0, !.node[t].next = l.head, !.head = t]

listRotateHeadToTail(l) ==
  LET h == l.head
      a == SetPrev([l EXCEPT !.head = l.node[h].next], l.node[h].next, 0)
      b == SetNext(a, l.tail, h)
  IN  IF l.len <= 1 THEN l
      ELSE [b EXCEPT !.node[h].next = 0, !.node[h].prev = l.tail, !.tail = h]

listEmpty(l) == [l EXCEPT !.head = 0, !.tail = 0, !.len = 0, !.node = [n \in {} |-> 0]]

(* The nodes of o, another list, become nodes of l. *)
listJoin(l, o) ==
  LET m == [l EXCEPT !.node = o.node @@ @]
      a == SetPrev(m, o.head, l.tail)
      b == IF l.tail # 0 THEN SetNext(a, l.tail, o.head) ELSE [a EXCEPT !.head = o.head]
  IN  IF o.len = 0 THEN l ELSE [b EXCEPT !.tail = o.tail, !.len = @ + o.len]

listRewind(l) == [next |-> l.head, forward |-> TRUE]
listRewindTail(l) == [next |-> l.tail, forward |-> FALSE]

listNext(l, iter) ==
  IF iter.next = 0 THEN iter
  ELSE [iter EXCEPT !.next = IF iter.forward THEN l.node[@].next ELSE l.node[@].prev]

RECURSIVE ListWalk(_, _)
ListWalk(l, iter) ==
  IF iter.next = 0 THEN <<>> ELSE <<iter.next>> \o ListWalk(l, listNext(l, iter))

listDup(l) ==
  FoldLeft(LAMBDA copy, n : listAddNodeTail(copy, l.node[n].value), listCreate,
           ListWalk(l, listRewind(l)))

listSearchKey(l, key) ==
  LET walk == ListWalk(l, listRewind(l))
      i == SelectInSeq(walk, LAMBDA n : l.node[n].value = key)
  IN  IF i = 0 THEN 0 ELSE walk[i]

RECURSIVE Steps(_, _, _, _)
Steps(l, n, index, forward) ==
  IF index = 0 \/ n = 0 THEN n
  ELSE Steps(l, IF forward THEN l.node[n].next ELSE l.node[n].prev, index - 1, forward)

listIndex(l, index) ==
  IF index < 0 THEN Steps(l, l.tail, -index - 1, FALSE) ELSE Steps(l, l.head, index, TRUE)

-----------------------------------------------------------------------------
(* The zipmap (zipmap.c): a header, which counts the entries up to         *)
(* ZIPMAP_BIGLEN, and the entries, a key, a value and some free bytes      *)
(* each.  A string is its length and its name: <<length, name>>.           *)

zipmapNew == [zmlen |-> 0, entries |-> <<>>, size |-> 2]

zipmapEncodeLength(len) == IF len < ZIPMAP_BIGLEN THEN 1 ELSE 5

zipmapRequiredLength(klen, vlen) ==
  klen + vlen + 3 + (IF klen >= ZIPMAP_BIGLEN THEN 4 ELSE 0) + (IF vlen >= ZIPMAP_BIGLEN THEN 4 ELSE 0)

zipmapRawKeyLength(e) == zipmapEncodeLength(e.key[1]) + e.key[1]
zipmapRawValueLength(e) == zipmapEncodeLength(e.val[1]) + e.free + 1 + e.val[1]
zipmapRawEntryLength(e) == zipmapRawKeyLength(e) + zipmapRawValueLength(e)

(* The entry with a key, 0 if there is none. *)
zipmapLookupRaw(zm, key) == SelectInSeq(zm.entries, LAMBDA e : e.key = key)

zipmapBlobLen(zm) == FoldLeft(LAMBDA n, e : n + zipmapRawEntryLength(e), 2, zm.entries)

zipmapSet(zm, key, val) ==
  LET reqlen == zipmapRequiredLength(key[1], val[1])
      i == zipmapLookupRaw(zm, key)
      zmlen == zipmapBlobLen(zm)
      had == zipmapRawEntryLength(zm.entries[i])
      freelen == IF i = 0 \/ had < reqlen THEN reqlen ELSE had
      grown == IF i = 0 THEN zmlen + reqlen ELSE IF had < reqlen THEN zmlen - had + reqlen ELSE zmlen
      empty == freelen - reqlen
      much == empty >= ZIPMAP_VALUE_MAX_FREE
      e == [key |-> key, val |-> val, free |-> IF much THEN 0 ELSE empty]
  IN  [zmlen |-> IF i = 0 /\ zm.zmlen < ZIPMAP_BIGLEN THEN zm.zmlen + 1 ELSE zm.zmlen,
       entries |-> IF i = 0 THEN Append(zm.entries, e) ELSE [zm.entries EXCEPT ![i] = e],
       size |-> IF much THEN grown - empty ELSE grown]

zipmapDel(zm, key) ==
  LET i == zipmapLookupRaw(zm, key)
  IN  IF i = 0 THEN zm
      ELSE [zmlen |-> IF zm.zmlen < ZIPMAP_BIGLEN THEN zm.zmlen - 1 ELSE zm.zmlen,
            entries |-> RemoveAt(zm.entries, i),
            size |-> zipmapBlobLen(zm) - zipmapRawEntryLength(zm.entries[i])]

zipmapGet(zm, key) ==
  LET i == zipmapLookupRaw(zm, key) IN IF i = 0 THEN <<>> ELSE <<zm.entries[i].val>>

(* The number of entries, which is stored if it is small enough again. *)
zipmapLen(zm) == IF zm.zmlen < ZIPMAP_BIGLEN THEN zm.zmlen ELSE Len(zm.entries)
zipmapLenStored(zm) ==
  IF zm.zmlen >= ZIPMAP_BIGLEN /\ Len(zm.entries) < ZIPMAP_BIGLEN
  THEN [zm EXCEPT !.zmlen = Len(zm.entries)] ELSE zm

(* The end mark is the byte after the entries, and the last of the block. *)
zipmapValidateIntegrity(zm) ==
  /\ zm.size >= 2
  /\ zipmapBlobLen(zm) = zm.size
  /\ zm.zmlen = ZIPMAP_BIGLEN \/ zm.zmlen = Len(zm.entries)

-----------------------------------------------------------------------------
(* Compression (lzf_c.c, lzf_d.c).  A byte is a number below LZF_BYTE, the *)
(* first byte of a literal run is below MAX_LIT and that of a reference    *)
(* holds its length times MAX_LIT and the upper part of its offset.        *)

LZF_LONG == (LZF_BYTE \div MAX_LIT) - 1
MAX_OFF == MAX_LIT * LZF_BYTE
MAX_REF == LZF_BYTE + LZF_LONG + 1

(* ip counts the bytes read; op is the output, with the first byte of the  *)
(* open run of lit literals, which is still to be written.  top is the     *)
(* furthest byte written.                                                  *)
lzf_start(in, out_len) ==
  [in |-> in, out_len |-> out_len, ip |-> 0, op |-> <<Garbage>>, lit |-> 0, top |-> 0,
   done |-> FALSE]

Fails(c) == [c EXCEPT !.done = TRUE, !.op = <<>>, !.lit = 0]

Writes(c, n) == [c EXCEPT !.top = Most(@, n)]

(* The end of a run; a run of no literals is written and undone. *)
StopRun(op, lit) ==
  IF lit = 0 THEN Front(op) ELSE [op EXCEPT ![Len(op) - lit] = lit - 1]

Literal(c) ==
  LET op == Append(c.op, c.in[c.ip + 1])
      d == Writes(c, Len(op))
  IN  IF c.lit + 1 = MAX_LIT
      THEN [d EXCEPT !.ip = @ + 1, !.lit = 0, !.op = Append(StopRun(op, MAX_LIT), Garbage)]
      ELSE [d EXCEPT !.ip = @ + 1, !.lit = @ + 1, !.op = op]

InLoop(c) == ~c.done /\ c.ip < Len(c.in) - 2

(* The positions a slot of the hash table may hold that pass the test: the *)
(* table is not initialised and its hash is not modelled, so any earlier   *)
(* one with the same three bytes, but not the first of the input.          *)
Candidates(c) ==
  {r \in 1..c.ip - 1 : /\ c.ip - r - 1 < MAX_OFF
                       /\ \A k \in 1..3 : c.in[r + k] = c.in[c.ip + k]}

(* The length of the match: the first LZF_UNROLLED bytes are compared      *)
(* without a test of the bound.                                            *)
MatchLength(c, r) ==
  LET maxlen == Least(Len(c.in) - c.ip - 2, MAX_REF)
      Differs(k) == c.in[r + k + 1] # c.in[c.ip + k + 1]
      First(from) == CHOOSE k \in from + 1..Most(from + 1, maxlen) :
                       /\ k >= maxlen \/ Differs(k)
                       /\ \A j \in from + 1..k - 1 : ~Differs(j)
      early == {k \in 3..2 + LZF_UNROLLED : Differs(k)}
  IN  IF maxlen <= LZF_UNROLLED THEN First(2)
      ELSE IF early # {} THEN CHOOSE k \in early : \A j \in early : k <= j
      ELSE First(2 + LZF_UNROLLED)

lzf_match(c, r) ==
  LET n == MatchLength(c, r)
      off == c.ip - r - 1
      len == n - 2
      room == Len(c.op) - (IF c.lit = 0 THEN 1 ELSE 0) + 4 < c.out_len
      ref == IF len < LZF_LONG THEN <<(off \div LZF_BYTE) + len * MAX_LIT, off % LZF_BYTE>>
             ELSE <<(off \div LZF_BYTE) + LZF_LONG * MAX_LIT, len - LZF_LONG, off % LZF_BYTE>>
      op == StopRun(c.op, c.lit) \o ref
  IN  IF ~room THEN Fails(c)
      ELSE [Writes(Writes(c, IF c.lit = 0 THEN Len(c.op) ELSE 0), Len(op)) EXCEPT
              !.ip = @ + n, !.lit = 0, !.op = Append(op, Garbage)]

lzf_literal(c) == IF Len(c.op) >= c.out_len THEN Fails(c) ELSE Literal(c)

RECURSIVE Literals(_)
Literals(c) == IF c.ip < Len(c.in) THEN Literals(Literal(c)) ELSE c

lzf_end(c) ==
  LET t == Literals(c)
  IN  IF Len(c.op) + 3 > c.out_len THEN Fails(c)
      ELSE [Writes(t, IF t.lit = 0 THEN Len(t.op) ELSE 0) EXCEPT
              !.op = StopRun(t.op, t.lit), !.lit = 0, !.done = TRUE]

(* What in expands to in a buffer of out_len bytes; Null is an error. *)
RECURSIVE CopyFrom(_, _, _)
CopyFrom(out, r, n) == IF n = 0 THEN out ELSE CopyFrom(Append(out, out[r + 1]), r + 1, n - 1)

RECURSIVE Expand(_, _, _, _)
Expand(in, ip, out, out_len) ==
  LET ctrl == in[ip + 1]
      n == ctrl + 1
      long == ctrl \div MAX_LIT = LZF_LONG
      at == IF long THEN ip + 2 ELSE ip + 1
      len == (IF long THEN LZF_LONG + in[ip + 2] ELSE ctrl \div MAX_LIT) + 2
      r == Len(out) - (ctrl % MAX_LIT) * LZF_BYTE - 1 - in[at + 1]
  IN  IF ip >= Len(in) THEN out
      ELSE IF ctrl < MAX_LIT
      THEN IF Len(out) + n > out_len \/ ip + 1 + n > Len(in) THEN Null
           ELSE Expand(in, ip + 1 + n, out \o SubSeq(in, ip + 2, ip + 1 + n), out_len)
      ELSE IF ip + 1 >= Len(in) \/ at >= Len(in) THEN Null
      ELSE IF Len(out) + len > out_len \/ r < 0 THEN Null
      ELSE Expand(in, at + 1, CopyFrom(out, r, len), out_len)

lzf_decompress(in, out_len) == Expand(in, 0, <<>>, out_len)

-----------------------------------------------------------------------------
(* The partial quicksort (pqsort.c) of SORT ... LIMIT: only lrange..rrange *)
(* has to be right afterwards.  Positions count from 0.                    *)

Swap(a, i, j) == [a EXCEPT ![i + 1] = a[j + 1], ![j + 1] = a[i + 1]]
VecSwap(a, i, j, n) == FoldLeft(LAMBDA b, k : Swap(b, i + k - 1, j + k - 1), a, [k \in 1..n |-> k])
cmp(a, i, j) == a[i + 1] - a[j + 1]

med3(a, i, j, k) ==
  IF cmp(a, i, j) < 0
  THEN IF cmp(a, j, k) < 0 THEN j ELSE IF cmp(a, i, k) < 0 THEN k ELSE i
  ELSE IF cmp(a, j, k) > 0 THEN j ELSE IF cmp(a, i, k) < 0 THEN i ELSE k

RECURSIVE Sink(_, _, _)
Sink(a, lo, pl) ==
  IF pl > lo /\ cmp(a, pl - 1, pl) > 0 THEN Sink(Swap(a, pl, pl - 1), lo, pl - 1) ELSE a

InsertionSort(a, lo, n) ==
  FoldLeft(LAMBDA b, k : Sink(b, lo, lo + k), a, [k \in 1..n - 1 |-> k])

Pivot(a, lo, n) ==
  LET d == n \div pqsort_parts
      m == lo + (n \div 2)
      h == lo + n - 1
  IN  IF n <= pqsort_small THEN m
      ELSE IF n <= pqsort_large THEN med3(a, lo, m, h)
      ELSE med3(a, med3(a, lo, lo + d, lo + 2 * d), med3(a, m - d, m, m + d),
                med3(a, h - 2 * d, h - d, h))

(* The two scans: the elements equal to the first one are put aside at the *)
(* two ends.                                                               *)
RECURSIVE ScanUp(_, _)
ScanUp(p, lo) ==
  LET c == cmp(p.a, p.pb, lo)
  IN  IF p.pb > p.pc \/ c > 0 THEN p
      ELSE ScanUp(IF c = 0 THEN [p EXCEPT !.a = Swap(@, p.pa, p.pb), !.pa = @ + 1, !.pb = @ + 1]
                  ELSE [p EXCEPT !.pb = @ + 1], lo)

RECURSIVE ScanDown(_, _)
ScanDown(p, lo) ==
  LET c == cmp(p.a, p.pc, lo)
  IN  IF p.pb > p.pc \/ c < 0 THEN p
      ELSE ScanDown(IF c = 0 THEN [p EXCEPT !.a = Swap(@, p.pc, p.pd), !.pd = @ - 1, !.pc = @ - 1]
                    ELSE [p EXCEPT !.pc = @ - 1], lo)

RECURSIVE Partition(_, _)
Partition(p, lo) ==
  LET q == ScanDown(ScanUp(p, lo), lo)
  IN  IF q.pb > q.pc THEN q
      ELSE Partition([q EXCEPT !.a = Swap(@, q.pb, q.pc), !.pb = @ + 1, !.pc = @ - 1], lo)

Meets(lo, n, lrange, rrange) ==
  ~((lrange < lo /\ rrange < lo) \/ (lrange > lo + n - 1 /\ rrange > lo + n - 1))

RECURSIVE _pqsort(_, _, _, _, _)
_pqsort(a, lo, n, lrange, rrange) ==
  LET p == Partition([a |-> Swap(a, lo, Pivot(a, lo, n)), pa |-> lo + 1, pb |-> lo + 1,
                      pc |-> lo + n - 1, pd |-> lo + n - 1], lo)
      pn == lo + n
      r1 == Least(p.pa - lo, p.pb - p.pa)
      r2 == Least(p.pd - p.pc, pn - p.pd - 1)
      b == VecSwap(VecSwap(p.a, lo, p.pb - r1, r1), p.pb, pn - r2, r2)
      left == p.pb - p.pa
      right == p.pd - p.pc
      Part(x, from, m) == IF m > 1 /\ Meets(from, m, lrange, rrange)
                          THEN _pqsort(x, from, m, lrange, rrange) ELSE x
  IN  IF n < pqsort_small THEN InsertionSort(a, lo, n)
      ELSE Part(Part(b, lo, left), pn - right, right)

pqsort(a, lrange, rrange) == _pqsort(a, 0, Len(a), lrange, rrange)

-----------------------------------------------------------------------------
(* The pool of keys to evict (evict.c): entries by increasing idle time,   *)
(* each with memory of its own for a key.  Its key is NULL, its memory or a*)
(* copy of a long key.  A key is <<length, name>>.                         *)

NoKey == <<0, "">>

evictionPoolAlloc ==
  [pool |-> [k \in 1..EVPOOL_SIZE |->
               [key |-> "NULL", copy |-> NoKey, cached |-> k, idle |-> 0, dbid |-> 0]],
   memory |-> [k \in 1..EVPOOL_SIZE |-> NoKey], bestkey |-> <<>>]

PoolKey(st, e) == IF e.key = "copy" THEN e.copy ELSE st.memory[e.cached]

estimateObjectIdleTime(lru, lruclock) ==
  IF lruclock >= lru THEN lruclock - lru ELSE lruclock + (LRU_CLOCK_MAX - lru)

LFUTimeElapsed(ldt, now) == IF now >= ldt THEN now - ldt ELSE LFU_TIME_MAX - ldt + now

LFUDecrAndReturn(o, now, decay_time) ==
  LET num_periods == IF decay_time = 0 THEN 0 ELSE LFUTimeElapsed(o.ldt, now) \div decay_time
  IN  Most(0, o.counter - num_periods)

(* The score of a sample by the policy: the higher, the better a candidate.*)
IdleBy(policy, o, now) ==
  CASE policy.name = "lru" -> estimateObjectIdleTime(o.lru, now)
    [] policy.name = "lfu" -> LFU_COUNTER_MAX - LFUDecrAndReturn(o, now, policy.decay_time)
    [] policy.name = "ttl" -> policy.ULLONG_MAX - o.expire

(* Place k (from 1) gets the key. *)
PoolPut(st, k, key, idle, dbid) ==
  LET long == key[1] > EVPOOL_CACHED_SDS_SIZE
      e == [st.pool[k] EXCEPT !.key = IF long THEN "copy" ELSE "cached",
                              !.copy = IF long THEN key ELSE NoKey, !.idle = idle, !.dbid = dbid]
  IN  [st EXCEPT !.pool[k] = e,
                 !.memory[st.pool[k].cached] = IF long THEN @ ELSE key]

(* k entries are worse than the key.  If there is room the others move to  *)
(* the right, else the worst is dropped and the k move to the left; the    *)
(* memory of the entry that is overwritten goes to the new one.            *)
\* Mutant: the new entry keeps the memory of the one that moved.
ShiftedRightShared(pool, k) ==
  [i \in 1..EVPOOL_SIZE |-> IF i <= k + 1 THEN pool[i] ELSE pool[i - 1]]

ShiftedRight(pool, k) ==
  [i \in 1..EVPOOL_SIZE |->
     IF i <= k THEN pool[i]
     ELSE IF i = k + 1 THEN [pool[i] EXCEPT !.cached = pool[EVPOOL_SIZE].cached]
     ELSE pool[i - 1]]

ShiftedLeft(pool, k) ==
  [i \in 1..EVPOOL_SIZE |->
     IF i < k THEN pool[i + 1]
     ELSE IF i = k THEN [pool[i] EXCEPT !.cached = pool[1].cached]
     ELSE pool[i]]

PoolInsert(st, key, idle, dbid) ==
  LET pool == st.pool
      k == Cardinality({i \in 1..EVPOOL_SIZE :
             \A j \in 1..i : pool[j].key # "NULL" /\ pool[j].idle < idle})
      full == pool[EVPOOL_SIZE].key # "NULL"
  IN  CASE k = 0 /\ full -> st
        [] ~full /\ pool[k + 1].key = "NULL" -> PoolPut(st, k + 1, key, idle, dbid)
        [] ~full /\ pool[k + 1].key # "NULL" ->
             PoolPut([st EXCEPT !.pool = ShiftedRight(@, k)], k + 1, key, idle, dbid)
        [] OTHER -> PoolPut([st EXCEPT !.pool = ShiftedLeft(@, k)], k, key, idle, dbid)

(* samples are [dbid, key, o], those of the first database first. *)
evictionPoolPopulate(st, samples, policy, now) ==
  FoldLeft(LAMBDA t, x : PoolInsert(t, x.key, IdleBy(policy, x.o, now), x.dbid), st, samples)

(* From the best entry to the worst: each leaves the pool, until one is of *)
(* a key that is still there (keys are <<dbid, key>>).                     *)
RECURSIVE PoolPick(_, _, _)
PoolPick(st, k, keys) ==
  LET e == st.pool[k]
      taken == [st EXCEPT !.pool[k].key = "NULL", !.pool[k].idle = 0]
      key == <<e.dbid, PoolKey(st, e)>>
  IN  CASE k = 0 -> [st EXCEPT !.bestkey = <<>>]
        [] k > 0 /\ e.key = "NULL" -> PoolPick(st, k - 1, keys)
        [] OTHER -> IF key \in keys THEN [taken EXCEPT !.bestkey = key]
                    ELSE PoolPick(taken, k - 1, keys)

(* One round of performEvictions; it takes another if bestkey is <<>>.     *)
evictionRound(st, samples, policy, now, keys) ==
  PoolPick(evictionPoolPopulate(st, samples, policy, now), EVPOOL_SIZE, keys)

(* The empty entries are the last ones, and no two share their memory. *)
PoolSound(st) ==
  /\ \A k \in 2..EVPOOL_SIZE : st.pool[k].key # "NULL" => st.pool[k - 1].key # "NULL"
  /\ {st.pool[k].cached : k \in 1..EVPOOL_SIZE} = 1..EVPOOL_SIZE

-----------------------------------------------------------------------------
(* The latencies of an event (latency.c): a ring of samples, the highest of*)
(* a second each; the time of an unused one is 0.                          *)

latencyTimeSeries ==
  [idx |-> 0, max |-> 0, samples |-> [j \in 0..LATENCY_TS_LEN - 1 |-> [time |-> 0, latency |-> 0]]]

(* ts is <<>> if there is no sample of the event. *)
latencyAddSample(ts, latency, now) ==
  LET t == IF ts = <<>> THEN latencyTimeSeries ELSE ts[1]
      u == [t EXCEPT !.max = Most(@, latency)]
      prev == (u.idx + LATENCY_TS_LEN - 1) % LATENCY_TS_LEN
  IN  IF u.samples[prev].time = now
      THEN <<[u EXCEPT !.samples[prev].latency = Most(@, latency)]>>
      ELSE <<[u EXCEPT !.samples[u.idx] = [time |-> now, latency |-> latency],
                       !.idx = IF @ + 1 = LATENCY_TS_LEN THEN 0 ELSE @ + 1]>>

(* events: the time series by their names. *)
latencyResetEvent(events, event_to_reset) ==
  [e \in DOMAIN events |-> IF event_to_reset \in {"NULL", e} THEN <<>> ELSE events[e]]

analyzeLatencyForEvent(ts, now) ==
  LET used == SelectSeq([j \in 1..LATENCY_TS_LEN |-> ts[1].samples[j - 1]], LAMBDA x : x.time # 0)
      n == Len(used)
      Sum(q) == FoldLeft(+, 0, q)
      latencies == {used[j].latency : j \in 1..n}
      avg == Sum([j \in 1..n |-> used[j].latency]) \div n
      delta == [j \in 1..n |-> Most(avg - used[j].latency, used[j].latency - avg)]
  IN  IF ts = <<>>
      THEN [all_time_high |-> 0, avg |-> 0, min |-> 0, max |-> 0, mad |-> 0, samples |-> 0, period |-> 0]
      ELSE [all_time_high |-> ts[1].max, avg |-> avg, min |-> Min(latencies), max |-> Max(latencies),
            mad |-> Sum(delta) \div n, samples |-> n,
            period |-> Most(1, now - Min({used[j].time : j \in 1..n}))]
=============================================================================
