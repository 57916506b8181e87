------------------------------ MODULE Ziplist -------------------------------
(***************************************************************************)
(* The ziplist (ziplist.c): a list of strings and integers in one block of *)
(* memory.  An entry begins with the length of the entry before it, in one *)
(* byte or in five, so that the list can be walked from its tail; a change *)
(* of an entry's size can change the size of the next one, and so on to    *)
(* the end of the block.                                                   *)
(*                                                                         *)
(* Abstractions.  The block is the sequence of its entries, and a pointer  *)
(* into it is a byte offset: the three fields of the header, the size of   *)
(* every field of an entry and the length it stores for its predecessor    *)
(* are kept, the bytes of a payload are not.  A string is <<"str", name,   *)
(* length>> and the decimal form of an integer is <<"int", number>>.  The  *)
(* limit of the 32 bit integers is a constant, so that an integer of TLC   *)
(* can lie beyond it.                                                      *)
(***************************************************************************)
EXTENDS Integers, Sequences

LOCAL INSTANCE SequencesExt
LOCAL INSTANCE FiniteSetsExt

CONSTANTS
  UINT16_MAX,   \* the greatest length the header of a block can hold
  INT32_MAX     \* the greatest integer stored in four bytes

HeaderSize == 10
EndSize == 1
Big == 254
Delta == 4

-----------------------------------------------------------------------------
(* Entries *)

Between(v, max) == v >= -max - 1 /\ v <= max

(* The smallest encoding that holds a value. *)
zipTryEncoding(v) ==
  IF v[1] = "str" THEN "str"
  ELSE CASE v[2] >= 0 /\ v[2] <= 12  -> "imm"
         [] Between(v[2], 127)       -> "8b"
         [] Between(v[2], 32767)     -> "16b"
         [] Between(v[2], 8388607)   -> "24b"
         [] Between(v[2], INT32_MAX) -> "32b"
         [] OTHER -> "64b"

zipIntSize(enc) ==
  CASE enc = "imm" -> 0 [] enc = "8b" -> 1 [] enc = "16b" -> 2
    [] enc = "24b" -> 3 [] enc = "32b" -> 4 [] enc = "64b" -> 8

zipStoreEntryEncoding(enc, len) ==
  CASE enc # "str"  -> 1
    [] len <= 63    -> 1
    [] len <= 16383 -> 2
    [] OTHER        -> 5

zipStorePrevEntryLength(len) == IF len < Big THEN 1 ELSE 5

(* The integer that is read back: the stored bytes, sign extended. *)
zipLoadInteger(n, enc) ==
  LET m == CASE enc = "8b" -> 128 [] enc = "16b" -> 32768
             [] enc = "24b" -> 8388608 [] enc = "32b" -> INT32_MAX + 1
             [] OTHER -> 0
  IN  IF m = 0 THEN n ELSE ((n + m) % (2 * m)) - m

Encoded(v) ==
  LET enc == zipTryEncoding(v)
  IN  [enc |-> enc, v |-> IF enc = "str" THEN v
                          ELSE <<"int", zipLoadInteger(v[2], enc)>>]

Payload(c) ==
  IF c.enc = "str" THEN zipStoreEntryEncoding("str", c.v[3]) + c.v[3]
  ELSE zipStoreEntryEncoding(c.enc, 0) + zipIntSize(c.enc)

(* An entry: the width of the field for the length of the previous entry,  *)
(* that length, and the content.                                           *)
Entry(width, prevlen, c) == [width |-> width, prevlen |-> prevlen, c |-> c]
RawLen(e) == e.width + Payload(e.c)

StorePrevlen(e, len) ==
  [e EXCEPT !.width = zipStorePrevEntryLength(len), !.prevlen = len]

StorePrevlenLarge(e, len) == [e EXCEPT !.width = 5, !.prevlen = len]

-----------------------------------------------------------------------------
(* Blocks and positions *)

ziplistNew == [bytes |-> HeaderSize + EndSize, tail |-> HeaderSize, len |-> 0,
               es |-> <<>>, ok |-> TRUE]

SizeOf(es) == FoldLeft(LAMBDA n, e : n + RawLen(e), 0, es)

OffsetOf(zl, i) == HeaderSize + SizeOf(SubSeq(zl.es, 1, i - 1))

End(zl) == zl.bytes - EndSize

(* The entry at an offset: one past the last for ZIP_END, and 0 where no   *)
(* entry begins, which the code meets as an invalid entry.                 *)
IndexAt(zl, p) ==
  LET I == {i \in 1..Len(zl.es) + 1 : OffsetOf(zl, i) = p}
  IN  IF I = {} THEN 0 ELSE CHOOSE i \in I : TRUE

AtEnd(zl, p) == p = End(zl)
At(zl, p) == zl.es[IndexAt(zl, p)]

Head1(zl) == HeaderSize
Nil == 0

(* The next entry, or nil. *)
ziplistNext(zl, p) ==
  IF AtEnd(zl, p) THEN Nil
  ELSE LET q == p + RawLen(At(zl, p)) IN IF AtEnd(zl, q) THEN Nil ELSE q

(* The previous entry, found with the length stored in this one. *)
ziplistPrev(zl, p) ==
  CASE AtEnd(zl, p) -> IF AtEnd(zl, zl.tail) THEN Nil ELSE zl.tail
    [] ~AtEnd(zl, p) /\ p = Head1(zl) -> Nil
    [] OTHER -> p - At(zl, p).prevlen

(* The entry with an index, counted from the tail when it is negative. *)
ziplistIndex(zl, index) ==
  LET Back[n \in Nat, p \in Int] ==
        IF AtEnd(zl, p) THEN Nil
        ELSE IF n = 0 THEN p
        ELSE IF At(zl, p).prevlen = 0 THEN Nil
        ELSE Back[n - 1, p - At(zl, p).prevlen]
      Fwd[n \in Nat, p \in Int] ==
        IF AtEnd(zl, p) THEN Nil
        ELSE IF n = 0 THEN p ELSE Fwd[n - 1, p + RawLen(At(zl, p))]
  IN  IF index < 0 THEN Back[-index - 1, zl.tail] ELSE Fwd[index, Head1(zl)]

ziplistGet(zl, p) == At(zl, p).c.v

(* A string is compared by its bytes, an integer by its value. *)
ziplistCompare(zl, p, v) ==
  /\ ~AtEnd(zl, p)
  /\ IF At(zl, p).c.enc = "str" THEN v = At(zl, p).c.v
     ELSE v[1] = "int" /\ v[2] = At(zl, p).c.v[2]

(* The first entry equal to v, of those skip entries apart. *)
ziplistFind(zl, p, v, skip) ==
  LET Walk[q \in Int, skipcnt \in Nat] ==
        IF AtEnd(zl, q) THEN Nil
        ELSE IF skipcnt = 0 /\ ziplistCompare(zl, q, v) THEN q
        ELSE Walk[q + RawLen(At(zl, q)),
                  IF skipcnt = 0 THEN skip ELSE skipcnt - 1]
  IN  Walk[p, 0]

-----------------------------------------------------------------------------
(* Changes *)

ZIPLIST_INCR_LENGTH(zl, n) ==
  IF zl.len < UINT16_MAX THEN [zl EXCEPT !.len = @ + n] ELSE zl

\* Mutant: only the entry after the one that changed is looked at.
CascadeOnce(zl, p) ==
  LET i == IndexAt(zl, p) + 1
  IN  IF i > Len(zl.es) THEN zl
      ELSE LET n == RawLen(zl.es[i - 1])
           IN  IF zl.es[i].width >= zipStorePrevEntryLength(n)
               THEN [zl EXCEPT !.es[i] = [@ EXCEPT !.prevlen = n]]
               ELSE [zl EXCEPT !.es[i] = StorePrevlenLarge(@, n),
                               !.bytes = @ + Delta,
                               !.tail = IF i = Len(zl.es) THEN @ ELSE @ + Delta]

(* The entry at p has changed its size.  The first loop finds the run of   *)
(* entries whose one byte field has become too small and stops at the      *)
(* first that is right or large enough (whose field it overwrites, never   *)
(* shrinking it); the second moves the run and writes the larger fields.   *)
__ziplistCascadeUpdate(zl, p) ==
  LET n == Len(zl.es)
      i == IndexAt(zl, p)
      first == RawLen(zl.es[i])
      Loop[j \in 2..n + 1, prevlen \in Nat] ==
        IF j > n \/ (j <= n /\ zl.es[j].prevlen = prevlen)
        THEN [stop |-> j, es |-> zl.es, ok |-> TRUE]
        ELSE IF zl.es[j].width >= zipStorePrevEntryLength(prevlen)
        THEN [stop |-> j, ok |-> TRUE,
              es |-> [zl.es EXCEPT ![j] =
                        IF @.width = zipStorePrevEntryLength(prevlen)
                        THEN StorePrevlen(@, prevlen)
                        ELSE StorePrevlenLarge(@, prevlen)]]
        ELSE LET l == Loop[j + 1, RawLen(zl.es[j]) + Delta]
             IN  [l EXCEPT !.ok = @ /\ \/ zl.es[j].prevlen = 0
                                       \/ zl.es[j].prevlen + Delta = prevlen]
      Moved(e) == IF e.prevlen = 0 THEN StorePrevlen(e, first)
                  ELSE StorePrevlen(e, e.prevlen + Delta)
      Done(l) ==
        LET cnt == l.stop - i - 1
            extra == cnt * Delta
            last == l.stop - 1
        IN  [zl EXCEPT
              !.es = [j \in 1..n |-> IF j > i /\ j <= last THEN Moved(l.es[j])
                                     ELSE l.es[j]],
              !.ok = @ /\ l.ok,
              !.bytes = @ + extra,
              !.tail = CASE cnt = 0 -> @
                         [] cnt > 0 /\ OffsetOf(zl, last) = zl.tail ->
                              @ + extra - Delta
                         [] OTHER -> @ + extra]
  IN  IF AtEnd(zl, p) THEN zl ELSE Done(Loop[i + 1, first])

(* num entries from p on are removed; the entry that follows them takes    *)
(* over the length the first of them stored.                               *)
__ziplistDelete(zl, p, num) ==
  LET n == Len(zl.es)
      i == IndexAt(zl, p)
      j == Min({n + 1, i + num})
      totlen == OffsetOf(zl, j) - p
      prevlen == zl.es[i].prevlen
      diff == IF j > n THEN 0
              ELSE zipStorePrevEntryLength(prevlen) - zl.es[j].width
      rest == IF j > n THEN <<>>
              ELSE <<StorePrevlen(zl.es[j], prevlen)>> \o SubSeq(zl.es, j + 1, n)
      cut == [zl EXCEPT !.es = SubSeq(zl.es, 1, i - 1) \o rest,
                        !.bytes = @ - totlen + diff,
                        !.ok = @ /\ totlen >= diff,
                        !.tail = IF j > n THEN p - prevlen
                                 ELSE @ - totlen + (IF j < n THEN diff ELSE 0)]
      counted == ZIPLIST_INCR_LENGTH(cut, -(j - i))
  IN  IF totlen = 0 THEN zl
      ELSE IF diff = 0 THEN counted ELSE __ziplistCascadeUpdate(counted, p)

(* The next entry keeps a field that is larger than it needs when the new  *)
(* entry is too small to pay for the four bytes.                           *)
ForceLarge(diff, reqlen) == diff = -4 /\ reqlen < 4

(* v is inserted before the entry at p. *)
__ziplistInsert(zl, p, v) ==
  LET n == Len(zl.es)
      i == IndexAt(zl, p)
      prevlen == CASE i <= n -> zl.es[i].prevlen
                   [] i > n /\ ~AtEnd(zl, zl.tail) -> RawLen(At(zl, zl.tail))
                   [] OTHER -> 0
      new == Entry(zipStorePrevEntryLength(prevlen), prevlen, Encoded(v))
      reqlen == RawLen(new)
      diff == IF i > n THEN 0
              ELSE zipStorePrevEntryLength(reqlen) - zl.es[i].width
      large == ForceLarge(diff, reqlen)
      nextdiff == IF large THEN 0 ELSE diff
      rest == IF i > n THEN <<>>
              ELSE <<IF large THEN StorePrevlenLarge(zl.es[i], reqlen)
                     ELSE StorePrevlen(zl.es[i], reqlen)>> \o SubSeq(zl.es, i + 1, n)
      put == [zl EXCEPT !.es = SubSeq(zl.es, 1, i - 1) \o <<new>> \o rest,
                        !.bytes = @ + reqlen + nextdiff,
                        !.tail = CASE i > n -> p
                                   [] i = n -> @ + reqlen
                                   [] i < n -> @ + reqlen + nextdiff]
  IN  ZIPLIST_INCR_LENGTH(IF nextdiff = 0 THEN put
                          ELSE __ziplistCascadeUpdate(put, p + reqlen), 1)

(* second is appended to first.  Which of the two is kept in place makes   *)
(* no difference to the result.                                            *)
ziplistMerge(first, second) ==
  LET sum == first.len + second.len
      both == [bytes |-> first.bytes + second.bytes - HeaderSize - EndSize,
               len |-> IF sum < UINT16_MAX THEN sum ELSE UINT16_MAX,
               tail |-> first.bytes - EndSize + second.tail - HeaderSize,
               es |-> first.es \o second.es,
               ok |-> first.ok /\ second.ok]
  IN  __ziplistCascadeUpdate(both, first.tail)

ziplistPush(zl, v, where) ==
  __ziplistInsert(zl, IF where = "head" THEN Head1(zl) ELSE End(zl), v)

ziplistInsert(zl, p, v) == __ziplistInsert(zl, p, v)

(* The pointer of the caller stays where it is: at the entry that follows. *)
ziplistDelete(zl, p) == __ziplistDelete(zl, p, 1)

ziplistDeleteRange(zl, index, num) ==
  LET p == ziplistIndex(zl, index)
  IN  IF p = Nil THEN zl ELSE __ziplistDelete(zl, p, num)

(* A value of the same size is written over the old one. *)
ziplistReplace(zl, p, v) ==
  IF Payload(Encoded(v)) = Payload(At(zl, p).c)
  THEN [zl EXCEPT !.es[IndexAt(zl, p)].c = Encoded(v)]
  ELSE ziplistInsert(ziplistDelete(zl, p), p, v)

(* The length, counted when the header cannot hold it, and the block with  *)
(* the length stored when the header can hold it again.                    *)
ziplistLen(zl) ==
  IF zl.len < UINT16_MAX THEN zl.len ELSE Len(zl.es)

ziplistLenStored(zl) ==
  IF zl.len < UINT16_MAX \/ Len(zl.es) >= UINT16_MAX THEN zl
  ELSE [zl EXCEPT !.len = Len(zl.es)]

-----------------------------------------------------------------------------
(* Random entries of a block of pairs *)

(* The pairs at the picked indexes, in the order in which they were picked:*)
(* the picks are sorted, met in one walk, and stored at their places.      *)
ziplistRandomPairs(zl, picks) ==
  LET count == Len(picks)
      order == SetToSortSeq(1..count, LAMBDA a, b :
                 picks[a] < picks[b] \/ (picks[a] = picks[b] /\ a < b))
      Walk[p \in Int, zipindex \in Nat, k \in Nat] ==
        IF p = Nil \/ k > count THEN [x \in {} |-> Nil]
        ELSE LET q == ziplistNext(zl, p)
                 here == {h \in k..count : picks[order[h]] * 2 = zipindex}
                 rest == Walk[ziplistNext(zl, q), zipindex + 2,
                              k + Cardinality(here)]
             IN  [x \in DOMAIN rest \union {order[h] : h \in here} |->
                    IF x \in DOMAIN rest THEN rest[x]
                    ELSE <<ziplistGet(zl, p), ziplistGet(zl, q)>>]
  IN  Walk[ziplistIndex(zl, 0), 0, 1]

(* Every outcome of one walk that picks each pair with the probability     *)
(* remaining / left: never when it is 0, always when it is 1.              *)
ziplistRandomPairsUnique(zl, want) ==
  LET total == ziplistLen(zl) \div 2
      count == Min({want, total})
      Walk[p \in Int, index \in Nat, remaining \in Nat] ==
        IF remaining = 0 \/ p = Nil THEN {<<>>}
        ELSE LET q == ziplistNext(zl, p)
                 Rest(r) == Walk[ziplistNext(zl, q), index + 1, r]
                 pair == <<ziplistGet(zl, p), ziplistGet(zl, q)>>
             IN  {<<pair>> \o t : t \in Rest(remaining - 1)}
                 \union (IF remaining < total - index THEN Rest(remaining) ELSE {})
  IN  Walk[ziplistIndex(zl, 0), 0, count]

-----------------------------------------------------------------------------
(* What the code checks of a block it did not build itself. *)
ziplistValidateIntegrity(zl) ==
  LET n == Len(zl.es)
  IN  /\ zl.bytes = HeaderSize + SizeOf(zl.es) + EndSize
      /\ \A i \in 1..n :
           /\ zl.es[i].width = 1 => zl.es[i].prevlen < Big
           /\ zl.es[i].prevlen = IF i = 1 THEN 0 ELSE RawLen(zl.es[i - 1])
      /\ zl.tail = IF n = 0 THEN HeaderSize ELSE OffsetOf(zl, n)
      /\ zl.len = UINT16_MAX \/ zl.len = n

=============================================================================
