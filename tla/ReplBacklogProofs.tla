------------------------- MODULE ReplBacklogProofs -------------------------
(***************************************************************************)
(* The circular buffer of ReplBacklog sends the stream, for every size of  *)
(* the buffer, every length of the writes and every offset asked.          *)
(*                                                                         *)
(* The inductive invariant says where each byte of the history is: the     *)
(* k-th last byte written is k places before idx, around the end of the    *)
(* buffer (Stored).  The code needs it between any two passes of its       *)
(* loops, when histlen may exceed the size, and so does the proof.         *)
(***************************************************************************)
EXTENDS ReplBacklog, SequenceTheorems, TLAPS

\* The types of the variables.
TypeInv ==
  /\ size \in Nat \ {0} /\ idx \in 0 .. size - 1
  /\ buf \in [0 .. size - 1 -> Nat]
  /\ histlen \in Nat /\ off \in Nat /\ offset \in Nat
  /\ pc \in {"idle", "feed", "send"} /\ left \in Nat
  /\ j \in Nat /\ want \in Nat /\ sent \in Seq(Nat)

\* The place k bytes before idx.
Back(k) == IF k <= idx THEN idx - k ELSE (idx - k) + size

\* The offset of the last byte that is in the buffer.
Written == IF pc = "feed" THEN offset - left ELSE offset

\* The history is in the buffer, the k-th last byte k places before idx.
Stored ==
  /\ histlen <= Written
  /\ \A k \in 1 .. size : k <= histlen => buf[Back(k)] = (Written - k) + 1

\* Outside of feedReplicationBacklog the history fits, and off is its first byte.
Bounded == pc # "feed" => histlen <= size /\ off = (offset - histlen) + 1

\* The sending loop is left bytes from the end of the stream, reads at the byte
\* that is next and has sent the bytes from the offset asked up to that one.
Sending ==
  pc = "send" =>
    /\ left <= histlen
    /\ left > 0 => j = Back(left)
    /\ want + left <= offset + 1
    /\ Len(sent) = ((offset + 1) - left) - want
    /\ \A i \in 1 .. Len(sent) : sent[i] = (want + i) - 1

IInv == TypeInv /\ Stored /\ Bounded /\ Sending
-----------------------------------------------------------------------------

\* The remainder of a number below twice the divisor, which is all that the two
\* index computations of addReplyReplicationBacklog need.
LEMMA SmallRemainder ==
  ASSUME NEW s \in Nat \ {0}, NEW x \in Nat, x < 2 * s
  PROVE  x % s = IF x < s THEN x ELSE x - s
  OBVIOUS

\* createReplicationBacklog starts with an empty history.
LEMMA InitEstablishes == Init => IInv
<1> SUFFICES ASSUME Init PROVE IInv
  OBVIOUS
<1>1. TypeInv
  BY BacklogAssumption DEF Init, TypeInv
<1>2. Stored /\ Bounded /\ Sending
  BY <1>1 DEF Init, TypeInv, Stored, Bounded, Sending, Written
<1> QED
  BY <1>1, <1>2 DEF IInv

\* The offset advances before the first byte is copied, and so does the number of
\* bytes left: the history is untouched.
LEMMA FeedPreserves ==
  ASSUME IInv, NEW len \in 0 .. MaxFeed, feedReplicationBacklog(len)
  PROVE  IInv'
<1> USE DEF IInv, TypeInv, feedReplicationBacklog, reply
<1>1. TypeInv'
  BY BacklogAssumption
<1>2. Written' = Written /\ \A k : Back(k)' = Back(k)
  BY BacklogAssumption DEF Written, Back
<1>3. Stored'
  BY <1>2 DEF Stored
<1>4. Bounded' /\ Sending'
  BY DEF Bounded, Sending
<1> QED
  BY <1>1, <1>3, <1>4

\* A pass of the copying loop: the new bytes are the last thislen ones, up to the
\* new idx, and the older ones are thislen places further back.
LEMMA CopyPreserves ==
  ASSUME IInv, CopyPass
  PROVE  IInv'
<1> DEFINE t == Upto(idx)
<1>1. /\ t \in 1 .. left /\ idx + t <= size
      /\ pc = "feed" /\ left > 0
      /\ buf' = [i \in 0 .. size - 1 |->
                   IF i >= idx /\ i < idx + t THEN offset - left + 1 + (i - idx) ELSE buf[i]]
      /\ idx' = (IF idx + t = size THEN 0 ELSE idx + t)
      /\ histlen' = histlen + t /\ left' = left - t
      /\ UNCHANGED <<size, off, offset, pc, j, want, sent>>
  BY DEF IInv, TypeInv, CopyPass, Upto, Wrap, reply
<1> HIDE DEF t
<1>2. Written = offset - left /\ Written' = Written + t /\ histlen <= Written
  BY <1>1 DEF Written, IInv, TypeInv, Stored
<1>3. TypeInv'
  <2>1. \A i \in 0 .. size - 1 : i >= idx => offset - left + 1 + (i - idx) \in Nat
    BY <1>1, <1>2 DEF IInv, TypeInv
  <2>2. buf' \in [0 .. size - 1 -> Nat]
    BY <1>1, <2>1, Zenon DEF IInv, TypeInv
  <2>3. idx' \in 0 .. size - 1 /\ histlen' \in Nat /\ left' \in Nat
    BY <1>1 DEF IInv, TypeInv
  <2> QED
    BY <1>1, <2>2, <2>3, Zenon DEF IInv, TypeInv
<1>4. Stored'
  <2>1. histlen' <= Written'
    BY <1>1, <1>2 DEF IInv, TypeInv
  <2>2. ASSUME NEW k \in 1 .. size, k <= histlen'
        PROVE  buf'[Back(k)'] = (Written' - k) + 1
    <3>1. Back(k)' \in 0 .. size - 1
      BY <1>1 DEF Back, IInv, TypeInv
    <3>2. CASE k <= t
      <4>1. Back(k)' = (idx + t) - k
        BY <1>1, <3>2 DEF Back, IInv, TypeInv
      <4> QED
        BY <1>1, <1>2, <3>1, <3>2, <4>1 DEF IInv, TypeInv
    <3>3. CASE k > t
      <4>1. k - t \in 1 .. size /\ k - t <= histlen
        BY <1>1, <2>2, <3>3 DEF IInv, TypeInv
      <4>2. Back(k)' = Back(k - t)
        BY <1>1, <3>3 DEF Back, IInv, TypeInv
      <4>3. ~(Back(k)' >= idx /\ Back(k)' < idx + t)
        BY <1>1, <3>3 DEF Back, IInv, TypeInv
      <4>4. buf'[Back(k)'] = buf[Back(k - t)]
        BY <1>1, <3>1, <4>2, <4>3
      <4>5. buf[Back(k - t)] = (Written - (k - t)) + 1
        BY <4>1 DEF IInv, Stored
      <4> QED
        BY <1>1, <1>2, <4>4, <4>5 DEF IInv, TypeInv
    <3> QED
      BY <1>1, <3>2, <3>3 DEF IInv, TypeInv
  <2> QED
    BY <1>1, <2>1, <2>2 DEF Stored
<1>5. Bounded' /\ Sending'
  BY <1>1 DEF Bounded, Sending
<1> QED
  BY <1>3, <1>4, <1>5 DEF IInv

\* The end of feedReplicationBacklog limits the history to what the buffer holds.
LEMMA FeedDonePreserves ==
  ASSUME IInv, FeedDone
  PROVE  IInv'
<1> USE DEF IInv, TypeInv, FeedDone, reply
<1>1. histlen' \in Nat /\ histlen' <= histlen /\ histlen' <= size
  BY DEF Limited
<1>2. Written' = Written /\ Written = offset /\ \A k : Back(k)' = Back(k)
  BY DEF Written, Back
<1>3. TypeInv'
  BY <1>1, <1>2, SMTT(60) DEF Stored
<1>4. Stored'
  BY <1>1, <1>2, SMTT(60) DEF Stored
<1>5. Bounded' /\ Sending'
  BY <1>1 DEF Bounded, Sending
<1> QED
  BY <1>3, <1>4, <1>5

\* A resized buffer has no history.
LEMMA ResizePreserves ==
  ASSUME IInv, NEW newsize \in Sizes, resizeReplicationBacklog(newsize)
  PROVE  IInv'
<1> USE DEF IInv, TypeInv, resizeReplicationBacklog, reply
<1>1. TypeInv'
  BY BacklogAssumption
<1>2. Stored' /\ Bounded' /\ Sending'
  BY <1>1 DEF Stored, Bounded, Sending, Written
<1> QED
  BY <1>1, <1>2

\* The index addReplyReplicationBacklog computes is the place of the byte asked.
LEMMA FirstIndexIsBack ==
  ASSUME IInv, pc = "idle", NEW o \in Nat, o >= off, o <= off + histlen, histlen > 0
  PROVE  /\ FirstIndex(o - off) \in Nat
         /\ o < off + histlen => FirstIndex(o - off) = Back(histlen - (o - off))
<1> DEFINE oldest == idx + (size - histlen)
           skip == o - off
<1>1. /\ size \in Nat \ {0} /\ idx \in 0 .. size - 1 /\ histlen \in 1 .. size
      /\ off \in Nat /\ skip \in 0 .. histlen
      /\ oldest \in Nat /\ oldest < 2 * size
  BY DEF IInv, TypeInv, Bounded
<1> HIDE DEF skip
<1>2. oldest % size = IF oldest < size THEN oldest ELSE oldest - size
  BY <1>1, SmallRemainder, Zenon
<1> DEFINE first == oldest % size
<1>3. first + skip \in Nat /\ first + skip < 2 * size
  BY <1>1, <1>2
<1>4. (first + skip) % size = IF first + skip < size THEN first + skip ELSE (first + skip) - size
  BY <1>1, <1>3, SmallRemainder, Zenon
<1>5. FirstIndex(skip) = (first + skip) % size
  BY DEF FirstIndex
<1>6. FirstIndex(skip) \in Nat
  BY <1>1, <1>2, <1>4, <1>5
<1>7. ASSUME skip < histlen
      PROVE  FirstIndex(skip) = Back(histlen - skip)
  BY <1>1, <1>2, <1>4, <1>5, <1>7 DEF Back
<1>8. o < off + histlen => skip < histlen
  BY <1>1 DEF skip
<1> QED
  BY <1>6, <1>7, <1>8 DEF skip

\* The sending loop starts at the byte asked, with all the later ones to send.
LEMMA ReplyPreserves ==
  ASSUME IInv, NEW o \in 0 .. MaxOffset + 1, addReplyReplicationBacklog(o)
  PROVE  IInv'
<1>1. /\ pc = "idle" /\ o \in Nat /\ o >= off /\ o <= off + histlen
      /\ want' = o /\ sent' = <<>> /\ pc' = "send"
      /\ UNCHANGED <<size, buf, idx, histlen, off, offset>>
      /\ histlen <= size /\ off = (offset - histlen) + 1
  BY BacklogAssumption DEF addReplyReplicationBacklog, buffer, IInv, Bounded
<1>2. /\ left' = histlen - (o - off) /\ left' \in Nat /\ left' <= histlen
      /\ left' > 0 => j' = Back(left')
      /\ j' \in Nat
  <2>1. CASE histlen = 0
    BY <1>1, <2>1 DEF addReplyReplicationBacklog, IInv, TypeInv
  <2>2. CASE histlen > 0
    BY <1>1, <2>2, FirstIndexIsBack DEF addReplyReplicationBacklog, IInv, TypeInv
  <2> QED
    BY <2>1, <2>2 DEF IInv, TypeInv
<1>3. TypeInv'
  BY <1>1, <1>2 DEF IInv, TypeInv
<1>4. Written' = Written /\ \A k : Back(k)' = Back(k)
  BY <1>1 DEF Written, Back
<1>5. Stored'
  BY <1>1, <1>4 DEF IInv, Stored
<1>6. Bounded'
  BY <1>1 DEF Bounded
<1>7. Sending'
  BY <1>1, <1>2, <1>4 DEF Sending, IInv, TypeInv
<1> QED
  BY <1>3, <1>5, <1>6, <1>7 DEF IInv

\* A pass of the sending loop appends the bytes from the one that is next to the
\* end of the buffer, or to the last one; then the next byte is at its start.
LEMMA SendPreserves ==
  ASSUME IInv, SendPass
  PROVE  IInv'
<1> DEFINE t == Upto(j)
           Pass == [i \in 1 .. t |-> buf[j + i - 1]]
<1>1. /\ pc = "send" /\ left > 0 /\ j = Back(left) /\ left <= histlen /\ histlen <= size
      /\ left' = left - t /\ j' = 0 /\ sent' = sent \o Pass
      /\ UNCHANGED <<size, buf, idx, histlen, off, offset, pc, want>>
      /\ want + left <= offset + 1 /\ Written = offset
  BY DEF SendPass, buffer, IInv, Sending, Bounded, Written
<1>2. /\ j \in 0 .. size - 1 /\ t \in 1 .. left /\ j + t <= size
      /\ left' > 0 => left' = idx
  BY <1>1 DEF Upto, Back, IInv, TypeInv
<1> HIDE DEF t
<1>3. ASSUME NEW i \in 1 .. t
      PROVE  buf[j + i - 1] = (offset - left) + i
  <2>1. (left - i) + 1 \in 1 .. size /\ (left - i) + 1 <= histlen
    BY <1>1, <1>2 DEF IInv, TypeInv
  <2>2. Back((left - i) + 1) = j + i - 1
    BY <1>1, <1>2 DEF Back, IInv, TypeInv
  <2>3. buf[Back((left - i) + 1)] = (Written - ((left - i) + 1)) + 1
    BY <2>1 DEF IInv, Stored
  <2> QED
    BY <1>1, <1>2, <2>2, <2>3 DEF IInv, TypeInv
<1>4. Pass \in Seq(Nat) /\ Len(Pass) = t
  <2>1. \A i \in 1 .. t : buf[j + i - 1] \in Nat
    BY <1>2 DEF IInv, TypeInv
  <2>2. t \in Nat
    BY <1>2 DEF IInv, TypeInv
  <2> QED
    BY <2>1, <2>2
<1>5. \A i \in 1 .. t : Pass[i] = (offset - left) + i
  BY <1>3
<1> HIDE DEF Pass
<1>6. /\ sent' \in Seq(Nat) /\ Len(sent') = Len(sent) + t
      /\ \A i \in 1 .. Len(sent') :
           sent'[i] = IF i <= Len(sent) THEN sent[i] ELSE Pass[i - Len(sent)]
  <2>1. sent \in Seq(Nat)
    BY DEF IInv, TypeInv
  <2> QED
    BY <1>1, <1>4, <2>1, ConcatProperties, ZenonT(60)
<1>7. TypeInv'
  <2>1. left' \in Nat /\ j' \in Nat
    BY <1>1, <1>2 DEF IInv, TypeInv
  <2> QED
    BY <1>1, <1>6, <2>1 DEF IInv, TypeInv
<1>8. Written' = Written /\ \A k : Back(k)' = Back(k)
  BY <1>1 DEF Written, Back
<1>9. Stored' /\ Bounded'
  BY <1>1, <1>8 DEF IInv, Stored, Bounded
<1>A. Sending'
  <2>1. left' <= histlen' /\ want' + left' <= offset' + 1
    BY <1>1, <1>2 DEF IInv, TypeInv
  <2>2. left' > 0 => j' = Back(left')
    BY <1>1, <1>2 DEF IInv, TypeInv, Back
  <2>3. Len(sent') = ((offset + 1) - left') - want
    <3>1. /\ Len(sent) = ((offset + 1) - left) - want
          /\ offset \in Nat /\ left \in Nat /\ want \in Nat /\ t \in Nat
      BY <1>1, <1>2 DEF IInv, TypeInv, Sending
    <3> QED
      BY <1>1, <1>6, <3>1
  <2>4. ASSUME NEW i \in 1 .. Len(sent')
        PROVE  sent'[i] = (want + i) - 1
    <3>1. CASE i <= Len(sent)
      BY <1>1, <1>6, <3>1 DEF IInv, TypeInv, Sending
    <3>2. CASE i > Len(sent)
      <4>1. i - Len(sent) \in 1 .. t
        BY <1>2, <1>6, <3>2 DEF IInv, TypeInv
      <4>2. sent'[i] = Pass[i - Len(sent)]
        BY <1>6, <3>2 DEF IInv, TypeInv
      <4>3. sent'[i] = (offset - left) + (i - Len(sent))
        BY <1>5, <4>1, <4>2
      <4>4. /\ Len(sent) = ((offset + 1) - left) - want
            /\ offset \in Nat /\ left \in Nat /\ want \in Nat /\ i \in Nat
        BY <1>1, <1>6 DEF IInv, TypeInv, Sending
      <4> QED
        BY <4>3, <4>4
    <3> QED
      BY <1>6, <3>1, <3>2 DEF IInv, TypeInv
  <2> QED
    BY <1>1, <1>8, <2>1, <2>2, <2>3, <2>4 DEF Sending
<1> QED
  BY <1>7, <1>9, <1>A DEF IInv

\* When the loop is over the next command may run.
LEMMA SendDonePreserves ==
  ASSUME IInv, SendDone
  PROVE  IInv'
BY DEF IInv, TypeInv, SendDone, buffer, reply, Stored, Bounded, Sending, Written, Back

\* Every step of the two functions keeps the history in its place.
LEMMA StepPreserves == IInv /\ [Next]_vars => IInv'
<1> SUFFICES ASSUME IInv, [Next]_vars PROVE IInv'
  OBVIOUS
<1>1. CASE \E len \in 0 .. MaxFeed : feedReplicationBacklog(len)
  BY <1>1, FeedPreserves
<1>2. CASE CopyPass
  BY <1>2, CopyPreserves
<1>3. CASE FeedDone
  BY <1>3, FeedDonePreserves
<1>4. CASE \E newsize \in Sizes : resizeReplicationBacklog(newsize)
  BY <1>4, ResizePreserves
<1>5. CASE \E o \in 0 .. MaxOffset + 1 : addReplyReplicationBacklog(o)
  BY <1>5, ReplyPreserves
<1>6. CASE SendPass
  BY <1>6, SendPreserves
<1>7. CASE SendDone
  BY <1>7, SendDonePreserves
<1>8. CASE UNCHANGED vars
  BY <1>8 DEF vars, buffer, reply, IInv, TypeInv, Stored, Bounded, Sending, Written, Back
<1> QED
  BY <1>1, <1>2, <1>3, <1>4, <1>5, <1>6, <1>7, <1>8 DEF Next

\* The history is where the code looks for it, in every reachable state: the
\* k-th last byte of the stream is k places before repl_backlog_idx.
THEOREM HistoryIsStored == Spec => []IInv
  BY InitEstablishes, StepPreserves, PTL DEF Spec

\* A partial resynchronization sends exactly the bytes from the offset asked to
\* the current one, for every size of the buffer, whatever was written, wrapped
\* around or resized before (addReplyReplicationBacklog).
THEOREM BacklogSendsTheStream == Spec => []SendsTheStream
<1>1. IInv => SendsTheStream
  <2> SUFFICES ASSUME IInv, pc = "send", left = 0
               PROVE  sent = [i \in 1 .. (offset - want) + 1 |-> want + i - 1]
    BY DEF SendsTheStream
  <2>1. /\ sent \in Seq(Nat) /\ Len(sent) = (offset - want) + 1
        /\ \A i \in 1 .. Len(sent) : sent[i] = want + i - 1
    BY DEF IInv, TypeInv, Sending
  <2> QED
    BY <2>1
<1> QED
  BY <1>1, HistoryIsStored, PTL
=============================================================================
