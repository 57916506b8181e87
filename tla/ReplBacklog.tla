---------------------------- MODULE ReplBacklog ----------------------------
(***************************************************************************)
(* The replication backlog as replication.c stores it: a circular buffer   *)
(* of repl_backlog_size bytes with the index of the next byte to write,    *)
(* the number of valid bytes and the offset of the oldest one.             *)
(* Replication uses the window of commands that this buffer stands for.    *)
(*                                                                         *)
(* A byte of the stream is represented by its replication offset, so that  *)
(* a byte read at a wrong place shows.  The two loops, of the function     *)
(* that fills the buffer and of the one that sends it, are modelled pass   *)
(* by pass: pc says which one runs, and nothing else happens meanwhile.    *)
(***************************************************************************)
EXTENDS Integers, Sequences

CONSTANTS Sizes,      \* the values CONFIG SET repl-backlog-size may choose
          Starts,     \* the values of master_repl_offset at creation
          MaxFeed,    \* the longest write to the backlog
          MaxOffset   \* bound on the replication offset

ASSUME BacklogAssumption ==
  /\ Sizes \subseteq Nat \ {0} /\ Sizes # {}
  /\ Starts \subseteq Nat
  /\ MaxFeed \in Nat /\ MaxOffset \in Nat

VARIABLES size,       \* repl_backlog_size
          buf,        \* repl_backlog; 0 is a byte never written
          idx,        \* repl_backlog_idx
          histlen,    \* repl_backlog_histlen
          off,        \* repl_backlog_off
          offset,     \* master_repl_offset
          pc,         \* the function that runs: "idle", "feed" or "send"
          left,       \* len: the bytes its loop still has to copy
          j,          \* where the next pass of the sending loop reads
          want,       \* the offset the last slave asked for
          sent        \* the bytes sent to it

buffer == <<size, buf, idx, histlen, off, offset>>
reply == <<j, want, sent>>
vars == <<buffer, pc, left, reply>>

\* createReplicationBacklog, on a server that already has an offset.
Init ==
  /\ size \in Sizes
  /\ buf = [i \in 0 .. size - 1 |-> 0]
  /\ idx = 0 /\ histlen = 0
  /\ offset \in Starts /\ off = offset + 1
  /\ pc = "idle" /\ left = 0
  /\ j = 0 /\ want = off /\ sent = <<>>

-----------------------------------------------------------------------------
(* feedReplicationBacklog, of len bytes.                                   *)

feedReplicationBacklog(len) ==
  /\ pc = "idle"
  /\ offset + len <= MaxOffset
  /\ offset' = offset + len
  /\ left' = len /\ pc' = "feed"
  /\ UNCHANGED <<size, buf, idx, histlen, off, reply>>

\* The bytes from position i to the end of the buffer, but not more than left.
Upto(i) == IF size - i > left THEN left ELSE size - i

\* "rewind the idx index if we reach the limit"
Wrap(i) == IF i = size THEN 0 ELSE i

\* A pass of the loop copies as many bytes as fit before the end of the buffer.
CopyPass ==
  LET thislen == Upto(idx)
  IN  /\ pc = "feed" /\ left > 0
      /\ buf' = [i \in 0 .. size - 1 |->
                   IF i >= idx /\ i < idx + thislen
                     THEN offset - left + 1 + (i - idx) ELSE buf[i]]
      /\ idx' = Wrap(idx + thislen)
      /\ histlen' = histlen + thislen
      /\ left' = left - thislen
      /\ UNCHANGED <<size, off, offset, pc, reply>>

Limited(n) == IF n > size THEN size ELSE n

FeedDone ==
  /\ pc = "feed" /\ left = 0
  /\ histlen' = Limited(histlen)
  /\ off' = offset - histlen' + 1
  /\ pc' = "idle"
  /\ UNCHANGED <<size, buf, idx, offset, left, reply>>

resizeReplicationBacklog(newsize) ==
  /\ pc = "idle"
  /\ newsize # size
  /\ size' = newsize
  /\ buf' = [i \in 0 .. newsize - 1 |-> 0]
  /\ histlen' = 0 /\ idx' = 0
  /\ off' = offset + 1
  /\ UNCHANGED <<offset, pc, left, reply>>

-----------------------------------------------------------------------------
(* addReplyReplicationBacklog, for an offset that                          *)
(* masterTryPartialResynchronization accepts.                              *)

\* Mutant: the oldest byte is taken to be at the start of the buffer.
FirstAtZero(skip) == skip % size

\* The index of the byte skip bytes after the oldest one.
FirstIndex(skip) == (((idx + (size - histlen)) % size) + skip) % size

addReplyReplicationBacklog(o) ==
  LET skip == o - off
  IN  /\ pc = "idle"
      /\ o >= off /\ o <= off + histlen
      /\ want' = o /\ sent' = <<>> /\ pc' = "send"
      /\ IF histlen = 0 THEN left' = 0 /\ UNCHANGED j
                        ELSE left' = histlen - skip /\ j' = FirstIndex(skip)
      /\ UNCHANGED buffer

SendPass ==
  LET thislen == Upto(j)
  IN  /\ pc = "send" /\ left > 0
      /\ sent' = sent \o [i \in 1 .. thislen |-> buf[j + i - 1]]
      /\ left' = left - thislen
      /\ j' = 0
      /\ UNCHANGED <<buffer, pc, want>>

SendDone ==
  /\ pc = "send" /\ left = 0
  /\ pc' = "idle"
  /\ UNCHANGED <<buffer, left, reply>>

Next ==
  \/ \E len \in 0 .. MaxFeed : feedReplicationBacklog(len)
  \/ CopyPass
  \/ FeedDone
  \/ \E newsize \in Sizes : resizeReplicationBacklog(newsize)
  \/ \E o \in 0 .. MaxOffset + 1 : addReplyReplicationBacklog(o)
  \/ SendPass
  \/ SendDone

Spec == Init /\ [][Next]_vars

-----------------------------------------------------------------------------
\* A partial resynchronization from any offset that
\* masterTryPartialResynchronization accepts sends exactly the bytes of the
\* stream from that offset to the current one, in order, whatever wrapped
\* around in between and however often the buffer was resized.
SendsTheStream ==
  pc = "send" /\ left = 0 =>
    sent = [i \in 1 .. (offset - want) + 1 |-> want + i - 1]

=============================================================================
