------------------------ MODULE AofDurabilityProofs ------------------------
(***************************************************************************)
(* What is on disk: with appendfsync always, a write whose reply was sent  *)
(* is on disk, and stays there through rewrites, reconfigurations, crashes *)
(* and restarts.                                                           *)
(*                                                                         *)
(* It needs that replaying a longer part of a file never forgets a write,  *)
(* which holds because a preamble, which replaces the dataset, is only     *)
(* ever the first command of a file.                                       *)
(***************************************************************************)
EXTENDS AofProofs

----------------------------------------------------------------------------
(* Acknowledged writes.                                                    *)

\* Every write of the dataset is on disk.
Full(m) == Ids(m.data) \subseteq Durable(m)

\* What a step that serves no client does to the replies that wait.
Carried(m, n) ==
  /\ n.env = m.env
  /\ n.up => m.up /\ n.data = m.data
  /\ n.state = "on" \/ n.state = m.state \/ "config" \in m.env.ops
  /\ n.up /\ n.state = "on" =>
        \/ Full(n)
        \/ m.state = "on" /\ n.buf = m.buf /\ Durable(m) \subseteq Durable(n)

\* Two such steps make one.
LEMMA CarriedTwice ==
  ASSUME NEW m, NEW n, NEW o, Carried(m, n), Carried(n, o)
  PROVE  Carried(m, o)
BY SMTT(60) DEF Carried, Full

\* They do not change how the server was configured to flush.
LEMMA CarriedWaits ==
  ASSUME NEW m, NEW n, Carried(m, n), Waits(m)
  PROVE  Waits(n)
BY DEF Carried, Waits

\* Replies that wait still do.
LEMMA CarriedReplies ==
  ASSUME NEW m, NEW n, NEW cl, NEW fi, Carried(m, n), RepliesWait(m, cl, fi)
  PROVE  RepliesWait(n, cl, fi)
<1> SUFFICES ASSUME Waits(n) PROVE RepliesWait(n, cl, fi)
  BY DEF RepliesWait
<1>1. Waits(m)
  BY DEF Carried, Waits
<1>2. "config" \notin n.env.ops => n.state = "on"
  BY <1>1 DEF Carried, RepliesWait
<1>3. n.up => \A c \in Client : cl[c].pending \subseteq Ids(n.data)
  BY <1>1, Zenon DEF Carried, RepliesWait
<1>4. ASSUME n.up, n.state = "on", NEW c \in Client,
             n.buf = <<>> \/ (c \notin fi /\ cl[c].handler # "none")
      PROVE  cl[c].pending \subseteq Durable(n)
  <2>1. CASE Full(n)
    BY <1>3, <1>4, <2>1, SMTT(60) DEF Full
  <2>2. CASE m.state = "on" /\ n.buf = m.buf /\ Durable(m) \subseteq Durable(n)
    BY <1>1, <1>4, <2>2 DEF Carried, RepliesWait
  <2> QED
    BY <1>4, <2>1, <2>2, SMTT(60) DEF Carried
<1> QED
  BY <1>1, <1>2, <1>3, <1>4, SMTT(60) DEF RepliesWait, Carried

\* The states agree on all that the two invariants speak of.
Alike(m, n) ==
  /\ n.env = m.env /\ n.jobs = m.jobs /\ n.bytes = m.bytes /\ n.synced = m.synced
  /\ n.buf = m.buf /\ n.up = m.up /\ n.data = m.data /\ n.state = m.state

\* A step of the child, or one that only concerns other fields.
LEMMA AlikeIsSafe ==
  ASSUME NEW m, NEW n, NEW ack, AckedAreSafe(m, ack), Alike(m, n), NewFile(n) = NewFile(m),
         n.child = "aof" /\ n.kid.st # "failed" => m.child = "aof" /\ m.kid.st # "failed"
  PROVE  AckedAreSafe(n, ack) /\ Carried(m, n)
<1>1. Durable(n) = Durable(m) /\ (Waits(n) <=> Waits(m))
  BY DEF Durable, Waits, Alike
<1>2. Carried(m, n)
  BY <1>1, SMTT(60) DEF Carried, Alike
<1>3. AckedAreSafe(n, ack)
  BY <1>1 DEF AckedAreSafe, Alike
<1> QED
  BY <1>2, <1>3, SMTT(60)

\* An empty buffer has no preamble.
LEMMA EmptyForm == NoPreamble(<<>>) /\ PreambleFirst(<<>>)
<1>1. Len(<<>>) = 0 /\ 1..0 = {} /\ 3..0 = {}
  OBVIOUS
<1> QED
  BY <1>1 DEF NoPreamble, PreambleFirst

\* Without a child there is no new file.
LEMMA NoNewFile ==
  ASSUME NEW n, n.rwbuf = <<>>, n.kid = NoKid
  PROVE  PreambleFirst(NewFile(n))
<1>1. PICK e \in File : e = <<>>
  BY EmptySeq, Zenon DEF File
<1>2. n.kid.file = e /\ n.kid.pipe = e /\ n.rwbuf = e
  BY <1>1 DEF NoKid
<1>3. NoPreamble(e) /\ PreambleFirst(e)
  BY <1>1, EmptyForm
<1>4. e \o e \in File /\ PreambleFirst(e \o e)
  BY <1>3, AppendedForm, Concatenated
<1>5. PreambleFirst((e \o e) \o e)
  BY <1>3, <1>4, AppendedForm, SMTT(60)
<1> QED
  BY <1>2, <1>5, Zenon DEF NewFile

\* The same for a step after which there is no rewriting child.
LEMMA ChildlessIsSafe ==
  ASSUME NEW m, NEW n, NEW ack, AckedAreSafe(m, ack), Alike(m, n), n.child # "aof",
         n.rwbuf = <<>>, n.kid = NoKid
  PROVE  AckedAreSafe(n, ack) /\ Carried(m, n)
<1>1. Durable(n) = Durable(m) /\ (Waits(n) <=> Waits(m))
  BY DEF Durable, Waits, Alike
<1>2. Carried(m, n)
  BY <1>1 DEF Carried, Alike
<1>3. PreambleFirst(NewFile(n))
  BY NoNewFile
<1>4. AckedAreSafe(n, ack)
  BY <1>1, <1>3 DEF AckedAreSafe, Alike
<1> QED
  BY <1>2, <1>4

\* A child with the dataset: should it become the file, it has all that was
\* acknowledged.
LEMMA ForkedIsSafe ==
  ASSUME NEW m, NEW ack, Good(m), m.child # "aof", AckedAreSafe(m, ack)
  PROVE  AckedAreSafe(Forked(m), ack) /\ Carried(m, Forked(m))
<1> DEFINE n == Forked(m)
<1>1. Good(n) /\ Alike(m, n) /\ NewFile(n) = Bytes(<<Preamble(m.data)>>)
  BY ForkedIsGood DEF Alike
<1>2. m.data \in Data
  BY DEF Good, Server
<1>3. Preamble(m.data) \in AnyCmd
  BY <1>2 DEF Preamble, AnyCmd
<1> HIDE DEF n
<1>4. PreambleFirst(NewFile(n)) /\ Replay(NewFile(n)) = n.data
  BY <1>1, <1>2, <1>3, CommandForm, PreambleIsWhole, SMTT(60) DEF Whole, Alike
<1>5. Durable(n) = Durable(m) /\ (Waits(n) <=> Waits(m))
  BY <1>1 DEF Durable, Waits, Alike
<1>6. Carried(m, n)
  BY <1>1, <1>5, SMTT(60) DEF Carried, Alike
<1>7. AckedAreSafe(n, ack)
  BY <1>1, <1>4, <1>5, SMTT(60) DEF AckedAreSafe, Alike
<1> QED
  BY <1>6, <1>7, SMTT(60) DEF n

\* A file that is fsynced to its end.
LEMMA SyncedToTheEnd ==
  ASSUME NEW n, n.bytes \in File, n.synced = Len(n.bytes)
  PROVE  Durable(n) = Ids(Replay(n.bytes)) /\ n.synced <= Len(n.bytes)
<1>1. Len(n.bytes) \in Nat
  BY LenProperties DEF File
<1>2. 0 \in 0..Len(n.bytes)
  BY <1>1
<1>3. SubSeq(n.bytes, 1, Len(n.bytes)) = n.bytes
  BY <1>2, Parts, Zenon
<1>4. SubSeq(n.bytes, 1, n.synced) = n.bytes
  BY <1>3, Zenon
<1>5. Durable(n) = Ids(Replay(n.bytes))
  BY <1>4, Zenon DEF Durable
<1>6. n.synced <= Len(n.bytes)
  BY <1>1
<1> QED
  BY <1>5, <1>6, SMTT(60)

\* What is fsynced of a file is not changed by what is appended.
LEMMA AppendedAfterSync ==
  ASSUME NEW m, NEW n, NEW p \in File, m.bytes \in File, m.synced \in Nat,
         m.synced <= Len(m.bytes), n.bytes = m.bytes \o p, n.synced = m.synced
  PROVE  Durable(n) = Durable(m) /\ n.synced <= Len(n.bytes)
<1>1. Len(m.bytes) \in Nat /\ Len(p) \in Nat /\ Len(m.bytes \o p) = Len(m.bytes) + Len(p)
  BY Concatenated
<1>2. m.synced \in 0..Len(m.bytes)
  BY <1>1
<1>3. SubSeq(m.bytes \o p, 1, m.synced) = SubSeq(m.bytes, 1, m.synced)
  BY <1>2, PartOfLonger
<1>4. m.synced <= Len(m.bytes) + Len(p)
  BY <1>1, SMTT(60)
<1> QED
  BY <1>1, <1>3, <1>4, Zenon DEF Durable

\* A process that ended keeps what is on disk.
LEMMA EndedIsSafe ==
  ASSUME NEW m, NEW n, NEW ack, AckedAreSafe(m, ack), Waits(m), n.env = m.env, ~n.up,
         n.jobs = m.jobs, n.synced <= Len(n.bytes), PreambleFirst(n.bytes), NoPreamble(n.buf),
         NewFile(n) = NewFile(m), Durable(m) \subseteq Durable(n), n.state = m.state
  PROVE  AckedAreSafe(n, ack) /\ Carried(m, n)
BY SMTT(60) DEF AckedAreSafe, Carried, Waits

\* With appendfsync always a flush writes and fsyncs all, or the process ends.
LEMMA FlushIsSafe ==
  ASSUME NEW m, NEW ack, Good(m), m.up, AckedAreSafe(m, ack), Waits(m),
         NEW force \in BOOLEAN, NEW n \in flushAppendOnlyFile(m, force)
  PROVE  AckedAreSafe(n, ack) /\ Carried(m, n) /\ (n.up => n.buf = <<>>)
<1>1. m \in Server /\ (m.buf # <<>> => m.size = Len(m.bytes) /\ m.state = "on")
  BY DEF Good, FileIsWhole
<1>2. n \in Server /\ FlushCase(m, n)
  BY <1>1, FlushCases
<1>3. m.env.policy = "always" /\ ~m.env.nofsync
  BY DEF Waits
<1>4. /\ m.jobs = <<>> /\ m.synced <= Len(m.bytes)
      /\ PreambleFirst(m.bytes) /\ NoPreamble(m.buf) /\ PreambleFirst(NewFile(m))
      /\ ack \subseteq Durable(m) /\ ack \subseteq Ids(m.data)
  BY DEF AckedAreSafe
<1>5. m.bytes \in File /\ m.buf \in File /\ m.synced \in Nat /\ Len(m.bytes) \in Nat /\ Len(m.buf) \in Nat
  BY <1>1, LenProperties DEF Server, File
<1>6. CASE Same(m, n) /\ m.buf = <<>>
  <2>1. Alike(m, n) /\ NewFile(n) = NewFile(m) /\ n.child = m.child /\ n.kid = m.kid
    BY <1>6 DEF Alike, Same, Kept, NewFile
  <2> QED
    BY <1>6, <2>1, AlikeIsSafe, ZenonT(60) DEF Alike
<1>7. ASSUME m.buf # <<>>, NEW x, Wrote(m, x, Len(m.buf)), n \in TryFsync(x, Syncing(m))
      PROVE  AckedAreSafe(n, ack) /\ Carried(m, n) /\ (n.up => n.buf = <<>>)
  <2> DEFINE all == m.bytes \o m.buf
  <2>1. SubSeq(m.buf, 1, Len(m.buf)) = m.buf /\ SubSeq(m.buf, Len(m.buf) + 1, Len(m.buf)) = <<>>
    <3>1. /\ Len(m.buf) \in 0..Len(m.buf) /\ Len(m.buf) + 1 \in Int /\ Len(m.buf) \in Int
          /\ Len(m.buf) < Len(m.buf) + 1
      BY <1>5
    <3>2. SubSeq(m.buf, 1, Len(m.buf)) = m.buf
      BY <1>5, <3>1, Parts, Zenon
    <3>3. SubSeq(m.buf, Len(m.buf) + 1, Len(m.buf)) = <<>>
      BY <3>1, SubSeqEmpty, Zenon
    <3> QED
      BY <3>2, <3>3
  <2>2. /\ x \in Server /\ Kept(m, x) /\ x.up = m.up /\ x.jobs = m.jobs /\ x.bytes = all
        /\ x.buf = <<>> /\ x.synced = m.synced
    <3>1. ~(m.synced > m.size)
      BY <1>1, <1>4, <1>5, <1>7, SMTT(60)
    <3> QED
      BY <1>7, <2>1, <3>1, ZenonT(60) DEF Wrote
  <2>3. all \in File /\ PreambleFirst(all)
    BY <1>4, <1>5, AppendedForm, Concatenated, SMTT(60)
  <2>4. Replay(all) = m.data
    BY <1>1, <1>7, Zenon DEF Good, FileIsWhole, Whole
  <2>5. x.env = m.env /\ x.env.policy = "always" /\ ~x.env.nofsync
    BY <1>3, <2>2 DEF Kept
  <2> HIDE DEF all
  <2>6. NoPreamble(<<>>)
    BY EmptyForm
  <2>7. CASE n = [x EXCEPT !.synced = Len(x.bytes), !.fsoff = x.size, !.due = FALSE]
    <3>1. PICK l \in Nat : l = Len(x.bytes)
      BY <2>2, <2>3, LenProperties DEF File
    <3>2. PICK z \in Nat : z = x.size
      BY <2>2 DEF Server
    <3>3. n = [x EXCEPT !.synced = l, !.fsoff = z, !.due = FALSE]
      BY <2>7, <3>1, <3>2
    <3>4. /\ Kept(x, n) /\ n.up = x.up /\ n.jobs = x.jobs /\ n.bytes = x.bytes /\ n.buf = x.buf
          /\ n.synced = l
      BY <2>2, <3>3, Zenon DEF Server, Kept
    <3>5. Durable(n) = Ids(m.data) /\ n.synced <= Len(n.bytes)
      <4>1. n.bytes \in File /\ n.synced = Len(n.bytes) /\ n.bytes = all
        BY <2>2, <2>3, <3>1, <3>4, SMTT(60)
      <4> QED
        BY <2>4, <4>1, SyncedToTheEnd, SMTT(60)
    <3>6. /\ n.env = m.env /\ n.up = m.up /\ n.jobs = m.jobs /\ n.bytes = all /\ n.buf = <<>>
          /\ n.data = m.data /\ n.state = m.state /\ NewFile(n) = NewFile(m)
      BY <2>2, <3>4, SMTT(60) DEF Kept, NewFile
    <3>7. m.state = "on"
      BY <1>1, <1>7, SMTT(60)
    <3>8. Carried(m, n)
      BY <3>5, <3>6, SMTT(60) DEF Carried, Full
    <3>9. AckedAreSafe(n, ack)
      BY <1>4, <2>3, <2>6, <3>5, <3>6, <3>7, SMTT(60) DEF AckedAreSafe
    <3> QED
      BY <3>6, <3>8, <3>9, SMTT(60)
  <2>8. CASE n = Exit(Failed(x))
    <3> DEFINE y == Failed(x)
    <3>1. y \in Server /\ Same(x, y)
      BY <2>2, FailedIsSame
    <3>2. n = [y EXCEPT !.up = FALSE]
      BY <2>8 DEF Exit
    <3> HIDE DEF y
    <3>3. /\ Kept(x, n) /\ ~n.up /\ n.jobs = x.jobs /\ n.bytes = x.bytes /\ n.buf = x.buf
          /\ n.synced = x.synced
      BY <3>1, <3>2, SMTT(60) DEF Server, Kept, Same
    <3>4. /\ n.env = m.env /\ n.jobs = m.jobs /\ n.bytes = all /\ n.buf = <<>>
          /\ n.state = m.state /\ NewFile(n) = NewFile(m) /\ n.synced = m.synced
      BY <2>2, <3>3 DEF Kept, NewFile
    <3>5. Durable(n) = Durable(m) /\ n.synced <= Len(n.bytes)
      <4>1. n.bytes = m.bytes \o m.buf
        BY <3>4 DEF all
      <4> QED
        BY <1>4, <1>5, <3>4, <4>1, AppendedAfterSync, ZenonT(60)
    <3> QED
      BY <2>3, <2>6, <3>3, <3>4, <3>5, EndedIsSafe, SMTT(60)
  <2> QED
    BY <1>7, <2>5, <2>7, <2>8, SMTT(60) DEF TryFsync
<1>8. ASSUME m.buf # <<>>, NEW k \in 0..Len(m.buf), NEW y, Put(m, y, k), n = Exit(y)
      PROVE  AckedAreSafe(n, ack) /\ Carried(m, n) /\ (n.up => n.buf = <<>>)
  <2>1. /\ y \in Server /\ Kept(m, y) /\ y.buf = m.buf /\ y.jobs = m.jobs
        /\ y.bytes = m.bytes \o SubSeq(m.buf, 1, k) /\ y.synced = m.synced
    <3>1. ~(m.synced > m.size)
      BY <1>1, <1>4, <1>5, <1>8
    <3> QED
      BY <1>8, <3>1 DEF Put
  <2>2. /\ Kept(y, n) /\ ~n.up /\ n.jobs = y.jobs /\ n.bytes = y.bytes /\ n.buf = y.buf /\ n.synced = y.synced
    BY <1>8, <2>1, Zenon DEF Exit, Server, Kept
  <2>3. PICK p \in File : p = SubSeq(m.buf, 1, k) /\ NoPreamble(p)
    <3>1. SubSeq(m.buf, 1, k) \in File
      BY <1>5, Parts, Zenon
    <3>2. NoPreamble(SubSeq(m.buf, 1, k))
      BY <1>4, <1>5, PartForm, SMTT(60)
    <3> QED
      BY <3>1, <3>2, Zenon
  <2>4. /\ n.env = m.env /\ n.jobs = m.jobs /\ n.bytes = m.bytes \o p /\ n.buf = m.buf
        /\ n.state = m.state /\ NewFile(n) = NewFile(m) /\ n.synced = m.synced
    BY <2>1, <2>2, <2>3, SMTT(60) DEF Kept, NewFile
  <2>5. PreambleFirst(n.bytes)
    BY <1>4, <1>5, <2>3, <2>4, AppendedForm, SMTT(60)
  <2>6. Durable(n) = Durable(m) /\ n.synced <= Len(n.bytes)
    BY <1>4, <1>5, <2>4, AppendedAfterSync, SMTT(60)
  <2> QED
    BY <1>4, <2>2, <2>4, <2>5, <2>6, EndedIsSafe, ZenonT(60)
<1> QED
  BY <1>2, <1>3, <1>6, <1>7, <1>8, SMTT(60) DEF FlushCase

\* A failure that is only counted.
LEMMA CountingIsSafe ==
  ASSUME NEW m, NEW ack, Good(m), AckedAreSafe(m, ack)
  PROVE  /\ AckedAreSafe(Failed(m), ack) /\ Carried(m, Failed(m))
         /\ AckedAreSafe(Counted(m), ack) /\ Carried(m, Counted(m)) /\ Good(Counted(m))
<1>1. ASSUME NEW n, Same(m, n) PROVE AckedAreSafe(n, ack) /\ Carried(m, n)
  <2>1. Alike(m, n) /\ NewFile(n) = NewFile(m) /\ n.child = m.child /\ n.kid = m.kid
    BY <1>1 DEF Alike, Same, Kept, NewFile
  <2> QED
    BY <2>1, AlikeIsSafe
<1>2. Same(m, Failed(m))
  BY FailedIsGood
<1>3. Counted(m) \in Server /\ Same(m, Counted(m))
  BY CountedIsSame DEF Good
<1>4. Good(Counted(m))
  BY <1>3, SameIsGood, SMTT(60) DEF Same
<1> QED
  BY <1>1, <1>2, <1>3, <1>4

\* The new file has all that was acknowledged, and is fsynced before it is renamed.
LEMMA RewriteDoneIsSafe ==
  ASSUME NEW m, NEW ack, Good(m), AckedAreSafe(m, ack), Waits(m), m.up, m.child = "aof",
         m.kid.st \in {"ok", "failed"}, NEW n \in backgroundRewriteDoneHandler(m)
  PROVE  AckedAreSafe(n, ack) /\ Carried(m, n)
<1>1. ASSUME NEW x, Good(x), AckedAreSafe(x, ack), n = Cleanup(x)
      PROVE  AckedAreSafe(n, ack) /\ Carried(x, n)
  <2>1. Childless(x, n)
    BY <1>1, CleanupIsGood, SMTT(60)
  <2>2. Alike(x, n) /\ n.child # "aof" /\ n.rwbuf = <<>> /\ n.kid = NoKid
    BY <2>1 DEF Childless, Alike
  <2> QED
    BY <1>1, <2>2, ChildlessIsSafe, SMTT(60)
<1>2. CASE n = Cleanup(m)
  BY <1>1, <1>2
<1>3. CASE n = Cleanup(Failed(m))
  <2>1. Good(Failed(m)) /\ AckedAreSafe(Failed(m), ack) /\ Carried(m, Failed(m))
    BY FailedIsGood, CountingIsSafe, SMTT(60)
  <2> QED
    BY <1>1, <1>3, <2>1, CarriedTwice, SMTT(60)
<1> DEFINE r == Renamed(m)
           w == SwitchFile(r)
           x == IF m.state = "off" THEN r ELSE w
<1>4. CASE m.kid.st = "ok" /\ n = Cleanup(x)
  <2>1. m.env.policy = "always"
    BY DEF Waits
  <2>2. /\ r \in Server /\ r.state = m.state /\ r.data = m.data /\ r.env = m.env /\ r.up = m.up
        /\ r.child = m.child /\ r.kid = m.kid /\ r.rwbuf = m.rwbuf /\ r.buf = m.buf
        /\ r.bytes = NewFile(m) /\ r.jobs = m.jobs /\ r.synced = Len(r.bytes)
    BY <1>4, <2>1, RenamedFields, ZenonT(60)
  <2>3. Good(x)
    BY <1>4, NewFileIsGood
  <2> HIDE DEF r
  <2>4. /\ w \in Server /\ w.state = "on" /\ w.data = m.data /\ w.env = m.env /\ w.up = m.up
        /\ w.child = m.child /\ w.kid = m.kid /\ w.rwbuf = m.rwbuf /\ w.buf = <<>>
        /\ w.bytes = NewFile(m) /\ w.jobs = m.jobs /\ w.synced = Len(w.bytes)
    BY <2>2, SwitchFields, ZenonT(60)
  <2> HIDE DEF w
  <2>5. /\ m.jobs = <<>> /\ PreambleFirst(NewFile(m)) /\ NoPreamble(m.buf) /\ ack \subseteq Ids(m.data)
        /\ m.state = "off" => ack \subseteq Ids(Replay(NewFile(m)))
    BY <1>4, SMTT(60) DEF AckedAreSafe
  <2>6. m.state # "off" => Replay(NewFile(m)) = m.data
    BY <1>4, SMTT(60) DEF Good, RewriteIsWhole, Whole
  <2>7. /\ Durable(r) = Ids(Replay(NewFile(m))) /\ r.synced <= Len(r.bytes)
        /\ Durable(w) = Ids(Replay(NewFile(m))) /\ w.synced <= Len(w.bytes)
    <3>1. r.bytes \in File /\ w.bytes \in File
      BY <2>2, <2>4, SMTT(60) DEF Server
    <3> QED
      BY <2>2, <2>4, <3>1, SyncedToTheEnd, SMTT(60)
  <2>8. NewFile(r) = NewFile(m) /\ NewFile(w) = NewFile(m)
    BY <2>2, <2>4 DEF NewFile
  <2>9. NoPreamble(<<>>)
    BY EmptyForm
  <2>10. CASE m.state = "off"
    <3>1. AckedAreSafe(r, ack)
      BY <2>2, <2>5, <2>7, <2>8, <2>10, SMTT(60) DEF AckedAreSafe
    <3>2. Carried(m, r)
      BY <2>2, <2>10, SMTT(60) DEF Carried
    <3>3. x = r
      BY <2>10, SMTT(60)
    <3> HIDE DEF x
    <3> QED
      BY <1>1, <1>4, <2>3, <3>1, <3>2, <3>3, CarriedTwice, SMTT(60)
  <2>11. CASE m.state # "off"
    <3>1. AckedAreSafe(w, ack)
      BY <2>4, <2>5, <2>6, <2>7, <2>8, <2>9, <2>11, SMTT(60) DEF AckedAreSafe
    <3>2. Carried(m, w)
      BY <2>4, <2>6, <2>7, <2>11, SMTT(60) DEF Carried, Full
    <3>3. x = w
      BY <2>11
    <3> HIDE DEF x
    <3> QED
      BY <1>1, <1>4, <2>3, <3>1, <3>2, <3>3, CarriedTwice
  <2> QED
    BY <2>10, <2>11
<1> QED
  BY <1>2, <1>3, <1>4, SMTT(60) DEF backgroundRewriteDoneHandler

\* Every step of serverCron().
LEMMA CronIsSafe ==
  ASSUME NEW ack, Good(s), AckedAreSafe(s, ack), Waits(s), NEW second \in BOOLEAN, serverCron(second)
  PROVE  AckedAreSafe(s', ack) /\ Carried(s, s')
<1>1. PICK m1 \in StartRewrite(s) : \E m2 \in checkChildrenDone(m1) :
         \E m3 \in FlushPostponed(m2) : s' \in IF second THEN FlushAfterError(m3) ELSE {m3}
  BY DEF serverCron
<1>2. Good(m1) /\ m1.up
  BY <1>1, StartRewriteIsGood, SMTT(60) DEF serverCron
<1>0. Carried(s, s)
  BY DEF Carried
<1>3. AckedAreSafe(m1, ack) /\ Carried(s, m1)
  <2>1. CASE m1 = s
    BY <1>0, <2>1
  <2>2. CASE m1 = Failed(s)
    BY <2>2, CountingIsSafe
  <2> DEFINE f == Forked(s)
  <2>3. s.child = "none" => Good(f) /\ AckedAreSafe(f, ack) /\ Carried(s, f)
    BY ForkedIsGood, ForkedIsSafe, Zenon
  <2> HIDE DEF f
  <2>4. CASE m1 = f /\ s.child = "none"
    BY <2>3, <2>4
  <2>5. CASE m1 = Counted(f) /\ s.child = "none"
    BY <2>3, <2>5, CountingIsSafe, CarriedTwice, SMTT(60)
  <2> QED
    BY <1>1, <2>1, <2>2, <2>4, <2>5, SMTT(60) DEF StartRewrite, f
<1>4. PICK m2 \in checkChildrenDone(m1) :
         \E m3 \in FlushPostponed(m2) : s' \in IF second THEN FlushAfterError(m3) ELSE {m3}
  BY <1>1, SMTT(60)
<1>5. Good(m2) /\ m2.up
  BY <1>2, <1>4, ChildrenDoneIsGood, SMTT(60)
<1>6. Waits(m1)
  BY <1>3 DEF Carried, Waits
<1>7. AckedAreSafe(m2, ack) /\ Carried(m1, m2)
  <2>1. CASE m1.child = "aof" /\ m1.kid.st \in {"ok", "failed"}
    BY <1>2, <1>3, <1>4, <1>6, <2>1, RewriteDoneIsSafe, SMTT(60) DEF checkChildrenDone
  <2>2. CASE m1.child = "rdb" /\ m2 = [m1 EXCEPT !.child = "none", !.kid = NoKid]
    <3>1. m1 \in Server /\ m1.rwbuf = <<>>
      BY <1>2, <2>2, SMTT(60) DEF Good, RewriteIsWhole
    <3>2. Alike(m1, m2) /\ m2.child = "none" /\ m2.rwbuf = <<>> /\ m2.kid = NoKid
      BY <2>2, <3>1, SMTT(60) DEF Server, Alike
    <3> QED
      BY <1>3, <3>2, ChildlessIsSafe, SMTT(60)
  <2>3. CASE m2 = m1
    BY <1>3, <2>3, SMTT(60) DEF Carried
  <2> QED
    BY <1>4, <2>1, <2>2, <2>3, SMTT(60) DEF checkChildrenDone
<1>8. PICK m3 \in FlushPostponed(m2) : s' \in IF second THEN FlushAfterError(m3) ELSE {m3}
  BY <1>4, SMTT(60)
<1>9. Waits(m2) /\ Carried(s, m2)
  BY <1>3, <1>6, <1>7, CarriedTwice, CarriedWaits, Zenon
<1>10. Good(m3) /\ AckedAreSafe(m3, ack) /\ Carried(m2, m3)
  <2>1. CASE m3 = m2
    BY <1>5, <1>7, <2>1, ZenonT(60) DEF Carried
  <2>2. CASE m3 \in flushAppendOnlyFile(m2, FALSE)
    BY <1>5, <1>7, <1>9, <2>2, FlushIsGood, FlushIsSafe, ZenonT(60)
  <2> QED
    BY <1>8, <2>1, <2>2, Zenon DEF FlushPostponed
<1>11. Waits(m3) /\ Carried(s, m3)
  BY <1>9, <1>10, CarriedTwice, CarriedWaits, Zenon
<1>12. CASE s' = m3
  BY <1>10, <1>11, <1>12
<1>13. CASE m3.up /\ s' \in flushAppendOnlyFile(m3, FALSE)
  BY <1>10, <1>11, <1>13, FlushIsSafe, CarriedTwice, Zenon
<1> QED
  BY <1>8, <1>12, <1>13, Zenon DEF FlushAfterError

\* v is the part of b, l units long, that loadAppendOnlyFile() keeps; y units of b
\* and z units of v are on disk.
ValidPartOf(b, y, l, v, z) ==
  /\ l \in Nat /\ l = 2 * (Len(b) \div 2)
  /\ v \in File /\ v = SubSeq(b, 1, l)
  /\ z \in Nat /\ z = IF y > l THEN l ELSE y

\* The part that loadAppendOnlyFile() keeps replays to all that was on disk.
LEMMA ValidKeeps ==
  ASSUME NEW b \in File, NEW y \in 0..Len(b), NEW l, NEW v, NEW z, ValidPartOf(b, y, l, v, z)
  PROVE  /\ Len(v) = l /\ z <= l
         /\ Replay(SubSeq(v, 1, z)) = Replay(SubSeq(b, 1, y))
<1>0. /\ l \in Nat /\ l = 2 * (Len(b) \div 2) /\ v \in File /\ v = SubSeq(b, 1, l)
      /\ z \in Nat /\ z = IF y > l THEN l ELSE y
  BY DEF ValidPartOf
<1> DEFINE m == Len(b) \div 2
           c == Commands(b)
<1>1. Len(b) \in Nat /\ m \in Nat /\ l \in 0..Len(b) /\ z \in 0..Len(b) /\ z \in 0..l
  BY <1>0, LenProperties DEF File
<1>2. z \div 2 = y \div 2
  <2>1. CASE y > l
    <3>1. PICK x \in Nat : x = Len(b) \div 2 /\ Len(b) <= 2 * x + 1
      BY <1>1
    <3>2. z = 2 * x /\ y = 2 * x + 1
      BY <1>0, <1>1, <2>1, <3>1, SMTT(60)
    <3>3. (2 * x) \div 2 = x /\ (2 * x + 1) \div 2 = x
      BY <3>1, SMTT(60)
    <3> QED
      BY <3>2, <3>3, SMTT(60)
  <2>2. CASE ~(y > l)
    BY <1>0, <2>2, SMTT(60)
  <2> QED
    BY <2>1, <2>2, SMTT(60)
<1>3. c \in Seq(AnyCmd) /\ Len(c) = m
  BY CommandsTyped
<1>4. m = Len(b) \div 2
  OBVIOUS
<1> HIDE DEF m
<1>5. PICK h : IsRun(h, c, m)
  <2> HIDE DEF c
  <2> QED
    BY <1>1, <1>3, RunIsRun, SMTT(60)
<1>6. ASSUME NEW k \in 0..Len(b) PROVE Replay(SubSeq(b, 1, k)) = h[k \div 2].data
  BY <1>1, <1>4, <1>5, ReplayOfPart, SMTT(60)
<1>7. Replay(SubSeq(b, 1, z)) = Replay(SubSeq(b, 1, y))
  BY <1>1, <1>2, <1>6, SMTT(60)
<1> DEFINE p == SubSeq(v, 1, z)
           q == SubSeq(b, 1, z)
<1>8. Len(v) = l /\ \A i \in 1..l : v[i] = b[i]
  BY <1>0, <1>1, PartElements
<1>9. p \in File /\ Len(p) = z /\ \A i \in 1..z : p[i] = v[i]
  <2>1. z \in 0..Len(v)
    BY <1>1, <1>8
  <2> QED
    BY <1>0, <2>1, PartElements, ZenonT(60)
<1>10. q \in File /\ Len(q) = z /\ \A i \in 1..z : q[i] = b[i]
  BY <1>1, PartElements
<1>11. \A i \in 1..z : i \in 1..l
  BY <1>1
<1> HIDE DEF p, q
<1>12. \A i \in 1..z : p[i] = q[i]
  BY <1>8, <1>9, <1>10, <1>11, SMTT(60)
<1>13. p = q
  BY <1>9, <1>10, <1>12, SeqEqual, SMTT(60) DEF File
<1>14. z <= l
  BY <1>1, SMTT(60)
<1> QED
  BY <1>7, <1>8, <1>13, <1>14, ZenonT(60) DEF p, q

\* A process that starts again has all that was acknowledged.
LEMMA LoadedIsSafe ==
  ASSUME NEW old, old.synced \in Nat, NEW b \in File, PreambleFirst(b), old.synced <= Len(b),
         NEW ack, ack \subseteq Ids(Replay(SubSeq(b, 1, old.synced)))
  PROVE  AckedAreSafe(Loaded(old, b), ack)
<1> DEFINE n == Loaded(old, b)
<1>1. Len(b) \in Nat /\ old.synced \in 0..Len(b)
  BY LenProperties DEF File
<1>2. PICK l \in Nat : l = 2 * (Len(b) \div 2) /\ l \in 0..Len(b)
  BY <1>1
<1>3. PICK v \in File : v = SubSeq(b, 1, l)
  <2>1. SubSeq(b, 1, l) \in File
    BY <1>2, PartElements
  <2> QED
    BY <2>1, Zenon
<1>4. PICK z \in Nat : z = IF old.synced > l THEN l ELSE old.synced
  BY <1>2
<1>5. Len(v) = l /\ z <= l /\ Replay(SubSeq(v, 1, z)) = Replay(SubSeq(b, 1, old.synced))
  <2>1. PICK y \in 0..Len(b) : y = old.synced
    BY <1>1, SMTT(60)
  <2>2. ValidPartOf(b, y, l, v, z)
    BY <1>2, <1>3, <1>4, <2>1, SMTT(60) DEF ValidPartOf
  <2>4. Len(v) = l /\ z <= l /\ Replay(SubSeq(v, 1, z)) = Replay(SubSeq(b, 1, y))
    BY <2>2, ValidKeeps, SMTT(60)
  <2> QED
    BY <2>1, <2>4, SMTT(60)
<1>6. /\ n.env = old.env /\ n.up = TRUE /\ n.state = "on" /\ n.bytes = v /\ n.data = Replay(v)
      /\ n.synced = z /\ n.jobs = <<>> /\ n.buf = <<>> /\ n.child = "none" /\ n.rwbuf = <<>>
      /\ n.kid = NoKid
  BY <1>2, <1>3, <1>4, <1>5, SMTT(60) DEF Loaded
<1> HIDE DEF n
<1>7. PreambleFirst(v)
  BY <1>2, <1>3, PartForm, SMTT(60)
<1>8. ack \subseteq Durable(n)
  BY <1>5, <1>6 DEF Durable
<1>9. ack \subseteq Ids(n.data)
  <2>1. z \in 0..Len(v) /\ l \in 0..Len(v)
    BY <1>5
  <2>2. SubSeq(v, 1, l) = v
    BY <1>5, <2>1, Parts, ZenonT(60)
  <2>3. Ids(Replay(SubSeq(v, 1, z))) \subseteq Ids(Replay(SubSeq(v, 1, l)))
    BY <1>5, <1>7, <2>1, LongerReplay, SMTT(60)
  <2> QED
    BY <1>5, <1>6, <2>2, <2>3, Zenon
<1>10. NoPreamble(n.buf) /\ PreambleFirst(NewFile(n))
  BY <1>6, EmptyForm, NoNewFile, SMTT(60)
<1> QED
  BY <1>5, <1>6, <1>7, <1>8, <1>9, <1>10, SMTT(60) DEF AckedAreSafe, n

\* More that is on disk may be acknowledged.
LEMMA MoreAcked ==
  ASSUME NEW m, NEW ack, NEW more, AckedAreSafe(m, ack),
         Waits(m) => more \subseteq Durable(m) /\ more \subseteq Ids(m.data) /\ m.state = "on"
  PROVE  AckedAreSafe(m, ack \cup more)
BY DEF AckedAreSafe

\* A file that is fsynced to its end has at least what was on disk.
LEMMA SyncedMore ==
  ASSUME NEW m, NEW n, m.bytes \in File, m.synced \in Nat, m.synced <= Len(m.bytes),
         PreambleFirst(m.bytes), n.bytes = m.bytes, n.synced = Len(m.bytes)
  PROVE  Durable(m) \subseteq Durable(n) /\ n.synced <= Len(n.bytes)
<1>1. Len(m.bytes) \in Nat
  BY LenProperties DEF File
<1>2. m.synced \in 0..Len(m.bytes) /\ Len(m.bytes) \in 0..Len(m.bytes)
  BY <1>1
<1>3. Ids(Replay(SubSeq(m.bytes, 1, m.synced))) \subseteq Ids(Replay(SubSeq(m.bytes, 1, Len(m.bytes))))
  BY <1>2, LongerReplay
<1>4. n.synced <= Len(n.bytes)
  BY <1>1
<1> QED
  BY <1>3, <1>4 DEF Durable

\* killAppendOnlyChild() touches nothing that is on disk.
LEMMA KillChildIsSafe ==
  ASSUME NEW m, NEW ack, Good(m), AckedAreSafe(m, ack)
  PROVE  /\ AckedAreSafe(killAppendOnlyChild(m), ack) /\ Carried(m, killAppendOnlyChild(m))
<1> DEFINE n == killAppendOnlyChild(m)
<1>1. CASE m.child = "aof"
  <2>1. n = [m EXCEPT !.rwbuf = <<>>, !.kid = NoKid, !.child = "none"]
    BY <1>1 DEF killAppendOnlyChild
  <2> HIDE DEF n
  <2>2. Childless(m, n)
    BY <2>1, NoChildIsGood, ZenonT(60)
  <2>3. Alike(m, n) /\ n.child # "aof" /\ n.rwbuf = <<>> /\ n.kid = NoKid
    BY <2>2 DEF Childless, Alike
  <2>4. AckedAreSafe(n, ack) /\ Carried(m, n)
    BY <2>3, ChildlessIsSafe
  <2> QED
    BY <2>4 DEF n
<1>2. CASE m.child # "aof"
  BY <1>2 DEF killAppendOnlyChild, Carried
<1> QED
  BY <1>1, <1>2

\* The child and the pipes between it and the parent.
LEMMA ChildStepIsSafe ==
  ASSUME NEW ack, Good(s), AckedAreSafe(s, ack),
         \/ aofChildWriteDiffData \/ aofChildPipeReadable \/ ChildAsksToStop \/ ChildFinishes
         \/ ChildFails \/ Bgsave \/ BgsaveEnds
  PROVE  AckedAreSafe(s', ack) /\ Carried(s, s')
<1>1. ASSUME NEW m, AckedAreSafe(m, ack), OnlyKid(m, s', s'.kid, s'.rwbuf), NewFile(s') = NewFile(m),
             s'.child = "aof" /\ s'.kid.st # "failed" => m.child = "aof" /\ m.kid.st # "failed"
      PROVE  AckedAreSafe(s', ack) /\ Carried(m, s')
  <2>1. Alike(m, s')
    BY <1>1 DEF OnlyKid, Alike
  <2> QED
    BY <1>1, <2>1, AlikeIsSafe, ZenonT(60)
<1>2. CASE aofChildWriteDiffData
  <2>1. OnlyKid(s, s', s'.kid, s'.rwbuf) /\ NewFile(s') = NewFile(s) /\ s'.child = s.child /\ s'.kid.st = s.kid.st
    <3>1. PICK i \in 1..Len(s.rwbuf) :
             s' = [s EXCEPT !.kid.pipe = @ \o SubSeq(s.rwbuf, 1, i), !.rwbuf = SubSeq(@, i + 1, Len(@))]
      BY <1>2, Zenon DEF aofChildWriteDiffData
    <3>2. MaySend(s)
      BY <1>2, ZenonT(60) DEF aofChildWriteDiffData
    <3> QED
      BY <3>1, <3>2, DiffSent, Zenon
  <2> QED
    BY <1>1, <2>1
<1>3. CASE aofChildPipeReadable
  <2>1. OnlyKid(s, s', s'.kid, s'.rwbuf) /\ NewFile(s') = NewFile(s) /\ s'.child = s.child /\ s.kid.st = "asked"
    BY <1>3, StopAcknowledged, ZenonT(60) DEF aofChildPipeReadable
  <2> QED
    BY <1>1, <2>1
<1>4. CASE ChildAsksToStop
  <2>1. OnlyKid(s, s', s'.kid, s'.rwbuf) /\ NewFile(s') = NewFile(s) /\ s'.child = s.child /\ s.kid.st = "dump"
    BY <1>4, KidStateChanged, ZenonT(60) DEF ChildAsksToStop
  <2> QED
    BY <1>1, <2>1
<1>5. CASE ChildFinishes
  <2>1. OnlyKid(s, s', s'.kid, s'.rwbuf) /\ NewFile(s') = NewFile(s) /\ s'.child = s.child /\ s.kid.st = "acked"
    BY <1>5, ChildFinished, ZenonT(60) DEF ChildFinishes
  <2> QED
    BY <1>1, <2>1
<1>6. CASE ChildFails
  <2> DEFINE f == Failed(s)
  <2>1. Good(f) /\ f.child = "aof" /\ AckedAreSafe(f, ack) /\ Carried(s, f)
    BY <1>6, FailedIsGood, CountingIsSafe DEF Same, Kept, ChildFails
  <2>2. s' = [f EXCEPT !.kid.st = "failed"]
    BY <1>6 DEF ChildFails
  <2> HIDE DEF f
  <2>3. OnlyKid(f, s', s'.kid, s'.rwbuf) /\ NewFile(s') = NewFile(f) /\ s'.kid.st = "failed"
    BY <2>1, <2>2, KidStateChanged, ZenonT(60)
  <2> QED
    BY <1>1, <2>1, <2>3, CarriedTwice, SMTT(60)
<1>7. CASE Bgsave
  <2>1. OnlyKid(s, s', s'.kid, s'.rwbuf) /\ NewFile(s') = NewFile(s) /\ s'.child = "rdb"
    BY <1>7, BgsaveStarted, ZenonT(60) DEF Bgsave
  <2> QED
    BY <1>1, <2>1
<1>8. CASE BgsaveEnds
  <2>1. OnlyKid(s, s', s'.kid, s'.rwbuf) /\ NewFile(s') = NewFile(s) /\ s'.child = "rdb"
    <3>1. s.child = "rdb" /\ s' = [s EXCEPT !.kid.st = "ok"]
      BY <1>8 DEF BgsaveEnds
    <3> QED
      BY <3>1, KidStateChanged, ZenonT(60)
  <2> QED
    BY <1>1, <2>1
<1> QED
  BY <1>2, <1>3, <1>4, <1>5, <1>6, <1>7, <1>8, SMTT(60)

\* BGREWRITEAOF
LEMMA RewriteCommandIsSafe ==
  ASSUME NEW ack, Good(s), AckedAreSafe(s, ack), bgrewriteaofCommand
  PROVE  AckedAreSafe(s', ack) /\ Carried(s, s')
<1>1. CASE s.child = "rdb" /\ s' = [Counted(s) EXCEPT !.sched = TRUE]
  <2> DEFINE f == Counted(s)
  <2>1. f \in Server /\ AckedAreSafe(f, ack) /\ Carried(s, f)
    BY CountingIsSafe DEF Good
  <2>2. s' = [f EXCEPT !.sched = TRUE]
    BY <1>1
  <2> HIDE DEF f
  <2>3. Alike(f, s') /\ s'.child = f.child /\ s'.kid = f.kid /\ s'.rwbuf = f.rwbuf
    BY <2>1, <2>2 DEF Server, Alike
  <2>4. NewFile(s') = NewFile(f)
    BY <2>3 DEF NewFile
  <2> QED
    BY <2>1, <2>3, <2>4, AlikeIsSafe, CarriedTwice, SMTT(60)
<1>2. CASE s.child = "none" /\ s' = Counted(Forked(s))
  <2> DEFINE f == Forked(s)
  <2>1. Good(f) /\ AckedAreSafe(f, ack) /\ Carried(s, f)
    BY <1>2, ForkedIsGood, ForkedIsSafe, ZenonT(60)
  <2> HIDE DEF f
  <2>2. s' = Counted(f)
    BY <1>2 DEF f
  <2> QED
    BY <2>1, <2>2, CountingIsSafe, CarriedTwice, SMTT(60)
<1> QED
  BY <1>1, <1>2 DEF bgrewriteaofCommand

\* CONFIG SET appendonly no: the file is written and fsynced before it is closed.
LEMMA StopIsSafe ==
  ASSUME NEW ack, Good(s), AckedAreSafe(s, ack), Waits(s), stopAppendOnly
  PROVE  AckedAreSafe(s', ack) /\ Carried(s, s')
<1> DEFINE f == Failed(s)
<1>1. Good(f) /\ f.up /\ AckedAreSafe(f, ack) /\ Carried(s, f)
  BY FailedIsGood, CountingIsSafe, SMTT(60) DEF Same, stopAppendOnly
<1>2. PICK m \in flushAppendOnlyFile(f, TRUE) :
        s' = IF ~m.up THEN m
             ELSE [killAppendOnlyChild(m) EXCEPT !.state = "off", !.sched = FALSE,
                      !.buf = <<>>, !.seldb = -1, !.synced = Len(m.bytes), !.fsoff = m.size]
  BY Zenon DEF stopAppendOnly
<1>3. "config" \in s.env.ops
  BY DEF stopAppendOnly, MayFail
<1> HIDE DEF f
<1>4. Waits(f)
  BY <1>1 DEF Carried, Waits
<1>5. Good(m) /\ AckedAreSafe(m, ack) /\ Carried(f, m)
  BY <1>1, <1>2, <1>4, FlushIsGood, FlushIsSafe, ZenonT(60)
<1>6. Carried(s, m)
  BY <1>1, <1>5, CarriedTwice
<1>7. CASE ~m.up
  BY <1>2, <1>5, <1>6, <1>7, SMTT(60)
<1>8. CASE m.up
  <2> DEFINE k == killAppendOnlyChild(m)
  <2>1. Good(k) /\ Killed(m, k) /\ AckedAreSafe(k, ack) /\ Carried(m, k)
    BY <1>5, KilledIsGood, KillChildIsSafe, SMTT(60)
  <2> HIDE DEF k
  <2>2. Carried(s, k) /\ Waits(k)
    BY <1>6, <2>1, CarriedTwice, CarriedWaits, Zenon
  <2>3. k \in Server /\ k.bytes = m.bytes /\ k.child # "aof" /\ k.up
    BY <1>8, <2>1, Zenon DEF Killed, Good
  <2>4. Len(k.bytes) \in Nat /\ m.size \in Nat /\ k.bytes \in File /\ k.synced \in Nat
    BY <1>5, <2>3, LenProperties DEF Good, Server, File
  <2>5. s' = [k EXCEPT !.state = "off", !.sched = FALSE, !.buf = <<>>, !.seldb = -1,
                       !.synced = Len(k.bytes), !.fsoff = m.size]
    BY <1>2, <1>8, <2>3, SMTT(60) DEF k
  <2>6. /\ s'.up = k.up /\ s'.state = "off" /\ s'.bytes = k.bytes /\ s'.synced = Len(k.bytes)
        /\ s'.env = k.env /\ s'.data = k.data /\ s'.child = k.child /\ s'.buf = <<>>
        /\ s'.jobs = k.jobs /\ s'.kid = k.kid /\ s'.rwbuf = k.rwbuf
    <3>1. PICK y \in Nat : y = Len(k.bytes)
      BY <2>4
    <3>2. PICK o \in Nat : o = m.size
      BY <2>4
    <3>3. PICK e \in File : e = <<>>
      BY EmptySeq, Zenon DEF File
    <3>4. s' = [k EXCEPT !.state = "off", !.sched = FALSE, !.buf = e, !.seldb = -1,
                         !.synced = y, !.fsoff = o]
      BY <2>5, <3>1, <3>2, <3>3, SMTT(60)
    <3>5. /\ s'.up = k.up /\ s'.state = "off" /\ s'.bytes = k.bytes /\ s'.synced = y
          /\ s'.env = k.env /\ s'.data = k.data /\ s'.child = k.child /\ s'.buf = e
          /\ s'.jobs = k.jobs /\ s'.kid = k.kid /\ s'.rwbuf = k.rwbuf
      BY <2>3, <3>4, ZenonT(60) DEF Server
    <3> QED
      BY <3>1, <3>3, <3>5
  <2>7. /\ k.jobs = <<>> /\ k.synced <= Len(k.bytes) /\ PreambleFirst(k.bytes)
        /\ PreambleFirst(NewFile(k)) /\ ack \subseteq Durable(k) /\ ack \subseteq Ids(k.data)
    BY <2>1, <2>2, <2>3, SMTT(60) DEF AckedAreSafe
  <2>8. Durable(k) \subseteq Durable(s') /\ s'.synced <= Len(s'.bytes)
    BY <2>4, <2>6, <2>7, SyncedMore, SMTT(60)
  <2>9. NewFile(s') = NewFile(k)
    BY <2>6, SMTT(60) DEF NewFile
  <2>10. AckedAreSafe(s', ack)
    BY <2>3, <2>6, <2>7, <2>8, <2>9, EmptyForm, SMTT(60) DEF AckedAreSafe
  <2>11. Carried(s, s')
    BY <1>3, <2>2, <2>6, SMTT(60) DEF Carried
  <2> QED
    BY <2>10, <2>11, SMTT(60)
<1> QED
  BY <1>7, <1>8, SMTT(60)

\* CONFIG SET appendonly yes: the old file stays until the first rewrite is done.
LEMMA StartIsSafe ==
  ASSUME NEW ack, Good(s), AckedAreSafe(s, ack), Waits(s), startAppendOnly
  PROVE  AckedAreSafe(s', ack) /\ Carried(s, s')
<1> DEFINE f == Failed(s)
           k == killAppendOnlyChild(f)
           w == IF f.child = "rdb" THEN [f EXCEPT !.sched = TRUE] ELSE Forked(k)
<1>1. Good(f) /\ f.up /\ AckedAreSafe(f, ack) /\ Carried(s, f)
  BY FailedIsGood, CountingIsSafe DEF Same, startAppendOnly
<1>2. s' = [w EXCEPT !.state = "wait_rewrite", !.due = FALSE, !.bio = "ok", !.status = "ok"]
  BY DEF startAppendOnly
<1>3. "config" \in s.env.ops
  BY DEF startAppendOnly, MayFail
<1> HIDE DEF f
<1>4. w \in Server /\ AckedAreSafe(w, ack) /\ Carried(s, w)
  <2>1. CASE f.child = "rdb"
    <3> DEFINE u == [f EXCEPT !.sched = TRUE]
    <3>1. /\ u \in Server /\ Alike(f, u) /\ u.child = f.child /\ u.kid = f.kid /\ u.rwbuf = f.rwbuf
      BY <1>1, ZenonT(60) DEF Good, Server, Alike
    <3> HIDE DEF u
    <3>2. NewFile(u) = NewFile(f)
      BY <3>1, SMTT(60) DEF NewFile
    <3>3. AckedAreSafe(u, ack) /\ Carried(s, u)
      BY <1>1, <3>1, <3>2, AlikeIsSafe, CarriedTwice, SMTT(60)
    <3>4. w = u
      BY <2>1 DEF u
    <3> HIDE DEF w
    <3> QED
      BY <3>1, <3>3, <3>4, SMTT(60)
  <2>2. CASE f.child # "rdb"
    <3>1. Good(k) /\ k.child # "aof" /\ AckedAreSafe(k, ack) /\ Carried(s, k)
      BY <1>1, KilledIsGood, KillChildIsSafe, CarriedTwice, SMTT(60) DEF Killed
    <3> HIDE DEF k
    <3> DEFINE u == Forked(k)
    <3>2. Good(u) /\ AckedAreSafe(u, ack) /\ Carried(k, u)
      BY <3>1, ForkedIsGood, ForkedIsSafe, ZenonT(60)
    <3>3. w = u
      BY <2>2
    <3> HIDE DEF u, w
    <3> QED
      BY <3>1, <3>2, <3>3, CarriedTwice, SMTT(60) DEF Good
  <2> QED
    BY <2>1, <2>2, SMTT(60)
<1> HIDE DEF w
<1>5. /\ s'.up = w.up /\ s'.state = "wait_rewrite" /\ s'.bytes = w.bytes /\ s'.synced = w.synced
      /\ s'.env = w.env /\ s'.data = w.data /\ s'.child = w.child /\ s'.buf = w.buf
      /\ s'.jobs = w.jobs /\ s'.kid = w.kid /\ s'.rwbuf = w.rwbuf
  BY <1>2, <1>4, SMTT(60) DEF Server
<1>6. NewFile(s') = NewFile(w) /\ Durable(s') = Durable(w) /\ (Waits(s') <=> Waits(w))
  BY <1>5, SMTT(60) DEF NewFile, Durable, Waits
<1>7. AckedAreSafe(s', ack)
  BY <1>4, <1>5, <1>6, SMTT(60) DEF AckedAreSafe
<1>8. Carried(s, s')
  BY <1>3, <1>4, <1>5, SMTT(60) DEF Carried
<1> QED
  BY <1>7, <1>8

\* The process or the machine stops: what is on disk stays.
LEMMA EndIsSafe ==
  ASSUME NEW ack, Good(s), AckedAreSafe(s, ack), Waits(s), prepareForShutdown \/ Kill \/ PowerLoss
  PROVE  AckedAreSafe(s', ack) /\ Carried(s, s')
<1> DEFINE f == Failed(s)
<1>1. Good(f) /\ f \in Server /\ Same(s, f) /\ AckedAreSafe(f, ack) /\ Carried(s, f)
  BY FailedIsGood, CountingIsSafe DEF Good
<1> DEFINE x == Exit(f)
<1>2. /\ x \in Server /\ ~x.up /\ Kept(f, x) /\ x.buf = f.buf /\ x.bytes = f.bytes
      /\ x.synced = f.synced /\ x.jobs = f.jobs
  <2> HIDE DEF f
  <2> QED
    BY <1>1, ZenonT(60) DEF Exit, Server, Kept
<1>3. Waits(f)
  BY <1>1, SMTT(60) DEF Carried, Waits
<1>4. /\ f.synced <= Len(f.bytes) /\ PreambleFirst(f.bytes) /\ NoPreamble(f.buf)
      /\ f.bytes \in File /\ f.synced \in Nat
  BY <1>1, <1>3 DEF AckedAreSafe, Server
<1>5. Len(f.bytes) \in Nat
  BY <1>4, LenProperties DEF File
<1>6. CASE Kill
  <2>1. s' = x
    BY <1>6 DEF Kill
  <2> HIDE DEF x, f
  <2>2. /\ s'.env = f.env /\ s'.state = f.state /\ NewFile(s') = NewFile(f) /\ Durable(s') = Durable(f)
    BY <1>2, <2>1, Zenon DEF Kept, NewFile, Durable
  <2>3. AckedAreSafe(s', ack) /\ Carried(f, s')
    BY <1>1, <1>2, <1>3, <1>4, <2>1, <2>2, EndedIsSafe, ZenonT(60)
  <2> QED
    BY <1>1, <2>3, CarriedTwice, SMTT(60)
<1>7. CASE PowerLoss
  <2>1. PICK n \in s.synced..Len(s.bytes) : s' = [x EXCEPT !.bytes = SubSeq(@, 1, n), !.synced = n]
    BY <1>7, Zenon DEF PowerLoss
  <2>2. s.synced = f.synced /\ s.bytes = f.bytes
    BY <1>1 DEF Same
  <2> HIDE DEF x, f
  <2>3. n \in Nat /\ n \in 0..Len(f.bytes) /\ f.synced \in 0..Len(f.bytes) /\ f.synced <= n
    BY <1>4, <1>5, <2>2, SMTT(60)
  <2>4. PICK b \in File : b = SubSeq(f.bytes, 1, n) /\ Len(b) = n /\ PreambleFirst(b)
    <3>1. SubSeq(f.bytes, 1, n) \in File /\ Len(SubSeq(f.bytes, 1, n)) = n
      BY <1>4, <2>3, PartElements, SMTT(60)
    <3>2. PreambleFirst(SubSeq(f.bytes, 1, n))
      BY <1>4, <2>3, PartForm, SMTT(60)
    <3> QED
      BY <3>1, <3>2, ZenonT(60)
  <2>5. s' = [x EXCEPT !.bytes = b, !.synced = n]
    BY <1>2, <2>1, <2>4, SMTT(60)
  <2>6. /\ s'.env = x.env /\ s'.state = x.state /\ s'.buf = x.buf /\ s'.jobs = x.jobs /\ ~s'.up
        /\ s'.kid = x.kid /\ s'.rwbuf = x.rwbuf /\ s'.bytes = b /\ s'.synced = n
    BY <1>2, <2>3, <2>5, SMTT(60) DEF Server
  <2>7. /\ s'.env = f.env /\ s'.state = f.state /\ s'.buf = f.buf /\ s'.jobs = f.jobs
        /\ NewFile(s') = NewFile(f)
    BY <1>2, <2>6 DEF Kept, NewFile
  <2>8. Durable(f) \subseteq Durable(s') /\ s'.synced <= Len(s'.bytes)
    <3>1. SubSeq(b, 1, n) = b
      <4>1. n \in 0..Len(b)
        BY <2>3, <2>4
      <4> QED
        BY <2>4, <4>1, Parts, SMTT(60)
    <3>2. Durable(s') = Ids(Replay(SubSeq(f.bytes, 1, n)))
      BY <2>4, <2>6, <3>1, ZenonT(60) DEF Durable
    <3>3. Ids(Replay(SubSeq(f.bytes, 1, f.synced))) \subseteq Ids(Replay(SubSeq(f.bytes, 1, n)))
      BY <1>4, <2>3, LongerReplay, SMTT(60)
    <3>4. s'.synced <= Len(s'.bytes)
      BY <2>3, <2>4, <2>6, SMTT(60)
    <3> QED
      BY <3>2, <3>3, <3>4 DEF Durable
  <2>9. AckedAreSafe(s', ack) /\ Carried(f, s')
    BY <1>1, <1>3, <1>4, <2>4, <2>6, <2>7, <2>8, EndedIsSafe, ZenonT(60)
  <2> QED
    BY <1>1, <2>9, CarriedTwice, SMTT(60)
<1>8. CASE prepareForShutdown
  <2> DEFINE k == killAppendOnlyChild(f)
  <2>1. Good(k) /\ k.up /\ AckedAreSafe(k, ack) /\ Carried(f, k)
    <3>1. f.up
      BY <1>1, <1>8 DEF prepareForShutdown, Same
    <3> HIDE DEF f
    <3> QED
      BY <1>1, <3>1, KilledIsGood, KillChildIsSafe, SMTT(60) DEF Killed
  <2>2. PICK m \in flushAppendOnlyFile(k, TRUE) :
          s' = IF m.up THEN Exit([m EXCEPT !.synced = Len(m.bytes)]) ELSE m
    BY <1>8, ZenonT(60) DEF prepareForShutdown
  <2> HIDE DEF f, k, x
  <2>3. Carried(s, k) /\ Waits(k)
    BY <1>1, <1>3, <2>1, CarriedTwice, CarriedWaits, Zenon
  <2>4. Good(m) /\ AckedAreSafe(m, ack) /\ Carried(k, m)
    BY <2>1, <2>2, <2>3, FlushIsGood, FlushIsSafe, Zenon
  <2>5. Carried(s, m) /\ Waits(m)
    BY <2>3, <2>4, CarriedTwice, CarriedWaits, Zenon
  <2>6. CASE ~m.up
    BY <2>2, <2>4, <2>5, <2>6
  <2>7. CASE m.up
    <3>1. PICK l \in Nat : l = Len(m.bytes)
      BY <2>4, LenProperties DEF Good, Server, File
    <3> DEFINE y == [m EXCEPT !.synced = l]
    <3>2. /\ y \in Server /\ Kept(m, y) /\ y.bytes = m.bytes /\ y.synced = l /\ y.jobs = m.jobs
          /\ y.buf = m.buf
      BY <2>4, Zenon DEF Good, Server, Kept
    <3>3. s' = Exit(y)
      BY <2>2, <2>7, <3>1, SMTT(60)
    <3> HIDE DEF y
    <3>4. /\ Kept(y, s') /\ s'.bytes = y.bytes /\ s'.synced = l /\ ~s'.up /\ s'.jobs = y.jobs
          /\ s'.buf = y.buf
      BY <3>2, <3>3, SMTT(60) DEF Exit, Server, Kept
    <3>5. /\ s'.env = m.env /\ s'.state = m.state /\ s'.buf = m.buf /\ s'.jobs = m.jobs
          /\ NewFile(s') = NewFile(m) /\ s'.bytes = m.bytes /\ s'.synced = Len(m.bytes) /\ ~s'.up
      BY <3>1, <3>2, <3>4, SMTT(60) DEF Kept, NewFile
    <3>6. /\ m.synced <= Len(m.bytes) /\ PreambleFirst(m.bytes) /\ NoPreamble(m.buf)
          /\ m.bytes \in File /\ m.synced \in Nat
      BY <2>4, <2>5, SMTT(60) DEF AckedAreSafe, Good, Server
    <3>7. Durable(m) \subseteq Durable(s') /\ s'.synced <= Len(s'.bytes)
      BY <3>5, <3>6, SyncedMore, SMTT(60)
    <3>8. AckedAreSafe(s', ack) /\ Carried(m, s')
      BY <2>4, <2>5, <3>5, <3>6, <3>7, EndedIsSafe, SMTT(60)
    <3> QED
      BY <2>5, <3>8, CarriedTwice, SMTT(60)
  <2> QED
    BY <2>6, <2>7, SMTT(60)
<1> QED
  BY <1>6, <1>7, <1>8, SMTT(60)

\* The bio thread has nothing to do with appendfsync always; time passes.
LEMMA IdleIsSafe ==
  ASSUME NEW ack, Good(s), AckedAreSafe(s, ack), Waits(s), Tick \/ BioStart \/ BioFinish
  PROVE  AckedAreSafe(s', ack) /\ Carried(s, s')
<1>1. CASE Tick
  <2>1. Same(s, s')
    BY <1>1, TickIsGood, SMTT(60)
  <2>2. Alike(s, s') /\ NewFile(s') = NewFile(s) /\ s'.child = s.child /\ s'.kid = s.kid
    BY <2>1 DEF Alike, Same, Kept, NewFile
  <2> QED
    BY <2>2, AlikeIsSafe
<1>2. CASE BioStart \/ BioFinish
  BY <1>2 DEF BioStart, BioFinish, AckedAreSafe
<1> QED
  BY <1>1, <1>2, SMTT(60)

\* n is m after write w, which is in the dataset and not on disk yet.
Accepted(m, n, w) ==
  /\ n.env = m.env /\ n.up /\ n.state = m.state /\ Durable(n) = Durable(m)
  /\ Ids(m.data) \subseteq Ids(n.data) /\ w \in Ids(n.data)
  /\ m.state = "on" => n.buf # <<>>

\* call() accepts the write.
LEMMA CallIsSafe ==
  ASSUME NEW m, NEW ack, Good(m), m.up, AckedAreSafe(m, ack), Waits(m), NEW d \in Db, NEW w \in Nat
  PROVE  AckedAreSafe(Call(m, d, w), ack) /\ Accepted(m, Call(m, d, w), w)
<1> DEFINE out == Fed(m.seldb, d, w)
           n == Call(m, d, w)
<1>1. m \in Server /\ m.buf \in File /\ m.data \in Data
  BY DEF Good, Server
<1>2. Called(m, n, d, w)
  BY <1>1, CallFields
<1>3. out \in File /\ NoPreamble(out) /\ Len(out) # 0
  BY FedForm, SMTT(60)
<1> HIDE DEF out, n
<1>4. /\ n.data = Append(m.data, <<w, d>>)
      /\ n.buf = IF m.state = "on" THEN m.buf \o out ELSE m.buf
      /\ n.rwbuf = IF m.state # "off" /\ m.child = "aof" THEN m.rwbuf \o out ELSE m.rwbuf
      /\ n.state = m.state /\ n.child = m.child /\ n.kid = m.kid /\ n.env = m.env /\ n.up = m.up
      /\ n.bytes = m.bytes /\ n.synced = m.synced /\ n.jobs = m.jobs
  BY <1>2, SMTT(60) DEF Called, out
<1>5. Durable(n) = Durable(m) /\ (Waits(n) <=> Waits(m))
  BY <1>4, SMTT(60) DEF Durable, Waits
<1>6. Ids(m.data) \subseteq Ids(n.data) /\ w \in Ids(n.data)
  <2>1. <<w, d>> \in Nat \X Db /\ <<w, d>>[1] = w
    OBVIOUS
  <2>2. Ids(m.data) \subseteq Ids(n.data) /\ <<w, d>>[1] \in Ids(n.data)
    BY <1>1, <1>4, <2>1, AppendedIds, SMTT(60)
  <2> QED
    BY <2>1, <2>2
<1>7. /\ m.jobs = <<>> /\ m.synced <= Len(m.bytes)
      /\ PreambleFirst(m.bytes) /\ NoPreamble(m.buf) /\ PreambleFirst(NewFile(m))
      /\ ack \subseteq Durable(m) /\ ack \subseteq Ids(m.data)
      /\ m.state = "off" /\ m.child = "aof" /\ m.kid.st # "failed" =>
            ack \subseteq Ids(Replay(NewFile(m)))
  BY SMTT(60) DEF AckedAreSafe
<1>8. NoPreamble(n.buf) /\ (m.state = "on" => n.buf # <<>>)
  <2>1. NoPreamble(m.buf \o out) /\ Len(m.buf \o out) # 0
    <3>1. NoPreamble(m.buf \o out)
      BY <1>1, <1>3, <1>7, AppendedForm, SMTT(60)
    <3>2. /\ Len(m.buf \o out) = Len(m.buf) + Len(out) /\ Len(m.buf) \in Nat /\ Len(out) \in Nat
      BY <1>1, <1>3, Concatenated, SMTT(60)
    <3> QED
      BY <1>3, <3>1, <3>2, SMTT(60)
  <2>2. Len(<<>>) = 0
    OBVIOUS
  <2> QED
    BY <1>4, <1>7, <2>1, <2>2, SMTT(60)
<1>9. PreambleFirst(NewFile(n))
  <2>1. CASE m.state # "off" /\ m.child = "aof"
    <3> DEFINE f == m.kid.file \o m.kid.pipe
    <3>1. f \in File /\ m.rwbuf \in File /\ NewFile(m) \in File
      BY <1>1, NewFileTyped
    <3>2. NewFile(n) = f \o (m.rwbuf \o out)
      BY <1>4, <2>1, Zenon DEF NewFile
    <3>3. NewFile(m) = f \o m.rwbuf
      BY DEF NewFile
    <3> HIDE DEF f
    <3>4. (f \o m.rwbuf) \o out = f \o (m.rwbuf \o out)
      BY <1>3, <3>1, Associative, ZenonT(60)
    <3>5. NewFile(n) = NewFile(m) \o out
      BY <3>2, <3>3, <3>4, SMTT(60)
    <3> QED
      BY <1>3, <1>7, <3>1, <3>5, AppendedForm, SMTT(60)
  <2>2. CASE ~(m.state # "off" /\ m.child = "aof")
    <3>1. NewFile(n) = NewFile(m)
      BY <1>4, <2>2, ZenonT(60) DEF NewFile
    <3> QED
      BY <1>7, <3>1
  <2> QED
    BY <2>1, <2>2, SMTT(60)
<1>10. m.state = "off" => NewFile(n) = NewFile(m)
  BY <1>4, SMTT(60) DEF NewFile
<1>11. AckedAreSafe(n, ack)
  BY <1>4, <1>5, <1>6, <1>7, <1>8, <1>9, <1>10, SMTT(60) DEF AckedAreSafe
<1> QED
  BY <1>4, <1>5, <1>6, <1>8, <1>11, ZenonT(60) DEF Accepted, n

Replies == [Client -> [pending : SUBSET Nat, handler : {"none", "plain", "barrier"}]]

\* The readable event of a client: the reply waits for the next flush.
LEMMA ReadableIsSafe ==
  ASSUME Good(s), AckedAreSafe(s, acked), RepliesWait(s, client, fired), client \in Replies,
         written \in Nat, Waits(s), NEW c \in Client, Readable(c)
  PROVE  /\ AckedAreSafe(s', acked') /\ RepliesWait(s', client', fired') /\ client' \in Replies
<1> DEFINE w == written + 1
<1>1. w \in Nat /\ s.up /\ acked' = acked /\ fired' = fired \cup {c}
  BY DEF Readable
<1>2. PICK d \in Db : s' = Call(s, d, w)
  <2>1. s.env.dbs \subseteq Db
    BY DEF Good, Server, Environment
  <2> QED
    BY <2>1 DEF Readable
<1>3. client' = [client EXCEPT ![c].pending = @ \cup {w}]
  BY DEF Readable
<1> HIDE DEF w
<1>4. /\ AckedAreSafe(s', acked) /\ s'.env = s.env /\ s'.up /\ s'.state = s.state
      /\ Durable(s') = Durable(s) /\ Ids(s.data) \subseteq Ids(s'.data) /\ w \in Ids(s'.data)
      /\ s.state = "on" => s'.buf # <<>>
  <2>1. AckedAreSafe(s', acked) /\ Accepted(s, s', w)
    BY <1>1, <1>2, CallIsSafe
  <2> QED
    BY <2>1, Zenon DEF Accepted
<1>5. client' \in Replies
  BY <1>1, <1>3 DEF Replies
<1>6. /\ client'[c].handler = client[c].handler /\ client'[c].pending = client[c].pending \cup {w}
      /\ \A e \in Client : e # c => client'[e] = client[e]
  BY <1>3, SMTT(60) DEF Replies
<1>7. RepliesWait(s', client', fired')
  <2>1. /\ "config" \notin s.env.ops => s.state = "on"
        /\ "slow-client" \notin s.env.ops => \A e \in Client : client[e].handler = "none"
        /\ \A e \in Client : client[e].handler # "plain" /\ client[e].pending \subseteq Ids(s.data)
    BY <1>1, SMTT(60) DEF RepliesWait
  <2>2. \A e \in Client : client'[e].handler = client[e].handler /\ client'[e].pending \subseteq Ids(s'.data)
    BY <1>4, <1>6, <2>1, SMTT(60)
  <2>3. ASSUME s.state = "on", NEW e \in Client, e \notin fired', client'[e].handler # "none"
        PROVE  client'[e].pending \subseteq Durable(s')
    <3>1. e # c /\ e \notin fired /\ client'[e] = client[e]
      BY <1>1, <1>6, <2>3, SMTT(60)
    <3> QED
      BY <1>1, <1>4, <2>3, <3>1, SMTT(60) DEF RepliesWait
  <2> QED
    BY <1>4, <2>1, <2>2, <2>3, SMTT(60) DEF RepliesWait
<1> QED
  BY <1>1, <1>4, <1>5, <1>7, SMTT(60)

\* The writable event, alone or with the readable one: what is sent is on disk, as a
\* handler is there since a flush that left nothing in the buffer, and has a barrier.
LEMMA WritableIsSafe ==
  ASSUME Good(s), AckedAreSafe(s, acked), RepliesWait(s, client, fired), client \in Replies,
         written \in Nat, Waits(s), NEW c \in Client, sendReplyToClient(c) \/ ReadableAndWritable(c)
  PROVE  /\ AckedAreSafe(s', acked') /\ RepliesWait(s', client', fired') /\ client' \in Replies
<1> DEFINE w == written + 1
           p == client[c].pending
<1>1. w \in Nat /\ s.up /\ fired' = fired \cup {c} /\ c \notin fired /\ client[c].handler # "none"
  BY SMTT(60) DEF sendReplyToClient, ReadableAndWritable
<1>2. /\ "config" \notin s.env.ops => s.state = "on"
      /\ "slow-client" \notin s.env.ops => \A e \in Client : client[e].handler = "none"
      /\ \A e \in Client : client[e].handler # "plain" /\ client[e].pending \subseteq Ids(s.data)
  BY <1>1, SMTT(60) DEF RepliesWait
<1>3. s.state = "on" /\ client[c].handler = "barrier"
  <2>1. "slow-client" \in s.env.ops
    BY <1>1, <1>2, SMTT(60)
  <2>2. "config" \notin s.env.ops
    BY <2>1 DEF Waits
  <2>3. client[c].handler \in {"none", "plain", "barrier"}
    BY SMTT(60) DEF Replies
  <2> QED
    BY <1>1, <1>2, <2>2, <2>3, SMTT(60)
<1>4. p \subseteq Durable(s) /\ p \subseteq Ids(s.data)
  BY <1>1, <1>2, <1>3, SMTT(60) DEF RepliesWait
<1>5. AckedAreSafe(s, acked \cup p)
  BY <1>3, <1>4, MoreAcked, SMTT(60)
<1>6. acked' = acked \cup p
  <2>1. SentIn(c, w) = p
    BY <1>3, SMTT(60) DEF SentIn
  <2> QED
    BY <1>3, <2>1, SMTT(60) DEF sendReplyToClient, ReadableAndWritable, Reply
<1>7. CASE sendReplyToClient(c)
  <2>1. s' = s /\ client' = [client EXCEPT ![c] = [pending |-> {}, handler |-> "none"]]
    BY <1>7, SMTT(60) DEF sendReplyToClient
  <2>2. client' \in Replies
    BY <2>1, SMTT(60) DEF Replies
  <2>3. /\ client'[c].pending = {} /\ client'[c].handler = "none"
        /\ \A e \in Client : e # c => client'[e] = client[e]
    BY <2>1 DEF Replies
  <2>4. RepliesWait(s, client', fired')
    BY <1>1, <2>3, Zenon DEF RepliesWait
  <2> QED
    BY <1>5, <1>6, <2>1, <2>2, <2>4, SMTT(60)
<1>8. CASE ReadableAndWritable(c)
  <2>1. PICK d \in Db : s' = Call(s, d, w)
    <3>1. s.env.dbs \subseteq Db
      BY DEF Good, Server, Environment
    <3> QED
      BY <1>8, <3>1, SMTT(60) DEF ReadableAndWritable
  <2>2. client' = [client EXCEPT ![c] = [pending |-> {w} \ SentIn(c, w), handler |-> "none"]]
    BY <1>8, ZenonT(60) DEF ReadableAndWritable
  <2> DEFINE q == {w} \ SentIn(c, w)
  <2> HIDE DEF w, p
  <2>3. q \subseteq {w} /\ q \in SUBSET Nat
    BY <1>1
  <2> HIDE DEF q
  <2>4. client' = [client EXCEPT ![c] = [pending |-> q, handler |-> "none"]]
    BY <2>2 DEF q
  <2>5. client' \in Replies
    BY <2>3, <2>4 DEF Replies
  <2>6. /\ client'[c].pending = q /\ client'[c].handler = "none"
        /\ \A e \in Client : e # c => client'[e] = client[e]
    BY <2>4, SMTT(60) DEF Replies
  <2>7. /\ AckedAreSafe(s', acked \cup p) /\ s'.env = s.env /\ s'.up /\ s'.state = s.state
        /\ Durable(s') = Durable(s) /\ Ids(s.data) \subseteq Ids(s'.data) /\ w \in Ids(s'.data)
        /\ s.state = "on" => s'.buf # <<>>
    <3>1. AckedAreSafe(s', acked \cup p) /\ Accepted(s, s', w)
      BY <1>1, <1>5, <2>1, CallIsSafe, SMTT(60)
    <3> QED
      BY <3>1, SMTT(60) DEF Accepted
  <2>8. RepliesWait(s', client', fired')
    <3>1. \A e \in Client : client'[e].pending \subseteq Ids(s'.data) /\ client'[e].handler # "plain"
      BY <1>2, <2>3, <2>6, <2>7, ZenonT(60)
    <3>2. ASSUME NEW e \in Client, e \notin fired', client'[e].handler # "none"
          PROVE  client'[e].pending \subseteq Durable(s')
      <4>1. e # c /\ e \notin fired /\ client'[e] = client[e]
        BY <1>1, <2>6, <3>2, SMTT(60)
      <4> QED
        BY <1>1, <1>3, <2>7, <3>2, <4>1, SMTT(60) DEF RepliesWait
    <3>3. "slow-client" \notin s'.env.ops => \A e \in Client : client'[e].handler = "none"
      BY <1>2, <2>6, <2>7, SMTT(60)
    <3> QED
      BY <1>3, <2>7, <3>1, <3>2, <3>3, ZenonT(60) DEF RepliesWait
  <2> QED
    BY <1>6, <2>5, <2>7, <2>8, ZenonT(60)
<1> QED
  BY <1>7, <1>8, SMTT(60)

\* beforeSleep() writes and fsyncs all before it sends the replies.
LEMMA BeforeSleepIsSafe ==
  ASSUME Good(s), AckedAreSafe(s, acked), RepliesWait(s, client, fired), client \in Replies,
         Waits(s), beforeSleep
  PROVE  /\ AckedAreSafe(s', acked') /\ RepliesWait(s', client', fired') /\ client' \in Replies
<1> DEFINE queued == {c \in Client : client[c].pending # {} /\ client[c].handler = "none"}
<1>1. /\ s.up /\ fired' = {} /\ s' \in IF s.state = "on" THEN flushAppendOnlyFile(s, FALSE) ELSE {s}
  BY Zenon DEF beforeSleep
<1>2. PICK slow \in IF s'.up /\ "slow-client" \in s.env.ops THEN SUBSET queued ELSE {{}} :
         /\ client' = [c \in Client |->
                IF c \in slow THEN [client[c] EXCEPT !.handler = HandlerFor(s')]
                ELSE IF c \in queued /\ s'.up THEN [client[c] EXCEPT !.pending = {}]
                ELSE client[c]]
         /\ IF s'.up THEN Reply(UNION {client[c].pending : c \in queued \ slow})
                     ELSE UNCHANGED acked
  BY ZenonT(60) DEF beforeSleep
<1> HIDE DEF queued
<1>3. /\ AckedAreSafe(s', acked) /\ Carried(s, s') /\ s'.state = s.state
      /\ s'.up /\ s.state = "on" => s'.buf = <<>>
  <2>1. CASE s.state = "on"
    <3>1. s' \in flushAppendOnlyFile(s, FALSE)
      BY <1>1, <2>1, Zenon
    <3>2. Kept(s, s')
      BY <1>1, <3>1, FlushIsGood, ZenonT(60)
    <3> QED
      BY <1>1, <2>1, <3>1, <3>2, FlushIsSafe, ZenonT(60) DEF Kept
  <2>2. CASE s.state # "on"
    BY <1>1, <2>2, SMTT(60) DEF Carried
  <2> QED
    BY <2>1, <2>2, SMTT(60)
<1>4. RepliesWait(s', client, fired) /\ Waits(s') /\ s'.env = s.env
  BY <1>3, CarriedReplies, ZenonT(60) DEF Carried, Waits
<1>5. slow # {} => s'.up /\ s'.state = "on" /\ "slow-client" \in s.env.ops
  <2>1. slow # {} => s'.up /\ "slow-client" \in s.env.ops
    BY <1>2, SMTT(60)
  <2>2. "slow-client" \in s.env.ops => s'.state = "on"
    BY <1>4, SMTT(60) DEF RepliesWait, Waits
  <2> QED
    BY <2>1, <2>2
<1>6. HandlerFor(s') \in {"plain", "barrier"} /\ (s'.state = "on" => HandlerFor(s') = "barrier")
  BY <1>4, SMTT(60) DEF HandlerFor, Waits
<1>7. ASSUME NEW c \in Client
      PROVE  /\ client[c].pending \in SUBSET Nat /\ client[c].handler \in {"none", "plain", "barrier"}
             /\ client'[c] \in [pending : SUBSET Nat, handler : {"none", "plain", "barrier"}]
             /\ client'[c].pending \subseteq client[c].pending
             /\ \/ client'[c].handler = client[c].handler
                \/ client'[c].handler = "barrier" /\ "slow-client" \in s.env.ops
  <2>1. PICK r \in [pending : SUBSET Nat, handler : {"none", "plain", "barrier"}] : r = client[c]
    BY DEF Replies
  <2>2. CASE c \in slow
    <3>1. client'[c] = [r EXCEPT !.handler = "barrier"] /\ "slow-client" \in s.env.ops
      BY <1>2, <1>5, <1>6, <2>1, <2>2, SMTT(60)
    <3> QED
      BY <2>1, <3>1
  <2>3. CASE c \notin slow /\ c \in queued /\ s'.up
    <3>1. client'[c] = [r EXCEPT !.pending = {}]
      BY <1>2, <2>1, <2>3, SMTT(60)
    <3> QED
      BY <2>1, <3>1
  <2>4. CASE c \notin slow /\ ~(c \in queued /\ s'.up)
    <3>1. client'[c] = r
      BY <1>2, <2>1, <2>4, SMTT(60)
    <3> QED
      BY <2>1, <3>1, SMTT(60)
  <2> QED
    BY <2>2, <2>3, <2>4, SMTT(60)
<1>8. client' \in Replies
  <2>1. client' = [c \in Client |-> client'[c]]
    BY <1>2, SMTT(60)
  <2> QED
    BY <1>7, <2>1 DEF Replies
<1>9. RepliesWait(s', client', fired')
  <2>1. /\ "config" \notin s'.env.ops => s'.state = "on"
        /\ "slow-client" \notin s'.env.ops => \A c \in Client : client[c].handler = "none"
        /\ \A c \in Client : client[c].handler # "plain"
        /\ s'.up => \A c \in Client : client[c].pending \subseteq Ids(s'.data)
        /\ s'.up /\ s'.state = "on" => \A c \in Client : client[c].pending \subseteq Durable(s')
    BY <1>3, <1>4, Zenon DEF RepliesWait
  <2>2. "slow-client" \notin s'.env.ops => \A c \in Client : client'[c].handler = "none"
    BY <1>4, <1>7, <2>1, ZenonT(60)
  <2>3. \A c \in Client : client'[c].handler # "plain"
    BY <1>7, <2>1, ZenonT(60)
  <2>4. s'.up => \A c \in Client : client'[c].pending \subseteq Ids(s'.data)
    BY <1>7, <2>1, ZenonT(60)
  <2>5. s'.up /\ s'.state = "on" => \A c \in Client : client'[c].pending \subseteq Durable(s')
    <3>1. ASSUME s'.up, s'.state = "on", NEW c \in Client
          PROVE  client'[c].pending \subseteq Durable(s')
      <4>1. client[c].pending \subseteq Durable(s')
        BY <2>1, <3>1, ZenonT(60)
      <4>2. client'[c].pending \subseteq client[c].pending
        BY <1>7, ZenonT(60)
      <4> QED
        BY <4>1, <4>2, ZenonT(60)
    <3> QED
      BY <3>1, ZenonT(60)
  <2> QED
    BY <2>1, <2>2, <2>3, <2>4, <2>5, SMTT(60) DEF RepliesWait
<1>10. AckedAreSafe(s', acked')
  <2> DEFINE ids == UNION {client[c].pending : c \in queued \ slow}
  <2>1. CASE s'.up /\ s.state = "on"
    <3>1. acked' = acked \cup ids
      BY <1>2, <2>1, SMTT(60) DEF Reply
    <3>2. \A c \in queued : c \in Client
      BY DEF queued
    <3>3. \A c \in Client : client[c].pending \subseteq Durable(s') /\ client[c].pending \subseteq Ids(s'.data)
      BY <1>3, <1>4, <2>1, ZenonT(60) DEF RepliesWait
    <3>4. ids \subseteq Durable(s') /\ ids \subseteq Ids(s'.data)
      BY <3>2, <3>3, ZenonT(60)
    <3> HIDE DEF ids
    <3> QED
      BY <1>3, <2>1, <3>1, <3>4, MoreAcked, ZenonT(60)
  <2>2. CASE ~(s'.up /\ s.state = "on")
    <3>1. acked' = acked
      BY <1>2, <2>2, SMTT(60) DEF Reply
    <3> QED
      BY <1>3, <3>1
  <2> QED
    BY <2>1, <2>2
<1> QED
  BY <1>8, <1>9, <1>10

\* A new process has no clients yet, and all that was acknowledged.
LEMMA RestartIsSafe ==
  ASSUME Good(s), AckedAreSafe(s, acked), Waits(s), loadAppendOnlyFile
  PROVE  /\ AckedAreSafe(s', acked') /\ RepliesWait(s', client', fired') /\ client' \in Replies
<1>1. /\ s' = Loaded(s, s.bytes) /\ acked' = acked
      /\ client' = [c \in Client |-> [pending |-> {}, handler |-> "none"]]
  BY DEF loadAppendOnlyFile
<1>2. s.synced \in Nat /\ s.bytes \in File
  BY SMTT(60) DEF Good, Server
<1>3. /\ PreambleFirst(s.bytes) /\ s.synced <= Len(s.bytes)
      /\ acked \subseteq Ids(Replay(SubSeq(s.bytes, 1, s.synced)))
  BY DEF AckedAreSafe, Durable
<1>4. AckedAreSafe(s', acked)
  BY <1>1, <1>2, <1>3, LoadedIsSafe, SMTT(60)
<1>5. s'.state = "on"
  BY <1>1 DEF Loaded
<1>6. \A c \in Client : client'[c].pending = {} /\ client'[c].handler = "none"
  BY <1>1
<1>7. RepliesWait(s', client', fired')
  BY <1>5, <1>6, SMTT(60) DEF RepliesWait
<1>8. client' \in Replies
  BY <1>1, SMTT(60) DEF Replies
<1> QED
  BY <1>1, <1>4, <1>7, <1>8, SMTT(60)

\* The inductive invariant, with the writes that were acknowledged and the replies
\* that were not sent yet.
DurableInv ==
  /\ OffsetInv
  /\ AckedAreSafe(s, acked)
  /\ RepliesWait(s, client, fired)
  /\ Waits(s) => client \in Replies

\* Every step keeps what was acknowledged on disk.
LEMMA AckedStaySafe ==
  ASSUME DurableInv, [Next]_vars, Waits(s)
  PROVE  AckedAreSafe(s', acked') /\ RepliesWait(s', client', fired') /\ client' \in Replies
<1>0. /\ Good(s) /\ written \in Nat /\ AckedAreSafe(s, acked) /\ RepliesWait(s, client, fired)
      /\ client \in Replies
  BY DEF DurableInv, OffsetInv, FilesAreWhole
<1>1. ASSUME NEW c \in Client, Readable(c)
      PROVE  AckedAreSafe(s', acked') /\ RepliesWait(s', client', fired') /\ client' \in Replies
  BY <1>0, <1>1, ReadableIsSafe, SMTT(60)
<1>2. ASSUME NEW c \in Client, sendReplyToClient(c) \/ ReadableAndWritable(c)
      PROVE  AckedAreSafe(s', acked') /\ RepliesWait(s', client', fired') /\ client' \in Replies
  BY <1>0, <1>2, WritableIsSafe, SMTT(60)
<1>3. CASE beforeSleep
  BY <1>0, <1>3, BeforeSleepIsSafe, SMTT(60)
<1>4. CASE loadAppendOnlyFile
  BY <1>0, <1>4, RestartIsSafe, SMTT(60)
<1>5. ASSUME AckedAreSafe(s', acked), Carried(s, s'), Others
      PROVE  AckedAreSafe(s', acked') /\ RepliesWait(s', client', fired') /\ client' \in Replies
  <2>1. acked' = acked /\ client' = client /\ fired' = fired
    BY <1>5 DEF Others
  <2>2. RepliesWait(s', client, fired)
    BY <1>0, <1>5, CarriedReplies, SMTT(60)
  <2> QED
    BY <1>0, <1>5, <2>1, <2>2, SMTT(60)
<1>6. ASSUME NEW second \in BOOLEAN, serverCron(second)
      PROVE  AckedAreSafe(s', acked') /\ RepliesWait(s', client', fired') /\ client' \in Replies
  <2>1. Others
    BY <1>6 DEF serverCron, Others
  <2> QED
    BY <1>0, <1>5, <1>6, <2>1, CronIsSafe, SMTT(60)
<1>7. CASE \/ aofChildWriteDiffData \/ aofChildPipeReadable \/ ChildAsksToStop \/ ChildFinishes
           \/ ChildFails \/ Bgsave \/ BgsaveEnds
  <2>1. Others
    BY <1>7, Zenon DEF aofChildWriteDiffData, aofChildPipeReadable, ChildAsksToStop, ChildFinishes,
                ChildFails, Bgsave, BgsaveEnds
  <2> QED
    BY <1>0, <1>5, <1>7, <2>1, ChildStepIsSafe, SMTT(60)
<1>8. CASE Tick \/ BioStart \/ BioFinish
  <2>1. Others
    BY <1>8, Zenon DEF Tick, BioStart, BioFinish, Others
  <2> QED
    BY <1>0, <1>5, <1>8, <2>1, IdleIsSafe, SMTT(60)
<1>9. CASE bgrewriteaofCommand
  BY <1>0, <1>5, <1>9, RewriteCommandIsSafe, SMTT(60) DEF bgrewriteaofCommand
<1>10. CASE stopAppendOnly
  BY <1>0, <1>5, <1>10, StopIsSafe, ZenonT(60) DEF stopAppendOnly
<1>11. CASE startAppendOnly
  BY <1>0, <1>5, <1>11, StartIsSafe, SMTT(60) DEF startAppendOnly
<1>12. CASE prepareForShutdown \/ Kill \/ PowerLoss
  <2>1. Others
    BY <1>12, Zenon DEF prepareForShutdown, Kill, PowerLoss
  <2> QED
    BY <1>0, <1>5, <1>12, <2>1, EndIsSafe, SMTT(60)
<1>13. CASE UNCHANGED vars
  BY <1>0, <1>13 DEF vars
<1> QED
  BY <1>1, <1>2, <1>3, <1>4, <1>6, <1>7, <1>8, <1>9, <1>10, <1>11, <1>12, <1>13, SMTT(60) DEF Next, MainThread

\* A server that starts with an empty file has acknowledged nothing.
LEMMA NothingAckedYet ==
  ASSUME Init
  PROVE  AckedAreSafe(s, acked) /\ RepliesWait(s, client, fired) /\ client \in Replies
<1>1. PICK e \in Environments :
         s = Loaded([env |-> e, synced |-> 0, gen |-> 0, forks |-> 0, faults |-> 0], <<>>)
  BY DEF Init
<1> DEFINE old == [env |-> e, synced |-> 0, gen |-> 0, forks |-> 0, faults |-> 0]
<1>2. old.synced = 0
  OBVIOUS
<1>3. PICK b \in File : b = <<>> /\ Len(b) = 0
  BY EmptySeq, Zenon DEF File
<1>4. s = Loaded(old, b)
  BY <1>1, <1>3
<1>5. PreambleFirst(b) /\ acked = {}
  BY <1>3, EmptyForm, SMTT(60) DEF Init
<1> HIDE DEF old
<1>6. AckedAreSafe(s, acked)
  <2>1. old.synced \in Nat /\ old.synced <= Len(b)
    BY <1>2, <1>3
  <2>2. acked \subseteq Ids(Replay(SubSeq(b, 1, old.synced)))
    BY <1>5, SMTT(60)
  <2> QED
    BY <1>4, <1>5, <2>1, <2>2, LoadedIsSafe, SMTT(60)
<1>7. s.state = "on"
  BY <1>4, SMTT(60) DEF Loaded
<1>8. client = [c \in Client |-> [pending |-> {}, handler |-> "none"]]
  BY SMTT(60) DEF Init
<1>9. RepliesWait(s, client, fired) /\ client \in Replies
  BY <1>7, <1>8, SMTT(60) DEF RepliesWait, Replies
<1> QED
  BY <1>6, <1>9, SMTT(60)

\* With appendfsync always no acknowledged write is ever lost: a write whose reply was
\* sent while the AOF was on is fsynced and is replayed by every later restart, through
\* short writes, rewrites, CONFIG SET appendonly, shutdowns, kills and power losses.
THEOREM AcknowledgedWritesAreDurable == Spec => []AckedWritesSurvive
<1>1. Init => DurableInv
  <2>1. Init => OffsetInv
    BY OffsetHoldsAtFirst
  <2> QED
    BY <2>1, NothingAckedYet, SMTT(60) DEF DurableInv
<1>2. DurableInv /\ [Next]_vars => DurableInv'
  <2> SUFFICES ASSUME DurableInv, [Next]_vars PROVE DurableInv'
    OBVIOUS
  <2>2. OffsetInv' /\ s'.env = s.env
    BY FilesStayWhole, OffsetStaysCovered, SMTT(60) DEF DurableInv, OffsetInv
  <2>3. CASE Waits(s)
    BY <2>2, <2>3, AckedStaySafe, SMTT(60) DEF DurableInv
  <2>4. CASE ~Waits(s)
    <3>1. ~Waits(s)'
      BY <2>2, <2>4 DEF Waits
    <3> QED
      BY <2>2, <3>1, ZenonT(60) DEF DurableInv, AckedAreSafe, RepliesWait
  <2> QED
    BY <2>3, <2>4
<1>3. DurableInv => AckedWritesSurvive
  BY Zenon DEF DurableInv, AckedAreSafe, AckedWritesSurvive
<1> QED
  BY <1>1, <1>2, <1>3, PTL DEF Spec

============================================================================
