----------------------------- MODULE AofProofs -----------------------------
(***************************************************************************)
(* The append only file holds the dataset, for every number of clients,    *)
(* databases, writes and children, every size of the buffers and every     *)
(* failure the environment allows.                                         *)
(*                                                                         *)
(* The inductive invariant says of two files that they are whole: the one  *)
(* on disk followed by aof_buf, while the AOF is on, and the one the child *)
(* writes followed by the pipe and the rewrite buffer, while a child       *)
(* rewrites.  A whole file ends at the end of a command, replays to the    *)
(* dataset and leaves the fake client in aof_selected_db, so that the next *)
(* command can be appended to both without a SELECT.                       *)
(*                                                                         *)
(* Replaying is a recursive function over the commands of the file.  What  *)
(* is needed of it is proved from the least element of a set of naturals,  *)
(* in place of an induction: it exists, it has its type, appending a       *)
(* command to the file executes that command, and replaying more of a file *)
(* whose only preamble is its first command never forgets a write.         *)
(*                                                                         *)
(* The last part is about appendfsync everysec: aof_fsync_offset is never  *)
(* beyond what is fsynced, queued for the bio thread or known to have      *)
(* failed.                                                                 *)
(***************************************************************************)
EXTENDS Aof, SequenceTheorems, WellFoundedInduction, TLAPS

Data == Seq(Nat \X Db)
Fake == [db : Db, data : Data]
AnyCmd == [op : {"select"}, db : Db] \cup [op : {"write"}, id : Nat] \cup [op : {"rdb"}, data : Data]
Unit == AnyCmd \X {0, 1}
File == Seq(Unit)

----------------------------------------------------------------------------
(* Replaying commands.                                                     *)

\* A non-empty set of naturals has a least element.
LEMMA LeastNatural ==
  ASSUME NEW S, S \subseteq Nat, S # {}
  PROVE  \E x \in S : \A y \in S : x <= y
<1> DEFINE R == OpToRel(<, Nat)
<1>1. IsWellFoundedOn(R, Nat)
  BY NatLessThanWellFounded, Zenon
<1>2. \A x, y \in Nat : y < x => <<y, x>> \in R
  BY Zenon DEF OpToRel
<1> HIDE DEF R
<1>3. PICK x \in S : \A y \in S : ~(<<y, x>> \in R)
  BY <1>1, WFMin, Zenon
<1>4. \A y \in S : ~(y < x)
  BY <1>2, <1>3, Zenon
<1>5. \A y \in S : x <= y
  BY <1>4
<1> QED
  BY <1>5

\* g is the sequence of the states of the fake client for the first n commands.
IsRun(g, cmds, n) ==
  g = [i \in 0..n |-> IF i = 0 THEN Start ELSE Execute(g[i - 1], cmds[i])]

\* Such a sequence exists: a longest prefix without one would have a shorter one.
LEMMA RunExists ==
  ASSUME NEW cmds, NEW k \in Nat
  PROVE  \E g : IsRun(g, cmds, k)
<1> DEFINE Bad == {n \in Nat : ~\E g : IsRun(g, cmds, n)}
<1> SUFFICES ASSUME Bad # {} PROVE FALSE
  OBVIOUS
<1>1. PICK n \in Bad : \A y \in Bad : n <= y
  BY LeastNatural, Zenon
<1>2. CASE n = 0
  <2> DEFINE g == [i \in 0..0 |-> Start]
  <2>1. IsRun(g, cmds, 0)
    BY DEF IsRun
  <2> QED
    BY <2>1, <1>2
<1>3. CASE n # 0
  <2>1. n - 1 \in Nat /\ n - 1 \notin Bad
    BY <1>1, <1>3
  <2>2. PICK g : IsRun(g, cmds, n - 1)
    BY <2>1
  <2> DEFINE h == [i \in 0..n |-> IF i = n THEN Execute(g[n - 1], cmds[n]) ELSE g[i]]
  <2>3. ASSUME NEW i \in 0..n
        PROVE  h[i] = IF i = 0 THEN Start ELSE Execute(h[i - 1], cmds[i])
    <3>1. CASE i = n
      <4>1. h[i - 1] = g[n - 1]
        BY <3>1, <1>3, <2>1
      <4> QED
        BY <3>1, <4>1, <1>3
    <3>2. CASE i # n
      <4>1. i \in 0..n - 1
        BY <3>2
      <4>2. g[i] = IF i = 0 THEN Start ELSE Execute(g[i - 1], cmds[i])
        BY <2>2, <4>1, Zenon DEF IsRun
      <4>3. i # 0 => h[i - 1] = g[i - 1]
        BY <4>1
      <4>4. h[i] = g[i]
        BY <3>2
      <4> HIDE DEF h
      <4> QED
        BY <4>2, <4>3, <4>4
    <3> QED
      BY <3>1, <3>2
  <2>4. IsRun(h, cmds, n)
    BY <2>3 DEF IsRun
  <2> QED
    BY <2>4
<1> QED
  BY <1>2, <1>3

\* Run is the end of such a sequence.
LEMMA RunIsRun ==
  ASSUME NEW cmds, Len(cmds) \in Nat
  PROVE  \E g : IsRun(g, cmds, Len(cmds)) /\ Run(cmds) = g[Len(cmds)]
<1> DEFINE n == Len(cmds)
           f == CHOOSE g : g = [i \in 0..Len(cmds) |->
                                  IF i = 0 THEN Start ELSE Execute(g[i - 1], cmds[i])]
<1>1. \E g : IsRun(g, cmds, n)
  BY RunExists
<1>2. IsRun(f, cmds, n)
  BY <1>1 DEF IsRun
<1>3. Run(cmds) = f[n]
  BY DEF Run
<1> QED
  BY <1>2, <1>3, Zenon

\* Two sequences of states for commands that begin alike begin alike.
LEMMA RunsAgree ==
  ASSUME NEW a, NEW n, NEW g, IsRun(g, a, n), NEW b, NEW m, NEW h, IsRun(h, b, m),
         n \in Nat, m \in Nat, n <= m, \A i \in 1..n : a[i] = b[i]
  PROVE  g[n] = h[n]
<1> DEFINE Bad == {i \in 0..n : g[i] # h[i]}
<1> SUFFICES ASSUME Bad # {} PROVE FALSE
  OBVIOUS
<1>0. Bad \subseteq Nat
  OBVIOUS
<1>1. PICK i \in Bad : \A y \in Bad : i <= y
  <2> HIDE DEF Bad
  <2> QED
    BY <1>0, LeastNatural, Zenon
<1>2. i \in 0..n /\ i \in 0..m /\ g[i] # h[i]
  BY <1>1
<1>3. /\ g[i] = IF i = 0 THEN Start ELSE Execute(g[i - 1], a[i])
      /\ h[i] = IF i = 0 THEN Start ELSE Execute(h[i - 1], b[i])
  BY <1>2, Zenon DEF IsRun
<1>4. i # 0
  BY <1>2, <1>3
<1>5. i - 1 \in 0..n /\ i - 1 \notin Bad /\ i \in 1..n
  BY <1>1, <1>2, <1>4
<1>6. g[i - 1] = h[i - 1] /\ a[i] = b[i]
  BY <1>5
<1> HIDE DEF Bad
<1> QED
  BY <1>2, <1>3, <1>4, <1>6

\* The replay of nothing, and of one command more.
LEMMA RunOfNothing == Run(<<>>) = Start
<1>1. Len(<<>>) = 0 /\ Len(<<>>) \in Nat
  OBVIOUS
<1>2. PICK g : IsRun(g, <<>>, Len(<<>>)) /\ Run(<<>>) = g[Len(<<>>)]
  BY <1>1, RunIsRun
<1>3. 0 \in 0..Len(<<>>)
  BY <1>1
<1>4. g[0] = IF 0 = 0 THEN Start ELSE Execute(g[0 - 1], <<>>[0])
  BY <1>2, <1>3, Zenon DEF IsRun
<1> QED
  BY <1>1, <1>2, <1>4

\* Appending a command to those replayed executes it last, on the outcome of the
\* others.
LEMMA RunOfOneMore ==
  ASSUME NEW cmds \in Seq(AnyCmd), NEW c \in AnyCmd
  PROVE  Run(Append(cmds, c)) = Execute(Run(cmds), c)
<1> DEFINE more == Append(cmds, c)
           n == Len(cmds)
<1>1. /\ n \in Nat /\ Len(more) = n + 1 /\ n + 1 \in Nat
      /\ \A i \in 1..n : cmds[i] = more[i]
      /\ more[n + 1] = c
  OBVIOUS
<1> HIDE DEF more, n
<1>2. PICK g : IsRun(g, cmds, n) /\ Run(cmds) = g[n]
  BY <1>1, RunIsRun DEF n
<1>3. PICK h : IsRun(h, more, n + 1) /\ Run(more) = h[n + 1]
  BY <1>1, RunIsRun
<1>4. g[n] = h[n]
  BY <1>1, <1>2, <1>3, RunsAgree
<1>5. n + 1 \in 0..n + 1 /\ n + 1 # 0 /\ (n + 1) - 1 = n
  BY <1>1
<1>6. h[n + 1] = IF n + 1 = 0 THEN Start ELSE Execute(h[(n + 1) - 1], more[n + 1])
  BY <1>3, <1>5, Zenon DEF IsRun
<1>7. Run(more) = Execute(g[n], c)
  BY <1>1, <1>3, <1>4, <1>5, <1>6
<1> QED
  BY <1>2, <1>7 DEF more

\* Replaying commands gives a dataset.
LEMMA RunIsTyped ==
  ASSUME NEW cmds \in Seq(AnyCmd)
  PROVE  Run(cmds) \in Fake
<1> DEFINE n == Len(cmds)
<1>1. n \in Nat /\ \A i \in 1..n : cmds[i] \in AnyCmd
  OBVIOUS
<1>2. PICK g : IsRun(g, cmds, n) /\ Run(cmds) = g[n]
  BY <1>1, RunIsRun
<1> HIDE DEF n
<1>3. Start \in Fake
  BY AofAssumption DEF Start, Fake, Data
<1>4. ASSUME NEW f \in Fake, NEW c \in AnyCmd
      PROVE  Execute(f, c) \in Fake
  <2>1. f.db \in Db /\ f.data \in Data
    BY DEF Fake
  <2>2. CASE c \in [op : {"select"}, db : Db]
    BY <2>2 DEF Execute, Fake
  <2>3. CASE c \in [op : {"write"}, id : Nat]
    <3>1. c.op = "write" /\ <<c.id, f.db>> \in Nat \X Db
      BY <2>1, <2>3
    <3>2. Append(f.data, <<c.id, f.db>>) \in Data
      BY <2>1, <3>1 DEF Data
    <3>3. Execute(f, c) = [f EXCEPT !.data = Append(f.data, <<c.id, f.db>>)]
      BY <3>1 DEF Execute
    <3> QED
      BY <3>2, <3>3, Zenon DEF Fake
  <2>4. CASE c \in [op : {"rdb"}, data : Data]
    BY <2>4 DEF Execute, Fake
  <2> QED
    BY <2>2, <2>3, <2>4 DEF AnyCmd
<1> DEFINE Bad == {i \in 0..n : g[i] \notin Fake}
<1>5. Bad = {}
  <2> SUFFICES ASSUME Bad # {} PROVE FALSE
    OBVIOUS
  <2>0. Bad \subseteq Nat
    BY <1>1
  <2>1. PICK i \in Bad : \A y \in Bad : i <= y
    <3> HIDE DEF Bad
    <3> QED
      BY <2>0, LeastNatural, Zenon
  <2>2. i \in 0..n /\ g[i] \notin Fake
    BY <2>1
  <2>3. g[i] = IF i = 0 THEN Start ELSE Execute(g[i - 1], cmds[i])
    BY <1>2, <2>2, Zenon DEF IsRun
  <2>4. i # 0
    BY <1>3, <2>2, <2>3
  <2>5. i - 1 \in 0..n /\ i - 1 \notin Bad /\ i \in 1..n
    BY <1>1, <2>1, <2>2, <2>4
  <2>6. g[i - 1] \in Fake /\ cmds[i] \in AnyCmd
    BY <1>1, <2>5
  <2> QED
    BY <1>4, <2>2, <2>3, <2>4, <2>6
<1>6. n \in 0..n
  BY <1>1
<1> QED
  BY <1>2, <1>5, <1>6

----------------------------------------------------------------------------
(* Files.                                                                  *)

\* A file that ends with a command, replays to data and, when db is a database,
\* leaves the fake client there.
Whole(b, data, db) ==
  /\ Len(b) % 2 = 0 /\ WellFormed(b)
  /\ Replay(b) = data
  /\ db # -1 => Run(Commands(b)).db = db

\* Two files one after the other.
LEMMA Concatenated ==
  ASSUME NEW a \in File, NEW b \in File
  PROVE  /\ a \o b \in File /\ Len(a \o b) = Len(a) + Len(b)
         /\ Len(a) \in Nat /\ Len(b) \in Nat
         /\ \A i \in 1..Len(a) + Len(b) : (a \o b)[i] = IF i <= Len(a) THEN a[i] ELSE b[i - Len(a)]
BY ConcatProperties DEF File

\* A function on 1..n is a sequence of length n.
LEMMA FunctionIsSequence ==
  ASSUME NEW S, NEW n \in Nat, NEW f \in [1..n -> S]
  PROVE  f \in Seq(S) /\ Len(f) = n
OBVIOUS

\* The bytes of one command, and of two.
LEMMA BytesOfOne ==
  ASSUME NEW c \in AnyCmd
  PROVE  /\ Bytes(<<c>>) \in File /\ Len(Bytes(<<c>>)) = 2
         /\ Bytes(<<c>>)[1] = <<c, 1>> /\ Bytes(<<c>>)[2] = <<c, 0>>
<1> DEFINE f(i) == <<<<c>>[(i + 1) \div 2], i % 2>>
<1>1. Bytes(<<c>>) = [i \in 1..2 |-> f(i)]
  BY DEF Bytes
<1>2. \A i \in 1..2 : (i + 1) \div 2 = 1 /\ i % 2 \in {0, 1}
  OBVIOUS
<1>3. \A i \in 1..2 : f(i) \in Unit
  BY <1>2 DEF Unit
<1>4. f(1) = <<c, 1>> /\ f(2) = <<c, 0>>
  OBVIOUS
<1> HIDE DEF f
<1>5. Bytes(<<c>>) \in [1..2 -> Unit]
  BY <1>1, <1>3
<1>6. Bytes(<<c>>)[1] = <<c, 1>> /\ Bytes(<<c>>)[2] = <<c, 0>>
  BY <1>1, <1>4
<1> QED
  BY <1>5, <1>6, FunctionIsSequence, Zenon DEF File

\* The units of two commands in a row, as catAppendOnlyGenericCommand writes them.
LEMMA BytesOfTwo ==
  ASSUME NEW c \in AnyCmd, NEW d \in AnyCmd
  PROVE  Bytes(<<c, d>>) = Bytes(<<c>>) \o Bytes(<<d>>)
<1> DEFINE f(i) == <<<<c, d>>[(i + 1) \div 2], i % 2>>
           x == Bytes(<<c>>)
           y == Bytes(<<d>>)
           both == x \o y
<1>1. Bytes(<<c, d>>) = [i \in 1..4 |-> f(i)]
  BY DEF Bytes
<1>2. f(1) = <<c, 1>> /\ f(2) = <<c, 0>> /\ f(3) = <<d, 1>> /\ f(4) = <<d, 0>>
  OBVIOUS
<1>3. /\ both \in File /\ Len(both) = 4
      /\ both[1] = <<c, 1>> /\ both[2] = <<c, 0>> /\ both[3] = <<d, 1>> /\ both[4] = <<d, 0>>
  <2>1. /\ x \in File /\ Len(x) = 2 /\ x[1] = <<c, 1>> /\ x[2] = <<c, 0>>
        /\ y \in File /\ Len(y) = 2 /\ y[1] = <<d, 1>> /\ y[2] = <<d, 0>>
    BY BytesOfOne, Zenon
  <2> HIDE DEF x, y
  <2>2. /\ both \in File /\ Len(both) = 4
        /\ \A i \in 1..4 : both[i] = IF i <= 2 THEN x[i] ELSE y[i - 2]
    <3>1. x \in File /\ Len(x) = 2 /\ y \in File /\ Len(y) = 2
      BY <2>1
    <3>2. /\ both \in File /\ Len(both) = Len(x) + Len(y)
          /\ \A i \in 1..Len(x) + Len(y) : both[i] = IF i <= Len(x) THEN x[i] ELSE y[i - Len(x)]
      BY <3>1, Concatenated, Zenon
    <3> HIDE DEF both
    <3> QED
      BY <3>1, <3>2
  <2> HIDE DEF both
  <2>3. both[1] = x[1] /\ both[2] = x[2] /\ both[3] = y[3 - 2] /\ both[4] = y[4 - 2]
    BY <2>2
  <2> QED
    BY <2>1, <2>2, <2>3
<1> HIDE DEF f, both
<1>4. both = [i \in 1..4 |-> both[i]]
  BY <1>3 DEF File
<1>5. \A i \in 1..4 : f(i) = both[i]
  BY <1>2, <1>3
<1> QED
  BY <1>1, <1>4, <1>5, Zenon DEF both

\* The commands of a file.
LEMMA CommandsTyped ==
  ASSUME NEW b \in File
  PROVE  /\ Commands(b) \in Seq(AnyCmd) /\ Len(Commands(b)) = Len(b) \div 2
         /\ \A i \in 1..(Len(b) \div 2) : Commands(b)[i] = b[2 * i][1]
<1> DEFINE n == Len(b) \div 2
<1>1. n \in Nat /\ \A i \in 1..n : 2 * i \in 1..Len(b)
  BY DEF File
<1>2. \A i \in 1..n : b[2 * i] \in Unit
  BY <1>1 DEF File
<1>3. \A i \in 1..n : b[2 * i][1] \in AnyCmd
  BY <1>2 DEF Unit
<1>4. Commands(b) = [i \in 1..n |-> b[2 * i][1]]
  BY DEF Commands
<1> HIDE DEF n
<1> QED
  BY <1>1, <1>3, <1>4 DEF n

\* A command appended to a file that ends with a command.
LEMMA AppendedCommand ==
  ASSUME NEW b \in File, Len(b) % 2 = 0, NEW c \in AnyCmd
  PROVE  LET e == b \o Bytes(<<c>>)
         IN  /\ e \in File /\ Len(e) = Len(b) + 2 /\ Len(e) % 2 = 0
             /\ Commands(e) = Append(Commands(b), c)
             /\ WellFormed(b) => WellFormed(e)
<1> DEFINE x == Bytes(<<c>>)
           e == b \o x
           n == Len(b) \div 2
<1>1. x \in File /\ Len(x) = 2 /\ x[1] = <<c, 1>> /\ x[2] = <<c, 0>>
  BY BytesOfOne
<1> HIDE DEF x
<1>2. /\ e \in File /\ Len(e) = Len(b) + 2 /\ Len(b) \in Nat
      /\ \A i \in 1..Len(b) + 2 : e[i] = IF i <= Len(b) THEN b[i] ELSE x[i - Len(b)]
  <2>1. /\ e \in File /\ Len(e) = Len(b) + Len(x) /\ Len(b) \in Nat
        /\ \A i \in 1..Len(b) + Len(x) : e[i] = IF i <= Len(b) THEN b[i] ELSE x[i - Len(b)]
    BY <1>1, Concatenated, Zenon
  <2> HIDE DEF e
  <2> QED
    BY <1>1, <2>1
<1> HIDE DEF e
<1>3. n \in Nat /\ Len(b) = 2 * n /\ Len(e) \div 2 = n + 1 /\ Len(e) % 2 = 0
  BY <1>2
<1>4. e[2 * n + 1] = <<c, 1>> /\ e[2 * n + 2] = <<c, 0>>
  BY <1>1, <1>2, <1>3, SMTT(60)
<1>5. Commands(e) = Append(Commands(b), c)
  <2>1. /\ Commands(b) \in Seq(AnyCmd) /\ Len(Commands(b)) = n
        /\ \A i \in 1..n : Commands(b)[i] = b[2 * i][1]
    BY CommandsTyped
  <2>2. /\ Commands(e) \in Seq(AnyCmd) /\ Len(Commands(e)) = n + 1
        /\ \A i \in 1..n + 1 : Commands(e)[i] = e[2 * i][1]
    BY <1>2, <1>3, CommandsTyped
  <2>3. \A i \in 1..n : e[2 * i] = b[2 * i]
    BY <1>2, <1>3
  <2>4. e[2 * (n + 1)][1] = c
    BY <1>3, <1>4
  <2> HIDE DEF n
  <2>5. ASSUME NEW i \in 1..n + 1
        PROVE  Commands(e)[i] = Append(Commands(b), c)[i]
    <3>1. CASE i = n + 1
      BY <1>3, <2>1, <2>2, <2>4, <3>1, AppendProperties
    <3>2. CASE i # n + 1
      <4>1. i \in 1..n
        BY <1>3, <3>2
      <4>2. Commands(e)[i] = e[2 * i][1] /\ Commands(b)[i] = b[2 * i][1] /\ e[2 * i] = b[2 * i]
        BY <2>1, <2>2, <2>3, <4>1
      <4>3. Append(Commands(b), c)[i] = Commands(b)[i]
        BY <2>1, <4>1, AppendProperties
      <4> QED
        BY <4>2, <4>3
    <3> QED
      BY <3>1, <3>2, Zenon
  <2> QED
    BY <1>3, <2>1, <2>2, <2>5
<1>6. ASSUME WellFormed(b)
      PROVE  WellFormed(e)
  <2> SUFFICES ASSUME NEW i \in 1..Len(e)
               PROVE  e[i][2] = i % 2 /\ (i % 2 = 0 => e[i][1] = e[i - 1][1])
    BY DEF WellFormed
  <2>1. CASE i <= Len(b)
    <3>1. b[i][2] = i % 2 /\ (i % 2 = 0 => b[i][1] = b[i - 1][1])
      BY <1>2, <1>6, <2>1 DEF WellFormed
    <3>2. e[i] = b[i] /\ (i % 2 = 0 => e[i - 1] = b[i - 1])
      BY <1>2, <2>1
    <3> QED
      BY <3>1, <3>2
  <2>2. CASE i = 2 * n + 1
    BY <1>3, <1>4, <2>2
  <2>3. CASE i = 2 * n + 2
    BY <1>3, <1>4, <2>3
  <2> QED
    BY <1>2, <1>3, <2>1, <2>2, <2>3
<1> QED
  BY <1>2, <1>3, <1>5, <1>6, SMTT(60) DEF e, x

\* Replaying a file with a command appended.
LEMMA ReplayOfOneMore ==
  ASSUME NEW b \in File, Len(b) % 2 = 0, WellFormed(b), NEW c \in AnyCmd
  PROVE  LET e == b \o Bytes(<<c>>)
         IN  /\ e \in File /\ Len(e) % 2 = 0 /\ WellFormed(e)
             /\ Run(Commands(e)) = Execute(Run(Commands(b)), c)
<1>1. Commands(b) \in Seq(AnyCmd)
  BY CommandsTyped
<1>2. Run(Append(Commands(b), c)) = Execute(Run(Commands(b)), c)
  BY <1>1, RunOfOneMore
<1> QED
  BY <1>2, AppendedCommand, Zenon

\* Two commands one after the other.
LEMMA TwoCommands ==
  ASSUME NEW c1 \in AnyCmd, NEW c2 \in AnyCmd
  PROVE  <<c1>> \o <<c2>> = <<c1, c2>>
<1>1. <<c1>> \o <<c2>> = Append(<<c1>>, c2)
  BY AppendIsConcat
<1> DEFINE l == Append(<<c1>>, c2)
           r == <<c1, c2>>
<1>2. l \in Seq(AnyCmd) /\ Len(l) = 2 /\ l[1] = c1 /\ l[2] = c2
  BY AppendProperties
<1>3. r \in Seq(AnyCmd) /\ Len(r) = 2 /\ r[1] = c1 /\ r[2] = c2
  OBVIOUS
<1> HIDE DEF l, r
<1>4. \A i \in 1..Len(l) : l[i] = r[i]
  BY <1>2, <1>3
<1>5. l = r
  BY <1>2, <1>3, <1>4, SeqEqual
<1> QED
  BY <1>1, <1>5, Zenon DEF l, r

\* feedAppendOnlyFile: a write, after a SELECT when the database is another one.
Fed(db, d, w) == Bytes((IF d # db THEN <<Select(d)>> ELSE <<>>) \o <<Write(w)>>)

\* What feedAppendOnlyFile appends keeps a whole file whole.
LEMMA FedIsWhole ==
  ASSUME NEW b \in File, NEW data \in Data, NEW db \in Db \cup {-1}, Whole(b, data, db),
         NEW d \in Db, NEW w \in Nat
  PROVE  /\ Fed(db, d, w) \in File
         /\ Whole(b \o Fed(db, d, w), Append(data, <<w, d>>), d)
<1> DEFINE out == Fed(db, d, w)
           f == Run(Commands(b))
<1>1. Select(d) \in AnyCmd /\ Write(w) \in AnyCmd
  BY DEF Select, Write, AnyCmd
<1>2. /\ Len(b) % 2 = 0 /\ WellFormed(b) /\ f.data = data /\ f \in Fake
      /\ db # -1 => f.db = db
  BY CommandsTyped, RunIsTyped DEF Whole, Replay
<1> HIDE DEF f
<1>3. ASSUME NEW g \in Fake, g.db = d, g.data = data
      PROVE  /\ Execute(g, Write(w)).data = Append(data, <<w, d>>)
             /\ Execute(g, Write(w)).db = d
  BY <1>3 DEF Execute, Write, Fake
<1>4. CASE d = db
  <2>1. out = Bytes(<<Write(w)>>)
    BY <1>4 DEF Fed
  <2> DEFINE e == b \o out
  <2>2. /\ Len(e) % 2 = 0 /\ WellFormed(e) /\ Run(Commands(e)) = Execute(f, Write(w))
    BY <1>1, <1>2, <2>1, ReplayOfOneMore DEF f
  <2>3. f.db = d
    BY <1>2, <1>4, AofAssumption
  <2> HIDE DEF e
  <2>4. Whole(e, Append(data, <<w, d>>), d)
    BY <1>2, <1>3, <2>2, <2>3 DEF Whole, Replay
  <2> QED
    BY <1>1, <2>1, <2>4, BytesOfOne DEF e
<1>5. CASE d # db
  <2> DEFINE x == Bytes(<<Select(d)>>)
             y == Bytes(<<Write(w)>>)
             m == b \o x
             e == m \o y
             g == Run(Commands(m))
  <2>1. out = Bytes(<<Select(d), Write(w)>>)
    <3> DEFINE c1 == Select(d)
               c2 == Write(w)
    <3>1. c1 \in AnyCmd /\ c2 \in AnyCmd
      BY <1>1
    <3>2. out = Bytes(<<c1>> \o <<c2>>)
      BY <1>5 DEF Fed
    <3> HIDE DEF c1, c2
    <3>3. <<c1>> \o <<c2>> = <<c1, c2>>
      BY <3>1, TwoCommands
    <3> QED
      BY <3>2, <3>3, Zenon DEF c1, c2
  <2>2. x \in File /\ y \in File /\ out = x \o y
    BY <1>1, <2>1, BytesOfOne, BytesOfTwo, Zenon
  <2>3. out \in File
    <3> HIDE DEF x, y, out
    <3> QED
      BY <2>2, Concatenated
  <2>4. b \o out = e
    <3> HIDE DEF x, y, out
    <3> QED
      BY <2>2, ConcatAssociative, SMTT(60) DEF File
  <2>5. /\ m \in File /\ Len(m) % 2 = 0 /\ WellFormed(m) /\ g = Execute(f, Select(d))
    BY <1>1, <1>2, ReplayOfOneMore DEF f
  <2>6. g \in Fake /\ g.db = d /\ g.data = data
    <3> HIDE DEF g, m
    <3> QED
      BY <1>2, <2>5 DEF Execute, Select, Fake
  <2> HIDE DEF m, x, out
  <2>7. /\ Len(e) % 2 = 0 /\ WellFormed(e) /\ Run(Commands(e)) = Execute(g, Write(w))
    BY <1>1, <2>5, ReplayOfOneMore
  <2> HIDE DEF e, g
  <2>8. Whole(e, Append(data, <<w, d>>), d)
    BY <1>3, <2>6, <2>7 DEF Whole, Replay
  <2> QED
    BY <2>3, <2>4, <2>8 DEF out
<1> QED
  BY <1>4, <1>5

\* The dataset the child dumps is a whole file.
LEMMA PreambleIsWhole ==
  ASSUME NEW data \in Data
  PROVE  /\ Bytes(<<Preamble(data)>>) \in File
         /\ Whole(Bytes(<<Preamble(data)>>), data, -1)
<1> DEFINE c == Preamble(data)
           x == Bytes(<<c>>)
           e == <<>> \o x
<1>1. c \in AnyCmd /\ c.op = "rdb" /\ c.data = data
  BY DEF Preamble, AnyCmd
<1> HIDE DEF c
<1>2. x \in File /\ <<>> \in File /\ e = x
  BY <1>1, BytesOfOne, ConcatEmptySeq DEF File
<1>3. Len(<<>>) % 2 = 0 /\ WellFormed(<<>>) /\ Run(Commands(<<>>)) = Start
  <2>1. Commands(<<>>) = <<>>
    BY DEF Commands
  <2> QED
    BY <2>1, RunOfNothing DEF WellFormed
<1>4. /\ Len(e) % 2 = 0 /\ WellFormed(e) /\ Run(Commands(e)) = Execute(Start, c)
  BY <1>1, <1>2, <1>3, ReplayOfOneMore, Zenon
<1>5. Execute(Start, c).data = data
  BY <1>1 DEF Execute, Start
<1> HIDE DEF e, x
<1>6. Whole(x, data, -1)
  BY <1>2, <1>4, <1>5 DEF Whole, Replay
<1> QED
  BY <1>2, <1>6 DEF x, c

\* Parts of a file may be put together in either order.
LEMMA Associative ==
  ASSUME NEW x \in File, NEW y \in File, NEW z \in File
  PROVE  (x \o y) \o z = x \o (y \o z)
  BY ConcatAssociative DEF File

\* Cutting a file back to its old length removes what was appended.
LEMMA CutBack ==
  ASSUME NEW b \in File, NEW p \in File
  PROVE  SubSeq(b \o p, 1, Len(b)) = b
<1>0. Len(b) \in Nat
  BY LenProperties DEF File
<1>1. CASE Len(b) = 0
  <2>1. b = <<>>
    BY <1>1, EmptySeq DEF File
  <2>2. SubSeq(b \o p, 1, 0) = <<>>
    BY SubSeqEmpty
  <2> QED
    BY <1>1, <2>1, <2>2
<1>2. CASE Len(b) # 0
  <2>1. SubSeq(b \o p, 1, Len(b)) = SubSeq(b, 1, Len(b))
    BY <1>0, <1>2, SubSeqOfConcat1 DEF File
  <2> QED
    BY <2>1, SubSeqFull DEF File
<1> QED
  BY <1>1, <1>2

\* A file written in two parts.
LEMMA Parts ==
  ASSUME NEW b \in File, NEW x \in File, NEW k \in 0..Len(x)
  PROVE  /\ SubSeq(x, 1, k) \in File /\ SubSeq(x, k + 1, Len(x)) \in File
         /\ Len(SubSeq(x, 1, k)) = k
         /\ (b \o SubSeq(x, 1, k)) \o SubSeq(x, k + 1, Len(x)) = b \o x
         /\ SubSeq(x, 1, Len(x)) = x /\ b \o <<>> = b /\ <<>> \in File
<1> DEFINE p == SubSeq(x, 1, k)
           q == SubSeq(x, k + 1, Len(x))
           n == Len(x)
<1>0. n \in Nat /\ Len(b) \in Nat /\ \A i \in 1..n : x[i] \in Unit
  BY LenProperties, ElementOfSeq DEF File
<1>1. p \in File /\ q \in File /\ Len(p) = k
  <2>1. \A i \in 1..k : x[i] \in Unit
    BY <1>0
  <2>2. \A i \in k + 1..n : x[i] \in Unit
    BY <1>0
  <2> QED
    BY <1>0, <2>1, <2>2, SubSeqProperties DEF File
<1>2. p \o q = x
  <2>1. 1 \in 1..n + 1 /\ k \in 1 - 1..n /\ n \in k..n /\ x \in Seq(Unit)
    BY <1>0 DEF File
  <2>2. p \o q = SubSeq(x, 1, n)
    BY <2>1, ConcatAdjacentSubSeq, Zenon
  <2> QED
    BY <2>2, SubSeqFull, Zenon DEF File
<1>3. SubSeq(x, 1, n) = x /\ b \o <<>> = b /\ <<>> \in File
  BY SubSeqFull, ConcatEmptySeq DEF File
<1> HIDE DEF p, q
<1>4. (b \o p) \o q = b \o x
  <2>2. (b \o p) \o q = b \o (p \o q)
    BY <1>1, Associative, Zenon
  <2> QED
    BY <1>2, <2>2
<1> QED
  BY <1>1, <1>3, <1>4, Zenon DEF p, q

----------------------------------------------------------------------------
(* What replaying more of a file keeps.                                    *)

\* A preamble is the first command of a file.
PreambleFirst(b) == \A i \in 3..Len(b) : b[i][1].op # "rdb"

\* A buffer never has one.
NoPreamble(b) == \A i \in 1..Len(b) : b[i][1].op # "rdb"

\* A write adds to the dataset.
LEMMA AppendedIds ==
  ASSUME NEW d \in Data, NEW x \in Nat \X Db
  PROVE  Append(d, x) \in Data /\ Ids(d) \subseteq Ids(Append(d, x)) /\ x[1] \in Ids(Append(d, x))
<1> DEFINE a == Append(d, x)
           l == Len(d)
<1>1. /\ a \in Data /\ l \in Nat /\ Len(a) = l + 1 /\ a[l + 1] = x
      /\ \A i \in 1..l : a[i] = d[i]
  BY AppendProperties, LenProperties DEF Data
<1> HIDE DEF a, l
<1>2. \A i \in 1..l : i \in 1..Len(a)
  BY <1>1
<1>3. l + 1 \in 1..Len(a)
  BY <1>1
<1>4. Ids(d) \subseteq Ids(a)
  BY <1>1, <1>2 DEF Ids, l
<1>5. x[1] \in Ids(a)
  BY <1>1, <1>3 DEF Ids
<1> QED
  BY <1>1, <1>4, <1>5 DEF a

\* A command that is not a preamble forgets no write.
LEMMA ExecuteKeeps ==
  ASSUME NEW f \in Fake, NEW c \in AnyCmd
  PROVE  /\ Execute(f, c) \in Fake
         /\ c.op # "rdb" => Ids(f.data) \subseteq Ids(Execute(f, c).data)
<1> DEFINE e == Execute(f, c)
<1>0. f.db \in Db /\ f.data \in Data
  BY DEF Fake
<1>1. CASE c \in [op : {"select"}, db : Db]
  <2>1. c.op = "select" /\ c.db \in Db
    BY <1>1
  <2>2. e = [f EXCEPT !.db = c.db]
    BY <2>1 DEF Execute
  <2>3. e \in Fake /\ e.data = f.data
    BY <2>1, <2>2 DEF Fake
  <2> QED
    BY <2>3
<1>2. CASE c \in [op : {"write"}, id : Nat]
  <2>1. c.op = "write" /\ <<c.id, f.db>> \in Nat \X Db
    BY <1>0, <1>2
  <2>2. PICK d \in Data : d = Append(f.data, <<c.id, f.db>>) /\ Ids(f.data) \subseteq Ids(d)
    BY <1>0, <2>1, AppendedIds, Zenon
  <2>3. e = [f EXCEPT !.data = d]
    BY <2>1, <2>2 DEF Execute
  <2>4. e \in Fake /\ e.data = d
    BY <2>2, <2>3, Zenon DEF Fake
  <2> QED
    BY <2>2, <2>4
<1>3. CASE c \in [op : {"rdb"}, data : Data]
  <2>1. c.op = "rdb" /\ c.data \in Data
    BY <1>3
  <2>2. e = [f EXCEPT !.data = c.data]
    BY <2>1 DEF Execute
  <2>3. e \in Fake
    BY <2>1, <2>2 DEF Fake
  <2> QED
    BY <2>1, <2>3
<1> QED
  BY <1>1, <1>2, <1>3 DEF AnyCmd

\* Where only the first command may be a preamble, replaying more never forgets.
LEMMA RunKeeps ==
  ASSUME NEW cmds, NEW n \in Nat, \A i \in 1..n : cmds[i] \in AnyCmd,
         \A i \in 2..n : cmds[i].op # "rdb",
         NEW g, IsRun(g, cmds, n)
  PROVE  \A l \in 0..n : g[l] \in Fake /\ \A k \in 0..l : Ids(g[k].data) \subseteq Ids(g[l].data)
<1> DEFINE Fine(l) == g[l] \in Fake /\ \A k \in 0..l : Ids(g[k].data) \subseteq Ids(g[l].data)
           Bad == {l \in 0..n : ~Fine(l)}
<1> SUFFICES ASSUME Bad # {} PROVE FALSE
  OBVIOUS
<1>0. Bad \subseteq Nat
  OBVIOUS
<1>1. PICK l \in Bad : \A y \in Bad : l <= y
  <2> HIDE DEF Bad
  <2> QED
    BY <1>0, LeastNatural, Zenon
<1>2. \A i \in 0..n : g[i] = IF i = 0 THEN Start ELSE Execute(g[i - 1], cmds[i])
  BY DEF IsRun
<1>3. Start \in Fake /\ Start.data = <<>>
  BY AofAssumption, EmptySeq DEF Start, Fake, Data
<1>4. g[0] = Start
  BY <1>2
<1>5. Ids(<<>>) = {}
  BY DEF Ids
<1>6. CASE l = 0
  <2>1. \A k \in 0..0 : k = 0
    OBVIOUS
  <2> QED
    BY <1>1, <1>3, <1>4, <1>6, <2>1
<1>7. CASE l # 0
  <2>1. l \in 1..n /\ l - 1 \in 0..n /\ l - 1 \notin Bad
    BY <1>1, <1>7
  <2>2. Fine(l - 1)
    BY <2>1
  <2>3. g[l] = Execute(g[l - 1], cmds[l]) /\ cmds[l] \in AnyCmd
    BY <1>2, <2>1
  <2>4. g[l] \in Fake
    BY <2>2, <2>3, ExecuteKeeps
  <2>5. ASSUME NEW k \in 0..l PROVE Ids(g[k].data) \subseteq Ids(g[l].data)
    <3>1. CASE k = l
      BY <3>1
    <3>2. CASE k = 0
      BY <1>3, <1>4, <1>5, <3>2
    <3>3. CASE k # l /\ k # 0
      <4>1. l \in 2..n /\ k \in 0..(l - 1)
        BY <2>1, <3>3
      <4>2. Ids(g[l - 1].data) \subseteq Ids(g[l].data)
        BY <2>2, <2>3, <4>1, ExecuteKeeps, Zenon
      <4>3. Ids(g[k].data) \subseteq Ids(g[l - 1].data)
        BY <2>2, <4>1
      <4> QED
        BY <4>2, <4>3
    <3> QED
      BY <3>1, <3>2, <3>3
  <2> QED
    BY <1>1, <2>4, <2>5
<1> QED
  BY <1>6, <1>7

\* Running the first commands gives a state of the run of all.
LEMMA RunOfPrefix ==
  ASSUME NEW a, NEW n \in Nat, Len(a) = n, NEW b, NEW m \in Nat, NEW h, IsRun(h, b, m),
         n <= m, \A i \in 1..n : a[i] = b[i]
  PROVE  Run(a) = h[n]
<1>1. PICK g : IsRun(g, a, n) /\ Run(a) = g[n]
  BY RunIsRun
<1>2. g[n] = h[n]
  BY <1>1, RunsAgree
<1> QED
  BY <1>1, <1>2

\* Replaying a part of a file is a state of replaying the whole.
LEMMA ReplayOfPart ==
  ASSUME NEW b \in File, NEW i \in 0..Len(b), NEW m \in Nat, m = Len(b) \div 2, NEW h, IsRun(h, Commands(b), m)
  PROVE  Replay(SubSeq(b, 1, i)) = h[i \div 2].data /\ i \div 2 \in 0..m
<1> DEFINE p == SubSeq(b, 1, i)
           c == Commands(p)
           k == i \div 2
<1>1. Len(b) \in Nat /\ i \in Nat
  BY LenProperties DEF File
<1>2. k \in Nat /\ Len(b) \div 2 \in Nat /\ k <= Len(b) \div 2
  BY <1>1
<1>3. p \in File /\ Len(p) = i
  BY Parts, Zenon
<1>4. \A x \in 1..i : p[x] = b[x]
  <2>1. \A x \in 1..i : SubSeq(b, 1, i)[x] = b[1 + x - 1]
    BY <1>1, SubSeqProperties DEF File
  <2>2. \A x \in 1..i : 1 + x - 1 = x
    BY <1>1
  <2> QED
    BY <2>1, <2>2
<1> HIDE DEF p
<1>5. c \in Seq(AnyCmd) /\ Len(c) = k /\ \A x \in 1..k : c[x] = p[2 * x][1]
  BY <1>3, CommandsTyped
<1>6. \A x \in 1..(Len(b) \div 2) : Commands(b)[x] = b[2 * x][1]
  BY CommandsTyped
<1>7. \A x \in 1..k : 2 * x \in 1..i /\ x \in 1..(Len(b) \div 2)
  BY <1>1, <1>2
<1>8. \A x \in 1..k : c[x] = Commands(b)[x]
  BY <1>4, <1>5, <1>6, <1>7, Zenon
<1> HIDE DEF c, k
<1>9. Run(c) = h[k]
  <2> DEFINE d == Commands(b)
  <2>1. IsRun(h, d, m) /\ k <= m /\ k \in Nat
    BY <1>2
  <2>2. \A x \in 1..k : c[x] = d[x]
    BY <1>8
  <2>3. Len(c) = k
    BY <1>5
  <2> HIDE DEF d
  <2> QED
    BY <2>1, <2>2, <2>3, RunOfPrefix, SMTT(60)
<1> QED
  BY <1>2, <1>9 DEF Replay, p, c, k

\* A longer part of a file replays to at least the writes of a shorter one.
LEMMA LongerReplay ==
  ASSUME NEW b \in File, PreambleFirst(b), NEW i \in 0..Len(b), NEW j \in 0..Len(b), i <= j
  PROVE  Ids(Replay(SubSeq(b, 1, i))) \subseteq Ids(Replay(SubSeq(b, 1, j)))
<1> DEFINE c == Commands(b)
           n == Len(b) \div 2
<1>1. Len(b) \in Nat /\ n \in Nat
  BY LenProperties DEF File
<1>2. c \in Seq(AnyCmd) /\ Len(c) = n /\ \A x \in 1..n : c[x] = b[2 * x][1]
  BY CommandsTyped
<1>3. \A x \in 1..n : c[x] \in AnyCmd
  BY <1>2, ElementOfSeq
<1>4. \A x \in 2..n : c[x].op # "rdb"
  <2>1. \A x \in 2..n : 2 * x \in 3..Len(b) /\ x \in 1..n
    BY <1>1
  <2> QED
    BY <1>2, <2>1, SMTT(60) DEF PreambleFirst
<1> HIDE DEF c
<1>5. PICK h : IsRun(h, c, n)
  BY <1>1, <1>2, RunIsRun
<1>6. \A l \in 0..n : \A k \in 0..l : Ids(h[k].data) \subseteq Ids(h[l].data)
  BY <1>1, <1>3, <1>4, <1>5, RunKeeps, Zenon
<1>7. i \div 2 \in 0..(j \div 2) /\ j \div 2 \in 0..n
  BY <1>1
<1>8. Replay(SubSeq(b, 1, i)) = h[i \div 2].data /\ Replay(SubSeq(b, 1, j)) = h[j \div 2].data
  BY <1>5, ReplayOfPart DEF c
<1> QED
  BY <1>6, <1>7, <1>8

\* Buffers hold no preamble, so that what is appended to a file keeps its form.
LEMMA AppendedForm ==
  ASSUME NEW a \in File, NEW b \in File, NoPreamble(b)
  PROVE  /\ PreambleFirst(a) => PreambleFirst(a \o b)
         /\ NoPreamble(a) => NoPreamble(a \o b)
<1> DEFINE x == a \o b
<1>1. /\ Len(a) \in Nat /\ Len(b) \in Nat /\ Len(x) = Len(a) + Len(b)
      /\ \A i \in 1..Len(a) + Len(b) : x[i] = IF i <= Len(a) THEN a[i] ELSE b[i - Len(a)]
  BY Concatenated
<1> HIDE DEF x
<1>2. ASSUME NEW i \in 1..Len(x), i <= Len(a) => a[i][1].op # "rdb"
      PROVE  x[i][1].op # "rdb"
  <2>1. CASE i <= Len(a)
    BY <1>1, <1>2, <2>1
  <2>2. CASE ~(i <= Len(a))
    <3>1. i - Len(a) \in 1..Len(b)
      BY <1>1, <2>2
    <3> QED
      BY <1>1, <2>2, <3>1 DEF NoPreamble
  <2> QED
    BY <2>1, <2>2
<1>3. ASSUME PreambleFirst(a) PROVE PreambleFirst(x)
  <2>1. ASSUME NEW i \in 3..Len(x) PROVE x[i][1].op # "rdb"
    <3>1. i \in 1..Len(x) /\ (i <= Len(a) => i \in 3..Len(a))
      BY <1>1, <2>1
    <3> QED
      BY <1>2, <1>3, <3>1 DEF PreambleFirst
  <2> QED
    BY <2>1 DEF PreambleFirst
<1>4. ASSUME NoPreamble(a) PROVE NoPreamble(x)
  <2>1. ASSUME NEW i \in 1..Len(x) PROVE x[i][1].op # "rdb"
    <3>1. i <= Len(a) => i \in 1..Len(a)
      BY <1>1, <2>1
    <3> QED
      BY <1>2, <1>4, <3>1 DEF NoPreamble
  <2> QED
    BY <2>1 DEF NoPreamble
<1> QED
  BY <1>3, <1>4 DEF x

\* The elements of a part of a file.
LEMMA PartElements ==
  ASSUME NEW b \in File, NEW k \in 0..Len(b)
  PROVE  /\ SubSeq(b, 1, k) \in File /\ Len(SubSeq(b, 1, k)) = k /\ k \in Nat
         /\ \A i \in 1..k : SubSeq(b, 1, k)[i] = b[i] /\ i \in 1..Len(b)
<1>1. Len(b) \in Nat /\ k \in Nat
  BY LenProperties DEF File
<1>2. SubSeq(b, 1, k) \in File /\ Len(SubSeq(b, 1, k)) = k
  BY Parts, Zenon
<1>3. \A i \in 1..k : SubSeq(b, 1, k)[i] = b[1 + i - 1]
  BY <1>1, SubSeqProperties DEF File
<1>4. \A i \in 1..k : 1 + i - 1 = i /\ i \in 1..Len(b)
  BY <1>1
<1> QED
  BY <1>1, <1>2, <1>3, <1>4

\* A part of a file has its form.
LEMMA PartForm ==
  ASSUME NEW b \in File, NEW k \in 0..Len(b)
  PROVE  /\ PreambleFirst(b) => PreambleFirst(SubSeq(b, 1, k))
         /\ NoPreamble(b) => NoPreamble(SubSeq(b, 1, k))
<1> DEFINE p == SubSeq(b, 1, k)
<1>1. Len(p) = k /\ k \in Nat /\ \A i \in 1..k : p[i] = b[i] /\ i \in 1..Len(b)
  BY PartElements
<1> HIDE DEF p
<1>2. \A i \in 3..k : i \in 1..k /\ i \in 3..Len(b)
  BY <1>1
<1> QED
  BY <1>1, <1>2 DEF PreambleFirst, NoPreamble, p

\* Appending to a file does not change its parts.
LEMMA PartOfLonger ==
  ASSUME NEW a \in File, NEW b \in File, NEW k \in 0..Len(a)
  PROVE  SubSeq(a \o b, 1, k) = SubSeq(a, 1, k)
<1> DEFINE x == a \o b
           p == SubSeq(x, 1, k)
           q == SubSeq(a, 1, k)
<1>1. /\ x \in File /\ Len(a) \in Nat /\ Len(b) \in Nat /\ Len(x) = Len(a) + Len(b)
      /\ \A i \in 1..Len(a) + Len(b) : x[i] = IF i <= Len(a) THEN a[i] ELSE b[i - Len(a)]
  BY Concatenated
<1> HIDE DEF x
<1>2. k \in 0..Len(x)
  BY <1>1
<1>3. p \in File /\ Len(p) = k /\ k \in Nat /\ \A i \in 1..k : p[i] = x[i]
  BY <1>1, <1>2, PartElements
<1>4. q \in File /\ Len(q) = k /\ \A i \in 1..k : q[i] = a[i]
  BY PartElements
<1>5. \A i \in 1..k : i \in 1..Len(a) + Len(b) /\ i <= Len(a)
  BY <1>1, <1>3
<1> HIDE DEF p, q
<1>6. \A i \in 1..k : p[i] = q[i]
  BY <1>1, <1>3, <1>4, <1>5
<1>7. p = q
  BY <1>3, <1>4, <1>6, SeqEqual DEF File
<1> QED
  BY <1>7 DEF p, q, x

\* The bytes of a command that is not a preamble.
LEMMA CommandForm ==
  ASSUME NEW c \in AnyCmd
  PROVE  /\ PreambleFirst(Bytes(<<c>>))
         /\ c.op # "rdb" => NoPreamble(Bytes(<<c>>))
<1> DEFINE x == Bytes(<<c>>)
<1>1. x \in File /\ Len(x) = 2 /\ x[1] = <<c, 1>> /\ x[2] = <<c, 0>>
  BY BytesOfOne
<1> HIDE DEF x
<1>2. \A i \in 1..2 : i = 1 \/ i = 2
  OBVIOUS
<1>3. 3..2 = {}
  OBVIOUS
<1> QED
  BY <1>1, <1>2, <1>3 DEF PreambleFirst, NoPreamble, x

\* feedAppendOnlyFile() appends no preamble, and something.
LEMMA FedForm ==
  ASSUME NEW db, NEW d \in Db, NEW w \in Nat
  PROVE  Fed(db, d, w) \in File /\ NoPreamble(Fed(db, d, w)) /\ Len(Fed(db, d, w)) # 0
<1>1. /\ Select(d) \in AnyCmd /\ Write(w) \in AnyCmd
      /\ Select(d).op = "select" /\ Write(w).op = "write"
  BY DEF Select, Write, AnyCmd
<1> DEFINE x == Bytes(<<Select(d)>>)
           y == Bytes(<<Write(w)>>)
<1>2. x \in File /\ y \in File /\ NoPreamble(x) /\ NoPreamble(y) /\ Len(x) = 2 /\ Len(y) = 2
  BY <1>1, BytesOfOne, CommandForm
<1>3. CASE d = db
  <2>1. Fed(db, d, w) = y
    BY <1>3 DEF Fed
  <2> HIDE DEF y
  <2> QED
    BY <1>2, <2>1
<1>4. CASE d # db
  <2>1. Fed(db, d, w) = x \o y
    <3>1. Fed(db, d, w) = Bytes(<<Select(d)>> \o <<Write(w)>>)
      BY <1>4 DEF Fed
    <3> QED
      BY <1>1, <3>1, BytesOfTwo, TwoCommands, Zenon
  <2> HIDE DEF x, y
  <2>2. NoPreamble(x \o y) /\ x \o y \in File /\ Len(x \o y) = Len(x) + Len(y)
    BY <1>2, AppendedForm, Concatenated, Zenon
  <2> QED
    BY <1>2, <2>1, <2>2
<1> QED
  BY <1>3, <1>4


----------------------------------------------------------------------------
(* The inductive invariant, of a state m of the server.                    *)

Kids == [st : {"none", "dump", "asked", "acked", "ok", "failed"}, file : File, pipe : File]

Server ==
  [up : BOOLEAN, state : {"on", "wait_rewrite", "off"}, data : Data, buf : File,
   seldb : Db \cup {-1}, size : Nat, fsoff : Nat, postponed : 0..2, due : BOOLEAN,
   status : {"ok", "err"}, bio : {"ok", "err"}, jobs : Seq([gen : Nat, at : Int]),
   sched : BOOLEAN, child : {"none", "aof", "rdb"},
   kid : Kids, rwbuf : File, stop : BOOLEAN, bytes : File, synced : Nat, env : Environment,
   gen : Nat, forks : Nat, faults : Nat]

\* The file and aof_buf, while the AOF is on.
FileIsWhole(m) ==
  /\ m.state # "on" => m.buf = <<>>
  /\ m.up /\ m.state = "on" => /\ m.size = Len(m.bytes)
                               /\ Whole(m.bytes \o m.buf, m.data, m.seldb)

NewFile(m) == (m.kid.file \o m.kid.pipe) \o m.rwbuf

\* The file of the child, what is in the pipe and the rewrite buffer.
RewriteIsWhole(m) ==
  /\ m.child # "aof" => m.rwbuf = <<>>
  /\ m.child = "aof" /\ m.kid.st \in {"acked", "ok"} => m.stop
  /\ m.child = "aof" /\ m.kid.st = "ok" => m.kid.pipe = <<>>
  /\ m.up /\ m.child = "aof" /\ m.state # "off" /\ m.kid.st # "failed" =>
        Whole(NewFile(m), m.data, m.seldb)

\* The fsync that covers aof_fsync_offset is done, the last one of the queue, or failed.
Covered(m) ==
  \/ m.synced >= m.fsoff
  \/ LET last == m.jobs[Len(m.jobs)]
     IN m.jobs # <<>> /\ last.gen = m.gen /\ (last.at = -1 \/ last.at >= m.fsoff)
  \/ m.jobs = <<>> /\ m.bio = "err"

OffsetIsCovered(m) ==
  m.env.policy = "everysec" /\ "kill" \notin m.env.ops =>
    /\ ~m.up => m.synced >= Len(m.bytes)
    /\ m.up /\ m.state = "on" => m.fsoff <= Len(m.bytes) /\ Covered(m)

\* The writes in ack are on disk, and the process still has them; so does the file
\* of a child that a server without AOF forked, which may become the file.
AckedAreSafe(m, ack) ==
  Waits(m) =>
    /\ m.jobs = <<>> /\ m.synced <= Len(m.bytes)
    /\ PreambleFirst(m.bytes) /\ NoPreamble(m.buf) /\ PreambleFirst(NewFile(m))
    /\ ack \subseteq Durable(m)
    /\ m.up => ack \subseteq Ids(m.data)
    /\ m.up /\ m.state = "off" /\ m.child = "aof" /\ m.kid.st # "failed" =>
          ack \subseteq Ids(Replay(NewFile(m)))

\* A reply that may be sent before the next flush is for a write that is on disk.
RepliesWait(m, cl, fi) ==
  Waits(m) =>
    /\ "config" \notin m.env.ops => m.state = "on"
    /\ "slow-client" \notin m.env.ops => \A c \in Client : cl[c].handler = "none"
    /\ \A c \in Client : cl[c].handler # "plain"
    /\ m.up => \A c \in Client : cl[c].pending \subseteq Ids(m.data)
    /\ m.up /\ m.state = "on" => \A c \in Client :
          m.buf = <<>> \/ (c \notin fi /\ cl[c].handler # "none") => cl[c].pending \subseteq Durable(m)

----------------------------------------------------------------------------
(* Flushing.                                                               *)

\* What neither a write nor an fsync changes.
Kept(m, n) ==
  /\ n.state = m.state /\ n.data = m.data /\ n.seldb = m.seldb /\ n.child = m.child
  /\ n.kid = m.kid /\ n.rwbuf = m.rwbuf /\ n.stop = m.stop /\ n.env = m.env /\ n.gen = m.gen

\* The states agree on all that the invariant speaks of.
Same(m, n) ==
  /\ Kept(m, n) /\ n.up = m.up /\ n.bytes = m.bytes /\ n.buf = m.buf /\ n.size = m.size
  /\ n.fsoff = m.fsoff /\ n.synced = m.synced /\ n.jobs = m.jobs /\ n.bio = m.bio

\* A failure is counted, nothing else.
LEMMA FailedIsSame ==
  ASSUME NEW m \in Server
  PROVE  Failed(m) \in Server /\ Same(m, Failed(m))
<1>1. PICK x \in Nat : x = m.faults + 1
  BY DEF Server
<1>2. Failed(m) = [m EXCEPT !.faults = x]
  BY <1>1 DEF Failed
<1> QED
  BY <1>2, ZenonT(60) DEF Server, Same, Kept

\* try_fsync: neither the file nor the buffer changes.
LEMMA TryFsyncKeeps ==
  ASSUME NEW m \in Server, NEW syncing \in BOOLEAN, NEW n \in TryFsync(m, syncing)
  PROVE  /\ n \in Server /\ Kept(m, n)
         /\ n.bytes = m.bytes /\ n.buf = m.buf /\ n.size = m.size
         /\ n.up => m.up
<1>1. ASSUME n = [m EXCEPT !.synced = Len(m.bytes), !.fsoff = m.size, !.due = FALSE]
      PROVE  /\ n \in Server /\ Kept(m, n) /\ n.up = m.up
             /\ n.bytes = m.bytes /\ n.buf = m.buf /\ n.size = m.size
  <2>1. Len(m.bytes) \in Nat
    BY LenProperties DEF Server, File
  <2> QED
    BY <1>1, <2>1, Zenon DEF Server, Kept
<1>2. ASSUME n = Exit(Failed(m))
      PROVE  /\ n \in Server /\ Kept(m, n) /\ n.up = FALSE
             /\ n.bytes = m.bytes /\ n.buf = m.buf /\ n.size = m.size
  <2> DEFINE f == Failed(m)
  <2>1. f \in Server /\ Same(m, f)
    BY FailedIsSame
  <2> HIDE DEF f
  <2>2. n = [f EXCEPT !.up = FALSE]
    BY <1>2 DEF Exit, f
  <2> QED
    BY <2>1, <2>2, Zenon DEF Server, Kept, Same
<1>3. ASSUME n = [m EXCEPT !.due = FALSE]
      PROVE  /\ n \in Server /\ Kept(m, n) /\ n.up = m.up
             /\ n.bytes = m.bytes /\ n.buf = m.buf /\ n.size = m.size
  BY <1>3, Zenon DEF Server, Kept
<1>4. ASSUME n = [m EXCEPT !.due = FALSE, !.jobs = Append(@, Job(m.gen)), !.fsoff = m.size]
      PROVE  /\ n \in Server /\ Kept(m, n) /\ n.up = m.up
             /\ n.bytes = m.bytes /\ n.buf = m.buf /\ n.size = m.size
  <2> DEFINE J == [gen : Nat, at : Int]
  <2>1. Job(m.gen) \in J /\ m.jobs \in Seq(J)
    BY DEF Job, Server
  <2>2. Append(m.jobs, Job(m.gen)) \in Seq(J)
    BY <2>1, AppendProperties
  <2> QED
    BY <1>4, <2>2, Zenon DEF Server, Kept
<1>5. CASE n = m
  BY <1>5 DEF Kept
<1> QED
  <2> DEFINE a == [m EXCEPT !.synced = Len(m.bytes), !.fsoff = m.size, !.due = FALSE]
             b == Exit(Failed(m))
             c == [m EXCEPT !.due = FALSE]
             d == [m EXCEPT !.due = FALSE, !.jobs = Append(@, Job(m.gen)), !.fsoff = m.size]
  <2>1. TryFsync(m, syncing) \subseteq {a, b, c, d, m}
    <3> HIDE DEF a, b, c, d
    <3> QED
      BY DEF TryFsync, a, b, c, d
  <2> HIDE DEF a, b, c, d
  <2>2. n = a \/ n = b \/ n = c \/ n = d \/ n = m
    BY <2>1
  <2> QED
    BY <1>1, <1>2, <1>3, <1>4, <1>5, <2>2, Zenon DEF a, b, c, d

\* k units of the buffer are in the file, and aof_buf, the size and the offset are
\* as before the write.
Put(m, n, k) ==
  /\ n \in Server /\ Kept(m, n) /\ n.up = m.up /\ n.buf = m.buf /\ n.size = m.size
  /\ n.fsoff = m.fsoff /\ n.jobs = m.jobs /\ n.bio = m.bio
  /\ n.synced = m.synced \/ (m.synced > m.size /\ n.synced = m.size)
  /\ n.bytes = m.bytes \o SubSeq(m.buf, 1, k)

\* aofWrite() and the ftruncate() after it: a number of units is in the file, none
\* when -1 is returned.
LEMMA WriteOutcome ==
  ASSUME NEW m \in Server, m.size = Len(m.bytes), m.buf # <<>>, NEW w \in aofWrite(m)
  PROVE  \E k \in 0..Len(m.buf) : Put(m, w.m, k) /\ (w.n = k \/ (w.n = -1 /\ k = 0))
<1> DEFINE put(k) == [m EXCEPT !.bytes = @ \o SubSeq(m.buf, 1, k)]
           full == Len(m.buf)
           short == 1..(full - 1)
<1>1. m.buf \in File /\ m.bytes \in File /\ full \in Nat /\ full # 0 /\ Len(m.bytes) \in Nat
  BY LenProperties, EmptySeq DEF Server, File
<1>2. ASSUME NEW k \in 0..full
      PROVE  Put(m, put(k), k) /\ SubSeq(put(k).bytes, 1, m.size) = m.bytes
  <2>1. m.bytes \o SubSeq(m.buf, 1, k) \in File
    BY <1>1, Parts, Concatenated, ZenonT(60)
  <2>2. SubSeq(m.bytes \o SubSeq(m.buf, 1, k), 1, Len(m.bytes)) = m.bytes
    <3>1. SubSeq(m.buf, 1, k) \in File
      BY <1>1, Parts, Zenon
    <3> QED
      BY <1>1, <3>1, CutBack, Zenon
  <2>3. PICK b \in File : b = m.bytes \o SubSeq(m.buf, 1, k)
    BY <2>1, Zenon
  <2>4. put(k) = [m EXCEPT !.bytes = b]
    BY <2>3
  <2>5. put(k) \in Server /\ put(k).bytes = b
    BY <2>4, ZenonT(60) DEF Server
  <2>6. Put(m, put(k), k)
    BY <2>3, <2>4, <2>5, Zenon DEF Put, Kept, Server
  <2> QED
    BY <2>2, <2>3, <2>5, <2>6
<1>3. ASSUME NEW n, NEW k \in 0..full, Put(m, n, k)
      PROVE  Put(m, Failed(n), k)
  <2>1. n \in Server
    BY <1>3 DEF Put
  <2>2. Failed(n) \in Server /\ Same(n, Failed(n))
    BY <2>1, FailedIsSame
  <2> HIDE DEF full
  <2> QED
    BY <1>3, <2>2 DEF Put, Same, Kept
<1>4. m.bytes = m.bytes \o SubSeq(m.buf, 1, 0)
  <2>1. SubSeq(m.buf, 1, 0) = <<>>
    BY SubSeqEmpty
  <2>2. m.bytes \o <<>> = m.bytes
    BY <1>1, ConcatEmptySeq DEF File
  <2> QED
    BY <2>1, <2>2, Zenon
<1>5. Put(m, m, 0)
  BY <1>4 DEF Put, Kept
<1>6. ASSUME NEW k \in short
      PROVE  Put(m, Truncated(put(k), m.size), 0)
  <2>1. k \in 0..full
    BY <1>1
  <2> DEFINE p == put(k)
             t == Truncated(p, m.size)
  <2>2. Put(m, p, k) /\ SubSeq(p.bytes, 1, m.size) = m.bytes
    BY <1>2, <2>1, Zenon
  <2> HIDE DEF p
  <2>3. p \in Server /\ m.size \in Nat
    BY <2>2 DEF Put, Server
  <2>4. PICK y \in Nat : y = IF p.synced > m.size THEN m.size ELSE p.synced
    BY <2>3 DEF Server
  <2>5. t = [p EXCEPT !.bytes = m.bytes, !.synced = y]
    BY <2>2, <2>4, Zenon DEF Truncated
  <2>6. t \in Server /\ t.bytes = m.bytes /\ t.synced = y
    BY <1>1, <2>3, <2>5, ZenonT(60) DEF Server
  <2>7. y = m.synced \/ (m.synced > m.size /\ y = m.size)
    BY <2>2, <2>3, <2>4, SMTT(60) DEF Put, Server
  <2>8. /\ Kept(m, t) /\ t.up = m.up /\ t.buf = m.buf /\ t.size = m.size
        /\ t.fsoff = m.fsoff /\ t.jobs = m.jobs /\ t.bio = m.bio
    BY <2>2, <2>3, <2>5 DEF Put, Kept, Server
  <2> HIDE DEF t
  <2> QED
    BY <1>4, <2>6, <2>7, <2>8, Zenon DEF Put, p, t
<1> DEFINE A == [m |-> put(full), n |-> full]
           B == [m |-> Failed(m), n |-> -1]
           C(k) == [m |-> Failed(Truncated(put(k), m.size)), n |-> -1]
           D(k) == [m |-> Failed(put(k)), n |-> k]
<1>7. w = A \/ w = B \/ (\E k \in short : w = C(k)) \/ (\E k \in short : w = D(k))
  BY Zenon DEF aofWrite
<1>8. CASE w = A
  <2>1. w.m = put(full) /\ w.n = full /\ full \in 0..full
    BY <1>1, <1>8
  <2> HIDE DEF put, full
  <2> QED
    BY <1>2, <2>1 DEF full
<1>9. CASE w = B
  <2>1. w.m = Failed(m) /\ w.n = -1 /\ 0 \in 0..full
    BY <1>1, <1>9
  <2> QED
    BY <1>3, <1>5, <2>1
<1>10. ASSUME NEW k \in short, w = C(k) PROVE Put(m, w.m, 0) /\ w.n = -1 /\ 0 \in 0..full
  <2>1. w.m = Failed(Truncated(put(k), m.size)) /\ w.n = -1 /\ 0 \in 0..full
    BY <1>1, <1>10
  <2> HIDE DEF put, full
  <2> QED
    BY <1>3, <1>6, <2>1
<1>11. ASSUME NEW k \in short, w = D(k) PROVE Put(m, w.m, k) /\ w.n = k /\ k \in 0..full
  <2>1. w.m = Failed(put(k)) /\ w.n = k /\ k \in 0..full
    BY <1>1, <1>11
  <2> HIDE DEF put, full
  <2> QED
    BY <1>2, <1>3, <2>1
<1> HIDE DEF A, B, C, D, short, full
<1> QED
  BY <1>7, <1>8, <1>9, <1>10, <1>11 DEF full

\* k units of the buffer went to the file, and the server knows it.
Wrote(m, n, k) ==
  /\ n \in Server /\ Kept(m, n) /\ n.up = m.up
  /\ n.fsoff = m.fsoff /\ n.jobs = m.jobs /\ n.bio = m.bio
  /\ n.synced = m.synced \/ (m.synced > m.size /\ n.synced = m.size)
  /\ n.bytes = m.bytes \o SubSeq(m.buf, 1, k)
  /\ n.buf = SubSeq(m.buf, k + 1, Len(m.buf))
  /\ n.size = Len(n.bytes)

Syncing(m) == m.env.policy = "everysec" /\ aofFsyncInProgress(m)

\* A flush does nothing now, or fsyncs an empty buffer's file, or writes all and
\* fsyncs, or some; with appendfsync always a write that is not complete ends the
\* process.
FlushCase(m, n) ==
  \/ Same(m, n) /\ (m.env.policy = "always" => m.buf = <<>>)
  \/ m.buf = <<>> /\ m.env.policy = "everysec" /\ n \in TryFsync(m, FALSE) /\ ~Syncing(m)
  \/ m.buf # <<>> /\ \E x : Wrote(m, x, Len(m.buf)) /\ n \in TryFsync(x, Syncing(m))
  \/ m.buf # <<>> /\ m.env.policy # "always" /\ \E k \in 0..Len(m.buf) : Wrote(m, n, k)
  \/ m.buf # <<>> /\ m.env.policy = "always" /\ \E k \in 0..Len(m.buf) : \E y : Put(m, y, k) /\ n = Exit(y)

\* What is left to do after a write of k units, and after a complete one.
LEMMA WrittenIsCounted ==
  ASSUME NEW m \in Server, m.size = Len(m.bytes), NEW k \in 0..Len(m.buf),
         NEW y, Put(m, y, k)
  PROVE  /\ Wrote(m, [y EXCEPT !.status = "err", !.size = @ + k,
                               !.buf = SubSeq(@, k + 1, Len(@))], k)
         /\ k = Len(m.buf) =>
              Wrote(m, [y EXCEPT !.status = "ok", !.size = @ + k, !.buf = <<>>], k)
<1> DEFINE rest == SubSeq(m.buf, k + 1, Len(m.buf))
<1>1. m.buf \in File /\ m.bytes \in File /\ y \in Server /\ Len(m.buf) \in Nat /\ Len(m.bytes) \in Nat
  BY LenProperties DEF Server, Put, File
<1>2. rest \in File /\ SubSeq(m.buf, 1, k) \in File /\ Len(SubSeq(m.buf, 1, k)) = k
  BY <1>1, Parts, ZenonT(60)
<1>3. Len(y.bytes) = Len(m.bytes) + k
  <2>1. PICK x \in File : x = SubSeq(m.buf, 1, k) /\ Len(x) = k
    BY <1>2, Zenon
  <2>2. Len(m.bytes \o x) = Len(m.bytes) + Len(x)
    BY <1>1, ConcatProperties DEF File
  <2> QED
    BY <2>1, <2>2, Zenon DEF Put
<1>4. PICK z \in Nat : z = y.size + k /\ z = Len(y.bytes)
  BY <1>1, <1>3 DEF Put, Server
<1>5. y.buf = m.buf /\ y.bytes = m.bytes \o SubSeq(m.buf, 1, k)
  BY DEF Put
<1>6. ASSUME NEW st \in {"ok", "err"}, NEW n, n = [y EXCEPT !.status = st, !.size = z, !.buf = rest]
      PROVE  Wrote(m, n, k)
  <2>1. n \in Server /\ n.buf = rest /\ n.size = z /\ n.bytes = y.bytes
    <3> HIDE DEF rest
    <3> QED
      BY <1>1, <1>2, <1>6, Zenon DEF Server
  <2>2. /\ Kept(m, n) /\ n.up = m.up /\ n.fsoff = m.fsoff /\ n.jobs = m.jobs /\ n.bio = m.bio
        /\ n.synced = y.synced
    <3> HIDE DEF rest
    <3> QED
      BY <1>1, <1>6 DEF Put, Kept, Server
  <2>3. y.synced = m.synced \/ (m.synced > m.size /\ y.synced = m.size)
    BY DEF Put
  <2> QED
    BY <1>4, <1>5, <2>1, <2>2, <2>3, Zenon DEF Wrote
<1>7. [y EXCEPT !.status = "err", !.size = @ + k, !.buf = SubSeq(@, k + 1, Len(@))]
      = [y EXCEPT !.status = "err", !.size = z, !.buf = rest]
  BY <1>4, <1>5
<1>8. CASE k = Len(m.buf)
  <2>1. rest = <<>>
    <3>1. k + 1 \in Int /\ Len(m.buf) \in Int /\ Len(m.buf) < k + 1
      BY <1>1, <1>8
    <3> QED
      BY <3>1, SubSeqEmpty, Zenon
  <2> HIDE DEF rest
  <2>2. [y EXCEPT !.status = "ok", !.size = @ + k, !.buf = <<>>]
        = [y EXCEPT !.status = "ok", !.size = z, !.buf = rest]
    BY <1>4, <2>1
  <2> QED
    BY <1>6, <1>7, <2>2
<1> HIDE DEF rest
<1> QED
  BY <1>6, <1>7, <1>8

\* The cases of flushAppendOnlyFile().
LEMMA FlushCases ==
  ASSUME NEW m \in Server, m.buf # <<>> => m.size = Len(m.bytes),
         NEW force \in BOOLEAN, NEW n \in flushAppendOnlyFile(m, force)
  PROVE  n \in Server /\ FlushCase(m, n)
<1>0. Syncing(m) \in BOOLEAN
  BY DEF Syncing
<1>1. flushAppendOnlyFile(m, force) =
        IF m.buf = <<>>
          THEN IF m.env.policy = "everysec" /\ m.fsoff # m.size /\ m.due /\ ~Syncing(m)
               THEN TryFsync(m, FALSE) ELSE {m}
        ELSE IF Syncing(m) /\ ~force /\ m.postponed < 2
          THEN {[m EXCEPT !.postponed = 1]}
        ELSE UNION {AfterWrite(w, Syncing(m)) : w \in aofWrite([m EXCEPT !.postponed = 0])}
  BY Zenon DEF flushAppendOnlyFile, Syncing
<1>2. CASE m.buf = <<>>
  <2>1. n = m \/ (m.env.policy = "everysec" /\ ~Syncing(m) /\ n \in TryFsync(m, FALSE))
    BY <1>1, <1>2, Zenon
  <2>2. n \in TryFsync(m, FALSE) => n \in Server
    BY TryFsyncKeeps, Zenon
  <2>3. n = m => Same(m, n)
    BY DEF Same, Kept
  <2> QED
    BY <1>2, <2>1, <2>2, <2>3, Zenon DEF FlushCase
<1>3. CASE m.buf # <<>> /\ Syncing(m) /\ ~force /\ m.postponed < 2
  <2>1. n = [m EXCEPT !.postponed = 1]
    BY <1>1, <1>3
  <2>2. n \in Server /\ Same(m, n)
    <3>1. PICK x \in 0..2 : x = 1
      OBVIOUS
    <3>2. n = [m EXCEPT !.postponed = x]
      BY <2>1, <3>1
    <3> QED
      BY <3>2, ZenonT(60) DEF Server, Same, Kept
  <2>3. m.env.policy = "everysec"
    BY <1>3 DEF Syncing
  <2> QED
    BY <2>2, <2>3 DEF FlushCase
<1>4. CASE m.buf # <<>> /\ ~(Syncing(m) /\ ~force /\ m.postponed < 2)
  <2> DEFINE p == [m EXCEPT !.postponed = 0]
  <2>1. p \in Server /\ Same(m, p)
    <3>1. PICK x \in 0..2 : x = 0
      OBVIOUS
    <3>2. p = [m EXCEPT !.postponed = x]
      BY <3>1
    <3> HIDE DEF p
    <3> QED
      BY <3>2, Zenon DEF Server, Same, Kept
  <2>2. PICK w \in aofWrite(p) : n \in AfterWrite(w, Syncing(m))
    <3> HIDE DEF p
    <3> QED
      BY <1>1, <1>4 DEF p
  <2> HIDE DEF p
  <2>3. PICK k \in 0..Len(p.buf) : Put(p, w.m, k) /\ (w.n = k \/ (w.n = -1 /\ k = 0))
    BY <1>4, <2>1, WriteOutcome, SMTT(60) DEF Same
  <2> DEFINE y == w.m
  <2>4. Put(m, y, k) /\ k \in 0..Len(m.buf) /\ y.buf = m.buf /\ y \in Server
    BY <2>1, <2>3 DEF Put, Same, Kept
  <2>5. Len(m.buf) \in Nat /\ m.size = Len(m.bytes) /\ Len(m.buf) # 0
    BY <1>4, LenProperties, EmptySeq DEF Server, File
  <2>6. y.env = m.env
    BY <2>4 DEF Put, Kept
  <2> HIDE DEF y
  <2>7. CASE w.n = Len(y.buf)
    <3>1. k = Len(m.buf) /\ w.n = k
      BY <2>3, <2>4, <2>5, <2>7
    <3> DEFINE x == [y EXCEPT !.status = "ok", !.size = @ + k, !.buf = <<>>]
    <3>2. Wrote(m, x, k)
      BY <2>4, <2>5, <3>1, WrittenIsCounted, Zenon
    <3>3. n \in TryFsync(x, Syncing(m))
      BY <2>2, <2>7, <3>1 DEF AfterWrite, y
    <3> HIDE DEF x
    <3>4. n \in Server
      BY <1>0, <3>2, <3>3, TryFsyncKeeps DEF Wrote
    <3> QED
      BY <1>4, <3>1, <3>2, <3>3, <3>4, Zenon DEF FlushCase
  <2>8. CASE w.n # Len(y.buf) /\ m.env.policy = "always"
    <3>1. n = Exit(y)
      BY <2>2, <2>6, <2>8 DEF AfterWrite, y
    <3>2. n \in Server
      BY <2>4, <3>1, ZenonT(60) DEF Exit, Server
    <3> QED
      BY <1>4, <2>4, <2>8, <3>1, <3>2 DEF FlushCase
  <2>9. CASE w.n # Len(y.buf) /\ m.env.policy # "always"
    <3>1. n = WriteError(y, w.n)
      BY <2>2, <2>6, <2>9 DEF AfterWrite, y
    <3>2. (IF w.n > 0 THEN w.n ELSE 0) = k
      BY <2>3, <2>4, <2>5
    <3>3. n = [y EXCEPT !.status = "err", !.size = @ + k, !.buf = SubSeq(@, k + 1, Len(@))]
      BY <3>1, <3>2, Zenon DEF WriteError
    <3>4. Wrote(m, n, k)
      BY <2>4, <2>5, <3>3, WrittenIsCounted, Zenon
    <3>5. n \in Server
      BY <3>4 DEF Wrote
    <3> QED
      BY <1>4, <2>4, <2>9, <3>4, <3>5, Zenon DEF FlushCase
  <2> QED
    BY <2>7, <2>8, <2>9
<1> QED
  BY <1>2, <1>3, <1>4

----------------------------------------------------------------------------
(* The two whole files.                                                    *)

Good(m) == m \in Server /\ FileIsWhole(m) /\ RewriteIsWhole(m)

\* Nothing that Good speaks of has changed, or the process has ended.
LEMMA SameIsGood ==
  ASSUME NEW m, NEW n \in Server, Good(m), Kept(m, n), n.bytes = m.bytes, n.buf = m.buf,
         n.size = m.size, n.up => m.up
  PROVE  Good(n)
BY DEF Good, FileIsWhole, RewriteIsWhole, NewFile, Kept

\* A process that has ended only needs its types.
LEMMA DownIsGood ==
  ASSUME NEW m, NEW n \in Server, Good(m), Kept(m, n), n.buf = m.buf, ~n.up
  PROVE  Good(n)
BY DEF Good, FileIsWhole, RewriteIsWhole, NewFile, Kept

\* Writing a part of the buffer moves it to the end of the file.
LEMMA WroteIsGood ==
  ASSUME NEW m, NEW n, NEW k \in 0..Len(m.buf), Good(m), Wrote(m, n, k)
  PROVE  Good(n) /\ (m.buf = <<>> => n.buf = <<>>)
<1>1. m.bytes \in File /\ m.buf \in File /\ n \in Server
  BY DEF Good, Server, Wrote
<1>2. n.bytes \o n.buf = m.bytes \o m.buf
  <2>1. (m.bytes \o SubSeq(m.buf, 1, k)) \o SubSeq(m.buf, k + 1, Len(m.buf)) = m.bytes \o m.buf
    BY <1>1, Parts, Zenon
  <2> QED
    BY <2>1, Zenon DEF Wrote
<1>3. m.buf = <<>> => n.buf = <<>>
  <2>1. ASSUME m.buf = <<>> PROVE SubSeq(m.buf, k + 1, Len(m.buf)) = <<>>
    <3>1. k + 1 \in Int /\ Len(m.buf) \in Int /\ Len(m.buf) < k + 1
      BY <2>1
    <3> QED
      BY <3>1, SubSeqEmpty, Zenon
  <2> QED
    BY <2>1 DEF Wrote
<1>4. FileIsWhole(n)
  BY <1>2, <1>3, Zenon DEF Good, FileIsWhole, Wrote, Kept
<1>5. RewriteIsWhole(n)
  BY DEF Good, RewriteIsWhole, NewFile, Wrote, Kept
<1> QED
  BY <1>1, <1>3, <1>4, <1>5 DEF Good

\* flushAppendOnlyFile() keeps both files whole.
LEMMA FlushIsGood ==
  ASSUME NEW m, Good(m), m.up, NEW force \in BOOLEAN, NEW n \in flushAppendOnlyFile(m, force)
  PROVE  Good(n) /\ Kept(m, n) /\ (m.buf = <<>> => n.buf = <<>>)
<1>1. m \in Server /\ (m.buf # <<>> => m.size = Len(m.bytes))
  BY DEF Good, FileIsWhole, Server
<1>2. n \in Server /\ FlushCase(m, n)
  BY <1>1, FlushCases
<1>3. CASE Same(m, n)
  BY <1>2, <1>3, SameIsGood DEF Same
<1>4. CASE n \in TryFsync(m, FALSE)
  BY <1>1, <1>4, TryFsyncKeeps, SameIsGood, Zenon
<1>5. ASSUME NEW x, Wrote(m, x, Len(m.buf)), n \in TryFsync(x, Syncing(m))
      PROVE  Good(n) /\ Kept(m, n) /\ (m.buf = <<>> => n.buf = <<>>)
  <2>1. Len(m.buf) \in 0..Len(m.buf)
    BY <1>1, LenProperties DEF Server, File
  <2>2. Good(x) /\ x \in Server /\ Kept(m, x) /\ (m.buf = <<>> => x.buf = <<>>)
    BY <1>5, <2>1, WroteIsGood, Zenon DEF Wrote
  <2>3. Syncing(m) \in BOOLEAN
    BY DEF Syncing
  <2>4. n \in Server /\ Kept(x, n) /\ n.bytes = x.bytes /\ n.buf = x.buf /\ n.size = x.size /\ (n.up => x.up)
    BY <1>5, <2>2, <2>3, TryFsyncKeeps
  <2>5. Good(n)
    BY <2>2, <2>4, SameIsGood
  <2> QED
    BY <2>2, <2>4, <2>5 DEF Kept
<1>6. ASSUME NEW k \in 0..Len(m.buf), Wrote(m, n, k)
      PROVE  Good(n) /\ Kept(m, n) /\ (m.buf = <<>> => n.buf = <<>>)
  BY <1>6, WroteIsGood, Zenon DEF Wrote
<1>7. ASSUME NEW k \in 0..Len(m.buf), NEW y, Put(m, y, k), n = Exit(y)
      PROVE  Good(n) /\ Kept(m, n) /\ (m.buf = <<>> => n.buf = <<>>)
  <2>1. n.buf = m.buf /\ ~n.up /\ Kept(m, n)
    BY <1>7 DEF Put, Exit, Kept, Server
  <2> QED
    BY <1>2, <2>1, DownIsGood
<1> QED
  BY <1>2, <1>3, <1>4, <1>5, <1>6, <1>7, Zenon DEF FlushCase, Same

\* The new file is a file.
LEMMA NewFileTyped ==
  ASSUME NEW m \in Server
  PROVE  /\ m.kid.file \in File /\ m.kid.pipe \in File /\ m.rwbuf \in File
         /\ m.kid.file \o m.kid.pipe \in File /\ NewFile(m) \in File
<1>1. m.kid.file \in File /\ m.kid.pipe \in File /\ m.rwbuf \in File
  BY DEF Server, Kids
<1>2. m.kid.file \o m.kid.pipe \in File
  BY <1>1, Concatenated, Zenon
<1> QED
  BY <1>1, <1>2, Concatenated DEF NewFile

\* n is m after call() of write w in database d, with its arguments propagated.
Called(m, n, d, w) ==
  LET out == Fed(m.seldb, d, w)
  IN  /\ n \in Server /\ out \in File
      /\ n.data = Append(m.data, <<w, d>>)
      /\ n.buf = IF m.state = "on" THEN m.buf \o out ELSE m.buf
      /\ n.rwbuf = IF m.state # "off" /\ m.child = "aof" THEN m.rwbuf \o out ELSE m.rwbuf
      /\ n.seldb = IF m.state = "off" THEN m.seldb ELSE d
      /\ n.state = m.state /\ n.child = m.child /\ n.kid = m.kid /\ n.env = m.env
      /\ n.gen = m.gen /\ n.stop = m.stop /\ n.up = m.up /\ n.bytes = m.bytes /\ n.size = m.size
      /\ n.fsoff = m.fsoff /\ n.synced = m.synced /\ n.jobs = m.jobs /\ n.bio = m.bio

\* A write command is added to the dataset, to aof_buf and to the rewrite buffer.
LEMMA CallFields ==
  ASSUME NEW m \in Server, NEW d \in Db, NEW w \in Nat
  PROVE  Called(m, Call(m, d, w), d, w)
<1> DEFINE n == Call(m, d, w)
           out == Fed(m.seldb, d, w)
<1>1. m.buf \in File /\ m.rwbuf \in File /\ m.data \in Data /\ m.seldb \in Db \cup {-1}
  BY DEF Server
<1>2. out \in File
  <2>1. Select(d) \in AnyCmd /\ Write(w) \in AnyCmd
    BY DEF Select, Write, AnyCmd
  <2>2. CASE d = m.seldb
    <3>1. out = Bytes(<<Write(w)>>)
      BY <2>2 DEF Fed
    <3> QED
      BY <2>1, <3>1, BytesOfOne
  <2>3. CASE d # m.seldb
    <3>1. out = Bytes(<<Select(d)>> \o <<Write(w)>>)
      BY <2>3 DEF Fed
    <3>2. out = Bytes(<<Select(d)>>) \o Bytes(<<Write(w)>>)
      BY <2>1, <3>1, BytesOfTwo, TwoCommands, Zenon
    <3>3. Bytes(<<Select(d)>>) \in File /\ Bytes(<<Write(w)>>) \in File
      BY <2>1, BytesOfOne
    <3> QED
      BY <3>2, <3>3, Concatenated, Zenon
  <2> QED
    BY <2>2, <2>3
<1>3. PICK dt \in Data : dt = Append(m.data, <<w, d>>)
  <2>1. <<w, d>> \in Nat \X Db
    BY AofAssumption
  <2> QED
    BY <1>1, <2>1, AppendProperties, Zenon DEF Data
<1>4. PICK b \in File : b = IF m.state = "on" THEN m.buf \o out ELSE m.buf
  BY <1>1, <1>2, Concatenated, Zenon
<1>5. PICK r \in File : r = IF m.child = "aof" THEN m.rwbuf \o out ELSE m.rwbuf
  BY <1>1, <1>2, Concatenated, Zenon
<1>6. CASE m.state = "off"
  <2>1. n = [m EXCEPT !.data = dt]
    BY <1>3, <1>6 DEF Call
  <2> HIDE DEF n, out
  <2>2. /\ n \in Server
        /\ n.data = dt /\ n.buf = m.buf /\ n.rwbuf = m.rwbuf /\ n.seldb = m.seldb
        /\ n.state = m.state /\ n.child = m.child /\ n.kid = m.kid /\ n.env = m.env
        /\ n.gen = m.gen /\ n.stop = m.stop /\ n.up = m.up /\ n.bytes = m.bytes /\ n.size = m.size
        /\ n.fsoff = m.fsoff /\ n.synced = m.synced /\ n.jobs = m.jobs /\ n.bio = m.bio
    BY <2>1, Zenon DEF Server
  <2> QED
    BY <1>2, <1>3, <1>6, <2>2 DEF Called, n, out
<1>7. CASE m.state # "off"
  <2>1. n = [m EXCEPT !.data = dt, !.seldb = d, !.buf = b, !.rwbuf = r]
    <3> DEFINE done == [m EXCEPT !.data = Append(@, <<w, d>>)]
    <3>1. done \in Server /\ done = [m EXCEPT !.data = dt]
      BY <1>3, Zenon DEF Server
    <3>2. /\ done.seldb = m.seldb /\ done.state = m.state /\ done.child = m.child
          /\ done.buf = m.buf /\ done.rwbuf = m.rwbuf
      BY <3>1 DEF Server
    <3>3. n = feedAppendOnlyFile(done, d, w)
      BY <1>7 DEF Call
    <3> HIDE DEF done
    <3>4. n = [done EXCEPT !.seldb = d, !.buf = b, !.rwbuf = r]
      BY <1>4, <1>5, <3>2, <3>3 DEF feedAppendOnlyFile, Fed
    <3> QED
      BY <3>1, <3>4 DEF Server
  <2> HIDE DEF n, out
  <2>2. /\ n \in Server
        /\ n.data = dt /\ n.buf = b /\ n.rwbuf = r /\ n.seldb = d
        /\ n.state = m.state /\ n.child = m.child /\ n.kid = m.kid /\ n.env = m.env
        /\ n.gen = m.gen /\ n.stop = m.stop /\ n.up = m.up /\ n.bytes = m.bytes /\ n.size = m.size
        /\ n.fsoff = m.fsoff /\ n.synced = m.synced /\ n.jobs = m.jobs /\ n.bio = m.bio
    BY <2>1, Zenon DEF Server
  <2>3. /\ n.buf = IF m.state = "on" THEN m.buf \o out ELSE m.buf
        /\ n.rwbuf = IF m.state # "off" /\ m.child = "aof" THEN m.rwbuf \o out ELSE m.rwbuf
    BY <1>4, <1>5, <1>7, <2>2
  <2> QED
    BY <1>2, <1>3, <1>7, <2>2, <2>3 DEF Called, n, out
<1> QED
  BY <1>6, <1>7

\* call() keeps both files whole.
LEMMA CallIsGood ==
  ASSUME NEW m, Good(m), m.up, NEW d \in Db, NEW w \in Nat
  PROVE  Good(Call(m, d, w))
<1> DEFINE n == Call(m, d, w)
           out == Fed(m.seldb, d, w)
<1>1. /\ m \in Server /\ m.buf \in File /\ m.bytes \in File /\ m.data \in Data
      /\ m.seldb \in Db \cup {-1}
  BY DEF Good, Server
<1>2. /\ n \in Server /\ out \in File
      /\ n.data = Append(m.data, <<w, d>>)
      /\ n.buf = IF m.state = "on" THEN m.buf \o out ELSE m.buf
      /\ n.rwbuf = IF m.state # "off" /\ m.child = "aof" THEN m.rwbuf \o out ELSE m.rwbuf
      /\ n.seldb = IF m.state = "off" THEN m.seldb ELSE d
      /\ n.state = m.state /\ n.child = m.child /\ n.kid = m.kid /\ n.stop = m.stop
      /\ n.up = m.up /\ n.bytes = m.bytes /\ n.size = m.size
  <2>1. Called(m, n, d, w)
    BY <1>1, CallFields
  <2> HIDE DEF n
  <2> QED
    BY <2>1 DEF Called
<1> HIDE DEF n
<1>3. ASSUME m.state = "on"
      PROVE  Whole(n.bytes \o n.buf, n.data, n.seldb)
  <2> DEFINE f == m.bytes \o m.buf
  <2>1. f \in File /\ Whole(f, m.data, m.seldb)
    BY <1>1, <1>3, Concatenated DEF Good, FileIsWhole
  <2>2. Whole(f \o out, n.data, d)
    <3> HIDE DEF f
    <3> QED
      BY <1>1, <1>2, <2>1, FedIsWhole
  <2>3. n.bytes \o n.buf = f \o out
    <3> HIDE DEF out
    <3> QED
      <4>1. n.bytes = m.bytes /\ n.buf = m.buf \o out
        BY <1>2, <1>3
      <4>2. (m.bytes \o m.buf) \o out = m.bytes \o (m.buf \o out)
        BY <1>1, <1>2, Associative, Zenon
      <4> QED
        BY <4>1, <4>2
  <2> QED
    BY <1>2, <1>3, <2>2, <2>3, Zenon
<1>4. ASSUME m.state # "off", m.child = "aof", m.kid.st # "failed"
      PROVE  Whole(NewFile(n), n.data, n.seldb)
  <2> DEFINE f == m.kid.file \o m.kid.pipe
             g == NewFile(m)
  <2>1. f \in File /\ g \in File /\ m.rwbuf \in File
    BY <1>1, NewFileTyped
  <2>2. Whole(g, m.data, m.seldb)
    BY <1>4 DEF Good, RewriteIsWhole
  <2>3. Whole(g \o out, n.data, d)
    <3> HIDE DEF g
    <3> QED
      BY <1>1, <1>2, <2>1, <2>2, FedIsWhole
  <2>4. NewFile(n) = f \o (m.rwbuf \o out)
    BY <1>2, <1>4, Zenon DEF NewFile
  <2>5. g = f \o m.rwbuf
    BY DEF NewFile
  <2>6. NewFile(n) = g \o out
    <3> HIDE DEF f, g, out
    <3> QED
      BY <1>2, <2>1, <2>4, <2>5, Associative, ZenonT(60)
  <2> QED
    BY <1>2, <1>4, <2>3, <2>6
<1>5. FileIsWhole(n)
  BY <1>2, <1>3 DEF Good, FileIsWhole
<1>6. RewriteIsWhole(n)
  BY <1>2, <1>4 DEF Good, RewriteIsWhole
<1> QED
  BY <1>2, <1>5, <1>6 DEF Good, n

\* A child that was counted against the bound.
LEMMA CountedIsSame ==
  ASSUME NEW m \in Server
  PROVE  Counted(m) \in Server /\ Same(m, Counted(m))
<1>1. PICK x \in Nat : x = m.forks + 1
  BY DEF Server
<1>2. Counted(m) = [m EXCEPT !.forks = x]
  BY <1>1 DEF Counted
<1> QED
  BY <1>2, ZenonT(60) DEF Server, Same, Kept

Kid(st, file, pipe) == [st |-> st, file |-> file, pipe |-> pipe]

\* rewriteAppendOnlyFileBackground(): the child has the dataset in its file, and
\* the next command is preceded by a SELECT.
LEMMA ForkedIsGood ==
  ASSUME NEW m, Good(m), m.child # "aof"
  PROVE  LET n == Forked(m)
         IN  /\ Good(n) /\ n.env = m.env /\ n.up = m.up /\ n.state = m.state /\ n.data = m.data
             /\ n.buf = m.buf /\ n.bytes = m.bytes /\ n.size = m.size /\ n.fsoff = m.fsoff
             /\ n.synced = m.synced /\ n.jobs = m.jobs /\ n.bio = m.bio /\ n.gen = m.gen
             /\ n.child = "aof" /\ n.rwbuf = <<>>
             /\ n.kid = Kid("dump", Bytes(<<Preamble(m.data)>>), <<>>)
             /\ NewFile(n) = Bytes(<<Preamble(m.data)>>) /\ n.seldb = -1
<1> DEFINE n == Forked(m)
           file == Bytes(<<Preamble(m.data)>>)
<1>1. m \in Server /\ m.data \in Data /\ m.rwbuf = <<>>
  BY DEF Good, Server, RewriteIsWhole
<1>2. file \in File /\ Whole(file, m.data, -1)
  BY <1>1, PreambleIsWhole
<1>3. <<>> \in File /\ (file \o <<>>) \o <<>> = file
  <2> HIDE DEF file
  <2> QED
    BY <1>2, ConcatEmptySeq DEF File
<1> HIDE DEF file
<1>4. PICK k : k \in Kids /\ k = [st |-> "dump", file |-> file, pipe |-> <<>>]
  BY <1>2, <1>3, Zenon DEF Kids
<1>5. n = [m EXCEPT !.child = "aof", !.stop = FALSE, !.sched = FALSE, !.kid = k, !.seldb = -1]
  BY <1>4 DEF Forked, file
<1> HIDE DEF n
<1>6. /\ n \in Server /\ n.env = m.env /\ n.up = m.up /\ n.state = m.state /\ n.data = m.data
      /\ n.buf = m.buf /\ n.bytes = m.bytes /\ n.size = m.size /\ n.fsoff = m.fsoff
      /\ n.synced = m.synced /\ n.jobs = m.jobs /\ n.bio = m.bio /\ n.gen = m.gen
      /\ n.child = "aof" /\ n.rwbuf = m.rwbuf /\ n.kid = k /\ n.seldb = -1
  BY <1>1, <1>4, <1>5, ZenonT(60) DEF Server
<1>7. FileIsWhole(n)
  BY <1>6, Zenon DEF Good, FileIsWhole, Whole
<1>8. k.st = "dump" /\ k.file = file /\ k.pipe = <<>>
  BY <1>4
<1>9. NewFile(n) = file
  BY <1>1, <1>3, <1>6, <1>8 DEF NewFile
<1>10. RewriteIsWhole(n)
  BY <1>2, <1>6, <1>8, <1>9 DEF RewriteIsWhole
<1> QED
  BY <1>1, <1>4, <1>6, <1>7, <1>9, <1>10 DEF Good, Kid, n, file

\* n is m without its child.
Childless(m, n) ==
  /\ n.env = m.env /\ n.up = m.up /\ n.state = m.state /\ n.data = m.data
  /\ n.buf = m.buf /\ n.bytes = m.bytes /\ n.size = m.size /\ n.fsoff = m.fsoff
  /\ n.synced = m.synced /\ n.jobs = m.jobs /\ n.bio = m.bio /\ n.gen = m.gen
  /\ n.seldb = m.seldb /\ n.child = "none" /\ n.rwbuf = <<>> /\ n.kid = NoKid

\* killAppendOnlyChild() and the end of a rewrite leave no child and no differences.
LEMMA NoChildIsGood ==
  ASSUME NEW m, Good(m), NEW n,
         \/ n = [m EXCEPT !.rwbuf = <<>>, !.kid = NoKid, !.child = "none"]
         \/ n = [m EXCEPT !.rwbuf = <<>>, !.kid = NoKid, !.child = "none", !.sched = TRUE]
  PROVE  Good(n) /\ Childless(m, n)
<1>1. m \in Server
  BY DEF Good
<1>2. ASSUME NEW e \in File, NEW k \in Kids,
             \/ n = [m EXCEPT !.rwbuf = e, !.kid = k, !.child = "none"]
             \/ n = [m EXCEPT !.rwbuf = e, !.kid = k, !.child = "none", !.sched = TRUE]
      PROVE  /\ n \in Server /\ n.env = m.env /\ n.up = m.up /\ n.state = m.state
             /\ n.data = m.data /\ n.buf = m.buf /\ n.bytes = m.bytes /\ n.size = m.size
             /\ n.fsoff = m.fsoff /\ n.synced = m.synced /\ n.jobs = m.jobs /\ n.bio = m.bio
             /\ n.gen = m.gen /\ n.seldb = m.seldb /\ n.child = "none" /\ n.rwbuf = e /\ n.kid = k
  <2>1. CASE n = [m EXCEPT !.rwbuf = e, !.kid = k, !.child = "none"]
    BY <1>1, <2>1, Zenon DEF Server
  <2>2. CASE n = [m EXCEPT !.rwbuf = e, !.kid = k, !.child = "none", !.sched = TRUE]
    BY <1>1, <2>2, ZenonT(60) DEF Server
  <2> QED
    BY <1>2, <2>1, <2>2
<1>3. <<>> \in File
  BY EmptySeq DEF File
<1>4. NoKid \in Kids /\ NoKid.st = "none" /\ NoKid.pipe = <<>>
  BY <1>3 DEF NoKid, Kids
<1>5. /\ n \in Server /\ n.env = m.env /\ n.up = m.up /\ n.state = m.state /\ n.data = m.data
      /\ n.buf = m.buf /\ n.bytes = m.bytes /\ n.size = m.size /\ n.fsoff = m.fsoff
      /\ n.synced = m.synced /\ n.jobs = m.jobs /\ n.bio = m.bio /\ n.gen = m.gen
      /\ n.seldb = m.seldb /\ n.child = "none" /\ n.rwbuf = <<>> /\ n.kid = NoKid
  BY <1>2, <1>3, <1>4, Zenon
<1>6. FileIsWhole(n) /\ RewriteIsWhole(n)
  BY <1>4, <1>5 DEF Good, FileIsWhole, RewriteIsWhole
<1> QED
  BY <1>5, <1>6 DEF Good, Childless

\* The new file when the child is done: nothing is left in the pipe.
LEMMA NewFileIsComplete ==
  ASSUME NEW m, Good(m), m.child = "aof", m.kid.st = "ok"
  PROVE  m.kid.file \o m.rwbuf = NewFile(m) /\ NewFile(m) \in File
<1>1. m \in Server /\ m.kid.pipe = <<>>
  BY DEF Good, RewriteIsWhole
<1>2. m.kid.file \in File /\ NewFile(m) \in File
  BY <1>1, NewFileTyped
<1>3. m.kid.file \o <<>> = m.kid.file
  BY <1>2, ConcatEmptySeq, SMTT(60) DEF File
<1> QED
  BY <1>1, <1>2, <1>3 DEF NewFile

\* rename(): the file is the new one, and what the policy fsyncs of it.
LEMMA RenamedFields ==
  ASSUME NEW m, Good(m), m.child = "aof", m.kid.st = "ok"
  PROVE  LET n == Renamed(m)
         IN  /\ n \in Server /\ n.state = m.state /\ n.data = m.data /\ n.seldb = m.seldb
             /\ n.child = m.child /\ n.kid = m.kid /\ n.rwbuf = m.rwbuf /\ n.stop = m.stop /\ n.env = m.env
             /\ n.up = m.up /\ n.buf = m.buf
             /\ n.size = m.size /\ n.fsoff = m.fsoff /\ n.bio = m.bio
             /\ n.bytes = NewFile(m) /\ n.gen = m.gen + 1
             /\ n.jobs = IF m.env.policy = "everysec" THEN Append(m.jobs, Job(n.gen)) ELSE m.jobs
             /\ m.env.policy = "always" => n.synced = Len(n.bytes)
<1> DEFINE n == Renamed(m)
           J == [gen : Nat, at : Int]
<1>1. m \in Server
  BY DEF Good
<1>2. PICK b \in File : b = m.kid.file \o m.rwbuf /\ b = NewFile(m)
  BY NewFileIsComplete, Zenon
<1>3. PICK g \in Nat : g = m.gen + 1
  BY <1>1 DEF Server
<1>4. Len(b) \in Nat /\ Len(m.kid.file) \in Nat
  BY <1>1, <1>2, NewFileTyped, LenProperties DEF File
<1>5. PICK y \in Nat : y = IF m.env.policy = "always" THEN Len(b) ELSE Len(m.kid.file)
  BY <1>4
<1>6. PICK q \in Seq(J) : q = IF m.env.policy = "everysec" THEN Append(m.jobs, Job(g)) ELSE m.jobs
  <2>1. Job(g) \in J /\ m.jobs \in Seq(J)
    BY <1>1 DEF Job, Server
  <2>2. Append(m.jobs, Job(g)) \in Seq(J)
    BY <2>1, AppendProperties
  <2> QED
    BY <2>1, <2>2, Zenon
<1>7. n = [m EXCEPT !.bytes = b, !.gen = g, !.synced = y, !.jobs = q]
  BY <1>2, <1>3, <1>5, <1>6 DEF Renamed
<1> HIDE DEF n
<1>8. /\ n \in Server /\ n.state = m.state /\ n.data = m.data /\ n.seldb = m.seldb
      /\ n.child = m.child /\ n.kid = m.kid /\ n.rwbuf = m.rwbuf /\ n.stop = m.stop /\ n.env = m.env
      /\ n.up = m.up /\ n.buf = m.buf /\ n.size = m.size /\ n.fsoff = m.fsoff /\ n.bio = m.bio
      /\ n.bytes = b /\ n.gen = g /\ n.synced = y /\ n.jobs = q
  BY <1>1, <1>7, Zenon DEF Server
<1> QED
  BY <1>2, <1>3, <1>5, <1>6, <1>8, SMTT(60) DEF n

\* The file the server writes to is the new one: its size and the offset follow.
LEMMA SwitchFields ==
  ASSUME NEW m \in Server
  PROVE  LET n == SwitchFile(m)
         IN  /\ n \in Server /\ n.state = "on" /\ n.data = m.data /\ n.seldb = -1
             /\ n.child = m.child /\ n.kid = m.kid /\ n.rwbuf = m.rwbuf /\ n.stop = m.stop /\ n.env = m.env
             /\ n.up = m.up /\ n.buf = <<>> /\ n.size = Len(m.bytes) /\ n.fsoff = Len(m.bytes)
             /\ n.bio = m.bio /\ n.bytes = m.bytes /\ n.gen = m.gen /\ n.jobs = m.jobs
             /\ n.synced = m.synced
<1>1. PICK e \in File : e = <<>>
  BY EmptySeq, Zenon DEF File
<1>2. PICK l \in Nat : l = Len(m.bytes)
  BY LenProperties DEF Server, File
<1> DEFINE n == SwitchFile(m)
<1>3. n = [m EXCEPT !.seldb = -1, !.size = l, !.fsoff = l, !.due = FALSE, !.buf = e, !.state = "on"]
  BY <1>1, <1>2 DEF SwitchFile
<1> HIDE DEF n
<1>4. n \in Server
  BY <1>3, Zenon DEF Server
<1>5. /\ n.state = "on" /\ n.data = m.data /\ n.seldb = -1
      /\ n.child = m.child /\ n.kid = m.kid /\ n.rwbuf = m.rwbuf /\ n.stop = m.stop /\ n.env = m.env
      /\ n.up = m.up /\ n.buf = e /\ n.size = l /\ n.fsoff = l
      /\ n.bio = m.bio /\ n.bytes = m.bytes /\ n.gen = m.gen /\ n.jobs = m.jobs
      /\ n.synced = m.synced
  BY <1>3 DEF Server
<1> QED
  BY <1>1, <1>2, <1>4, <1>5 DEF n

\* The end of the handler, whatever came before.
LEMMA CleanupIsGood ==
  ASSUME NEW m, Good(m)
  PROVE  LET n == Cleanup(m)
         IN  Good(n) /\ Childless(m, n)
<1> DEFINE n == Cleanup(m)
<1>1. CASE m.state = "wait_rewrite"
  <2>1. n = [m EXCEPT !.rwbuf = <<>>, !.kid = NoKid, !.child = "none", !.sched = TRUE]
    BY <1>1 DEF Cleanup
  <2> HIDE DEF n
  <2> QED
    BY <2>1, NoChildIsGood, Zenon DEF n
<1>2. CASE m.state # "wait_rewrite"
  <2>1. n = [m EXCEPT !.rwbuf = <<>>, !.kid = NoKid, !.child = "none", !.sched = @]
    BY <1>2 DEF Cleanup
  <2>2. n = [m EXCEPT !.rwbuf = <<>>, !.kid = NoKid, !.child = "none"]
    BY <2>1, Zenon DEF Good, Server
  <2> HIDE DEF n
  <2> QED
    BY <2>2, NoChildIsGood, Zenon DEF n
<1> QED
  BY <1>1, <1>2

\* The new file in place, before the child is forgotten.
LEMMA NewFileIsGood ==
  ASSUME NEW m, Good(m), m.up, m.child = "aof", m.kid.st = "ok"
  PROVE  Good(IF m.state = "off" THEN Renamed(m) ELSE SwitchFile(Renamed(m)))
<1> DEFINE r == Renamed(m)
           n == SwitchFile(r)
<1>1. /\ r \in Server /\ r.state = m.state /\ r.data = m.data /\ r.seldb = m.seldb
      /\ r.child = m.child /\ r.kid = m.kid /\ r.rwbuf = m.rwbuf /\ r.stop = m.stop
      /\ r.up = m.up /\ r.buf = m.buf /\ r.bytes = NewFile(m)
  BY RenamedFields, Zenon
<1> HIDE DEF r
<1>2. NewFile(r) = NewFile(m)
  BY <1>1 DEF NewFile
<1>3. CASE m.state = "off"
  <2>1. FileIsWhole(r) /\ RewriteIsWhole(r)
    BY <1>1, <1>3 DEF Good, FileIsWhole, RewriteIsWhole
  <2> QED
    BY <1>1, <1>3, <2>1 DEF Good, r
<1>4. CASE m.state # "off"
  <2>1. /\ n \in Server /\ n.state = "on" /\ n.data = r.data /\ n.seldb = -1
        /\ n.child = r.child /\ n.kid = r.kid /\ n.rwbuf = r.rwbuf /\ n.stop = r.stop
        /\ n.up = r.up /\ n.buf = <<>> /\ n.size = Len(r.bytes) /\ n.bytes = r.bytes
    BY <1>1, SwitchFields, Zenon
  <2> HIDE DEF n
  <2>2. Whole(NewFile(m), m.data, m.seldb) /\ NewFile(m) \in File
    BY <1>4, NewFileIsComplete, ZenonT(60) DEF Good, RewriteIsWhole
  <2>3. Whole(NewFile(m), m.data, -1)
    BY <2>2, SMTT(60) DEF Whole
  <2>4. NewFile(m) \o <<>> = NewFile(m) /\ NewFile(n) = NewFile(m)
    BY <1>1, <2>1, <2>2, ConcatEmptySeq DEF File, NewFile
  <2>5. FileIsWhole(n)
    BY <1>1, <2>1, <2>3, <2>4 DEF FileIsWhole
  <2>6. RewriteIsWhole(n)
    BY <1>1, <2>1, <2>3, <2>4 DEF Good, RewriteIsWhole
  <2> QED
    BY <1>4, <2>1, <2>5, <2>6 DEF Good, n, r
<1> QED
  BY <1>3, <1>4

\* backgroundRewriteDoneHandler() switches to a whole file or keeps the old one.
LEMMA RewriteDoneIsGood ==
  ASSUME NEW m, Good(m), m.up, m.child = "aof", m.kid.st \in {"ok", "failed"},
         NEW n \in backgroundRewriteDoneHandler(m)
  PROVE  Good(n) /\ n.up
<1>1. CASE n = Cleanup(m)
  BY <1>1, CleanupIsGood DEF Childless
<1>2. CASE n = Cleanup(Failed(m))
  <2>1. Good(Failed(m)) /\ Failed(m).up
    BY FailedIsSame, SameIsGood DEF Same, Good
  <2> QED
    BY <1>2, <2>1, CleanupIsGood, SMTT(60) DEF Childless
<1> DEFINE r == IF m.state = "off" THEN Renamed(m) ELSE SwitchFile(Renamed(m))
<1>3. CASE m.kid.st = "ok" /\ n = Cleanup(r)
  <2>1. Good(r)
    BY <1>3, NewFileIsGood, SMTT(60)
  <2>2. r.up
    BY <1>3, RenamedFields, SwitchFields
  <2> HIDE DEF r
  <2> QED
    BY <1>3, <2>1, <2>2, CleanupIsGood DEF Childless
<1> QED
  BY <1>1, <1>2, <1>3 DEF backgroundRewriteDoneHandler

\* serverCron() starts a rewrite, or not.
LEMMA StartRewriteIsGood ==
  ASSUME NEW m, Good(m), NEW n \in StartRewrite(m)
  PROVE  Good(n) /\ n.up = m.up
<1>1. CASE n = m
  BY <1>1
<1>2. CASE n = Failed(m)
  BY <1>2, FailedIsSame, SameIsGood DEF Same, Good
<1>3. CASE n = Forked(m) /\ m.child = "none"
  BY <1>3, ForkedIsGood, Zenon
<1>4. CASE n = Counted(Forked(m)) /\ m.child = "none"
  <2> DEFINE f == Forked(m)
  <2>1. Good(f) /\ f.up = m.up
    BY <1>4, ForkedIsGood, Zenon
  <2> HIDE DEF f
  <2>2. Counted(f) \in Server /\ Same(f, Counted(f))
    BY <2>1, CountedIsSame DEF Good
  <2>3. Good(Counted(f)) /\ Counted(f).up = m.up
    BY <2>1, <2>2, SameIsGood DEF Same
  <2> QED
    BY <1>4, <2>3 DEF f
<1> QED
  BY <1>1, <1>2, <1>3, <1>4 DEF StartRewrite

\* serverCron() waits for a child.
LEMMA ChildrenDoneIsGood ==
  ASSUME NEW m, Good(m), m.up, NEW n \in checkChildrenDone(m)
  PROVE  Good(n) /\ n.up
<1>1. CASE m.child = "aof" /\ m.kid.st \in {"ok", "failed"}
  BY <1>1, RewriteDoneIsGood DEF checkChildrenDone
<1>2. CASE m.child = "rdb" /\ m.kid.st = "ok"
  <2>1. n = [m EXCEPT !.child = "none", !.kid = NoKid]
    BY <1>2 DEF checkChildrenDone
  <2>2. m.rwbuf = <<>> /\ m \in Server
    BY <1>2 DEF Good, RewriteIsWhole
  <2>3. n = [m EXCEPT !.rwbuf = <<>>, !.kid = NoKid, !.child = "none"]
    BY <2>1, <2>2, Zenon DEF Server
  <2>4. \/ n = [m EXCEPT !.rwbuf = <<>>, !.kid = NoKid, !.child = "none"]
        \/ n = [m EXCEPT !.rwbuf = <<>>, !.kid = NoKid, !.child = "none", !.sched = TRUE]
    BY <2>3
  <2>5. Good(n) /\ Childless(m, n)
    BY <2>4, NoChildIsGood, Zenon
  <2> QED
    BY <2>5 DEF Childless
<1>3. CASE n = m
  BY <1>3
<1> QED
  BY <1>1, <1>2, <1>3 DEF checkChildrenDone

\* The flushes of serverCron().
LEMMA CronFlushIsGood ==
  ASSUME NEW m, Good(m)
  PROVE  /\ \A n \in FlushPostponed(m) : m.up => Good(n)
         /\ \A n \in FlushAfterError(m) : Good(n)
<1>1. ASSUME m.up, NEW n \in flushAppendOnlyFile(m, FALSE) PROVE Good(n)
  BY <1>1, FlushIsGood, Zenon
<1> QED
  BY <1>1, Zenon DEF FlushPostponed, FlushAfterError

\* n is m with another child k and another rewrite buffer r.
OnlyKid(m, n, k, r) ==
  /\ n \in Server /\ n.state = m.state /\ n.data = m.data /\ n.seldb = m.seldb
  /\ n.kid = k /\ n.rwbuf = r /\ n.env = m.env /\ n.gen = m.gen
  /\ n.up = m.up /\ n.buf = m.buf /\ n.bytes = m.bytes /\ n.size = m.size
  /\ n.fsoff = m.fsoff /\ n.synced = m.synced /\ n.jobs = m.jobs /\ n.bio = m.bio

\* What the assignments to the child and the rewrite buffer change.
LEMMA KidFields ==
  ASSUME NEW m \in Server, NEW k \in Kids, NEW r \in File
  PROVE  LET n == [m EXCEPT !.kid = k, !.rwbuf = r]
         IN  OnlyKid(m, n, k, r) /\ n.stop = m.stop /\ n.child = m.child
BY Zenon DEF Server, OnlyKid

\* The same with the end of the sending.
LEMMA KidStopFields ==
  ASSUME NEW m \in Server, NEW k \in Kids
  PROVE  LET n == [m EXCEPT !.kid = k, !.stop = TRUE]
         IN  OnlyKid(m, n, k, m.rwbuf) /\ n.stop = TRUE /\ n.child = m.child
BY Zenon DEF Server, OnlyKid

\* aofChildWriteDiffData(): a part of the buffer goes to the pipe.
LEMMA DiffSent ==
  ASSUME NEW m, Good(m), MaySend(m), NEW i \in 1..Len(m.rwbuf), NEW n,
         n = [m EXCEPT !.kid.pipe = @ \o SubSeq(m.rwbuf, 1, i),
                       !.rwbuf = SubSeq(@, i + 1, Len(@))]
  PROVE  /\ Good(n) /\ NewFile(n) = NewFile(m)
         /\ OnlyKid(m, n, n.kid, n.rwbuf) /\ n.stop = m.stop /\ n.child = m.child
         /\ n.kid.st = m.kid.st
<1> DEFINE p == SubSeq(m.rwbuf, 1, i)
           q == SubSeq(m.rwbuf, i + 1, Len(m.rwbuf))
           f == m.kid.file \o m.kid.pipe
<1>1. m \in Server /\ m.child = "aof" /\ ~m.stop /\ m.kid \in Kids
  BY DEF Good, MaySend, Server
<1>2. /\ m.kid.file \in File /\ m.kid.pipe \in File /\ m.rwbuf \in File
      /\ f \in File /\ i \in 0..Len(m.rwbuf)
  BY <1>1, NewFileTyped
<1>3. p \in File /\ q \in File /\ (f \o p) \o q = f \o m.rwbuf
  <2> HIDE DEF f
  <2> QED
    BY <1>2, Parts, ZenonT(60)
<1> HIDE DEF p, q
<1>4. m.kid.pipe \o p \in File /\ m.kid.file \o (m.kid.pipe \o p) = f \o p
  <2>1. m.kid.pipe \o p \in File
    BY <1>2, <1>3, Concatenated, Zenon
  <2>2. (m.kid.file \o m.kid.pipe) \o p = m.kid.file \o (m.kid.pipe \o p)
    BY <1>2, <1>3, Associative, ZenonT(60)
  <2> QED
    BY <2>1, <2>2
<1> DEFINE pipe == m.kid.pipe \o p
<1> HIDE DEF pipe
<1> DEFINE k == [m.kid EXCEPT !.pipe = pipe]
<1>5. k \in Kids /\ k.st = m.kid.st /\ k.file = m.kid.file /\ k.pipe = pipe
  <2>1. pipe \in File
    BY <1>4 DEF pipe
  <2>2. PICK o \in Kids : o = m.kid
    BY <1>1
  <2> QED
    BY <2>1, <2>2 DEF Kids
<1>6. n = [m EXCEPT !.kid = k, !.rwbuf = q]
  BY <1>1 DEF p, q, pipe, Server
<1> HIDE DEF k
<1>7. OnlyKid(m, n, k, q) /\ n.stop = m.stop /\ n.child = m.child
  <2>1. m \in Server /\ k \in Kids /\ q \in File
    BY <1>1, <1>3, <1>5
  <2> DEFINE o == [m EXCEPT !.kid = k, !.rwbuf = q]
  <2>2. OnlyKid(m, o, k, q) /\ o.stop = m.stop /\ o.child = m.child
    BY <2>1, KidFields, Zenon
  <2> QED
    BY <1>6, <2>2, Zenon
<1>8. NewFile(n) = NewFile(m)
  BY <1>3, <1>4, <1>5, <1>7, Zenon DEF NewFile, OnlyKid, pipe
<1>9. m.kid.st \notin {"acked", "ok"}
  BY <1>1 DEF Good, RewriteIsWhole
<1>10. FileIsWhole(n)
  BY <1>7 DEF Good, FileIsWhole, OnlyKid
<1>11. RewriteIsWhole(n)
  BY <1>1, <1>5, <1>7, <1>8, <1>9, Zenon DEF Good, RewriteIsWhole, OnlyKid
<1> QED
  BY <1>5, <1>7, <1>8, <1>10, <1>11, Zenon DEF Good, OnlyKid

\* The child asks to stop or fails, or it is a BGSAVE that ends.
LEMMA KidStateChanged ==
  ASSUME NEW m, Good(m), NEW st \in {"ok", "asked", "failed"}, NEW n, n = [m EXCEPT !.kid.st = st],
         m.child = "rdb" \/ (m.child = "aof" /\ st = "failed")
           \/ (m.child = "aof" /\ st = "asked" /\ m.kid.st = "dump")
  PROVE  /\ Good(n) /\ NewFile(n) = NewFile(m) /\ OnlyKid(m, n, n.kid, n.rwbuf)
         /\ n.child = m.child /\ n.kid.st = st
<1>1. m \in Server /\ m.kid \in Kids /\ m.rwbuf \in File
  BY DEF Good, Server
<1>2. PICK o \in Kids : o = m.kid
  BY <1>1
<1> DEFINE k == [o EXCEPT !.st = st]
<1>3. k \in Kids /\ k.st = st /\ k.file = m.kid.file /\ k.pipe = m.kid.pipe
  BY <1>2 DEF Kids
<1>4. n = [m EXCEPT !.kid = k]
  BY <1>1, <1>2 DEF Server
<1> HIDE DEF k
<1>5. OnlyKid(m, n, k, m.rwbuf) /\ n.stop = m.stop /\ n.child = m.child
  BY <1>1, <1>3, <1>4, ZenonT(60) DEF Server, OnlyKid
<1>6. NewFile(n) = NewFile(m)
  BY <1>3, <1>5, Zenon DEF NewFile, OnlyKid
<1>7. FileIsWhole(n)
  BY <1>5 DEF Good, FileIsWhole, OnlyKid
<1>8. RewriteIsWhole(n)
  BY <1>3, <1>5, <1>6 DEF Good, RewriteIsWhole, OnlyKid
<1> QED
  BY <1>3, <1>5, <1>6, <1>7, <1>8 DEF Good, OnlyKid

\* aofChildPipeReadable(): the parent stops sending and says so.
LEMMA StopAcknowledged ==
  ASSUME NEW m, Good(m), m.child = "aof", m.kid.st = "asked", NEW n,
         n = [m EXCEPT !.stop = TRUE, !.kid.st = "acked"]
  PROVE  /\ Good(n) /\ NewFile(n) = NewFile(m) /\ OnlyKid(m, n, n.kid, n.rwbuf)
         /\ n.child = m.child /\ n.kid.st = "acked"
<1>1. m \in Server /\ m.kid \in Kids /\ m.rwbuf \in File
  BY DEF Good, Server
<1>2. PICK o \in Kids : o = m.kid
  BY <1>1
<1> DEFINE k == [o EXCEPT !.st = "acked"]
<1>3. k \in Kids /\ k.st = "acked" /\ k.file = m.kid.file /\ k.pipe = m.kid.pipe
  BY <1>2 DEF Kids
<1>4. n = [m EXCEPT !.kid = k, !.stop = TRUE]
  BY <1>1, <1>2, Zenon DEF Server
<1> HIDE DEF k
<1>5. OnlyKid(m, n, k, m.rwbuf) /\ n.stop = TRUE /\ n.child = m.child
  BY <1>1, <1>3, <1>4, KidStopFields, ZenonT(60)
<1>6. NewFile(n) = NewFile(m)
  BY <1>3, <1>5, Zenon DEF NewFile, OnlyKid
<1>7. FileIsWhole(n)
  BY <1>5 DEF Good, FileIsWhole, OnlyKid
<1>8. RewriteIsWhole(n)
  BY <1>3, <1>5, <1>6 DEF Good, RewriteIsWhole, OnlyKid
<1> QED
  BY <1>3, <1>5, <1>6, <1>7, <1>8 DEF Good, OnlyKid

\* The child reads what is left in the pipe and finishes its file.
LEMMA ChildFinished ==
  ASSUME NEW m, Good(m), m.child = "aof", m.kid.st = "acked", NEW n,
         n = [m EXCEPT !.kid = [st |-> "ok", file |-> @.file \o @.pipe, pipe |-> <<>>]]
  PROVE  /\ Good(n) /\ NewFile(n) = NewFile(m) /\ OnlyKid(m, n, n.kid, n.rwbuf)
         /\ n.child = m.child /\ n.kid.st = "ok"
<1> DEFINE f == m.kid.file \o m.kid.pipe
<1>1. m \in Server /\ m.kid \in Kids /\ m.rwbuf \in File /\ f \in File /\ <<>> \in File
  BY NewFileTyped, EmptySeq DEF Good, Server, File
<1>2. PICK e \in File : e = <<>>
  BY <1>1
<1> HIDE DEF f
<1> DEFINE k == [st |-> "ok", file |-> f, pipe |-> e]
<1>3. k \in Kids /\ k.st = "ok" /\ k.file = f /\ k.pipe = e
  BY <1>1, <1>2 DEF Kids
<1>4. n = [m EXCEPT !.kid = k]
  BY <1>2 DEF f
<1> HIDE DEF k
<1>5. OnlyKid(m, n, k, m.rwbuf) /\ n.stop = m.stop /\ n.child = m.child
  BY <1>1, <1>3, <1>4, ZenonT(60) DEF OnlyKid, Server
<1>6. f \o e = f
  BY <1>1, <1>2, ConcatEmptySeq DEF File
<1>7. NewFile(n) = NewFile(m)
  BY <1>3, <1>5, <1>6, Zenon DEF NewFile, OnlyKid, f
<1>8. FileIsWhole(n)
  BY <1>5 DEF Good, FileIsWhole, OnlyKid
<1>9. RewriteIsWhole(n)
  BY <1>2, <1>3, <1>5, <1>7 DEF Good, RewriteIsWhole, OnlyKid
<1> QED
  BY <1>3, <1>5, <1>7, <1>8, <1>9 DEF Good, OnlyKid

\* BGSAVE: its child has nothing to do with the AOF.
LEMMA BgsaveStarted ==
  ASSUME NEW m, Good(m), m.child = "none", NEW n,
         n = [m EXCEPT !.child = "rdb", !.kid.st = "dump", !.forks = @ + 1]
  PROVE  /\ Good(n) /\ OnlyKid(m, n, n.kid, n.rwbuf) /\ n.child = "rdb" /\ NewFile(n) = NewFile(m)
<1>1. m \in Server /\ m.kid \in Kids /\ m.rwbuf \in File
  BY DEF Good, Server
<1>2. PICK o \in Kids : o = m.kid
  BY <1>1
<1> DEFINE k == [o EXCEPT !.st = "dump"]
<1>3. k \in Kids /\ k.st = "dump" /\ k.file = m.kid.file /\ k.pipe = m.kid.pipe
  BY <1>2 DEF Kids
<1> DEFINE b == [m EXCEPT !.kid = k, !.child = "rdb"]
<1>4. n = Counted(b)
  BY <1>1, <1>2, Zenon DEF Counted, Server
<1> HIDE DEF k
<1>9. OnlyKid(m, b, k, m.rwbuf) /\ b.child = "rdb"
  BY <1>1, <1>3, Zenon DEF OnlyKid, Server
<1> HIDE DEF b
<1>5. n \in Server /\ Same(b, n)
  BY <1>4, <1>9, CountedIsSame DEF OnlyKid
<1>6. OnlyKid(m, n, k, m.rwbuf) /\ n.child = "rdb"
  BY <1>5, <1>9 DEF OnlyKid, Same, Kept
<1>7. FileIsWhole(n) /\ RewriteIsWhole(n)
  BY <1>6 DEF Good, FileIsWhole, RewriteIsWhole, OnlyKid
<1> QED
  BY <1>3, <1>6, <1>7, Zenon DEF Good, OnlyKid, NewFile

\* n is m, which had no child that writes an AOF or has lost it.
Killed(m, n) ==
  /\ n.env = m.env /\ n.up = m.up /\ n.state = m.state /\ n.data = m.data
  /\ n.buf = m.buf /\ n.bytes = m.bytes /\ n.size = m.size /\ n.fsoff = m.fsoff
  /\ n.synced = m.synced /\ n.jobs = m.jobs /\ n.bio = m.bio /\ n.gen = m.gen
  /\ n.seldb = m.seldb /\ n.child # "aof"

\* killAppendOnlyChild(): no child is left that writes an AOF.
LEMMA KilledIsGood ==
  ASSUME NEW m, Good(m)
  PROVE  Good(killAppendOnlyChild(m)) /\ Killed(m, killAppendOnlyChild(m))
<1> DEFINE n == killAppendOnlyChild(m)
<1>1. CASE m.child = "aof"
  <2>1. \/ n = [m EXCEPT !.rwbuf = <<>>, !.kid = NoKid, !.child = "none"]
        \/ n = [m EXCEPT !.rwbuf = <<>>, !.kid = NoKid, !.child = "none", !.sched = TRUE]
    BY <1>1 DEF killAppendOnlyChild
  <2> HIDE DEF n
  <2>2. Good(n) /\ Childless(m, n)
    BY <2>1, NoChildIsGood, Zenon
  <2> QED
    BY <2>2 DEF Childless, Killed, n
<1>2. CASE m.child # "aof"
  BY <1>2 DEF killAppendOnlyChild, Killed
<1> QED
  BY <1>1, <1>2

\* The AOF is off: nothing is promised of the file.
LEMMA StoppedIsGood ==
  ASSUME NEW m, Good(m), m.child # "aof", NEW y \in Nat, NEW o \in Nat
  PROVE  LET n == [m EXCEPT !.state = "off", !.sched = FALSE, !.buf = <<>>, !.seldb = -1,
                            !.synced = y, !.fsoff = o]
         IN  /\ Good(n) /\ n.up = m.up /\ n.state = "off" /\ n.bytes = m.bytes /\ n.synced = y
             /\ n.env = m.env /\ n.data = m.data /\ n.child = m.child /\ n.buf = <<>>
             /\ n.jobs = m.jobs /\ n.kid = m.kid /\ n.rwbuf = m.rwbuf
<1> DEFINE n == [m EXCEPT !.state = "off", !.sched = FALSE, !.buf = <<>>, !.seldb = -1,
                          !.synced = y, !.fsoff = o]
<1>1. m \in Server
  BY DEF Good
<1>2. PICK e \in File : e = <<>>
  BY EmptySeq, Zenon DEF File
<1>3. n = [m EXCEPT !.state = "off", !.sched = FALSE, !.buf = e, !.seldb = -1, !.synced = y, !.fsoff = o]
  BY <1>2
<1> HIDE DEF n
<1>4. n \in Server
  BY <1>1, <1>3, ZenonT(60) DEF Server
<1>5. /\ n.state = "off" /\ n.buf = e /\ n.child = m.child /\ n.rwbuf = m.rwbuf /\ n.up = m.up
      /\ n.bytes = m.bytes /\ n.synced = y /\ n.env = m.env /\ n.data = m.data /\ n.jobs = m.jobs
      /\ n.kid = m.kid
  BY <1>1, <1>3 DEF Server
<1>6. FileIsWhole(n) /\ RewriteIsWhole(n)
  BY <1>2, <1>5 DEF Good, FileIsWhole, RewriteIsWhole
<1> QED
  BY <1>2, <1>4, <1>5, <1>6 DEF Good, n

\* The AOF is on again as soon as the first rewrite is done.
LEMMA StartedIsGood ==
  ASSUME NEW m, Good(m), m.state = "off",
         m.child = "aof" /\ m.kid.st # "failed" => Whole(NewFile(m), m.data, m.seldb),
         NEW n,
         n = [m EXCEPT !.state = "wait_rewrite", !.due = FALSE, !.bio = "ok", !.status = "ok"]
  PROVE  /\ Good(n) /\ n.up = m.up /\ n.state = "wait_rewrite" /\ n.bytes = m.bytes
         /\ n.synced = m.synced /\ n.env = m.env /\ n.data = m.data /\ n.child = m.child
         /\ n.kid = m.kid /\ n.rwbuf = m.rwbuf /\ n.buf = <<>> /\ n.jobs = m.jobs
<1>1. m \in Server /\ m.buf = <<>>
  BY DEF Good, FileIsWhole
<1>2. n \in Server
  BY <1>1, ZenonT(60) DEF Server
<1>3. /\ n.state = "wait_rewrite" /\ n.buf = m.buf /\ n.child = m.child /\ n.rwbuf = m.rwbuf
      /\ n.up = m.up /\ n.bytes = m.bytes /\ n.synced = m.synced /\ n.env = m.env
      /\ n.data = m.data /\ n.jobs = m.jobs /\ n.kid = m.kid /\ n.seldb = m.seldb /\ n.stop = m.stop
  BY <1>1 DEF Server
<1>4. FileIsWhole(n)
  BY <1>1, <1>3 DEF FileIsWhole
<1>5. RewriteIsWhole(n)
  BY <1>3 DEF Good, RewriteIsWhole, NewFile
<1> QED
  BY <1>1, <1>2, <1>3, <1>4, <1>5 DEF Good

\* The part of a file that ends with its last complete command.
LEMMA ValidPart ==
  ASSUME NEW b \in File, WellFormed(b)
  PROVE  LET v == SubSeq(b, 1, 2 * (Len(b) \div 2))
         IN  /\ v \in File /\ Len(v) = 2 * (Len(b) \div 2) /\ WellFormed(v)
             /\ Replay(v) \in Data /\ Whole(v \o <<>>, Replay(v), -1)
<1> DEFINE n == 2 * (Len(b) \div 2)
           v == SubSeq(b, 1, n)
<1>1. Len(b) \in Nat /\ n \in 0..Len(b) /\ n % 2 = 0
  BY LenProperties DEF File
<1> HIDE DEF n
<1>2. \A i \in 1..Len(b) : b[i] \in Unit
  BY ElementOfSeq DEF File
<1>3. /\ v \in Seq(Unit) /\ Len(v) = n /\ \A i \in 1..n : v[i] = b[i]
  <2>1. \A i \in 1..n : b[i] \in Unit
    BY <1>1, <1>2
  <2>2. 1 \in Int /\ n \in Int /\ (IF 1 <= n THEN n - 1 + 1 ELSE 0) = n /\ n - 1 + 1 = n
    BY <1>1
  <2>3. /\ v \in Seq(Unit) /\ Len(v) = IF 1 <= n THEN n - 1 + 1 ELSE 0
        /\ \A i \in 1..n - 1 + 1 : v[i] = b[1 + i - 1]
    BY <2>1, <2>2, SubSeqProperties
  <2>4. \A i \in 1..n : 1 + i - 1 = i
    BY <1>1
  <2> HIDE DEF v
  <2> QED
    BY <2>2, <2>3, <2>4
<1> HIDE DEF v
<1>4. WellFormed(v)
  <2>1. ASSUME NEW i \in 1..Len(v)
        PROVE  v[i][2] = i % 2 /\ (i % 2 = 0 => v[i][1] = v[i - 1][1])
    <3>1. i \in 1..Len(b) /\ i \in 1..n /\ v[i] = b[i]
      BY <1>1, <1>3
    <3>2. b[i][2] = i % 2 /\ (i % 2 = 0 => b[i][1] = b[i - 1][1])
      BY <3>1 DEF WellFormed
    <3>3. i % 2 = 0 => i - 1 \in 1..n
      BY <1>1, <3>1
    <3>4. i % 2 = 0 => v[i - 1] = b[i - 1]
      BY <1>3, <3>3
    <3> QED
      BY <3>1, <3>2, <3>4
  <2> QED
    BY <2>1 DEF WellFormed
<1>5. v \o <<>> = v
  BY <1>3, ConcatEmptySeq
<1>6. Commands(v) \in Seq(AnyCmd)
  BY <1>3, CommandsTyped DEF File
<1>7. Replay(v) \in Data
  BY <1>6, RunIsTyped DEF Replay, Fake
<1>8. Whole(v \o <<>>, Replay(v), -1)
  BY <1>1, <1>3, <1>4, <1>5 DEF Whole
<1> QED
  BY <1>3, <1>4, <1>7, <1>8 DEF File, n, v

\* loadAppendOnlyFile(): the file is whole, the process new.
LEMMA LoadedIsGood ==
  ASSUME NEW old, old.env \in Environment, old.synced \in Nat, old.gen \in Nat,
         old.forks \in Nat, old.faults \in Nat, NEW b \in File, WellFormed(b)
  PROVE  Good(Loaded(old, b))
<1> DEFINE n == Loaded(old, b)
<1>1. PICK v \in File : /\ v = SubSeq(b, 1, 2 * (Len(b) \div 2)) /\ Replay(v) \in Data
                        /\ Whole(v \o <<>>, Replay(v), -1)
  BY ValidPart, Zenon
<1>2. PICK l \in Nat : l = Len(v)
  BY <1>1, LenProperties DEF File
<1>3. PICK y \in Nat : y = IF old.synced > l THEN l ELSE old.synced
  BY <1>2
<1>4. PICK dt \in Data : dt = Replay(v)
  BY <1>1
<1>5. PICK e \in File : e = <<>>
  BY EmptySeq, Zenon DEF File
<1>6. PICK k \in Kids : k = NoKid
  BY <1>5, Zenon DEF Kids, NoKid
<1>7. PICK q \in Seq([gen : Nat, at : Int]) : q = <<>>
  BY EmptySeq, ZenonT(60)
<1>8. n = [up |-> TRUE, state |-> "on", data |-> dt, buf |-> e, seldb |-> -1,
           size |-> l, fsoff |-> l, postponed |-> 0, due |-> FALSE,
           status |-> "ok", bio |-> "ok", jobs |-> q, sched |-> FALSE,
           child |-> "none", kid |-> k, rwbuf |-> e, stop |-> FALSE,
           bytes |-> v, synced |-> y, env |-> old.env, gen |-> old.gen,
           forks |-> old.forks, faults |-> old.faults]
  BY <1>1, <1>2, <1>3, <1>4, <1>5, <1>6, <1>7, SMTT(60) DEF Loaded
<1> HIDE DEF n
<1>9. n \in Server
  BY <1>8, SMTT(60) DEF Server
<1>10. /\ n.up /\ n.state = "on" /\ n.data = dt /\ n.buf = e /\ n.seldb = -1 /\ n.size = l
       /\ n.child = "none" /\ n.rwbuf = e /\ n.bytes = v
  BY <1>8
<1>11. FileIsWhole(n) /\ RewriteIsWhole(n)
  BY <1>1, <1>2, <1>4, <1>5, <1>10, SMTT(60) DEF FileIsWhole, RewriteIsWhole
<1> QED
  BY <1>9, <1>11 DEF Good, n

\* The process ends.
LEMMA ExitIsGood ==
  ASSUME NEW m, Good(m)
  PROVE  Good(Exit(m)) /\ Exit(m) \in Server /\ ~Exit(m).up
<1>1. m \in Server
  BY DEF Good
<1>2. Exit(m) \in Server /\ Kept(m, Exit(m)) /\ Exit(m).buf = m.buf /\ ~Exit(m).up
  BY <1>1, Zenon DEF Exit, Server, Kept
<1> QED
  BY <1>2, DownIsGood

\* A failure is counted.
LEMMA FailedIsGood ==
  ASSUME NEW m, Good(m)
  PROVE  Good(Failed(m)) /\ Same(m, Failed(m))
BY FailedIsSame, SameIsGood DEF Same, Good

\* CONFIG SET appendonly no
LEMMA StopIsGood ==
  ASSUME Good(s), stopAppendOnly
  PROVE  Good(s')
<1> DEFINE f == Failed(s)
<1>1. Good(f) /\ f.up
  BY FailedIsGood DEF Same, stopAppendOnly
<1>2. PICK m \in flushAppendOnlyFile(f, TRUE) :
        s' = IF ~m.up THEN m
             ELSE [killAppendOnlyChild(m) EXCEPT !.state = "off", !.sched = FALSE,
                      !.buf = <<>>, !.seldb = -1, !.synced = Len(m.bytes), !.fsoff = m.size]
  BY Zenon DEF stopAppendOnly
<1> HIDE DEF f
<1>3. Good(m)
  BY <1>1, <1>2, FlushIsGood, Zenon
<1>4. CASE ~m.up
  BY <1>2, <1>3, <1>4
<1>5. CASE m.up
  <2> DEFINE k == killAppendOnlyChild(m)
  <2>1. Good(k) /\ k.child # "aof"
    BY <1>3, KilledIsGood, SMTT(60) DEF Killed
  <2>2. Len(m.bytes) \in Nat /\ m.size \in Nat
    BY <1>3, LenProperties DEF Good, Server, File
  <2> HIDE DEF k
  <2>3. s' = [k EXCEPT !.state = "off", !.sched = FALSE, !.buf = <<>>, !.seldb = -1,
                       !.synced = Len(m.bytes), !.fsoff = m.size]
    BY <1>2, <1>5 DEF k
  <2> QED
    BY <2>1, <2>2, <2>3, StoppedIsGood, Zenon
<1> QED
  BY <1>4, <1>5

\* CONFIG SET appendonly yes
LEMMA StartIsGood ==
  ASSUME Good(s), startAppendOnly
  PROVE  Good(s')
<1> DEFINE m == Failed(s)
           k == killAppendOnlyChild(m)
           w == IF m.child = "rdb" THEN [m EXCEPT !.sched = TRUE] ELSE Forked(k)
<1>1. Good(m) /\ m.state = "off"
  BY FailedIsGood DEF Same, Kept, startAppendOnly
<1>2. s' = [w EXCEPT !.state = "wait_rewrite", !.due = FALSE, !.bio = "ok", !.status = "ok"]
  BY DEF startAppendOnly
<1> HIDE DEF m
<1>3. /\ Good(w) /\ w.state = "off"
      /\ w.child = "aof" /\ w.kid.st # "failed" => Whole(NewFile(w), w.data, w.seldb)
  <2>1. CASE m.child = "rdb"
    <3> DEFINE u == [m EXCEPT !.sched = TRUE]
    <3>1. u \in Server /\ Same(m, u)
      BY <1>1, Zenon DEF Good, Server, Same, Kept
    <3> HIDE DEF u
    <3>2. Good(u) /\ u.state = "off" /\ u.child = "rdb"
      BY <1>1, <2>1, <3>1, SameIsGood DEF Same, Kept
    <3>3. w = u
      BY <2>1 DEF u
    <3> HIDE DEF w
    <3> QED
      BY <3>2, <3>3
  <2>2. CASE m.child # "rdb"
    <3>1. Good(k) /\ k.child # "aof" /\ k.state = "off"
      BY <1>1, KilledIsGood DEF Killed
    <3> HIDE DEF k
    <3> DEFINE u == Forked(k)
    <3>2. Good(u) /\ u.state = "off" /\ u.data = k.data /\ u.seldb = -1
      BY <3>1, ForkedIsGood, Zenon
    <3>3. NewFile(u) = Bytes(<<Preamble(k.data)>>)
      BY <3>1, ForkedIsGood, SMTT(60)
    <3>4. k.data \in Data
      BY <3>1 DEF Good, Server
    <3> HIDE DEF u
    <3>5. Whole(NewFile(u), u.data, u.seldb)
      BY <3>2, <3>3, <3>4, PreambleIsWhole
    <3>6. w = u
      BY <2>2 DEF u
    <3> HIDE DEF w
    <3> QED
      BY <3>2, <3>5, <3>6
  <2> QED
    BY <2>1, <2>2
<1> HIDE DEF w
<1> QED
  BY <1>2, <1>3, StartedIsGood, Zenon

\* SHUTDOWN
LEMMA ShutdownIsGood ==
  ASSUME Good(s), prepareForShutdown
  PROVE  Good(s')
<1> DEFINE f == killAppendOnlyChild(Failed(s))
<1>1. Good(f) /\ f.up
  <2>1. Good(Failed(s)) /\ Failed(s).up
    BY FailedIsGood DEF Same, prepareForShutdown
  <2> QED
    BY <2>1, KilledIsGood DEF Killed
<1>2. PICK m \in flushAppendOnlyFile(f, TRUE) :
        s' = IF m.up THEN Exit([m EXCEPT !.synced = Len(m.bytes)]) ELSE m
  BY Zenon DEF prepareForShutdown
<1> HIDE DEF f
<1>3. Good(m)
  BY <1>1, <1>2, FlushIsGood, Zenon
<1>4. PICK l \in Nat : l = Len(m.bytes)
  BY <1>3, LenProperties, Zenon DEF Good, Server, File
<1> DEFINE y == [m EXCEPT !.synced = l]
<1>5. Good(y)
  <2>1. m \in Server
    BY <1>3 DEF Good
  <2>2. y \in Server /\ Kept(m, y) /\ y.bytes = m.bytes /\ y.buf = m.buf /\ y.size = m.size /\ y.up = m.up
    BY <2>1, Zenon DEF Server, Kept
  <2> HIDE DEF y
  <2> QED
    BY <1>3, <2>2, SameIsGood
<1>6. s' = m \/ s' = Exit(y)
  BY <1>2, <1>4
<1> HIDE DEF y
<1> QED
  BY <1>3, <1>5, <1>6, ExitIsGood

\* The machine stops.
LEMMA PowerLossIsGood ==
  ASSUME Good(s), PowerLoss
  PROVE  Good(s')
<1> DEFINE f == Exit(Failed(s))
<1>1. Good(f) /\ f \in Server /\ ~f.up /\ f.bytes = s.bytes
  <2>1. Good(Failed(s)) /\ Same(s, Failed(s)) /\ Failed(s) \in Server
    BY FailedIsGood DEF Good
  <2>2. f.bytes = Failed(s).bytes
    BY <2>1 DEF Exit, Server
  <2> QED
    BY <2>1, <2>2, ExitIsGood DEF Same
<1>2. PICK n \in s.synced..Len(s.bytes) : s' = [f EXCEPT !.bytes = SubSeq(@, 1, n), !.synced = n]
  BY Zenon DEF PowerLoss
<1> HIDE DEF f
<1>3. s.bytes \in File /\ n \in Nat /\ n \in 0..Len(s.bytes)
  BY LenProperties DEF Good, Server, File
<1>4. PICK b \in File : b = SubSeq(s.bytes, 1, n)
  BY <1>3, Parts, Zenon
<1>5. s' = [f EXCEPT !.bytes = b, !.synced = n]
  BY <1>1, <1>2, <1>4
<1>6. s' \in Server /\ Kept(f, s') /\ s'.buf = f.buf /\ ~s'.up
  BY <1>1, <1>3, <1>5, Zenon DEF Server, Kept
<1> QED
  BY <1>1, <1>6, DownIsGood

Jobs == Seq([gen : Nat, at : Int])

\* The bio thread takes a job: the fsync covers what is in the file now.
LEMMA BioStarts ==
  ASSUME NEW m \in Server, m.jobs # <<>>
  PROVE  LET n == [m EXCEPT !.jobs[1].at = Len(m.bytes)]
         IN  \E q \in Jobs :
                /\ n = [m EXCEPT !.jobs = q] /\ Len(q) = Len(m.jobs)
                /\ \A i \in 1..Len(q) : q[i].gen = m.jobs[i].gen
                /\ q[1].at = Len(m.bytes) /\ \A i \in 2..Len(q) : q[i] = m.jobs[i]
<1> DEFINE J == [gen : Nat, at : Int]
           l == Len(m.bytes)
<1>1. m.jobs \in Seq(J) /\ l \in Nat /\ Len(m.jobs) \in Nat /\ Len(m.jobs) # 0
  <2>1. m.jobs \in Seq(J) /\ m.bytes \in Seq(Unit)
    BY DEF Server, File
  <2>2. l \in Nat
    BY <2>1, LenProperties
  <2>3. Len(m.jobs) \in Nat
    BY <2>1, LenProperties
  <2>4. Len(m.jobs) # 0
    BY <2>1, EmptySeq
  <2> QED
    BY <2>1, <2>2, <2>3, <2>4
<1>2. m.jobs[1] \in J
  <2> HIDE DEF J, l
  <2>1. 1 \in 1..Len(m.jobs)
    BY <1>1
  <2> QED
    BY <1>1, <2>1, ElementOfSeq
<1> HIDE DEF l
<1> DEFINE j == [m.jobs[1] EXCEPT !.at = l]
           q == [m.jobs EXCEPT ![1] = j]
<1>3. j \in J /\ j.gen = m.jobs[1].gen /\ j.at = l
  <2>1. PICK o \in J : o = m.jobs[1]
    BY <1>2
  <2> QED
    BY <1>1, <2>1
<1> HIDE DEF J
<1>4. /\ q \in Seq(J) /\ Len(q) = Len(m.jobs)
      /\ \A i \in 1..Len(m.jobs) : q[i] = IF i = 1 THEN j ELSE m.jobs[i]
  <2> HIDE DEF j
  <2> QED
    BY <1>1, <1>3, ExceptSeq
<1>5. [m EXCEPT !.jobs[1].at = l] = [m EXCEPT !.jobs = q]
  BY DEF Server
<1> HIDE DEF q, j
<1>6. /\ \A i \in 1..Len(q) : q[i].gen = m.jobs[i].gen
      /\ q[1].at = l /\ \A i \in 2..Len(q) : q[i] = m.jobs[i]
  BY <1>1, <1>3, <1>4
<1> QED
  BY <1>4, <1>5, <1>6, Zenon DEF Jobs, J, l

\* The bio thread disturbs neither file.
LEMMA BioIsGood ==
  ASSUME Good(s), BioStart \/ BioFinish
  PROVE  Good(s')
<1>1. s \in Server
  BY DEF Good
<1>2. CASE BioStart
  <2>1. PICK q \in Jobs : s' = [s EXCEPT !.jobs = q]
    BY <1>1, <1>2, BioStarts, Zenon DEF BioStart
  <2>2. s' \in Server /\ Kept(s, s') /\ s'.bytes = s.bytes /\ s'.buf = s.buf /\ s'.size = s.size /\ s'.up = s.up
    BY <1>1, <2>1, ZenonT(60) DEF Server, Kept, Jobs
  <2> QED
    BY <2>2, SameIsGood
<1>3. CASE BioFinish
  <2> DEFINE J == [gen : Nat, at : Int]
  <2>1. s.jobs \in Seq(J) /\ s.jobs # <<>>
    BY <1>1, <1>3 DEF Server, BioFinish
  <2>2. Tail(s.jobs) \in Jobs /\ Head(s.jobs) \in J
    BY <2>1, HeadTailProperties, Zenon DEF Jobs
  <2>3. PICK q \in Jobs : q = Tail(s.jobs)
    BY <2>2, Zenon
  <2>4. PICK a : a \in Int /\ a = Head(s.jobs).at
    BY <2>2
  <2>5. CASE \E y \in Nat : s' = [s EXCEPT !.jobs = q, !.bio = "ok", !.synced = y]
    <3>1. PICK y \in Nat : s' = [s EXCEPT !.jobs = q, !.bio = "ok", !.synced = y]
      BY <2>5, Zenon
    <3>2. s' \in Server /\ Kept(s, s') /\ s'.bytes = s.bytes /\ s'.buf = s.buf /\ s'.size = s.size /\ s'.up = s.up
      BY <1>1, <2>3, <3>1, Zenon DEF Server, Kept, Jobs
    <3> QED
      BY <3>2, SameIsGood
  <2>6. CASE s' = [Failed(s) EXCEPT !.jobs = Tail(@), !.bio = "err"]
    <3> DEFINE f == Failed(s)
    <3>1. f \in Server /\ Good(f) /\ f.jobs = s.jobs
      BY FailedIsGood DEF Same, Good
    <3> HIDE DEF f
    <3>2. s' = [f EXCEPT !.jobs = q, !.bio = "err"]
      BY <2>3, <2>6, <3>1 DEF f
    <3>3. s' \in Server /\ Kept(f, s') /\ s'.bytes = f.bytes /\ s'.buf = f.buf /\ s'.size = f.size /\ s'.up = f.up
      BY <2>3, <3>1, <3>2, ZenonT(60) DEF Server, Kept, Jobs
    <3> QED
      BY <3>1, <3>3, SameIsGood
  <2> DEFINE hit == s.state # "off" /\ Head(s.jobs).gen = s.gen /\ Head(s.jobs).at > s.synced
  <2>7. \/ s' = [s EXCEPT !.jobs = Tail(@), !.bio = "ok", !.synced = IF hit THEN Head(s.jobs).at ELSE @]
        \/ s' = [Failed(s) EXCEPT !.jobs = Tail(@), !.bio = "err"]
    BY <1>3 DEF BioFinish
  <2>8. CASE s' = [s EXCEPT !.jobs = Tail(@), !.bio = "ok", !.synced = IF hit THEN Head(s.jobs).at ELSE @]
    <3>1. PICK y \in Nat : y = IF hit THEN a ELSE s.synced
      BY <1>1, <2>4, SMTT(60) DEF Server
    <3>2. s' = [s EXCEPT !.jobs = q, !.bio = "ok", !.synced = y]
      BY <2>3, <2>4, <2>8, <3>1
    <3> QED
      BY <2>5, <3>2, Zenon
  <2> QED
    BY <2>6, <2>7, <2>8
<1> QED
  BY <1>2, <1>3

\* Time passes.
LEMMA TickIsGood ==
  ASSUME Good(s), Tick
  PROVE  Good(s') /\ Same(s, s')
<1>1. s \in Server
  BY DEF Good
<1>2. PICK p \in 0..2 : s' = [s EXCEPT !.due = TRUE, !.postponed = p]
  <2>1. s.postponed \in 0..2 /\ 2 \in 0..2
    BY <1>1 DEF Server
  <2> QED
    BY <2>1, Zenon DEF Tick
<1>3. s' \in Server /\ Same(s, s')
  BY <1>1, <1>2, Zenon DEF Server, Same, Kept
<1> QED
  BY <1>3, SameIsGood DEF Same

\* A write command, read from a client alone or together with its writable event.
LEMMA CommandIsGood ==
  ASSUME Good(s), written \in Nat, NEW c \in Client, Readable(c) \/ ReadableAndWritable(c)
  PROVE  Good(s') /\ written' \in Nat
<1>1. s.env.dbs \subseteq Db
  BY DEF Good, Server, Environment
<1>2. s.up /\ written' = written + 1 /\ \E d \in s.env.dbs : s' = Call(s, d, written + 1)
  BY DEF Readable, ReadableAndWritable
<1>3. PICK d \in Db : s' = Call(s, d, written + 1)
  BY <1>1, <1>2
<1>4. written + 1 \in Nat
  OBVIOUS
<1> QED
  BY <1>2, <1>3, <1>4, CallIsGood

\* beforeSleep() flushes the buffer.
LEMMA BeforeSleepIsGood ==
  ASSUME Good(s), beforeSleep
  PROVE  Good(s')
<1>1. s.up /\ s' \in IF s.state = "on" THEN flushAppendOnlyFile(s, FALSE) ELSE {s}
  BY Zenon DEF beforeSleep
<1> QED
  BY <1>1, FlushIsGood, Zenon

\* serverCron() starts and ends rewrites and flushes the buffer.
LEMMA CronIsGood ==
  ASSUME Good(s), NEW second \in BOOLEAN, serverCron(second)
  PROVE  Good(s')
<1>1. PICK m1 \in StartRewrite(s) : \E m2 \in checkChildrenDone(m1) :
         \E m3 \in FlushPostponed(m2) : s' \in IF second THEN FlushAfterError(m3) ELSE {m3}
  BY DEF serverCron
<1>2. Good(m1) /\ m1.up
  BY <1>1, StartRewriteIsGood DEF serverCron
<1>3. PICK m2 \in checkChildrenDone(m1) :
         \E m3 \in FlushPostponed(m2) : s' \in IF second THEN FlushAfterError(m3) ELSE {m3}
  BY <1>1
<1>4. Good(m2) /\ m2.up
  BY <1>2, <1>3, ChildrenDoneIsGood
<1>5. PICK m3 \in FlushPostponed(m2) : s' \in IF second THEN FlushAfterError(m3) ELSE {m3}
  BY <1>3
<1>6. Good(m3)
  BY <1>4, <1>5, CronFlushIsGood
<1> QED
  BY <1>5, <1>6, CronFlushIsGood

\* The steps of the children and of the parent's ends of their pipes.
LEMMA ChildStepIsGood ==
  ASSUME Good(s),
         \/ aofChildWriteDiffData \/ aofChildPipeReadable \/ ChildAsksToStop \/ ChildFinishes
         \/ ChildFails \/ Bgsave \/ BgsaveEnds
  PROVE  Good(s')
<1>1. CASE aofChildWriteDiffData
  BY <1>1, DiffSent, Zenon DEF aofChildWriteDiffData
<1>2. CASE aofChildPipeReadable
  BY <1>2, StopAcknowledged, Zenon DEF aofChildPipeReadable
<1>3. CASE ChildAsksToStop
  BY <1>3, KidStateChanged DEF ChildAsksToStop
<1>4. CASE ChildFinishes
  BY <1>4, ChildFinished, Zenon DEF ChildFinishes
<1>5. CASE ChildFails
  <2> DEFINE f == Failed(s)
  <2>1. Good(f) /\ f.child = "aof"
    BY <1>5, FailedIsGood DEF Same, Kept, ChildFails
  <2>2. s' = [f EXCEPT !.kid.st = "failed"]
    BY <1>5 DEF ChildFails
  <2> HIDE DEF f
  <2> QED
    BY <2>1, <2>2, KidStateChanged
<1>6. CASE Bgsave
  BY <1>6, BgsaveStarted, Zenon DEF Bgsave
<1>7. CASE BgsaveEnds
  BY <1>7, KidStateChanged DEF BgsaveEnds
<1> QED
  BY <1>1, <1>2, <1>3, <1>4, <1>5, <1>6, <1>7, SMTT(60)

\* BGREWRITEAOF forks a child, or schedules one after the one that saves.
LEMMA RewriteCommandIsGood ==
  ASSUME Good(s), bgrewriteaofCommand
  PROVE  Good(s')
<1>1. CASE s.child = "rdb" /\ s' = [Counted(s) EXCEPT !.sched = TRUE]
  <2> DEFINE f == Counted(s)
  <2>1. Good(f) /\ f \in Server
    BY CountedIsSame, SameIsGood DEF Same, Good
  <2>2. s' = [f EXCEPT !.sched = TRUE]
    BY <1>1
  <2> HIDE DEF f
  <2>3. s' \in Server /\ Same(f, s')
    BY <2>1, <2>2, ZenonT(60) DEF Server, Same, Kept
  <2> QED
    BY <2>1, <2>3, SameIsGood DEF Same
<1>2. CASE s.child = "none" /\ s' = Counted(Forked(s))
  <2>1. Good(Forked(s)) /\ Forked(s) \in Server
    BY <1>2, ForkedIsGood, Zenon DEF Good
  <2> QED
    BY <1>2, <2>1, CountedIsSame, SameIsGood DEF Same
<1> QED
  BY <1>1, <1>2 DEF bgrewriteaofCommand

\* A kill, and the restart.
LEMMA RestartIsGood ==
  ASSUME Good(s), Kill \/ loadAppendOnlyFile
  PROVE  Good(s')
<1>1. CASE Kill
  BY <1>1, FailedIsGood, ExitIsGood DEF Kill
<1>2. CASE loadAppendOnlyFile
  <2>1. /\ s.env \in Environment /\ s.synced \in Nat /\ s.gen \in Nat /\ s.forks \in Nat
        /\ s.faults \in Nat /\ s.bytes \in File
    BY DEF Good, Server
  <2> QED
    BY <1>2, <2>1, LoadedIsGood DEF loadAppendOnlyFile
<1> QED
  BY <1>1, <1>2

\* A server that starts with an empty file.
LEMMA FirstStartIsGood ==
  ASSUME NEW e \in Environments
  PROVE  Good(Loaded([env |-> e, synced |-> 0, gen |-> 0, forks |-> 0, faults |-> 0], <<>>))
<1> DEFINE old == [env |-> e, synced |-> 0, gen |-> 0, forks |-> 0, faults |-> 0]
<1>1. old.env \in Environment /\ old.synced \in Nat /\ old.gen \in Nat /\ old.forks \in Nat /\ old.faults \in Nat
  BY AofAssumption
<1>2. PICK b \in File : b = <<>>
  BY EmptySeq, Zenon DEF File
<1>3. WellFormed(b)
  <2>1. Len(b) = 0
    BY <1>2
  <2> QED
    BY <2>1 DEF WellFormed
<1> HIDE DEF old
<1>4. Good(Loaded(old, b))
  BY <1>1, <1>3, LoadedIsGood
<1> QED
  BY <1>2, <1>4 DEF old

\* The inductive invariant: the file and aof_buf, and the new file that a rewriting
\* child and the parent are putting together, each stand for the dataset.
FilesAreWhole == Good(s) /\ written \in Nat

\* Every step of the server, its children, its bio thread, its operators and the
\* machine keeps both files whole.
LEMMA FilesStayWhole ==
  ASSUME FilesAreWhole, [Next]_vars
  PROVE  FilesAreWhole'
<1>0. Good(s) /\ written \in Nat
  BY DEF FilesAreWhole
<1>1. ASSUME NEW c \in Client, Readable(c) \/ ReadableAndWritable(c)
      PROVE  FilesAreWhole'
  BY <1>0, <1>1, CommandIsGood DEF FilesAreWhole
<1>2. ASSUME NEW c \in Client, sendReplyToClient(c)
      PROVE  FilesAreWhole'
  BY <1>0, <1>2 DEF FilesAreWhole, sendReplyToClient
<1>3. CASE beforeSleep
  BY <1>0, <1>3, BeforeSleepIsGood, Zenon DEF FilesAreWhole, beforeSleep
<1>4. ASSUME NEW second \in BOOLEAN, serverCron(second)
      PROVE  FilesAreWhole'
  BY <1>0, <1>4, CronIsGood DEF FilesAreWhole, serverCron
<1>5. CASE \/ aofChildWriteDiffData \/ aofChildPipeReadable \/ ChildAsksToStop \/ ChildFinishes
           \/ ChildFails \/ Bgsave \/ BgsaveEnds
  <2>1. written' = written
    BY <1>5, Zenon DEF aofChildWriteDiffData, aofChildPipeReadable, ChildAsksToStop, ChildFinishes,
                ChildFails, Bgsave, BgsaveEnds, Others
  <2> QED
    BY <1>0, <1>5, <2>1, ChildStepIsGood DEF FilesAreWhole
<1>6. CASE Tick
  BY <1>0, <1>6, TickIsGood, Zenon DEF FilesAreWhole, Tick
<1>7. CASE BioStart \/ BioFinish
  BY <1>0, <1>7, BioIsGood DEF FilesAreWhole, BioStart, BioFinish, Others
<1>8. CASE bgrewriteaofCommand
  BY <1>0, <1>8, RewriteCommandIsGood DEF FilesAreWhole, bgrewriteaofCommand, Others
<1>9. CASE stopAppendOnly
  BY <1>0, <1>9, StopIsGood, Zenon DEF FilesAreWhole, stopAppendOnly, Others
<1>10. CASE startAppendOnly
  BY <1>0, <1>10, StartIsGood DEF FilesAreWhole, startAppendOnly, Others
<1>11. CASE prepareForShutdown
  BY <1>0, <1>11, ShutdownIsGood, ZenonT(60) DEF FilesAreWhole, prepareForShutdown, Others
<1>12. CASE Kill \/ loadAppendOnlyFile
  BY <1>0, <1>12, RestartIsGood DEF FilesAreWhole, Kill, loadAppendOnlyFile, Others
<1>13. CASE PowerLoss
  BY <1>0, <1>13, PowerLossIsGood, Zenon DEF FilesAreWhole, PowerLoss, Others
<1>14. CASE UNCHANGED vars
  BY <1>0, <1>14 DEF FilesAreWhole, vars
<1> QED
  BY <1>1, <1>2, <1>3, <1>4, <1>5, <1>6, <1>7, <1>8, <1>9, <1>10, <1>11, <1>12, <1>13, <1>14, SMTT(60) DEF Next, MainThread

\* A server that starts with an empty file satisfies the inductive invariant, and
\* every step keeps it.
LEMMA FilesAreAlwaysWhole == Spec => []FilesAreWhole
<1>1. Init => FilesAreWhole
  BY FirstStartIsGood DEF Init, FilesAreWhole
<1>2. FilesAreWhole /\ [Next]_vars => FilesAreWhole'
  BY FilesStayWhole
<1> QED
  BY <1>1, <1>2, PTL DEF Spec

\* The append only file never loses, repeats or misdirects a command: while
\* appendonly is on, replaying the file followed by aof_buf gives the dataset, for
\* any number of databases, clients, writes, rewrites, failures and restarts.
THEOREM FileReplaysToTheDataset == Spec => []AofHoldsTheDataset
<1>1. FilesAreWhole => AofHoldsTheDataset
  BY DEF FilesAreWhole, Good, FileIsWhole, Whole, AofHoldsTheDataset
<1> QED
  BY <1>1, FilesAreAlwaysWhole, PTL

----------------------------------------------------------------------------
(* aof_fsync_offset.                                                       *)

\* The states agree on all that the offset's invariant speaks of.
Untouched(m, n) ==
  /\ n.env = m.env /\ n.up = m.up /\ n.state = m.state /\ n.bytes = m.bytes
  /\ n.fsoff = m.fsoff /\ n.synced = m.synced /\ n.jobs = m.jobs /\ n.bio = m.bio
  /\ n.gen = m.gen

\* The invariant is about the fields that Untouched names.
LEMMA UntouchedIsCovered ==
  ASSUME NEW m, NEW n, OffsetIsCovered(m), Untouched(m, n)
  PROVE  OffsetIsCovered(n) /\ n.env = m.env
BY DEF OffsetIsCovered, Covered, Untouched

\* A job that was just queued is the last of the queue.
LEMMA QueuedLast ==
  ASSUME NEW q \in Jobs, NEW g \in Nat
  PROVE  LET a == Append(q, Job(g))
         IN  a \in Jobs /\ a # <<>> /\ a[Len(a)].gen = g /\ a[Len(a)].at = -1
<1> DEFINE J == [gen : Nat, at : Int]
           j == Job(g)
           a == Append(q, j)
<1>1. j \in J /\ j.gen = g /\ j.at = -1
  BY DEF Job
<1>2. q \in Seq(J) /\ Jobs = Seq(J)
  BY DEF Jobs
<1> HIDE DEF J, j
<1>3. a \in Seq(J) /\ Len(a) = Len(q) + 1 /\ a[Len(q) + 1] = j /\ Len(q) \in Nat
  BY <1>1, <1>2, AppendProperties, LenProperties
<1>4. a # <<>>
  BY <1>3, EmptySeq
<1> QED
  BY <1>1, <1>2, <1>3, <1>4 DEF j

\* try_fsync: an fsync that covers the new offset is queued, or the offset stays.
LEMMA TryFsyncIsCovered ==
  ASSUME NEW m \in Server, OffsetIsCovered(m), m.up, m.state = "on" => m.size = Len(m.bytes),
         NEW syncing \in BOOLEAN, NEW n \in TryFsync(m, syncing), m.env.policy = "everysec"
  PROVE  OffsetIsCovered(n) /\ n.env = m.env /\ n.up
<1> DEFINE c == [m EXCEPT !.due = FALSE]
           d == [m EXCEPT !.due = FALSE, !.jobs = Append(@, Job(m.gen)), !.fsoff = m.size]
<1>1. n = c \/ n = d \/ n = m
  <2> HIDE DEF c, d
  <2> QED
    BY DEF TryFsync, c, d
<1>2. CASE n = m
  BY <1>2
<1>3. CASE n = c
  <2>1. Untouched(m, n)
    BY <1>3, Zenon DEF Untouched, Server
  <2> QED
    BY <2>1, UntouchedIsCovered, Zenon DEF Untouched
<1>4. CASE n = d
  <2> DEFINE q == Append(m.jobs, Job(m.gen))
  <2>1. m.jobs \in Jobs /\ m.gen \in Nat /\ m.size \in Nat
    BY DEF Server, Jobs
  <2>2. q \in Jobs /\ q # <<>> /\ q[Len(q)].gen = m.gen /\ q[Len(q)].at = -1
    BY <2>1, QueuedLast, Zenon
  <2>3. n = [m EXCEPT !.due = FALSE, !.jobs = q, !.fsoff = m.size]
    BY <1>4
  <2> HIDE DEF q, d, c
  <2>4. n.env = m.env /\ n.up = m.up /\ n.state = m.state /\ n.bytes = m.bytes
        /\ n.fsoff = m.size /\ n.jobs = q /\ n.gen = m.gen
    BY <2>3, Zenon DEF Server
  <2>5. Covered(n)
    BY <2>2, <2>4 DEF Covered
  <2> QED
    BY <2>1, <2>4, <2>5 DEF OffsetIsCovered
<1> QED
  BY <1>1, <1>2, <1>3, <1>4

\* A write leaves the offset where it was; an ftruncate() after a short write cuts
\* the file back to a size at or after it.
LEMMA WroteIsCovered ==
  ASSUME NEW m \in Server, OffsetIsCovered(m), m.up, m.state = "on" => m.size = Len(m.bytes),
         NEW k \in 0..Len(m.buf), NEW n, Wrote(m, n, k)
  PROVE  OffsetIsCovered(n) /\ n.env = m.env /\ n.up /\ (n.state = "on" => n.size = Len(n.bytes))
<1>1. m.buf \in File /\ m.bytes \in File /\ m.synced \in Nat /\ m.fsoff \in Nat /\ n \in Server
      /\ Len(m.bytes) \in Nat
  BY LenProperties DEF Server, Wrote, File
<1>2. Len(n.bytes) \in Nat /\ Len(n.bytes) >= Len(m.bytes)
  <2>1. PICK x \in File : x = SubSeq(m.buf, 1, k)
    BY <1>1, Parts, Zenon
  <2>2. Len(m.bytes \o x) = Len(m.bytes) + Len(x) /\ Len(x) \in Nat
    BY <1>1, ConcatProperties, LenProperties DEF File
  <2>3. n.bytes = m.bytes \o x
    BY <2>1 DEF Wrote
  <2>4. PICK l \in Nat : l = Len(m.bytes)
    BY <1>1
  <2>5. PICK i \in Nat : i = Len(x)
    BY <2>2
  <2>6. Len(n.bytes) = l + i
    BY <2>2, <2>3, <2>4, <2>5
  <2> QED
    BY <2>4, <2>6
<1>3. /\ n.env = m.env /\ n.up = m.up /\ n.state = m.state /\ n.fsoff = m.fsoff /\ n.jobs = m.jobs
      /\ n.bio = m.bio /\ n.gen = m.gen /\ n.size = Len(n.bytes)
      /\ n.synced = m.synced \/ (m.synced > m.size /\ n.synced = m.size)
  BY DEF Wrote, Kept
<1>4. ASSUME m.env.policy = "everysec", "kill" \notin m.env.ops, m.state = "on"
      PROVE  n.fsoff <= Len(n.bytes) /\ Covered(n)
  <2>1. m.fsoff <= Len(m.bytes) /\ Covered(m) /\ m.size = Len(m.bytes)
    BY <1>4 DEF OffsetIsCovered
  <2>2. m.synced >= m.fsoff => n.synced >= n.fsoff
    BY <1>1, <1>3, <2>1
  <2>3. Covered(n)
    BY <1>3, <2>1, <2>2 DEF Covered
  <2> QED
    BY <1>1, <1>2, <1>3, <2>1, <2>3
<1> QED
  BY <1>3, <1>4 DEF OffsetIsCovered

\* flushAppendOnlyFile() keeps the offset covered; unless appendfsync is always it
\* does not end the process.
LEMMA FlushIsCovered ==
  ASSUME NEW m, Good(m), OffsetIsCovered(m), m.up, NEW force \in BOOLEAN,
         NEW n \in flushAppendOnlyFile(m, force)
  PROVE  OffsetIsCovered(n) /\ n.env = m.env /\ (m.env.policy = "everysec" => n.up)
<1>0. n.env = m.env
  BY FlushIsGood DEF Kept
<1>1. m \in Server /\ (m.buf # <<>> => m.size = Len(m.bytes)) /\ (m.state = "on" => m.size = Len(m.bytes))
  BY DEF Good, FileIsWhole, Server
<1>2. n \in Server /\ FlushCase(m, n)
  BY <1>1, FlushCases
<1>3. ASSUME m.env.policy = "everysec" PROVE OffsetIsCovered(n) /\ n.up
  <2>1. CASE Same(m, n)
    BY <2>1, UntouchedIsCovered, Zenon DEF Untouched, Same, Kept
  <2>2. CASE n \in TryFsync(m, FALSE)
    BY <1>1, <1>3, <2>2, TryFsyncIsCovered, Zenon
  <2>3. ASSUME NEW x, Wrote(m, x, Len(m.buf)), n \in TryFsync(x, Syncing(m))
        PROVE  OffsetIsCovered(n) /\ n.up
    <3>1. Len(m.buf) \in 0..Len(m.buf)
      BY <1>1, LenProperties DEF Server, File
    <3>2. /\ x \in Server /\ OffsetIsCovered(x) /\ x.up /\ (x.state = "on" => x.size = Len(x.bytes))
          /\ x.env = m.env
      BY <1>1, <2>3, <3>1, WroteIsCovered, Zenon DEF Wrote
    <3>3. Syncing(m) \in BOOLEAN
      BY DEF Syncing
    <3> QED
      BY <1>3, <2>3, <3>2, <3>3, TryFsyncIsCovered
  <2>4. ASSUME NEW k \in 0..Len(m.buf), Wrote(m, n, k)
        PROVE  OffsetIsCovered(n) /\ n.up
    BY <1>1, <2>4, WroteIsCovered
  <2> QED
    BY <1>2, <1>3, <2>1, <2>2, <2>3, <2>4, Zenon DEF FlushCase
<1> QED
  BY <1>0, <1>3 DEF OffsetIsCovered

\* The end of a rewrite: the new file's descriptor is queued for an fsync, and the
\* offset becomes the size of the new file.
LEMMA RewriteDoneIsCovered ==
  ASSUME NEW m, Good(m), OffsetIsCovered(m), m.up, m.child = "aof", m.kid.st \in {"ok", "failed"},
         NEW n \in backgroundRewriteDoneHandler(m)
  PROVE  OffsetIsCovered(n) /\ n.env = m.env
<1>1. CASE n = Cleanup(m)
  BY <1>1, CleanupIsGood, UntouchedIsCovered DEF Childless, Untouched
<1>2. CASE n = Cleanup(Failed(m))
  <2> DEFINE f == Failed(m)
  <2>1. Good(f) /\ Untouched(m, f)
    BY FailedIsGood, Zenon DEF Same, Kept, Untouched
  <2> HIDE DEF f
  <2>2. Untouched(f, n)
    BY <1>2, <2>1, CleanupIsGood, Zenon DEF Childless, Untouched, f
  <2> QED
    BY <2>1, <2>2, UntouchedIsCovered, Zenon DEF Untouched
<1> DEFINE r == Renamed(m)
           w == SwitchFile(r)
           x == IF m.state = "off" THEN r ELSE w
<1>3. CASE m.kid.st = "ok" /\ n = Cleanup(x)
  <2>1. /\ r \in Server /\ r.state = m.state /\ r.env = m.env /\ r.up /\ r.gen = m.gen + 1
        /\ r.jobs = IF m.env.policy = "everysec" THEN Append(m.jobs, Job(r.gen)) ELSE m.jobs
    BY <1>3, RenamedFields
  <2>2. Good(x)
    BY <1>3, NewFileIsGood
  <2> HIDE DEF r
  <2>3. /\ w \in Server /\ w.state = "on" /\ w.env = m.env /\ w.up
        /\ w.fsoff = Len(w.bytes) /\ w.gen = r.gen /\ w.jobs = r.jobs
    BY <2>1, SwitchFields
  <2> HIDE DEF w
  <2>4. OffsetIsCovered(r) \/ m.state # "off"
    BY <2>1 DEF OffsetIsCovered
  <2>5. ASSUME m.env.policy = "everysec" PROVE Covered(w)
    <3>1. m.jobs \in Jobs /\ r.gen \in Nat
      BY <2>1 DEF Good, Server, Jobs
    <3> DEFINE q == Append(m.jobs, Job(r.gen))
    <3>2. q # <<>> /\ q[Len(q)].gen = r.gen /\ q[Len(q)].at = -1
      BY <3>1, QueuedLast, Zenon
    <3>3. w.jobs = q /\ w.gen = r.gen
      BY <2>1, <2>3, <2>5
    <3> HIDE DEF q
    <3> QED
      BY <3>2, <3>3 DEF Covered
  <2>6. Len(w.bytes) \in Nat
    BY <2>3, LenProperties DEF Server, File
  <2>7. OffsetIsCovered(w)
    BY <2>3, <2>5, <2>6 DEF OffsetIsCovered
  <2>8. OffsetIsCovered(x) /\ x.env = m.env
    BY <2>1, <2>3, <2>4, <2>7
  <2> HIDE DEF x
  <2>9. Untouched(x, n)
    BY <1>3, <2>2, CleanupIsGood DEF Childless, Untouched
  <2> QED
    BY <2>8, <2>9, UntouchedIsCovered
<1> QED
  BY <1>1, <1>2, <1>3 DEF backgroundRewriteDoneHandler

\* The parts of serverCron().
LEMMA CronIsCovered ==
  ASSUME Good(s), OffsetIsCovered(s), NEW second \in BOOLEAN, serverCron(second)
  PROVE  OffsetIsCovered(s') /\ s'.env = s.env
<1>1. PICK m1 \in StartRewrite(s) : \E m2 \in checkChildrenDone(m1) :
         \E m3 \in FlushPostponed(m2) : s' \in IF second THEN FlushAfterError(m3) ELSE {m3}
  BY DEF serverCron
<1>2. Good(m1) /\ m1.up
  BY <1>1, StartRewriteIsGood DEF serverCron
<1>3. OffsetIsCovered(m1) /\ m1.env = s.env
  <2>1. CASE m1 = s
    BY <2>1
  <2>2. CASE m1 = Failed(s)
    BY <2>2, FailedIsGood, UntouchedIsCovered DEF Same, Kept, Untouched
  <2> DEFINE f == Forked(s)
  <2>3. s.child = "none" => Good(f) /\ Untouched(s, f)
    BY ForkedIsGood, Zenon DEF Untouched
  <2> HIDE DEF f
  <2>4. CASE m1 = f /\ s.child = "none"
    BY <2>3, <2>4, UntouchedIsCovered
  <2>5. CASE m1 = Counted(f) /\ s.child = "none"
    <3>1. Untouched(f, m1)
      BY <2>3, <2>5, CountedIsSame DEF Good, Same, Kept, Untouched
    <3> QED
      BY <2>3, <2>5, <3>1, UntouchedIsCovered, SMTT(60)
  <2> QED
    BY <1>1, <2>1, <2>2, <2>4, <2>5 DEF StartRewrite, f
<1>4. PICK m2 \in checkChildrenDone(m1) :
         \E m3 \in FlushPostponed(m2) : s' \in IF second THEN FlushAfterError(m3) ELSE {m3}
  BY <1>1
<1>5. Good(m2) /\ m2.up
  BY <1>2, <1>4, ChildrenDoneIsGood
<1>6. OffsetIsCovered(m2) /\ m2.env = s.env
  <2>1. CASE m1.child = "aof" /\ m1.kid.st \in {"ok", "failed"}
    BY <1>2, <1>3, <1>4, <2>1, RewriteDoneIsCovered, SMTT(60) DEF checkChildrenDone
  <2>2. CASE m2 = [m1 EXCEPT !.child = "none", !.kid = NoKid]
    <3>1. Untouched(m1, m2)
      BY <1>2, <2>2, Zenon DEF Good, Server, Untouched
    <3> QED
      BY <1>3, <3>1, UntouchedIsCovered
  <2>3. CASE m2 = m1
    BY <1>3, <2>3
  <2> QED
    BY <1>4, <2>1, <2>2, <2>3 DEF checkChildrenDone
<1>7. PICK m3 \in FlushPostponed(m2) : s' \in IF second THEN FlushAfterError(m3) ELSE {m3}
  BY <1>4
<1>8. Good(m3) /\ OffsetIsCovered(m3) /\ m3.env = s.env
  BY <1>5, <1>6, <1>7, CronFlushIsGood, FlushIsCovered, ZenonT(60) DEF FlushPostponed
<1> QED
  BY <1>7, <1>8, FlushIsCovered, Zenon DEF FlushAfterError

\* The bio thread: the fsync it starts covers the file as it is, and a job that is
\* done either covered the offset or was not the last.
LEMMA BioIsCovered ==
  ASSUME Good(s), OffsetIsCovered(s), BioStart \/ BioFinish
  PROVE  OffsetIsCovered(s') /\ s'.env = s.env
<1>1. s \in Server /\ s.up /\ s.jobs # <<>>
  BY DEF Good, BioStart, BioFinish
<1> DEFINE J == [gen : Nat, at : Int]
<1>2. s.jobs \in Seq(J) /\ Len(s.jobs) \in Nat /\ Len(s.jobs) # 0
  <2>1. s.jobs \in Seq(J)
    BY <1>1 DEF Server
  <2> HIDE DEF J
  <2> QED
    BY <1>1, <2>1, EmptySeq, LenProperties
<1>3. s.synced \in Nat /\ s.fsoff \in Nat /\ Len(s.bytes) \in Nat
  BY <1>1, LenProperties DEF Server, File
<1>4. CASE BioStart
  <2>1. PICK q \in Jobs : /\ s' = [s EXCEPT !.jobs = q] /\ Len(q) = Len(s.jobs)
                          /\ \A i \in 1..Len(q) : q[i].gen = s.jobs[i].gen
                          /\ q[1].at = Len(s.bytes) /\ \A i \in 2..Len(q) : q[i] = s.jobs[i]
    BY <1>1, <1>4, BioStarts, Zenon DEF BioStart
  <2>2. /\ s'.env = s.env /\ s'.up = s.up /\ s'.state = s.state /\ s'.bytes = s.bytes
        /\ s'.fsoff = s.fsoff /\ s'.synced = s.synced /\ s'.jobs = q /\ s'.bio = s.bio
        /\ s'.gen = s.gen
    BY <1>1, <2>1, Zenon DEF Server
  <2> DEFINE l == Len(q)
  <2>3. q # <<>> /\ l \in Nat /\ l >= 1
    BY <1>2, <2>1, EmptySeq
  <2>4. q[l].gen = s.jobs[l].gen /\ (q[l].at = Len(s.bytes) \/ q[l].at = s.jobs[l].at)
    <3>1. l \in 1..l /\ (l = 1 \/ l \in 2..l)
      <4> HIDE DEF l
      <4> QED
        BY <2>3
    <3> QED
      BY <2>1, <3>1
  <2>5. ASSUME s.fsoff <= Len(s.bytes), Covered(s) PROVE Covered(s')
    <3>1. CASE s.synced >= s.fsoff
      BY <2>2, <3>1 DEF Covered
    <3>2. CASE s.jobs[l].gen = s.gen /\ (s.jobs[l].at = -1 \/ s.jobs[l].at >= s.fsoff)
      <4>1. q[l].gen = s.gen /\ (q[l].at = -1 \/ q[l].at >= s.fsoff)
        BY <1>3, <2>4, <2>5, <3>2
      <4> QED
        BY <2>2, <2>3, <4>1 DEF Covered
    <3> QED
      BY <1>1, <2>1, <2>5, <3>1, <3>2, SMTT(60) DEF Covered
  <2> QED
    BY <2>2, <2>5 DEF OffsetIsCovered
<1>5. CASE BioFinish
  <2> DEFINE q == Tail(s.jobs)
             j == Head(s.jobs)
             n == Len(s.jobs)
             hit == s.state # "off" /\ j.gen = s.gen /\ j.at > s.synced
             y == IF hit THEN j.at ELSE s.synced
  <2>1. j \in J /\ q \in Seq(J) /\ j = s.jobs[1] /\ Len(q) = n - 1 /\ \A i \in 1..Len(q) : q[i] = s.jobs[i + 1]
    <3> HIDE DEF J
    <3> QED
      BY <1>1, <1>2, HeadTailProperties
  <2>2. j.at \in Int /\ j.at >= 0
    BY <1>5, <2>1 DEF BioFinish
  <2>3. /\ s'.env = s.env /\ s'.up = s.up /\ s'.state = s.state /\ s'.bytes = s.bytes
        /\ s'.fsoff = s.fsoff /\ s'.jobs = q /\ s'.gen = s.gen
        /\ \/ s'.synced = y
           \/ s'.synced = s.synced /\ s'.bio = "err"
    <3>1. CASE s' = [s EXCEPT !.jobs = Tail(@), !.bio = "ok", !.synced = IF hit THEN Head(s.jobs).at ELSE @]
      <4>1. s' = [s EXCEPT !.jobs = q, !.bio = "ok", !.synced = y]
        BY <3>1
      <4> HIDE DEF q, y
      <4> QED
        BY <1>1, <4>1, Zenon DEF Server
    <3>2. CASE s' = [Failed(s) EXCEPT !.jobs = Tail(@), !.bio = "err"]
      <4> DEFINE f == Failed(s)
      <4>1. f \in Server /\ Same(s, f)
        BY FailedIsGood DEF Good
      <4> HIDE DEF f
      <4>2. s' = [f EXCEPT !.jobs = q, !.bio = "err"]
        BY <3>2, <4>1 DEF f, Same
      <4> HIDE DEF q, y
      <4> QED
        BY <4>1, <4>2 DEF Server, Same, Kept
    <3> QED
      BY <1>5, <3>1, <3>2, Zenon DEF BioFinish
  <2>4. y >= s.synced /\ y \in Nat
    BY <1>3, <2>2
  <2>5. ASSUME s.state = "on", Covered(s) PROVE Covered(s')
    <3>1. CASE s.synced >= s.fsoff
      <4>1. s'.synced >= s.synced /\ s'.synced \in Nat
        BY <1>3, <2>3, <2>4
      <4> HIDE DEF y, q
      <4> QED
        BY <1>3, <2>3, <3>1, <4>1 DEF Covered
    <3>2. CASE s.jobs[n].gen = s.gen /\ (s.jobs[n].at = -1 \/ s.jobs[n].at >= s.fsoff) /\ n = 1
      <4>1. j.gen = s.gen /\ j.at >= s.fsoff
        BY <1>3, <2>1, <2>2, <3>2
      <4>2. y >= s.fsoff
        BY <1>3, <2>2, <2>5, <4>1
      <4>3. s'.jobs = <<>>
        <5> HIDE DEF q, J, y
        <5>1. q \in Seq(J) /\ Len(q) = 0
          BY <2>1, <3>2
        <5>2. q = <<>>
          BY <5>1, EmptySeq
        <5> QED
          BY <2>3, <5>2
      <4> HIDE DEF y, q
      <4> QED
        BY <2>3, <4>2, <4>3 DEF Covered
    <3>3. CASE s.jobs[n].gen = s.gen /\ (s.jobs[n].at = -1 \/ s.jobs[n].at >= s.fsoff) /\ n # 1
      <4>1. Len(q) \in 1..Len(q) /\ Len(q) + 1 = n /\ Len(q) # 0
        <5> HIDE DEF q
        <5>1. PICK i \in Nat : i = n
          BY <1>2
        <5>2. Len(q) = i - 1 /\ i # 0 /\ i # 1
          BY <1>2, <2>1, <3>3, <5>1
        <5>3. PICK h \in Nat : h = i - 1 /\ h # 0
          BY <5>2
        <5>4. Len(q) = h
          BY <5>2, <5>3
        <5> HIDE DEF n
        <5> QED
          BY <5>1, <5>3, <5>4
      <4>2. q[Len(q)] = s.jobs[n]
        <5> HIDE DEF q, n
        <5> QED
          BY <2>1, <4>1
      <4>3. q # <<>>
        <5> HIDE DEF q
        <5>1. Len(<<>>) = 0
          OBVIOUS
        <5> QED
          BY <4>1, <5>1
      <4> HIDE DEF y, q
      <4> QED
        BY <2>3, <3>3, <4>2, <4>3 DEF Covered
    <3> QED
      BY <1>1, <2>5, <3>1, <3>2, <3>3 DEF Covered
  <2> HIDE DEF y, q
  <2> QED
    BY <1>1, <2>3, <2>5 DEF OffsetIsCovered
<1> QED
  BY <1>4, <1>5

\* CONFIG SET appendonly no and yes.
LEMMA ReconfiguredIsCovered ==
  ASSUME Good(s), OffsetIsCovered(s), stopAppendOnly \/ startAppendOnly
  PROVE  OffsetIsCovered(s') /\ s'.env = s.env
<1> DEFINE f == Failed(s)
<1>1. Good(f) /\ Untouched(s, f) /\ f.up
  BY FailedIsGood, Zenon DEF Same, Kept, Untouched, stopAppendOnly, startAppendOnly
<1>2. OffsetIsCovered(f) /\ f.env = s.env
  BY <1>1, UntouchedIsCovered
<1>3. CASE stopAppendOnly
  <2>1. PICK m \in flushAppendOnlyFile(f, TRUE) :
          s' = IF ~m.up THEN m
               ELSE [killAppendOnlyChild(m) EXCEPT !.state = "off", !.sched = FALSE,
                        !.buf = <<>>, !.seldb = -1, !.synced = Len(m.bytes), !.fsoff = m.size]
    BY <1>3, Zenon DEF stopAppendOnly
  <2> HIDE DEF f
  <2>2. Good(m) /\ OffsetIsCovered(m) /\ m.env = f.env
    BY <1>1, <1>2, <2>1, FlushIsGood, FlushIsCovered, Zenon
  <2>3. CASE ~m.up
    BY <1>2, <2>1, <2>2, <2>3
  <2>4. CASE m.up
    <3> DEFINE k == killAppendOnlyChild(m)
    <3>1. Good(k) /\ k.child # "aof" /\ k.env = m.env /\ k.up
      BY <2>2, <2>4, KilledIsGood DEF Killed
    <3>2. Len(m.bytes) \in Nat /\ m.size \in Nat
      BY <2>2, LenProperties DEF Good, Server, File
    <3> HIDE DEF k
    <3>3. s' = [k EXCEPT !.state = "off", !.sched = FALSE, !.buf = <<>>, !.seldb = -1,
                         !.synced = Len(m.bytes), !.fsoff = m.size]
      BY <2>1, <2>4 DEF k
    <3>4. s'.env = k.env /\ s'.up = k.up /\ s'.state = "off"
      <4>1. k \in Server
        BY <3>1 DEF Good
      <4>2. PICK l \in Nat, o \in Nat : l = Len(m.bytes) /\ o = m.size
        BY <3>2
      <4>3. PICK e \in File : e = <<>>
        BY EmptySeq, Zenon DEF File
      <4>4. s' = [k EXCEPT !.state = "off", !.sched = FALSE, !.buf = e, !.seldb = -1,
                           !.synced = l, !.fsoff = o]
        BY <3>3, <4>2, <4>3
      <4> QED
        BY <4>1, <4>4 DEF Server
    <3> QED
      BY <1>2, <2>2, <3>1, <3>4 DEF OffsetIsCovered
  <2> QED
    BY <2>3, <2>4
<1>4. CASE startAppendOnly
  <2> DEFINE k == killAppendOnlyChild(f)
             w == IF f.child = "rdb" THEN [f EXCEPT !.sched = TRUE] ELSE Forked(k)
  <2>1. s' = [w EXCEPT !.state = "wait_rewrite", !.due = FALSE, !.bio = "ok", !.status = "ok"]
    BY <1>4 DEF startAppendOnly
  <2> HIDE DEF f
  <2>2. w \in Server /\ w.up /\ w.env = f.env
    <3>1. CASE f.child = "rdb"
      <4> DEFINE u == [f EXCEPT !.sched = TRUE]
      <4>1. u \in Server /\ u.up = f.up /\ u.env = f.env
        BY <1>1, Zenon DEF Good, Server
      <4>2. w = u
        BY <3>1
      <4> HIDE DEF u, w
      <4> QED
        BY <1>1, <4>1, <4>2, Zenon
    <3>2. CASE f.child # "rdb"
      <4>1. Good(k) /\ k.child # "aof" /\ k.up /\ k.env = f.env
        BY <1>1, KilledIsGood DEF Killed
      <4> HIDE DEF k
      <4>2. Good(Forked(k)) /\ Forked(k).up /\ Forked(k).env = f.env
        BY <4>1, ForkedIsGood, Zenon
      <4>3. w = Forked(k)
        BY <3>2
      <4> HIDE DEF w
      <4> QED
        BY <4>2, <4>3 DEF Good
    <3> QED
      BY <3>1, <3>2
  <2> HIDE DEF w
  <2>3. s'.env = w.env /\ s'.up = w.up /\ s'.state = "wait_rewrite"
    BY <2>1, <2>2, Zenon DEF Server
  <2> QED
    BY <1>2, <2>2, <2>3 DEF OffsetIsCovered
<1> QED
  BY <1>3, <1>4

\* A process that ends in an orderly way has fsynced its file; a machine that stops
\* leaves a file that is on disk.
LEMMA EndIsCovered ==
  ASSUME Good(s), OffsetIsCovered(s), prepareForShutdown \/ Kill \/ PowerLoss
  PROVE  OffsetIsCovered(s') /\ s'.env = s.env
<1> DEFINE f == Failed(s)
<1>1. Good(f) /\ Untouched(s, f) /\ f \in Server
  BY FailedIsGood DEF Same, Kept, Untouched, Good
<1>2. OffsetIsCovered(f) /\ f.env = s.env
  BY <1>1, UntouchedIsCovered
<1>3. CASE Kill
  <2>1. s' = [f EXCEPT !.up = FALSE]
    BY <1>3 DEF Kill, Exit
  <2> HIDE DEF f
  <2>2. s'.env = f.env
    BY <1>1, <2>1 DEF Server
  <2>3. "kill" \in s.env.ops
    BY <1>3 DEF Kill, MayFail
  <2> QED
    BY <1>2, <2>2, <2>3 DEF OffsetIsCovered
<1>4. CASE PowerLoss
  <2>1. PICK n \in s.synced..Len(s.bytes) :
           s' = [Exit(f) EXCEPT !.bytes = SubSeq(@, 1, n), !.synced = n]
    BY <1>4, Zenon DEF PowerLoss
  <2> HIDE DEF f
  <2>2. Exit(f) \in Server /\ ~Exit(f).up /\ Exit(f).env = f.env /\ Exit(f).bytes = f.bytes
    BY <1>1, Zenon DEF Exit, Server
  <2> DEFINE x == Exit(f)
  <2> HIDE DEF x
  <2>3. s.bytes \in File /\ n \in Nat /\ n \in 0..Len(s.bytes) /\ x.bytes = s.bytes
    <3>1. s.bytes \in File /\ s.synced \in Nat
      BY DEF Good, Server
    <3>2. Len(s.bytes) \in Nat
      BY <3>1, LenProperties DEF File
    <3>3. x.bytes = s.bytes
      BY <1>1, <2>2 DEF Untouched, x
    <3> QED
      BY <3>1, <3>2, <3>3, SMTT(60)
  <2>4. PICK b \in File : b = SubSeq(s.bytes, 1, n) /\ Len(b) = n
    BY <2>3, Parts, Zenon
  <2>5. s' = [x EXCEPT !.bytes = b, !.synced = n]
    BY <2>1, <2>3, <2>4 DEF x
  <2>6. s'.bytes = b /\ s'.synced = n /\ ~s'.up /\ s'.env = f.env
    BY <2>2, <2>3, <2>5 DEF Server, x
  <2> QED
    BY <1>2, <2>3, <2>4, <2>6 DEF OffsetIsCovered
<1>5. CASE prepareForShutdown
  <2> DEFINE k == killAppendOnlyChild(f)
  <2>1. Good(k) /\ k.up /\ Untouched(f, k)
    <3>1. f.up
      BY <1>1, <1>5 DEF prepareForShutdown, Untouched
    <3> HIDE DEF f
    <3> QED
      BY <1>1, <3>1, KilledIsGood, Zenon DEF Killed, Untouched
  <2>2. PICK m \in flushAppendOnlyFile(k, TRUE) :
          s' = IF m.up THEN Exit([m EXCEPT !.synced = Len(m.bytes)]) ELSE m
    BY <1>5, Zenon DEF prepareForShutdown
  <2> HIDE DEF f, k
  <2>3. OffsetIsCovered(k) /\ k.env = s.env
    BY <1>2, <2>1, UntouchedIsCovered
  <2>4. Good(m) /\ OffsetIsCovered(m) /\ m.env = s.env
    BY <2>1, <2>2, <2>3, FlushIsGood, FlushIsCovered, Zenon
  <2>5. CASE ~m.up
    BY <2>2, <2>4, <2>5
  <2>6. CASE m.up
    <3>1. PICK l \in Nat : l = Len(m.bytes)
      BY <2>4, LenProperties DEF Good, Server, File
    <3> DEFINE y == [m EXCEPT !.synced = l]
    <3>2. y \in Server /\ y.env = m.env /\ y.bytes = m.bytes /\ y.synced = l
      BY <2>4, Zenon DEF Good, Server
    <3>3. s' = Exit(y)
      BY <2>2, <2>6, <3>1
    <3> HIDE DEF y
    <3>4. s'.env = m.env /\ s'.bytes = m.bytes /\ s'.synced = l /\ ~s'.up
      BY <3>2, <3>3 DEF Exit, Server
    <3> QED
      BY <2>4, <3>1, <3>4 DEF OffsetIsCovered
  <2> QED
    BY <2>5, <2>6
<1> QED
  BY <1>3, <1>4, <1>5

\* A file that is on disk is loaded as one that is.
LEMMA LoadedIsCovered ==
  ASSUME NEW old, old.synced \in Nat, NEW b \in File,
         old.env.policy = "everysec" /\ "kill" \notin old.env.ops => old.synced >= Len(b)
  PROVE  OffsetIsCovered(Loaded(old, b)) /\ Loaded(old, b).env = old.env
<1> DEFINE valid == SubSeq(b, 1, 2 * (Len(b) \div 2))
           l == Len(valid)
           n == Loaded(old, b)
<1>1. Len(b) \in Nat
  BY LenProperties DEF File
<1>2. 2 * (Len(b) \div 2) \in 0..Len(b)
  BY <1>1
<1>3. l \in 0..Len(b)
  BY <1>2, Parts, SMTT(60)
<1>4. /\ n.env = old.env /\ n.up = TRUE /\ n.state = "on" /\ n.bytes = valid /\ n.fsoff = l
      /\ n.synced = IF old.synced > l THEN l ELSE old.synced
  BY ZenonT(60) DEF Loaded
<1> HIDE DEF valid, l, n
<1>5. ASSUME old.env.policy = "everysec", "kill" \notin old.env.ops
      PROVE  n.synced >= n.fsoff /\ n.fsoff <= Len(n.bytes)
  BY <1>1, <1>3, <1>4, <1>5, SMTT(60) DEF l
<1> QED
  BY <1>4, <1>5 DEF OffsetIsCovered, Covered, n

\* The inductive invariant, with the offset.
OffsetInv == FilesAreWhole /\ OffsetIsCovered(s)

\* Every step keeps the offset covered, and the configuration as it is.
LEMMA OffsetStaysCovered ==
  ASSUME OffsetInv, [Next]_vars
  PROVE  OffsetIsCovered(s') /\ s'.env = s.env
<1>0. Good(s) /\ written \in Nat /\ OffsetIsCovered(s) /\ s \in Server
  BY DEF OffsetInv, FilesAreWhole, Good
<1>1. ASSUME NEW c \in Client, Readable(c) \/ ReadableAndWritable(c)
      PROVE  OffsetIsCovered(s') /\ s'.env = s.env
  <2>1. s.env.dbs \subseteq Db
    BY <1>0 DEF Server, Environment
  <2>2. PICK d \in Db : s' = Call(s, d, written + 1)
    BY <1>1, <2>1 DEF Readable, ReadableAndWritable
  <2>3. written + 1 \in Nat
    BY <1>0
  <2>4. Called(s, s', d, written + 1)
    BY <1>0, <2>2, <2>3, CallFields, SMTT(60)
  <2>5. Untouched(s, s')
    BY <2>4 DEF Called, Untouched
  <2> QED
    BY <1>0, <2>5, UntouchedIsCovered
<1>2. ASSUME NEW c \in Client, sendReplyToClient(c)
      PROVE  OffsetIsCovered(s') /\ s'.env = s.env
  BY <1>0, <1>2 DEF sendReplyToClient
<1>3. CASE beforeSleep
  <2>1. s.up /\ s' \in IF s.state = "on" THEN flushAppendOnlyFile(s, FALSE) ELSE {s}
    BY <1>3, ZenonT(60) DEF beforeSleep
  <2> QED
    BY <1>0, <2>1, FlushIsCovered, Zenon
<1>4. ASSUME NEW second \in BOOLEAN, serverCron(second)
      PROVE  OffsetIsCovered(s') /\ s'.env = s.env
  BY <1>0, <1>4, CronIsCovered, SMTT(60)
<1>5. CASE \/ aofChildWriteDiffData \/ aofChildPipeReadable \/ ChildAsksToStop \/ ChildFinishes
           \/ Bgsave \/ BgsaveEnds
  <2>1. OnlyKid(s, s', s'.kid, s'.rwbuf)
    <3>1. CASE aofChildWriteDiffData
      BY <1>0, <3>1, DiffSent, ZenonT(60) DEF aofChildWriteDiffData
    <3>2. CASE aofChildPipeReadable
      BY <1>0, <3>2, StopAcknowledged, ZenonT(60) DEF aofChildPipeReadable
    <3>3. CASE ChildAsksToStop
      BY <1>0, <3>3, KidStateChanged, ZenonT(60) DEF ChildAsksToStop
    <3>4. CASE ChildFinishes
      BY <1>0, <3>4, ChildFinished, Zenon DEF ChildFinishes
    <3>5. CASE Bgsave
      BY <1>0, <3>5, BgsaveStarted, Zenon DEF Bgsave
    <3>6. CASE BgsaveEnds
      BY <1>0, <3>6, KidStateChanged, Zenon DEF BgsaveEnds
    <3> QED
      BY <1>5, <3>1, <3>2, <3>3, <3>4, <3>5, <3>6, SMTT(60)
  <2>2. Untouched(s, s')
    BY <2>1 DEF OnlyKid, Untouched
  <2> QED
    BY <1>0, <2>2, UntouchedIsCovered, SMTT(60)
<1>6. CASE ChildFails
  <2> DEFINE f == Failed(s)
  <2>1. Good(f) /\ f.child = "aof" /\ Untouched(s, f)
    BY <1>0, <1>6, FailedIsGood, Zenon DEF Same, Kept, ChildFails, Untouched
  <2>2. s' = [f EXCEPT !.kid.st = "failed"]
    BY <1>6 DEF ChildFails
  <2> HIDE DEF f
  <2>3. OnlyKid(f, s', s'.kid, s'.rwbuf)
    BY <2>1, <2>2, KidStateChanged, Zenon
  <2>4. Untouched(s, s')
    BY <2>1, <2>3 DEF OnlyKid, Untouched
  <2> QED
    BY <1>0, <2>4, UntouchedIsCovered
<1>7. CASE Tick
  BY <1>0, <1>7, TickIsGood, UntouchedIsCovered DEF Same, Kept, Untouched
<1>8. CASE BioStart \/ BioFinish
  BY <1>0, <1>8, BioIsCovered
<1>9. CASE bgrewriteaofCommand
  <2>1. CASE s.child = "rdb" /\ s' = [Counted(s) EXCEPT !.sched = TRUE]
    <3> DEFINE f == Counted(s)
    <3>1. f \in Server /\ Untouched(s, f)
      BY <1>0, CountedIsSame DEF Same, Kept, Untouched
    <3>2. s' = [f EXCEPT !.sched = TRUE]
      BY <2>1
    <3> HIDE DEF f
    <3>3. Untouched(f, s')
      BY <3>1, <3>2, SMTT(60) DEF Server, Untouched
    <3> QED
      BY <1>0, <3>1, <3>3, UntouchedIsCovered
  <2>2. CASE s.child = "none" /\ s' = Counted(Forked(s))
    <3> DEFINE f == Forked(s)
    <3>1. f \in Server /\ Untouched(s, f)
      BY <1>0, <2>2, ForkedIsGood, Zenon DEF Untouched, Good
    <3> HIDE DEF f
    <3>2. Untouched(f, s')
      BY <2>2, <3>1, CountedIsSame DEF Same, Kept, Untouched, f
    <3> QED
      BY <1>0, <3>1, <3>2, UntouchedIsCovered
  <2> QED
    BY <1>9, <2>1, <2>2 DEF bgrewriteaofCommand
<1>10. CASE stopAppendOnly \/ startAppendOnly
  BY <1>0, <1>10, ReconfiguredIsCovered
<1>11. CASE prepareForShutdown \/ Kill \/ PowerLoss
  BY <1>0, <1>11, EndIsCovered
<1>12. CASE loadAppendOnlyFile
  <2>1. s.synced \in Nat /\ s.bytes \in File
    BY <1>0 DEF Server
  <2>2. s.env.policy = "everysec" /\ "kill" \notin s.env.ops => s.synced >= Len(s.bytes)
    BY <1>0, <1>12 DEF loadAppendOnlyFile, OffsetIsCovered
  <2> QED
    BY <1>12, <2>1, <2>2, LoadedIsCovered DEF loadAppendOnlyFile
<1>13. CASE UNCHANGED vars
  BY <1>0, <1>13 DEF vars
<1> QED
  BY <1>1, <1>2, <1>3, <1>4, <1>5, <1>6, <1>7, <1>8, <1>9, <1>10, <1>11, <1>12, <1>13, SMTT(60) DEF Next, MainThread

\* A server that starts with an empty file has nothing to fsync.
LEMMA OffsetHoldsAtFirst ==
  ASSUME Init
  PROVE  OffsetInv
<1>1. PICK e \in Environments :
         s = Loaded([env |-> e, synced |-> 0, gen |-> 0, forks |-> 0, faults |-> 0], <<>>)
  BY DEF Init
<1> DEFINE old == [env |-> e, synced |-> 0, gen |-> 0, forks |-> 0, faults |-> 0]
<1>2. old.synced = 0
  OBVIOUS
<1>3. PICK b \in File : b = <<>> /\ Len(b) = 0
  BY EmptySeq, Zenon DEF File
<1>4. s = Loaded(old, b)
  BY <1>1, <1>3
<1>5. Good(s) /\ written \in Nat
  BY <1>1, FirstStartIsGood DEF Init
<1> HIDE DEF old
<1>6. OffsetIsCovered(s)
  BY <1>2, <1>3, <1>4, LoadedIsCovered
<1> QED
  BY <1>5, <1>6 DEF OffsetInv, FilesAreWhole

\* aof_fsync_offset is honest under appendfsync everysec: with no fsync pending and
\* none failed, everything before it is on disk, through short writes, rewrites,
\* reconfigurations, shutdowns and power losses.
THEOREM FsyncOffsetIsHonest == Spec => []FsyncOffsetIsDurable
<1>1. Init => OffsetInv
  BY OffsetHoldsAtFirst
<1>2. OffsetInv /\ [Next]_vars => OffsetInv'
  BY FilesStayWhole, OffsetStaysCovered DEF OffsetInv
<1>3. OffsetInv => FsyncOffsetIsDurable
  BY DEF OffsetInv, OffsetIsCovered, Covered, FsyncOffsetIsDurable
<1> QED
  BY <1>1, <1>2, <1>3, PTL DEF Spec

============================================================================
