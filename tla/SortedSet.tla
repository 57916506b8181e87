------------------------------ MODULE SortedSet -----------------------------
(***************************************************************************)
(* The encodings of sorted sets, and further below those of sets and       *)
(* hashes.  A sorted set (t_zset.c) is a ziplist of members and scores, or *)
(* a skiplist beside a dict whose values point at the scores of the nodes. *)
(*                                                                         *)
(* Abstractions.  A score is a number of halves, so that some scores are   *)
(* stored as integers and some as strings.  The order of two members by    *)
(* their bytes is the order of ByteOrder.  A pointer to a node is a number;*)
(* the dict is a function from members to nodes.  The random level of a    *)
(* node is an argument.                                                    *)
(***************************************************************************)
EXTENDS Ziplist

LOCAL INSTANCE SequencesExt
LOCAL INSTANCE FiniteSetsExt

CONSTANTS
  ByteOrder,                 \* every member, in the order of sdscmp
  zset_max_ziplist_entries,
  zset_max_ziplist_value

LexMin == <<"-">>
LexMax == <<"+">>

(* sdscmp and sdscmplex: the shared strings are below and above all. *)
Lex(v) == CASE v = LexMin -> 0 [] v = LexMax -> Len(ByteOrder) + 1
            [] OTHER -> SelectInSeq(ByteOrder, LAMBDA w : w = v)

Bytes(v) ==
  LET Dec[m \in Nat] == IF m < 10 THEN 1 ELSE 1 + Dec[m \div 10]
  IN  CASE v[1] = "str" -> v[3]
        [] v[1] = "int" /\ v[2] < 0 -> 1 + Dec[-v[2]]
        [] OTHER -> Dec[v[2]]

(* d2string and zzlStrtod. *)
d2string(score) ==
  IF score % 2 = 0 THEN <<"int", score \div 2>> ELSE <<"str", "half", 3, score>>
zzlStrtod(v) == IF v[1] = "int" THEN 2 * v[2] ELSE v[4]

-----------------------------------------------------------------------------
(* The skiplist *)

Header == 0
NoZ == -1

zslCreate(maxlevel) ==
  [level |-> 1, length |-> 0, tail |-> NoZ,
   node |-> [x \in {Header} |->
     [ele |-> LexMin, score |-> 0, back |-> NoZ,
      lv |-> [i \in 1..maxlevel |-> [fwd |-> NoZ, span |-> 0]]]]]

Fwd0(zsl, x) == zsl.node[x].lv[1].fwd

(* The last node before the first for which Go fails, on every level from  *)
(* the top one down, and the number of nodes crossed to reach it.          *)
Seek(zsl, Go(_, _)) ==
  LET Along[i \in Nat, x \in Int, rank \in Int] ==
        LET l == zsl.node[x].lv[i]
        IN  IF l.fwd # NoZ /\ Go(l.fwd, rank + l.span)
            THEN Along[i, l.fwd, rank + l.span]
            ELSE [x |-> x, rank |-> rank]
      Path[i \in Nat] ==
        IF i = zsl.level THEN Along[i, Header, 0]
        ELSE LET up == Path[i + 1] IN Along[i, up.x, up.rank]
  IN  [i \in 1..zsl.level |-> Path[i]]

Before(zsl, y, score, ele) ==
  \/ zsl.node[y].score < score
  \/ zsl.node[y].score = score /\ Lex(zsl.node[y].ele) < Lex(ele)

FreshNode(zsl) == CHOOSE x \in 1..zsl.length + 1 : x \notin DOMAIN zsl.node

\* Mutant: the spans of the levels above the new node are not counted on.
UpperSpansLeft(l) == l

(* A level the new node does not reach is one node longer. *)
UntouchedLevel(l) == [l EXCEPT !.span = @ + 1]

zslInsert(zsl, score, ele, level) ==
  LET u == Seek(zsl, LAMBDA y, r : Before(zsl, y, score, ele))
      top == Max({level, zsl.level})
      rank(i) == IF i <= zsl.level THEN u[i].rank ELSE 0
      update(i) == IF i <= zsl.level THEN u[i].x ELSE Header
      old(i) == IF i <= zsl.level THEN zsl.node[update(i)].lv[i]
                ELSE [zsl.node[Header].lv[i] EXCEPT !.span = zsl.length]
      d(i) == rank(1) - rank(i)
      x == FreshNode(zsl)
      next == old(1).fwd
      Linked(y) ==
        [zsl.node[y] EXCEPT
          !.back = IF y = next THEN x ELSE @,
          !.lv = [i \in DOMAIN @ |->
                    CASE i > top \/ (i <= top /\ update(i) # y) -> @[i]
                      [] i <= level /\ update(i) = y -> [fwd |-> x, span |-> d(i) + 1]
                      [] OTHER -> UntouchedLevel(@[i])]]
  IN  [level |-> top, length |-> zsl.length + 1,
       tail |-> IF next = NoZ THEN x ELSE zsl.tail,
       node |-> [y \in DOMAIN zsl.node \union {x} |->
         IF y # x THEN Linked(y)
         ELSE [ele |-> ele, score |-> score,
               back |-> IF update(1) = Header THEN NoZ ELSE update(1),
               lv |-> [i \in 1..level |->
                        [fwd |-> old(i).fwd, span |-> old(i).span - d(i)]]]]]

(* x is unlinked from the levels on which an update node points at it. *)
zslDeleteNode(zsl, x, u) ==
  LET gone == zsl.node[x]
      next == gone.lv[1].fwd
      Unlinked(y) ==
        [zsl.node[y] EXCEPT
          !.back = IF y = next THEN gone.back ELSE @,
          !.lv = [i \in DOMAIN @ |->
                    CASE i > zsl.level \/ (i <= zsl.level /\ u[i].x # y) -> @[i]
                      [] i <= zsl.level /\ u[i].x = y /\ @[i].fwd = x ->
                           [fwd |-> gone.lv[i].fwd,
                            span |-> @[i].span + gone.lv[i].span - 1]
                      [] OTHER -> [@[i] EXCEPT !.span = @ - 1]]]
      node == [y \in DOMAIN zsl.node \ {x} |-> Unlinked(y)]
  IN  [node |-> node, length |-> zsl.length - 1,
       tail |-> IF next = NoZ THEN gone.back ELSE zsl.tail,
       level |-> Max({1} \union {i \in 1..zsl.level : node[Header].lv[i].fwd # NoZ})]

(* The node with the score and the member is deleted, if there is one. *)
zslDelete(zsl, score, ele) ==
  LET u == Seek(zsl, LAMBDA y, r : Before(zsl, y, score, ele))
      x == Fwd0(zsl, u[1].x)
  IN  IF x # NoZ /\ zsl.node[x].score = score /\ zsl.node[x].ele = ele
      THEN [found |-> TRUE, zsl |-> zslDeleteNode(zsl, x, u)]
      ELSE [found |-> FALSE, zsl |-> zsl]

(* A node with the new score would be at the same place. *)
SameSpot(zsl, x, newscore) ==
  LET n == zsl.node[x]
  IN  /\ n.back = NoZ \/ zsl.node[n.back].score < newscore
      /\ n.lv[1].fwd = NoZ \/ zsl.node[n.lv[1].fwd].score > newscore

(* The skiplist, and the node that holds the member now. *)
zslUpdateScore(zsl, curscore, ele, newscore, level) ==
  LET u == Seek(zsl, LAMBDA y, r : Before(zsl, y, curscore, ele))
      x == Fwd0(zsl, u[1].x)
      z == zslInsert(zslDeleteNode(zsl, x, u), newscore, ele, level)
  IN  IF SameSpot(zsl, x, newscore)
      THEN [zsl |-> [zsl EXCEPT !.node[x].score = newscore], x |-> x]
      ELSE [zsl |-> z, x |-> CHOOSE y \in DOMAIN z.node : z.node[y].ele = ele]

-----------------------------------------------------------------------------
(* Ranges: [min, max, minex, maxex], of scores or of members *)

zslValueGteMin(v, r) == IF r.minex THEN v > r.min ELSE v >= r.min
zslValueLteMax(v, r) == IF r.maxex THEN v < r.max ELSE v <= r.max
zslLexValueGteMin(v, r) ==
  IF r.minex THEN Lex(v) > Lex(r.min) ELSE Lex(v) >= Lex(r.min)
zslLexValueLteMax(v, r) ==
  IF r.maxex THEN Lex(v) < Lex(r.max) ELSE Lex(v) <= Lex(r.max)

EmptyRange(r) == r.min > r.max \/ (r.min = r.max /\ (r.minex \/ r.maxex))
EmptyLexRange(r) ==
  \/ Lex(r.min) > Lex(r.max)
  \/ Lex(r.min) = Lex(r.max) /\ (r.minex \/ r.maxex)

zslIsInRange(zsl, r) ==
  LET first == Fwd0(zsl, Header)
  IN  /\ ~EmptyRange(r)
      /\ zsl.tail # NoZ /\ zslValueGteMin(zsl.node[zsl.tail].score, r)
      /\ first # NoZ /\ zslValueLteMax(zsl.node[first].score, r)

zslFirstInRange(zsl, r) ==
  LET u == Seek(zsl, LAMBDA y, k : ~zslValueGteMin(zsl.node[y].score, r))
      x == Fwd0(zsl, u[1].x)
  IN  IF ~zslIsInRange(zsl, r) THEN NoZ
      ELSE IF ~zslValueLteMax(zsl.node[x].score, r) THEN NoZ ELSE x

zslLastInRange(zsl, r) ==
  LET u == Seek(zsl, LAMBDA y, k : zslValueLteMax(zsl.node[y].score, r))
      x == u[1].x
  IN  IF ~zslIsInRange(zsl, r) THEN NoZ
      ELSE IF ~zslValueGteMin(zsl.node[x].score, r) THEN NoZ ELSE x

zslIsInLexRange(zsl, r) ==
  LET first == Fwd0(zsl, Header)
  IN  /\ ~EmptyLexRange(r)
      /\ zsl.tail # NoZ /\ zslLexValueGteMin(zsl.node[zsl.tail].ele, r)
      /\ first # NoZ /\ zslLexValueLteMax(zsl.node[first].ele, r)

zslFirstInLexRange(zsl, r) ==
  LET u == Seek(zsl, LAMBDA y, k : ~zslLexValueGteMin(zsl.node[y].ele, r))
      x == Fwd0(zsl, u[1].x)
  IN  IF ~zslIsInLexRange(zsl, r) THEN NoZ
      ELSE IF ~zslLexValueLteMax(zsl.node[x].ele, r) THEN NoZ ELSE x

zslLastInLexRange(zsl, r) ==
  LET u == Seek(zsl, LAMBDA y, k : zslLexValueLteMax(zsl.node[y].ele, r))
      x == u[1].x
  IN  IF ~zslIsInLexRange(zsl, r) THEN NoZ
      ELSE IF ~zslLexValueGteMin(zsl.node[x].ele, r) THEN NoZ ELSE x

(* Nodes are deleted from the one after the update nodes on while In(node, *)
(* rank) holds, from the dict too.                                         *)
DeleteWhile(zs, u, In(_, _)) ==
  LET Step(st, i) ==
        IF st.x = NoZ \/ ~In(st.x, u[1].rank + i) THEN [st EXCEPT !.x = NoZ]
        ELSE [zsl |-> zslDeleteNode(st.zsl, st.x, u),
              dict |-> [e \in DOMAIN st.dict \ {st.zsl.node[st.x].ele} |-> st.dict[e]],
              x |-> Fwd0(st.zsl, st.x)]
      end == FoldLeft(Step, [zsl |-> zs.zsl, dict |-> zs.dict,
                             x |-> Fwd0(zs.zsl, u[1].x)],
                      [i \in 1..zs.zsl.length |-> i])
  IN  [zs EXCEPT !.zsl = end.zsl, !.dict = end.dict]

zslDeleteRangeByScore(zs, r) ==
  DeleteWhile(zs, Seek(zs.zsl, LAMBDA y, k : ~zslValueGteMin(zs.zsl.node[y].score, r)),
              LAMBDA x, k : zslValueLteMax(zs.zsl.node[x].score, r))

zslDeleteRangeByLex(zs, r) ==
  DeleteWhile(zs, Seek(zs.zsl, LAMBDA y, k : ~zslLexValueGteMin(zs.zsl.node[y].ele, r)),
              LAMBDA x, k : zslLexValueLteMax(zs.zsl.node[x].ele, r))

zslDeleteRangeByRank(zs, start, end) ==
  DeleteWhile(zs, Seek(zs.zsl, LAMBDA y, k : k < start), LAMBDA x, k : k <= end)

(* The first level on which the walk ends at the member, 0 for none. *)
zslGetRank(zsl, score, ele) ==
  LET u == Seek(zsl, LAMBDA y, k : \/ Before(zsl, y, score, ele)
                                   \/ /\ zsl.node[y].score = score
                                      /\ zsl.node[y].ele = ele)
      I == {i \in 1..zsl.level : u[i].x # Header /\ zsl.node[u[i].x].ele = ele}
  IN  IF I = {} THEN 0 ELSE u[Max(I)].rank

zslGetElementByRank(zsl, rank) ==
  LET u == Seek(zsl, LAMBDA y, k : k <= rank)
      I == {i \in 1..zsl.level : u[i].rank = rank}
  IN  IF I = {} THEN NoZ ELSE u[Max(I)].x

-----------------------------------------------------------------------------
(* The ziplist: member, score, member, score, ... *)

zzlGetScore(zl, sptr) == zzlStrtod(ziplistGet(zl, sptr))
zzlCompareElements(zl, eptr, ele) == Lex(ziplistGet(zl, eptr)) - Lex(ele)
zzlLength(zl) == ziplistLen(zl) \div 2

(* The member after, and the one before, the one at eptr. *)
zzlNext(zl, eptr) == ziplistNext(zl, ziplistNext(zl, eptr))
zzlPrev(zl, eptr) ==
  LET sptr == ziplistPrev(zl, eptr)
  IN  IF sptr = Nil THEN Nil ELSE ziplistPrev(zl, sptr)

(* The first member from eptr on, step by step, for which Found holds. *)
First(zl, eptr, Found(_)) ==
  LET Walk[p \in Int] ==
        IF p = Nil THEN Nil ELSE IF Found(p) THEN p ELSE Walk[zzlNext(zl, p)]
  IN  Walk[eptr]

Last1(zl, eptr, Found(_)) ==
  LET Walk[p \in Int] ==
        IF p = Nil THEN Nil ELSE IF Found(p) THEN p ELSE Walk[zzlPrev(zl, p)]
  IN  Walk[eptr]

ScoreOf(zl, eptr) == zzlGetScore(zl, ziplistNext(zl, eptr))

zzlIsInRange(zl, r) ==
  LET p == ziplistIndex(zl, -1)
  IN  /\ ~EmptyRange(r)
      /\ p # Nil /\ zslValueGteMin(zzlGetScore(zl, p), r)
      /\ zslValueLteMax(zzlGetScore(zl, ziplistIndex(zl, 1)), r)

zzlFirstInRange(zl, r) ==
  LET p == First(zl, ziplistIndex(zl, 0),
                 LAMBDA e : zslValueGteMin(ScoreOf(zl, e), r))
  IN  IF ~zzlIsInRange(zl, r) THEN Nil
      ELSE IF p # Nil /\ zslValueLteMax(ScoreOf(zl, p), r) THEN p ELSE Nil

zzlLastInRange(zl, r) ==
  LET p == Last1(zl, ziplistIndex(zl, -2),
                 LAMBDA e : zslValueLteMax(ScoreOf(zl, e), r))
  IN  IF ~zzlIsInRange(zl, r) THEN Nil
      ELSE IF p # Nil /\ zslValueGteMin(ScoreOf(zl, p), r) THEN p ELSE Nil

zzlLexValueGteMin(zl, p, r) == zslLexValueGteMin(ziplistGet(zl, p), r)
zzlLexValueLteMax(zl, p, r) == zslLexValueLteMax(ziplistGet(zl, p), r)

zzlIsInLexRange(zl, r) ==
  LET p == ziplistIndex(zl, -2)
  IN  /\ ~EmptyLexRange(r)
      /\ p # Nil /\ zzlLexValueGteMin(zl, p, r)
      /\ zzlLexValueLteMax(zl, ziplistIndex(zl, 0), r)

zzlFirstInLexRange(zl, r) ==
  LET p == First(zl, ziplistIndex(zl, 0), LAMBDA e : zzlLexValueGteMin(zl, e, r))
  IN  IF ~zzlIsInLexRange(zl, r) THEN Nil
      ELSE IF p # Nil /\ zzlLexValueLteMax(zl, p, r) THEN p ELSE Nil

zzlLastInLexRange(zl, r) ==
  LET p == Last1(zl, ziplistIndex(zl, -2), LAMBDA e : zzlLexValueLteMax(zl, e, r))
  IN  IF ~zzlIsInLexRange(zl, r) THEN Nil
      ELSE IF p # Nil /\ zzlLexValueGteMin(zl, p, r) THEN p ELSE Nil

zzlFind(zl, ele) ==
  First(zl, ziplistIndex(zl, 0), LAMBDA e : ziplistCompare(zl, e, ele))

zzlDelete(zl, eptr) == ziplistDelete(ziplistDelete(zl, eptr), eptr)

zzlInsertAt(zl, eptr, ele, score) ==
  IF eptr = Nil
  THEN ziplistPush(ziplistPush(zl, ele, "tail"), d2string(score), "tail")
  ELSE LET z == ziplistInsert(zl, eptr, ele)
       IN  ziplistInsert(z, ziplistNext(z, eptr), d2string(score))

(* Before the first member that is greater by its score, then by its bytes.*)
zzlInsert(zl, ele, score) ==
  zzlInsertAt(zl, First(zl, ziplistIndex(zl, 0), LAMBDA e :
                    \/ ScoreOf(zl, e) > score
                    \/ ScoreOf(zl, e) = score /\ zzlCompareElements(zl, e, ele) > 0),
              ele, score)

(* Pairs are deleted at eptr while In holds of the one that has moved there.*)
DeletePairs(zl, eptr, In(_, _)) ==
  FoldLeft(LAMBDA z, i : IF ~AtEnd(z, eptr) /\ In(z, eptr) THEN zzlDelete(z, eptr)
                         ELSE z,
           zl, [i \in 1..IF eptr = Nil THEN 0 ELSE Len(zl.es) |-> i])

zzlDeleteRangeByScore(zl, r) ==
  DeletePairs(zl, zzlFirstInRange(zl, r),
              LAMBDA z, p : zslValueLteMax(ScoreOf(z, p), r))

zzlDeleteRangeByLex(zl, r) ==
  DeletePairs(zl, zzlFirstInLexRange(zl, r), LAMBDA z, p : zzlLexValueLteMax(z, p, r))

zzlDeleteRangeByRank(zl, start, end) ==
  ziplistDeleteRange(zl, 2 * (start - 1), 2 * (end - start + 1))

-----------------------------------------------------------------------------
(* The sorted set *)

Ziplisted(zl) == [enc |-> "ziplist", zl |-> zl]
Skiplisted(zsl, dict) == [enc |-> "skiplist", zsl |-> zsl, dict |-> dict]
IsZl(zs) == zs.enc = "ziplist"

NodeOf(zsl, ele) == CHOOSE x \in DOMAIN zsl.node \ {Header} : zsl.node[x].ele = ele

(* zslInsert and dictAdd. *)
InsertBoth(zs, score, ele, level) ==
  LET zsl == zslInsert(zs.zsl, score, ele, level)
  IN  Skiplisted(zsl, [e \in DOMAIN zs.dict \union {ele} |->
                         IF e = ele THEN NodeOf(zsl, ele) ELSE zs.dict[e]])

EmptySkiplist(maxlevel) == Skiplisted(zslCreate(maxlevel), [e \in {} |-> NoZ])

(* The encoding of a new sorted set depends on its first member. *)
zaddCreate(ele, maxlevel) ==
  IF zset_max_ziplist_entries = 0 \/ zset_max_ziplist_value < Bytes(ele)
  THEN EmptySkiplist(maxlevel) ELSE Ziplisted(ziplistNew)

zsetLength(zs) == IF IsZl(zs) THEN zzlLength(zs.zl) ELSE zs.zsl.length

Pairs(zl) == [i \in 1..Len(zl.es) \div 2 |->
               <<zl.es[2 * i - 1].c.v, zzlStrtod(zl.es[2 * i].c.v)>>]

(* The nodes of a skiplist from its first one to its last one. *)
Nodes0(zsl) ==
  LET Walk[x \in Int] == IF x = NoZ THEN <<>> ELSE <<x>> \o Walk[Fwd0(zsl, x)]
  IN  Walk[Fwd0(zsl, Header)]

(* To the other encoding; L gives the levels of the new nodes. *)
zsetConvert(zs, L(_), maxlevel) ==
  IF IsZl(zs)
  THEN FoldLeft(LAMBDA z, p : InsertBoth(z, p[2], p[1], L(p[1])),
                EmptySkiplist(maxlevel), Pairs(zs.zl))
  ELSE Ziplisted(FoldLeft(LAMBDA zl, x : zzlInsertAt(zl, Nil, zs.zsl.node[x].ele,
                                                     zs.zsl.node[x].score),
                          ziplistNew, Nodes0(zs.zsl)))

zsetConvertToZiplistIfNeeded(zs, maxelelen) ==
  IF ~IsZl(zs) /\ zs.zsl.length <= zset_max_ziplist_entries
     /\ maxelelen <= zset_max_ziplist_value
  THEN zsetConvert(zs, LAMBDA e : 1, 1) ELSE zs

NoScore == <<>>

(* <<score>>, or no score. *)
zsetScore(zs, ele) ==
  IF IsZl(zs)
  THEN LET p == zzlFind(zs.zl, ele)
       IN  IF p = Nil THEN NoScore ELSE <<ScoreOf(zs.zl, p)>>
  ELSE IF ele \in DOMAIN zs.dict THEN <<zs.zsl.node[zs.dict[ele]].score>>
       ELSE NoScore

(* The dict points at the score of the node that holds the member now. *)
ScoreMoved(zs, u, ele) == [zs EXCEPT !.zsl = u.zsl, !.dict[ele] = u.x]

(* A member is added or its score changed; ret is the flag returned. *)
zsetAdd(zs, arg, ele, flags, L(_), maxlevel) ==
  LET cur == zsetScore(zs, ele)
      score == IF "incr" \in flags /\ cur # NoScore THEN arg + cur[1] ELSE arg
      Ret(z, ret) == [zs |-> z, ret |-> ret]
      z1 == Ziplisted(zzlInsert(zs.zl, ele, score))
      long == \/ zzlLength(z1.zl) > zset_max_ziplist_entries
              \/ Bytes(ele) > zset_max_ziplist_value
      Moved == IF IsZl(zs)
               THEN Ziplisted(zzlInsert(zzlDelete(zs.zl, zzlFind(zs.zl, ele)),
                                        ele, score))
               ELSE ScoreMoved(zs, zslUpdateScore(zs.zsl, cur[1], ele, score, L(ele)),
                               ele)
      Added == IF ~IsZl(zs) THEN InsertBoth(zs, score, ele, L(ele))
               ELSE IF long THEN zsetConvert(z1, L, maxlevel) ELSE z1
  IN  CASE cur = NoScore /\ "xx" \in flags -> Ret(zs, "nop")
        [] cur = NoScore /\ "xx" \notin flags -> Ret(Added, "added")
        [] cur # NoScore /\ \/ "nx" \in flags
                            \/ "lt" \in flags /\ score >= cur[1]
                            \/ "gt" \in flags /\ score <= cur[1] -> Ret(zs, "nop")
        [] OTHER -> IF score = cur[1] THEN Ret(zs, "same") ELSE Ret(Moved, "updated")

zsetRemoveFromSkiplist(zs, ele) ==
  LET d == zslDelete(zs.zsl, zs.zsl.node[zs.dict[ele]].score, ele)
  IN  Skiplisted(d.zsl, [e \in DOMAIN zs.dict \ {ele} |-> zs.dict[e]])

zsetDel(zs, ele) ==
  CASE IsZl(zs) -> LET p == zzlFind(zs.zl, ele)
                   IN  IF p = Nil THEN zs ELSE Ziplisted(zzlDelete(zs.zl, p))
    [] ~IsZl(zs) /\ ele \in DOMAIN zs.dict -> zsetRemoveFromSkiplist(zs, ele)
    [] OTHER -> zs

(* The rank of a member from 0 on, -1 for none. *)
zsetRank(zs, ele, reverse) ==
  LET Count(zl) ==
        LET Walk[p \in Int, rank \in Nat] ==
              IF p = Nil THEN 0 ELSE IF ziplistCompare(zl, p, ele) THEN rank
              ELSE Walk[zzlNext(zl, p), rank + 1]
        IN  Walk[ziplistIndex(zl, 0), 1]
      rank == IF IsZl(zs) THEN Count(zs.zl)
              ELSE IF ele \notin DOMAIN zs.dict THEN 0
              ELSE zslGetRank(zs.zsl, zs.zsl.node[zs.dict[ele]].score, ele)
  IN  CASE rank = 0 -> -1 [] rank # 0 /\ reverse -> zsetLength(zs) - rank
        [] OTHER -> rank - 1

(* A copy, built from the last node to the first. *)
zsetDup(zs, L(_), maxlevel) ==
  IF IsZl(zs) THEN zs
  ELSE FoldLeft(LAMBDA z, x : InsertBoth(z, zs.zsl.node[x].score, zs.zsl.node[x].ele,
                                         L(zs.zsl.node[x].ele)),
                EmptySkiplist(maxlevel), Reverse(Nodes0(zs.zsl)))

(* ZREMRANGEBY*: a range of ranks, of scores or of members. *)
zremrangeGenericCommand(zs, by, r) ==
  IF IsZl(zs)
  THEN Ziplisted(CASE by = "rank"  -> zzlDeleteRangeByRank(zs.zl, r.min + 1, r.max + 1)
                   [] by = "score" -> zzlDeleteRangeByScore(zs.zl, r)
                   [] by = "lex"   -> zzlDeleteRangeByLex(zs.zl, r))
  ELSE CASE by = "rank"  -> zslDeleteRangeByRank(zs, r.min + 1, r.max + 1)
         [] by = "score" -> zslDeleteRangeByScore(zs, r)
         [] by = "lex"   -> zslDeleteRangeByLex(zs, r)

-----------------------------------------------------------------------------
(* What has to hold of a sorted set: the pairs of a ziplist are in order   *)
(* and no member is there twice; every level of a skiplist is a sublist of *)
(* the one below, its spans count the nodes it jumps over, and the dict    *)
(* points at the node of every member.                                     *)

PairLess(p, q) == p[2] < q[2] \/ (p[2] = q[2] /\ Lex(p[1]) < Lex(q[1]))

zsetZiplistValidateIntegrity(zl) ==
  /\ ziplistValidateIntegrity(zl)
  /\ Len(zl.es) % 2 = 0
  /\ \A i, j \in 1..Len(zl.es) :
       i % 2 = 1 /\ j % 2 = 1 /\ zl.es[i].c.v = zl.es[j].c.v => i = j

SkiplistSound(zsl) ==
  LET order == Nodes0(zsl)
      Place(x) == IF x = Header THEN 0 ELSE SelectInSeq(order, LAMBDA y : y = x)
  IN  /\ Range(order) = DOMAIN zsl.node \ {Header}
      /\ zsl.length = Len(order)
      /\ zsl.tail = IF order = <<>> THEN NoZ ELSE order[Len(order)]
      /\ \A k \in 1..Len(order) :
           zsl.node[order[k]].back = IF k = 1 THEN NoZ ELSE order[k - 1]
      /\ \A x \in DOMAIN zsl.node : \A i \in 1..Min({zsl.level, Len(zsl.node[x].lv)}) :
           LET l == zsl.node[x].lv[i]
               Right == {y \in DOMAIN zsl.node \ {Header} :
                          Place(y) > Place(x) /\ Len(zsl.node[y].lv) >= i}
           IN  IF Right = {}
               THEN l.fwd = NoZ /\ l.span = zsl.length - Place(x)
               ELSE /\ l.fwd \in Right
                    /\ \A y \in Right : Place(l.fwd) <= Place(y)
                    /\ l.span = Place(l.fwd) - Place(x)

ZsetSound(zs) ==
  LET ps == IF IsZl(zs) THEN Pairs(zs.zl)
            ELSE [k \in 1..zs.zsl.length |->
                   LET n == zs.zsl.node[Nodes0(zs.zsl)[k]] IN <<n.ele, n.score>>]
  IN  /\ IF IsZl(zs) THEN zs.zl.ok /\ zsetZiplistValidateIntegrity(zs.zl)
         ELSE /\ SkiplistSound(zs.zsl)
              /\ \A e \in DOMAIN zs.dict : /\ zs.dict[e] \in DOMAIN zs.zsl.node
                                           /\ zs.zsl.node[zs.dict[e]].ele = e
              /\ \A p \in Range(ps) : p[1] \in DOMAIN zs.dict
      /\ \A i \in 1..Len(ps) - 1 : PairLess(ps[i], ps[i + 1])

-----------------------------------------------------------------------------
(***************************************************************************)
(* The encodings of sets and hashes: a set as a sorted array of integers   *)
(* (intset.c) or as a dict (t_set.c), a hash as a ziplist of fields and    *)
(* values or as a dict (t_hash.c).  A value moves to the second encoding   *)
(* when it no longer fits the first, and never back.                       *)
(*                                                                         *)
(* Abstractions.  The array is a sequence of integers with the width of    *)
(* the encoding; writing an integer keeps the bits that fit.  A dict is a  *)
(* set of members, or a function from fields to values.                    *)
(***************************************************************************)

CONSTANTS
  set_max_intset_entries,
  hash_max_ziplist_entries,
  hash_max_ziplist_value

-----------------------------------------------------------------------------
(* The intset *)

_intsetValueEncoding(v) ==
  CASE ~Between(v, INT32_MAX) -> 8
    [] Between(v, INT32_MAX) /\ ~Between(v, 32767) -> 4
    [] OTHER -> 2

(* What an array of an encoding holds of an integer. *)
_intsetSet(v, enc) ==
  LET m == IF enc = 2 THEN 32768 ELSE INT32_MAX + 1
  IN  IF enc = 8 THEN v ELSE ((v + m) % (2 * m)) - m

intsetNew == [enc |-> 2, a |-> <<>>]

(* Whether the value is there, and the place where it is or belongs, from  *)
(* 1 on.                                                                   *)
intsetSearch(is, value) ==
  LET n == Len(is.a)
      Bisect[min \in Int, max \in Int] ==
        IF max < min THEN [found |-> FALSE, pos |-> min]
        ELSE LET mid == (min + max) \div 2
             IN  CASE value > is.a[mid] -> Bisect[mid + 1, max]
                   [] value < is.a[mid] -> Bisect[min, mid - 1]
                   [] OTHER -> [found |-> TRUE, pos |-> mid]
  IN  CASE n = 0 -> [found |-> FALSE, pos |-> 1]
        [] n > 0 /\ value > is.a[n] -> [found |-> FALSE, pos |-> n + 1]
        [] n > 0 /\ value < is.a[1] -> [found |-> FALSE, pos |-> 1]
        [] OTHER -> Bisect[1, n]

(* A value that needs a wider array is less than all the others or greater.*)
intsetUpgradeAndAdd(is, value) ==
  LET enc == _intsetValueEncoding(value)
      old == [i \in 1..Len(is.a) |-> _intsetSet(is.a[i], enc)]
  IN  [enc |-> enc, a |-> IF value < 0 THEN <<value>> \o old ELSE Append(old, value)]

(* The array, and whether the value is new. *)
intsetAdd(is, value) ==
  LET s == intsetSearch(is, value)
  IN  IF _intsetValueEncoding(value) > is.enc
      THEN [is |-> intsetUpgradeAndAdd(is, value), new |-> TRUE]
      ELSE IF s.found THEN [is |-> is, new |-> FALSE]
      ELSE [is |-> [is EXCEPT !.a = InsertAt(@, s.pos, _intsetSet(value, is.enc))],
            new |-> TRUE]

intsetFind(is, value) ==
  _intsetValueEncoding(value) <= is.enc /\ intsetSearch(is, value).found

intsetRemove(is, value) ==
  IF intsetFind(is, value)
  THEN [is EXCEPT !.a = RemoveAt(@, intsetSearch(is, value).pos)] ELSE is

intsetValidateIntegrity(is) ==
  /\ \A i \in 1..Len(is.a) : is.enc >= _intsetValueEncoding(is.a[i])
  /\ \A i \in 1..Len(is.a) - 1 : is.a[i] < is.a[i + 1]

-----------------------------------------------------------------------------
(* The set type *)

AsIntset(is) == [enc |-> "intset", is |-> is]
AsHt(d) == [enc |-> "ht", d |-> d]

(* isSdsRepresentableAsLongLong *)
IsInt(v) == v[1] = "int"

setTypeCreate(v) == IF IsInt(v) THEN AsIntset(intsetNew) ELSE AsHt({})

setTypeSize(so) == IF so.enc = "ht" THEN Cardinality(so.d) ELSE Len(so.is.a)

(* The members, as strings. *)
setTypeNext(so) ==
  IF so.enc = "ht" THEN so.d ELSE {<<"int", so.is.a[i]>> : i \in 1..Len(so.is.a)}

setTypeConvert(so) == AsHt(setTypeNext(so))

(* A set that has grown past the limit becomes a dict. *)
Grown(a, so) ==
  IF a.new /\ Len(a.is.a) > set_max_intset_entries
  THEN setTypeConvert(AsIntset(a.is)) ELSE AsIntset(a.is)

setTypeAdd(so, v) ==
  CASE so.enc = "ht" -> AsHt(so.d \union {v})
    [] so.enc = "intset" /\ IsInt(v) -> Grown(intsetAdd(so.is, v[2]), so)
    [] OTHER -> AsHt(setTypeConvert(so).d \union {v})

setTypeRemove(so, v) ==
  CASE so.enc = "ht" -> AsHt(so.d \ {v})
    [] so.enc = "intset" /\ IsInt(v) -> AsIntset(intsetRemove(so.is, v[2]))
    [] OTHER -> so

setTypeIsMember(so, v) ==
  IF so.enc = "ht" THEN v \in so.d ELSE IsInt(v) /\ intsetFind(so.is, v[2])

setTypeDup(so) ==
  IF so.enc = "intset" THEN so ELSE FoldSet(LAMBDA v, d : setTypeAdd(d, v), AsHt({}), so.d)

SetSound(so) ==
  so.enc = "intset" =>
    intsetValidateIntegrity(so.is) /\ setTypeSize(so) <= set_max_intset_entries

-----------------------------------------------------------------------------
(* The hash type *)

AsZiplist(zl) == [enc |-> "ziplist", zl |-> zl]
NoFields == [f \in {} |-> <<>>]
createHashObject == AsZiplist(ziplistNew)

hashTypeLength(h) ==
  IF h.enc = "ziplist" THEN ziplistLen(h.zl) \div 2 ELSE Cardinality(DOMAIN h.d)

StringLen(v) ==
  LET D[m \in Nat] == IF m < 10 THEN 1 ELSE 1 + D[m \div 10]
  IN  CASE v[1] = "str" -> v[3] [] v[1] = "int" /\ v[2] < 0 -> 1 + D[-v[2]]
        [] OTHER -> D[v[2]]

(* The field's place in the ziplist: every other entry is a field. *)
FieldAt(zl, f) ==
  LET p == ziplistIndex(zl, 0) IN IF p = Nil THEN Nil ELSE ziplistFind(zl, p, f, 1)

hashTypeGetFromZiplist(h, f) ==
  LET p == FieldAt(h.zl, f)
  IN  IF p = Nil THEN <<>> ELSE <<ziplistGet(h.zl, ziplistNext(h.zl, p))>>

(* <<value>>, or <<>> for a field that is not there. *)
hashTypeGetValue(h, f) ==
  CASE h.enc = "ziplist" -> hashTypeGetFromZiplist(h, f)
    [] h.enc = "ht" /\ f \in DOMAIN h.d -> <<h.d[f]>>
    [] OTHER -> <<>>

(* The pairs in the order of a ziplist. *)
hashTypeNext(zl) ==
  LET Walk[p \in Int] ==
        IF p = Nil THEN <<>>
        ELSE LET q == ziplistNext(zl, p)
             IN  << <<ziplistGet(zl, p), ziplistGet(zl, q)>> >> \o Walk[ziplistNext(zl, q)]
  IN  Walk[ziplistIndex(zl, 0)]

Put(d, f, v) == [g \in DOMAIN d \union {f} |-> IF g = f THEN v ELSE d[g]]

hashTypeConvert(h) ==
  AsHt(FoldLeft(LAMBDA d, p : Put(d, p[1], p[2]), NoFields, hashTypeNext(h.zl)))

(* A field or a value that is too long for the ziplist. *)
hashTypeTryConversion(h, args) ==
  IF h.enc = "ziplist" /\ \E v \in args : StringLen(v) > hash_max_ziplist_value
  THEN hashTypeConvert(h) ELSE h

hashTypeSet(h, f, v) ==
  LET p == FieldAt(h.zl, f)
      zl == IF p # Nil THEN ziplistReplace(h.zl, ziplistNext(h.zl, p), v)
            ELSE ziplistPush(ziplistPush(h.zl, f, "tail"), v, "tail")
      z == AsZiplist(zl)
  IN  IF h.enc = "ht" THEN AsHt(Put(h.d, f, v))
      ELSE IF hashTypeLength(z) > hash_max_ziplist_entries THEN hashTypeConvert(z)
      ELSE z

(* HSET: the arguments are looked at, then the pair is set. *)
hsetCommand(h, f, v) == hashTypeSet(hashTypeTryConversion(h, {f, v}), f, v)

hashTypeDelete(h, f) ==
  IF h.enc = "ht" THEN AsHt([g \in DOMAIN h.d \ {f} |-> h.d[g]])
  ELSE LET p == FieldAt(h.zl, f)
       IN  IF p = Nil THEN h
           ELSE AsZiplist(ziplistDelete(ziplistDelete(h.zl, p), p))

hashTypeDup(h) == h

hashZiplistValidateIntegrity(zl) ==
  /\ ziplistValidateIntegrity(zl)
  /\ Len(zl.es) % 2 = 0
  /\ \A i, j \in 1..Len(zl.es) :
       i % 2 = 1 /\ j % 2 = 1 /\ zl.es[i].c.v = zl.es[j].c.v => i = j

HashSound(h) ==
  h.enc = "ziplist" => /\ h.zl.ok /\ hashZiplistValidateIntegrity(h.zl)
                       /\ hashTypeLength(h) <= hash_max_ziplist_entries

=============================================================================
