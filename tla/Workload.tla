------------------------------ MODULE Workload ------------------------------
(* The scripted workloads of offline replay (replay/workload.py) over the    *)
(* groups of the fixture corpus (replay/corpus.py).  A document is           *)
(* <<group, index>>; what the generator draws for a task, the documents of   *)
(* its hot work and their chain, is an argument.                             *)
EXTENDS Integers, Sequences, FiniteSets, SequencesExt

CONSTANTS Unit(_, _)    \* _unit of a purpose and an event id, in percent

\* How many documents generate_corpus(rehab=True) puts in each group.
GroupSize ==
  [hotA |-> 15, hotB |-> 15, criticalA |-> 4, criticalB |-> 4, oldA |-> 4, newA |-> 4, oldB |-> 4, newB |-> 4,
   conflictA |-> 4, conflictB |-> 4, chainA |-> 9, chainB |-> 6, long |-> 4,
   miscA |-> 60 - (15 + 4 + 8 + 4 + 9 + 2), miscB |-> 60 - (15 + 4 + 8 + 4 + 6 + 2),
   useless |-> 6, sharedHot |-> 6, miscShared |-> 8]
Members(group) == {<<group, i>> : i \in 0 .. GroupSize[group] - 1}
Corpus == UNION {Members(group) : group \in DOMAIN GroupSize}

Firsts(group, n) == [i \in 1 .. n |-> <<group, i - 1>>]
PreloadSet == Firsts("useless", 6) \o Firsts("sharedHot", 6) \o Firsts("hotA", 5)
              \o Firsts("hotB", 5) \o Firsts("oldA", 4)
Harmful == Firsts("miscA", 2)
FreshPool == Firsts("miscB", 15)
Rehab == [i \in 1 .. 4 |-> <<"miscB", 14 + i>>]
ScanPool == [i \in 1 .. GroupSize["miscA"] - 2 |-> <<"miscA", i + 1>>] \o Firsts("miscShared", 8)

-----------------------------------------------------------------------------
(* A task under construction: its plan (refs, required, forbidden) and the   *)
(* events pending, [type, art, cls, droppable].                              *)
Pending(type, art) == [type |-> type, art |-> art, cls |-> "none", droppable |-> TRUE]

SessionTasks == 5
NewTask(idx, segment) ==
  [idx |-> idx, segment |-> segment, refs |-> <<>>, required |-> {}, forbidden |-> {}, pending |-> <<>>]

Emit(t, events) == [t EXCEPT !.pending = @ \o events]
Ref(t, type, arts) ==
  [t EXCEPT !.refs = @ \o [i \in DOMAIN arts |-> <<type, arts[i]>>],
            !.pending = @ \o [i \in DOMAIN arts |-> Pending(type, arts[i])]]
Require(t, arts) == [t EXCEPT !.required = @ \cup ToSet(arts)]
ReadRequired(t, arts) == Require(Ref(t, "read", arts), arts)

PreloadBlock(t) ==
  IF t.idx % SessionTasks # 0 THEN t
  ELSE Emit(t, [i \in DOMAIN PreloadSet |-> [Pending("loaded", PreloadSet[i]) EXCEPT !.cls = "preload"]])

\* Each document drawn is read; the first may be cited besides, any of them applied.
HotWork(t, work) ==
  Require(FoldLeft(LAMBDA s, w : LET read == Ref(s, "read", <<w[1]>>)
                                 IN IF w[2] = "read" THEN read ELSE Ref(read, w[2], <<w[1]>>), t, work),
          [i \in DOMAIN work |-> work[i][1]])

Chain(group, n) == [j \in 1 .. 3 |-> <<group, 3 * n + j - 1>>]

\* n documents of a pool from a cursor on; a pool that is used up gives fewer.
From(pool, cursor, n) == SubSeq(pool, cursor + 1, IF cursor + n > Len(pool) THEN Len(pool) ELSE cursor + n)
\* n documents round a pool.
Around(pool, cursor, n) == [i \in 1 .. n |-> pool[1 + ((cursor + i - 1) % Len(pool))]]

-----------------------------------------------------------------------------
(* The families.  draw is [work, chain].                                     *)
TaskFA(idx, draw) ==
  IF 20 <= idx /\ idx <= 22 THEN Ref(NewTask(idx, "scan"), "read", From(ScanPool, 6 * (idx - 20), 6))
  ELSE IF idx \in {10, 30}
       THEN Require(Ref(NewTask(idx, "retry"), "read", [i \in 1 .. 20 |-> <<"hotA", 0>>]), <<<<"hotA", 0>>>>)
  ELSE LET hot == HotWork(NewTask(idx, "hot"), draw.work)
       IN IF idx % 7 = 3 THEN ReadRequired(hot, Chain("chainA", draw.chain)) ELSE hot

\* The shortest prefix of a pool that holds room = 1.2 budgets.
RECURSIVE CycleSet(_, _, _)
CycleSet(pool, room, size) ==
  IF pool = <<>> \/ room <= 0 THEN <<>>
  ELSE <<Head(pool)>> \o CycleSet(Tail(pool), room - size[Head(pool)], size)
CyclePool == Firsts("hotB", 15) \o Firsts("chainB", 6)
             \o SelectSeq(Firsts("miscB", GroupSize["miscB"]), LAMBDA a : a \notin ToSet(FreshPool))
             \o Firsts("miscShared", 8)

\* The segment also says whose hot documents draw.work comes from.
SegmentFB(idx) == IF idx < 50 THEN "phase-a" ELSE IF 70 <= idx /\ idx <= 84 THEN "cycle"
                  ELSE IF idx < 100 THEN "phase-b" ELSE "return-a"
TaskFB(idx, draw, cycle) ==
  LET t == PreloadBlock(NewTask(idx, SegmentFB(idx)))
      hot == HotWork(t, draw.work)
  IN IF t.segment = "cycle" THEN ReadRequired(t, Around(cycle, 5 * (idx - 70), 5))
     ELSE IF t.segment = "phase-b" /\ idx % 9 = 5 THEN ReadRequired(hot, Chain("chainB", draw.chain))
     ELSE hot

SupersedeAt == 25
\* Mutant of HarmfulCorrected: the first correction comes after the second read.
HarmfulCorrectedLate == {4, 8}
HarmfulCorrected == {0, 8}
RehabRead == {1, 3, 6, 9, 12, 15, 19}
RehabCorrected == 20
RehabRequired == {26, 28, 32, 34, 36, 38, 40}
EmitAll(t, type, arts) == Emit(t, [i \in DOMAIN arts |-> Pending(type, arts[i])])

\* What a task does with some documents: read or use them, require them, report on them.
Asks(type, arts) == [type |-> type, arts |-> arts, ref |-> TRUE, required |-> FALSE]
Needs(arts) == [Asks("read", arts) EXCEPT !.required = TRUE]
Reports(type, arts) == [Asks(type, arts) EXCEPT !.ref = FALSE]
Only(cond, act) == IF cond THEN <<act>> ELSE <<>>
Do(t, act) ==
  LET seen == IF act.ref THEN Ref(t, act.type, act.arts) ELSE EmitAll(t, act.type, act.arts)
  IN [seen EXCEPT !.required = IF act.required THEN @ \cup ToSet(act.arts) ELSE @]

StartFC(idx) ==
  LET t == PreloadBlock(NewTask(idx, IF 45 <= idx /\ idx <= 57 THEN "no-locality" ELSE "adversarial"))
  IN IF idx # SupersedeAt THEN t
     ELSE Emit(t,
               [i \in 1 .. 4 |-> [Pending("validity_changed", <<"oldA", i - 1>>) EXCEPT !.droppable = FALSE]])

WorkFC(idx, t, draw) ==
  LET pair == [i \in 1 .. 2 |-> <<"conflictA", 2 * (idx - 30) + i - 1>>]
      rare == <<<<"criticalA", 0>>>>
  IN FoldLeft(Do, HotWork(t, draw.work),
       <<Needs(<<<<IF idx < SupersedeAt THEN "oldA" ELSE "newA", idx % 4>>>>)>>
       \o Only(idx <= 40 /\ idx % 2 = 0, Asks("read", Harmful))
       \o Only(idx \in HarmfulCorrected, Reports("corrected", Harmful))
       \o Only(idx \in RehabRead, Asks("read", Rehab))
       \o Only(idx = RehabCorrected, Reports("corrected", Rehab))
       \o Only(idx \in RehabRequired, Needs(Rehab))
       \o Only(idx \in {30, 31}, Asks("read", pair))
       \o Only(idx \in {30, 31}, Reports("conflicted", pair))
       \o Only(idx = 2, Asks("read", rare))
       \o Only(idx = 2, [Asks("applied", rare) EXCEPT !.required = TRUE])
       \o Only(idx = 58, Needs(rare))
       \o Only(idx \in {5, 15, 35}, Needs(<<<<"long", idx % 2>>>>)))

TaskFC(idx, draw) ==
  LET t == StartFC(idx)
      plan == IF t.segment = "no-locality" THEN Ref(t, "read", From(FreshPool, 4 * (idx - 45), 4))
              ELSE WorkFC(idx, t, draw)
  IN [plan EXCEPT !.forbidden = IF idx >= SupersedeAt THEN Members("oldA") ELSE {}]

-----------------------------------------------------------------------------
(* finish_task: ids first, then the shuffle, then the drops.  next is the    *)
(* last id given, order the permutation of the body.                         *)
IsFeed(item) == item.type = "validity_changed"

\* Mutant of FinishTask: the ids are given to what the shuffle leaves, in its order.
FinishTaskIdsLast(t, next, order, noise) ==
  LET head == SelectSeq(t.pending, IsFeed)
      body == SelectSeq(t.pending, LAMBDA it : ~IsFeed(it))
      all == head \o [i \in DOMAIN body |-> body[order[i]]]
      named == [i \in DOMAIN all |-> [id |-> next + i, item |-> all[i]]]
  IN SelectSeq(named, LAMBDA n : ~(n.item.droppable /\ Unit("drop", n.id) < noise.drop))
FinishTask(t, next, order, noise) ==
  LET head == SelectSeq(t.pending, IsFeed)
      body == SelectSeq(t.pending, LAMBDA it : ~IsFeed(it))
      named == [i \in DOMAIN body |-> [id |-> next + Len(head) + i, item |-> body[i]]]
      all == [i \in DOMAIN head |-> [id |-> next + i, item |-> head[i]]]
             \o [i \in DOMAIN named |-> named[order[i]]]
  IN SelectSeq(all, LAMBDA n : ~(n.item.droppable /\ Unit("drop", n.id) < noise.drop))

\* The task an event is observed with.
TaskOf(t, n, noise) == IF ~IsFeed(n.item) /\ Unit("tidmiss", n.id) < noise.miss THEN -1 ELSE t.idx
=============================================================================
