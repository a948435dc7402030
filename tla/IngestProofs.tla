----------------------------- MODULE IngestProofs -----------------------------
(***************************************************************************)
(* Proofs about Ingest, for every number of sessions, files, lines and     *)
(* scopes, and every order of hooks, ingestions, scans and MCP calls:      *)
(*                                                                         *)
(*  - dedup keys identify events, and a call with a tool_use_id is counted *)
(*    once.  An insertion looks only at keys, so the argument is about     *)
(*    them (KeyInv): the first component of a key names the kind of call   *)
(*    it stands for, and the second, for calls with an id, the call.       *)
(*    Hence the keys that KarcCall and Scan do not look up cannot be there *)
(*    already, and no two keys stand for the same call;                    *)
(*  - the tables say what the agents did (TeleInv).  An ingestion reads a  *)
(*    main file up to some line, so of the turns of a session it has seen  *)
(*    a prefix, and counting in the prefix is counting in the session;     *)
(*    what was true of a row stays true while the log grows;               *)
(*  - an ingestion leaves an event and a link for each Read in scope, as   *)
(*    of the calls that share a key one was parsed first;                  *)
(*  - hence repeating it finds nothing to add.                             *)
(***************************************************************************)
EXTENDS Ingest, TLAPS, FiniteSetTheorems, SequenceTheorems, WellFoundedInduction

\* Facts about the log and the shape of the database
Shape ==
  /\ log \in Seq(Lines)
  /\ hooks \subseteq DOMAIN log
  /\ db = [scopes |-> db.scopes, sessions |-> db.sessions, tasks |-> db.tasks,
           artifacts |-> db.artifacts, events |-> db.events, obs |-> db.obs]

\* The key of an event of call i, by the kind of line i
KeyOf(key, i) ==
  CASE log[i].kind = "read" /\ log[i].hasId -> key = <<"tu", i>>
    [] log[i].kind = "read" /\ ~log[i].hasId -> key[1] = "bucket"
    [] log[i].kind = "load" -> key[1] = "loaded"
    [] log[i].kind = "get" -> key = <<"karc", i>>
    [] log[i].kind = "search" -> key = <<"karc", i, log[i].path>>
    [] OTHER -> FALSE

IsSeed(e) == \E p \in Path : e = Event(<<"seed", p>>, 0, 0, 0, "manual")
KeyFits(e) == e.call # 0 => e.call \in DOMAIN log /\ KeyOf(e.key, e.call)

KeysFit(E) == \A e \in E : IsSeed(e) \/ (e.call # 0 /\ KeyFits(e))
UniqueKeys(E) == \A e, f \in E : e.key = f.key => e = f

KeyInv == Shape /\ KeysFit(db.events) /\ UniqueKeys(db.events)

-----------------------------------------------------------------------------
(* What the invariant says.                                                *)

LEMMA Tags ==
  ASSUME KeyInv, NEW e \in db.events
  PROVE  \/ IsSeed(e) /\ e.key[1] = "seed" /\ e.call = 0
         \/ e.call \in DOMAIN log /\ e.key[1] \in {"tu", "bucket", "loaded", "karc"}
BY DEF KeyInv, KeysFit, IsSeed, Event, KeyFits, KeyOf

LEMMA OneEvent == KeyInv => OneEventPerCall
<1> SUFFICES ASSUME KeyInv, NEW e \in db.events, NEW f \in db.events,
                    e.call = f.call, e.call # 0, log[e.call].hasId
             PROVE  e = f
  BY DEF OneEventPerCall
<1>1. ~IsSeed(e) /\ ~IsSeed(f)
  BY DEF IsSeed, Event
<1>2. e.call \in DOMAIN log /\ KeyOf(e.key, e.call) /\ KeyOf(f.key, e.call)
  BY <1>1 DEF KeyInv, KeysFit, KeyFits
<1>3. log[e.call] \in Lines
  BY <1>2 DEF KeyInv, Shape
<1>4. log[e.call].kind \in {"read", "get", "search"}
  BY <1>3, LinesAssumption
<1>5. e.key = f.key
  BY <1>2, <1>4 DEF KeyOf
<1> QED BY <1>5 DEF KeyInv, UniqueKeys

-----------------------------------------------------------------------------
(* How a step keeps it.                                                    *)

\* A line more does not change what the keys of the lines before it are.
LEMMA Grows ==
  ASSUME KeyInv, NEW line \in Lines, Recorded(line)
  PROVE  /\ log' \in Seq(Lines) /\ DOMAIN log \subseteq DOMAIN log'
         /\ Now + 1 \in DOMAIN log' /\ Now + 1 \notin DOMAIN log
         /\ Now + 1 # 0 /\ log'[Now + 1] = line
         /\ \A e \in db.events : IsSeed(e) \/ (e.call # 0 /\ KeyFits(e))'
<1>1. log \in Seq(Lines)
  BY DEF KeyInv, Shape
<1>2. /\ log' \in Seq(Lines) /\ Len(log') = Len(log) + 1
      /\ \A i \in 1..Len(log) : log'[i] = log[i]
      /\ log'[Len(log) + 1] = line
  BY <1>1 DEF Recorded
<1>3. DOMAIN log = 1..Len(log) /\ DOMAIN log' = 1..Len(log')
  BY <1>1, <1>2
<1>4. Len(log) \in Nat
  BY <1>1
<1>5. ASSUME NEW e \in db.events, ~IsSeed(e)
      PROVE  e.call # 0 /\ e.call \in DOMAIN log' /\ KeyOf(e.key, e.call)'
  <2>1. e.call # 0 /\ e.call \in DOMAIN log /\ KeyOf(e.key, e.call)
    BY <1>5 DEF KeyInv, KeysFit, KeyFits
  <2>2. log'[e.call] = log[e.call]
    BY <2>1, <1>2, <1>3
  <2> QED BY <2>1, <2>2, <1>2, <1>3, <1>4 DEF KeyOf
<1>6. /\ DOMAIN log \subseteq DOMAIN log'
      /\ Now + 1 \in DOMAIN log' /\ Now + 1 \notin DOMAIN log /\ Now + 1 # 0
      /\ log'[Now + 1] = line
  BY <1>2, <1>3, <1>4 DEF Now
<1> QED BY <1>2, <1>5, <1>6 DEF KeyFits

\* INSERT OR IGNORE of a fitting event.
LEMMA Inserts ==
  ASSUME KeyInv, NEW e, KeyFits(e), e.call # 0,
         db'.events = InsertEvent(db, e), UNCHANGED log
  PROVE  KeysFit(db.events)' /\ UniqueKeys(db.events)'
<1>1. \A f \in db'.events : f \in db.events \/ (f = e /\ e.key \notin Keys(db))
  BY DEF InsertEvent
<1>2. \A f \in db.events : f.key \in Keys(db)
  BY DEF Keys
<1>3. UniqueKeys(db.events)'
  BY <1>1, <1>2 DEF UniqueKeys, KeyInv
<1>4. \A f \in db'.events : IsSeed(f) \/ (f.call # 0 /\ KeyFits(f))
  BY <1>1 DEF KeyInv, KeysFit
<1>5. \A f : KeyFits(f) => KeyFits(f)'
  BY DEF KeyFits, KeyOf
<1>6. \A f : IsSeed(f) => IsSeed(f)'
  BY DEF IsSeed, Event
<1>7. \A f \in db'.events : IsSeed(f)' \/ (f.call # 0 /\ KeyFits(f)')
  BY <1>4, <1>5, <1>6
<1> QED BY <1>3, <1>7 DEF KeysFit

LEMMA WorksStep == ASSUME KeyInv, Works PROVE KeyInv'
<1> PICK line \in Lines :
      /\ line.kind \in {"turn", "read", "load"}
      /\ Recorded(line)
      /\ hooks' = IF line.kind = "turn" THEN hooks ELSE hooks \cup {Now + 1}
      /\ UNCHANGED <<cuts, db>>
  BY DEF Works
<1>1. Shape'
  BY Grows DEF KeyInv, Shape
<1>2. KeysFit(db.events)' /\ UniqueKeys(db.events)'
  BY Grows DEF KeyInv, KeysFit, UniqueKeys, IsSeed, Event
<1> QED BY <1>1, <1>2 DEF KeyInv

\* The MCP server inserts under a key of the call it is answering.
LEMMA KarcCallStep == ASSUME KeyInv, KarcCall PROVE KeyInv'
<1>0. PICK n : n = Now + 1
  OBVIOUS
<1> DEFINE key(line) == IF line.kind = "get" THEN <<"karc", n>>
                        ELSE <<"karc", n, line.path>>
           e(line) == Event(key(line), n, n, 0, "mcp")
<1>1. PICK line \in Lines :
        /\ line.kind \in {"get", "search"}
        /\ Recorded(line)
        /\ hooks' = hooks \cup {n}
        /\ db' = db \/ \E X : db' = [db EXCEPT
             !.events = IF line.path \in db.artifacts THEN @ \cup {e(line)} ELSE @,
             !.obs = X]
  BY <1>0 DEF KarcCall
<1>2. Shape'
  BY <1>0, <1>1, Grows DEF KeyInv, Shape
<1>3. db'.events = db.events \/ db'.events = db.events \cup {e(line)}
  BY <1>1 DEF KeyInv, Shape
<1>4. log'[n] = line /\ n \in DOMAIN log' /\ n \notin DOMAIN log /\ n # 0
  BY <1>0, <1>1, Grows
<1>5. e(line).call = n /\ e(line).key = key(line)
  BY DEF Event
<1>6. KeyOf(key(line), n)'
  BY <1>1, <1>4 DEF KeyOf
<1>7. KeyFits(e(line))' /\ e(line).call # 0
  BY <1>4, <1>5, <1>6 DEF KeyFits
<1>8. \A f \in db.events : (IsSeed(f) \/ (f.call # 0 /\ KeyFits(f)))'
  BY <1>1, Grows DEF IsSeed, Event
<1>9. KeysFit(db.events)'
  BY <1>3, <1>7, <1>8 DEF KeysFit
<1>10. ASSUME NEW f \in db.events PROVE f.key # key(line)
  <2> DEFINE pair == <<"karc", n>>  triple == <<"karc", n, line.path>>
  <2>0. pair[1] = "karc" /\ triple[1] = "karc" /\ pair[2] = n /\ triple[2] = n
    OBVIOUS
  <2>1. CASE IsSeed(f)
    <3>1. f.key[1] = "seed"
      BY <2>1 DEF IsSeed, Event
    <3>2. f.key # pair /\ f.key # triple
      BY <3>1, <2>0
    <3> QED BY <3>2
  <2>2. CASE f.call \in DOMAIN log /\ KeyOf(f.key, f.call)
    <3>1. f.key[1] \in {"tu", "bucket", "loaded"} \/ f.key[2] = f.call
      BY <2>2 DEF KeyOf
    <3>2. f.call # n
      BY <2>2, <1>4
    <3>3. f.key # pair /\ f.key # triple
      <4> HIDE DEF pair, triple
      <4> QED BY <3>1, <3>2, <2>0
    <3> QED BY <3>3
  <2> QED BY <2>1, <2>2 DEF KeyInv, KeysFit, KeyFits
<1>11. UniqueKeys(db.events)'
  BY <1>3, <1>5, <1>10 DEF UniqueKeys, KeyInv
<1> QED BY <1>2, <1>9, <1>11 DEF KeyInv

\* The keys of the three kinds of hooked call fit.
LEMMA HookStep == ASSUME KeyInv, Hook PROVE KeyInv'
<1>1. PICK i \in hooks :
        /\ hooks' = hooks \ {i}
        /\ db' = CASE log[i].kind = "read" -> HookedRead(i)
                   [] log[i].kind = "load" -> HookedLoad(i)
                   [] OTHER -> HookedKarc(i)
        /\ UNCHANGED <<log, cuts>>
  BY DEF Hook
<1>2. i \in DOMAIN log /\ i # 0 /\ log \in Seq(Lines)
  BY DEF KeyInv, Shape
<1>3. CASE log[i].kind = "read"
  <2> DEFINE e == Event(HookKey(i, Now), i, Now, 0, "hook")
  <2>1. db' = HookedRead(i)
    BY <1>1, <1>3
  <2>2. Shape'
    BY <1>1, <2>1 DEF HookedRead, KeyInv, Shape
  <2>3. db'.events = db.events \/ db'.events = InsertEvent(db, e)
    BY <2>1 DEF HookedRead, KeyInv, Shape
  <2>4. log[i].hasId \in BOOLEAN
    BY <1>2, LinesAssumption DEF Line
  <2>5. KeyOf(HookKey(i, Now), i)
    BY <1>3, <2>4 DEF KeyOf, HookKey, CallKey
  <2>6. KeyFits(e) /\ e.call # 0
    BY <1>2, <2>5 DEF KeyFits, Event
  <2> QED BY <1>1, <2>2, <2>3, <2>6, Inserts DEF KeyInv, KeysFit, KeyFits, KeyOf, UniqueKeys, IsSeed, Event
<1>4. CASE log[i].kind = "load"
  <2> DEFINE key == <<"loaded", log[i].session, log[i].path, BucketOf(Now)>>
             e == Event(key, i, Now, 0, "hook")
  <2>1. db' = HookedLoad(i)
    BY <1>1, <1>4
  <2>2. Shape'
    BY <1>1, <2>1 DEF HookedLoad, KeyInv, Shape
  <2>3. db'.events = db.events \/ db'.events = InsertEvent(db, e)
    BY <2>1 DEF HookedLoad, KeyInv, Shape
  <2>4. KeyOf(key, i)
    BY <1>4 DEF KeyOf
  <2>5. KeyFits(e) /\ e.call # 0
    BY <1>2, <2>4 DEF KeyFits, Event
  <2> QED BY <1>1, <2>2, <2>3, <2>5, Inserts DEF KeyInv, KeysFit, KeyFits, KeyOf, UniqueKeys, IsSeed, Event
<1>5. CASE log[i].kind \notin {"read", "load"}
  <2>1. db' = HookedKarc(i)
    BY <1>1, <1>5
  <2>2. Shape' /\ db'.events = db.events
    BY <1>1, <2>1 DEF HookedKarc, KeyInv, Shape
  <2> QED BY <1>1, <2>2 DEF KeyInv, KeysFit, KeyFits, KeyOf, UniqueKeys, IsSeed, Event
<1> QED BY <1>3, <1>4, <1>5

\* Seeds are determined by their keys, and no call has such a key.
LEMMA ScanStep == ASSUME KeyInv, Scan PROVE KeyInv'
<1>1. PICK r \in Scanned :
        LET found == {p \in Path : RootOf[p] = r}
            seeds == {Event(<<"seed", p>>, 0, 0, 0, "manual") : p \in found \cap Seeds}
        IN /\ db' = [db EXCEPT !.scopes = @ \cup {r},
                               !.artifacts = @ \cup found,
                               !.events = @ \cup seeds]
           /\ UNCHANGED <<log, hooks, cuts>>
  BY DEF Scan
<1> DEFINE seeds == {Event(<<"seed", p>>, 0, 0, 0, "manual") :
                       p \in {x \in Path : RootOf[x] = r} \cap Seeds}
<1>2. Shape' /\ db'.events = db.events \cup seeds
  BY <1>1 DEF KeyInv, Shape
<1>3. \A e \in seeds : IsSeed(e)
  BY DEF IsSeed
<1>4. KeysFit(db'.events)
  BY <1>2, <1>3 DEF KeyInv, KeysFit
<1>5. ASSUME NEW e, NEW f, IsSeed(e), IsSeed(f), e.key = f.key
      PROVE  e = f
  <2>1. PICK p \in Path : e = Event(<<"seed", p>>, 0, 0, 0, "manual")
    BY <1>5 DEF IsSeed
  <2>2. PICK x \in Path : f = Event(<<"seed", x>>, 0, 0, 0, "manual")
    BY <1>5 DEF IsSeed
  <2>3. e.key = <<"seed", p>> /\ f.key = <<"seed", x>>
    BY <2>1, <2>2 DEF Event
  <2>4. p = x
    BY <2>3, <1>5
  <2> QED BY <2>1, <2>2, <2>4
<1>6. ASSUME NEW e \in seeds, NEW f \in db.events, e.key = f.key PROVE e = f
  <2>1. IsSeed(e) /\ e.key[1] = "seed"
    BY <1>3 DEF IsSeed, Event
  <2>2. IsSeed(f)
    BY <2>1, <1>6, Tags
  <2> QED BY <2>1, <2>2, <1>5, <1>6
<1>7. UniqueKeys(db'.events)
  BY <1>2, <1>3, <1>5, <1>6 DEF KeyInv, UniqueKeys
<1>8. UNCHANGED log
  BY <1>1
<1> QED BY <1>2, <1>4, <1>7, <1>8 DEF KeyInv, KeysFit, KeyFits, KeyOf, UniqueKeys, IsSeed, Event

\* An ingestion makes one event per new key: of the calls that share a key
\* the one that was parsed first, and no two calls are parsed at once.
LEMMA NewEventsFit ==
  ASSUME KeyInv, NEW seen, NEW calls, calls \subseteq DOMAIN log,
         \A i \in calls : log[i].kind = "read"
  PROVE  LET N == NewEvents(db, calls, seen) IN
         /\ \A e \in N : e.call # 0 /\ KeyFits(e) /\ e.key \notin Keys(db)
         /\ UniqueKeys(N)
<1> DEFINE first(i) == \A j \in calls : CallKey(j, j) = CallKey(i, i) => ~Precedes(j, i)
           task(i) == Before(Turns(seen, log[i].session), i)
           E(i) == Event(CallKey(i, i), i, i, task(i), "transcript")
           fresh == {x \in calls : first(x) /\ CallKey(x, x) \notin Keys(db)}
<1>1. NewEvents(db, calls, seen) = {E(i) : i \in fresh}
  BY DEF NewEvents
<1>2. \A i \in calls : i \in DOMAIN log /\ i \in Nat \ {0} /\ log[i] \in Lines
  BY DEF KeyInv, Shape
<1>3. \A i \in calls : KeyOf(CallKey(i, i), i)
  <2> TAKE i \in calls
  <2>1. log[i].kind = "read" /\ log[i].hasId \in BOOLEAN
    BY <1>2, LinesAssumption DEF Line
  <2> QED BY <2>1 DEF KeyOf, CallKey
<1>4. \A i \in fresh : E(i).call = i /\ E(i).key = CallKey(i, i)
  BY DEF Event
<1>5. ASSUME NEW i \in fresh, NEW j \in fresh, E(i).key = E(j).key
      PROVE  E(i) = E(j)
  <2>1. ~Precedes(i, j) /\ ~Precedes(j, i)
    BY <1>4, <1>5
  <2>2. i \in Nat /\ j \in Nat
    BY <1>2
  <2>3. i = j
    BY <2>1, <2>2 DEF Precedes
  <2> QED BY <2>3
<1>6. \A e \in {E(i) : i \in fresh} : e.call # 0 /\ KeyFits(e) /\ e.key \notin Keys(db)
  BY <1>2, <1>3, <1>4 DEF KeyFits
<1>7. UniqueKeys({E(i) : i \in fresh})
  BY <1>5 DEF UniqueKeys
<1> QED BY <1>1, <1>6, <1>7

LEMMA CommitStep == ASSUME KeyInv, Commit PROVE KeyInv'
<1> DEFINE S == {log[i].session : i \in Seen}
           calls == Promoted(db, Scopes(db, S), Seen)
           N == NewEvents(db, calls, Seen)
<1>1. db' = Ingested(db, Seen) /\ UNCHANGED <<log, hooks>>
  BY DEF Commit
<1>2. Shape' /\ db'.events = db.events \cup N
  BY <1>1 DEF Ingested, KeyInv, Shape
<1>3. calls \subseteq DOMAIN log /\ \A i \in calls : log[i].kind = "read"
  BY DEF Promoted, Seen
<1>4. /\ \A e \in N : e.call # 0 /\ KeyFits(e) /\ e.key \notin Keys(db)
      /\ UniqueKeys(N)
  BY <1>3, NewEventsFit
<1>5. KeysFit(db'.events)
  BY <1>2, <1>4 DEF KeysFit, KeyInv
<1>6. \A e \in db.events : e.key \in Keys(db)
  BY DEF Keys
<1>7. UniqueKeys(db'.events)
  BY <1>2, <1>4, <1>6 DEF UniqueKeys, KeyInv
<1> QED BY <1>1, <1>2, <1>5, <1>7 DEF KeyInv, KeysFit, KeyFits, KeyOf, UniqueKeys, IsSeed, Event

-----------------------------------------------------------------------------
LEMMA KeyInvInit == Init => KeyInv
BY DEF Init, KeyInv, Shape, KeysFit, UniqueKeys

LEMMA KeyInvNext == KeyInv /\ [Next]_vars => KeyInv'
<1> SUFFICES ASSUME KeyInv, [Next]_vars PROVE KeyInv'
  OBVIOUS
<1>1. CASE Works
  BY <1>1, WorksStep
<1>2. CASE KarcCall
  BY <1>2, KarcCallStep
<1>3. CASE Hook
  BY <1>3, HookStep
<1>4. CASE Scan
  BY <1>4, ScanStep
<1>5. CASE Commit
  BY <1>5, CommitStep
<1>6. CASE ParseFile \/ IngestDies \/ UNCHANGED vars
  <2>1. UNCHANGED <<log, hooks, db>>
    BY <1>6 DEF ParseFile, IngestDies, vars
  <2> QED BY <2>1 DEF KeyInv, Shape, KeysFit, KeyFits, KeyOf, UniqueKeys, IsSeed, Event
<1> QED BY <1>1, <1>2, <1>3, <1>4, <1>5, <1>6 DEF Next

\* Whatever the order of hooks, ingestions, scans and MCP calls, a dedup key
\* names one event (001_initial.sql:180), although KarcCall and Scan insert
\* without looking.
THEOREM KeysAreUnique == Spec => []UniqueKeys(db.events)
<1>1. KeyInv => UniqueKeys(db.events)
  BY DEF KeyInv
<1> QED BY <1>1, KeyInvInit, KeyInvNext, PTL DEF Spec

\* A call with a tool_use_id has one event at most, whichever channel was
\* first and however often its transcript is ingested.
THEOREM CallsCountOnce == Spec => []OneEventPerCall
BY OneEvent, KeyInvInit, KeyInvNext, PTL DEF Spec

(***************************************************************************)
(* Counting the turns of a session.                                        *)
(***************************************************************************)
UpTo(S, t) == {i \in S : i <= t}

LEMMA Least ==
  ASSUME NEW S \in SUBSET Nat, S # {}
  PROVE  \E m \in S : \A x \in S : m <= x
<1>1. PICK m \in S : \A x \in S : ~(<<x, m>> \in OpToRel(<, Nat))
  BY NatLessThanWellFounded, WFMin
<1>2. \A x \in S : ~(x < m)
  BY <1>1 DEF OpToRel
<1>3. QED
  BY <1>2

LEMMA UpToFinite ==
  ASSUME NEW S \in SUBSET Nat, NEW t \in Nat
  PROVE  IsFiniteSet(UpTo(S, t)) /\ Cardinality(UpTo(S, t)) \in Nat
<1>0. \A i \in S : i <= t => i \in 0 .. t
  <2>1. \A i \in S : i \in Nat
    OBVIOUS
  <2>2. QED
    BY <2>1
<1>1. UpTo(S, t) \in SUBSET (0 .. t)
  BY <1>0 DEF UpTo
<1>2. IsFiniteSet(0 .. t)
  BY FS_Interval
<1>3. QED
  BY <1>1, <1>2, FS_Subset, FS_CardinalityType

\* One more number counts for one at most, and only if it belongs to the set.
LEMMA CountStep ==
  ASSUME NEW S \in SUBSET Nat, NEW t \in Nat
  PROVE  /\ t + 1 \in S => Before(S, t + 1) = Before(S, t) + 1
         /\ t + 1 \notin S => Before(S, t + 1) = Before(S, t)
<1>0. \A i \in S : i \in Nat /\ (i <= t + 1 <=> i <= t \/ i = t + 1)
  <2>1. \A i \in S : i \in Nat
    OBVIOUS
  <2>2. QED
    BY <2>1
<1>1. t + 1 \in S => UpTo(S, t + 1) = UpTo(S, t) \cup {t + 1}
  BY <1>0 DEF UpTo
<1>2. t + 1 \notin S => UpTo(S, t + 1) = UpTo(S, t)
  BY <1>0 DEF UpTo
<1>3. IsFiniteSet(UpTo(S, t)) /\ t + 1 \notin UpTo(S, t)
  BY UpToFinite DEF UpTo
<1>4. QED
  BY <1>1, <1>2, <1>3, FS_AddElement DEF Before, UpTo

LEMMA CountType ==
  ASSUME NEW S \in SUBSET Nat, NEW t \in Nat
  PROVE  Before(S, t) \in Nat
BY UpToFinite DEF Before, UpTo

\* A finite set of numbers has a k-th element for each k up to its size.
LEMMA KthExists ==
  ASSUME NEW m \in Nat, NEW S \in SUBSET (1 .. m), NEW k \in 1 .. Cardinality(S)
  PROVE  \E i \in S : Before(S, i) = k
<1> DEFINE D == {t \in Nat : Before(S, t) >= k}
<1>0. S \in SUBSET Nat /\ k \in Nat \ {0} /\ \A t \in Nat : Before(S, t) \in Nat
  <2>1. S \in SUBSET Nat
    OBVIOUS
  <2>2. IsFiniteSet(1 .. m)
    BY FS_Interval
  <2>3. Cardinality(S) \in Nat
    BY <2>2, FS_Subset, FS_CardinalityType
  <2>4. QED
    BY <2>1, <2>3, CountType
<1>1. m \in D
  <2>0. \A i \in S : i <= m
    OBVIOUS
  <2>1. UpTo(S, m) = S
    BY <2>0 DEF UpTo
  <2>2. Before(S, m) = Cardinality(S)
    BY <2>1 DEF Before, UpTo
  <2>3. QED
    BY <1>0, <2>2
<1>2. PICK t \in D : \A x \in D : t <= x
  <2>1. D \in SUBSET Nat /\ D # {}
    BY <1>1
  <2> HIDE DEF D
  <2>2. QED
    BY <2>1, Least
<1>3. t # 0
  <2>0. \A i \in S : ~(i <= 0)
    OBVIOUS
  <2>1. UpTo(S, 0) = {}
    BY <2>0 DEF UpTo
  <2>2. Before(S, 0) = 0
    BY <2>1, FS_EmptySet DEF Before, UpTo
  <2>3. QED
    BY <1>0, <2>2
<1>4. t \in Nat /\ t - 1 \in Nat /\ (t - 1) + 1 = t
  BY <1>3
<1>5. Before(S, t - 1) < k
  <2>1. ~(t <= t - 1)
    BY <1>4
  <2>2. t - 1 \notin D
    BY <1>2, <2>1
  <2>3. QED
    BY <1>0, <1>4, <2>2
<1>6. Before(S, t) >= k
  OBVIOUS
<1>7. /\ t \in S => Before(S, t) = Before(S, t - 1) + 1
      /\ t \notin S => Before(S, t) = Before(S, t - 1)
  BY <1>0, <1>4, CountStep
<1>8. t \in S /\ Before(S, t) = k
  <2> HIDE DEF D
  <2>1. Before(S, t - 1) \in Nat
    BY <1>0, <1>4
  <2>2. QED
    BY <1>0, <1>5, <1>6, <1>7, <2>1
<1>9. QED
  BY <1>8

LEMMA CountMonotone ==
  ASSUME NEW S \in SUBSET Nat, NEW T \in SUBSET Nat, S \subseteq T, NEW t \in Nat
  PROVE  Before(S, t) <= Before(T, t)
<1>1. UpTo(S, t) \in SUBSET UpTo(T, t)
  BY DEF UpTo
<1>2. QED
  BY <1>1, UpToFinite, FS_Subset DEF Before, UpTo

(***************************************************************************)
(* The task rows of a session are its turns.                               *)
(***************************************************************************)
TurnsOf(s) == {i \in 1 .. Now : IsTurn(i, s)}

\* What TasksAreTurns says of the row of ordinal k, with its numbers in the log
RowTrue(row, s, k) ==
  /\ row.start \in 1 .. Now /\ IsTurn(row.start, s) /\ TasksBegun(s, row.start) = k
  /\ row.end \in 0 .. Now
  /\ row.end # 0 => IsTurn(row.end, s) /\ TasksBegun(s, row.end) = k + 1
RowsTrue(rows, s) == rows \in Seq(Task) /\ \A k \in DOMAIN rows : RowTrue(rows[k], s, k)

LEMMA LogFacts ==
  ASSUME log \in Seq(Lines)
  PROVE  Now \in Nat /\ DOMAIN log = 1 .. Now /\ \A i \in 1 .. Now : log[i] \in Lines
BY DEF Now

LEMMA LogGrows ==
  ASSUME log \in Seq(Lines), NEW line \in Lines, Recorded(line)
  PROVE  /\ log' \in Seq(Lines) /\ Now' = Now + 1 /\ Now' <= MaxLog
         /\ \A i \in 1 .. Now : log'[i] = log[i]
         /\ log'[Now + 1] = line
BY IngestAssumption DEF Recorded, Now, IngestAssumption

\* A parsed set of turns that lacks none before its last counts like the log.
Prefix(turns, s) ==
  /\ turns \subseteq TurnsOf(s)
  /\ \A i \in turns : \A j \in TurnsOf(s) : j <= i => j \in turns

LEMMA PrefixCount ==
  ASSUME Now \in Nat, NEW s, NEW turns, Prefix(turns, s), NEW i \in turns
  PROVE  Before(turns, i) = TasksBegun(s, i)
<1>1. i \in 1 .. Now
  BY DEF Prefix, TurnsOf
<1>2. \A j \in turns : j \in 1 .. Now /\ IsTurn(j, s)
  BY DEF Prefix, TurnsOf
<1>3. \A j \in 1 .. i : j \in 1 .. Now /\ j <= i
  BY <1>1
<1>4. \A j \in 1 .. i : IsTurn(j, s) => j \in turns
  BY <1>3 DEF Prefix, TurnsOf
<1>5. UpTo(turns, i) = {j \in 1 .. i : IsTurn(j, s)}
  <2>1. \A j \in turns : j <= i => j \in 1 .. i
    BY <1>1, <1>2
  <2>2. QED
    BY <1>2, <1>3, <1>4, <2>1 DEF UpTo
<1>6. QED
  BY <1>5 DEF Before, UpTo, TasksBegun

LEMMA TaskRowsTrue ==
  ASSUME Now \in Nat, NEW s, NEW turns, Prefix(turns, s)
  PROVE  RowsTrue(TaskRows(turns), s) /\ Len(TaskRows(turns)) = Cardinality(turns)
<1> DEFINE n == Cardinality(turns)
           start(k) == CHOOSE i \in turns : Before(turns, i) = k
<1>1. turns \in SUBSET (1 .. Now)
  BY DEF Prefix, TurnsOf
<1>2. n \in Nat
  <2>1. IsFiniteSet(1 .. Now)
    BY FS_Interval
  <2>2. QED
    BY <1>1, <2>1, FS_Subset, FS_CardinalityType
<1>3. ASSUME NEW k \in 1 .. n
      PROVE  /\ start(k) \in turns /\ start(k) \in 1 .. Now
             /\ IsTurn(start(k), s) /\ TasksBegun(s, start(k)) = k
  <2>1. \E i \in turns : Before(turns, i) = k
    BY <1>1, KthExists
  <2>2. start(k) \in turns /\ Before(turns, start(k)) = k
    BY <2>1
  <2>3. start(k) \in TurnsOf(s)
    BY <2>2 DEF Prefix
  <2>4. TasksBegun(s, start(k)) = k
    BY <2>2, PrefixCount
  <2>5. QED
    BY <2>2, <2>3, <2>4 DEF TurnsOf
<1> DEFINE row(k) == [start |-> start(k), end |-> IF k < n THEN start(k + 1) ELSE 0]
<1>4. TaskRows(turns) = [k \in 1 .. n |-> row(k)]
  BY DEF TaskRows
<1>5. ASSUME NEW k \in 1 .. n PROVE row(k) \in Task /\ RowTrue(row(k), s, k)
  <2>1. k < n => k + 1 \in 1 .. n
    BY <1>2
  <2> HIDE DEF start, n
  <2>2. start(k) \in 1 .. Now /\ IsTurn(start(k), s) /\ TasksBegun(s, start(k)) = k
    BY <1>3
  <2>3. k < n => /\ start(k + 1) \in 1 .. Now
                 /\ IsTurn(start(k + 1), s) /\ TasksBegun(s, start(k + 1)) = k + 1
    BY <1>3, <2>1
  <2>4. row(k).start = start(k) /\ row(k).end = IF k < n THEN start(k + 1) ELSE 0
    OBVIOUS
  <2>5. row(k) \in Task
    BY <2>2, <2>3 DEF Task
  <2>6. RowTrue(row(k), s, k)
    <3> HIDE DEF row
    <3>1. QED
      BY <2>2, <2>3, <2>4 DEF RowTrue
  <2>7. QED
    BY <2>5, <2>6
<1>6. TaskRows(turns) \in [1 .. n -> Task]
  <2> HIDE DEF row, n
  <2>1. QED
    BY <1>4, <1>5
<1>7. TaskRows(turns) \in Seq(Task) /\ Len(TaskRows(turns)) = n
  <2> HIDE DEF n
  <2>1. QED
    BY <1>2, <1>6
<1>8. \A k \in DOMAIN TaskRows(turns) : RowTrue(TaskRows(turns)[k], s, k)
  <2> HIDE DEF row, n
  <2>1. QED
    BY <1>4, <1>5
<1>9. QED
  BY <1>7, <1>8 DEF RowsTrue

\* Rows that exist stay, the others are added behind them.
LEMMA MergedRows ==
  ASSUME NEW s, NEW old, NEW new, RowsTrue(old, s), RowsTrue(new, s)
  PROVE  RowsTrue(Merged(old, new), s)
<1> DEFINE rest == SubSeq(new, Len(old) + 1, Len(new))
<1>1. old \in Seq(Task) /\ new \in Seq(Task) /\ Len(old) \in Nat /\ Len(new) \in Nat
  BY DEF RowsTrue
<1>2. \A i \in (Len(old) + 1) .. Len(new) : new[i] \in Task
  BY <1>1
<1>3. /\ rest \in Seq(Task)
      /\ Len(rest) = IF Len(old) + 1 <= Len(new) THEN Len(new) - (Len(old) + 1) + 1 ELSE 0
      /\ \A i \in 1 .. Len(new) - (Len(old) + 1) + 1 : rest[i] = new[(Len(old) + 1) + i - 1]
  BY <1>1, <1>2, SubSeqProperties
<1>4. /\ old \o rest \in Seq(Task) /\ Len(old \o rest) = Len(old) + Len(rest)
      /\ \A i \in 1 .. Len(old) + Len(rest) :
           (old \o rest)[i] = IF i <= Len(old) THEN old[i] ELSE rest[i - Len(old)]
  BY <1>1, <1>3, ConcatProperties
<1>5. ASSUME NEW k \in 1 .. Len(old) + Len(rest)
      PROVE  RowTrue((old \o rest)[k], s, k)
  <2> HIDE DEF rest
  <2>1. CASE k <= Len(old)
    BY <1>1, <1>4, <2>1 DEF RowsTrue
  <2>2. CASE ~(k <= Len(old))
    <3>1. /\ k - Len(old) \in 1 .. Len(new) - (Len(old) + 1) + 1
          /\ (Len(old) + 1) + (k - Len(old)) - 1 = k /\ k \in 1 .. Len(new)
      BY <1>1, <1>3, <2>2
    <3>2. rest[k - Len(old)] = new[k]
      BY <1>3, <3>1
    <3>3. (old \o rest)[k] = new[k]
      BY <1>4, <2>2, <3>2
    <3>4. QED
      BY <1>1, <3>1, <3>3 DEF RowsTrue
  <2>3. QED
    BY <2>1, <2>2
<1>6. Merged(old, new) = old \o rest /\ DOMAIN (old \o rest) = 1 .. Len(old) + Len(rest)
  BY <1>4 DEF Merged
<1>7. QED
  BY <1>4, <1>5, <1>6 DEF RowsTrue

\* Once merged, the same rows add nothing.
LEMMA MergedTwice ==
  ASSUME NEW old \in Seq(Task), NEW new \in Seq(Task)
  PROVE  Merged(Merged(old, new), new) = Merged(old, new)
<1> DEFINE rest == SubSeq(new, Len(old) + 1, Len(new))
           once == old \o rest
<1>1. Len(old) \in Nat /\ Len(new) \in Nat
  OBVIOUS
<1>2. \A i \in (Len(old) + 1) .. Len(new) : new[i] \in Task
  BY <1>1
<1>3. /\ rest \in Seq(Task)
      /\ Len(rest) = IF Len(old) + 1 <= Len(new) THEN Len(new) - (Len(old) + 1) + 1 ELSE 0
  BY <1>1, <1>2, SubSeqProperties
<1>4. once \in Seq(Task) /\ Len(once) = Len(old) + Len(rest)
  BY <1>1, <1>3, ConcatProperties
<1>5. Len(new) < Len(once) + 1 /\ Len(once) \in Nat
  BY <1>1, <1>3, <1>4
<1>6. SubSeq(new, Len(once) + 1, Len(new)) = << >>
  <2> HIDE DEF once
  <2>1. QED
    BY <1>1, <1>5, SubSeqEmpty
<1>7. once \o << >> = once
  BY <1>4, ConcatEmptySeq
<1>8. QED
  BY <1>6, <1>7 DEF Merged

(***************************************************************************)
(* Of the calls that share a key one was parsed first, so an ingestion     *)
(* leaves an event for every call it promotes.                             *)
(***************************************************************************)
LEMMA FirstParsed ==
  ASSUME log \in Seq(Lines), NEW calls \in SUBSET DOMAIN log, NEW i \in calls
  PROVE  \E j \in calls : /\ CallKey(j, j) = CallKey(i, i)
                          /\ \A l \in calls : CallKey(l, l) = CallKey(j, j) => ~Precedes(l, j)
<1> DEFINE same == {j \in calls : CallKey(j, j) = CallKey(i, i)}
           mains == {j \in same : log[j].file = "main"}
<1>1. same \in SUBSET Nat /\ mains \in SUBSET Nat /\ same # {}
  BY LogFacts
<1>2. CASE mains # {}
  <2>1. PICK j \in mains : \A l \in mains : j <= l
    <3> HIDE DEF mains, same
    <3>1. QED
      BY <1>1, <1>2, Least
  <2>2. \A l \in same : ~Precedes(l, j)
    <3>1. \A l \in mains : ~(l < j)
      BY <1>1, <2>1
    <3>2. QED
      BY <2>1, <3>1 DEF Precedes
  <2>3. QED
    BY <2>1, <2>2
<1>3. CASE mains = {}
  <2>1. PICK j \in same : \A l \in same : j <= l
    <3> HIDE DEF mains, same
    <3>1. QED
      BY <1>1, Least
  <2>2. \A l \in same : ~Precedes(l, j)
    <3>1. \A l \in same : ~(l < j) /\ log[l].file # "main"
      BY <1>1, <1>3, <2>1
    <3>2. QED
      BY <2>1, <3>1 DEF Precedes
  <2>3. QED
    BY <2>1, <2>2
<1>4. QED
  BY <1>2, <1>3

\* d.events stands for the events before, of any database the ingestion meets.
LEMMA Covered ==
  ASSUME log \in Seq(Lines), NEW d, NEW seen, NEW calls \in SUBSET DOMAIN log, NEW i \in calls
  PROVE  \E e \in d.events \cup NewEvents(d, calls, seen) : e.key = CallKey(i, i)
<1> DEFINE first(x) == \A j \in calls : CallKey(j, j) = CallKey(x, x) => ~Precedes(j, x)
           E(x) == Event(CallKey(x, x), x, x, Before(Turns(seen, log[x].session), x), "transcript")
           fresh == {x \in calls : first(x) /\ CallKey(x, x) \notin Keys(d)}
<1>1. NewEvents(d, calls, seen) = {E(x) : x \in fresh}
  BY DEF NewEvents
<1>2. CASE CallKey(i, i) \in Keys(d)
  BY <1>2 DEF Keys
<1>3. CASE CallKey(i, i) \notin Keys(d)
  <2>1. PICK j \in calls : CallKey(j, j) = CallKey(i, i) /\ first(j)
    BY FirstParsed
  <2>2. j \in fresh
    BY <1>3, <2>1
  <2>3. E(j).key = CallKey(i, i)
    BY <2>1 DEF Event
  <2>4. E(j) \in NewEvents(d, calls, seen)
    BY <1>1, <2>2
  <2>5. QED
    BY <2>3, <2>4
<1>4. QED
  BY <1>2, <1>3

\* Every promoted key is there afterwards: a second time nothing is new.
LEMMA NothingNew ==
  ASSUME NEW d, NEW seen, NEW calls,
         \A i \in calls : \E e \in d.events : e.key = CallKey(i, i)
  PROVE  NewEvents(d, calls, seen) = {}
<1>1. \A i \in calls : CallKey(i, i) \in Keys(d)
  BY DEF Keys
<1>2. QED
  BY <1>1 DEF NewEvents

\* An observation names its call, or a place where calls without an id meet.
ObservationFits(x, call) ==
  \/ x \in {<<"transcript", call>>, <<"hook", call>>, <<"mcp", call>>}
  \/ /\ ~log[call].hasId
     /\ \E s, p : x = <<"hook", s, p>> \/ x = <<"load", s, p>>

ObsShape(obs) ==
  /\ obs = [x \in DOMAIN obs |-> obs[x]]
  /\ \A x \in DOMAIN obs :
       /\ obs[x] = [call |-> obs[x].call, link |-> obs[x].link]
       /\ obs[x].call \in 1 .. Now
       /\ ObservationFits(x, obs[x].call)

\* What ObservedAll makes of the reads it saw: a new observation of each, and
\* a link for those that had none
Written(old, seen, calls, all) ==
  LET reads == {i \in seen : log[i].kind = "read"}
      link(i) == IF i \in calls THEN CallKey(i, i) ELSE NoKey IN
  /\ all = [x \in DOMAIN old \cup {<<"transcript", i>> : i \in reads} |-> all[x]]
  /\ \A x \in DOMAIN old : (\A i \in reads : x # <<"transcript", i>>) => all[x] = old[x]
  /\ \A i \in reads : \A x : x = <<"transcript", i>> =>
       /\ x \notin DOMAIN old => all[x] = [call |-> i, link |-> link(i)]
       /\ x \in DOMAIN old =>
            all[x] = [old[x] EXCEPT !.link = IF @ = NoKey THEN link(i) ELSE @]

LEMMA ObservedAllIs ==
  ASSUME log \in Seq(Lines), NEW d, NEW seen \in SUBSET DOMAIN log, NEW calls,
         \A i \in calls : i \in seen /\ log[i].kind = "read"
  PROVE  Written(d.obs, seen, calls, ObservedAll(d, seen, calls))
<1> DEFINE reads == {i \in seen : log[i].kind = "read"}
           link(i) == IF i \in calls THEN CallKey(i, i) ELSE NoKey
           all == ObservedAll(d, seen, calls)
           of(x) == CHOOSE i \in reads : TranscriptObservation(i) = x
                      /\ \A j \in reads : TranscriptObservation(j) = x => ~Precedes(j, i)
           keys(x) == {CallKey(i, i) : i \in {j \in calls : TranscriptObservation(j) = x}}
           linked(x) == IF keys(x) = {} THEN NoKey ELSE CHOOSE k \in keys(x) : TRUE
           ids == {TranscriptObservation(i) : i \in reads}
<1>1. all = [x \in DOMAIN d.obs \cup ids |->
               IF x \notin ids THEN d.obs[x]
               ELSE IF x \notin DOMAIN d.obs THEN [call |-> of(x), link |-> linked(x)]
               ELSE [d.obs[x] EXCEPT !.link = IF @ = NoKey THEN linked(x) ELSE @]]
  BY DEF ObservedAll
<1>2. \A i, j : TranscriptObservation(i) = TranscriptObservation(j) => i = j
  BY DEF TranscriptObservation
<1>3. ASSUME NEW i \in reads
      PROVE  of(TranscriptObservation(i)) = i /\ linked(TranscriptObservation(i)) = link(i)
  <2>1. i \in Nat /\ ~Precedes(i, i)
    BY LogFacts DEF Precedes
  <2>2. \A j \in reads : TranscriptObservation(j) = TranscriptObservation(i) => ~Precedes(j, i)
    BY <1>2, <2>1
  <2>3. of(TranscriptObservation(i)) = i
    BY <1>2, <2>2
  <2>4. CASE i \in calls
    <3>1. keys(TranscriptObservation(i)) = {CallKey(i, i)}
      BY <1>2, <2>4
    <3>2. QED
      BY <2>3, <2>4, <3>1
  <2>5. CASE i \notin calls
    <3>1. keys(TranscriptObservation(i)) = {}
      BY <1>2, <2>5
    <3>2. QED
      BY <2>3, <2>5, <3>1
  <2>6. QED
    BY <2>4, <2>5
<1>4. ids = {<<"transcript", i>> : i \in reads}
  BY DEF TranscriptObservation
<1>5. \A i \in reads : TranscriptObservation(i) = <<"transcript", i>>
  BY DEF TranscriptObservation
<1> HIDE DEF of, linked, keys, link, all, reads
<1>6. all = [x \in DOMAIN d.obs \cup {<<"transcript", i>> : i \in reads} |-> all[x]]
  BY <1>1, <1>4
<1>7. \A x \in DOMAIN d.obs : (\A i \in reads : x # <<"transcript", i>>) => all[x] = d.obs[x]
  BY <1>1, <1>4
<1>8. \A i \in reads : \A x : x = <<"transcript", i>> =>
        /\ x \notin DOMAIN d.obs => all[x] = [call |-> i, link |-> link(i)]
        /\ x \in DOMAIN d.obs =>
             all[x] = [d.obs[x] EXCEPT !.link = IF @ = NoKey THEN link(i) ELSE @]
  BY <1>1, <1>3, <1>4, <1>5
<1>9. QED
  BY <1>6, <1>7, <1>8 DEF Written, all, reads, link

(***************************************************************************)
(* The invariant.                                                          *)
(***************************************************************************)
FlowOK ==
  /\ Now <= MaxLog
  /\ cuts \in Seq(Nat) /\ Len(cuts) <= Len(FileOrder)
  /\ \A f \in DOMAIN cuts : cuts[f] <= Now

RowsOK ==
  /\ db.scopes \subseteq Root /\ db.artifacts \subseteq Path
  /\ db.sessions \in Sessions
  /\ \A s \in Session : /\ db.sessions[s] \in db.scopes \cup {NoRoot, "none"}
                        /\ RowsTrue(db.tasks[s], s)

\* An event is in range, in time, and its foreign keys have their rows.
EventOK(e) ==
  /\ e.call \in 0 .. Now /\ e.task \in 0 .. Now
  /\ e.chan = "transcript" =>
       LET right == TasksBegun(log[e.call].session, e.call) IN
       /\ e.call # 0 /\ e.task <= right
       /\ log[e.call].file = "main" => e.task = right
  /\ e.call # 0 /\ e.chan # "mcp" =>
       log[e.call].path \in db.artifacts /\ db.sessions[log[e.call].session] # "none"

\* An observation's link leads to an event of E, and to one of its own call.
LinkOK(E, x, o) ==
  o.link # NoKey =>
    \E e \in E :
      /\ e.key = o.link
      /\ x[1] = "transcript" \/ log[o.call].hasId =>
           IF log[o.call].hasId THEN e.call = o.call ELSE e.key = CallKey(o.call, o.call)
ObsOK(E, x, o) ==
  /\ o = [call |-> o.call, link |-> o.link]
  /\ o.call \in 1 .. Now
  /\ ObservationFits(x, o.call)
  /\ LinkOK(E, x, o)
AllObsOK(E, obs) ==
  /\ obs = [x \in DOMAIN obs |-> obs[x]]
  /\ \A x \in DOMAIN obs : ObsOK(E, x, obs[x])

TeleInv ==
  /\ KeyInv /\ FlowOK /\ RowsOK
  /\ \A e \in db.events : EventOK(e)
  /\ AllObsOK(db.events, db.obs)

LEMMA TeleSays == TeleInv => TelemetryIsTrue
<1> SUFFICES ASSUME TeleInv PROVE TelemetryIsTrue
  OBVIOUS
<1>1. log \in Seq(Lines) /\ hooks \subseteq DOMAIN log /\ DOMAIN log = 1 .. Now /\ Now \in Nat
  BY LogFacts DEF TeleInv, KeyInv, Shape
<1>2. \A x \in DOMAIN db.obs : /\ db.obs[x].call \in 1 .. Now
                               /\ db.obs[x].link \in Keys(db) \cup {NoKey}
  BY DEF TeleInv, AllObsOK, ObsOK, LinkOK, Keys
<1>3. IngestTypeOK
  <2>1. /\ db.scopes \subseteq Root /\ db.artifacts \subseteq Path /\ db.sessions \in Sessions
        /\ \A s \in Session : /\ db.tasks[s] \in Seq(Task)
                              /\ db.sessions[s] \in db.scopes \cup {NoRoot, "none"}
    BY DEF TeleInv, RowsOK, RowsTrue
  <2>2. \A e \in db.events :
          /\ e.call \in 0 .. Now /\ e.task \in 0 .. Now
          /\ e.call # 0 /\ e.chan # "mcp" =>
               log[e.call].path \in db.artifacts /\ db.sessions[log[e.call].session] # "none"
    BY DEF TeleInv, EventOK
  <2>3. /\ Now <= MaxLog /\ Len(cuts) <= Len(FileOrder)
        /\ \A f \in DOMAIN cuts : cuts[f] <= Now
    BY DEF TeleInv, FlowOK
  <2>4. QED
    BY <1>1, <1>2, <2>1, <2>2, <2>3 DEF IngestTypeOK
<1>4. LinksAreTrue
  BY DEF TeleInv, AllObsOK, ObsOK, LinkOK, LinksAreTrue
<1>5. AttributedInTime
  BY DEF TeleInv, EventOK, AttributedInTime
<1>6. TasksAreTurns
  BY DEF TeleInv, RowsOK, RowsTrue, RowTrue, TasksAreTurns
<1>7. QED
  BY <1>3, <1>4, <1>5, <1>6 DEF TelemetryIsTrue

(***************************************************************************)
(* What was true stays true while the log and the tables grow.             *)
(***************************************************************************)
Grown ==
  /\ Now \in Nat /\ Now' \in Nat /\ Now <= Now'
  /\ \A i \in 1 .. Now : log'[i] = log[i] /\ log[i] \in Lines
  /\ db.events \subseteq db'.events /\ db.artifacts \subseteq db'.artifacts
  /\ \A s \in Session : db.sessions[s] # "none" => db'.sessions[s] # "none"

LEMMA BegunStays ==
  ASSUME Grown, NEW s, NEW t \in 0 .. Now
  PROVE  TasksBegun(s, t)' = TasksBegun(s, t)
<1>1. \A i \in 1 .. t : i \in 1 .. Now
  BY DEF Grown
<1>2. \A i \in 1 .. t : log'[i] = log[i]
  BY <1>1 DEF Grown
<1>3. {i \in 1 .. t : log'[i].kind = "turn" /\ log'[i].session = s}
        = {i \in 1 .. t : log[i].kind = "turn" /\ log[i].session = s}
  BY <1>2
<1>4. QED
  BY <1>3 DEF TasksBegun, IsTurn

LEMMA RowsStay ==
  ASSUME Grown, NEW s, NEW rows, RowsTrue(rows, s)
  PROVE  RowsTrue(rows, s)'
<1>1. \A n \in 0 .. Now : n \in 0 .. Now'
  BY DEF Grown
<1>2. \A n \in 1 .. Now : n \in 1 .. Now'
  BY DEF Grown
<1>3. \A i \in 1 .. Now : IsTurn(i, s) => IsTurn(i, s)'
  BY DEF Grown, IsTurn
<1>4. ASSUME NEW k \in DOMAIN rows PROVE RowTrue(rows[k], s, k)'
  <2> DEFINE row == rows[k]
  <2>1. /\ row.start \in 1 .. Now /\ IsTurn(row.start, s) /\ TasksBegun(s, row.start) = k
        /\ row.end \in 0 .. Now
        /\ row.end # 0 => IsTurn(row.end, s) /\ TasksBegun(s, row.end) = k + 1
    BY DEF RowsTrue, RowTrue
  <2>2. row.start \in 0 .. Now /\ (row.end # 0 => row.end \in 1 .. Now)
    BY <2>1 DEF Grown
  <2>3. /\ TasksBegun(s, row.start)' = TasksBegun(s, row.start)
        /\ TasksBegun(s, row.end)' = TasksBegun(s, row.end)
    BY <2>1, <2>2, BegunStays
  <2>4. /\ row.start \in 1 .. Now' /\ IsTurn(row.start, s)' /\ TasksBegun(s, row.start)' = k
        /\ row.end \in 0 .. Now'
        /\ row.end # 0 => IsTurn(row.end, s)' /\ TasksBegun(s, row.end)' = k + 1
    BY <1>1, <1>2, <1>3, <2>1, <2>2, <2>3
  <2>5. QED
    BY <2>4 DEF RowTrue
<1>5. QED
  BY <1>4 DEF RowsTrue

LEMMA EventStays ==
  ASSUME Grown, NEW e, EventOK(e)
  PROVE  EventOK(e)'
<1>1. e.call \in 0 .. Now' /\ e.task \in 0 .. Now' /\ (e.call # 0 => e.call \in 1 .. Now)
  BY DEF EventOK, Grown
<1>2. e.call # 0 => log'[e.call] = log[e.call] /\ log[e.call].session \in Session
  BY <1>1, LinesAssumption DEF Grown, Line
<1>3. \A s : TasksBegun(s, e.call)' = TasksBegun(s, e.call)
  BY BegunStays DEF EventOK
<1>4. ASSUME e.chan = "transcript"
      PROVE  /\ e.call # 0 /\ (e.task <= TasksBegun(log[e.call].session, e.call))'
             /\ (log[e.call].file = "main" => e.task = TasksBegun(log[e.call].session, e.call))'
  <2>1. PICK s : s = log[e.call].session
    OBVIOUS
  <2>2. e.call # 0 /\ (log[e.call].session)' = s
    BY <1>2, <1>4, <2>1 DEF EventOK
  <2>3. TasksBegun(log[e.call].session, e.call)' = TasksBegun(s, e.call)'
    BY <2>2 DEF TasksBegun, IsTurn
  <2>4. TasksBegun(log[e.call].session, e.call)' = TasksBegun(s, e.call)
    BY <1>3, <2>3
  <2>5. /\ e.task <= TasksBegun(s, e.call)
        /\ log[e.call].file = "main" => e.task = TasksBegun(s, e.call)
    BY <1>4, <2>1 DEF EventOK
  <2>6. QED
    BY <1>2, <2>2, <2>4, <2>5
<1>5. e.call # 0 /\ e.chan # "mcp" =>
        log'[e.call].path \in db'.artifacts /\ db'.sessions[log'[e.call].session] # "none"
  BY <1>2 DEF EventOK, Grown
<1>6. QED
  BY <1>1, <1>4, <1>5 DEF EventOK

LEMMA ObsStays ==
  ASSUME Grown, NEW E, NEW F, E \subseteq F, NEW x, NEW o, ObsOK(E, x, o)
  PROVE  ObsOK(F, x, o)'
<1>1. o.call \in 1 .. Now /\ o.call \in 1 .. Now' /\ log'[o.call] = log[o.call]
  BY DEF Grown, ObsOK
<1>2. ObservationFits(x, o.call)'
  BY <1>1 DEF ObsOK, ObservationFits
<1>3. LinkOK(F, x, o)'
  BY <1>1 DEF ObsOK, LinkOK, CallKey
<1>4. QED
  BY <1>1, <1>2, <1>3 DEF ObsOK

\* What is left to show of a step: the rows it touched.
LEMMA Stays ==
  ASSUME TeleInv, KeyInv', Grown
  PROVE  /\ \A e \in db.events : EventOK(e)'
         /\ \A x, o : ObsOK(db.events, x, o) => \A F : F = db'.events => ObsOK(F, x, o)'
         /\ \A s \in Session : \A rows : RowsTrue(rows, s) => RowsTrue(rows, s)'
<1>1. \A e \in db.events : EventOK(e)'
  BY EventStays DEF TeleInv
<1>2. ASSUME NEW x, NEW o, ObsOK(db.events, x, o), NEW F, F = db'.events
      PROVE  ObsOK(F, x, o)'
  <2>1. PICK E : E = db.events
    OBVIOUS
  <2>2. ObsOK(E, x, o) /\ E \subseteq F
    BY <1>2, <2>1 DEF Grown
  <2>3. QED
    BY <2>2, ObsStays
<1>3. ASSUME NEW s \in Session, NEW rows, RowsTrue(rows, s) PROVE RowsTrue(rows, s)'
  BY <1>3, RowsStay
<1>4. QED
  BY <1>1, <1>2, <1>3

\* Observations that are not new keep what holds of them.
LEMMA ObsCarry ==
  ASSUME TeleInv, KeyInv', Grown, NEW F, F = db'.events, NEW obs, obs = db'.obs,
         obs = [x \in DOMAIN obs |-> obs[x]],
         \A x \in DOMAIN obs : \/ x \in DOMAIN db.obs /\ obs[x] = db.obs[x]
                               \/ ObsOK(F, x, obs[x])'
  PROVE  AllObsOK(db.events, db.obs)'
<1>1. ASSUME NEW x \in DOMAIN obs PROVE ObsOK(F, x, obs[x])'
  <2>1. CASE x \in DOMAIN db.obs /\ obs[x] = db.obs[x]
    <3>1. PICK o : o = obs[x]
      OBVIOUS
    <3>2. ObsOK(db.events, x, o)
      BY <2>1, <3>1 DEF TeleInv, AllObsOK
    <3>3. ObsOK(F, x, o)'
      BY <3>2, Stays
    <3>4. QED
      BY <3>1, <3>3
  <2>2. QED
    BY <2>1
<1>2. QED
  BY <1>1 DEF AllObsOK, ObsOK, LinkOK

LEMMA Keeps ==
  ASSUME TeleInv, KeyInv', Grown, FlowOK',
         db'.scopes \subseteq Root, db'.artifacts \subseteq Path, db'.sessions \in Sessions,
         \A s \in Session : db'.sessions[s] \in db'.scopes \cup {NoRoot, "none"},
         db'.tasks = db.tasks,
         \A e \in db'.events : e \in db.events \/ EventOK(e)',
         AllObsOK(db.events, db.obs)'
  PROVE  TeleInv'
<1>1. \A s \in Session : RowsTrue(db.tasks[s], s)'
  <2>1. \A s \in Session : RowsTrue(db.tasks[s], s)
    BY DEF TeleInv, RowsOK
  <2>2. ASSUME NEW s \in Session PROVE RowsTrue(db.tasks[s], s)'
    <3>1. PICK rows : rows = db.tasks[s]
      OBVIOUS
    <3>2. RowsTrue(rows, s)'
      BY <2>1, <3>1, Stays
    <3>3. QED
      BY <3>1, <3>2 DEF RowsTrue
  <2>3. QED
    BY <2>2
<1>2. RowsOK'
  BY <1>1 DEF RowsOK
<1>3. (\A e \in db.events : EventOK(e))'
  BY Stays
<1>4. QED
  BY <1>2, <1>3 DEF TeleInv

\* A step that leaves the log alone and deletes no row
LEMMA SameLog ==
  ASSUME TeleInv, UNCHANGED log, db.events \subseteq db'.events,
         db.artifacts \subseteq db'.artifacts,
         \A s \in Session : db.sessions[s] # "none" => db'.sessions[s] # "none"
  PROVE  Grown
<1>1. log \in Seq(Lines)
  BY DEF TeleInv, KeyInv, Shape
<1>2. /\ Now \in Nat /\ Now' = Now
      /\ \A i \in 1 .. Now : log[i] \in Lines
  BY <1>1, LogFacts DEF Now
<1>3. QED
  BY <1>2 DEF Grown

\* INSERT OR IGNORE of an observation by a hook, and its link if it had none
LEMMA ObservedOK ==
  ASSUME TeleInv, KeyInv', Grown, UNCHANGED log, NEW i \in DOMAIN log, NEW id, NEW key,
         \/ id = <<"hook", i>>
         \/ ~log[i].hasId /\ \E s, p : id = <<"hook", s, p>> \/ id = <<"load", s, p>>,
         key = NoKey \/ \E e \in db'.events : e.key = key /\ (log[i].hasId => e.call = i),
         db'.obs = Observed(db.obs, id, i, key)
  PROVE  AllObsOK(db.events, db.obs)'
<1>o. PICK obs : obs = Observed(db.obs, id, i, key)
  OBVIOUS
<1>0. PICK F : F = db'.events
  OBVIOUS
<1>1. /\ obs = [x \in DOMAIN obs |-> obs[x]] /\ DOMAIN obs = DOMAIN db.obs \cup {id}
      /\ \A x \in DOMAIN obs : x # id => obs[x] = db.obs[x]
      /\ id \notin DOMAIN db.obs => obs[id] = [call |-> i, link |-> key]
      /\ id \in DOMAIN db.obs =>
           obs[id] = [db.obs[id] EXCEPT !.link = IF @ = NoKey THEN key ELSE @]
  BY <1>o DEF Observed
<1>2. i \in 1 .. Now /\ Now' = Now
  BY LogFacts DEF TeleInv, KeyInv, Shape, Now
<1>3. id[1] # "transcript"
  OBVIOUS
<1>4. ASSUME NEW c \in 1 .. Now, ObservationFits(id, c), log[c].hasId \/ c = i
      PROVE  ObsOK(F, id, [call |-> c, link |-> key])'
  <2>1. log[c].hasId => c = i
    <3>1. CASE id = <<"hook", i>>
      <4>1. \A s, p : <<"hook", i>> # <<"hook", s, p>> /\ <<"hook", i>> # <<"load", s, p>>
        OBVIOUS
      <4>2. QED
        BY <1>4, <3>1, <4>1 DEF ObservationFits
    <3>2. CASE ~log[i].hasId /\ \E s, p : id = <<"hook", s, p>> \/ id = <<"load", s, p>>
      <4>1. \A s, p : /\ <<"hook", s, p>> \notin {<<"transcript", c>>, <<"hook", c>>, <<"mcp", c>>}
                      /\ <<"load", s, p>> \notin {<<"transcript", c>>, <<"hook", c>>, <<"mcp", c>>}
        OBVIOUS
      <4>2. QED
        BY <1>4, <3>2, <4>1 DEF ObservationFits
    <3>3. QED
      BY <3>1, <3>2
  <2>2. PICK o : o = [call |-> c, link |-> key]
    OBVIOUS
  <2>3. o = [call |-> o.call, link |-> o.link] /\ o.call = c /\ o.link = key
    BY <2>2
  <2>4. LinkOK(F, id, o)'
    BY <1>0, <1>3, <2>1, <2>3 DEF LinkOK
  <2>5. ObservationFits(id, o.call)'
    BY <1>4, <2>3 DEF ObservationFits
  <2>6. ObsOK(F, id, o)'
    BY <1>2, <2>3, <2>4, <2>5 DEF ObsOK
  <2>7. QED
    BY <2>2, <2>6
<1>5. id \in DOMAIN obs
  BY <1>1
<1>6. \/ id \in DOMAIN db.obs /\ obs[id] = db.obs[id]
      \/ ObsOK(F, id, obs[id])'
  <2>1. CASE id \notin DOMAIN db.obs
    <3>1. ObservationFits(id, i)
      BY DEF ObservationFits
    <3>2. QED
      BY <1>1, <1>2, <1>4, <2>1, <3>1
  <2>2. CASE id \in DOMAIN db.obs
    <3>1. PICK o : o = db.obs[id]
      OBVIOUS
    <3>2. /\ o = [call |-> o.call, link |-> o.link]
          /\ o.call \in 1 .. Now /\ ObservationFits(id, o.call)
      BY <2>2, <3>1 DEF TeleInv, AllObsOK, ObsOK
    <3>3. CASE o.link # NoKey
      BY <1>1, <2>2, <3>1, <3>2, <3>3
    <3>4. CASE o.link = NoKey
      <4>1. obs[id] = [call |-> o.call, link |-> key]
        BY <1>1, <2>2, <3>1, <3>2, <3>4
      <4>2. CASE log[o.call].hasId \/ o.call = i
        BY <1>4, <3>2, <4>1, <4>2
      <4>3. CASE ~log[o.call].hasId
        <5>1. PICK r : r = obs[id]
          OBVIOUS
        <5>2. r = [call |-> r.call, link |-> r.link] /\ r.call = o.call /\ r.link = key
          BY <4>1, <5>1
        <5>3. LinkOK(F, id, r)'
          BY <1>0, <1>3, <4>3, <5>2 DEF LinkOK
        <5>4. ObservationFits(id, r.call)'
          BY <3>2, <5>2 DEF ObservationFits
        <5>5. ObsOK(F, id, r)'
          BY <1>2, <3>2, <5>2, <5>3, <5>4 DEF ObsOK
        <5>6. QED
          BY <5>1, <5>5
      <4>4. QED
        BY <4>2, <4>3
    <3>5. QED
      BY <3>3, <3>4
  <2>3. QED
    BY <2>1, <2>2
<1>7. \A x \in DOMAIN obs : \/ x \in DOMAIN db.obs /\ obs[x] = db.obs[x]
                            \/ ObsOK(F, x, obs[x])'
  BY <1>1, <1>6
<1>8. QED
  BY <1>o, <1>0, <1>1, <1>7, ObsCarry

(***************************************************************************)
(* The steps, one lemma each.                                              *)
(***************************************************************************)
LEMMA TypeFacts ==
  ASSUME TeleInv
  PROVE  /\ log \in Seq(Lines) /\ Now \in Nat /\ DOMAIN log = 1 .. Now
         /\ \A i \in DOMAIN log :
              /\ log[i] \in Lines /\ log[i].session \in Session /\ log[i].hasId \in BOOLEAN
              /\ log[i].kind \in {"turn", "read", "get", "search", "load"}
              /\ log[i].kind # "turn" => log[i].path \in Path
              /\ log[i].kind = "turn" => log[i].file = "main"
              /\ log[i].hasId => log[i].kind \in {"read", "get", "search"}
         /\ db = [scopes |-> db.scopes, sessions |-> db.sessions, tasks |-> db.tasks,
                  artifacts |-> db.artifacts, events |-> db.events, obs |-> db.obs]
<1>1. log \in Seq(Lines) /\ Now \in Nat /\ DOMAIN log = 1 .. Now
      /\ \A i \in DOMAIN log : log[i] \in Lines
  BY LogFacts DEF TeleInv, KeyInv, Shape
<1>2. \A i \in DOMAIN log :
        /\ log[i] \in Lines /\ log[i].session \in Session /\ log[i].hasId \in BOOLEAN
        /\ log[i].kind \in {"turn", "read", "get", "search", "load"}
        /\ log[i].kind # "turn" => log[i].path \in Path
        /\ log[i].kind = "turn" => log[i].file = "main"
        /\ log[i].hasId => log[i].kind \in {"read", "get", "search"}
  BY <1>1, LinesAssumption DEF Line
<1>3. QED
  BY <1>1, <1>2 DEF TeleInv, KeyInv, Shape

\* A step that writes no row but perhaps a line of the log
LEMMA SameRows ==
  ASSUME TeleInv, KeyInv', FlowOK', UNCHANGED db,
         UNCHANGED log \/ \E line \in Lines : Recorded(line)
  PROVE  TeleInv'
<1>1. Grown
  <2>1. CASE UNCHANGED log
    BY <2>1, SameLog
  <2>2. ASSUME NEW line \in Lines, Recorded(line) PROVE Grown
    BY <2>2, LogGrows, LogFacts, TypeFacts DEF Grown
  <2>3. QED
    BY <2>1, <2>2
<1>2. AllObsOK(db.events, db.obs)'
  <2>1. PICK F : F = db'.events
    OBVIOUS
  <2>2. PICK obs : obs = db'.obs
    OBVIOUS
  <2>3. obs = [x \in DOMAIN obs |-> obs[x]] /\ obs = db.obs
    BY <2>2 DEF TeleInv, AllObsOK
  <2>4. QED
    BY <1>1, <2>1, <2>2, <2>3, ObsCarry
<1>3. /\ db'.scopes \subseteq Root /\ db'.artifacts \subseteq Path /\ db'.sessions \in Sessions
      /\ \A s \in Session : db'.sessions[s] \in db'.scopes \cup {NoRoot, "none"}
  BY DEF TeleInv, RowsOK
<1>4. QED
  BY <1>1, <1>2, <1>3, Keeps

LEMMA FlowGrows ==
  ASSUME TeleInv, NEW line \in Lines, Recorded(line), UNCHANGED cuts
  PROVE  FlowOK'
<1>1. Now' = Now + 1 /\ Now' <= MaxLog /\ Now \in Nat
  BY LogGrows, TypeFacts
<1>2. cuts \in Seq(Nat) /\ \A f \in DOMAIN cuts : cuts[f] \in Nat
  BY DEF TeleInv, FlowOK
<1>3. \A f \in DOMAIN cuts : cuts[f] <= Now'
  BY <1>1, <1>2 DEF TeleInv, FlowOK
<1>4. QED
  BY <1>1, <1>2, <1>3 DEF TeleInv, FlowOK

LEMMA TeleWorks == ASSUME TeleInv, Works PROVE TeleInv'
<1>1. PICK line \in Lines : Recorded(line) /\ UNCHANGED <<cuts, db>>
  BY DEF Works
<1>2. KeyInv'
  BY WorksStep DEF TeleInv
<1>3. FlowOK'
  BY <1>1, FlowGrows
<1>4. QED
  BY <1>1, <1>2, <1>3, SameRows

\* The server's own record of a call: event and observation are of this call.
LEMMA TeleKarcCall == ASSUME TeleInv, KarcCall PROVE TeleInv'
<1>0. PICK n : n = Now + 1
  OBVIOUS
<1> DEFINE id == <<"mcp", n>>
           key(line) == IF line.kind = "get" THEN <<"karc", n>> ELSE <<"karc", n, line.path>>
           found(line) == line.path \in db.artifacts
           e(line) == Event(key(line), n, n, 0, "mcp")
           new(line) == [x \in DOMAIN db.obs \cup {id} |->
                          IF x = id
                          THEN [call |-> n, link |-> IF found(line) THEN key(line) ELSE NoKey]
                          ELSE db.obs[x]]
<1>1. PICK line \in Lines :
        /\ line.kind \in {"get", "search"} /\ Recorded(line) /\ UNCHANGED cuts
        /\ db' = db \/ db' = [db EXCEPT
             !.events = IF found(line) THEN @ \cup {e(line)} ELSE @, !.obs = new(line)]
  <2> DEFINE Rows(line, m) ==
               LET k == IF line.kind = "get" THEN <<"karc", m>> ELSE <<"karc", m, line.path>>
                   is == line.path \in db.artifacts
               IN [db EXCEPT
                    !.events = IF is THEN @ \cup {Event(k, m, m, 0, "mcp")} ELSE @,
                    !.obs = [x \in DOMAIN @ \cup {<<"mcp", m>>} |->
                              IF x = <<"mcp", m>>
                              THEN [call |-> m, link |-> IF is THEN k ELSE NoKey]
                              ELSE db.obs[x]]]
  <2>1. PICK line \in Lines :
          /\ line.kind \in {"get", "search"} /\ Recorded(line) /\ UNCHANGED cuts
          /\ db' = db \/ db' = Rows(line, Now + 1)
    BY DEF KarcCall
  <2>2. Rows(line, Now + 1) = Rows(line, n)
    <3> HIDE DEF Rows
    <3>1. QED
      BY <1>0
  <2>3. Rows(line, n) = [db EXCEPT
          !.events = IF found(line) THEN @ \cup {e(line)} ELSE @, !.obs = new(line)]
    OBVIOUS
  <2>4. QED
    <3> HIDE DEF Rows, found, e, new
    <3>1. QED
      BY <2>1, <2>2, <2>3
<1>2. KeyInv' /\ FlowOK'
  BY <1>1, KarcCallStep, FlowGrows DEF TeleInv
<1>3. CASE db' = db
  BY <1>1, <1>2, <1>3, SameRows
<1>4. CASE db' = [db EXCEPT !.events = IF found(line) THEN @ \cup {e(line)} ELSE @,
                            !.obs = new(line)]
  <2>1. /\ db'.scopes = db.scopes /\ db'.artifacts = db.artifacts
        /\ db'.sessions = db.sessions /\ db'.tasks = db.tasks /\ db'.obs = new(line)
        /\ found(line) => db'.events = db.events \cup {e(line)}
        /\ ~found(line) => db'.events = db.events
    BY <1>4, TypeFacts
  <2>2. /\ Now \in Nat /\ n = Now' /\ n \in 1 .. Now' /\ log'[n] = line
        /\ \A i \in 1 .. Now : log'[i] = log[i] /\ log[i] \in Lines
    BY <1>0, <1>1, LogGrows, LogFacts, TypeFacts
  <2>3. Grown
    BY <1>0, <2>1, <2>2 DEF Grown
  <2>4. e(line).call = n /\ e(line).task = 0 /\ e(line).chan = "mcp" /\ e(line).key = key(line)
    BY DEF Event
  <2>5. EventOK(e(line))'
    <3>1. PICK r : r = e(line)
      OBVIOUS
    <3>2. r.call \in 0 .. Now' /\ r.task \in 0 .. Now' /\ r.chan = "mcp"
      BY <2>2, <2>4, <3>1
    <3>3. EventOK(r)'
      BY <3>2 DEF EventOK
    <3>4. QED
      BY <3>1, <3>3 DEF e, key, Event
  <2>6. \A x \in db'.events : x \in db.events \/ EventOK(x)'
    <3> HIDE DEF e, found
    <3>1. \A x \in db'.events : x \in db.events \/ x = e(line)
      BY <2>1
    <3>2. PICK r : r = e(line)
      OBVIOUS
    <3>3. EventOK(r)'
      BY <2>5, <3>2 DEF e, key, Event
    <3>4. QED
      BY <3>1, <3>2, <3>3
  <2>7. PICK F : F = db'.events
    OBVIOUS
  <2>8. PICK obs : obs = new(line)
    OBVIOUS
  <2>9. /\ obs = [x \in DOMAIN obs |-> obs[x]]
        /\ \A x \in DOMAIN obs : x # id => x \in DOMAIN db.obs /\ obs[x] = db.obs[x]
        /\ id \in DOMAIN obs
        /\ obs[id] = [call |-> n, link |-> IF found(line) THEN key(line) ELSE NoKey]
    <3> HIDE DEF found, key
    <3>1. QED
      BY <2>8
  <2>10. ObsOK(F, id, obs[id])'
    <3>1. PICK o : o = obs[id]
      OBVIOUS
    <3>2. /\ o = [call |-> o.call, link |-> o.link] /\ o.call = n
          /\ found(line) => o.link = key(line)
          /\ ~found(line) => o.link = NoKey
      <4> HIDE DEF found, key
      <4>1. QED
        BY <2>9, <3>1
    <3>3. LinkOK(F, id, o)'
      <4> HIDE DEF found, key
      <4>1. CASE found(line)
        <5>1. e(line) \in F
          BY <2>1, <2>7, <4>1
        <5>2. id[1] # "transcript"
          OBVIOUS
        <5> HIDE DEF e, id
        <5>3. PICK r \in F : r.key = o.link /\ r.call = o.call
          BY <2>4, <3>2, <4>1, <5>1
        <5>4. QED
          BY <2>2, <3>2, <5>2, <5>3 DEF LinkOK
      <4>2. CASE ~found(line)
        BY <3>2, <4>2 DEF LinkOK
      <4>3. QED
        BY <4>1, <4>2
    <3>4. ObservationFits(id, o.call)'
      BY <3>2 DEF ObservationFits
    <3>5. ObsOK(F, id, o)'
      BY <2>2, <3>2, <3>3, <3>4 DEF ObsOK
    <3>6. QED
      BY <3>1, <3>5
  <2>11. \A x \in DOMAIN obs : \/ x \in DOMAIN db.obs /\ obs[x] = db.obs[x]
                               \/ ObsOK(F, x, obs[x])'
    BY <2>9, <2>10
  <2>12. AllObsOK(db.events, db.obs)'
    <3> HIDE DEF new
    <3>1. obs = db'.obs
      BY <2>1, <2>8
    <3>2. QED
      BY <1>2, <2>3, <2>7, <2>9, <2>11, <3>1, ObsCarry
  <2>13. QED
    <3>1. /\ db'.scopes \subseteq Root /\ db'.artifacts \subseteq Path /\ db'.sessions \in Sessions
          /\ \A s \in Session : db'.sessions[s] \in db'.scopes \cup {NoRoot, "none"}
      BY <2>1 DEF TeleInv, RowsOK
    <3>2. QED
      BY <1>2, <2>1, <2>3, <2>6, <2>12, <3>1, Keeps
<1>5. QED
  BY <1>1, <1>3, <1>4

\* INSERT OR IGNORE of a session by a hook
LEMMA NewSessionOK ==
  ASSUME TeleInv, NEW s \in Session, NEW r \in db.scopes \cup {NoRoot}
  PROVE  LET new == NewSession(db, s, r) IN
         /\ new \in Sessions /\ new[s] # "none"
         /\ \A x \in Session : /\ new[x] \in db.scopes \cup {NoRoot, "none"}
                               /\ db.sessions[x] # "none" => new[x] # "none"
<1>1. r # "none" /\ r \in Root \cup {NoRoot}
  BY IngestAssumption DEF IngestAssumption, TeleInv, RowsOK
<1>2. /\ db.sessions \in [Session -> Root \cup {NoRoot, "none"}]
      /\ \A x \in Session : db.sessions[x] \in db.scopes \cup {NoRoot, "none"}
  BY DEF TeleInv, RowsOK, Sessions
<1>3. QED
  BY <1>1, <1>2 DEF NewSession, Sessions

\* What a key says of the event it names
LEMMA KeyNames ==
  ASSUME NEW e, IsSeed(e) \/ KeyFits(e), e.call # 0 \/ IsSeed(e), NEW i,
         \/ e.key = <<"tu", i>> \/ e.key = <<"karc", i>>
         \/ \E p : e.key = <<"karc", i, p>>
  PROVE  e.call = i
<1>1. e.key[1] # "seed" /\ e.key[1] \in {"tu", "karc"} /\ e.key[2] = i
  OBVIOUS
<1>2. ~IsSeed(e)
  BY <1>1 DEF IsSeed, Event
<1>3. KeyOf(e.key, e.call)
  BY <1>2 DEF KeyFits
<1>4. CASE log[e.call].kind = "read" /\ log[e.call].hasId
  BY <1>1, <1>3, <1>4 DEF KeyOf
<1>5. CASE log[e.call].kind = "read" /\ ~log[e.call].hasId
  BY <1>1, <1>3, <1>5 DEF KeyOf
<1>6. CASE log[e.call].kind \in {"load", "get", "search"}
  BY <1>1, <1>3, <1>6 DEF KeyOf
<1>7. CASE log[e.call].kind \notin {"read", "load", "get", "search"}
  BY <1>3, <1>7 DEF KeyOf
<1>8. QED
  BY <1>4, <1>5, <1>6, <1>7

LEMMA KeyNamesCall ==
  ASSUME KeyInv, NEW e \in db.events, NEW i,
         \/ e.key = <<"tu", i>> \/ e.key = <<"karc", i>>
         \/ \E p : e.key = <<"karc", i, p>>
  PROVE  e.call = i
BY KeyNames DEF KeyInv, KeysFit

LEMMA InsertedEvent ==
  ASSUME KeyInv, NEW key, NEW i, NEW e, e = Event(key, i, Now, 0, "hook"),
         log[i].hasId => key = <<"tu", i>>
  PROVE  /\ db.events \subseteq InsertEvent(db, e)
         /\ \A x \in InsertEvent(db, e) : x \in db.events \/ x = e
         /\ \E x \in InsertEvent(db, e) : x.key = key /\ (log[i].hasId => x.call = i)
<1>1. e.key = key /\ e.call = i
  BY DEF Event
<1>2. CASE key \in Keys(db)
  <2>1. PICK x \in db.events : x.key = key
    BY <1>2 DEF Keys
  <2>2. log[i].hasId => x.call = i
    BY <2>1, KeyNamesCall
  <2>3. QED
    BY <1>1, <1>2, <2>1, <2>2 DEF InsertEvent
<1>3. CASE key \notin Keys(db)
  BY <1>1, <1>3 DEF InsertEvent
<1>4. QED
  BY <1>2, <1>3

\* The rows of a hooked Read or load
OutOfScope(id, i) == [db EXCEPT !.obs = Observed(@, id, i, NoKey)]
InScope(id, key, i) ==
  [db EXCEPT
     !.obs = Observed(@, id, i, key),
     !.artifacts = @ \cup {log[i].path},
     !.sessions = NewSession(db, log[i].session, RootOf[log[i].path]),
     !.events = InsertEvent(db, Event(key, i, Now, 0, "hook"))]

\* Read and load hooks: the same rows, under their ids and keys
LEMMA HookedOK ==
  ASSUME TeleInv, KeyInv', UNCHANGED <<log, cuts>>, NEW i \in DOMAIN log, NEW id, NEW key,
         log[i].kind \in {"read", "load"},
         log[i].hasId => id = <<"hook", i>> /\ key = <<"tu", i>>,
         ~log[i].hasId => \E s, p : id = <<"hook", s, p>> \/ id = <<"load", s, p>>,
         db' = OutOfScope(id, i) \/ (RootOf[log[i].path] \in db.scopes /\ db' = InScope(id, key, i))
  PROVE  TeleInv'
<1>1. /\ Now' = Now /\ Now \in Nat /\ i \in 1 .. Now
      /\ log[i].path \in Path /\ log[i].session \in Session /\ log[i].hasId \in BOOLEAN
  BY TypeFacts DEF Now
<1>2. FlowOK'
  BY <1>1 DEF TeleInv, FlowOK
<1>3. \/ id = <<"hook", i>>
      \/ ~log[i].hasId /\ \E s, p : id = <<"hook", s, p>> \/ id = <<"load", s, p>>
  BY <1>1
<1>4. CASE db' = OutOfScope(id, i)
  <2>1. /\ db'.scopes = db.scopes /\ db'.artifacts = db.artifacts /\ db'.events = db.events
        /\ db'.sessions = db.sessions /\ db'.tasks = db.tasks
        /\ db'.obs = Observed(db.obs, id, i, NoKey)
    BY <1>4, TypeFacts DEF OutOfScope
  <2>2. Grown
    BY <2>1, SameLog
  <2>3. AllObsOK(db.events, db.obs)'
    <3>1. PICK k : k = NoKey
      OBVIOUS
    <3>2. QED
      BY <1>3, <2>1, <2>2, <3>1, ObservedOK
  <2>4. QED
    <3>1. /\ db'.scopes \subseteq Root /\ db'.artifacts \subseteq Path /\ db'.sessions \in Sessions
          /\ \A s \in Session : db'.sessions[s] \in db'.scopes \cup {NoRoot, "none"}
      BY <2>1 DEF TeleInv, RowsOK
    <3>2. QED
      BY <1>2, <2>1, <2>2, <2>3, <3>1, Keeps
<1>5. ASSUME RootOf[log[i].path] \in db.scopes,
             db' = InScope(id, key, i)
      PROVE  TeleInv'
  <2>1. PICK e : e = Event(key, i, Now, 0, "hook")
    OBVIOUS
  <2>2. PICK new : new = NewSession(db, log[i].session, RootOf[log[i].path])
    OBVIOUS
  <2>3. /\ db'.scopes = db.scopes /\ db'.artifacts = db.artifacts \cup {log[i].path}
        /\ db'.events = InsertEvent(db, e) /\ db'.sessions = new /\ db'.tasks = db.tasks
        /\ db'.obs = Observed(db.obs, id, i, key)
    BY <1>5, <2>1, <2>2, TypeFacts DEF InScope
  <2>4. /\ new \in Sessions /\ new[log[i].session] # "none"
        /\ \A x \in Session : /\ new[x] \in db.scopes \cup {NoRoot, "none"}
                              /\ db.sessions[x] # "none" => new[x] # "none"
    <3>1. RootOf[log[i].path] \in db.scopes \cup {NoRoot}
      BY <1>5
    <3>2. QED
      BY <1>1, <2>2, <3>1, NewSessionOK
  <2>5. /\ db.events \subseteq db'.events
        /\ \A x \in db'.events : x \in db.events \/ x = e
        /\ \E x \in db'.events : x.key = key /\ (log[i].hasId => x.call = i)
    BY <2>1, <2>3, InsertedEvent DEF TeleInv
  <2>6. Grown
    BY <2>3, <2>4, <2>5, SameLog
  <2>7. AllObsOK(db.events, db.obs)'
    BY <1>3, <2>3, <2>5, <2>6, ObservedOK
  <2>8. EventOK(e)'
    <3>1. e.call = i /\ e.task = 0 /\ e.chan = "hook"
      BY <2>1 DEF Event
    <3>2. QED
      BY <1>1, <2>3, <2>4, <3>1 DEF EventOK
  <2>9. \A x \in db'.events : x \in db.events \/ EventOK(x)'
    BY <2>5, <2>8
  <2>10. QED
    <3>1. /\ db'.scopes \subseteq Root /\ db'.artifacts \subseteq Path /\ db'.sessions \in Sessions
          /\ \A s \in Session : db'.sessions[s] \in db'.scopes \cup {NoRoot, "none"}
      BY <1>1, <2>3, <2>4 DEF TeleInv, RowsOK
    <3>2. QED
      BY <1>2, <2>3, <2>6, <2>7, <2>9, <3>1, Keeps
<1>6. QED
  BY <1>4, <1>5

LEMMA TeleHook == ASSUME TeleInv, Hook PROVE TeleInv'
<1>1. PICK i \in hooks :
        /\ db' = CASE log[i].kind = "read" -> HookedRead(i)
                   [] log[i].kind = "load" -> HookedLoad(i)
                   [] OTHER -> HookedKarc(i)
        /\ UNCHANGED <<log, cuts>>
  BY DEF Hook
<1>2. KeyInv'
  BY HookStep DEF TeleInv
<1>3. /\ i \in DOMAIN log /\ i \in 1 .. Now /\ Now' = Now /\ log[i].hasId \in BOOLEAN
      /\ log[i].session \in Session /\ (log[i].hasId => log[i].kind # "load")
  BY <1>1, TypeFacts DEF TeleInv, KeyInv, Shape, Now
<1>4. CASE log[i].kind = "read"
  <2>1. PICK id : id = HookObservation(i)
    OBVIOUS
  <2>2. PICK key : key = HookKey(i, Now)
    OBVIOUS
  <2>3. /\ log[i].hasId => id = <<"hook", i>> /\ key = <<"tu", i>>
        /\ ~log[i].hasId => \E s, p : id = <<"hook", s, p>> \/ id = <<"load", s, p>>
    BY <2>1, <2>2 DEF HookObservation, HookKey, CallKey
  <2>4. db' = HookedRead(i)
    BY <1>1, <1>4
  <2>5. db' = OutOfScope(id, i) \/ (RootOf[log[i].path] \in db.scopes /\ db' = InScope(id, key, i))
    BY <2>1, <2>2, <2>4 DEF HookedRead, OutOfScope, InScope
  <2>6. QED
    BY <1>1, <1>2, <1>3, <1>4, <2>3, <2>5, HookedOK
<1>5. CASE log[i].kind = "load"
  <2>1. PICK id : id = <<"load", log[i].session, log[i].path>>
    OBVIOUS
  <2>2. PICK key : key = <<"loaded", log[i].session, log[i].path, BucketOf(Now)>>
    OBVIOUS
  <2>3. /\ ~log[i].hasId
        /\ \E s, p : id = <<"hook", s, p>> \/ id = <<"load", s, p>>
    BY <1>3, <1>5, <2>1
  <2>4. db' = HookedLoad(i)
    BY <1>1, <1>5
  <2>5. db' = OutOfScope(id, i) \/ (RootOf[log[i].path] \in db.scopes /\ db' = InScope(id, key, i))
    BY <2>1, <2>2, <2>4 DEF HookedLoad, OutOfScope, InScope
  <2>6. QED
    BY <1>1, <1>2, <1>3, <1>5, <2>3, <2>5, HookedOK
<1>6. CASE log[i].kind \notin {"read", "load"}
  <2>1. PICK key : key = IF CallIdIn(i) /\ KarcKeys(i) # {}
                         THEN CHOOSE k \in KarcKeys(i) : TRUE ELSE NoKey
    OBVIOUS
  <2>2. PICK new : new = NewSession(db, log[i].session, NoRoot)
    OBVIOUS
  <2>3. db' = [db EXCEPT !.obs = Observed(@, <<"hook", i>>, i, key), !.sessions = new]
    BY <1>1, <1>6, <2>1, <2>2 DEF HookedKarc
  <2>4. /\ db'.scopes = db.scopes /\ db'.artifacts = db.artifacts /\ db'.events = db.events
        /\ db'.sessions = new /\ db'.tasks = db.tasks
        /\ db'.obs = Observed(db.obs, <<"hook", i>>, i, key)
    BY <2>3, TypeFacts
  <2>5. /\ new \in Sessions
        /\ \A x \in Session : /\ new[x] \in db.scopes \cup {NoRoot, "none"}
                              /\ db.sessions[x] # "none" => new[x] # "none"
    BY <1>3, <2>2, NewSessionOK
  <2>6. Grown
    BY <1>1, <2>4, <2>5, SameLog
  <2>7. key = NoKey \/ \E e \in db'.events : e.key = key /\ (log[i].hasId => e.call = i)
    <3>1. CASE key \in KarcKeys(i)
      <4>1. PICK e \in db.events : e.key = key
        BY <3>1 DEF KarcKeys, Keys
      <4>2. key = <<"karc", i>> \/ key = <<"karc", i, log[i].path>>
        BY <3>1 DEF KarcKeys
      <4>3. e.call = i
        BY <4>1, <4>2, KeyNamesCall DEF TeleInv
      <4>4. QED
        BY <2>4, <4>1, <4>3
    <3>2. QED
      BY <2>1, <3>1
  <2>8. AllObsOK(db.events, db.obs)'
    <3>1. PICK id : id = <<"hook", i>>
      OBVIOUS
    <3>2. QED
      BY <1>1, <1>2, <1>3, <2>4, <2>6, <2>7, <3>1, ObservedOK
  <2>9. QED
    <3>1. /\ db'.scopes \subseteq Root /\ db'.artifacts \subseteq Path /\ db'.sessions \in Sessions
          /\ \A s \in Session : db'.sessions[s] \in db'.scopes \cup {NoRoot, "none"}
      BY <2>4, <2>5 DEF TeleInv, RowsOK
    <3>2. FlowOK'
      BY <1>1, <1>3 DEF TeleInv, FlowOK
    <3>3. QED
      BY <1>2, <2>4, <2>6, <2>8, <3>1, <3>2, Keeps
<1>7. QED
  BY <1>4, <1>5, <1>6

LEMMA TeleScan == ASSUME TeleInv, Scan PROVE TeleInv'
<1>1. PICK r \in Scanned :
        LET found == {p \in Path : RootOf[p] = r}
            seeds == {Event(<<"seed", p>>, 0, 0, 0, "manual") : p \in found \cap Seeds}
        IN /\ db' = [db EXCEPT !.scopes = @ \cup {r},
                               !.artifacts = @ \cup found,
                               !.events = @ \cup seeds]
           /\ UNCHANGED <<log, hooks, cuts>>
  BY DEF Scan
<1> DEFINE found == {p \in Path : RootOf[p] = r}
           seeds == {Event(<<"seed", p>>, 0, 0, 0, "manual") : p \in found \cap Seeds}
<1>2. /\ db'.scopes = db.scopes \cup {r} /\ db'.artifacts = db.artifacts \cup found
      /\ db'.events = db.events \cup seeds
      /\ UNCHANGED <<log, cuts>>
      /\ db'.sessions = db.sessions /\ db'.tasks = db.tasks /\ db'.obs = db.obs
  BY <1>1, TypeFacts
<1>3. r \in Root /\ found \subseteq Path
  BY IngestAssumption DEF IngestAssumption
<1>4. KeyInv' /\ FlowOK'
  BY <1>2, ScanStep DEF TeleInv, FlowOK, Now
<1>5. Grown
  BY <1>2, SameLog
<1>6. \A e \in seeds : EventOK(e)'
  <2>1. Now' \in Nat
    BY <1>5 DEF Grown
  <2>2. ASSUME NEW e \in seeds PROVE EventOK(e)'
    <3>1. e.call = 0 /\ e.task = 0 /\ e.chan = "manual"
      BY <2>2 DEF Event
    <3>2. QED
      BY <2>1, <3>1 DEF EventOK
  <2>3. PICK S : S = seeds
    OBVIOUS
  <2>4. QED
    BY <2>2
<1>7. \A e \in db'.events : e \in db.events \/ EventOK(e)'
  <2> HIDE DEF seeds
  <2>1. QED
    BY <1>2, <1>6
<1>8. AllObsOK(db.events, db.obs)'
  <2>1. PICK F : F = db'.events
    OBVIOUS
  <2>2. PICK obs : obs = db'.obs
    OBVIOUS
  <2>3. obs = [x \in DOMAIN obs |-> obs[x]] /\ obs = db.obs
    BY <1>2, <2>2 DEF TeleInv, AllObsOK
  <2>4. QED
    BY <1>4, <1>5, <2>1, <2>2, <2>3, ObsCarry
<1>9. QED
  <2>1. /\ db'.scopes \subseteq Root /\ db'.artifacts \subseteq Path /\ db'.sessions \in Sessions
        /\ \A s \in Session : db'.sessions[s] \in db'.scopes \cup {NoRoot, "none"}
    BY <1>2, <1>3 DEF TeleInv, RowsOK
  <2>2. QED
    BY <1>2, <1>4, <1>5, <1>7, <1>8, <2>1, Keeps

LEMMA TeleParse == ASSUME TeleInv, ParseFile \/ IngestDies \/ UNCHANGED vars PROVE TeleInv'
<1>1. UNCHANGED <<log, hooks, db>>
  BY DEF ParseFile, IngestDies, vars
<1>2. KeyInv'
  BY KeyInvNext DEF TeleInv, Next
<1>3. Now' = Now /\ Now \in Nat /\ DOMAIN log = 1 .. Now
  BY <1>1, TypeFacts DEF Now
<1>4. ASSUME cuts' = cuts PROVE FlowOK'
  BY <1>3, <1>4 DEF TeleInv, FlowOK
<1>5. ASSUME IngestDies PROVE FlowOK'
  BY <1>3, <1>5, IngestAssumption DEF IngestDies, TeleInv, FlowOK, IngestAssumption
<1>6. ASSUME ParseFile PROVE FlowOK'
  <2>1. PICK end \in 0 .. Now : cuts' = Append(cuts, end)
    BY <1>3, <1>6 DEF ParseFile
  <2>2. cuts \in Seq(Nat) /\ Len(cuts) < Len(FileOrder) /\ \A f \in DOMAIN cuts : cuts[f] <= Now
    BY <1>6 DEF ParseFile, TeleInv, FlowOK
  <2>3. end \in Nat /\ end <= Now
    BY <1>3
  <2>4. /\ cuts' \in Seq(Nat) /\ Len(cuts') = Len(cuts) + 1
        /\ \A f \in 1 .. Len(cuts) : cuts'[f] = cuts[f]
        /\ cuts'[Len(cuts) + 1] = end
    BY <2>1, <2>2, <2>3, AppendProperties
  <2>5. Len(cuts) \in Nat /\ Len(FileOrder) \in Nat
    BY <2>2, IngestAssumption DEF IngestAssumption
  <2>6. \A f \in DOMAIN cuts' : cuts'[f] <= Now
    <3>1. \A f \in 1 .. Len(cuts) + 1 : f \in 1 .. Len(cuts) \/ f = Len(cuts) + 1
      BY <2>5
    <3>2. DOMAIN cuts' = 1 .. Len(cuts) + 1 /\ DOMAIN cuts = 1 .. Len(cuts)
      BY <2>2, <2>4
    <3>3. QED
      BY <2>2, <2>3, <2>4, <3>1, <3>2
  <2>7. Len(cuts') <= Len(FileOrder)
    BY <2>2, <2>4, <2>5
  <2>8. QED
    BY <1>3, <2>4, <2>6, <2>7 DEF TeleInv, FlowOK
<1>7. FlowOK'
  BY <1>4, <1>5, <1>6 DEF vars
<1>8. QED
  BY <1>1, <1>2, <1>7, SameRows

(***************************************************************************)
(* The writing half of an ingestion.                                       *)
(***************************************************************************)

\* What is read of a main file is all of it up to a line, so a main line that
\* was seen has all turns before it seen as well.
LEMMA SeenFacts ==
  ASSUME TeleInv
  PROVE  /\ Seen \in SUBSET DOMAIN log
         /\ \A i \in Seen : log[i].file = "main" =>
              \A j \in TurnsOf(log[i].session) : j <= i => j \in Seen
<1>1. Seen \in SUBSET DOMAIN log
  BY DEF Seen
<1>2. ASSUME NEW i \in Seen, log[i].file = "main", NEW j \in TurnsOf(log[i].session), j <= i
      PROVE  j \in Seen
  <2>1. PICK f \in DOMAIN cuts : InFile(i, f) /\ i <= cuts[f]
    BY DEF Seen
  <2>2. /\ j \in DOMAIN log /\ log[j].session = log[i].session /\ log[j].file = "main"
        /\ j \in Nat /\ i \in Nat
    BY <1>1, TypeFacts DEF TurnsOf, IsTurn
  <2>3. InFile(j, f)
    BY <1>2, <2>1, <2>2 DEF InFile
  <2>4. cuts[f] \in Nat
    BY <2>1 DEF TeleInv, FlowOK
  <2>5. j <= cuts[f]
    BY <1>2, <2>1, <2>2, <2>4
  <2>6. QED
    BY <2>1, <2>2, <2>3, <2>5 DEF Seen
<1>3. QED
  BY <1>1, <1>2

LEMMA SeenPrefix ==
  ASSUME TeleInv, NEW seen \in SUBSET DOMAIN log, NEW s,
         \A i \in seen : log[i].file = "main" =>
           \A j \in TurnsOf(log[i].session) : j <= i => j \in seen
  PROVE  Prefix(Turns(seen, s), s)
<1>1. Turns(seen, s) \subseteq TurnsOf(s)
  BY TypeFacts DEF Turns, TurnsOf
<1>2. ASSUME NEW i \in Turns(seen, s), NEW j \in TurnsOf(s), j <= i PROVE j \in Turns(seen, s)
  <2>1. i \in seen /\ log[i].session = s /\ log[i].file = "main"
    BY TypeFacts DEF Turns, IsTurn
  <2>2. j \in seen
    BY <1>2, <2>1
  <2>3. QED
    BY <2>2 DEF Turns, TurnsOf
<1>3. QED
  BY <1>1, <1>2 DEF Prefix

LEMMA TurnsCounted ==
  ASSUME TeleInv, NEW seen \in SUBSET DOMAIN log, NEW i \in seen,
         \A x \in seen : log[x].file = "main" =>
           \A j \in TurnsOf(log[x].session) : j <= x => j \in seen
  PROVE  LET s == log[i].session  task == Before(Turns(seen, s), i) IN
         /\ task \in 0 .. Now /\ task <= TasksBegun(s, i)
         /\ log[i].file = "main" => task = TasksBegun(s, i)
<1> DEFINE s == log[i].session
<1>1. i \in 1 .. Now /\ Now \in Nat
  BY TypeFacts
<1>2. UpTo(TurnsOf(s), i) = {j \in 1 .. i : IsTurn(j, s)}
  <2>1. \A j \in 1 .. i : j \in 1 .. Now /\ j <= i
    BY <1>1
  <2>2. \A j \in 1 .. Now : j <= i => j \in 1 .. i
    BY <1>1
  <2>3. QED
    BY <2>1, <2>2 DEF UpTo, TurnsOf
<1>3. Before(TurnsOf(s), i) = TasksBegun(s, i)
  BY <1>2 DEF Before, UpTo, TasksBegun
<1>4. /\ TurnsOf(s) \in SUBSET Nat /\ Turns(seen, s) \in SUBSET Nat
      /\ Turns(seen, s) \subseteq TurnsOf(s)
  BY TypeFacts DEF Turns, TurnsOf
<1>5. Before(Turns(seen, s), i) <= TasksBegun(s, i)
  BY <1>1, <1>3, <1>4, CountMonotone
<1>6. TasksBegun(s, i) <= i /\ TasksBegun(s, i) \in Nat
  <2>1. {j \in 1 .. i : IsTurn(j, s)} \in SUBSET (1 .. i)
    OBVIOUS
  <2>2. IsFiniteSet(1 .. i) /\ Cardinality(1 .. i) = i
    <3>1. i \in Int /\ 1 \in Int /\ i - 1 + 1 = i /\ ~(1 > i)
      BY <1>1
    <3>2. QED
      BY <3>1, FS_Interval
  <2>3. QED
    BY <2>1, <2>2, FS_Subset, FS_CardinalityType DEF TasksBegun
<1>7. Before(Turns(seen, s), i) \in Nat
  BY <1>1, <1>4, CountType
<1>8. ASSUME log[i].file = "main" PROVE Before(Turns(seen, s), i) = TasksBegun(s, i)
  <2>1. \A j \in TurnsOf(s) : j <= i => j \in Turns(seen, s)
    BY <1>8 DEF Turns, TurnsOf
  <2>2. UpTo(Turns(seen, s), i) = UpTo(TurnsOf(s), i)
    BY <1>4, <2>1 DEF UpTo
  <2>3. QED
    BY <1>3, <2>2 DEF Before, UpTo
<1>9. Before(Turns(seen, s), i) \in 0 .. Now
  BY <1>1, <1>5, <1>6, <1>7
<1>10. QED
  BY <1>5, <1>8, <1>9

\* What an ingestion of the lines `seen` finds and writes
Found(d, seen) == Promoted(d, Scopes(d, {log[i].session : i \in seen}), seen)

LEMMA FoundReads ==
  ASSUME TeleInv, NEW d, NEW seen \in SUBSET DOMAIN log
  PROVE  /\ Found(d, seen) \in SUBSET seen /\ Found(d, seen) \in SUBSET DOMAIN log
         /\ \A i \in Found(d, seen) : i \in seen /\ log[i].kind = "read"
BY DEF Found, Promoted

LEMMA IngestedFields ==
  ASSUME NEW d, NEW seen
  PROVE  LET S == {log[i].session : i \in seen}  once == Ingested(d, seen) IN
         /\ once = [scopes |-> once.scopes, sessions |-> once.sessions, tasks |-> once.tasks,
                    artifacts |-> once.artifacts, events |-> once.events, obs |-> once.obs]
         /\ once.scopes = d.scopes \cup {Cwd[s] : s \in S}
         /\ once.sessions = [s \in Session |->
              IF s \in S /\ d.sessions[s] = "none" THEN Cwd[s] ELSE d.sessions[s]]
         /\ once.tasks = [s \in Session |-> Merged(d.tasks[s], TaskRows(Turns(seen, s)))]
         /\ once.artifacts = d.artifacts \cup {log[i].path : i \in Found(d, seen)}
         /\ once.events = d.events \cup NewEvents(d, Found(d, seen), seen)
         /\ once.obs = ObservedAll(d, seen, Found(d, seen))
BY DEF Ingested, Found

\* The observations after an ingestion
LEMMA IngestedObs ==
  ASSUME TeleInv, KeyInv', Grown, UNCHANGED log, NEW seen \in SUBSET DOMAIN log,
         db' = Ingested(db, seen)
  PROVE  AllObsOK(db.events, db.obs)'
<1>1. PICK F : F = db'.events
  OBVIOUS
<1>2. PICK all : all = ObservedAll(db, seen, Found(db, seen))
  OBVIOUS
<1>3. all = db'.obs /\ F = db.events \cup NewEvents(db, Found(db, seen), seen)
  BY <1>1, <1>2, IngestedFields
<1> DEFINE reads == {i \in seen : log[i].kind = "read"}
           link(i) == IF i \in Found(db, seen) THEN CallKey(i, i) ELSE NoKey
<1>4. /\ all = [x \in DOMAIN db.obs \cup {<<"transcript", i>> : i \in reads} |-> all[x]]
      /\ \A x \in DOMAIN db.obs : (\A i \in reads : x # <<"transcript", i>>) => all[x] = db.obs[x]
      /\ \A i \in reads : \A x : x = <<"transcript", i>> =>
           /\ x \notin DOMAIN db.obs => all[x] = [call |-> i, link |-> link(i)]
           /\ x \in DOMAIN db.obs =>
                all[x] = [db.obs[x] EXCEPT !.link = IF @ = NoKey THEN link(i) ELSE @]
  <2>1. /\ log \in Seq(Lines)
        /\ \A i \in Found(db, seen) : i \in seen /\ log[i].kind = "read"
    BY TypeFacts, FoundReads
  <2>2. PICK calls : calls = Found(db, seen)
    OBVIOUS
  <2>3. Written(db.obs, seen, calls, all)
    BY <1>2, <2>1, <2>2, ObservedAllIs
  <2>4. QED
    BY <2>2, <2>3 DEF Written
<1>5. ASSUME NEW i \in reads, NEW o, o.call = i, o.link = link(i)
      PROVE  LinkOK(F, <<"transcript", i>>, o)'
  <2>1. CASE i \in Found(db, seen)
    <3>1. o.link = CallKey(i, i)
      BY <1>5, <2>1
    <3>2. PICK e \in F : e.key = CallKey(i, i)
      BY <1>3, <2>1, TypeFacts, FoundReads, Covered
    <3>3. ASSUME log[i].hasId PROVE e.call = i
      <4>1. e.key = <<"tu", i>> /\ e \in db'.events
        BY <1>1, <3>2, <3>3 DEF CallKey
      <4>2. IsSeed(e)' \/ (e.call # 0 /\ KeyFits(e)')
        BY <4>1 DEF KeyInv, KeysFit
      <4>3. IsSeed(e) \/ (e.call # 0 /\ KeyFits(e))
        BY <4>2 DEF IsSeed, Event, KeyFits, KeyOf
      <4>4. QED
        BY <4>1, <4>3, KeyNames
    <3>4. LinkOK(F, <<"transcript", i>>, o)
      BY <1>5, <3>1, <3>2, <3>3 DEF LinkOK
    <3>5. QED
      BY <3>4 DEF LinkOK, CallKey
  <2>2. CASE i \notin Found(db, seen)
    BY <1>5, <2>2 DEF LinkOK
  <2>3. QED
    BY <2>1, <2>2
<1>6. ASSUME NEW i \in reads, NEW x, x = <<"transcript", i>>, NEW o, o = all[x]
      PROVE  \/ x \in DOMAIN db.obs /\ o = db.obs[x]
             \/ ObsOK(F, x, o)'
  <2>1. i \in 1 .. Now /\ Now' = Now
    BY TypeFacts DEF Now
  <2>2. ObservationFits(x, i)' /\ ObservationFits(x, i)
    BY <1>6 DEF ObservationFits
  <2>3. CASE o = [call |-> i, link |-> link(i)]
    <3>1. o = [call |-> o.call, link |-> o.link] /\ o.call = i /\ o.link = link(i)
      <4> HIDE DEF link
      <4>1. QED
        BY <2>3
    <3>2. LinkOK(F, x, o)'
      BY <1>5, <1>6, <3>1
    <3>3. QED
      BY <2>1, <2>2, <3>1, <3>2 DEF ObsOK
  <2>4. CASE x \in DOMAIN db.obs
    <3>1. PICK q : q = db.obs[x]
      OBVIOUS
    <3>2. q = [call |-> q.call, link |-> q.link] /\ q.call \in 1 .. Now /\ ObservationFits(x, q.call)
      BY <2>4, <3>1 DEF TeleInv, AllObsOK, ObsOK
    <3>3. q.call = i
      <4>1. \A s, p : x # <<"hook", s, p>> /\ x # <<"load", s, p>>
        BY <1>6
      <4>2. \A c : /\ x = <<"transcript", c>> => c = i
                   /\ x # <<"hook", c>> /\ x # <<"mcp", c>>
        BY <1>6
      <4>3. QED
        BY <3>2, <4>1, <4>2 DEF ObservationFits
    <3>4. o = [q EXCEPT !.link = IF @ = NoKey THEN link(i) ELSE @]
      BY <1>4, <1>6, <2>4, <3>1
    <3>5. CASE q.link # NoKey
      BY <2>4, <3>1, <3>2, <3>4, <3>5
    <3>6. CASE q.link = NoKey
      <4> HIDE DEF link
      <4>1. o = [call |-> i, link |-> link(i)]
        BY <3>2, <3>3, <3>4, <3>6
      <4>2. QED
        BY <2>3, <4>1
    <3>7. QED
      BY <3>5, <3>6
  <2>5. QED
    BY <1>4, <1>6, <2>3, <2>4
<1>7. \A x \in DOMAIN all : \/ x \in DOMAIN db.obs /\ all[x] = db.obs[x]
                            \/ ObsOK(F, x, all[x])'
  <2>1. TAKE x \in DOMAIN all
  <2>2. PICK o : o = all[x]
    OBVIOUS
  <2>3. CASE \E i \in reads : x = <<"transcript", i>>
    BY <1>6, <2>2, <2>3
  <2>4. CASE \A i \in reads : x # <<"transcript", i>>
    <3>1. x \in DOMAIN db.obs
      BY <1>4, <2>4
    <3>2. QED
      BY <1>4, <2>4, <3>1
  <2>5. QED
    BY <2>3, <2>4
<1>8. all = [x \in DOMAIN all |-> all[x]]
  BY <1>4
<1>9. QED
  BY <1>1, <1>3, <1>7, <1>8, ObsCarry

\* An ingestion gives every session it met a row, and takes none away.
SessionsAfter(S, sessions) ==
  sessions = [s \in Session |->
                IF s \in S /\ db.sessions[s] = "none" THEN Cwd[s] ELSE db.sessions[s]]

LEMMA IngestedSessions ==
  ASSUME TeleInv, NEW S \in SUBSET Session, NEW sessions, SessionsAfter(S, sessions)
  PROVE  /\ {Cwd[s] : s \in S} \subseteq Root
         /\ sessions \in Sessions
         /\ \A s \in Session :
              /\ sessions[s] \in db.scopes \cup {Cwd[x] : x \in S} \cup {NoRoot, "none"}
              /\ db.sessions[s] # "none" => sessions[s] # "none"
              /\ s \in S => sessions[s] # "none"
<1>2. \A s \in Session : Cwd[s] \in Root /\ Cwd[s] # "none"
  BY IngestAssumption DEF IngestAssumption
<1>3. \A s \in Session : db.sessions[s] \in Root \cup {NoRoot, "none"}
                         /\ db.sessions[s] \in db.scopes \cup {NoRoot, "none"}
  BY DEF TeleInv, RowsOK, Sessions
<1>4. \A s \in Session :
        sessions[s] = IF s \in S /\ db.sessions[s] = "none" THEN Cwd[s] ELSE db.sessions[s]
  BY DEF SessionsAfter
<1>5. sessions \in Sessions
  <2>1. \A s \in Session :
          (IF s \in S /\ db.sessions[s] = "none" THEN Cwd[s] ELSE db.sessions[s])
            \in Root \cup {NoRoot, "none"}
    BY <1>2, <1>3
  <2>2. QED
    BY <2>1 DEF Sessions, SessionsAfter
<1>6. ASSUME NEW s \in Session
      PROVE  /\ sessions[s] \in db.scopes \cup {Cwd[x] : x \in S} \cup {NoRoot, "none"}
             /\ db.sessions[s] # "none" => sessions[s] # "none"
             /\ s \in S => sessions[s] # "none"
  BY <1>2, <1>3, <1>4
<1>7. QED
  BY <1>2, <1>5, <1>6

\* The event of a promoted call is in time, and its rows are there.
LEMMA IngestedEvents ==
  ASSUME TeleInv, UNCHANGED log, NEW seen \in SUBSET DOMAIN log,
         \A x \in seen : log[x].file = "main" =>
           \A j \in TurnsOf(log[x].session) : j <= x => j \in seen,
         NEW calls \in SUBSET seen,
         \A i \in calls : log[i].path \in db'.artifacts,
         \A i \in calls : db'.sessions[log[i].session] # "none",
         NEW e \in NewEvents(db, calls, seen)
  PROVE  EventOK(e)'
<1>1. PICK i \in calls :
        e = Event(CallKey(i, i), i, i, Before(Turns(seen, log[i].session), i), "transcript")
  BY DEF NewEvents
<1>2. PICK s : s = log[i].session
  OBVIOUS
<1>3. PICK task : task = Before(Turns(seen, s), i)
  OBVIOUS
<1>4. PICK right : right = TasksBegun(s, i)
  OBVIOUS
<1>5. i \in seen /\ i \in 1 .. Now /\ Now' = Now /\ Now \in Nat
  BY TypeFacts DEF Now
<1>6. /\ task \in 0 .. Now /\ task <= right
      /\ log[i].file = "main" => task = right
  BY <1>2, <1>3, <1>4, <1>5, TurnsCounted
<1>7. e.call = i /\ e.task = task /\ e.chan = "transcript"
  BY <1>1, <1>2, <1>3 DEF Event
<1>8. TasksBegun(log[i].session, i)' = right
  BY <1>2, <1>4 DEF TasksBegun, IsTurn
<1>9. /\ log'[i].file = "main" => task = right
      /\ log'[i].path \in db'.artifacts /\ db'.sessions[log'[i].session] # "none"
  BY <1>6
<1>10. (e.chan = "transcript" =>
          LET r == TasksBegun(log[e.call].session, e.call) IN
          /\ e.call # 0 /\ e.task <= r
          /\ log[e.call].file = "main" => e.task = r)'
  BY <1>5, <1>6, <1>7, <1>8, <1>9
<1>11. QED
  BY <1>5, <1>6, <1>7, <1>9, <1>10 DEF EventOK

LEMMA TeleCommit == ASSUME TeleInv, Commit PROVE TeleInv'
<1>1. PICK seen : seen = Seen
  OBVIOUS
<1>2. db' = Ingested(db, seen) /\ cuts' = << >> /\ UNCHANGED <<log, hooks>>
  BY <1>1 DEF Commit
<1>3. /\ seen \in SUBSET DOMAIN log
      /\ \A i \in seen : log[i].file = "main" =>
           \A j \in TurnsOf(log[i].session) : j <= i => j \in seen
  BY <1>1, SeenFacts
<1>4. KeyInv'
  BY CommitStep DEF TeleInv
<1>5. PICK calls : calls = Found(db, seen)
  OBVIOUS
<1>6. PICK S : S = {log[i].session : i \in seen}
  OBVIOUS
<1>7. /\ db'.scopes = db.scopes \cup {Cwd[s] : s \in S}
      /\ db'.sessions = [s \in Session |->
           IF s \in S /\ db.sessions[s] = "none" THEN Cwd[s] ELSE db.sessions[s]]
      /\ db'.tasks = [s \in Session |-> Merged(db.tasks[s], TaskRows(Turns(seen, s)))]
      /\ db'.artifacts = db.artifacts \cup {log[i].path : i \in calls}
      /\ db'.events = db.events \cup NewEvents(db, calls, seen)
  BY <1>2, <1>5, <1>6, IngestedFields
<1>8. calls \in SUBSET seen /\ \A i \in calls : log[i].kind = "read"
  BY <1>3, <1>5, FoundReads
<1>9. /\ S \subseteq Session /\ {Cwd[s] : s \in S} \subseteq Root
      /\ db'.sessions \in Sessions
      /\ \A s \in Session :
           /\ db'.sessions[s] \in db'.scopes \cup {NoRoot, "none"}
           /\ db.sessions[s] # "none" => db'.sessions[s] # "none"
           /\ s \in S => db'.sessions[s] # "none"
  <2>1. PICK new : new = db'.sessions
    OBVIOUS
  <2>2. S \in SUBSET Session
    BY <1>3, <1>6, TypeFacts
  <2>3. SessionsAfter(S, new)
    BY <1>7, <2>1 DEF SessionsAfter
  <2>4. /\ {Cwd[s] : s \in S} \subseteq Root
        /\ new \in Sessions
        /\ \A s \in Session :
             /\ new[s] \in db.scopes \cup {Cwd[x] : x \in S} \cup {NoRoot, "none"}
             /\ db.sessions[s] # "none" => new[s] # "none"
             /\ s \in S => new[s] # "none"
    BY <2>2, <2>3, IngestedSessions
  <2>5. QED
    BY <1>7, <2>1, <2>2, <2>4
<1>10. Grown
  BY <1>2, <1>7, <1>9, SameLog
<1>11. \A s \in Session : RowsTrue(db.tasks[s], s)'
  <2>1. TAKE s \in Session
  <2>2. PICK turns : turns = Turns(seen, s)
    OBVIOUS
  <2>3. Prefix(turns, s)
    BY <1>3, <2>2, SeenPrefix
  <2>4. RowsTrue(TaskRows(turns), s) /\ RowsTrue(db.tasks[s], s)
    BY <2>3, TypeFacts, TaskRowsTrue DEF TeleInv, RowsOK
  <2>5. PICK rows : rows = Merged(db.tasks[s], TaskRows(turns))
    OBVIOUS
  <2>6. RowsTrue(rows, s)
    BY <2>4, <2>5, MergedRows
  <2>7. RowsTrue(rows, s)'
    BY <1>4, <1>10, <2>6, Stays
  <2>8. db'.tasks[s] = rows
    BY <1>7, <2>2, <2>5
  <2>9. QED
    BY <2>7, <2>8 DEF RowsTrue
<1>12. RowsOK'
  <2>1. \A i \in calls : log[i].path \in Path
    BY <1>3, <1>8, TypeFacts
  <2>2. db'.scopes \subseteq Root /\ db'.artifacts \subseteq Path
    BY <1>7, <1>9, <2>1 DEF TeleInv, RowsOK
  <2>3. QED
    BY <1>9, <1>11, <2>2 DEF RowsOK
<1>13. (\A e \in db.events : EventOK(e))'
  <2>1. \A e \in db.events : EventOK(e)'
    BY <1>4, <1>10, Stays
  <2>2. \A i \in calls : log[i].path \in db'.artifacts /\ db'.sessions[log[i].session] # "none"
    BY <1>3, <1>6, <1>7, <1>8, <1>9
  <2>3. \A e \in NewEvents(db, calls, seen) : EventOK(e)'
    BY <1>2, <1>3, <1>8, <2>2, IngestedEvents
  <2>4. QED
    BY <1>7, <2>1, <2>3
<1>14. AllObsOK(db.events, db.obs)'
  BY <1>2, <1>3, <1>4, <1>10, IngestedObs
<1>15. FlowOK'
  <2>1. Now' = Now /\ Now <= MaxLog
    BY <1>2 DEF Now, TeleInv, FlowOK
  <2>2. Len(FileOrder) \in Nat
    BY IngestAssumption DEF IngestAssumption
  <2>3. cuts' \in Seq(Nat) /\ Len(cuts') = 0 /\ DOMAIN cuts' = {}
    BY <1>2
  <2>4. QED
    BY <2>1, <2>2, <2>3 DEF FlowOK
<1>16. QED
  BY <1>4, <1>12, <1>13, <1>14, <1>15 DEF TeleInv

LEMMA TeleInit == ASSUME Init PROVE TeleInv
<1>1. KeyInv
  BY KeyInvInit
<1>2. Now = 0 /\ DOMAIN log = {} /\ cuts \in Seq(Nat) /\ Len(cuts) = 0 /\ DOMAIN cuts = {}
  BY DEF Init, Now
<1>3. FlowOK
  BY <1>2, IngestAssumption DEF FlowOK, IngestAssumption
<1>4. RowsOK
  <2>1. /\ db.scopes = {} /\ db.artifacts = {}
        /\ db.sessions = [s \in Session |-> "none"] /\ db.tasks = [s \in Session |-> << >>]
    BY DEF Init
  <2>2. \A s \in Session : RowsTrue(<< >>, s)
    BY DEF RowsTrue
  <2>3. QED
    BY <2>1, <2>2 DEF RowsOK, Sessions
<1>5. db.events = {} /\ db.obs = << >> /\ DOMAIN db.obs = {}
  BY DEF Init
<1>6. AllObsOK(db.events, db.obs)
  BY <1>5 DEF AllObsOK
<1>7. QED
  BY <1>1, <1>3, <1>4, <1>5, <1>6 DEF TeleInv

LEMMA TeleNext == TeleInv /\ [Next]_vars => TeleInv'
<1> SUFFICES ASSUME TeleInv, [Next]_vars PROVE TeleInv'
  OBVIOUS
<1>1. CASE Works
  BY <1>1, TeleWorks
<1>2. CASE KarcCall
  BY <1>2, TeleKarcCall
<1>3. CASE Hook
  BY <1>3, TeleHook
<1>4. CASE Scan
  BY <1>4, TeleScan
<1>5. CASE Commit
  BY <1>5, TeleCommit
<1>6. CASE ParseFile \/ IngestDies \/ UNCHANGED vars
  BY <1>6, TeleParse
<1>7. QED
  BY <1>1, <1>2, <1>3, <1>4, <1>5, <1>6 DEF Next

\* What the tables say is what the agents did, however hooks, ingestions, scans
\* and MCP calls interleave with agents that go on writing (pipeline.py,
\* adapter.py, mcp/ingest.py).
THEOREM TelemetryIsAlwaysTrue == Spec => []TelemetryIsTrue
<1>1. Init => TeleInv
  BY TeleInit
<1>2. QED
  BY <1>1, TeleNext, TeleSays, PTL DEF Spec

(***************************************************************************)
(* What an ingestion leaves behind is complete, and a fixed point.         *)
(***************************************************************************)
LEMMA KeysAreNoNull ==
  ASSUME TeleInv, NEW i \in DOMAIN log, log[i].kind = "read"
  PROVE  CallKey(i, i) # NoKey
<1>1. i \in Nat /\ log[i].session \in Session /\ log[i].path \in Path
  BY TypeFacts
<1>2. i \div Bucket \in Nat
  BY <1>1, IngestAssumption DEF IngestAssumption
<1>3. <<"tu", i>> \in {"tu"} \X Nat
  BY <1>1
<1>4. <<"bucket", log[i].session, log[i].path, i \div Bucket>>
        \in {"bucket"} \X Session \X Path \X Nat
  BY <1>1, <1>2
<1>5. QED
  BY <1>3, <1>4, NoKeyAssumption DEF CallKey, BucketOf

\* A transcript's observation belongs to the call it is named after.
LEMMA TranscriptNames ==
  ASSUME TeleInv, NEW i, NEW x, x = <<"transcript", i>>, x \in DOMAIN db.obs
  PROVE  /\ db.obs[x] = [call |-> db.obs[x].call, link |-> db.obs[x].link]
         /\ db.obs[x].call = i
<1>1. PICK o : o = db.obs[x]
  OBVIOUS
<1>2. o = [call |-> o.call, link |-> o.link] /\ ObservationFits(x, o.call)
  BY <1>1 DEF TeleInv, AllObsOK, ObsOK
<1>3. \A s, p : x # <<"hook", s, p>> /\ x # <<"load", s, p>>
  OBVIOUS
<1>4. \A c : /\ x = <<"transcript", c>> => c = i
             /\ x # <<"hook", c>> /\ x # <<"mcp", c>>
  OBVIOUS
<1>5. o.call = i
  BY <1>2, <1>3, <1>4 DEF ObservationFits
<1>6. QED
  BY <1>1, <1>2, <1>5

LEMMA CommitCompletes ==
  ASSUME TeleInv, Commit, NEW i \in Seen,
         log[i].kind = "read", RootOf[log[i].path] \in db'.scopes
  PROVE  /\ \E e \in db'.events : e.key = CallKey(i, i)
         /\ \E x \in DOMAIN db'.obs : db'.obs[x].call = i /\ db'.obs[x].link # NoKey
<1>1. PICK seen : seen = Seen
  OBVIOUS
<1>2. seen \in SUBSET DOMAIN log /\ db' = Ingested(db, seen) /\ i \in seen
  BY <1>1, SeenFacts DEF Commit
<1>3. PICK calls : calls = Found(db, seen)
  OBVIOUS
<1>4. PICK all : all = ObservedAll(db, seen, calls)
  OBVIOUS
<1>5. /\ db'.scopes = Scopes(db, {log[j].session : j \in seen})
      /\ db'.events = db.events \cup NewEvents(db, calls, seen)
      /\ db'.obs = all
  BY <1>2, <1>3, <1>4, IngestedFields DEF Scopes
<1>6. i \in calls
  BY <1>2, <1>3, <1>5 DEF Found, Promoted
<1>7. calls \in SUBSET DOMAIN log /\ log \in Seq(Lines)
      /\ \A j \in calls : j \in seen /\ log[j].kind = "read"
  BY <1>2, <1>3, FoundReads, TypeFacts
<1>8. \E e \in db'.events : e.key = CallKey(i, i)
  BY <1>5, <1>6, <1>7, Covered
<1>9. Written(db.obs, seen, calls, all)
  BY <1>2, <1>4, <1>7, ObservedAllIs
<1>10. PICK x : x = <<"transcript", i>>
  OBVIOUS
<1>11. PICK k : k = CallKey(i, i)
  OBVIOUS
<1>12. /\ x \in DOMAIN all
       /\ x \notin DOMAIN db.obs => all[x] = [call |-> i, link |-> k]
       /\ x \in DOMAIN db.obs => all[x] = [db.obs[x] EXCEPT !.link = IF @ = NoKey THEN k ELSE @]
  BY <1>2, <1>6, <1>9, <1>10, <1>11 DEF Written
<1>13. k # NoKey
  BY <1>2, <1>11, KeysAreNoNull
<1>14. all[x].call = i /\ all[x].link # NoKey
  <2>1. CASE x \notin DOMAIN db.obs
    BY <1>12, <1>13, <2>1
  <2>2. CASE x \in DOMAIN db.obs
    <3>1. PICK o : o = db.obs[x]
      OBVIOUS
    <3>2. o = [call |-> o.call, link |-> o.link] /\ o.call = i
      BY <1>10, <2>2, <3>1, TranscriptNames
    <3>3. all[x] = [o EXCEPT !.link = IF @ = NoKey THEN k ELSE @]
      BY <1>12, <2>2, <3>1
    <3>4. QED
      BY <1>13, <3>2, <3>3
  <2>3. QED
    BY <2>1, <2>2
<1>15. QED
  BY <1>5, <1>8, <1>12, <1>14

\* Once an ingestion committed, every Read it parsed under a known scope has
\* its event, and its observation points to one, also when a hook, or an
\* earlier pass that found it out of scope, observed it first (pipeline.py, N5).
THEOREM IngestIsAlwaysComplete == Spec => IngestIsComplete
<1>1. Init => TeleInv
  BY TeleInit
<1>2. ASSUME TeleInv, [Next]_vars
      PROVE  [Commit => \A i \in Seen :
                log[i].kind = "read" /\ RootOf[log[i].path] \in db'.scopes =>
                  /\ \E e \in db'.events : e.key = CallKey(i, i)
                  /\ \E x \in DOMAIN db'.obs : db'.obs[x].call = i /\ db'.obs[x].link # NoKey]_vars
  BY <1>2, CommitCompletes
<1>3. QED
  BY <1>1, <1>2, TeleNext, PTL DEF Spec, IngestIsComplete

\* Observing the same reads again finds every one observed, and adds no link.
LEMMA ObservedTwice ==
  ASSUME TeleInv, NEW seen, NEW calls, NEW old, old = db.obs,
         NEW obs, Written(old, seen, calls, obs),
         NEW again, Written(obs, seen, calls, again)
  PROVE  again = obs
<1> DEFINE reads == {i \in seen : log[i].kind = "read"}
           link(i) == IF i \in calls THEN CallKey(i, i) ELSE NoKey
<1>1. /\ obs = [x \in DOMAIN old \cup {<<"transcript", i>> : i \in reads} |-> obs[x]]
      /\ \A i \in reads : \A x : x = <<"transcript", i>> =>
           /\ x \notin DOMAIN old => obs[x] = [call |-> i, link |-> link(i)]
           /\ x \in DOMAIN old => obs[x] = [old[x] EXCEPT !.link = IF @ = NoKey THEN link(i) ELSE @]
  BY DEF Written
<1>2. /\ again = [x \in DOMAIN obs \cup {<<"transcript", i>> : i \in reads} |-> again[x]]
      /\ \A x \in DOMAIN obs : (\A i \in reads : x # <<"transcript", i>>) => again[x] = obs[x]
      /\ \A i \in reads : \A x : x = <<"transcript", i>> =>
           /\ x \notin DOMAIN obs => again[x] = [call |-> i, link |-> link(i)]
           /\ x \in DOMAIN obs => again[x] = [obs[x] EXCEPT !.link = IF @ = NoKey THEN link(i) ELSE @]
  BY DEF Written
<1>3. DOMAIN obs = DOMAIN old \cup {<<"transcript", i>> : i \in reads}
  BY <1>1
<1>4. DOMAIN again = DOMAIN obs
  BY <1>2, <1>3
<1>5. ASSUME NEW i \in reads, NEW x, x = <<"transcript", i>> PROVE again[x] = obs[x]
  <2>1. PICK k : k = link(i)
    OBVIOUS
  <2>2. PICK r : r = obs[x]
    OBVIOUS
  <2>3. x \in DOMAIN obs
    BY <1>3, <1>5
  <2>4. again[x] = [r EXCEPT !.link = IF @ = NoKey THEN k ELSE @]
    BY <1>2, <1>5, <2>1, <2>2, <2>3
  <2>5. r = [call |-> r.call, link |-> r.link] /\ (r.link = NoKey => k = NoKey)
    <3>1. CASE x \notin DOMAIN old
      <4>1. r = [call |-> i, link |-> k]
        BY <1>1, <1>5, <2>1, <2>2, <3>1
      <4>2. QED
        BY <4>1
    <3>2. CASE x \in DOMAIN old
      <4>1. PICK o : o = old[x]
        OBVIOUS
      <4>2. o = [call |-> o.call, link |-> o.link]
        BY <1>5, <3>2, <4>1, TranscriptNames
      <4>3. r = [o EXCEPT !.link = IF @ = NoKey THEN k ELSE @]
        BY <1>1, <1>5, <2>1, <2>2, <3>2, <4>1
      <4>4. QED
        BY <4>2, <4>3
    <3>3. QED
      BY <3>1, <3>2
  <2>6. again[x] = r
    BY <2>4, <2>5
  <2>7. QED
    BY <2>2, <2>6
<1>6. \A x \in DOMAIN obs : again[x] = obs[x]
  <2> HIDE DEF reads, link
  <2>1. TAKE x \in DOMAIN obs
  <2>2. CASE \E i \in reads : x = <<"transcript", i>>
    BY <1>5, <2>2
  <2>3. CASE \A i \in reads : x # <<"transcript", i>>
    BY <1>2, <2>3
  <2>4. QED
    BY <2>2, <2>3
<1>7. obs = [x \in DOMAIN obs |-> obs[x]] /\ again = [x \in DOMAIN obs |-> again[x]]
  BY <1>1, <1>2, <1>3, <1>4
<1>8. QED
  BY <1>6, <1>7

LEMMA IngestedTwice ==
  ASSUME TeleInv, NEW seen, seen = DOMAIN log, NEW once, once = Ingested(db, seen)
  PROVE  Ingested(once, seen) = once
<1> DEFINE S == {log[i].session : i \in seen}
<1>1. PICK twice : twice = Ingested(once, seen)
  OBVIOUS
<1>2. PICK calls : calls = Found(db, seen)
  OBVIOUS
<1>3. /\ once = [scopes |-> once.scopes, sessions |-> once.sessions, tasks |-> once.tasks,
                 artifacts |-> once.artifacts, events |-> once.events, obs |-> once.obs]
      /\ once.scopes = db.scopes \cup {Cwd[s] : s \in S}
      /\ once.sessions = [s \in Session |->
           IF s \in S /\ db.sessions[s] = "none" THEN Cwd[s] ELSE db.sessions[s]]
      /\ once.tasks = [s \in Session |-> Merged(db.tasks[s], TaskRows(Turns(seen, s)))]
      /\ once.artifacts = db.artifacts \cup {log[i].path : i \in calls}
      /\ once.events = db.events \cup NewEvents(db, calls, seen)
      /\ once.obs = ObservedAll(db, seen, calls)
  BY <1>2, IngestedFields
<1>4. Found(once, seen) = calls
  <2>1. Scopes(once, S) = Scopes(db, S)
    BY <1>3 DEF Scopes
  <2>2. Found(once, seen) = Promoted(once, Scopes(db, S), seen)
    BY <2>1 DEF Found
  <2>3. QED
    BY <1>2, <2>2 DEF Found, Promoted
<1>5. /\ twice = [scopes |-> twice.scopes, sessions |-> twice.sessions, tasks |-> twice.tasks,
                  artifacts |-> twice.artifacts, events |-> twice.events, obs |-> twice.obs]
      /\ twice.scopes = once.scopes \cup {Cwd[s] : s \in S}
      /\ twice.sessions = [s \in Session |->
           IF s \in S /\ once.sessions[s] = "none" THEN Cwd[s] ELSE once.sessions[s]]
      /\ twice.tasks = [s \in Session |-> Merged(once.tasks[s], TaskRows(Turns(seen, s)))]
      /\ twice.artifacts = once.artifacts \cup {log[i].path : i \in calls}
      /\ twice.events = once.events \cup NewEvents(once, calls, seen)
      /\ twice.obs = ObservedAll(once, seen, calls)
  BY <1>1, <1>4, IngestedFields
<1>6. twice.scopes = once.scopes /\ twice.artifacts = once.artifacts
  BY <1>3, <1>5
<1>7. twice.sessions = once.sessions
  <2>1. \A s \in Session : Cwd[s] # "none"
    BY IngestAssumption DEF IngestAssumption
  <2>2. \A s \in Session : s \in S => once.sessions[s] # "none"
    BY <1>3, <2>1
  <2>3. \A s \in Session :
          (IF s \in S /\ once.sessions[s] = "none" THEN Cwd[s] ELSE once.sessions[s])
            = once.sessions[s]
    BY <2>2
  <2>4. once.sessions = [s \in Session |-> once.sessions[s]]
    BY <1>3
  <2>5. QED
    BY <1>5, <2>3, <2>4
<1>8. seen \in SUBSET DOMAIN log /\ log \in Seq(Lines) /\ DOMAIN log = 1 .. Now
  BY TypeFacts
<1>9. twice.tasks = once.tasks
  <2>1. ASSUME NEW s \in Session
        PROVE  Merged(once.tasks[s], TaskRows(Turns(seen, s))) = once.tasks[s]
    <3>1. PICK turns : turns = Turns(seen, s)
      OBVIOUS
    <3>2. \A i \in seen : log[i].file = "main" =>
            \A j \in TurnsOf(log[i].session) : j <= i => j \in seen
      BY <1>8 DEF TurnsOf
    <3>3. Prefix(turns, s)
      BY <1>8, <3>1, <3>2, SeenPrefix
    <3>4. RowsTrue(TaskRows(turns), s) /\ RowsTrue(db.tasks[s], s)
      BY <3>3, TypeFacts, TaskRowsTrue DEF TeleInv, RowsOK
    <3>5. PICK old \in Seq(Task) : old = db.tasks[s]
      BY <3>4 DEF RowsTrue
    <3>6. PICK new \in Seq(Task) : new = TaskRows(turns)
      BY <3>4 DEF RowsTrue
    <3>7. Merged(Merged(old, new), new) = Merged(old, new)
      BY MergedTwice
    <3>8. once.tasks[s] = Merged(old, new)
      BY <1>3, <3>1, <3>5, <3>6
    <3>9. QED
      BY <3>1, <3>6, <3>7, <3>8
  <2>2. once.tasks = [s \in Session |-> once.tasks[s]]
    BY <1>3
  <2>3. QED
    BY <1>5, <2>1, <2>2
<1>10. calls \in SUBSET DOMAIN log /\ \A i \in calls : i \in seen /\ log[i].kind = "read"
  BY <1>2, <1>8, FoundReads
<1>11. twice.events = once.events
  <2>1. \A i \in calls : \E e \in once.events : e.key = CallKey(i, i)
    BY <1>3, <1>8, <1>10, Covered
  <2>2. NewEvents(once, calls, seen) = {}
    BY <2>1, NothingNew
  <2>3. QED
    BY <1>5, <2>2
<1>12. twice.obs = once.obs
  <2>1. Written(db.obs, seen, calls, once.obs)
    <3>1. Written(db.obs, seen, calls, ObservedAll(db, seen, calls))
      BY <1>8, <1>10, ObservedAllIs
    <3>2. QED
      BY <1>3, <3>1
  <2>2. Written(once.obs, seen, calls, twice.obs)
    <3>1. Written(once.obs, seen, calls, ObservedAll(once, seen, calls))
      BY <1>8, <1>10, ObservedAllIs
    <3>2. QED
      BY <1>5, <3>1
  <2>3. QED
    BY <2>1, <2>2, ObservedTwice
<1>13. twice = once
  BY <1>3, <1>5, <1>6, <1>7, <1>9, <1>11, <1>12
<1>14. QED
  BY <1>1, <1>13

\* Ingesting the same data again changes nothing (pipeline.py:5-7), whatever
\* hooks, scans and earlier ingestions wrote before.
THEOREM IngestIsAlwaysIdempotent == Spec => []IngestIsIdempotent
<1>1. Init => TeleInv
  BY TeleInit
<1>2. TeleInv => IngestIsIdempotent
  BY IngestedTwice DEF IngestIsIdempotent
<1>3. QED
  BY <1>1, <1>2, TeleNext, PTL DEF Spec
=============================================================================
