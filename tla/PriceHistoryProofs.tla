------------------------- MODULE PriceHistoryProofs -------------------------
(***************************************************************************)
(* Proofs about PriceHistory for any window, page size and pager: the      *)
(* coverage hides no candle, and no fetch loses a close.  The invariant    *)
(* says of a fetch what it holds beside the cache, and of a gap what the   *)
(* pager has left behind it.                                               *)
(***************************************************************************)
EXTENDS PriceHistory, FiniteSetTheorems, WellFoundedInduction, TLAPS

(* The records of the cache and of a fetch.                                *)
CacheTypes ==
    [end : Int, prices : SUBSET Minutes, coverage : SUBSET Minutes, promised : SUBSET Minutes]
Ways == {"none", "forward", "backward", "okx-forward"}
TaskTypes ==
    [way : Ways, end : Int, prices : SUBSET Minutes, coverage : SUBSET Minutes,
     promised : SUBSET Minutes, todo : SUBSET Minutes, left : Int, right : Int, cursor : Int,
     points : SUBSET Minutes, shown : SUBSET Minutes]

Typed ==
    /\ now \in Int /\ Window <= now /\ now <= MaxNow
    /\ published \in SUBSET Minutes /\ style \in Styles
    /\ cache \in CacheTypes /\ task \in TaskTypes

(* What was promised was on show, and no price is of the future.           *)
Honest(r) == r.coverage \cap r.promised \subseteq r.prices
CacheFits ==
    /\ Honest(cache) /\ cache.promised \subseteq published
    /\ \A m \in cache.prices : m < now

(* A fetch between two gaps: it holds what the cache has of its window.    *)
Holds(t) ==
    /\ Honest(t) /\ t.promised \subseteq published
    /\ t.end <= now /\ \A m \in t.prices : m < t.end
    /\ t.todo \subseteq Span(t.end - Window, t.end)
    /\ cache # NoCache => \A m \in cache.prices : t.end - Window <= m => m \in t.prices

(* A fetch in a gap: what was on show in the part behind the pager is      *)
(* among its points.                                                       *)
InGap(t) ==
    /\ t.promised \subseteq t.shown /\ t.shown \subseteq published
    /\ t.left <= t.right /\ Span(t.left, t.right) \subseteq t.todo
    /\ t.points \subseteq Span(t.left, t.right)
    /\ t.way \in {"forward", "backward", "okx-forward"}
    /\ t.way = "forward" =>
          t.left <= t.cursor /\ t.shown \cap Span(t.left, t.cursor) \subseteq t.points
    /\ t.way = "backward" =>
          /\ \A m \in t.shown \cap Span(t.left, t.right) : t.cursor <= m => m \in t.points
          /\ \A m \in t.points : t.cursor <= m
    /\ t.way = "okx-forward" => t.shown \cap Span(t.left, t.right) \subseteq t.points

TaskFits == task # NoTask => Holds(task) /\ InGap(task)

IInv == Typed /\ CacheFits /\ TaskFits

---------------------------------------------------------------------------
(* The naturals are well-founded, stated without an operator argument.     *)
Less == {p \in Nat \X Nat : p[1] < p[2]}
LEMMA LessWellFounded == IsWellFoundedOn(Less, Nat)
    BY NatLessThanWellFounded DEF OpToRel, Less

(* The least and the greatest of some minutes.                             *)
LEMMA MinFacts ==
    ASSUME NEW S, S \subseteq Minutes, S # {}
    PROVE  Min(S) \in S /\ \A m \in S : Min(S) <= m
<1>1. S \subseteq Nat
    BY HistoryAssumption DEF Minutes
<1>2. PICK x \in S : \A y \in S : ~ (<<y, x>> \in Less)
    BY <1>1, LessWellFounded, WFMin
<1>3. ASSUME NEW y \in S PROVE x <= y
  <2>1. x \in Nat /\ y \in Nat
      BY <1>1
  <2>2. <<y, x>> \notin Less
      BY <1>2
  <2>3. ~(y < x)
      BY <2>1, <2>2 DEF Less
  <2> QED
      BY <2>1, <2>3
<1> QED
    BY <1>3 DEF Min

LEMMA MaxFacts ==
    ASSUME NEW S, S \subseteq Minutes, S # {}
    PROVE  Max(S) \in S /\ \A m \in S : m <= Max(S)
<1> DEFINE T == {MaxNow - m : m \in S}
<1>1. S \subseteq Nat /\ MaxNow \in Nat /\ T # {}
    BY HistoryAssumption DEF Minutes
<1>2. T \subseteq Minutes
    BY <1>1 DEF Minutes
<1>3. Min(T) \in T /\ \A k \in T : Min(T) <= k
  <2> HIDE DEF T
  <2> QED
      BY <1>1, <1>2, MinFacts
<1>4. PICK x \in S : Min(T) = MaxNow - x
    BY <1>3
<1>5. \A m \in S : m <= x
  <2> SUFFICES ASSUME NEW m \in S PROVE m <= x
      OBVIOUS
  <2>1. MaxNow - m \in T
      OBVIOUS
  <2>2. MaxNow - x <= MaxNow - m
      BY <1>3, <1>4, <2>1
  <2> QED
      BY <1>1, <2>2
<1>6. \A y \in S : x >= y
    BY <1>1, <1>5
<1>7. Max(S) \in S /\ \A y \in S : Max(S) >= y
    BY <1>6 DEF Max
<1> QED
    BY <1>1, <1>7

(* The newest candles of some: none only of none, and with one every later *)
(* one.                                                                    *)
LEMMA NewestFacts ==
    ASSUME NEW S, S \subseteq Minutes
    PROVE  /\ Newest(S) \subseteq S
           /\ Newest(S) = {} => S = {}
           /\ \A k \in Newest(S), m \in S : k <= m => m \in Newest(S)
<1>0. /\ PageSize \in Nat \ {0} /\ MaxNow \in Nat /\ S \subseteq Nat /\ Minutes \subseteq Int
    BY HistoryAssumption DEF Minutes
<1>1. Newest(S) \subseteq S
    BY DEF Newest
<1>2. ASSUME S # {} PROVE Newest(S) # {}
  <2>1. Max(S) \in S /\ \A m \in S : m <= Max(S)
      BY <1>2, MaxFacts
  <2>2. {n \in S : n > Max(S)} = {}
    <3> SUFFICES ASSUME NEW n \in S PROVE ~(n > Max(S))
        OBVIOUS
    <3>1. n \in Int /\ Max(S) \in Int /\ n <= Max(S)
        BY <1>0, <2>1
    <3> QED
        BY <3>1
  <2>3. Cardinality({n \in S : n > Max(S)}) < PageSize
      BY <1>0, <2>2, FS_EmptySet
  <2> QED
      BY <2>1, <2>3 DEF Newest
<1>3. ASSUME NEW k \in Newest(S), NEW m \in S, k <= m
      PROVE  m \in Newest(S)
  <2> DEFINE K == {n \in S : n > k}
             M == {n \in S : n > m}
  <2>1. M \subseteq K
    <3> SUFFICES ASSUME NEW n \in S, n > m PROVE n > k
        OBVIOUS
    <3>1. n \in Int /\ m \in Int /\ k \in Int
        BY <1>0, <1>1
    <3> QED
        BY <1>3, <3>1
  <2>2. IsFiniteSet(K)
    <3>1. IsFiniteSet(Minutes)
        BY <1>0, FS_Interval DEF Minutes
    <3>2. K \in SUBSET Minutes
        OBVIOUS
    <3> QED
        BY <3>1, <3>2, FS_Subset
  <2>3. Cardinality(M) <= Cardinality(K) /\ IsFiniteSet(M)
      BY <2>1, <2>2, FS_Subset
  <2>4. Cardinality(K) < PageSize
      BY DEF Newest
  <2>5. Cardinality(M) \in Nat /\ Cardinality(K) \in Nat
      BY <2>2, <2>3, FS_CardinalityType
  <2> HIDE DEF M, K
  <2>6. Cardinality(M) < PageSize
      BY <1>0, <2>3, <2>4, <2>5
  <2> QED
      BY <2>6 DEF Newest, M
<1> QED
    BY <1>1, <1>2, <1>3

(* The newest gap of what is left to be read lies in it.                   *)
LEMMA GapFacts ==
    ASSUME NEW todo, todo \subseteq Minutes, todo # {}
    PROVE  /\ GapLeft(todo) \in Int /\ GapRight(todo) \in Int
           /\ GapLeft(todo) <= GapRight(todo)
           /\ Span(GapLeft(todo), GapRight(todo)) \subseteq todo
<1> DEFINE top == Max(todo)
           starts == {m \in todo : Span(m, GapRight(todo)) \subseteq todo}
<1>1. top \in todo
    BY MaxFacts
<1>2. \A m \in todo : m \in Int
    BY HistoryAssumption DEF Minutes
<1>3. GapRight(todo) = top + 1 /\ top \in Int /\ top + 1 \in Int
  <2>1. top \in Int
      BY <1>1, <1>2
  <2> QED
      BY <2>1 DEF GapRight
<1> HIDE DEF top
<1>4. Span(top, top + 1) \subseteq todo
  <2> SUFFICES ASSUME NEW m \in Span(top, top + 1) PROVE m = top
      BY <1>1
  <2> QED
      BY <1>3, HistoryAssumption DEF Span, Minutes
<1>5. top \in starts
    BY <1>1, <1>3, <1>4
<1>6. GapLeft(todo) = Min(starts)
    BY DEF GapLeft
<1>7. starts \subseteq Minutes /\ starts # {}
    BY <1>5
<1> HIDE DEF starts
<1>8. Min(starts) \in starts
    BY <1>7, MinFacts
<1>9. Min(starts) \in todo /\ Span(Min(starts), GapRight(todo)) \subseteq todo
    BY <1>8 DEF starts
<1>10. Min(starts) \in Int /\ Min(starts) <= top
    BY <1>2, <1>9, MaxFacts DEF top
<1> QED
    BY <1>3, <1>6, <1>9, <1>10

(* A fetch begins a gap with nothing behind its pager.                     *)
LEMMA StartGapFits ==
    ASSUME published \in SUBSET Minutes, NEW t \in TaskTypes, Holds(t), t.todo # {}
    PROVE  StartGap(t) \in TaskTypes /\ Holds(StartGap(t)) /\ InGap(StartGap(t))
<1> DEFINE l == GapLeft(t.todo)
           r == GapRight(t.todo)
           s == StartGap(t)
<1>1. t.todo \subseteq Minutes
    BY DEF TaskTypes
<1>2. l \in Int /\ r \in Int /\ l <= r /\ Span(l, r) \subseteq t.todo
    BY <1>1, GapFacts
<1>3. s = [t EXCEPT !.way = IF style = "okx" THEN "backward" ELSE "forward",
                    !.left = l, !.right = r, !.cursor = IF style = "okx" THEN r ELSE l,
                    !.points = {}, !.shown = published]
    BY DEF StartGap
<1> HIDE DEF l, r, s
<1>4. s \in TaskTypes
    BY <1>2, <1>3 DEF TaskTypes, Ways
<1>5. /\ s.end = t.end /\ s.prices = t.prices /\ s.coverage = t.coverage
      /\ s.promised = t.promised /\ s.todo = t.todo /\ s.left = l /\ s.right = r
      /\ s.points = {} /\ s.shown = published
      /\ s.way = (IF style = "okx" THEN "backward" ELSE "forward")
      /\ s.cursor = IF style = "okx" THEN r ELSE l
    BY <1>3 DEF TaskTypes
<1>6. Holds(s)
    BY <1>5 DEF Holds, Honest
<1>7. Span(l, l) = {} /\ \A m \in Span(l, r) : ~(r <= m)
  <2> SUFFICES ASSUME NEW m \in Minutes, NEW k \in Int PROVE ~(k <= m /\ m < k)
      BY <1>2 DEF Span
  <2> QED
      BY HistoryAssumption DEF Minutes
<1>8. InGap(s)
    BY <1>2, <1>5, <1>7 DEF InGap, Holds
<1> QED
    BY <1>4, <1>6, <1>8 DEF s

(* Reading a part of the gap whose shown candles are among the points.     *)
LEMMA ReadingFits ==
    ASSUME published \in SUBSET Minutes, NEW t \in TaskTypes, Holds(t), InGap(t),
           NEW read, read \subseteq Span(t.left, t.right), t.shown \cap read \subseteq t.points
    PROVE  LET r == Reading(t, t.points, read)
           IN  /\ r \in TaskTypes /\ Holds(r)
               /\ r.todo = t.todo /\ r.end = t.end /\ t.prices \subseteq r.prices
<1> DEFINE w == Span(t.end - Window, t.end)
           r == Reading(t, t.points, read)
<1>1. /\ read \subseteq w /\ t.points \subseteq w /\ w \subseteq Minutes
    BY DEF Holds, InGap, Span
<1>2. r = [t EXCEPT !.prices = t.prices \cup (t.points \cap w),
                    !.coverage = t.coverage \cup read,
                    !.promised = t.promised \cup (t.shown \cap read)]
    BY DEF Reading
<1> HIDE DEF r
<1>3. r \in TaskTypes
    BY <1>1, <1>2 DEF TaskTypes
<1>4. /\ r.prices = t.prices \cup (t.points \cap w) /\ r.coverage = t.coverage \cup read
      /\ r.promised = t.promised \cup (t.shown \cap read)
      /\ r.todo = t.todo /\ r.end = t.end
    BY <1>2 DEF TaskTypes
<1>5. \A m \in w : m < t.end
    BY DEF Span
<1>6. Honest(r)
    BY <1>1, <1>4 DEF Holds, InGap, Honest
<1>7. Holds(r)
    BY <1>4, <1>5, <1>6 DEF Holds, InGap
<1> QED
    BY <1>3, <1>4, <1>7 DEF r

(* The end of a fetch: the cache takes what the fetch holds.               *)
Remembers ==
    cache # NoCache /\ cache' # NoCache =>
        {m \in cache.prices : m >= cache'.end - Window} \subseteq cache'.prices

LEMMA StoredFits ==
    ASSUME Typed, CacheFits, NEW t \in TaskTypes, Holds(t), cache' = Stored(t), task' = NoTask,
           UNCHANGED <<now, published, style>>
    PROVE  IInv' /\ Remembers
<1>1. /\ cache'.end = t.end /\ cache'.prices = t.prices /\ cache'.promised = t.promised
      /\ cache'.coverage = (IF t.prices = {} THEN {} ELSE t.coverage)
      /\ cache' \in CacheTypes
    BY DEF Stored, CacheTypes, TaskTypes
<1>2. Minutes \subseteq Int /\ now \in Int /\ t.end \in Int /\ t.prices \subseteq Minutes
      /\ Window \in Int /\ cache.prices \subseteq Minutes
    BY HistoryAssumption DEF Minutes, Typed, TaskTypes, CacheTypes
<1>3. NoTask \in TaskTypes
    BY DEF NoTask, TaskTypes, Ways
<1>4. Typed'
    BY <1>1, <1>3 DEF Typed
<1>5. ASSUME NEW m \in t.prices PROVE m < now
  <2>1. m \in Int /\ m < t.end /\ t.end <= now
      BY <1>2 DEF Holds
  <2> QED
      BY <1>2, <2>1
<1>6. CacheFits'
    BY <1>1, <1>5 DEF CacheFits, Holds, Honest
<1>7. TaskFits'
    BY DEF TaskFits
<1>8. Remembers
  <2> SUFFICES ASSUME cache # NoCache, NEW m \in cache.prices, m >= t.end - Window
               PROVE  m \in t.prices
      BY <1>1 DEF Remembers
  <2>1. t.end - Window <= m
      BY <1>2
  <2> QED
      BY <2>1 DEF Holds
<1> QED
    BY <1>4, <1>6, <1>7, <1>8 DEF IInv

(* A gap has been read to its end, with all its shown candles.             *)
LEMMA GapReadKeeps ==
    ASSUME Typed, CacheFits, NEW t \in TaskTypes, Holds(t), InGap(t),
           t.shown \cap Span(t.left, t.right) \subseteq t.points,
           GapRead(t), UNCHANGED <<now, published, style>>
    PROVE  IInv' /\ Remembers
<1> DEFINE q == Reading(t, t.points, Span(t.left, t.right))
           r == [q EXCEPT !.todo = q.todo \ Span(t.left, t.right)]
<1>0. published \in SUBSET Minutes
    BY DEF Typed
<1>1. q \in TaskTypes /\ Holds(q)
    BY <1>0, ReadingFits
<1> HIDE DEF q
<1>2. r \in TaskTypes /\ Holds(r)
  <2>1. r \in TaskTypes
      BY <1>1 DEF TaskTypes
  <2>2. /\ r.end = q.end /\ r.prices = q.prices /\ r.coverage = q.coverage
        /\ r.promised = q.promised /\ r.todo \subseteq q.todo
      BY <1>1 DEF TaskTypes
  <2> HIDE DEF r
  <2> QED
      BY <1>1, <2>1, <2>2 DEF Holds, Honest
<1>3. IF r.todo # {} THEN task' = StartGap(r) /\ cache' = cache
      ELSE task' = NoTask /\ cache' = Stored(r)
    BY DEF GapRead, q
<1> HIDE DEF r
<1>4. CASE r.todo # {}
  <2>1. StartGap(r) \in TaskTypes /\ Holds(StartGap(r)) /\ InGap(StartGap(r))
      BY <1>0, <1>2, <1>4, StartGapFits
  <2>2. task' = StartGap(r) /\ cache' = cache
      BY <1>3, <1>4
  <2>3. task' \in TaskTypes /\ Holds(task)' /\ InGap(task)'
      BY <2>1, <2>2 DEF Holds, InGap, Honest
  <2>4. Remembers
      BY <2>2 DEF Remembers
  <2> QED
      BY <2>2, <2>3, <2>4 DEF IInv, Typed, CacheFits, TaskFits, Honest
<1>5. CASE r.todo = {}
    BY <1>2, <1>3, <1>5, StoredFits
<1> QED
    BY <1>4, <1>5

LEMMA ContinueKeeps ==
    ASSUME Typed, CacheFits, NEW t \in TaskTypes, Holds(t), InGap(t), NEW more \in BOOLEAN,
           ~more => t.shown \cap Span(t.left, t.right) \subseteq t.points,
           Continue(t, more), UNCHANGED <<now, published, style>>
    PROVE  IInv' /\ Remembers
<1>1. CASE more
  <2>1. task' = t /\ cache' = cache
      BY <1>1 DEF Continue
  <2>2. task' \in TaskTypes /\ Holds(task)' /\ InGap(task)'
      BY <2>1 DEF Holds, InGap, Honest
  <2>3. Remembers
      BY <2>1 DEF Remembers
  <2> QED
      BY <2>1, <2>2, <2>3 DEF IInv, Typed, CacheFits, TaskFits, Honest
<1>2. CASE ~more
    BY <1>2, GapReadKeeps DEF Continue
<1> QED
    BY <1>1, <1>2

LEMMA MinOfTwo ==
    ASSUME NEW a \in Int, NEW b \in Int
    PROVE  Min({a, b}) \in Int /\ Min({a, b}) <= a /\ Min({a, b}) <= b
           /\ (Min({a, b}) = a \/ Min({a, b}) = b)
<1>1. \E x \in {a, b} : \A y \in {a, b} : x <= y
  <2>1. CASE a <= b
      BY <2>1
  <2>2. CASE b <= a
      BY <2>2
  <2> QED
      BY <2>1, <2>2
<1>2. Min({a, b}) \in {a, b} /\ \A y \in {a, b} : Min({a, b}) <= y
    BY <1>1 DEF Min
<1> QED
    BY <1>2

LEMMA MinutesAreIntegers == Minutes \subseteq Int /\ \A m \in Minutes : m \in Int /\ 0 <= m
    BY HistoryAssumption DEF Minutes

LEMMA InitHolds == Init => IInv
<1> SUFFICES ASSUME Init PROVE IInv
    OBVIOUS
<1>1. now \in Int /\ Window <= now /\ now <= MaxNow
    BY HistoryAssumption DEF Init
<1>2. published \in SUBSET Minutes
    BY HistoryAssumption DEF Init, Minutes
<1>3. cache \in CacheTypes /\ task \in TaskTypes
    BY DEF Init, NoCache, CacheTypes, NoTask, TaskTypes, Ways
<1>4. CacheFits
    BY DEF Init, NoCache, CacheFits, Honest
<1> QED
    BY <1>1, <1>2, <1>3, <1>4 DEF Init, IInv, Typed, TaskFits

LEMMA LookupKeeps == ASSUME IInv, Lookup PROVE IInv' /\ Remembers
<1> DEFINE prices == Kept(now)
           coverage == IF prices = {} THEN {} ELSE cache.coverage \cap Span(now - Window, now)
           t == [NoTask EXCEPT !.end = now, !.prices = prices, !.coverage = coverage,
                               !.promised = cache.promised, !.todo = Missing(coverage, now)]
<1>1. /\ Typed /\ CacheFits /\ published \in SUBSET Minutes
      /\ now \in Int /\ Window <= now /\ now <= MaxNow
      /\ cache.prices \subseteq Minutes /\ cache.coverage \subseteq Minutes
      /\ cache.promised \subseteq Minutes
    BY DEF IInv, Typed, CacheTypes
<1>2. task' = StartGap(t) /\ UNCHANGED <<now, published, style, cache>>
    BY DEF Lookup
<1>3. prices = cache.prices \cap Span(now - Window, now) /\ coverage \subseteq cache.coverage
      /\ coverage \subseteq Span(now - Window, now)
    BY DEF Kept
<1>4. /\ t.end = now /\ t.prices = prices /\ t.coverage = coverage
      /\ t.promised = cache.promised /\ t.todo = Missing(coverage, now)
    BY DEF NoTask
<1>5. Missing(coverage, now) \subseteq Span(now - Window, now)
    BY DEF Missing
<1>6. Span(now - Window, now) \subseteq Minutes
    BY DEF Span
<1>7. now - 1 \in Missing(coverage, now)
  <2>1. Window \in Int /\ Reread \in Int /\ 1 <= Window /\ 1 <= Reread
      BY HistoryAssumption
  <2>2. now - 1 \in Minutes
      BY <1>1, <2>1, HistoryAssumption DEF Minutes
  <2>3. now - Window <= now - 1 /\ now - 1 < now /\ ~(now - 1 < now - Reread)
      BY <1>1, <2>1
  <2> HIDE DEF coverage
  <2> QED
      BY <2>2, <2>3 DEF Missing, Span
<1>8. t \in TaskTypes
  <2>1. NoTask \in TaskTypes
      BY DEF NoTask, TaskTypes, Ways
  <2>2. prices \subseteq Minutes /\ coverage \subseteq Minutes
        /\ Missing(coverage, now) \subseteq Minutes
      BY <1>1, <1>3, <1>5, <1>6
  <2> HIDE DEF prices, coverage
  <2> QED
      BY <1>1, <2>1, <2>2 DEF TaskTypes
<1> HIDE DEF t, coverage, prices
<1>9. Holds(t)
  <2>1. Honest(t)
      BY <1>1, <1>3, <1>4 DEF CacheFits, Honest
  <2>2. t.promised \subseteq published
      BY <1>1, <1>4 DEF CacheFits
  <2>3. t.end <= now /\ \A m \in t.prices : m < t.end
      BY <1>1, <1>3, <1>4 DEF Span
  <2>4. ASSUME NEW m \in cache.prices, t.end - Window <= m PROVE m \in t.prices
      BY <1>1, <1>3, <1>4, <2>4 DEF CacheFits, Span
  <2> QED
      BY <1>4, <1>5, <2>1, <2>2, <2>3, <2>4 DEF Holds
<1>10. t.todo # {}
    BY <1>4, <1>7
<1>11. StartGap(t) \in TaskTypes /\ Holds(StartGap(t)) /\ InGap(StartGap(t))
    BY <1>1, <1>8, <1>9, <1>10, StartGapFits
<1>12. task' \in TaskTypes /\ Holds(task)' /\ InGap(task)'
    BY <1>2, <1>11 DEF Holds, InGap, Honest
<1>13. Remembers
    BY <1>2 DEF Remembers
<1> QED
    BY <1>1, <1>2, <1>12, <1>13 DEF IInv, Typed, CacheFits, TaskFits, Honest

(* A fetch under way, and its types.                                       *)
LEMMA UnderWay ==
    ASSUME IInv, task # NoTask
    PROVE  /\ Typed /\ CacheFits /\ Holds(task) /\ InGap(task)
           /\ task \in TaskTypes /\ published \subseteq Minutes
           /\ task.left \in Int /\ task.right \in Int /\ task.cursor \in Int
           /\ task.points \subseteq Minutes /\ task.shown \subseteq Minutes
           /\ task.left <= task.right
    BY DEF IInv, Typed, TaskFits, TaskTypes, InGap

LEMMA ForwardPageKeeps == ASSUME IInv, ForwardPage PROVE IInv' /\ Remembers
<1> DEFINE to == Min({task.right, task.cursor + PageSize})
           got == published \cap Span(task.cursor, to)
           cursor == IF style = "cursor" THEN NextByLast(got, to) ELSE NextByStep(got, to)
<1>1. /\ task.way = "forward" /\ UNCHANGED <<now, published, style>>
      /\ Continue([task EXCEPT !.points = task.points \cup got, !.cursor = cursor],
                  cursor < task.right)
    BY DEF ForwardPage
<1>2. task # NoTask
    BY <1>1 DEF NoTask
<1>3. /\ Typed /\ CacheFits /\ Holds(task) /\ InGap(task)
      /\ task \in TaskTypes /\ published \subseteq Minutes
      /\ task.left \in Int /\ task.right \in Int /\ task.cursor \in Int
      /\ task.points \subseteq Minutes /\ task.shown \subseteq Minutes
      /\ task.left <= task.right
    BY <1>2, UnderWay
<1>4. PageSize \in Int /\ 1 <= PageSize /\ task.left <= task.cursor
    BY <1>1, <1>3, HistoryAssumption DEF InGap
<1>5. to \in Int /\ to <= task.right /\ task.left <= to
  <2>1. task.cursor + PageSize \in Int /\ task.left <= task.cursor + PageSize
      BY <1>3, <1>4
  <2>2. to \in Int /\ to <= task.right /\ (to = task.right \/ to = task.cursor + PageSize)
      BY <1>3, <2>1, MinOfTwo
  <2> HIDE DEF to
  <2> QED
      BY <1>3, <2>1, <2>2
<1> HIDE DEF to
<1>6. cursor \in Int /\ cursor <= to /\ task.left <= cursor
  <2>1. CASE style # "cursor" \/ got = {}
      BY <1>5, <2>1 DEF NextByStep, NextByLast
  <2>2. CASE style = "cursor" /\ got # {}
    <3>1. cursor = Max(got) + 1
        BY <2>2 DEF NextByLast
    <3>2. Max(got) \in got
        BY <1>3, <2>2, MaxFacts
    <3>3. Max(got) \in Int /\ task.cursor <= Max(got) /\ Max(got) < to
        BY <1>3, <3>2, MinutesAreIntegers DEF Span
    <3> QED
        BY <1>3, <1>4, <1>5, <3>1, <3>3
  <2> QED
      BY <2>1, <2>2
<1> HIDE DEF cursor
<1>7. PICK t : t = [task EXCEPT !.points = task.points \cup got, !.cursor = cursor]
    OBVIOUS
<1>8. /\ t \in TaskTypes /\ t.end = task.end /\ t.prices = task.prices
      /\ t.coverage = task.coverage /\ t.promised = task.promised /\ t.todo = task.todo
      /\ t.left = task.left /\ t.right = task.right /\ t.shown = task.shown
      /\ t.way = "forward" /\ t.points = task.points \cup got /\ t.cursor = cursor
    BY <1>1, <1>3, <1>6, <1>7 DEF TaskTypes
<1>9. Holds(t)
    BY <1>3, <1>8 DEF Holds, Honest
<1>10. got \subseteq Span(task.left, task.right)
  <2> SUFFICES ASSUME NEW m \in got PROVE m \in Span(task.left, task.right)
      OBVIOUS
  <2>1. m \in Minutes /\ m \in Int /\ task.cursor <= m /\ m < to
      BY <1>3, MinutesAreIntegers DEF Span
  <2>2. task.left <= m /\ m < task.right
      BY <1>3, <1>4, <1>5, <2>1
  <2> QED
      BY <2>1, <2>2 DEF Span
<1>11. task.shown \cap Span(task.left, cursor) \subseteq task.points \cup got
  <2> SUFFICES ASSUME NEW m \in task.shown, m \in Span(task.left, cursor)
               PROVE  m \in task.points \cup got
      OBVIOUS
  <2>1. m \in Minutes /\ m \in Int /\ task.left <= m /\ m < cursor /\ m \in published
      BY <1>3, MinutesAreIntegers DEF Span, InGap
  <2>2. CASE m < task.cursor
      BY <1>1, <1>3, <2>1, <2>2 DEF InGap, Span
  <2>3. CASE task.cursor <= m
    <3>1. m < to
        BY <1>5, <1>6, <2>1
    <3> QED
        BY <2>1, <2>3, <3>1 DEF Span
  <2> QED
      BY <1>3, <2>1, <2>2, <2>3
<1> HIDE DEF got
<1>12. InGap(t)
    BY <1>3, <1>6, <1>8, <1>10, <1>11 DEF InGap
<1>13. PICK more : more = (cursor < task.right)
    OBVIOUS
<1>14. more \in BOOLEAN /\ Continue(t, more)
    BY <1>1, <1>7, <1>13
<1>15. ASSUME ~more PROVE t.shown \cap Span(t.left, t.right) \subseteq t.points
  <2> SUFFICES ASSUME NEW m \in task.shown, m \in Span(task.left, task.right)
               PROVE  m \in t.points
      BY <1>8
  <2>1. m \in Minutes /\ m \in Int /\ task.left <= m /\ m < task.right
      BY MinutesAreIntegers DEF Span
  <2>2. ~(cursor < task.right)
      BY <1>13, <1>15
  <2>3. m < cursor
      BY <1>3, <1>6, <2>1, <2>2
  <2> QED
      BY <1>8, <1>11, <2>1, <2>3 DEF Span
<1> QED
    BY <1>1, <1>3, <1>8, <1>9, <1>12, <1>14, <1>15, ContinueKeeps

LEMMA BackwardPageKeeps == ASSUME IInv, BackwardPage PROVE IInv' /\ Remembers
<1> DEFINE older == {m \in published : m < task.cursor}
           got == Newest(older)
           cursor == IF got = {} THEN task.left ELSE Min(got)
           gap == Span(task.left, task.right)
<1> PICK t : t = [task EXCEPT !.points = task.points \cup (got \cap gap), !.cursor = cursor]
    OBVIOUS
<1>1. /\ task.way = "backward" /\ UNCHANGED <<now, published, style>>
      /\ IF t.cursor <= t.left /\ t.points = {}
         THEN task' = [t EXCEPT !.way = "okx-forward", !.cursor = task.left] /\ cache' = cache
         ELSE Continue(t, t.cursor > t.left)
    BY DEF BackwardPage
<1>2. task # NoTask
    BY <1>1 DEF NoTask
<1>3. /\ Typed /\ CacheFits /\ Holds(task) /\ InGap(task)
      /\ task \in TaskTypes /\ published \subseteq Minutes
      /\ task.left \in Int /\ task.right \in Int /\ task.cursor \in Int
      /\ task.points \subseteq Minutes /\ task.shown \subseteq Minutes
      /\ task.left <= task.right
    BY <1>2, UnderWay
<1>4. /\ got \subseteq older /\ older \subseteq Minutes
      /\ got = {} => older = {}
      /\ \A k \in got, m \in older : k <= m => m \in got
    BY <1>3, NewestFacts
<1> HIDE DEF got
<1>5. /\ cursor \in Int
      /\ got # {} => cursor \in got /\ cursor < task.cursor /\ \A m \in got : cursor <= m
  <2>1. CASE got = {}
      BY <1>3, <2>1
  <2>2. CASE got # {}
    <3>1. cursor \in got /\ \A m \in got : cursor <= m
        BY <1>4, <2>2, MinFacts
    <3> QED
        BY <1>4, <3>1, MinutesAreIntegers
  <2> QED
      BY <2>1, <2>2
<1>6. got = {} => cursor = task.left
    OBVIOUS
<1> HIDE DEF cursor
<1>7. /\ t \in TaskTypes /\ t.end = task.end /\ t.prices = task.prices
      /\ t.coverage = task.coverage /\ t.promised = task.promised /\ t.todo = task.todo
      /\ t.left = task.left /\ t.right = task.right /\ t.shown = task.shown
      /\ t.way = "backward" /\ t.points = task.points \cup (got \cap gap)
      /\ t.cursor = cursor
    BY <1>1, <1>3, <1>4, <1>5 DEF TaskTypes, Span
<1>8. Holds(t)
    BY <1>3, <1>7 DEF Holds, Honest
<1>9. ASSUME NEW m \in task.shown, m \in gap, cursor <= m
      PROVE  m \in t.points
  <2>1. m \in Int /\ m \in published
      BY <1>3, MinutesAreIntegers DEF InGap
  <2>2. CASE task.cursor <= m
      BY <1>1, <1>3, <1>7, <1>9, <2>2 DEF InGap
  <2>3. CASE m < task.cursor
    <3>1. m \in older
        BY <2>1, <2>3
    <3>2. m \in got
        BY <1>4, <1>5, <1>9, <3>1
    <3> QED
        BY <1>7, <1>9, <3>2
  <2> QED
      BY <1>3, <2>1, <2>2, <2>3
<1>10. ASSUME NEW m \in t.points PROVE cursor <= m
  <2>1. m \in Int /\ m \in gap /\ task.left <= m
    <3>1. m \in gap
        BY <1>3, <1>7 DEF InGap
    <3> QED
        BY <3>1, MinutesAreIntegers DEF Span
  <2>2. CASE got = {}
      BY <1>6, <2>1, <2>2
  <2>3. CASE got # {}
    <3>1. CASE m \in got
        BY <1>5, <2>3, <3>1
    <3>2. CASE m \in task.points
      <4>1. task.cursor <= m
          BY <1>1, <1>3, <3>2 DEF InGap
      <4> QED
          BY <1>3, <1>5, <2>1, <2>3, <4>1
    <3> QED
        BY <1>7, <3>1, <3>2
  <2> QED
      BY <2>2, <2>3
<1>11. InGap(t)
  <2>1. t.points \subseteq gap
      BY <1>3, <1>7 DEF InGap
  <2> QED
      BY <1>3, <1>7, <1>9, <1>10, <2>1 DEF InGap
<1>12. cursor <= task.left => t.shown \cap Span(t.left, t.right) \subseteq t.points
  <2> SUFFICES ASSUME cursor <= task.left, NEW m \in task.shown, m \in gap
               PROVE  m \in t.points
      BY <1>7
  <2>1. m \in Int /\ task.left <= m
      BY MinutesAreIntegers DEF Span
  <2>2. cursor <= m
      BY <1>3, <1>5, <2>1
  <2> QED
      BY <1>9, <2>2
<1> HIDE DEF gap, older
<1>13. CASE t.cursor <= t.left /\ t.points = {}
  <2> PICK u : u = [t EXCEPT !.way = "okx-forward", !.cursor = task.left]
      OBVIOUS
  <2>1. task' = u /\ cache' = cache
      BY <1>1, <1>13
  <2>2. /\ u \in TaskTypes /\ u.end = t.end /\ u.prices = t.prices
        /\ u.coverage = t.coverage /\ u.promised = t.promised /\ u.todo = t.todo
        /\ u.left = t.left /\ u.right = t.right /\ u.shown = t.shown
        /\ u.way = "okx-forward" /\ u.points = t.points
      BY <1>3, <1>7 DEF TaskTypes, Ways
  <2>3. Holds(u)
      BY <1>8, <2>2 DEF Holds, Honest
  <2>4. InGap(u)
      BY <1>7, <1>11, <1>12, <1>13, <2>2 DEF InGap
  <2>5. task' \in TaskTypes /\ Holds(task)' /\ InGap(task)'
      BY <1>1, <2>1, <2>2, <2>3, <2>4 DEF Holds, InGap, Honest
  <2>6. Remembers
      BY <2>1 DEF Remembers
  <2> QED
      BY <1>1, <1>3, <2>1, <2>5, <2>6 DEF IInv, Typed, CacheFits, TaskFits, Honest
<1>14. CASE ~(t.cursor <= t.left /\ t.points = {})
  <2> PICK more : more = (t.cursor > t.left)
      OBVIOUS
  <2>1. more \in BOOLEAN /\ Continue(t, more)
      BY <1>1, <1>14
  <2>2. ~more => cursor <= task.left
    <3>1. ~more => ~(cursor > task.left)
        BY <1>7
    <3> QED
        BY <1>3, <1>5, <3>1
  <2>3. ~more => t.shown \cap Span(t.left, t.right) \subseteq t.points
      BY <1>12, <2>2
  <2> QED
      BY <1>1, <1>3, <1>7, <1>8, <1>11, <2>1, <2>3, ContinueKeeps
<1> QED
    BY <1>13, <1>14

LEMMA OkxForwardPageKeeps == ASSUME IInv, OkxForwardPage PROVE IInv' /\ Remembers
<1> DEFINE got == Newest({m \in published : m > task.cursor})
           cursor == IF got = {} THEN task.right ELSE Max(got) + 1
           gap == Span(task.left, task.right)
<1> PICK t : t = [task EXCEPT !.points = task.points \cup (got \cap gap), !.cursor = cursor]
    OBVIOUS
<1> PICK more : more = (cursor < task.right)
    OBVIOUS
<1>1. /\ task.way = "okx-forward" /\ UNCHANGED <<now, published, style>>
      /\ Continue(t, more) /\ more \in BOOLEAN
    BY DEF OkxForwardPage
<1>2. task # NoTask
    BY <1>1 DEF NoTask
<1>3. /\ Typed /\ CacheFits /\ Holds(task) /\ InGap(task)
      /\ task \in TaskTypes /\ published \subseteq Minutes /\ task.right \in Int
    BY <1>2, UnderWay
<1>4. cursor \in Int
  <2>1. got \subseteq Minutes
      BY <1>3, NewestFacts
  <2>2. CASE got # {}
    <3>1. Max(got) \in Minutes
        BY <2>1, <2>2, MaxFacts
    <3>2. Max(got) + 1 \in Int
        BY <3>1, MinutesAreIntegers
    <3> QED
        BY <2>2, <3>2
  <2> QED
      BY <1>3, <2>2
<1> HIDE DEF got, cursor
<1>5. /\ t \in TaskTypes /\ t.end = task.end /\ t.prices = task.prices
      /\ t.coverage = task.coverage /\ t.promised = task.promised /\ t.todo = task.todo
      /\ t.left = task.left /\ t.right = task.right /\ t.shown = task.shown
      /\ t.way = "okx-forward" /\ t.points = task.points \cup (got \cap gap)
    BY <1>1, <1>3, <1>4 DEF TaskTypes, Span
<1>6. Holds(t)
    BY <1>3, <1>5 DEF Holds, Honest
<1>7. InGap(t) /\ t.shown \cap Span(t.left, t.right) \subseteq t.points
    BY <1>1, <1>3, <1>5 DEF InGap
<1> QED
    BY <1>1, <1>3, <1>5, <1>6, <1>7, ContinueKeeps

LEMMA PageFailsPartlyKeeps == ASSUME IInv, PageFailsPartly PROVE IInv' /\ Remembers
<1> DEFINE read == Covered(task)
           r == Reading(task, task.points, read)
<1>1. /\ task.way \in {"backward", "okx-forward"} /\ task.points # {}
      /\ cache' = Stored(r) /\ task' = NoTask /\ UNCHANGED <<now, published, style>>
    BY DEF PageFailsPartly
<1>2. task # NoTask
    BY <1>1 DEF NoTask
<1>3. /\ Typed /\ CacheFits /\ Holds(task) /\ InGap(task)
      /\ task \in TaskTypes /\ published \subseteq Minutes
      /\ task.left \in Int /\ task.right \in Int /\ task.cursor \in Int
      /\ task.points \subseteq Minutes /\ task.shown \subseteq Minutes
    BY <1>2, UnderWay
<1>4. read \subseteq Span(task.left, task.right) /\ task.shown \cap read \subseteq task.points
  <2>1. CASE task.way = "backward"
    <3>1. read = Span(Min(task.points), task.right)
        BY <2>1 DEF Covered
    <3>2. /\ Min(task.points) \in task.points /\ Min(task.points) \in Int
          /\ task.left <= Min(task.points) /\ task.cursor <= Min(task.points)
      <4>1. Min(task.points) \in task.points
          BY <1>1, <1>3, MinFacts
      <4>2. Min(task.points) \in Span(task.left, task.right)
          BY <1>3, <4>1 DEF InGap
      <4> QED
          BY <1>3, <2>1, <4>1, <4>2, MinutesAreIntegers DEF InGap, Span
    <3>3. ASSUME NEW m \in read
          PROVE  m \in Span(task.left, task.right) /\ task.cursor <= m
      <4>1. m \in Minutes /\ m \in Int /\ Min(task.points) <= m /\ m < task.right
          BY <3>1, MinutesAreIntegers DEF Span
      <4>2. task.left <= m /\ task.cursor <= m
          BY <1>3, <3>2, <4>1
      <4> QED
          BY <4>1, <4>2 DEF Span
    <3> QED
        BY <1>3, <2>1, <3>3 DEF InGap
  <2>2. CASE task.way = "okx-forward"
    <3>1. read = Span(task.left, Min({task.right, Max(task.points) + 1}))
        BY <2>2 DEF Covered
    <3>2. Max(task.points) + 1 \in Int
      <4>1. Max(task.points) \in Minutes
          BY <1>1, <1>3, MaxFacts
      <4>2. Max(task.points) \in Int
          BY <4>1, MinutesAreIntegers
      <4> QED
          BY <4>2
    <3>3. PICK b \in Int : b = Min({task.right, Max(task.points) + 1}) /\ b <= task.right
        BY <1>3, <3>2, MinOfTwo
    <3>4. ASSUME NEW m \in Span(task.left, b) PROVE m \in Span(task.left, task.right)
      <4>1. m \in Minutes /\ m \in Int /\ task.left <= m /\ m < b
          BY MinutesAreIntegers DEF Span
      <4>2. m < task.right
          BY <1>3, <3>3, <4>1
      <4> QED
          BY <4>1, <4>2 DEF Span
    <3> QED
        BY <1>3, <2>2, <3>1, <3>3, <3>4 DEF InGap
  <2> QED
      BY <1>1, <2>1, <2>2
<1> HIDE DEF read
<1>5. r \in TaskTypes /\ Holds(r)
    BY <1>3, <1>4, ReadingFits
<1> HIDE DEF r
<1> QED
    BY <1>1, <1>3, <1>5, StoredFits

LEMMA FetchFailsKeeps == ASSUME IInv, FetchFails PROVE IInv' /\ Remembers
<1>1. /\ task # NoTask /\ cache' = Stored(task) /\ task' = NoTask
      /\ UNCHANGED <<now, published, style>>
    BY DEF FetchFails
<1>2. PICK t : t = task
    OBVIOUS
<1>3. Typed /\ CacheFits /\ t \in TaskTypes /\ Holds(t) /\ cache' = Stored(t)
    BY <1>1, <1>2, UnderWay
<1> QED
    BY <1>1, <1>3, StoredFits

(* The other steps leave the fetch alone.                                  *)
LEMMA EvictKeeps == ASSUME IInv, Evict PROVE IInv' /\ Remembers
<1>1. cache' = NoCache /\ UNCHANGED <<now, published, style, task>>
    BY DEF Evict
<1>2. cache' \in CacheTypes /\ Honest(cache)' /\ cache'.prices = {} /\ cache'.promised = {}
    BY <1>1 DEF NoCache, CacheTypes, Honest
<1>3. Typed' /\ CacheFits'
    BY <1>1, <1>2 DEF IInv, Typed, CacheFits
<1>4. TaskFits'
    BY <1>1 DEF IInv, TaskFits, Holds, InGap, Honest
<1>5. Remembers
    BY <1>1 DEF Remembers
<1> QED
    BY <1>3, <1>4, <1>5 DEF IInv

LEMMA PublishKeeps == ASSUME IInv, Publish PROVE IInv' /\ Remembers
<1>1. UNCHANGED <<now, style, cache, task>>
    BY DEF Publish
<1>2. published \subseteq published' /\ published' \in SUBSET Minutes
    BY DEF Publish, IInv, Typed, Span
<1>3. Typed' /\ CacheFits'
    BY <1>1, <1>2 DEF IInv, Typed, CacheFits, Honest
<1>4. TaskFits'
    BY <1>1, <1>2 DEF IInv, TaskFits, Holds, InGap, Honest
<1>5. Remembers
    BY <1>1 DEF Remembers
<1> QED
    BY <1>3, <1>4, <1>5 DEF IInv

LEMMA TickKeeps == ASSUME IInv, Tick PROVE IInv' /\ Remembers
<1>1. now < MaxNow /\ now' = now + 1 /\ UNCHANGED <<published, style, cache, task>>
    BY DEF Tick
<1>2. /\ Typed /\ CacheFits /\ TaskFits /\ now \in Int
      /\ cache.prices \subseteq Minutes /\ task.end \in Int
    BY DEF IInv, Typed, CacheTypes, TaskTypes
<1>3. Typed'
    BY <1>1, <1>2, HistoryAssumption DEF Typed
<1>4. ASSUME NEW m \in cache.prices PROVE m < now'
  <2>1. m \in Int /\ m < now
      BY <1>2, MinutesAreIntegers DEF CacheFits
  <2> QED
      BY <1>1, <1>2, <2>1
<1>5. CacheFits'
    BY <1>1, <1>2, <1>4 DEF CacheFits, Honest
<1>6. task.end <= now => task.end <= now'
    BY <1>1, <1>2
<1>7. TaskFits'
    BY <1>1, <1>2, <1>6 DEF TaskFits, Holds, InGap, Honest
<1>8. Remembers
    BY <1>1 DEF Remembers
<1> QED
    BY <1>3, <1>5, <1>7, <1>8 DEF IInv

LEMMA NextKeeps == IInv /\ [Next]_vars => IInv' /\ Remembers
<1> SUFFICES ASSUME IInv, [Next]_vars PROVE IInv' /\ Remembers
    OBVIOUS
<1>1. CASE Next
    BY <1>1, LookupKeeps, ForwardPageKeeps, BackwardPageKeeps, OkxForwardPageKeeps,
       PageFailsPartlyKeeps, FetchFailsKeeps, EvictKeeps, PublishKeeps, TickKeeps DEF Next
<1>2. CASE UNCHANGED vars
    BY <1>2 DEF vars, IInv, Typed, CacheFits, TaskFits, Holds, InGap, Honest, Remembers
<1> QED
    BY <1>1, <1>2

LEMMA Invariance == Spec => []IInv
<1>1. IInv /\ [Next]_vars => IInv'
    BY NextKeeps
<1> QED
    BY <1>1, InitHolds, PTL DEF Spec

(* Whatever the order of pages, failures, evictions and late candles, the  *)
(* coverage of instrument_statistics.py never hides a candle that was on   *)
(* show when its part of the window was read.                              *)
THEOREM CoverageIsHonest == Spec => []CoverageHonest
<1>1. IInv => CoverageHonest
    BY DEF IInv, CacheFits, Honest, CoverageHonest
<1> QED
    BY <1>1, Invariance, PTL

(* No fetch, complete, partial or failed, loses a close of the cache that  *)
(* is still in the window.                                                 *)
THEOREM NothingIsForgotten == Spec => NothingForgotten
<1>1. IInv /\ [Next]_vars => Remembers
    BY NextKeeps
<1>2. Remembers => [cache # NoCache /\ cache' # NoCache =>
          {m \in cache.prices : m >= cache'.end - Window} \subseteq cache'.prices]_vars
    BY DEF Remembers
<1> QED
    BY <1>1, <1>2, Invariance, PTL DEF Spec, NothingForgotten
=============================================================================
