--------------------------- MODULE PriceHistory ----------------------------
(***************************************************************************)
(* The one-day price history of a market (services/                        *)
(* instrument_statistics.py) and the pagers that read it from an exchange  *)
(* (services/pair_spread_query.py).                                        *)
(*                                                                         *)
(* The cache keeps the closes of a sliding window and, apart from them,    *)
(* the part of the window that was read: a market without trades has no    *)
(* candle in a minute, so a missing close does not say that the minute has *)
(* to be read.  A lookup reads only what is missing and the last few       *)
(* minutes again.  A read goes page by page, any page may fail, and what   *)
(* was read before the failure is kept as far as its extent is known.      *)
(*                                                                         *)
(* Time is in minutes.  All bounds the code uses are on minutes and        *)
(* half-open, so coverage, a list of disjoint intervals in the code, is a  *)
(* set of minutes here.  One market; the other markets of the cache appear *)
(* as Evict.                                                               *)
(***************************************************************************)
EXTENDS Integers, FiniteSets, FiniteSetsExt

CONSTANTS Window,   \* minutes of history (24 h and 3 min)
          Reread,   \* last minutes that are read again (3)
          FreshFor, \* minutes a cached history answers lookups (2)
          PageSize, \* candles of one page
          MaxNow    \* bound on the clock

ASSUME HistoryAssumption ==
    /\ Window \in Nat \ {0} /\ Reread \in 1 .. Window
    /\ FreshFor \in Nat \ {0} /\ PageSize \in Nat \ {0}
    /\ MaxNow \in Nat /\ MaxNow >= Window

Minutes == 0 .. MaxNow
Span(left, right) == {m \in Minutes : left <= m /\ m < right}

VARIABLES now,
          published,    \* minutes whose candle the exchange shows
          style,        \* how the exchange's pager goes through a range
          cache,        \* _cache and _coverage of the market
          task          \* the fetch in _pending

vars == <<now, published, style, cache, task>>

(* "cursor" pagers continue after the last candle they saw (Binance,       *)
(* Aster, Bybit, Gate, Bitget), "chunk" pagers by fixed steps (Lighter,    *)
(* Arcus), "okx" backwards from the end.                                   *)
Styles == {"cursor", "chunk", "okx"}

(* promised is history: the minutes whose candle was already there when    *)
(* the read that covers them began.                                        *)
NoCache == [end |-> -1, prices |-> {}, coverage |-> {}, promised |-> {}]
NoTask == [way |-> "none", end |-> -1, prices |-> {}, coverage |-> {}, promised |-> {},
           todo |-> {}, left |-> 0, right |-> 0, cursor |-> 0, points |-> {}, shown |-> {}]

Init ==
    /\ now = Window
    /\ published \in SUBSET (0 .. Window - 1)
    /\ style \in Styles
    /\ cache = NoCache /\ task = NoTask

-----------------------------------------------------------------------------
(* _missing_ranges: everything outside the coverage, and the last minutes  *)
(* in any case.                                                            *)
Missing(coverage, end) == Span(end - Window, end) \ {m \in coverage : m < end - Reread}

(* The newest gap: gaps are read from the present backwards.               *)
GapRight(todo) == Max(todo) + 1
GapLeft(todo) == Min({m \in todo : Span(m, GapRight(todo)) \subseteq todo})

StartGap(t) ==
    [t EXCEPT !.way = IF style = "okx" THEN "backward" ELSE "forward",
              !.left = GapLeft(t.todo), !.right = GapRight(t.todo),
              !.cursor = IF style = "okx" THEN GapRight(t.todo) ELSE GapLeft(t.todo),
              !.points = {}, !.shown = published]

(* The closes a fetch starts from.                                         *)
KeptUnlessReread(end) == {m \in cache.prices \cap cache.coverage :
                            end - Window <= m /\ m < end - Reread}
Kept(end) == cache.prices \cap Span(end - Window, end)

(* _history: a lookup whose cached history is too old starts the fetch,    *)
(* one at a time; every other lookup is answered by the cache or waits for *)
(* the fetch under way, which its own cancellation does not stop.          *)
Lookup ==
    /\ task = NoTask
    /\ cache = NoCache \/ now - cache.end >= FreshFor
    /\ LET prices == Kept(now)
           coverage == IF prices = {} THEN {} ELSE cache.coverage \cap Span(now - Window, now)
       IN  task' = StartGap([NoTask EXCEPT !.end = now, !.prices = prices,
                                           !.coverage = coverage, !.promised = cache.promised,
                                           !.todo = Missing(coverage, now)])
    /\ UNCHANGED <<now, published, style, cache>>

(* The end of a fetch, with whatever it has read: coverage counts only     *)
(* with prices.                                                            *)
Stored(t) ==
    [end |-> t.end, prices |-> t.prices,
     coverage |-> IF t.prices = {} THEN {} ELSE t.coverage,
     promised |-> t.promised]

(* A fetch that has read some part of its gap.                             *)
Reading(t, points, read) ==
    [t EXCEPT !.prices = @ \cup (points \cap Span(t.end - Window, t.end)),
              !.coverage = @ \cup read, !.promised = @ \cup (t.shown \cap read)]

(* The gap is read: the next one, or the end.                              *)
GapRead(t) ==
    LET r == [Reading(t, t.points, Span(t.left, t.right)) EXCEPT
                  !.todo = @ \ Span(t.left, t.right)]
    IN  IF r.todo # {} THEN task' = StartGap(r) /\ cache' = cache
        ELSE task' = NoTask /\ cache' = Stored(r)

(* After a page: on to the next one, or the gap is read.                   *)
Continue(t, more) ==
    IF more THEN task' = t /\ cache' = cache ELSE GapRead(t)

(* Where a pager that goes forward continues after a page that ended at to. *)
NextByLast(got, to) == IF got = {} THEN to ELSE Max(got) + 1
NextByStep(got, to) == to

ForwardPage ==
    /\ task.way = "forward"
    /\ LET to == Min({task.right, task.cursor + PageSize})
           got == published \cap Span(task.cursor, to)
           cursor == IF style = "cursor" THEN NextByLast(got, to) ELSE NextByStep(got, to)
       IN  Continue([task EXCEPT !.points = @ \cup got, !.cursor = cursor], cursor < task.right)
    /\ UNCHANGED <<now, published, style>>

(* OKX answers with the newest candles older than the cursor, also those   *)
(* before the gap.  A gap without candles is tried once more forwards.     *)
Newest(s) == {m \in s : Cardinality({n \in s : n > m}) < PageSize}

BackwardPage ==
    /\ task.way = "backward"
    /\ LET got == Newest({m \in published : m < task.cursor})
           t == [task EXCEPT !.points = @ \cup (got \cap Span(task.left, task.right)),
                             !.cursor = IF got = {} THEN task.left ELSE Min(got)]
       IN  IF t.cursor <= t.left /\ t.points = {}
           THEN task' = [t EXCEPT !.way = "okx-forward", !.cursor = task.left] /\ cache' = cache
           ELSE Continue(t, t.cursor > t.left)
    /\ UNCHANGED <<now, published, style>>

OkxForwardPage ==
    /\ task.way = "okx-forward"
    /\ LET got == Newest({m \in published : m > task.cursor})
           cursor == IF got = {} THEN task.right ELSE Max(got) + 1
       IN  Continue([task EXCEPT !.points = @ \cup (got \cap Span(task.left, task.right)),
                                 !.cursor = cursor], cursor < task.right)
    /\ UNCHANGED <<now, published, style>>

(* PartialKlineHistoryError: what the pages read so far cover.             *)
CoveredToTheStart(t) == Span(t.left, t.right)
Covered(t) ==
    IF t.way = "backward" THEN Span(Min(t.points), t.right)
    ELSE Span(t.left, Min({t.right, Max(t.points) + 1}))

(* A page of OKX that fails after others were read keeps them.             *)
PageFailsPartly ==
    /\ task.way \in {"backward", "okx-forward"} /\ task.points # {}
    /\ cache' = Stored(Reading(task, task.points, Covered(task)))
    /\ task' = NoTask
    /\ UNCHANGED <<now, published, style>>

(* Any other failure, and the time limit of the fetch, drop the gap under  *)
(* way and keep the gaps before it.                                        *)
FetchFails ==
    /\ task # NoTask
    /\ cache' = Stored(task)
    /\ task' = NoTask
    /\ UNCHANGED <<now, published, style>>

(* The 129th market pushes the least recently used one out, its coverage   *)
(* with it; a fetch under way goes on with what it has taken.              *)
Evict ==
    /\ cache # NoCache
    /\ cache' = NoCache
    /\ UNCHANGED <<now, published, style, task>>

(* A candle appears at any time after its minute, or never.                *)
Publish ==
    /\ \E m \in Span(0, now) \ published : published' = published \cup {m}
    /\ UNCHANGED <<now, style, cache, task>>

Tick ==
    /\ now < MaxNow
    /\ now' = now + 1
    /\ UNCHANGED <<published, style, cache, task>>

Next ==
    \/ Lookup \/ ForwardPage \/ BackwardPage \/ OkxForwardPage
    \/ PageFailsPartly \/ FetchFails \/ Evict \/ Publish \/ Tick

Spec == Init /\ [][Next]_vars

-----------------------------------------------------------------------------
(* The coverage never hides a candle: a minute that will not be read again *)
(* has its close in the cache if its candle was there to be read.          *)
CoverageHonest == cache.coverage \cap cache.promised \subseteq cache.prices

(* A fetch, failed or not, never loses a close that is still in the window.*)
NothingForgotten ==
    [][cache # NoCache /\ cache' # NoCache =>
          {m \in cache.prices : m >= cache'.end - Window} \subseteq cache'.prices]_vars
=============================================================================
