---------------------------- MODULE AlertDelivery ----------------------------
(***************************************************************************)
(* Delivery of opportunity alerts: the in-memory AlertEngine, the durable  *)
(* alert_delivery_state table, the alert loop that evaluates a round and   *)
(* pushes its matches through bounded concurrent tasks, and the start-up   *)
(* code that restores the engine after the process died at any point.      *)
(***************************************************************************)
EXTENDS Integers, FiniteSets

CONSTANTS
    Keys,              \* alert keys f"{rule.id}:{opportunity.id}"
    SymbolOf,          \* SymbolOf[k]: symbol of the key's opportunity
    Cooldown,          \* Cooldown[k]: rule.cooldown_seconds
    MaxCooldown,       \* the largest cooldown among the rules
    ConsecutiveHits,   \* ConsecutiveHits[k]: rule.consecutive_hits
    RetryBase,         \* DELIVERY_RETRY_SECONDS
    RetryMax,          \* MAX_DELIVERY_RETRY_SECONDS
    MaxPerSymbol,      \* MAX_ALERTS_PER_SYMBOL
    MaxPerEvaluation,  \* MAX_ALERTS_PER_EVALUATION
    Concurrency,       \* alert_match_concurrency
    MinRetention,      \* the seven days of the daily prune
    RetentionSlack,    \* the extra day over the longest cooldown
    PrunePeriod,       \* how often the loop prunes
    MaxTime,           \* bound on the clock
    MaxBoots           \* bound on restarts

ASSUME AlertAssumption ==
    /\ IsFiniteSet(Keys)
    /\ Concurrency \in Nat \ {0}
    /\ Cooldown \in [Keys -> Nat]
    /\ ConsecutiveHits \in [Keys -> Nat \ {0}]
    /\ MaxCooldown \in Nat
    /\ \A k \in Keys : Cooldown[k] <= MaxCooldown
    /\ RetryBase \in Nat /\ RetryMax \in Nat
    /\ MinRetention \in Nat /\ RetentionSlack \in Nat
    /\ PrunePeriod \in Nat
    /\ MaxTime \in Nat /\ MaxBoots \in Nat

VARIABLES
    now,           \* wall clock
    loop,          \* where the process is: Modes
    \* AlertEngine, lost with the process
    hits,          \* hits[k]: consecutive rounds, counted up to ConsecutiveHits[k]
    lastSent,      \* lastSent[k]: _last_sent, or NoTime
    retryAfter,    \* retryAfter[k]: _retry_after, or NoTime
    attempts,      \* attempts[k]: _retry_attempts
    \* the alert loop, lost with the process
    stage,         \* stage[k]: progress of the key's task: Stages
    lastPrune,     \* last_delivery_prune, or NoTime
    \* the database
    row,           \* row[k]: alert_delivery_state row, or NoRow
    events,        \* alert_events rows with status "unknown"
    boots,         \* process starts so far
    \* history variables, read by no action's guard
    started,       \* started[k]: when the latest send began
    counted,       \* counted[k]: start of the latest send that succeeded or was cut short
    holdUntil,     \* holdUntil[k]: backoff stored durably for a signal that persists
    orphans,       \* pending sends that some start-up found
    reached,       \* reached[k]: latest time an alert of k was taken, or may have been
    doubt          \* doubt[k]: reached[k], or the attempt whose outcome is not stored yet

engineVars == <<hits, lastSent, retryAfter, attempts>>
historyVars == <<started, counted, holdUntil, orphans, reached, doubt>>
vars == <<now, loop, hits, lastSent, retryAfter, attempts, stage, lastPrune,
          row, events, boots, started, counted, holdUntil, orphans, reached, doubt>>

NoTime == -1
Times == Nat \union {NoTime}

Modes == {"down", "restoring", "waiting", "evaluating", "processing"}
Restoring == {"unreported", "clearing"}
Working == {"checking", "sending", "persisting"}
Stages == {"idle", "queued"} \union Restoring \union Working

NoRow == [lastSent |-> NoTime, retryAfter |-> NoTime, attempts |-> 0,
          pending |-> NoTime, updated |-> NoTime]

Rows == [lastSent : Times, retryAfter : Times, attempts : Nat,
         pending : Times, updated : Times]

TypeOK ==
    /\ now \in Nat
    /\ loop \in Modes
    /\ hits \in [Keys -> Nat]
    /\ lastSent \in [Keys -> Times]
    /\ retryAfter \in [Keys -> Times]
    /\ attempts \in [Keys -> Nat]
    /\ stage \in [Keys -> Stages]
    /\ lastPrune \in Times
    /\ row \in [Keys -> Rows]
    /\ boots \in Nat
    /\ started \in [Keys -> Times]
    /\ counted \in [Keys -> Times]
    /\ holdUntil \in [Keys -> Times]
    /\ reached \in [Keys -> Times]
    /\ doubt \in [Keys -> Times]

Smaller(a, b) == IF a <= b THEN a ELSE b
Larger(a, b) == IF a <= b THEN b ELSE a

---------------------------------------------------------------------------
(* The rules of the engine. *)

\* No delivery counted against k is still inside its cooldown.
CooledAt(k, t) == lastSent[k] = NoTime \/ t - lastSent[k] >= Cooldown[k]

BackedOff(k, t) == retryAfter[k] # NoTime /\ t < retryAfter[k]

\* Exponential backoff after the a-th failure in a row: 1, 2, 4, 8, 16 times
\* the base, capped by the global maximum and by the rule's own cooldown.
RetryWait(k, a) ==
    LET doubling == CASE a <= 1 -> 1 [] a = 2 -> 2 [] a = 3 -> 4 [] a = 4 -> 8
                      [] OTHER -> 16
    IN Smaller(Smaller(RetryBase * doubling, RetryMax), Cooldown[k])

\* Best-ranked matches: full up to the per-symbol and per-round limits.
WithinLimits(M) ==
    /\ Cardinality(M) <= MaxPerEvaluation
    /\ \A k \in M :
          Cardinality({j \in M : SymbolOf[j] = SymbolOf[k]}) <= MaxPerSymbol

Limited(E) ==
    {M \in SUBSET E :
        WithinLimits(M) /\ \A k \in E \ M : ~WithinLimits(M \union {k})}

\* One asyncio task per group: per symbol, or a single one when nothing runs
\* concurrently.
SameGroup(j, k) == Concurrency = 1 \/ SymbolOf[j] = SymbolOf[k]

---------------------------------------------------------------------------
(* The database operations. *)

MarkPending(r) == [r EXCEPT !.pending = now, !.updated = now]

\* Mutant of Recorded: the update clause leaves pending_since as it is.
RecordedKeepsPending(k) ==
    [lastSent |-> lastSent[k], retryAfter |-> retryAfter[k],
     attempts |-> attempts[k], pending |-> row[k].pending, updated |-> now]

\* The state export_state hands to AlertDeliveryStore.record.
Recorded(k) == [lastSent |-> lastSent[k], retryAfter |-> retryAfter[k],
                attempts |-> attempts[k], pending |-> NoTime, updated |-> now]

\* Mutant of Retention: seven days whatever the rules say.
RetentionFixed == MinRetention

Retention == Larger(MinRetention, MaxCooldown + RetentionSlack)

Expired(r) == r.pending = NoTime /\ r.updated < now - Retention

Pruned(table) == [k \in Keys |-> IF Expired(table[k]) THEN NoRow ELSE table[k]]

\* Mutant of UnknownEventId: an identity made up at every start-up.
UnknownEventIdFresh(k, pending) == <<k, pending, boots>>

\* uuid5 of the key and the time its send began: the same at every start-up.
UnknownEventId(k, pending) == <<k, pending>>

---------------------------------------------------------------------------
(* Start-up. *)

\* Mutant of RestoredLastSent: the pending mark is not looked at.
RestoredLastSentNoPending(k) == row[k].lastSent

\* AlertEngine.restore: an interrupted send counts as sent when it began.
RestoredLastSent(k) ==
    IF row[k].pending # NoTime THEN row[k].pending ELSE row[k].lastSent

\* Mutants of RestoredRetryAfter: the backoff is lost; the remaining wait is
\* kept instead of its end.
RestoredRetryAfterLost(k) == NoTime

RestoredRetryAfterRemaining(k) == row[k].retryAfter - now

RestoredRetryAfter(k) ==
    IF row[k].pending = NoTime /\ row[k].retryAfter > now
    THEN row[k].retryAfter ELSE NoTime

Restart ==
    /\ loop = "down"
    /\ boots < MaxBoots
    /\ boots' = boots + 1
    /\ loop' = "restoring"
    /\ lastSent' = [k \in Keys |-> RestoredLastSent(k)]
    /\ retryAfter' = [k \in Keys |-> RestoredRetryAfter(k)]
    /\ attempts' = [k \in Keys |-> IF row[k].pending = NoTime
                                   THEN row[k].attempts ELSE 0]
    /\ stage' = [k \in Keys |-> IF row[k].pending # NoTime THEN "unreported"
                                ELSE "idle"]
    /\ orphans' = orphans \union {<<k, row[k].pending>> :
                                     k \in {j \in Keys : row[j].pending # NoTime}}
    /\ UNCHANGED <<now, hits, lastPrune, row, events, started, counted, holdUntil,
                   reached, doubt>>

\* The unknown event of one interrupted send; its primary key makes a second
\* insertion after another crash a tolerated no-op.  On any other failure the
\* row keeps its pending mark.
ReportUnknown(k) ==
    /\ loop = "restoring"
    /\ stage[k] = "unreported"
    /\ \A j \in Keys : stage[j] # "clearing"
    /\ \/ /\ events' = events \union
                {[key |-> k, pending |-> lastSent[k],
                  id |-> UnknownEventId(k, lastSent[k])]}
          /\ stage' = [stage EXCEPT ![k] = "clearing"]
       \/ /\ stage' = [stage EXCEPT ![k] = "idle"]
          /\ UNCHANGED events
    /\ UNCHANGED <<now, loop, engineVars, lastPrune, row, boots, historyVars>>

ClearPending(k) ==
    /\ loop = "restoring"
    /\ stage[k] = "clearing"
    /\ row' \in {row, [row EXCEPT ![k] = Recorded(k)]}
    /\ stage' = [stage EXCEPT ![k] = "idle"]
    /\ UNCHANGED <<now, loop, engineVars, lastPrune, events, boots, historyVars>>

FinishRestore ==
    /\ loop = "restoring"
    /\ \A k \in Keys : stage[k] = "idle"
    /\ loop' = "waiting"
    /\ UNCHANGED <<now, engineVars, stage, lastPrune, row, events, boots, historyVars>>

---------------------------------------------------------------------------
(* The alert loop. *)

PruneDue == lastPrune = NoTime \/ now - lastPrune >= PrunePeriod

\* A failed prune is logged and not repeated before the next period.
BeginRound ==
    /\ loop = "waiting"
    /\ loop' = "evaluating"
    /\ IF PruneDue
       THEN /\ row' \in {row, Pruned(row)}
            /\ lastPrune' = now
       ELSE UNCHANGED <<row, lastPrune>>
    /\ UNCHANGED <<now, engineVars, stage, events, boots, historyVars>>

\* Reading settings or candidates fails: the loop waits for its next turn.
AbortRound ==
    /\ loop = "evaluating"
    /\ loop' = "waiting"
    /\ UNCHANGED <<now, engineVars, stage, lastPrune, row, events, boots, historyVars>>

\* AlertEngine.evaluate on the opportunities that meet their rule ("active"),
\* of which "stable" also have stable observations.
Evaluate(active, stable) ==
    LET ripe == {k \in active \intersect stable : hits[k] + 1 >= ConsecutiveHits[k]}
        eligible == {k \in ripe : CooledAt(k, now) /\ ~BackedOff(k, now)}
        dropped == {k \in Keys \ active : hits[k] > 0}
    IN /\ loop = "evaluating"
       /\ loop' = "processing"
       /\ hits' = [k \in Keys |-> IF k \in active
                                  THEN Smaller(hits[k] + 1, ConsecutiveHits[k]) ELSE 0]
       /\ retryAfter' = [k \in Keys |-> IF k \in eligible \union dropped
                                        THEN NoTime ELSE retryAfter[k]]
       /\ attempts' = [k \in Keys |-> IF k \in dropped THEN 0 ELSE attempts[k]]
       /\ holdUntil' = [k \in Keys |-> IF k \in dropped THEN NoTime ELSE holdUntil[k]]
       /\ \E matches \in Limited(eligible) :
             stage' = [k \in Keys |-> IF k \in matches THEN "queued" ELSE stage[k]]
       /\ UNCHANGED <<now, lastSent, lastPrune, row, events, boots, started, counted,
                      orphans, reached, doubt>>

EndRound ==
    /\ loop = "processing"
    /\ \A k \in Keys : stage[k] = "idle"
    /\ loop' = "waiting"
    /\ UNCHANGED <<now, engineVars, stage, lastPrune, row, events, boots, historyVars>>

---------------------------------------------------------------------------
(* One match, _process_alert_match. *)

\* The task of k's group takes its semaphore permit and starts with k.
Admit(k) ==
    /\ stage[k] = "queued"
    /\ \A j \in Keys : SameGroup(j, k) => stage[j] \notin Working
    /\ Cardinality({j \in Keys : stage[j] \in Working}) < Concurrency
    /\ stage' = [stage EXCEPT ![k] = "checking"]
    /\ UNCHANGED <<now, loop, engineVars, lastPrune, row, events, boots, historyVars>>

\* Mutant of HandOver: the next match is taken from any group.
HandOverAnyGroup(k) ==
    LET rest == {j \in Keys : stage[j] = "queued"}
    IN \/ /\ rest = {}
          /\ stage' = [stage EXCEPT ![k] = "idle"]
       \/ \E j \in rest : stage' = [stage EXCEPT ![k] = "idle", ![j] = "checking"]

\* The task is through with k and goes on to the next match of its group
\* without releasing the permit.
HandOver(k) ==
    LET rest == {j \in Keys : stage[j] = "queued" /\ SameGroup(j, k)}
    IN \/ /\ rest = {}
          /\ stage' = [stage EXCEPT ![k] = "idle"]
       \/ \E j \in rest : stage' = [stage EXCEPT ![k] = "idle", ![j] = "checking"]

\* record_delivery_result for "failed" and "muted".
Postpone(k) ==
    /\ attempts' = [attempts EXCEPT ![k] = @ + 1]
    /\ retryAfter' = [retryAfter EXCEPT ![k] = now + RetryWait(k, attempts[k] + 1)]
    /\ stage' = [stage EXCEPT ![k] = "persisting"]
    /\ UNCHANGED <<now, loop, hits, lastSent, lastPrune, row, events, boots, historyVars>>

\* The signal no longer validates, its card exists already, or live sending is off.
Mute(k) ==
    /\ stage[k] = "checking"
    /\ Postpone(k)

\* Preparing the message or writing the pending mark raises: nothing is sent.
\* A mark whose commit raised may still reach the disk.
Abandon(k) ==
    /\ stage[k] = "checking"
    /\ \/ UNCHANGED <<row, doubt>>
       \/ /\ row' = [row EXCEPT ![k] = MarkPending(@)]
          /\ doubt' = [doubt EXCEPT ![k] = now]
    /\ HandOver(k)
    /\ UNCHANGED <<now, loop, engineVars, lastPrune, events, boots, started, counted,
                   holdUntil, orphans, reached>>

\* mark_pending has committed; send_alert goes out.
BeginSend(k) ==
    /\ stage[k] = "checking"
    /\ row' = [row EXCEPT ![k] = MarkPending(@)]
    /\ stage' = [stage EXCEPT ![k] = "sending"]
    /\ started' = [started EXCEPT ![k] = now]
    /\ doubt' = [doubt EXCEPT ![k] = now]
    /\ UNCHANGED <<now, loop, engineVars, lastPrune, events, boots, counted, holdUntil,
                   orphans, reached>>

SendAccepted(k) ==
    /\ stage[k] = "sending"
    /\ lastSent' = [lastSent EXCEPT ![k] = now]
    /\ retryAfter' = [retryAfter EXCEPT ![k] = NoTime]
    /\ attempts' = [attempts EXCEPT ![k] = 0]
    /\ stage' = [stage EXCEPT ![k] = "persisting"]
    /\ counted' = [counted EXCEPT ![k] = started[k]]
    /\ reached' = [reached EXCEPT ![k] = now]
    /\ doubt' = [doubt EXCEPT ![k] = now]
    /\ UNCHANGED <<now, loop, hits, lastPrune, row, events, boots, started, holdUntil,
                   orphans>>

SendRejected(k) ==
    /\ stage[k] = "sending"
    /\ Postpone(k)

\* AlertDeliveryStore.record, then the audit event and the next match.
PersistOk(k) ==
    /\ stage[k] = "persisting"
    /\ row' = [row EXCEPT ![k] = Recorded(k)]
    /\ holdUntil' = [holdUntil EXCEPT ![k] = retryAfter[k]]
    /\ doubt' = [doubt EXCEPT ![k] = reached[k]]
    /\ HandOver(k)
    /\ UNCHANGED <<now, loop, engineVars, lastPrune, events, boots, started, counted,
                   orphans, reached>>

\* The write raises; its effect may or may not reach the disk.
PersistFails(k) ==
    /\ stage[k] = "persisting"
    /\ \/ UNCHANGED <<row, doubt>>
       \/ /\ row' = [row EXCEPT ![k] = Recorded(k)]
          /\ doubt' = [doubt EXCEPT ![k] = reached[k]]
    /\ HandOver(k)
    /\ UNCHANGED <<now, loop, engineVars, lastPrune, events, boots, started, counted,
                   holdUntil, orphans, reached>>

---------------------------------------------------------------------------
(* The environment. *)

Tick ==
    /\ now < MaxTime
    /\ now' = now + 1
    /\ UNCHANGED <<loop, engineVars, stage, lastPrune, row, events, boots, historyVars>>

\* Kill, crash, or a shutdown that cancels the tasks where they are.
Crash ==
    /\ loop # "down"
    /\ loop' = "down"
    /\ hits' = [k \in Keys |-> 0]
    /\ lastSent' = [k \in Keys |-> NoTime]
    /\ retryAfter' = [k \in Keys |-> NoTime]
    /\ attempts' = [k \in Keys |-> 0]
    /\ stage' = [k \in Keys |-> "idle"]
    /\ lastPrune' = NoTime
    /\ counted' = [k \in Keys |-> IF stage[k] = "sending" THEN started[k] ELSE counted[k]]
    /\ reached' = doubt
    /\ UNCHANGED <<now, row, events, boots, started, holdUntil, orphans, doubt>>

Init ==
    /\ now = 0
    /\ loop = "down"
    /\ hits = [k \in Keys |-> 0]
    /\ lastSent = [k \in Keys |-> NoTime]
    /\ retryAfter = [k \in Keys |-> NoTime]
    /\ attempts = [k \in Keys |-> 0]
    /\ stage = [k \in Keys |-> "idle"]
    /\ lastPrune = NoTime
    /\ row = [k \in Keys |-> NoRow]
    /\ events = {}
    /\ boots = 0
    /\ started = [k \in Keys |-> NoTime]
    /\ counted = [k \in Keys |-> NoTime]
    /\ holdUntil = [k \in Keys |-> NoTime]
    /\ orphans = {}
    /\ reached = [k \in Keys |-> NoTime]
    /\ doubt = [k \in Keys |-> NoTime]

Match(k) ==
    \/ Admit(k)
    \/ Mute(k)
    \/ Abandon(k)
    \/ BeginSend(k)
    \/ SendAccepted(k)
    \/ SendRejected(k)
    \/ PersistOk(k)
    \/ PersistFails(k)

Next ==
    \/ Tick
    \/ Crash
    \/ Restart
    \/ \E k \in Keys : ReportUnknown(k) \/ ClearPending(k)
    \/ FinishRestore
    \/ BeginRound
    \/ AbortRound
    \/ \E active, stable \in SUBSET Keys : Evaluate(active, stable)
    \/ EndRound
    \/ \E k \in Keys : Match(k)

Spec == Init /\ [][Next]_vars

---------------------------------------------------------------------------
(* Properties. *)

\* The cooldown of every counted send of k is over.
Passed(k) == counted[k] = NoTime \/ now - counted[k] >= Cooldown[k]

\* After a restart from r, the engine knows of a send that began at time t.
Protects(r, t) == IF r.pending # NoTime THEN r.pending >= t ELSE r.lastSent >= t

\* Why a cooldown survives everything: what the running engine remembers, and
\* independently what the table would restore, is never older than the counted
\* send until its cooldown is over; a match that was let through stays free to
\* send until it does.  No time recorded lies in the future, and a row is
\* touched whenever its last send moves, so pruning by age is safe.
CooldownInv(k) ==
    /\ lastSent[k] <= now /\ started[k] <= now /\ counted[k] <= now
    /\ row[k].pending <= now /\ row[k].updated <= now
    /\ row[k].lastSent <= row[k].updated
    /\ stage[k] \in Working \union {"queued"} => loop = "processing"
    /\ stage[k] \in Restoring => loop = "restoring"
    /\ stage[k] \in {"queued", "checking"} => Passed(k)
    /\ stage[k] = "sending" => row[k].pending = started[k]
    /\ loop # "down" => Passed(k) \/ lastSent[k] >= counted[k]
    /\ Passed(k) \/ Protects(row[k], counted[k])

CooldownSafe == \A k \in Keys : CooldownInv(k)

\* The other side of the cooldown: a running engine holds a key back for its
\* cooldown only while that of an alert runs which was taken, or which nobody
\* can know was not, because a crash came before its outcome was stored.  A
\* delivery that failed and was recorded does not silence its key after any
\* number of restarts, and no restart makes the silence longer.
SilenceJustified ==
    \A k \in Keys :
        loop # "down" /\ ~CooledAt(k, now)
            => reached[k] # NoTime /\ now - reached[k] < Cooldown[k]

\* Across crashes, failed writes, pruning and restarts, a send of k never
\* starts inside the cooldown of an earlier send of k that succeeded or was
\* cut short by a crash.
NoSendInsideCooldown ==
    [][\A k \in Keys :
          stage[k] # "sending" /\ stage'[k] = "sending"
             => counted[k] = NoTime \/ now - counted[k] >= Cooldown[k]]_vars

\* Matches of one symbol are handled one at a time, and no more matches at
\* once than the configured concurrency; handing the permit on inside a group
\* never lets a second task of the group in.
MatchesSerialized ==
    /\ Cardinality({k \in Keys : stage[k] \in Working}) <= Concurrency
    /\ \A j, k \in Keys : /\ stage[j] \in Working /\ stage[k] \in Working
                          /\ SameGroup(j, k)
                          => j = k

\* A backoff that was stored is respected by every later match as long as the
\* signal persists, restarts included.
BackoffRespected ==
    [][\A k \in Keys :
          stage[k] # "queued" /\ stage'[k] = "queued" => now >= holdUntil'[k]]_vars

\* However often start-up is cut short, an interrupted send gets at most one
\* "unknown" event.
OneUnknownEvent ==
    \A e, f \in events : e.key = f.key /\ e.pending = f.pending => e = f

\* The start-up comment and specification promise an "unknown" event for each
\* interrupted send: once start-up found it, its mark is not wiped or replaced
\* before the event exists.
UnknownEventBeforeWipe ==
    [][\A k \in Keys :
          /\ <<k, row[k].pending>> \in orphans
          /\ row[k].pending = started[k]
          /\ row'[k].pending # row[k].pending
          => \E e \in events : e.key = k /\ e.pending = row[k].pending]_vars

\* The alert pipeline implements its abstract promise.
Gate == INSTANCE AlertGate WITH
            clock <- now,
            busy <- {k \in Keys : stage[k] = "sending"}

GateSpec == Gate!Spec
=============================================================================
