--------------------------- MODULE PollScheduler ---------------------------
(***************************************************************************)
(* The exchange poll scheduler of services/collector.py.                   *)
(*                                                                         *)
(* Every round of the collector loop reads the risk settings, drops the    *)
(* exchanges they ignore, claims at most MaxDue of the exchanges that are   *)
(* due, in ring order from a cursor, polls the claimed ones side by side,  *)
(* and stores what each answered: the next due time, one interval later or *)
(* at the end of a cool-down.  All times are dated from the START of the   *)
(* round, so a slow poll shortens the wait after it.                       *)
(*                                                                         *)
(* Time is kept as what is left to wait; the composing module lets it pass *)
(* for all components at once (TimePasses).                                *)
(***************************************************************************)
EXTENDS Naturals, Sequences, FiniteSets, SequencesExt

CONSTANTS
    Adapters,         \* the exchange adapters, in the collector's order
    MaxDue,           \* max_due_adapters_per_cycle
    Interval,         \* poll_interval_seconds, of exchanges and of the loop
    Ladder,           \* EXCHANGE_COOLDOWN_SECONDS
    LegalWait,        \* LEGAL_RESTRICTION_COOLDOWN_SECONDS
    SavedLists,       \* the lists of ignored exchanges a user may save
    MaxPoll,          \* bound: longest poll (the HTTP clients' timeouts)
    MaxEdits          \* bound: edits of the ignored exchanges

Names == ToSet(Adapters)

ASSUME SchedulerAssumption ==
    /\ Adapters \in Seq(Names) /\ IsInjective(Adapters)
    /\ MaxDue \in Nat \ {0} /\ Interval \in Nat /\ LegalWait \in Nat
    /\ Len(Ladder) > 0 /\ Ladder \in Seq(Nat)
    /\ SavedLists \subseteq SUBSET Names
    /\ MaxPoll \in Nat /\ MaxEdits \in Nat

VARIABLES
    poll,             \* name -> ExchangePollState: failures, wait, in_flight
    cursor,           \* _adapter_cursor
    settings,         \* the ignored exchanges as saved in the settings table
    ignored,          \* the ignored exchanges of the settings last loaded
    loaded,           \* _risk_settings_loaded
    round,            \* phase of the loop, active adapters, claims, answers
    edits,            \* history: edits made so far
    passed            \* history: rounds that passed over a due exchange

pollVars == <<poll, cursor, settings, ignored, loaded, round, edits, passed>>

Least(m, n) == IF m < n THEN m ELSE n
Less(m, n) == IF m > n THEN m - n ELSE 0

-----------------------------------------------------------------------------
(* One exchange: what its poll came to, and when it is polled again.       *)

ErrorKinds == {"pool", "timeout", "legal", "other"}

(* What one pass over an adapter's spot and futures requests yields: some  *)
(* markets or none, and the kinds of the errors that were collected.       *)
Answers == [markets : BOOLEAN, errors : SUBSET ErrorKinds]

(* A pool error is answered by a fresh client and one second try, whose    *)
(* answer counts; it cools the exchange down even when that try succeeds   *)
(* in part.                                                                *)
PolledResult(first, second) ==
    LET poolSeen == "pool" \in first.errors
        last == IF poolSeen THEN second ELSE first
        slow == {"pool", "timeout"} \cap last.errors # {}
    IN [failed |-> last.errors # {},
        cool |-> last.errors # {} /\ (poolSeen \/ slow \/ ~last.markets),
        legal |-> "legal" \in last.errors]

Results == {PolledResult(first, second) : first, second \in Answers}

CooldownSeconds(failures) == Ladder[Least(failures, Len(Ladder))]

(* Mutant of StoredState: a poll that failed keeps its claim.              *)
StoredStateClaimed(s, r, elapsed) ==
    [failures |-> 0, wait |-> Less(Interval, elapsed), in_flight |-> r.failed]

(* _store_adapter_result.  The count of failures is kept only up to the    *)
(* last rung of the ladder, beyond which it changes nothing.               *)
StoredState(s, r, elapsed) ==
    LET failures == IF r.failed THEN Least(s.failures + 1, Len(Ladder)) ELSE 0
        seconds == IF ~r.cool THEN Interval
                   ELSE IF r.legal THEN LegalWait ELSE CooldownSeconds(failures)
    IN [failures |-> failures, wait |-> Less(seconds, elapsed), in_flight |-> FALSE]

IsDue(a) == ~poll[a].in_flight /\ poll[a].wait = 0

-----------------------------------------------------------------------------
(* Claiming.                                                               *)

(* The active adapters: a set here, for the list that the code makes keeps  *)
(* the collector's order, which gives each its index in it.                *)
Active(without) == Names \ without

Rank == [a \in Names |-> CHOOSE i \in 1..Len(Adapters) : Adapters[i] = a]

Index == [list \in SUBSET Names |->
            [a \in list |-> Cardinality({b \in list : Rank[b] < Rank[a]})]]

(* The index that the ring starts at, counted from 0.                      *)
RingStart(list) == cursor % Cardinality(list)

(* How far behind the start a comes in the ring: its offset in             *)
(* adapters[start:] + adapters[:start].                                    *)
Offset(start, list, a) == (Index[list][a] + Cardinality(list) - start) % Cardinality(list)

(* The due adapters that the loop over the ring meets before a.            *)
DueBefore(start, list, a) ==
    {b \in list : IsDue(b) /\ Offset(start, list, b) < Offset(start, list, a)}

Claims(list) ==
    {a \in list : IsDue(a) /\ Cardinality(DueBefore(RingStart(list), list, a)) < MaxDue}

LastClaimed(list, claims) ==
    CHOOSE a \in claims : \A b \in claims :
        Offset(RingStart(list), list, b) <= Offset(RingStart(list), list, a)

(* Mutant of CursorAfter: the ring goes on AT the last claimed adapter.    *)
CursorAtLast(list, claims) ==
    IF claims = {} THEN cursor ELSE Index[list][LastClaimed(list, claims)]

(* Just behind the last claimed adapter of the list.                       *)
CursorAfter(list, claims) ==
    IF claims = {} THEN cursor
    ELSE (Index[list][LastClaimed(list, claims)] + 1) % Cardinality(list)

Passed(list, claims) ==
    [a \in Names |->
        IF a \notin list \/ ~IsDue(a) \/ a \in claims THEN 0
        ELSE 1 + IF list = round.active THEN passed[a] ELSE 0]

(* The loop before its first round; later it rests between rounds.         *)
Idle == [phase |-> "resting", active |-> {}, claims |-> {}, answers |-> <<>>,
         elapsed |-> 0, rest |-> 0]

Fresh == [failures |-> 0, wait |-> 0, in_flight |-> FALSE]

PollInit ==
    /\ poll = [a \in Names |-> Fresh]
    /\ cursor = 0
    /\ settings = {} /\ ignored = {} /\ loaded = FALSE
    /\ round = Idle
    /\ edits = 0
    /\ passed = [a \in Names |-> 0]

-----------------------------------------------------------------------------
(* The loop.                                                               *)

(* A user saves another list of ignored exchanges.                         *)
EditIgnored ==
    /\ edits < MaxEdits
    /\ \E without \in SavedLists \ {settings} : settings' = without
    /\ edits' = edits + 1
    /\ UNCHANGED <<poll, cursor, ignored, loaded, round, passed>>

(* The end of a round, however it ends: the heartbeat (the composing       *)
(* module's) and the wait for the stop event.                              *)
Rest(r) == [r EXCEPT !.phase = "resting", !.rest = Interval,
                     !.claims = {}, !.answers = <<>>, !.elapsed = 0]

(* The round with the exchanges that are not ignored: claims under the     *)
(* scheduler lock, or an empty publication when every exchange is ignored. *)
ClaimDue(without) ==
    LET list == Active(without)
    IN IF list = {}
       THEN /\ round' = [Rest(round) EXCEPT !.active = list]
            /\ passed' = [a \in Names |-> 0]
            /\ UNCHANGED <<poll, cursor>>
       ELSE LET claims == Claims(list)
            IN /\ poll' = [a \in Names |->
                            [poll[a] EXCEPT !.in_flight = @ \/ a \in claims]]
               /\ cursor' = CursorAfter(list, claims)
               /\ passed' = Passed(list, claims)
               /\ round' = [phase |-> "polling", active |-> list,
                            claims |-> claims, answers |-> <<>>,
                            elapsed |-> 0, rest |-> 0]

(* The wait for the stop event has timed out.                              *)
MayBegin == round.phase = "resting" /\ round.rest = 0

(* The settings are read in time.                                          *)
BeginRound ==
    /\ MayBegin
    /\ ignored' = settings /\ loaded' = TRUE
    /\ ClaimDue(settings)
    /\ UNCHANGED <<settings, edits>>

(* The read fails or times out: the last good settings serve again.        *)
BeginRoundOnOldSettings ==
    /\ MayBegin /\ loaded
    /\ ClaimDue(ignored)
    /\ UNCHANGED <<settings, ignored, loaded, edits>>

(* The read fails and there are none: the round fails before any poll.     *)
RoundWithoutSettings ==
    /\ MayBegin /\ ~loaded
    /\ round' = Rest(round)
    /\ UNCHANGED <<poll, cursor, settings, ignored, loaded, edits, passed>>

Answered == DOMAIN round.answers

(* One of the claimed adapters is done with its requests.                  *)
Answer(a) ==
    /\ round.phase = "polling" /\ a \in round.claims \ Answered
    /\ \E r \in Results :
         round' = [round EXCEPT !.answers =
                     [b \in Answered \cup {a} |-> IF b = a THEN r ELSE @[b]]]
    /\ UNCHANGED <<poll, cursor, settings, ignored, loaded, edits, passed>>

(* gather() has every answer: all are stored in one go, dated from the     *)
(* start of the round.  What follows (post-processing, publication, or an  *)
(* exception in them) ends the round.                                      *)
StorePollResults ==
    /\ round.phase = "polling" /\ Answered = round.claims
    /\ poll' = [a \in Names |->
                  IF a \in Answered
                  THEN StoredState(poll[a], round.answers[a], round.elapsed)
                  ELSE poll[a]]
    /\ round' = Rest(round)
    /\ UNCHANGED <<cursor, settings, ignored, loaded, edits, passed>>

(* The task is cancelled.  Nothing of its state is read again, whatever it *)
(* had claimed: a new lifespan makes a new collector.                      *)
LoopCancelled ==
    /\ round.phase # "ended"
    /\ round' = [Idle EXCEPT !.phase = "ended"]
    /\ poll' = [a \in Names |-> Fresh] /\ cursor' = 0 /\ passed' = [a \in Names |-> 0]
    /\ UNCHANGED <<settings, ignored, loaded, edits>>

(* A unit of time.  The HTTP clients' timeouts end a poll after MaxPoll.   *)
PollTimePasses ==
    /\ round.phase = "polling" => round.elapsed < MaxPoll
    /\ poll' = [a \in Names |-> [poll[a] EXCEPT !.wait = Less(@, 1)]]
    /\ round' = [round EXCEPT
                   !.elapsed = IF round.phase = "polling" THEN @ + 1 ELSE 0,
                   !.rest = Less(@, 1)]
    /\ UNCHANGED <<cursor, settings, ignored, loaded, edits, passed>>

-----------------------------------------------------------------------------
(* Properties.                                                             *)

MaxWait == Max({Interval, LegalWait} \cup ToSet(Ladder))

PollTypeOK ==
    /\ poll \in [Names -> [failures : 0..Len(Ladder), wait : 0..MaxWait,
                           in_flight : BOOLEAN]]
    /\ cursor \in 0..Len(Adapters)
    /\ settings \in {{}} \cup SavedLists /\ ignored \in {{}} \cup SavedLists /\ loaded \in BOOLEAN
    /\ round.phase \in {"polling", "resting", "ended"}
    /\ round.active \subseteq Names
    /\ round.claims \subseteq Names /\ Answered \subseteq round.claims
    /\ \A a \in Answered : round.answers[a] \in Results
    /\ round.elapsed \in 0..MaxPoll /\ round.rest \in 0..Interval
    /\ edits \in 0..MaxEdits
    /\ passed \in [Names -> Nat]

(* A due exchange that stays in the list is passed over by at most         *)
(* (n - 1) \div MaxDue rounds before it is claimed, whatever the others    *)
(* answer: the cursor of _claim_due_adapters starves nobody, also when the *)
(* list it counts in has just become shorter or longer.                    *)
PassedOverBounded ==
    \A a \in round.active : passed[a] <= (Cardinality(round.active) - 1) \div MaxDue
=============================================================================
