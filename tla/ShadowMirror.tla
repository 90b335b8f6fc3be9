---------------------------- MODULE ShadowMirror ----------------------------
(***************************************************************************)
(* The protocol between ShadowRuntime and the process of the shadow        *)
(* ledger.  A round sends a snapshot as differences against mirrors that   *)
(* both sides keep, over queues of one message, while either side may      *)
(* fail, the child may be replaced, and the application may shut down.     *)
(*                                                                         *)
(* A snapshot is a sequence of markets, each with a directory row and a    *)
(* quote, the table of its opportunities (which also stands for the        *)
(* execution catalog: both are sent only when they have changed) and the   *)
(* minute of its publication.                                              *)
(***************************************************************************)
EXTENDS Integers, Sequences, Functions

CONSTANTS
    Snapshots,    \* the snapshots that may be submitted
    Rows,         \* directory rows
    Quotes,       \* quotes
    Tables,       \* tables of opportunity ids
    Minutes,      \* minutes
    None,         \* an unfilled row, an unknown table, no minute yet
    MaxRestarts,  \* MAX_RESTARTS
    MaxRequests   \* bound on the rounds and statistics requests

ASSUME MirrorAssumption ==
    /\ \A s \in Snapshots :
          /\ s \in [rows : Seq(Rows), quotes : Seq(Quotes), table : Tables,
                    minute : Minutes]
          /\ Len(s.rows) = Len(s.quotes)
    /\ None \notin Rows \union Tables \union Minutes
    /\ MaxRestarts \in Nat /\ MaxRequests \in Nat

VARIABLES
    \* ShadowRuntime
    mode,         \* the worker's state as the supervisor knows it: Modes
    epoch,        \* _epoch
    restarts,     \* child_restarts
    serial,       \* _serial
    active,       \* what _active waits for: "none", "round" or "statistics"
    context,      \* _context: snapshot of the round under way, or NoRound
    capture,      \* what the capture task is about to send: Captures
    request,      \* indices of the quotes that the child has asked for
    broken,       \* _transport_error
    resync,       \* _needs_resync
    sequence,     \* _round_sequence
    mirror,       \* [rows, quotes, table]: _directory, _quotes, _threshold_ids
    \* the queues
    toChild,      \* the message in _incoming, or NoMessage
    toParent,     \* replies on their way to _receive
    \* the process
    child         \* the variables of run_child

workerVars == <<mode, epoch, restarts>>
roundVars == <<serial, active, context>>
captureVars == <<capture, request, broken>>
mirrorVars == <<resync, sequence, mirror>>
vars == <<mode, epoch, restarts, serial, active, context, capture, request, broken,
          resync, sequence, mirror, toChild, toParent, child>>

Modes == {"starting", "ready", "failing", "waiting", "disabled", "closing", "closed"}
Captures == {"idle", "thresholds", "directory", "quotes"}
ChildStages == {"dead", "starting", "idle", "directory", "quotes"}

Empty == [i \in {} |-> None]
NoRound == [rows |-> <<>>, quotes |-> <<>>, table |-> None, minute |-> None]
NoMessage == [kind |-> "none"]
FreshMirror == [rows |-> <<>>, quotes |-> Empty, table |-> None]

\* The variables run_child starts with; token, next, turn and selected belong
\* to the round it is in.
FreshChild(e) ==
    [stage |-> "starting", epoch |-> e, rows |-> <<>>, quotes |-> Empty, table |-> None,
     minute |-> None, sequence |-> 0, synchronized |-> FALSE,
     token |-> 0, next |-> 0, turn |-> None, selected |-> {}]
DeadChild == [FreshChild(0) EXCEPT !.stage = "dead"]

PartialQuotes(f) == DOMAIN f \subseteq Nat /\ \A i \in DOMAIN f : f[i] \in Quotes

TypeOK ==
    /\ mode \in Modes
    /\ epoch \in Nat /\ restarts \in 0..MaxRestarts /\ serial \in 0..MaxRequests
    /\ active \in {"none", "round", "statistics"}
    /\ context \in Snapshots \union {NoRound}
    /\ capture \in Captures /\ request \subseteq Nat /\ broken \in BOOLEAN
    /\ resync \in BOOLEAN /\ sequence \in 0..MaxRequests
    /\ mirror.rows \in Seq(Rows) /\ PartialQuotes(mirror.quotes)
    /\ mirror.table \in Tables \union {None}
    /\ child.stage \in ChildStages
    /\ child.rows \in Seq(Rows) /\ PartialQuotes(child.quotes)
    /\ child.table \in Tables \union {None}
    /\ child.sequence \in 0..MaxRequests /\ child.synchronized \in BOOLEAN

Only(f, S) == Restrict(f, DOMAIN f \intersect S)
Without(f, S) == Restrict(f, DOMAIN f \ S)
Updated(f, g) == [i \in DOMAIN f \union DOMAIN g |-> IF i \in DOMAIN g THEN g[i] ELSE f[i]]

---------------------------------------------------------------------------
(* Requests of the application. *)

\* Mutant of SlotFree: the reservation of the single slot is not looked at.
SlotAlwaysFree == TRUE

\* No request is under way (_active).
SlotFree == active = "none"

\* submit: anything but a free slot and a live, ready worker skips the snapshot.
Submit(s) ==
    /\ mode = "ready" /\ child.stage # "dead"
    /\ SlotFree
    /\ serial < MaxRequests
    /\ serial' = serial + 1
    /\ active' = "round"
    /\ context' = s
    /\ capture' = "thresholds"
    /\ UNCHANGED <<workerVars, request, broken, mirrorVars, toChild, toParent, child>>

\* statistics waits for the slot and puts its own request into the queue.
Statistics ==
    /\ mode = "ready"
    /\ SlotFree
    /\ serial < MaxRequests
    /\ toChild = NoMessage
    /\ serial' = serial + 1
    /\ active' = "statistics"
    /\ toChild' = [kind |-> "statistics", token |-> serial + 1]
    /\ UNCHANGED <<workerVars, context, captureVars, mirrorVars, toParent, child>>

---------------------------------------------------------------------------
(* The captures of the parent. *)

\* Mutant of StartingMirror: a full round keeps the rows and quotes sent earlier.
StartingMirrorKept == mirror

StartingMirror == IF resync THEN [mirror EXCEPT !.rows = <<>>, !.quotes = Empty] ELSE mirror

\* _capture_start: a round message, "full" after any doubt about the mirrors.
SendThresholds ==
    /\ capture = "thresholds" /\ toChild = NoMessage
    /\ mirror' = [StartingMirror EXCEPT !.table = context.table]
    /\ sequence' = sequence + 1
    /\ toChild' = [kind |-> "round", token |-> serial, full |-> resync,
                   sequence |-> sequence + 1, minute |-> context.minute,
                   table |-> IF resync \/ context.table # mirror.table
                             THEN context.table ELSE None]
    /\ capture' = "idle"
    /\ UNCHANGED <<workerVars, roundVars, request, broken, resync, toParent, child>>

\* Mutant of ChangedRows: rows replaced in place are taken to be unchanged.
ChangedRowsAppended(rows) == {i \in DOMAIN rows : i > Len(mirror.rows)}

ChangedRows(rows) ==
    {i \in DOMAIN rows : i > Len(mirror.rows) \/ rows[i] # mirror.rows[i]}

\* _capture_reply "directory": the rows that differ from the mirror; a market
\* whose row has changed must send its quote anew.
SendDirectory ==
    LET rows == context.rows
        changed == ChangedRows(rows)
    IN /\ capture = "directory" /\ toChild = NoMessage
       /\ mirror' = [mirror EXCEPT !.rows = rows,
                                   !.quotes = Without(Only(@, DOMAIN rows), changed)]
       /\ toChild' = [kind |-> "directory", token |-> serial, size |-> Len(rows),
                      delta |-> Restrict(rows, changed)]
       /\ capture' = "idle"
       /\ UNCHANGED <<workerVars, roundVars, request, broken, resync, sequence, toParent,
                      child>>

\* Mutant of Remembered: the quotes sent are not recorded once there are any.
RememberedFirst(quotes, delta) == Updated(delta, quotes)

Remembered(quotes, delta) == Updated(quotes, delta)

\* _capture_reply "quotes": the quotes asked for that differ from the mirror.
SendQuotes ==
    LET changed == {i \in request : i \notin DOMAIN mirror.quotes
                                    \/ mirror.quotes[i] # context.quotes[i]}
        delta == Restrict(context.quotes, changed)
    IN /\ capture = "quotes" /\ toChild = NoMessage
       /\ mirror' = [mirror EXCEPT !.quotes = Remembered(@, delta)]
       /\ toChild' = [kind |-> "quotes", token |-> serial, delta |-> delta]
       /\ capture' = "idle"
       /\ UNCHANGED <<workerVars, roundVars, request, broken, resync, sequence, toParent,
                      child>>

\* A capture raises part-way (_capture_failed): the worker is to be replaced.
CaptureFails ==
    /\ capture # "idle"
    /\ capture' = "idle"
    /\ resync' = TRUE
    /\ broken' = TRUE
    /\ UNCHANGED <<workerVars, roundVars, request, sequence, mirror, toChild, toParent,
                   child>>

---------------------------------------------------------------------------
(* The child.  Each of its steps consumes one message and sends one reply. *)

Say(reply) == toParent' = Append(toParent, reply)

ChildReady ==
    /\ child.stage = "starting"
    /\ child' = [child EXCEPT !.stage = "idle"]
    /\ Say([kind |-> "ready", token |-> 0, epoch |-> child.epoch])
    /\ UNCHANGED <<workerVars, roundVars, captureVars, mirrorVars, toChild>>

ChildGets(kind) ==
    /\ toChild.kind = kind
    /\ toChild' = NoMessage
    /\ UNCHANGED <<workerVars, roundVars, captureVars, mirrorVars>>

\* A difference can only be applied to the state its predecessor left.
InStep(m) == child.synchronized /\ m.sequence = child.sequence + 1

ResyncRequired(token) ==
    Say([kind |-> "round", token |-> token, epoch |-> child.epoch,
         resync |-> TRUE, sequence |-> child.sequence, ok |-> FALSE])

Cleared(c) == [c EXCEPT !.rows = <<>>, !.quotes = Empty, !.minute = None]

ChildBeginsRound ==
    LET m == toChild
        start == IF m.full THEN Cleared(child) ELSE child
    IN /\ child.stage = "idle"
       /\ ChildGets("round")
       /\ m.full \/ InStep(m)
       /\ child' = [start EXCEPT !.stage = "directory", !.token = m.token,
                                 !.next = m.sequence, !.turn = m.minute,
                                 !.table = IF m.table = None THEN @ ELSE m.table]
       /\ Say([kind |-> "capture", token |-> m.token, epoch |-> child.epoch,
               what |-> "directory", indices |-> {}])

RowsAfter(m) ==
    [i \in 1..m.size |-> IF i \in DOMAIN m.delta THEN m.delta[i]
                         ELSE IF i <= Len(child.rows) THEN child.rows[i] ELSE None]

QuotesAfter(m) == Without(Only(child.quotes, 1..m.size), DOMAIN m.delta)

\* The directory is brought up to date and the markets of the round are
\* selected; a new minute needs the quotes of all.
ChildTakesDirectory ==
    LET m == toChild
    IN /\ child.stage = "directory"
       /\ ChildGets("directory")
       /\ \E chosen \in SUBSET (1..m.size) :
             LET selected == IF child.turn # child.minute THEN 1..m.size ELSE chosen
             IN /\ child' = [child EXCEPT !.stage = "quotes", !.rows = RowsAfter(m),
                                          !.quotes = QuotesAfter(m), !.selected = selected]
                /\ Say([kind |-> "capture", token |-> child.token, epoch |-> child.epoch,
                        what |-> "quotes", indices |-> selected])

\* The round is computed from the mirrors: "view" is what it is computed from.
ChildAnswers ==
    LET quotes == Updated(child.quotes, toChild.delta)
    IN /\ child.stage = "quotes"
       /\ ChildGets("quotes")
       /\ child.selected \subseteq DOMAIN quotes
       /\ child' = [child EXCEPT !.stage = "idle", !.quotes = quotes, !.minute = child.turn,
                                 !.sequence = child.next, !.synchronized = TRUE]
       /\ Say([kind |-> "round", token |-> child.token, epoch |-> child.epoch,
               resync |-> FALSE, sequence |-> child.next, ok |-> TRUE,
               view |-> [rows |-> child.rows, table |-> child.table,
                         quotes |-> Restrict(quotes, child.selected)]])

\* A round is given up: it does not fit, or an exception ends it at any point.
ChildGivesUp ==
    /\ \/ /\ child.stage = "idle" /\ ChildGets("round")
       \/ /\ child.stage = "directory" /\ ChildGets("directory")
       \/ /\ child.stage = "quotes" /\ ChildGets("quotes")
    /\ child' = IF toChild.kind = "round" /\ ~toChild.full /\ ~InStep(toChild) THEN child
                ELSE [child EXCEPT !.stage = "idle", !.synchronized = FALSE]
    /\ ResyncRequired(toChild.token)

\* The statistics are computed, or computing them raises.
ChildCountsStatistics ==
    /\ child.stage = "idle"
    /\ ChildGets("statistics")
    /\ Say([kind |-> "statistics", token |-> toChild.token, epoch |-> child.epoch])
    /\ UNCHANGED child

\* The process ends; replies it has not got rid of are lost.
ChildDies ==
    /\ child.stage # "dead"
    /\ child' = DeadChild
    /\ toParent' \in {toParent, <<>>}
    /\ UNCHANGED <<workerVars, roundVars, captureVars, mirrorVars, toChild>>

---------------------------------------------------------------------------
(* The replies, as _receive_message takes them in. *)

\* Mutant of Current: replies of an earlier worker are taken in.
CurrentAnyEpoch(m) == m.kind \in {"capture", "round"} => m.token = serial /\ context # NoRound

Current(m) ==
    /\ m.epoch = epoch
    /\ m.kind \in {"capture", "round"} => m.token = serial /\ context # NoRound

Received(m) ==
    /\ toParent # <<>>
    /\ m = Head(toParent)
    /\ toParent' = Tail(toParent)
    /\ UNCHANGED <<epoch, restarts, serial, request, broken, sequence, mirror, toChild,
                   child>>

IgnoreReply ==
    /\ toParent # <<>>
    /\ ~Current(Head(toParent))
    /\ toParent' = Tail(toParent)
    /\ UNCHANGED <<workerVars, roundVars, captureVars, mirrorVars, toChild, child>>

ReceiveReady ==
    LET m == Head(toParent)
    IN /\ Received(m) /\ Current(m)
       /\ m.kind = "ready"
       /\ mode' = IF mode = "closing" THEN mode ELSE "ready"
       /\ UNCHANGED <<active, context, capture, resync>>

ReceiveCapture ==
    LET m == Head(toParent)
    IN /\ toParent # <<>>
       /\ toParent' = Tail(toParent)
       /\ Current(m)
       /\ m.kind = "capture"
       /\ capture' = m.what
       /\ request' = m.indices
       /\ UNCHANGED <<workerVars, roundVars, broken, mirrorVars, toChild, child>>

\* Mutant of NeedsResync: what the reply says is not looked at.
NeedsResyncNever(m) == FALSE

NeedsResync(m) == m.resync \/ m.sequence # sequence

ReceiveRound ==
    LET m == Head(toParent)
    IN /\ Received(m) /\ Current(m)
       /\ m.kind = "round"
       /\ resync' = NeedsResync(m)
       /\ active' = "none"
       /\ context' = NoRound
       /\ UNCHANGED <<mode, capture>>

ReceiveStatistics ==
    LET m == Head(toParent)
    IN /\ Received(m) /\ Current(m)
       /\ m.kind = "statistics"
       /\ active' = IF m.token = serial THEN "none" ELSE active
       /\ UNCHANGED <<mode, context, capture, resync>>

---------------------------------------------------------------------------
(* Supervision. *)

\* _failed begins: the process has gone, the transport is broken, the work or
\* the start has taken too long, or the process has grown too big.
Fail ==
    /\ mode \in {"starting", "ready"}
    /\ mode' = "failing"
    /\ epoch' = epoch + 1
    /\ UNCHANGED <<restarts, roundVars, captureVars, mirrorVars, toChild, toParent, child>>

\* Mutant of Released: whoever waits for the round is left waiting.
ReleasedNever == active

\* _failed and _shutdown resolve the future of the request under way.
Released == "none"

\* _dispose_owned: the process is terminated and the queues are closed.
Dispose ==
    /\ epoch' = epoch + 1
    /\ child' = DeadChild
    /\ toChild' = NoMessage
    /\ mirror' = FreshMirror
    /\ resync' = TRUE
    /\ capture' = "idle"
    /\ context' = NoRound
    /\ active' = Released
    /\ UNCHANGED <<serial, request, broken, sequence, toParent>>

\* _failed ends; running out of memory or of restarts disables the worker.
FinishFail ==
    /\ mode = "failing"
    /\ Dispose
    /\ mode' \in {"disabled"} \union {m \in {"waiting"} : restarts < MaxRestarts}
    /\ UNCHANGED restarts

\* The backoff is over: _spawn.
Spawn ==
    /\ mode = "waiting"
    /\ mode' = "starting"
    /\ restarts' = restarts + 1
    /\ epoch' = epoch + 1
    /\ child' = FreshChild(epoch + 1)
    /\ broken' = FALSE
    /\ UNCHANGED <<roundVars, capture, request, mirrorVars, toChild, toParent>>

\* aclose: nothing new is accepted, and the supervisor stops.
Close ==
    /\ mode \notin {"closing", "closed"}
    /\ mode' = "closing"
    /\ UNCHANGED <<epoch, restarts, roundVars, captureVars, mirrorVars, toChild, toParent,
                   child>>

\* _shutdown: the request under way is done, or the grace period is over.
Shutdown ==
    /\ mode = "closing"
    /\ Dispose
    /\ mode' = "closed"
    /\ UNCHANGED restarts

---------------------------------------------------------------------------
Init ==
    /\ mode = "starting" /\ epoch = 1 /\ restarts = 0
    /\ serial = 0 /\ active = "none" /\ context = NoRound
    /\ capture = "idle" /\ request = {} /\ broken = FALSE
    /\ resync = TRUE /\ sequence = 0 /\ mirror = FreshMirror
    /\ toChild = NoMessage /\ toParent = <<>>
    /\ child = FreshChild(1)

Request == (\E s \in Snapshots : Submit(s)) \/ Statistics

Send == SendThresholds \/ SendDirectory \/ SendQuotes \/ CaptureFails

ChildStep ==
    \/ ChildReady \/ ChildBeginsRound \/ ChildTakesDirectory
    \/ ChildAnswers \/ ChildGivesUp \/ ChildCountsStatistics \/ ChildDies

Receive ==
    IgnoreReply \/ ReceiveReady \/ ReceiveCapture \/ ReceiveRound \/ ReceiveStatistics

Supervise == Fail \/ FinishFail \/ Spawn \/ Close \/ Shutdown

Next == Request \/ Send \/ ChildStep \/ Receive \/ Supervise

\* A request that stays under way runs into the work timeout; disposing of a
\* worker and shutting down are bounded by their deadlines.
Fairness ==
    /\ WF_vars(active # "none" /\ Fail)
    /\ WF_vars(FinishFail)
    /\ WF_vars(Shutdown)

Spec == Init /\ [][Next]_vars /\ Fairness

---------------------------------------------------------------------------
(* Properties. *)

\* A round the parent will publish was computed from its own snapshot: every
\* row, the id table and every quote the child selected are those of the
\* snapshot whose opportunities it annotates, whatever was sent as a difference
\* before, failed part-way or belonged to an earlier worker.
AnswerFitsSnapshot ==
    \A n \in DOMAIN toParent :
        LET m == toParent[n]
        IN m.kind = "round" /\ Current(m) /\ m.ok =>
              /\ m.view.rows = context.rows
              /\ m.view.table = context.table
              /\ \A i \in DOMAIN m.view.quotes : m.view.quotes[i] = context.quotes[i]

\* Between rounds, unless a resync is due, the parent's mirrors are exactly
\* what the live child holds, so that a difference can be applied.
MirrorsAgree ==
    mode = "ready" /\ active = "none" /\ ~resync /\ child.stage # "dead" =>
        /\ child.stage = "idle" /\ child.synchronized
        /\ child.sequence = sequence
        /\ child.rows = mirror.rows
        /\ child.quotes = mirror.quotes
        /\ child.table = mirror.table

\* The child never has to refuse a difference: whatever failed in a round, the
\* parent learns of it before it sends the next one.
DifferencesApply ==
    child.stage = "idle" /\ toChild.kind = "round" /\ ~toChild.full => InStep(toChild)

\* put_nowait never finds the queue of one message full: a capture is only due
\* once the child has taken the previous message.
QueueNeverFull == capture # "idle" => toChild = NoMessage

\* Rounds are only accepted for a worker that has reported ready in this epoch.
ReadyIsThisWorker == mode = "ready" /\ child.stage # "dead" =>
                        child.epoch = epoch /\ child.stage # "starting"

\* Whoever waits for a round or for statistics is answered in the end, by the
\* child, by the supervisor or by the shutdown.
EveryRequestAnswered == active # "none" ~> active = "none"
=============================================================================
