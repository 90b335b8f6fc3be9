------------------------------ MODULE GateTwap ------------------------------
(***************************************************************************)
(* The Gate TWAP jobs of services/gate_twap.py: a plan of market orders    *)
(* that reduce one futures position slice by slice, and the tasks that     *)
(* run the plans, with cancellation, lost answers and the shutdown.        *)
(*                                                                         *)
(* Sizes are whole numbers of the contract's smallest decimal.  The model  *)
(* has no clock: a task may be asleep before any slice for as long as it   *)
(* likes (and a plan that starts in the past does not sleep at all).       *)
(***************************************************************************)
EXTENDS Naturals, Sequences, FiniteSets, FiniteSetsExt

CONSTANTS
    Jobs,             \* ids the manager may give to jobs
    Requests,         \* the requests a user may start: see RequestType
    NoRequest         \* the request of an id that is not in use

RequestType ==
    [live : BOOLEAN,               \* live and confirm_live; else a dry run
     count : Nat,                  \* whole intervals in the duration
     percent : 1..100,
     mode : {"initial", "remaining"},
     last_order_all : BOOLEAN,
     initial : Nat,                \* initial_size, or the position as read
     min : Nat \ {0}, step : Nat \ {0}]   \* the contract's rules: the step is
                                          \* the last decimal place of the minimum

ASSUME TwapAssumption ==
    /\ Requests \subseteq RequestType /\ NoRequest \notin Requests
    /\ \A rq \in Requests : rq.min % rq.step = 0

VARIABLES
    request,          \* job -> its request
    state,            \* job -> GateTwapJobStatus.state; "none" before start()
    task,             \* job -> its asyncio task: created, running, waiting for
                      \*        an answer, cancelling, done
    next,             \* job -> the slice it is at
    counted,          \* job -> the slices in completed_orders (and in the total)
    skipped,          \* job -> the slices in skipped_orders
    wire,             \* job -> the slice whose request is on its way, or 0
    arrived,          \* job -> the slices whose orders the exchange has taken
    closing,          \* aclose() has begun
    closed,           \* the HTTP client is closed
    cancelled         \* history: the jobs a user has cancelled

vars == <<request, state, task, next, counted, skipped, wire, arrived,
          closing, closed, cancelled>>

-----------------------------------------------------------------------------
(* The plan.                                                               *)

SmallerOf(m, n) == IF m < n THEN m ELSE n

(* floor_order_size of a size given in hundredths: whole steps of at least *)
(* the minimum, or nothing.                                                *)
FloorOrderSize(hundredths, rq) ==
    LET floored == (hundredths \div (100 * rq.step)) * rq.step
    IN IF floored >= rq.min THEN floored ELSE 0

(* Mutant of OrderSize: a slice is not cut to what is left.                *)
OrderSizeUncut(rq, index, remaining) ==
    LET raw == (IF rq.mode = "remaining" THEN remaining ELSE rq.initial) * rq.percent
    IN FloorOrderSize(raw, rq)

(* The order of a slice in build_plan; 0 is a slice that is skipped.       *)
OrderSize(rq, index, remaining) ==
    LET raw == IF rq.last_order_all /\ index = rq.count THEN remaining * 100
               ELSE (IF rq.mode = "remaining" THEN remaining ELSE rq.initial) * rq.percent
    IN FloorOrderSize(SmallerOf(raw, remaining * 100), rq)

(* What is left of the position after each slice of the plan.              *)
RemainingAfter(rq) ==
    LET left[i \in 0..rq.count] ==
          IF i = 0 THEN rq.initial
          ELSE LET order == OrderSize(rq, i, left[i - 1])
               IN IF order > left[i - 1] THEN 0 ELSE left[i - 1] - order
    IN left

Plan(rq) == [i \in 1..rq.count |-> OrderSize(rq, i, RemainingAfter(rq)[i - 1])]

Size(j, i) == Plan(request[j])[i]

-----------------------------------------------------------------------------
Init ==
    /\ request = [j \in Jobs |-> NoRequest]
    /\ state = [j \in Jobs |-> "none"]
    /\ task = [j \in Jobs |-> "none"]
    /\ next = [j \in Jobs |-> 1]
    /\ counted = [j \in Jobs |-> {}]
    /\ skipped = [j \in Jobs |-> {}]
    /\ wire = [j \in Jobs |-> 0]
    /\ arrived = [j \in Jobs |-> {}]
    /\ closing = FALSE /\ closed = FALSE
    /\ cancelled = {}

(* start(): the position has been read and the plan made; the task exists  *)
(* but has not run yet.  A read that fails leaves nothing behind.          *)
Start(j) ==
    /\ state[j] = "none" /\ ~closing
    /\ \E rq \in Requests : request' = [request EXCEPT ![j] = rq]
    /\ state' = [state EXCEPT ![j] = "queued"]
    /\ task' = [task EXCEPT ![j] = "created"]
    /\ UNCHANGED <<next, counted, skipped, wire, arrived, closing, closed, cancelled>>

(* _run gets the event loop for the first time.                            *)
Begin(j) ==
    /\ task[j] = "created"
    /\ task' = [task EXCEPT ![j] = "running"]
    /\ state' = [state EXCEPT ![j] = "running"]
    /\ UNCHANGED <<request, next, counted, skipped, wire, arrived, closing, closed, cancelled>>

AtSlice(j) == task[j] = "running" /\ next[j] <= request[j].count

Skip(j) ==
    /\ AtSlice(j) /\ Size(j, next[j]) = 0
    /\ skipped' = [skipped EXCEPT ![j] = @ \cup {next[j]}]
    /\ next' = [next EXCEPT ![j] = @ + 1]
    /\ UNCHANGED <<request, state, task, counted, wire, arrived, closing, closed, cancelled>>

DryOrder(j) ==
    /\ AtSlice(j) /\ Size(j, next[j]) > 0 /\ ~request[j].live
    /\ counted' = [counted EXCEPT ![j] = @ \cup {next[j]}]
    /\ next' = [next EXCEPT ![j] = @ + 1]
    /\ UNCHANGED <<request, state, task, skipped, wire, arrived, closing, closed, cancelled>>

(* The order of a slice is posted; the task waits for the answer.          *)
Send(j) ==
    /\ AtSlice(j) /\ Size(j, next[j]) > 0 /\ request[j].live
    /\ task' = [task EXCEPT ![j] = "waiting"]
    /\ wire' = [wire EXCEPT ![j] = next[j]]
    /\ UNCHANGED <<request, state, next, counted, skipped, arrived, closing, closed, cancelled>>

(* Mutant of Sent: an answer that does not come counts as an order, too.   *)
SentAnyway(j) == task[j] = "waiting"

(* The exchange has taken the order and its answer is there.               *)
Sent(j) == task[j] = "waiting" /\ next[j] \in arrived[j]

Answered(j) ==
    /\ Sent(j)
    /\ counted' = [counted EXCEPT ![j] = @ \cup {next[j]}]
    /\ next' = [next EXCEPT ![j] = @ + 1]
    /\ task' = [task EXCEPT ![j] = "running"]
    /\ UNCHANGED <<request, state, skipped, wire, arrived, closing, closed, cancelled>>

(* A rejection, a timeout or a lost answer: the job ends, and whether the  *)
(* order was taken remains open.  No order is sent a second time.          *)
SendFails(j) ==
    /\ task[j] = "waiting"
    /\ task' = [task EXCEPT ![j] = "done"]
    /\ state' = [state EXCEPT ![j] = "failed"]
    /\ UNCHANGED <<request, next, counted, skipped, wire, arrived, closing, closed, cancelled>>

Complete(j) ==
    /\ task[j] = "running" /\ next[j] > request[j].count
    /\ task' = [task EXCEPT ![j] = "done"]
    /\ state' = [state EXCEPT ![j] = "completed"]
    /\ UNCHANGED <<request, next, counted, skipped, wire, arrived, closing, closed, cancelled>>

-----------------------------------------------------------------------------
(* The exchange and the network.                                           *)

Arrive(j) ==
    /\ wire[j] # 0
    /\ arrived' = [arrived EXCEPT ![j] = @ \cup {wire[j]}]
    /\ wire' = [wire EXCEPT ![j] = 0]
    /\ UNCHANGED <<request, state, task, next, counted, skipped, closing, closed, cancelled>>

Lost(j) ==
    /\ wire[j] # 0
    /\ wire' = [wire EXCEPT ![j] = 0]
    /\ UNCHANGED <<request, state, task, next, counted, skipped, arrived, closing, closed, cancelled>>

-----------------------------------------------------------------------------
(* Cancellation and shutdown.                                              *)

Unfinished(j) == task[j] \in {"created", "running", "waiting"}

(* Mutant of TaskCancelled: a task that has not run yet is not reached.    *)
TaskCancelledIfRunning(j) ==
    IF task[j] \in {"running", "waiting"} THEN "cancelling" ELSE task[j]

TaskCancelled(j) == IF Unfinished(j) THEN "cancelling" ELSE task[j]

(* Mutant of Known: an id without a job is labelled, too.                  *)
KnownOrNot(j) == TRUE

Known(j) == state[j] # "none"

(* cancel(): the job is labelled whatever state it was in, also one that   *)
(* has completed or failed.                                                *)
Cancel(j) ==
    /\ Known(j) /\ j \notin cancelled /\ ~closing
    /\ task' = [task EXCEPT ![j] = TaskCancelled(j)]
    /\ state' = [state EXCEPT ![j] = "cancelled"]
    /\ cancelled' = cancelled \cup {j}
    /\ UNCHANGED <<request, next, counted, skipped, wire, arrived, closing, closed>>

(* The CancelledError reaches the task: whatever answer it waited for is   *)
(* dropped; the request itself may still be on its way.                    *)
Unwind(j) ==
    /\ task[j] = "cancelling"
    /\ task' = [task EXCEPT ![j] = "done"]
    /\ state' = [state EXCEPT ![j] = "cancelled"]
    /\ UNCHANGED <<request, next, counted, skipped, wire, arrived, closing, closed, cancelled>>

(* aclose(): cancels every task and waits for each of them.                *)
Close ==
    /\ ~closing
    /\ closing' = TRUE
    /\ task' = [j \in Jobs |-> TaskCancelled(j)]
    /\ state' = [j \in Jobs |->
                   IF Unfinished(j) /\ state[j] \in {"queued", "running"}
                   THEN "cancelled" ELSE state[j]]
    /\ UNCHANGED <<request, next, counted, skipped, wire, arrived, closed, cancelled>>

CloseClient ==
    /\ closing /\ ~closed /\ \A j \in Jobs : task[j] \in {"none", "done"}
    /\ closed' = TRUE
    /\ UNCHANGED <<request, state, task, next, counted, skipped, wire, arrived, closing, cancelled>>

JobStep(j) ==
    \/ Start(j) \/ Begin(j) \/ Skip(j) \/ DryOrder(j) \/ Send(j) \/ Answered(j)
    \/ SendFails(j) \/ Complete(j) \/ Arrive(j) \/ Lost(j) \/ Cancel(j) \/ Unwind(j)

Next == (\E j \in Jobs : JobStep(j)) \/ Close \/ CloseClient

Spec == Init /\ [][Next]_vars

-----------------------------------------------------------------------------
(* Properties.                                                             *)

TypeOK ==
    /\ request \in [Jobs -> Requests \cup {NoRequest}]
    /\ state \in [Jobs -> {"none", "queued", "running", "completed", "failed", "cancelled"}]
    /\ task \in [Jobs -> {"none", "created", "running", "waiting", "cancelling", "done"}]
    /\ next \in [Jobs -> Nat \ {0}]
    /\ counted \in [Jobs -> SUBSET Nat] /\ skipped \in [Jobs -> SUBSET Nat]
    /\ wire \in [Jobs -> Nat] /\ arrived \in [Jobs -> SUBSET Nat]
    /\ closing \in BOOLEAN /\ closed \in BOOLEAN /\ cancelled \subseteq Jobs
    /\ \A j \in Jobs : (state[j] = "none") <=> (request[j] = NoRequest)

(* What completed_orders says against what the exchange has taken: every   *)
(* counted live order was taken, and at most one order, the last one sent, *)
(* was or will be taken without being counted - and then the job is not    *)
(* one that runs on or completed.  Cancelling, failing and late arrivals   *)
(* all meet in this (_run and cancel).                                     *)
OrdersAccounted ==
    \A j \in Jobs :
        LET open == (arrived[j] \cup ({wire[j]} \ {0})) \ counted[j]
        IN /\ (state[j] # "none" /\ request[j].live) => counted[j] \subseteq arrived[j]
           /\ open \subseteq {next[j]}
           /\ state[j] = "completed" => open = {}

Taken(j) == MapThenSumSet(LAMBDA i : Size(j, i), arrived[j])

(* A job never takes more than the size it was planned for, and a live job *)
(* shown as completed that clears the rest with its last order has left    *)
(* less than one order of the minimum size (build_plan with _run).         *)
ReducesAsPlanned ==
    \A j \in Jobs : state[j] # "none" =>
        LET rq == request[j]
        IN /\ Taken(j) <= rq.initial
           /\ (state[j] = "completed" /\ rq.live /\ rq.last_order_all /\ rq.count > 0)
                => rq.initial - Taken(j) < rq.min

(* Once a user has cancelled a job, or the shutdown has begun, the job     *)
(* sends no further order, whatever it was doing and also when its task    *)
(* had not run at all yet.                                                 *)
CancelledSendsNothing ==
    [][\A j \in Jobs : (wire'[j] # wire[j] /\ wire'[j] # 0)
                       => j \notin cancelled /\ ~closing]_vars
=============================================================================
