--------------------------- MODULE TaskSupervisor ---------------------------
(***************************************************************************)
(* The supervisor of background tasks, runtime/supervisor.py.              *)
(*                                                                         *)
(* A task runs its coroutine and ends when that returns.  When it raises,  *)
(* the task is shown as failed for the first second and as backing off for *)
(* the rest of a delay that doubles from start to start, and goes back to  *)
(* the initial delay when the run that failed had reported a good          *)
(* iteration (beat).  stop() cancels every task and waits until all of     *)
(* them have ended.  The probes started without restart are left out.      *)
(***************************************************************************)
EXTENDS Naturals

CONSTANTS
    Tasks,            \* the tasks started with restart=True
    InitialBackoff,   \* initial_backoff
    MaxBackoff,       \* max_backoff
    MaxFailures       \* bound: failures in a row without a good iteration

ASSUME SupervisorAssumption ==
    /\ InitialBackoff \in Nat \ {0} /\ MaxBackoff \in Nat
    /\ MaxBackoff >= InitialBackoff
    /\ MaxFailures \in Nat

VARIABLES
    state,            \* task -> TaskStatus.state, what the health page shows
    alive,            \* task -> its asyncio task has not ended
    delay,            \* task -> the local `delay` of _run
    left,             \* task -> what is left of the sleep it is in
    beaten,           \* task -> last_ok_at has moved since the last start
    stopping,         \* _stopping
    stopped,          \* stop() has returned
    failures,         \* history: task -> failures since its last good iteration
    waited            \* history: task -> time since the failure it waits after

taskVars == <<state, alive, delay, left, beaten, stopping, stopped, failures, waited>>

Smaller(m, n) == IF m < n THEN m ELSE n

SupervisorInit ==
    /\ state = [t \in Tasks |-> "stopped"]
    /\ alive = [t \in Tasks |-> TRUE]
    /\ delay = [t \in Tasks |-> InitialBackoff]
    /\ left = [t \in Tasks |-> 0]
    /\ beaten = [t \in Tasks |-> FALSE]
    /\ stopping = FALSE /\ stopped = FALSE
    /\ failures = [t \in Tasks |-> 0]
    /\ waited = [t \in Tasks |-> 0]

Running(t) == alive[t] /\ state[t] = "running" /\ ~stopping

-----------------------------------------------------------------------------
(* One task.                                                               *)

(* The task created by start() gets the event loop for the first time.     *)
Launch(t) ==
    /\ alive[t] /\ state[t] = "stopped" /\ ~stopping
    /\ state' = [state EXCEPT ![t] = "running"]
    /\ UNCHANGED <<alive, delay, left, beaten, stopping, stopped, failures, waited>>

(* beat(name, ok): a completed iteration, good or not.                     *)
Beat(t, ok) ==
    /\ Running(t)
    /\ beaten' = [beaten EXCEPT ![t] = @ \/ ok]
    /\ failures' = [failures EXCEPT ![t] = IF ok THEN 0 ELSE @]
    /\ UNCHANGED <<state, alive, delay, left, stopping, stopped, waited>>

(* Mutant of DelayNow: a good iteration does not reset the delay.          *)
DelayNowKept(t) == delay[t]

DelayNow(t) == IF beaten[t] THEN InitialBackoff ELSE delay[t]

(* The coroutine raises.                                                   *)
Fail(t) ==
    /\ Running(t) /\ failures[t] < MaxFailures
    /\ state' = [state EXCEPT ![t] = "failed"]
    /\ failures' = [failures EXCEPT ![t] = @ + 1]
    /\ delay' = [delay EXCEPT ![t] = DelayNow(t)]
    /\ left' = [left EXCEPT ![t] = Smaller(1, DelayNow(t))]
    /\ beaten' = [beaten EXCEPT ![t] = FALSE]
    /\ UNCHANGED <<alive, stopping, stopped, waited>>

(* The coroutine returns: the task is not started again.                   *)
Return(t) ==
    /\ Running(t)
    /\ state' = [state EXCEPT ![t] = "stopped"]
    /\ alive' = [alive EXCEPT ![t] = FALSE]
    /\ UNCHANGED <<delay, left, beaten, stopping, stopped, failures, waited>>

(* The first second is over; the rest of the same delay is "backoff".      *)
ShowBackoff(t) ==
    /\ alive[t] /\ state[t] = "failed" /\ left[t] = 0 /\ ~stopping
    /\ state' = [state EXCEPT ![t] = "backoff"]
    /\ left' = [left EXCEPT ![t] = delay[t] - Smaller(1, delay[t])]
    /\ UNCHANGED <<alive, delay, beaten, stopping, stopped, failures, waited>>

NextDelay(t) == Smaller(MaxBackoff, 2 * delay[t])

Restart(t) ==
    /\ alive[t] /\ state[t] = "backoff" /\ left[t] = 0 /\ ~stopping
    /\ state' = [state EXCEPT ![t] = "running"]
    /\ delay' = [delay EXCEPT ![t] = NextDelay(t)]
    /\ waited' = [waited EXCEPT ![t] = 0]
    /\ UNCHANGED <<alive, left, beaten, stopping, stopped, failures>>

-----------------------------------------------------------------------------
(* Shutdown.                                                               *)

(* stop() sets the flag and cancels every task before it awaits anything,  *)
(* so a task that was about to be restarted is cancelled instead.          *)
Stop ==
    /\ ~stopping
    /\ stopping' = TRUE
    /\ UNCHANGED <<state, alive, delay, left, beaten, stopped, failures, waited>>

(* The cancellation reaches a task.  Its coroutine may raise another       *)
(* exception on the way out, which _run shows as a failure and ends with.  *)
Cancelled(t) ==
    /\ stopping /\ alive[t]
    /\ alive' = [alive EXCEPT ![t] = FALSE]
    /\ \E last \in {"stopped"} \cup (IF state[t] = "running" THEN {"failed"} ELSE {}) :
         state' = [state EXCEPT ![t] = last]
    /\ left' = [left EXCEPT ![t] = 0]
    /\ UNCHANGED <<delay, beaten, stopping, stopped, failures, waited>>

(* gather() has every task.                                                *)
StopReturns ==
    /\ stopping /\ ~stopped /\ \A t \in Tasks : ~alive[t]
    /\ stopped' = TRUE
    /\ state' = [t \in Tasks |-> IF state[t] = "failed" THEN "failed" ELSE "stopped"]
    /\ UNCHANGED <<alive, delay, left, beaten, stopping, failures, waited>>

Asleep(t) == alive[t] /\ state[t] \in {"failed", "backoff"}

(* A unit of time; a sleep that is over ends before the next one.          *)
TaskTimePasses ==
    /\ \A t \in Tasks : Asleep(t) => left[t] > 0
    /\ left' = [t \in Tasks |-> IF Asleep(t) THEN left[t] - 1 ELSE left[t]]
    /\ waited' = [t \in Tasks |-> IF Asleep(t) THEN waited[t] + 1 ELSE waited[t]]
    /\ UNCHANGED <<state, alive, delay, beaten, stopping, stopped, failures>>

-----------------------------------------------------------------------------
(* Properties.                                                             *)

SupervisorTypeOK ==
    /\ state \in [Tasks -> {"running", "failed", "backoff", "stopped"}]
    /\ alive \in [Tasks -> BOOLEAN] /\ beaten \in [Tasks -> BOOLEAN]
    /\ delay \in [Tasks -> InitialBackoff..MaxBackoff]
    /\ left \in [Tasks -> 0..MaxBackoff] /\ waited \in [Tasks -> 0..MaxBackoff]
    /\ stopping \in BOOLEAN /\ stopped \in BOOLEAN
    /\ failures \in [Tasks -> 0..MaxFailures]

(* What a task has to wait after its n-th failure in a row:                *)
(* min(max, initial * 2^(n-1)).                                            *)
Doubled[n \in Nat] == IF n = 0 THEN InitialBackoff ELSE 2 * Doubled[n - 1]

BackoffAfter(n) == Smaller(MaxBackoff, Doubled[n - 1])

(* The policy of _run, seen from outside: a task starts again after its    *)
(* n-th failure without a good iteration in between exactly when           *)
(* min(max, initial * 2^(n-1)) has passed, whenever the good iterations    *)
(* before them came; and once stop() has begun no task starts again.       *)
RestartPacing ==
    [][\A t \in Tasks : (state[t] # "running" /\ state'[t] = "running") =>
         /\ ~stopping
         /\ failures[t] > 0 => waited[t] = BackoffAfter(failures[t])]_taskVars
=============================================================================
