----------------------- MODULE CollectorRuntimeProofs -----------------------
(***************************************************************************)
(* Proofs about CollectorRuntime for any exchanges, tasks and bounds:      *)
(* types (and nothing under way behind the closing of the clients), the    *)
(* pacing of restarts, that the cursor of the claims starves nobody and    *)
(* that a claim never outlives its round.                                  *)
(* Inductions over numbers are arguments about a least counterexample.     *)
(***************************************************************************)
EXTENDS CollectorRuntime, FiniteSetTheorems, WellFoundedInduction, TLAPS

---------------------------------------------------------------------------
(* The supervisor. *)

\* Where one task is in its delay, and how far the delay has doubled.
Paced(t) ==
    /\ alive[t] /\ state[t] \in {"stopped", "running"} => waited[t] = 0
    /\ alive[t] /\ state[t] = "failed" => waited[t] + left[t] = Smaller(1, delay[t])
    /\ alive[t] /\ state[t] = "backoff" => waited[t] + left[t] = delay[t]

Doubles(t) ==
    /\ alive[t] /\ state[t] = "stopped" => failures[t] = 0 /\ ~beaten[t]
    /\ alive[t] /\ state[t] \in {"failed", "backoff"} =>
         failures[t] > 0 /\ ~beaten[t] /\ delay[t] = BackoffAfter(failures[t])
    /\ alive[t] /\ state[t] \in {"stopped", "running"} =>
         IF beaten[t] THEN failures[t] = 0 ELSE delay[t] = BackoffAfter(failures[t] + 1)

SupervisorInv ==
    /\ SupervisorTypeOK
    /\ \A t \in Tasks : Paced(t) /\ Doubles(t)
    /\ stopped => stopping /\ \A t \in Tasks : ~alive[t]

\* Below is the order of the naturals.
Below == {p \in Nat \X Nat : p[1] < p[2]}

\* Sets of naturals have a least element: the argument by a least
\* counterexample, which needs no induction rule.
LEMMA LeastOf ==
    ASSUME NEW B \in SUBSET Nat, B # {}
    PROVE  \E n \in B : \A m \in B : n <= m
<1>1. IsWellFoundedOn(Below, Nat)
  BY NatLessThanWellFounded DEF OpToRel, Below
<1>2. PICK n \in B : \A m \in B : ~ (<<m, n>> \in Below)
  BY <1>1, WFMin
<1>3. ASSUME NEW m \in B PROVE n <= m
  <2>1. m \in Nat /\ n \in Nat /\ <<m, n>> \notin Below
    BY <1>2
  <2>2. ~(m < n)
    BY <2>1 DEF Below
  <2> QED
    BY <2>1, <2>2
<1> QED
  BY <1>3

\* f starts at the initial backoff and doubles, up to n.
DoublesTo(f, n) ==
    /\ f \in [0..n -> Nat]
    /\ f[0] = InitialBackoff
    /\ \A i \in 1..n : f[i] = 2 * f[i - 1]

LEMMA DoublingExists == \A n \in Nat : \E f : DoublesTo(f, n)
<1> DEFINE B == {n \in Nat : ~ \E f : DoublesTo(f, n)}
<1> SUFFICES ASSUME B # {} PROVE FALSE
  OBVIOUS
<1>1. PICK n \in B : \A m \in B : n <= m
  BY LeastOf
<1>2. CASE n = 0
  <2> DEFINE f == [i \in 0..0 |-> InitialBackoff]
  <2>1. DoublesTo(f, 0)
    BY SupervisorAssumption DEF DoublesTo
  <2> QED
    BY <1>2, <2>1
<1>3. CASE n > 0
  <2>1. n \in Nat /\ n - 1 \in Nat /\ n - 1 \notin B
    BY <1>1, <1>3
  <2>2. PICK f : DoublesTo(f, n - 1)
    BY <2>1
  <2> DEFINE g == [i \in 0..n |-> IF i = n THEN 2 * f[n - 1] ELSE f[i]]
  <2>3. \A i \in 0..n - 1 : g[i] = f[i] /\ f[i] \in Nat
    BY <2>1, <2>2 DEF DoublesTo
  <2>4. g[n] = 2 * g[n - 1] /\ g \in [0..n -> Nat]
    <3>1. n - 1 \in 0..n - 1 /\ n - 1 # n /\ n \in 0..n /\ n - 1 \in 0..n
      BY <2>1
    <3>2. g[n] = 2 * f[n - 1] /\ f[n - 1] \in Nat /\ g[n - 1] = f[n - 1]
      BY <2>3, <3>1
    <3>3. ASSUME NEW i \in 0..n PROVE g[i] \in Nat
      <4>1. CASE i = n
        BY <3>2, <4>1
      <4>2. CASE i # n
        <5>1. i \in 0..n - 1
          BY <2>1, <4>2
        <5> QED
          BY <2>3, <5>1
      <4> QED
        BY <4>1, <4>2
    <3> QED
      BY <3>2, <3>3
  <2>5. ASSUME NEW i \in 1..n PROVE g[i] = 2 * g[i - 1]
    <3>1. CASE i = n
      BY <2>4, <3>1
    <3>2. CASE i # n
      <4>1. i \in 1..n - 1 /\ i \in 0..n - 1 /\ i - 1 \in 0..n - 1
        BY <2>1, <3>2
      <4> QED
        BY <2>2, <2>3, <4>1 DEF DoublesTo
    <3> QED
      BY <3>1, <3>2
  <2>6. g[0] = InitialBackoff
    BY <2>1, <2>2, <2>3 DEF DoublesTo
  <2>7. DoublesTo(g, n)
    BY <2>4, <2>5, <2>6 DEF DoublesTo
  <2> QED
    BY <2>7
<1> QED
  BY <1>1, <1>2, <1>3

\* Two that double agree where both are defined.
LEMMA DoublingAgrees ==
    ASSUME NEW m \in Nat, NEW n \in Nat, NEW f, NEW g, DoublesTo(f, m), DoublesTo(g, n),
           NEW i \in 0..m, i <= n
    PROVE  f[i] = g[i]
<1> DEFINE B == {k \in 0..i : f[k] # g[k]}
<1> SUFFICES ASSUME f[i] # g[i] PROVE FALSE
  OBVIOUS
<1>0. B \in SUBSET Nat /\ i \in B
  OBVIOUS
<1>1. PICK k \in B : \A j \in B : k <= j
  BY <1>0, LeastOf
<1>2. k # 0
  BY <1>1 DEF DoublesTo
<1>3. k \in 1..m /\ k \in 1..n /\ k - 1 \in 0..i /\ k - 1 \notin B
  BY <1>1, <1>2
<1> QED
  BY <1>1, <1>3 DEF DoublesTo

\* The recursive function exists and is what its definition says.
LEMMA DoubledValues ==
    /\ Doubled[0] = InitialBackoff
    /\ \A n \in Nat \ {0} : Doubled[n] = 2 * Doubled[n - 1]
    /\ \A n \in Nat : Doubled[n] \in Nat
<1> DEFINE F(n) == CHOOSE f : DoublesTo(f, n)
           h == [n \in Nat |-> F(n)[n]]
<1>1. ASSUME NEW n \in Nat PROVE DoublesTo(F(n), n)
  BY DoublingExists
<1>3. ASSUME NEW n \in Nat \ {0} PROVE h[n] = 2 * h[n - 1]
  <2>1. DoublesTo(F(n), n) /\ DoublesTo(F(n - 1), n - 1) /\ n - 1 \in Nat
    BY <1>1
  <2> HIDE DEF F
  <2>2. F(n)[n - 1] = F(n - 1)[n - 1]
    BY <2>1, DoublingAgrees
  <2>3. n \in 1..n
    OBVIOUS
  <2>4. F(n)[n] = 2 * F(n)[n - 1]
    BY <2>1, <2>3 DEF DoublesTo
  <2> QED
    BY <2>1, <2>2, <2>4
<1>4. h[0] = InitialBackoff
  <2>1. DoublesTo(F(0), 0)
    BY <1>1
  <2> HIDE DEF F
  <2> QED
    BY <2>1 DEF DoublesTo
<1> HIDE DEF F
<1>5. h = [n \in Nat |-> IF n = 0 THEN InitialBackoff ELSE 2 * h[n - 1]]
  BY <1>3, <1>4
<1>6. Doubled = [n \in Nat |-> IF n = 0 THEN InitialBackoff ELSE 2 * Doubled[n - 1]]
  <2> HIDE DEF h
  <2> QED
    BY <1>5 DEF Doubled
<1>7. /\ Doubled[0] = InitialBackoff
      /\ \A n \in Nat \ {0} : Doubled[n] = 2 * Doubled[n - 1]
  <2> DEFINE d == Doubled
  <2>1. d = [n \in Nat |-> IF n = 0 THEN InitialBackoff ELSE 2 * d[n - 1]]
    BY <1>6
  <2> HIDE DEF d
  <2>2. /\ d[0] = InitialBackoff
        /\ \A n \in Nat \ {0} : d[n] = 2 * d[n - 1]
    BY <2>1
  <2> QED
    BY <2>2 DEF d
<1>8. ASSUME NEW n \in Nat PROVE Doubled[n] \in Nat
  <2> DEFINE B == {k \in Nat : Doubled[k] \notin Nat}
  <2> SUFFICES ASSUME B # {} PROVE FALSE
    OBVIOUS
  <2>1. PICK k \in B : \A j \in B : k <= j
    BY LeastOf
  <2>2. k # 0
    BY <1>7, <2>1, SupervisorAssumption
  <2>3. k - 1 \in Nat /\ k - 1 \notin B /\ k \in Nat \ {0}
    BY <2>1, <2>2
  <2>4. Doubled[k - 1] \in Nat
    BY <2>3
  <2>5. Doubled[k] = 2 * Doubled[k - 1]
    BY <1>7, <2>3
  <2> QED
    BY <2>1, <2>4, <2>5
<1> QED
  BY <1>7, <1>8

\* The delay after one failure, and how it goes on.
LEMMA BackoffDoubles ==
    /\ BackoffAfter(1) = InitialBackoff
    /\ \A n \in Nat \ {0} : BackoffAfter(n + 1) = Smaller(MaxBackoff, 2 * BackoffAfter(n))
<1>1. BackoffAfter(1) = InitialBackoff
  BY DoubledValues, SupervisorAssumption DEF BackoffAfter, Smaller
<1>2. ASSUME NEW n \in Nat \ {0}
      PROVE  BackoffAfter(n + 1) = Smaller(MaxBackoff, 2 * BackoffAfter(n))
  <2>1. /\ Doubled[n] = 2 * Doubled[n - 1] /\ Doubled[n - 1] \in Nat
        /\ (n + 1) - 1 = n
    BY DoubledValues
  <2> QED
    BY <2>1, SupervisorAssumption DEF BackoffAfter, Smaller
<1> QED
  BY <1>1, <1>2

\* What a step of the collector runtime does to the supervisor.
TaskStep ==
    \/ \E t \in Tasks : \/ Launch(t) \/ Fail(t) \/ ShowBackoff(t) \/ Restart(t)
                        \/ Return(t) \/ Cancelled(t) \/ \E ok \in BOOLEAN : Beat(t, ok)
    \/ Stop \/ StopReturns \/ TaskTimePasses
    \/ UNCHANGED taskVars

LEMMA TaskSteps == [Next]_vars => TaskStep
<1> SUFFICES ASSUME [Next]_vars PROVE TaskStep
  OBVIOUS
<1>1. CASE Round
  BY <1>1, CollectorAssumption DEF Round, InCollector, RoundReported, TaskStep
<1>2. CASE ~stopping /\ EditIgnored /\ UNCHANGED <<taskVars, closed>>
  BY <1>2 DEF TaskStep
<1>3. CASE Supervision /\ UNCHANGED <<pollVars, closed>>
  BY <1>3 DEF Supervision, TaskStep, Others
<1>4. CASE Stop /\ UNCHANGED <<pollVars, closed>>
  BY <1>4 DEF TaskStep
<1>5. CASE CollectorCancelled
  BY <1>5, CollectorAssumption DEF CollectorCancelled, TaskStep
<1>6. CASE Close \/ UNCHANGED vars
  BY <1>6 DEF Close, vars, TaskStep
<1>7. CASE Tick
  BY <1>7 DEF Tick, TaskStep
<1> QED
  BY <1>1, <1>2, <1>3, <1>4, <1>5, <1>6, <1>7 DEF Next

\* A step that leaves a task alone keeps what it has of the invariant.
LEMMA QuietTask ==
    ASSUME NEW t \in Tasks, Paced(t), Doubles(t),
           alive'[t] = alive[t], state'[t] = state[t], delay'[t] = delay[t],
           left'[t] = left[t], beaten'[t] = beaten[t], failures'[t] = failures[t],
           waited'[t] = waited[t]
    PROVE  Paced(t)' /\ Doubles(t)'
  BY DEF Paced, Doubles, BackoffAfter

LEMMA InitSupervisor == SupervisorInit => SupervisorInv
<1> SUFFICES ASSUME SupervisorInit PROVE SupervisorInv
  OBVIOUS
<1> USE SupervisorAssumption
<1>1. SupervisorTypeOK
  <2>1. /\ state \in [Tasks -> {"running", "failed", "backoff", "stopped"}]
        /\ alive \in [Tasks -> BOOLEAN] /\ beaten \in [Tasks -> BOOLEAN]
        /\ stopping \in BOOLEAN /\ stopped \in BOOLEAN
    BY DEF SupervisorInit
  <2>2. InitialBackoff \in InitialBackoff..MaxBackoff /\ 0 \in 0..MaxBackoff /\ 0 \in 0..MaxFailures
    OBVIOUS
  <2>3. /\ delay \in [Tasks -> InitialBackoff..MaxBackoff]
        /\ left \in [Tasks -> 0..MaxBackoff] /\ waited \in [Tasks -> 0..MaxBackoff]
        /\ failures \in [Tasks -> 0..MaxFailures]
    BY <2>2 DEF SupervisorInit
  <2> QED
    BY <2>1, <2>3 DEF SupervisorTypeOK
<1>2. ASSUME NEW t \in Tasks PROVE Paced(t) /\ Doubles(t)
  <2>1. /\ alive[t] = TRUE /\ state[t] = "stopped" /\ waited[t] = 0 /\ failures[t] = 0
        /\ beaten[t] = FALSE /\ delay[t] = InitialBackoff
    BY DEF SupervisorInit
  <2> QED
    BY <2>1, BackoffDoubles DEF Paced, Doubles
<1>3. ~stopped
  BY DEF SupervisorInit
<1> QED
  BY <1>1, <1>2, <1>3 DEF SupervisorInv

\* What the invariant says of the numbers of one task.
LEMMA TaskTypes ==
    ASSUME SupervisorInv, NEW t \in Tasks
    PROVE  /\ Paced(t) /\ Doubles(t)
           /\ state[t] \in {"running", "failed", "backoff", "stopped"}
           /\ alive[t] \in BOOLEAN /\ beaten[t] \in BOOLEAN
           /\ delay[t] \in Nat /\ InitialBackoff <= delay[t] /\ delay[t] <= MaxBackoff
           /\ left[t] \in Nat /\ waited[t] \in Nat /\ failures[t] \in Nat
           /\ InitialBackoff \in Nat \ {0} /\ MaxBackoff \in Nat
  BY SupervisorAssumption DEF SupervisorInv, SupervisorTypeOK

LEMMA StepSupervisor == SupervisorInv /\ TaskStep => SupervisorInv'
<1> SUFFICES ASSUME SupervisorInv, TaskStep PROVE SupervisorInv'
  OBVIOUS
<1>0. SupervisorTypeOK
  BY DEF SupervisorInv
<1>T. \A t \in Tasks : Paced(t) /\ Doubles(t)
  BY DEF SupervisorInv
<1>1. ASSUME NEW t \in Tasks, Launch(t) PROVE SupervisorInv'
  <2>1. SupervisorTypeOK' /\ ~stopped'
    BY <1>0, <1>1 DEF Launch, SupervisorTypeOK, SupervisorInv
  <2>2. Paced(t)' /\ Doubles(t)'
    BY <1>0, <1>1, <1>T DEF Launch, SupervisorTypeOK, Paced, Doubles, BackoffAfter
  <2>3. ASSUME NEW u \in Tasks, u # t PROVE Paced(u)' /\ Doubles(u)'
    <3>1. /\ state'[u] = state[u]
          /\ UNCHANGED <<alive, delay, left, beaten, failures, waited, stopping>>
      BY <1>0, <1>1, <2>3 DEF Launch, SupervisorTypeOK
    <3> QED
      BY <1>T, <3>1, QuietTask
  <2> QED
    BY <2>1, <2>2, <2>3 DEF SupervisorInv
<1>2. ASSUME NEW t \in Tasks, NEW ok \in BOOLEAN, Beat(t, ok) PROVE SupervisorInv'
  <2>1. SupervisorTypeOK' /\ ~stopped'
    <3>1. beaten' \in [Tasks -> BOOLEAN]
      <4> DEFINE b == beaten[t] \/ ok
      <4>1. b \in BOOLEAN
        OBVIOUS
      <4>2. beaten' = [beaten EXCEPT ![t] = b]
        BY <1>2 DEF Beat
      <4> HIDE DEF b
      <4> QED
        BY <1>0, <4>1, <4>2 DEF SupervisorTypeOK
    <3>2. failures' \in [Tasks -> 0..MaxFailures]
      BY <1>0, <1>2, SupervisorAssumption DEF Beat, SupervisorTypeOK
    <3> QED
      BY <1>0, <1>2, <3>1, <3>2 DEF Beat, Running, SupervisorTypeOK, SupervisorInv
  <2>2. Paced(t)' /\ Doubles(t)'
    <3>1. /\ alive[t] /\ state[t] = "running"
          /\ UNCHANGED <<state, alive, delay, left, stopping, waited>>
          /\ beaten'[t] = (beaten[t] \/ ok)
          /\ failures'[t] = IF ok THEN 0 ELSE failures[t]
      BY <1>0, <1>2 DEF Beat, Running, SupervisorTypeOK
    <3>2. Paced(t)'
      BY <1>T, <3>1 DEF Paced
    <3>3. Doubles(t)'
      <4>1. CASE ok
        BY <3>1, <4>1 DEF Doubles
      <4>2. CASE ~ok
        BY <1>T, <3>1, <4>2 DEF Doubles, BackoffAfter
      <4> QED
        BY <4>1, <4>2
    <3> QED
      BY <3>2, <3>3
  <2>3. ASSUME NEW u \in Tasks, u # t PROVE Paced(u)' /\ Doubles(u)'
    <3>1. /\ UNCHANGED <<state, alive, delay, left, waited, stopping>>
          /\ beaten'[u] = beaten[u] /\ failures'[u] = failures[u]
      BY <1>0, <1>2, <2>3 DEF Beat, SupervisorTypeOK
    <3> QED
      BY <1>T, <3>1, QuietTask
  <2> QED
    BY <2>1, <2>2, <2>3 DEF SupervisorInv
<1>3. ASSUME NEW t \in Tasks, Fail(t) PROVE SupervisorInv'
  <2>0. /\ DelayNow(t) \in InitialBackoff..MaxBackoff
        /\ Smaller(1, DelayNow(t)) \in 0..MaxBackoff
        /\ Smaller(1, DelayNow(t)) <= 1
    BY <1>0, SupervisorAssumption DEF DelayNow, Smaller, SupervisorTypeOK
  <2>1. SupervisorTypeOK' /\ ~stopped'
    <3>1. failures[t] + 1 \in 0..MaxFailures
      BY <1>0, <1>3, SupervisorAssumption DEF Fail, SupervisorTypeOK
    <3>2. /\ state' \in [Tasks -> {"running", "failed", "backoff", "stopped"}]
          /\ failures' \in [Tasks -> 0..MaxFailures] /\ beaten' \in [Tasks -> BOOLEAN]
      BY <1>0, <1>3, <3>1 DEF Fail, SupervisorTypeOK
    <3>3. delay' \in [Tasks -> InitialBackoff..MaxBackoff] /\ left' \in [Tasks -> 0..MaxBackoff]
      BY <1>0, <1>3, <2>0 DEF Fail, SupervisorTypeOK
    <3> QED
      BY <1>0, <1>3, <3>2, <3>3 DEF Fail, Running, SupervisorTypeOK, SupervisorInv
  <2>2. Paced(t)' /\ Doubles(t)'
    <3>1. /\ alive[t] /\ state[t] = "running" /\ alive'[t] /\ state'[t] = "failed"
          /\ failures'[t] = failures[t] + 1 /\ delay'[t] = DelayNow(t)
          /\ left'[t] = Smaller(1, DelayNow(t)) /\ beaten'[t] = FALSE
          /\ UNCHANGED <<stopping, waited>>
      BY <1>0, <1>3 DEF Fail, Running, SupervisorTypeOK
    <3>2. waited[t] = 0
      BY <1>T, <3>1 DEF Paced
    <3>3. Paced(t)'
      BY <2>0, <3>1, <3>2, SupervisorAssumption DEF Paced, Smaller
    <3>4. DelayNow(t) = BackoffAfter(failures[t] + 1)
      BY <1>T, <3>1, BackoffDoubles DEF Doubles, DelayNow
    <3>5. Doubles(t)'
      BY <3>1, <3>4, TaskTypes DEF Doubles, BackoffAfter
    <3> QED
      BY <3>3, <3>5
  <2>3. ASSUME NEW u \in Tasks, u # t PROVE Paced(u)' /\ Doubles(u)'
    <3>1. /\ UNCHANGED <<alive, waited, stopping>> /\ state'[u] = state[u]
          /\ delay'[u] = delay[u] /\ left'[u] = left[u]
          /\ beaten'[u] = beaten[u] /\ failures'[u] = failures[u]
      BY <1>0, <1>3, <2>3 DEF Fail, SupervisorTypeOK
    <3> QED
      BY <1>T, <3>1, QuietTask
  <2> QED
    BY <2>1, <2>2, <2>3 DEF SupervisorInv
<1>4. ASSUME NEW t \in Tasks, ShowBackoff(t) PROVE SupervisorInv'
  <2>1. /\ alive[t] /\ state[t] = "failed" /\ alive'[t] /\ state'[t] = "backoff"
        /\ left[t] = 0 /\ left'[t] = delay[t] - Smaller(1, delay[t])
        /\ UNCHANGED <<alive, delay, beaten, stopping, stopped, failures, waited>>
        /\ ~stopping
    BY <1>0, <1>4 DEF ShowBackoff, SupervisorTypeOK
  <2>2. left'[t] \in 0..MaxBackoff
    BY <2>1, TaskTypes DEF Smaller
  <2>3. SupervisorTypeOK' /\ ~stopped'
    BY <1>0, <1>4, <2>1, <2>2 DEF ShowBackoff, SupervisorTypeOK, SupervisorInv
  <2>4. Paced(t)' /\ Doubles(t)'
    <3>1. waited[t] = Smaller(1, delay[t])
      BY <1>T, <2>1, TaskTypes DEF Paced
    <3>2. waited[t] + left'[t] = delay[t]
      BY <2>1, <3>1, TaskTypes DEF Smaller
    <3> QED
      BY <1>T, <2>1, <3>2 DEF Paced, Doubles, BackoffAfter
  <2>5. ASSUME NEW u \in Tasks, u # t PROVE Paced(u)' /\ Doubles(u)'
    <3>1. state'[u] = state[u] /\ left'[u] = left[u]
      BY <1>0, <1>4, <2>5 DEF ShowBackoff, SupervisorTypeOK
    <3> QED
      BY <1>T, <2>1, <3>1, QuietTask
  <2> QED
    BY <2>3, <2>4, <2>5 DEF SupervisorInv
<1>5. ASSUME NEW t \in Tasks, Restart(t) PROVE SupervisorInv'
  <2>1. /\ alive[t] /\ state[t] = "backoff" /\ alive'[t] /\ state'[t] = "running"
        /\ delay'[t] = NextDelay(t) /\ waited'[t] = 0
        /\ UNCHANGED <<alive, left, beaten, stopping, stopped, failures>>
        /\ ~stopping
    BY <1>0, <1>5 DEF Restart, SupervisorTypeOK
  <2>2. NextDelay(t) \in InitialBackoff..MaxBackoff
    BY TaskTypes DEF NextDelay, Smaller
  <2>3. SupervisorTypeOK' /\ ~stopped'
    BY <1>0, <1>5, <2>1, <2>2 DEF Restart, SupervisorTypeOK, SupervisorInv
  <2>4. Paced(t)' /\ Doubles(t)'
    <3>1. /\ failures[t] \in Nat \ {0} /\ ~beaten[t]
          /\ delay[t] = BackoffAfter(failures[t])
      BY <1>T, <2>1, TaskTypes DEF Doubles
    <3>2. NextDelay(t) = BackoffAfter(failures[t] + 1)
      BY <3>1, BackoffDoubles DEF NextDelay
    <3>3. Paced(t)'
      BY <2>1 DEF Paced
    <3>4. Doubles(t)'
      BY <2>1, <3>1, <3>2 DEF Doubles, BackoffAfter
    <3> QED
      BY <3>3, <3>4
  <2>5. ASSUME NEW u \in Tasks, u # t PROVE Paced(u)' /\ Doubles(u)'
    <3>1. state'[u] = state[u] /\ delay'[u] = delay[u] /\ waited'[u] = waited[u]
      BY <1>0, <1>5, <2>5 DEF Restart, SupervisorTypeOK
    <3> QED
      BY <1>T, <2>1, <3>1, QuietTask
  <2> QED
    BY <2>3, <2>4, <2>5 DEF SupervisorInv
<1>6. ASSUME NEW t \in Tasks, Cancelled(t) PROVE SupervisorInv'
  <2>1. /\ stopping /\ alive[t] /\ alive'[t] = FALSE
        /\ state'[t] \in {"stopped", "failed"} /\ left'[t] = 0
        /\ UNCHANGED <<delay, beaten, stopping, stopped, failures, waited>>
    BY <1>0, <1>6 DEF Cancelled, SupervisorTypeOK
  <2>2. SupervisorTypeOK' /\ ~stopped'
    BY <1>0, <1>6, <2>1, SupervisorAssumption
       DEF Cancelled, SupervisorTypeOK, SupervisorInv
  <2>3. Paced(t)' /\ Doubles(t)'
    BY <2>1 DEF Paced, Doubles
  <2>4. ASSUME NEW u \in Tasks, u # t PROVE Paced(u)' /\ Doubles(u)'
    <3>1. state'[u] = state[u] /\ alive'[u] = alive[u] /\ left'[u] = left[u]
      BY <1>0, <1>6, <2>4 DEF Cancelled, SupervisorTypeOK
    <3> QED
      BY <1>T, <2>1, <3>1, QuietTask
  <2> QED
    BY <2>2, <2>3, <2>4 DEF SupervisorInv
<1>7. CASE Stop
  <2>1. SupervisorTypeOK' /\ stopping'
    BY <1>0, <1>7 DEF Stop, SupervisorTypeOK
  <2>2. ASSUME NEW u \in Tasks PROVE Paced(u)' /\ Doubles(u)'
    BY <1>7, <1>T, TaskTypes DEF Stop, Paced, Doubles, BackoffAfter
  <2> QED
    BY <1>7, <2>1, <2>2 DEF SupervisorInv, Stop
<1>8. CASE StopReturns
  <2>1. SupervisorTypeOK'
    BY <1>0, <1>8 DEF StopReturns, SupervisorTypeOK
  <2>2. /\ UNCHANGED <<alive, stopping>> /\ stopping /\ \A u \in Tasks : ~alive[u]
    BY <1>8 DEF StopReturns
  <2>3. ASSUME NEW u \in Tasks PROVE Paced(u)' /\ Doubles(u)'
    BY <2>2 DEF Paced, Doubles
  <2> QED
    BY <2>1, <2>2, <2>3 DEF SupervisorInv
<1>9. CASE TaskTimePasses
  <2>1. ASSUME NEW u \in Tasks
        PROVE  /\ Paced(u)' /\ Doubles(u)'
               /\ left'[u] \in 0..MaxBackoff /\ waited'[u] \in 0..MaxBackoff
    <3>1. /\ left'[u] = IF Asleep(u) THEN left[u] - 1 ELSE left[u]
          /\ waited'[u] = IF Asleep(u) THEN waited[u] + 1 ELSE waited[u]
          /\ Asleep(u) => left[u] > 0
          /\ UNCHANGED <<state, alive, delay, beaten, stopping, failures>>
      BY <1>9 DEF TaskTimePasses
    <3>2. left[u] \in 0..MaxBackoff /\ waited[u] \in 0..MaxBackoff
      BY <1>0 DEF SupervisorTypeOK
    <3>3. CASE Asleep(u)
      <4>1. /\ left'[u] = left[u] - 1 /\ waited'[u] = waited[u] + 1 /\ left[u] > 0
            /\ alive[u] /\ state[u] \in {"failed", "backoff"}
        BY <3>1, <3>3 DEF Asleep
      <4>2. waited[u] + left[u] <= MaxBackoff
        BY <1>T, <4>1, TaskTypes DEF Paced, Smaller
      <4>3. Paced(u)'
        BY <1>T, <3>1, <4>1, TaskTypes DEF Paced
      <4>4. Doubles(u)'
        BY <1>T, <3>1, <4>1 DEF Doubles, BackoffAfter
      <4> QED
        BY <3>2, <4>1, <4>2, <4>3, <4>4, SupervisorAssumption
    <3>4. CASE ~Asleep(u)
      <4>1. left'[u] = left[u] /\ waited'[u] = waited[u]
        BY <3>1, <3>4
      <4> QED
        BY <1>T, <3>1, <3>2, <4>1, QuietTask
    <3> QED
      BY <3>3, <3>4
  <2>2. left' \in [Tasks -> 0..MaxBackoff] /\ waited' \in [Tasks -> 0..MaxBackoff]
    BY <1>9, <2>1 DEF TaskTimePasses
  <2>3. SupervisorTypeOK'
    BY <1>0, <1>9, <2>2 DEF TaskTimePasses, SupervisorTypeOK
  <2> QED
    BY <1>9, <2>1, <2>3 DEF SupervisorInv, TaskTimePasses
<1>10. CASE UNCHANGED taskVars
  <2>1. /\ UNCHANGED <<state, alive, delay, left, beaten, stopping, stopped, failures>>
        /\ UNCHANGED waited
    BY <1>10 DEF taskVars
  <2>2. ASSUME NEW u \in Tasks PROVE Paced(u)' /\ Doubles(u)'
    BY <1>T, <2>1, QuietTask
  <2> QED
    BY <1>0, <2>1, <2>2 DEF SupervisorInv, SupervisorTypeOK
<1>11. ASSUME NEW t \in Tasks, Return(t) PROVE SupervisorInv'
  <2>1. /\ alive[t] /\ alive'[t] = FALSE /\ state'[t] = "stopped"
        /\ UNCHANGED <<delay, left, beaten, stopping, stopped, failures, waited>>
    BY <1>0, <1>11 DEF Return, Running, SupervisorTypeOK
  <2>2. SupervisorTypeOK' /\ ~stopped'
    BY <1>0, <1>11, <2>1 DEF Return, SupervisorTypeOK, SupervisorInv
  <2>3. Paced(t)' /\ Doubles(t)'
    BY <2>1 DEF Paced, Doubles
  <2>4. ASSUME NEW u \in Tasks, u # t PROVE Paced(u)' /\ Doubles(u)'
    <3>1. state'[u] = state[u] /\ alive'[u] = alive[u]
      BY <1>0, <1>11, <2>4 DEF Return, SupervisorTypeOK
    <3> QED
      BY <1>T, <2>1, <3>1, QuietTask
  <2> QED
    BY <2>2, <2>3, <2>4 DEF SupervisorInv
<1> QED
  BY <1>1, <1>2, <1>3, <1>4, <1>5, <1>6, <1>7, <1>8, <1>9, <1>10, <1>11 DEF TaskStep

LEMMA SupervisorInvariance == Spec => []SupervisorInv
<1>1. Init => SupervisorInv
  BY InitSupervisor DEF Init
<1>2. SupervisorInv /\ [Next]_vars => SupervisorInv'
  BY TaskSteps, StepSupervisor
<1> QED
  BY <1>1, <1>2, PTL DEF Spec

\* The policy of _run: a task starts again after its n-th failure in a row
\* exactly when min(max, initial * 2^(n-1)) has passed, and not once stop() began.
THEOREM RestartsPaced == Spec => RestartPacing
<1> DEFINE P == \A t \in Tasks : (state[t] # "running" /\ state'[t] = "running") =>
                  /\ ~stopping
                  /\ failures[t] > 0 => waited[t] = BackoffAfter(failures[t])
<1>1. SupervisorInv /\ [Next]_vars => [P]_taskVars
  <2> SUFFICES ASSUME SupervisorInv, [Next]_vars, NEW t \in Tasks,
                      state[t] # "running", state'[t] = "running"
               PROVE  ~stopping /\ (failures[t] > 0 => waited[t] = BackoffAfter(failures[t]))
    OBVIOUS
  <2>0. SupervisorTypeOK /\ TaskStep
    BY TaskSteps DEF SupervisorInv
  <2>1. ASSUME NEW u \in Tasks, Launch(u)
        PROVE  ~stopping /\ failures[t] = 0
    <3>1. u = t /\ alive[t] /\ state[t] = "stopped" /\ ~stopping
      BY <2>0, <2>1 DEF Launch, SupervisorTypeOK
    <3> QED
      BY <3>1, TaskTypes DEF Doubles
  <2>2. ASSUME NEW u \in Tasks, Restart(u)
        PROVE  ~stopping /\ waited[t] = BackoffAfter(failures[t])
    <3>1. u = t /\ alive[t] /\ state[t] = "backoff" /\ left[t] = 0 /\ ~stopping
      BY <2>0, <2>2 DEF Restart, SupervisorTypeOK
    <3> QED
      BY <3>1, TaskTypes DEF Doubles, Paced
  <2>3. ~ \E u \in Tasks : Fail(u) \/ Return(u) \/ ShowBackoff(u) \/ Cancelled(u)
    BY <2>0 DEF Fail, Return, ShowBackoff, Cancelled, SupervisorTypeOK
  <2>4. /\ ~ \E u \in Tasks, ok \in BOOLEAN : Beat(u, ok)
        /\ ~ (Stop \/ StopReturns \/ TaskTimePasses \/ UNCHANGED taskVars)
    BY <2>0 DEF Beat, Stop, StopReturns, TaskTimePasses, taskVars, SupervisorTypeOK
  <2> QED
    BY <2>0, <2>1, <2>2, <2>3, <2>4 DEF TaskStep
<1> QED
  BY SupervisorInvariance, <1>1, PTL DEF Spec, RestartPacing

---------------------------------------------------------------------------
(* The poll scheduler: types. *)

\* A finite set of naturals that is not empty has a greatest element: Max.
LEMMA MaxOf ==
    ASSUME NEW S \in SUBSET Nat, NEW b \in Nat, \A x \in S : x <= b, S # {}
    PROVE  Max(S) \in S /\ \A x \in S : x <= Max(S)
<1> DEFINE U == {n \in Nat : \A x \in S : x <= n}
<1>1. PICK n \in U : \A m \in U : n <= m
  BY LeastOf
<1>2. n \in S
  <2> SUFFICES ASSUME n \notin S PROVE FALSE
    OBVIOUS
  <2>1. \A x \in S : x <= n - 1 /\ x \in Nat
    BY <1>1
  <2>2. n # 0
    <3>1. PICK x \in S : TRUE
      OBVIOUS
    <3> QED
      BY <2>1, <3>1
  <2>3. n - 1 \in Nat /\ n - 1 \in U
    BY <1>1, <2>1, <2>2
  <2> QED
    BY <1>1, <2>3
<1>3. \A x \in S : n >= x
  BY <1>1
<1>4. \A y \in S : Max(S) >= y /\ Max(S) \in S
  BY <1>2, <1>3 DEF Max
<1> QED
  BY <1>2, <1>4

\* What is bounded up to k - 1 is bounded up to k.
LEMMA BoundOneMore ==
    ASSUME NEW n \in Nat, NEW f \in [1..n -> Nat], NEW k \in 1..n,
           \E b \in Nat : \A i \in 1..k - 1 : f[i] <= b
    PROVE  \E b \in Nat : \A i \in 1..k : f[i] <= b
<1>1. PICK b \in Nat : \A i \in 1..k - 1 : f[i] <= b
  OBVIOUS
<1>2. f[k] \in Nat /\ k \in Nat
  OBVIOUS
<1>3. PICK c \in Nat : c >= b /\ c >= f[k]
  <2>1. CASE f[k] >= b
    BY <1>2, <2>1
  <2>2. CASE ~(f[k] >= b)
    BY <1>2, <2>2
  <2> QED
    BY <2>1, <2>2
<1>4. ASSUME NEW i \in 1..k PROVE f[i] <= c
  <2>1. CASE i = k
    BY <1>3, <2>1
  <2>2. CASE i # k
    <3>1. i \in 1..k - 1 /\ i \in 1..n
      BY <1>2, <2>2
    <3>2. f[i] \in Nat /\ f[i] <= b
      BY <1>1, <3>1
    <3> QED
      BY <1>3, <3>2
  <2> QED
    BY <2>1, <2>2
<1> QED
  BY <1>4

\* A function on 1..n into the naturals is bounded.
LEMMA BoundedBelow ==
    ASSUME NEW n \in Nat, NEW f \in [1..n -> Nat]
    PROVE  \E b \in Nat : \A i \in 1..n : f[i] <= b
<1> DEFINE Good(k) == \E b \in Nat : \A i \in 1..k : f[i] <= b
           B == {k \in 0..n : ~Good(k)}
<1> SUFFICES ASSUME ~Good(n) PROVE FALSE
  OBVIOUS
<1>1. Good(0)
  <2>1. \A i \in 1..0 : f[i] <= 0
    OBVIOUS
  <2> QED
    BY <2>1
<1>2. ASSUME NEW k \in 1..n, Good(k - 1) PROVE Good(k)
  BY <1>2, BoundOneMore
<1> HIDE DEF Good
<1>3. B \in SUBSET Nat /\ n \in B
  OBVIOUS
<1>4. PICK k \in B : \A j \in B : k <= j
  BY <1>3, LeastOf
<1>5. k \in 1..n
  BY <1>1, <1>4
<1>6. k - 1 \in 0..n /\ k - 1 \notin B
  BY <1>4, <1>5
<1> QED
  BY <1>2, <1>4, <1>5, <1>6

\* No wait is longer than MaxWait.
LEMMA WaitsBounded ==
    /\ MaxWait \in Nat /\ Interval <= MaxWait /\ LegalWait <= MaxWait
    /\ \A i \in 1..Len(Ladder) : Ladder[i] \in Nat /\ Ladder[i] <= MaxWait
<1> USE SchedulerAssumption
<1> DEFINE S == {Interval, LegalWait} \cup ToSet(Ladder)
<1>1. Len(Ladder) \in Nat /\ Ladder \in [1..Len(Ladder) -> Nat]
  OBVIOUS
<1>2. PICK b \in Nat : \A i \in 1..Len(Ladder) : Ladder[i] <= b
  BY <1>1, BoundedBelow
<1>3. \A i \in 1..Len(Ladder) : Ladder[i] \in Nat /\ Ladder[i] \in S
  BY <1>1 DEF ToSet
<1>4. S \in SUBSET Nat
  BY <1>1 DEF ToSet
<1>5. ASSUME NEW x \in S PROVE x <= b + Interval + LegalWait
  <2>1. CASE x \in {Interval, LegalWait}
    BY <2>1
  <2>2. CASE x \in ToSet(Ladder)
    <3>1. PICK i \in 1..Len(Ladder) : x = Ladder[i]
      BY <2>2, <1>1 DEF ToSet
    <3> QED
      BY <1>2, <1>3, <3>1
  <2> QED
    BY <2>1, <2>2
<1>6. b + Interval + LegalWait \in Nat /\ Interval \in S /\ LegalWait \in S
  OBVIOUS
<1> HIDE DEF S
<1>7. Max(S) \in S /\ \A x \in S : x <= Max(S)
  BY <1>4, <1>5, <1>6, MaxOf
<1>8. MaxWait = Max(S)
  BY DEF S, MaxWait
<1> QED
  BY <1>3, <1>4, <1>6, <1>7, <1>8

\* What storing an answer leaves of an exchange's state.
LEMMA StoredStates ==
    ASSUME NEW s \in [failures : 0..Len(Ladder), wait : 0..MaxWait, in_flight : BOOLEAN],
           NEW r \in Results, NEW elapsed \in Nat
    PROVE  StoredState(s, r, elapsed) \in
             [failures : 0..Len(Ladder), wait : 0..MaxWait, in_flight : BOOLEAN]
<1>1. PICK first, second \in Answers : r = PolledResult(first, second)
  BY DEF Results
<1>2. r.cool => r.failed
  BY <1>1 DEF PolledResult
<1>3. Len(Ladder) \in Nat \ {0}
  BY SchedulerAssumption
<1> DEFINE count == IF r.failed THEN Least(s.failures + 1, Len(Ladder)) ELSE 0
           seconds == IF ~r.cool THEN Interval
                      ELSE IF r.legal THEN LegalWait ELSE CooldownSeconds(count)
<1>4. count \in 0..Len(Ladder) /\ (r.failed => count \in 1..Len(Ladder))
  BY <1>3 DEF Least
<1>5. seconds \in Nat /\ seconds <= MaxWait
  <2>1. ASSUME r.failed
        PROVE  CooldownSeconds(count) \in Nat /\ CooldownSeconds(count) <= MaxWait
    <3>1. count \in 1..Len(Ladder)
      BY <1>4, <2>1
    <3>2. Least(count, Len(Ladder)) \in 1..Len(Ladder)
      BY <1>3, <3>1 DEF Least
    <3> QED
      BY <3>2, WaitsBounded DEF CooldownSeconds
  <2> QED
    BY <1>2, <2>1, WaitsBounded, SchedulerAssumption
<1>6. StoredState(s, r, elapsed) =
        [failures |-> count, wait |-> Less(seconds, elapsed), in_flight |-> FALSE]
  BY DEF StoredState
<1> HIDE DEF count, seconds
<1>7. Less(seconds, elapsed) \in 0..MaxWait
  BY <1>5, WaitsBounded DEF Less
<1> QED
  BY <1>4, <1>6, <1>7

---------------------------------------------------------------------------
(* The ring. *)

\* The exchanges are finitely many, and Rank tells them apart.
LEMMA NamesRanked ==
    /\ IsFiniteSet(Names) /\ Cardinality(Names) \in Nat
    /\ Cardinality(Names) <= Len(Adapters) /\ Len(Adapters) \in Nat
    /\ \A a \in Names : Rank[a] \in Nat
    /\ \A a, b \in Names : Rank[a] = Rank[b] => a = b
<1> USE SchedulerAssumption
<1>1. Len(Adapters) \in Nat /\ Adapters \in [1..Len(Adapters) -> Names]
  OBVIOUS
<1>2. \A a \in Names : \E i \in 1..Len(Adapters) : Adapters[i] = a
  BY <1>1 DEF Names, ToSet
<1>3. Adapters \in Surjection(1..Len(Adapters), Names)
  BY <1>1, <1>2 DEF Surjection
<1>4. ExistsSurjection(1..Len(Adapters), Names)
  BY <1>3 DEF ExistsSurjection
<1>5. IsFiniteSet(Names) /\ Cardinality(Names) <= Len(Adapters)
  BY <1>1, <1>4, FS_NatSurjection, FS_SurjCardinalityBound
<1>6. Cardinality(Names) \in Nat
  BY <1>5, FS_CardinalityType
<1>7. ASSUME NEW a \in Names
      PROVE  Rank[a] \in 1..Len(Adapters) /\ Adapters[Rank[a]] = a
  BY <1>2 DEF Rank
<1> QED
  BY <1>1, <1>5, <1>6, <1>7

\* The set of b's in a list that come before a in it.
Before(list, a) == {b \in list : Rank[b] < Rank[a]}

\* Index numbers the elements of a list from 0, without a gap or a repetition.
LEMMA Indices ==
    ASSUME NEW list \in SUBSET Names
    PROVE  /\ IsFiniteSet(list) /\ Cardinality(list) \in Nat
           /\ Cardinality(list) <= Len(Adapters) /\ (list # {} => Cardinality(list) > 0)
           /\ \A a \in list : Index[list][a] \in 0..Cardinality(list) - 1
           /\ \A a, b \in list : Index[list][a] = Index[list][b] => a = b
<1>1. IsFiniteSet(list) /\ Cardinality(list) <= Cardinality(Names)
  BY NamesRanked, FS_Subset
<1>2. Cardinality(list) \in Nat /\ (list # {} => Cardinality(list) # 0)
  BY <1>1, FS_CardinalityType, FS_EmptySet
<1>3. \A a \in list : Index[list][a] = Cardinality(Before(list, a))
  BY DEF Index, Before
<1>4. ASSUME NEW a \in list, NEW T, IsFiniteSet(T), Before(list, a) \subseteq T, a \in T
      PROVE  /\ Cardinality(Before(list, a)) \in Nat
             /\ Cardinality(Before(list, a)) < Cardinality(T)
  <2>1. a \notin Before(list, a)
    BY NamesRanked DEF Before
  <2>2. /\ IsFiniteSet(Before(list, a)) /\ Cardinality(Before(list, a)) <= Cardinality(T)
        /\ Cardinality(T) # Cardinality(Before(list, a))
    BY <1>4, <2>1, FS_Subset
  <2>3. Cardinality(T) \in Nat /\ Cardinality(Before(list, a)) \in Nat
    BY <1>4, <2>2, FS_CardinalityType
  <2> QED
    BY <2>2, <2>3
<1>5. ASSUME NEW a \in list PROVE Index[list][a] \in 0..Cardinality(list) - 1
  <2>1. Before(list, a) \subseteq list
    BY DEF Before
  <2> QED
    BY <1>1, <1>2, <1>3, <1>4, <2>1
<1>6. ASSUME NEW a \in list, NEW b \in list, Rank[a] < Rank[b]
      PROVE  Index[list][a] < Index[list][b]
  <2>1. Before(list, a) \subseteq Before(list, b) /\ a \in Before(list, b)
    BY <1>6, NamesRanked DEF Before
  <2>2. IsFiniteSet(Before(list, b))
    BY <1>1, FS_Subset DEF Before
  <2> QED
    BY <1>3, <1>4, <2>1, <2>2
<1>7. ASSUME NEW a \in list, NEW b \in list, Index[list][a] = Index[list][b] PROVE a = b
  <2>1. Rank[a] \in Nat /\ Rank[b] \in Nat /\ (Rank[a] = Rank[b] => a = b)
    BY NamesRanked
  <2>2. Index[list][a] \in Nat /\ Index[list][b] \in Nat
    BY <1>5, <1>2
  <2>3. ~(Rank[a] < Rank[b]) /\ ~(Rank[b] < Rank[a])
    BY <1>6, <1>7, <2>2
  <2> QED
    BY <2>1, <2>3
<1> QED
  BY <1>1, <1>2, <1>5, <1>7, NamesRanked

\* Going round: the remainder of what is less than twice the divisor.
LEMMA Wrap ==
    ASSUME NEW n \in Nat \ {0}, NEW x \in 0..2 * n - 1
    PROVE  x % n = IF x < n THEN x ELSE x - n
  OBVIOUS

\* Offset as a case distinction, and what it numbers.
LEMMA Offsets ==
    ASSUME NEW list \in SUBSET Names, NEW start \in 0..Cardinality(list) - 1
    PROVE  /\ \A a \in list :
                /\ Offset(start, list, a) \in 0..Cardinality(list) - 1
                /\ Offset(start, list, a) =
                     IF Index[list][a] >= start THEN Index[list][a] - start
                     ELSE Index[list][a] + Cardinality(list) - start
           /\ \A a, b \in list : Offset(start, list, a) = Offset(start, list, b) => a = b
<1>1. PICK n \in Nat \ {0} : n = Cardinality(list) /\ start \in 0..n - 1
  <2>1. Cardinality(list) \in Nat /\ start \in Nat /\ start < Cardinality(list)
    BY Indices
  <2> QED
    BY <2>1
<1>2. ASSUME NEW a \in list
      PROVE  /\ Offset(start, list, a) \in 0..n - 1
             /\ Index[list][a] \in 0..n - 1
             /\ Offset(start, list, a) =
                  IF Index[list][a] >= start THEN Index[list][a] - start
                  ELSE Index[list][a] + n - start
  <2>1. PICK i \in 0..n - 1 : i = Index[list][a]
    BY <1>1, Indices
  <2>2. PICK x \in 0..2 * n - 1 : x = i + n - start
    BY <1>1
  <2>3. x % n = IF x < n THEN x ELSE x - n
    BY Wrap
  <2>4. Offset(start, list, a) = x % n
    BY <1>1, <2>1, <2>2 DEF Offset
  <2> QED
    BY <1>1, <2>1, <2>2, <2>3, <2>4
<1>3. ASSUME NEW a \in list, NEW b \in list, Offset(start, list, a) = Offset(start, list, b)
      PROVE  a = b
  <2>1. Index[list][a] = Index[list][b]
    BY <1>1, <1>2, <1>3
  <2> QED
    BY <2>1, Indices
<1> QED
  BY <1>1, <1>2, <1>3

\* Where the ring starts.
LEMMA RingStarts ==
    ASSUME NEW list \in SUBSET Names, list # {}, cursor \in Nat
    PROVE  RingStart(list) \in 0..Cardinality(list) - 1
<1>1. PICK n \in Nat \ {0} : n = Cardinality(list)
  BY Indices
<1>2. cursor % n \in 0..n - 1
  OBVIOUS
<1> QED
  BY <1>1, <1>2 DEF RingStart

\* The exchanges of a set whose offsets are at most k are at most k + 1.
LEMMA AtMost ==
    ASSUME NEW list \in SUBSET Names, NEW start \in 0..Cardinality(list) - 1,
           NEW S \in SUBSET list, NEW k \in Nat,
           \A b \in S : Offset(start, list, b) <= k
    PROVE  Cardinality(S) <= k + 1
<1>1. IsFiniteSet(S) /\ Cardinality(S) \in Nat
  BY Indices, FS_Subset, FS_CardinalityType
<1>2. IsFiniteSet(0..k) /\ Cardinality(0..k) = k + 1
  BY FS_Interval
<1> DEFINE f == [b \in S |-> Offset(start, list, b)]
<1>3. f \in [S -> 0..k]
  BY Offsets
<1>4. \A b, c \in S : b # c => f[b] # f[c]
  BY Offsets
<1> HIDE DEF f
<1>5. ~(Cardinality(0..k) < Cardinality(S))
  BY <1>1, <1>2, <1>3, <1>4, FS_PigeonHole
<1> QED
  BY <1>1, <1>2, <1>5

\* The last of some claims is one of them, and none comes after it.
LEMMA LastIsClaimed ==
    ASSUME NEW list \in SUBSET Names, NEW C \in SUBSET list, C # {},
           NEW start \in 0..Cardinality(list) - 1, start = RingStart(list)
    PROVE  /\ LastClaimed(list, C) \in C
           /\ \A b \in C : Offset(start, list, b) <= Offset(start, list, LastClaimed(list, C))
<1> DEFINE At(b) == Offset(start, list, b)
           B == {At(b) : b \in C}
<1>1. \A b \in C : At(b) \in Nat /\ At(b) <= Cardinality(list)
  BY Offsets, Indices
<1>2. B \in SUBSET Nat /\ B # {} /\ \A k \in B : k <= Cardinality(list)
  BY <1>1
<1>3. Cardinality(list) \in Nat
  BY Indices
<1> HIDE DEF B
<1>4. Max(B) \in B /\ \A k \in B : k <= Max(B)
  BY <1>2, <1>3, MaxOf
<1>5. \E b \in C : \A c \in C : At(c) <= At(b)
  BY <1>4 DEF B
<1>6. LastClaimed(list, C) = CHOOSE b \in C : \A c \in C : At(c) <= At(b)
  BY DEF LastClaimed
<1> HIDE DEF At
<1>7. LastClaimed(list, C) \in C /\ \A b \in C : At(b) <= At(LastClaimed(list, C))
  BY <1>5, <1>6
<1> QED
  BY <1>7 DEF At

\* A due exchange that the claims pass over: they are MaxDue exchanges that
\* come before it in the ring, so the last of them is far enough along.
LEMMA ClaimsReachOn ==
    ASSUME NEW list \in SUBSET Names, cursor \in Nat,
           NEW a \in list, IsDue(a), a \notin Claims(list)
    PROVE  LET start == RingStart(list)
               last == LastClaimed(list, Claims(list))
           IN  /\ Claims(list) # {} /\ last \in list
               /\ Offset(start, list, last) < Offset(start, list, a)
               /\ MaxDue <= Offset(start, list, last) + 1
<1> DEFINE C == Claims(list)
<1>1. PICK start : start = RingStart(list) /\ start \in 0..Cardinality(list) - 1
  BY RingStarts
<1> DEFINE At(b) == Offset(start, list, b)
           Open == {b \in list : IsDue(b) /\ b \notin C}
<1>2. \A b \in list : At(b) \in Nat /\ At(b) < Cardinality(list)
  BY <1>1, Offsets, Indices
<1>3. \A b \in list : /\ IsFiniteSet(DueBefore(start, list, b))
                      /\ Cardinality(DueBefore(start, list, b)) \in Nat
  <2>1. ASSUME NEW b \in list
        PROVE  /\ IsFiniteSet(DueBefore(start, list, b))
               /\ Cardinality(DueBefore(start, list, b)) \in Nat
    <3>1. DueBefore(start, list, b) \in SUBSET list /\ IsFiniteSet(list)
      BY Indices DEF DueBefore
    <3> QED
      BY <3>1, FS_Subset, FS_CardinalityType
  <2> QED
    BY <2>1
<1>4. C = {b \in list : IsDue(b) /\ Cardinality(DueBefore(start, list, b)) < MaxDue}
  BY <1>1 DEF Claims
<1>5. MaxDue \in Nat \ {0}
  BY SchedulerAssumption
\* What is claimed comes before what is due and left.
<1>6. ASSUME NEW b \in C, NEW c \in Open PROVE At(b) < At(c)
  <2>1. b \in list /\ c \in list /\ At(b) \in Nat /\ At(c) \in Nat
    BY <1>2, <1>4
  <2>2. Cardinality(DueBefore(start, list, b)) < MaxDue
    BY <1>4
  <2>3. ~(Cardinality(DueBefore(start, list, c)) < MaxDue)
    BY <1>4
  <2>4. ASSUME ~(At(b) < At(c)) PROVE FALSE
    <3>1. DueBefore(start, list, c) \subseteq DueBefore(start, list, b)
      BY <1>2, <2>1, <2>4 DEF DueBefore
    <3>2. Cardinality(DueBefore(start, list, c)) <= Cardinality(DueBefore(start, list, b))
      BY <1>3, <2>1, <3>1, FS_Subset
    <3> QED
      BY <1>3, <1>5, <2>1, <2>2, <2>3, <3>2
  <2> QED
    BY <2>4
\* The first that is left has MaxDue claims before it.
<1>7. PICK x \in Open : \A c \in Open : At(x) <= At(c)
  <2> DEFINE B == {At(c) : c \in Open}
  <2>1. B \in SUBSET Nat /\ At(a) \in B
    BY <1>2
  <2> HIDE DEF B
  <2>2. PICK m \in B : \A k \in B : m <= k
    BY <2>1, LeastOf
  <2> QED
    BY <2>2 DEF B
<1>8. DueBefore(start, list, x) \subseteq C
  <2>1. ASSUME NEW b \in DueBefore(start, list, x), b \notin C PROVE FALSE
    <3>1. b \in Open /\ At(b) < At(x)
      BY <2>1 DEF DueBefore
    <3>2. At(x) <= At(b) /\ At(b) \in Nat /\ At(x) \in Nat
      BY <1>2, <1>7, <3>1
    <3> QED
      BY <3>1, <3>2
  <2> QED
    BY <2>1
<1>9. Cardinality(DueBefore(start, list, x)) >= MaxDue
  BY <1>3, <1>4, <1>5, <1>7
<1>10. C # {}
  <2>1. Cardinality({}) = 0
    BY FS_EmptySet
  <2> QED
    BY <1>5, <1>8, <1>9, <2>1
\* The last claim: the greatest offset.
<1>11. PICK last : last = LastClaimed(list, C)
  OBVIOUS
<1>12. last \in C /\ \A b \in C : At(b) <= At(last)
  <2>1. C \in SUBSET list
    BY <1>4
  <2> QED
    BY <1>1, <1>10, <1>11, <2>1, LastIsClaimed
<1>13. last \in list /\ At(last) \in Nat
  BY <1>2, <1>4, <1>12
<1>14. a \in Open
  OBVIOUS
<1>15. At(last) < At(a)
  BY <1>6, <1>12, <1>14
<1>16. MaxDue <= At(last) + 1
  <2>1. DueBefore(start, list, x) \in SUBSET list
    BY DEF DueBefore
  <2>2. \A b \in DueBefore(start, list, x) : At(b) <= At(last)
    BY <1>8, <1>12
  <2>3. Cardinality(DueBefore(start, list, x)) <= At(last) + 1
    BY <1>1, <1>13, <2>1, <2>2, AtMost
  <2> QED
    BY <1>3, <1>5, <1>7, <1>9, <1>13, <2>3
<1> QED
  BY <1>1, <1>10, <1>11, <1>13, <1>15, <1>16

\* The cursor behind the last claim: what was behind it comes that much sooner.
LEMMA CursorBehind ==
    ASSUME NEW list \in SUBSET Names, NEW start \in 0..Cardinality(list) - 1,
           NEW last \in list, NEW next, next = (Index[list][last] + 1) % Cardinality(list)
    PROVE  /\ next \in 0..Cardinality(list) - 1
           /\ next % Cardinality(list) = next
           /\ \A a \in list : Offset(start, list, last) < Offset(start, list, a) =>
                Offset(next, list, a) = Offset(start, list, a) - (Offset(start, list, last) + 1)
<1>1. PICK n \in Nat \ {0} : n = Cardinality(list) /\ start \in 0..n - 1
  <2>1. Cardinality(list) \in Nat /\ start \in Nat /\ start < Cardinality(list)
    BY Indices
  <2> QED
    BY <2>1
<1>2. PICK j \in 0..n - 1 : j = Index[list][last]
  BY <1>1, Indices
<1>3. next = IF j + 1 = n THEN 0 ELSE j + 1
  <2>1. PICK x \in 0..2 * n - 1 : x = j + 1
    OBVIOUS
  <2>2. x % n = IF x < n THEN x ELSE x - n
    BY Wrap
  <2> QED
    BY <1>1, <1>2, <2>1, <2>2
<1>4. next \in 0..n - 1
  BY <1>3
<1>5. next % n = next
  <2>1. PICK x \in 0..2 * n - 1 : x = next
    BY <1>4
  <2>2. x % n = IF x < n THEN x ELSE x - n
    BY Wrap
  <2> QED
    BY <1>4, <2>1, <2>2
<1>6. ASSUME NEW a \in list, Offset(start, list, last) < Offset(start, list, a)
      PROVE  Offset(next, list, a) = Offset(start, list, a) - (Offset(start, list, last) + 1)
  <2>1. PICK i \in 0..n - 1 : i = Index[list][a]
    BY <1>1, Indices
  <2>2. /\ Offset(start, list, a) = IF i >= start THEN i - start ELSE i + n - start
        /\ Offset(start, list, last) = IF j >= start THEN j - start ELSE j + n - start
    BY <1>1, <1>2, <2>1, Offsets
  <2>3. Offset(next, list, a) = IF i >= next THEN i - next ELSE i + n - next
    BY <1>1, <1>4, <2>1, Offsets
  <2>4. CASE i >= start /\ j >= start
    BY <1>1, <1>3, <1>6, <2>2, <2>3, <2>4
  <2>5. CASE i < start /\ j >= start
    BY <1>1, <1>3, <1>6, <2>2, <2>3, <2>5
  <2>6. CASE i >= start /\ j < start
    BY <1>1, <1>3, <1>6, <2>2, <2>3, <2>6
  <2>7. CASE i < start /\ j < start
    BY <1>1, <1>3, <1>6, <2>2, <2>3, <2>7
  <2> QED
    BY <1>1, <2>4, <2>5, <2>6, <2>7
<1> QED
  BY <1>1, <1>4, <1>5, <1>6

---------------------------------------------------------------------------
(* The loop. *)

\* A round is a record of these fields.
RoundShape ==
    round = [phase |-> round.phase, active |-> round.active, claims |-> round.claims,
             answers |-> round.answers, elapsed |-> round.elapsed, rest |-> round.rest]

\* Every round that passes a due exchange over brings the start of the ring at
\* least MaxDue nearer to it.
PassedInv ==
    \A a \in round.active :
        passed[a] * MaxDue + Offset(RingStart(round.active), round.active, a)
            < Cardinality(round.active)

PollInv ==
    /\ PollTypeOK
    /\ RoundShape
    /\ PassedInv

\* What a step of the collector runtime does to the loop.
PollStep ==
    \/ BeginRound \/ BeginRoundOnOldSettings \/ RoundWithoutSettings
    \/ \E a \in Names : Answer(a)
    \/ StorePollResults \/ EditIgnored \/ LoopCancelled \/ PollTimePasses
    \/ UNCHANGED pollVars

LEMMA PollSteps == [Next]_vars => PollStep
<1> SUFFICES ASSUME [Next]_vars PROVE PollStep
  OBVIOUS
<1>1. CASE Round
  BY <1>1 DEF Round, InCollector, RoundReported, PollStep
<1>2. CASE ~stopping /\ EditIgnored /\ UNCHANGED <<taskVars, closed>>
  BY <1>2 DEF PollStep
<1>3. CASE \/ Supervision /\ UNCHANGED <<pollVars, closed>>
           \/ Stop /\ UNCHANGED <<pollVars, closed>>
  BY <1>3 DEF PollStep
<1>4. CASE CollectorCancelled
  BY <1>4 DEF CollectorCancelled, PollStep
<1>5. CASE Close \/ UNCHANGED vars
  BY <1>5 DEF Close, vars, PollStep
<1>6. CASE Tick
  BY <1>6 DEF Tick, PollStep
<1> QED
  BY <1>1, <1>2, <1>3, <1>4, <1>5, <1>6 DEF Next

LEMMA InitPoll == PollInit => PollInv
<1> SUFFICES ASSUME PollInit PROVE PollInv
  OBVIOUS
<1> USE SchedulerAssumption
<1>1. /\ round.phase = "resting" /\ round.active = {} /\ round.claims = {}
      /\ Answered = {} /\ round.elapsed = 0 /\ round.rest = 0
  BY DEF PollInit, Idle, Answered
<1>2. RoundShape
  BY DEF PollInit, Idle, RoundShape
<1>3. Fresh \in [failures : 0..Len(Ladder), wait : 0..MaxWait, in_flight : BOOLEAN]
  BY WaitsBounded DEF Fresh
<1>4. /\ poll \in [Names -> [failures : 0..Len(Ladder), wait : 0..MaxWait, in_flight : BOOLEAN]]
      /\ passed \in [Names -> Nat]
  BY <1>3 DEF PollInit
<1>5. cursor \in 0..Len(Adapters)
  BY NamesRanked DEF PollInit
<1>6. PollTypeOK
  <2>1. /\ settings = {} /\ ignored = {} /\ loaded = FALSE /\ edits = 0
    BY DEF PollInit
  <2>2. 0 \in 0..MaxPoll /\ 0 \in 0..Interval /\ 0 \in 0..MaxEdits
    OBVIOUS
  <2> QED
    BY <1>1, <1>4, <1>5, <2>1, <2>2 DEF PollTypeOK
<1> QED
  BY <1>1, <1>2, <1>6 DEF PollInv, PassedInv

\* A step that leaves the ring alone leaves PassedInv alone.
LEMMA QuietRing ==
    ASSUME PassedInv, UNCHANGED <<cursor, passed>>, round'.active = round.active
    PROVE  PassedInv'
  BY DEF PassedInv, RingStart, Offset

PollStates == [failures : 0..Len(Ladder), wait : 0..MaxWait, in_flight : BOOLEAN]

\* One more round that passes an exchange over, and what is left of its way.
LEMMA OneMorePass ==
    ASSUME NEW k \in Nat, NEW m \in Nat, NEW o \in Nat, NEW l \in Nat, NEW n \in Nat,
           k * m + o < n, l < o, m <= l + 1
    PROVE  (k + 1) * m + (o - (l + 1)) < n
<1>1. PICK q \in Nat : q = k * m
  OBVIOUS
<1>2. (k + 1) * m = q + m
  BY <1>1
<1> QED
  BY <1>1, <1>2

\* Claiming keeps the types and PassedInv.
LEMMA ClaimPoll ==
    ASSUME PollInv, NEW without, ClaimDue(without)
    PROVE  /\ poll' \in [Names -> PollStates] /\ cursor' \in 0..Len(Adapters)
           /\ passed' \in [Names -> Nat]
           /\ round'.phase \in {"polling", "resting"} /\ round'.active \subseteq Names
           /\ round'.claims \subseteq Names /\ DOMAIN round'.answers = {}
           /\ round'.elapsed = 0 /\ round'.rest \in 0..Interval
           /\ RoundShape' /\ PassedInv'
<1> DEFINE list == Active(without)
           C == Claims(list)
<1>0. /\ PollTypeOK /\ cursor \in Nat /\ passed \in [Names -> Nat]
      /\ poll \in [Names -> PollStates] /\ list \in SUBSET Names /\ Len(Adapters) \in Nat
      /\ MaxDue \in Nat \ {0} /\ Interval \in Nat
  <2>1. PollTypeOK /\ Len(Adapters) \in Nat
    BY NamesRanked DEF PollInv
  <2>2. MaxDue \in Nat \ {0} /\ Interval \in Nat
    BY SchedulerAssumption
  <2>3. cursor \in 0..Len(Adapters) /\ passed \in [Names -> Nat]
    BY <2>1 DEF PollTypeOK
  <2>4. poll \in [Names -> PollStates]
    BY <2>1 DEF PollTypeOK, PollStates
  <2>5. list \in SUBSET Names
    BY DEF Active
  <2> QED
    BY <2>1, <2>2, <2>3, <2>4, <2>5
<1>1. CASE list = {}
  <2>1. /\ round' = [Rest(round) EXCEPT !.active = {}]
        /\ passed' = [a \in Names |-> 0] /\ UNCHANGED <<poll, cursor>>
    BY <1>1 DEF ClaimDue
  <2>2. /\ round' = [phase |-> "resting", active |-> {}, claims |-> {}, answers |-> <<>>,
                     elapsed |-> 0, rest |-> Interval]
    BY <2>1 DEF PollInv, RoundShape, Rest
  <2>3. /\ round'.phase = "resting" /\ round'.active = {} /\ round'.claims = {}
        /\ round'.answers = <<>> /\ round'.elapsed = 0 /\ round'.rest = Interval
    BY <2>2
  <2>4. RoundShape' /\ PassedInv'
    BY <2>2, <2>3 DEF RoundShape, PassedInv
  <2>5. DOMAIN round'.answers = {}
    BY <2>3
  <2>6. poll' \in [Names -> PollStates] /\ cursor' \in 0..Len(Adapters)
    BY <1>0, <2>1 DEF PollTypeOK
  <2>7. passed' \in [Names -> Nat] /\ round'.rest \in 0..Interval
    BY <1>0, <2>1, <2>3
  <2> QED
    BY <2>3, <2>4, <2>5, <2>6, <2>7
<1>2. CASE list # {}
  <2>1. /\ poll' = [a \in Names |-> [poll[a] EXCEPT !.in_flight = @ \/ a \in C]]
        /\ cursor' = CursorAfter(list, C)
        /\ passed' = Passed(list, C)
        /\ round' = [phase |-> "polling", active |-> list, claims |-> C, answers |-> <<>>,
                     elapsed |-> 0, rest |-> 0]
    BY <1>2 DEF ClaimDue
  <2>2. C \subseteq list
    BY DEF Claims
  <2>3. poll' \in [Names -> PollStates]
    <3>1. ASSUME NEW a \in Names
          PROVE  [poll[a] EXCEPT !.in_flight = @ \/ a \in C] \in PollStates
      <4>1. PICK b \in BOOLEAN : b = (poll[a].in_flight \/ a \in C)
        OBVIOUS
      <4>2. poll[a] \in PollStates
        BY <1>0
      <4>3. [poll[a] EXCEPT !.in_flight = @ \/ a \in C] = [poll[a] EXCEPT !.in_flight = b]
        BY <4>1
      <4>4. [poll[a] EXCEPT !.in_flight = b] \in PollStates
        BY <4>2 DEF PollStates
      <4> QED
        BY <4>3, <4>4
    <3> QED
      BY <2>1, <3>1
  <2>4. passed' \in [Names -> Nat]
    BY <1>0, <2>1 DEF Passed
  <2>5. PICK start : start = RingStart(list) /\ start \in 0..Cardinality(list) - 1
    BY <1>0, <1>2, RingStarts
  <2>6. CASE C = {}
    <3>1. cursor' = cursor
      BY <2>1, <2>6 DEF CursorAfter
    <3>2. ASSUME NEW a \in list PROVE passed'[a] = 0
      <4>1. ~IsDue(a)
        BY <1>0, <2>6, ClaimsReachOn
      <4> QED
        BY <1>0, <2>1, <4>1 DEF Passed
    <3>3. \A a \in list : /\ Offset(start, list, a) \in Nat
                         /\ Offset(start, list, a) < Cardinality(list)
      BY <1>0, <2>5, Offsets, Indices
    <3>4. round'.active = list /\ RingStart(list)' = start
      BY <2>1, <2>5, <3>1 DEF RingStart
    <3>5. PassedInv'
      BY <1>0, <3>2, <3>3, <3>4 DEF PassedInv, Offset
    <3> QED
      <4>1. cursor' \in 0..Len(Adapters)
        BY <1>0, <3>1 DEF PollTypeOK
      <4>2. /\ round'.phase = "polling" /\ round'.active = list /\ round'.claims = C
            /\ round'.answers = <<>> /\ round'.elapsed = 0 /\ round'.rest = 0 /\ RoundShape'
        BY <2>1 DEF RoundShape
      <4>3. DOMAIN round'.answers = {} /\ round'.rest \in 0..Interval
        BY <1>0, <4>2
      <4> QED
        BY <1>0, <2>2, <2>3, <2>4, <3>5, <4>1, <4>2, <4>3
  <2>7. CASE C # {}
    <3> DEFINE last == LastClaimed(list, C)
    <3>1. cursor' = (Index[list][last] + 1) % Cardinality(list)
      BY <2>1, <2>7 DEF CursorAfter
    <3>2. last \in list
      BY <1>0, <2>5, <2>7, LastIsClaimed, <2>2
    <3>3. /\ cursor' \in 0..Cardinality(list) - 1 /\ cursor' % Cardinality(list) = cursor'
          /\ \A a \in list : Offset(start, list, last) < Offset(start, list, a) =>
               Offset(cursor', list, a)
                 = Offset(start, list, a) - (Offset(start, list, last) + 1)
      BY <1>0, <2>5, <3>1, <3>2, CursorBehind
    <3>4. round'.active = list /\ RingStart(list)' = cursor'
      BY <2>1, <3>3 DEF RingStart
    <3>5. Cardinality(list) \in Nat /\ Cardinality(list) <= Len(Adapters)
      BY <1>0, Indices
    <3>6. ASSUME NEW a \in list
          PROVE  passed'[a] * MaxDue + Offset(cursor', list, a) < Cardinality(list)
      <4>1. PICK next : next = cursor'
        OBVIOUS
      <4>2. PICK n \in Nat, o \in Nat, p \in Nat, l \in Nat :
               /\ n = Cardinality(list) /\ o = Offset(start, list, a) /\ o < n
               /\ p = Offset(next, list, a) /\ p < n /\ l = Offset(start, list, last)
        <5>1. next \in 0..Cardinality(list) - 1
          BY <3>3, <4>1
        <5> HIDE DEF last
        <5>2. /\ Offset(next, list, a) \in 0..Cardinality(list) - 1
              /\ Offset(start, list, a) \in 0..Cardinality(list) - 1
              /\ Offset(start, list, last) \in 0..Cardinality(list) - 1
          BY <1>0, <2>5, <3>2, <5>1, Offsets
        <5> QED
          BY <3>5, <5>2
      <4>3. CASE ~IsDue(a) \/ a \in C
        <5>1. passed'[a] = 0
          BY <1>0, <2>1, <4>3 DEF Passed
        <5> QED
          BY <1>0, <4>1, <4>2, <5>1
      <4>4. CASE IsDue(a) /\ a \notin C
        <5>1. l < o /\ MaxDue <= l + 1
          BY <1>0, <2>5, <4>2, <4>4, ClaimsReachOn
        <5>2. p = o - (l + 1)
          BY <3>3, <4>1, <4>2, <5>1
        <5>3. PICK k \in Nat : /\ k = (IF list = round.active THEN passed[a] ELSE 0)
                               /\ k * MaxDue + o < n
          <6>1. CASE list = round.active
            BY <1>0, <2>5, <4>2, <6>1 DEF PollInv, PassedInv
          <6>2. CASE list # round.active
            BY <1>0, <4>2, <6>2
          <6> QED
            BY <6>1, <6>2
        <5>4. passed'[a] = k + 1
          BY <1>0, <2>1, <4>4, <5>3 DEF Passed
        <5>5. (k + 1) * MaxDue + p < n
          BY <1>0, <5>1, <5>2, <5>3, OneMorePass
        <5> QED
          BY <4>1, <4>2, <5>4, <5>5
      <4> QED
        BY <4>3, <4>4
    <3>7. PassedInv'
      BY <3>4, <3>6 DEF PassedInv, Offset
    <3> QED
      <4>1. cursor' \in 0..Len(Adapters)
        BY <1>0, <3>3, <3>5
      <4>2. /\ round'.phase = "polling" /\ round'.active = list /\ round'.claims = C
            /\ round'.answers = <<>> /\ round'.elapsed = 0 /\ round'.rest = 0 /\ RoundShape'
        BY <2>1 DEF RoundShape
      <4>3. DOMAIN round'.answers = {} /\ round'.rest \in 0..Interval
        BY <1>0, <4>2
      <4> QED
        BY <1>0, <2>2, <2>3, <2>4, <3>7, <4>1, <4>2, <4>3
  <2> QED
    BY <2>6, <2>7
<1> QED
  BY <1>1, <1>2

\* What fits k times into x.
LEMMA TimesFits ==
    ASSUME NEW k \in Nat, NEW m \in Nat \ {0}, NEW x \in Nat, k * m <= x
    PROVE  k <= x \div m
  OBVIOUS

LEMMA StepPoll == PollInv /\ PollStep => PollInv'
<1> SUFFICES ASSUME PollInv, PollStep PROVE PollInv'
  OBVIOUS
<1>0. /\ PollTypeOK /\ RoundShape /\ PassedInv
      /\ Interval \in Nat /\ MaxPoll \in Nat /\ MaxEdits \in Nat
      /\ SavedLists \subseteq SUBSET Names
  BY SchedulerAssumption DEF PollInv
<1>1. ASSUME NEW without, ClaimDue(without), UNCHANGED edits, UNCHANGED settings,
             ignored' \in {settings, ignored}, loaded' \in {TRUE, loaded}
      PROVE  PollInv'
  <2>1. /\ poll' \in [Names -> PollStates] /\ cursor' \in 0..Len(Adapters)
        /\ passed' \in [Names -> Nat]
        /\ round'.phase \in {"polling", "resting"} /\ round'.active \subseteq Names
        /\ round'.claims \subseteq Names /\ DOMAIN round'.answers = {}
        /\ round'.elapsed = 0 /\ round'.rest \in 0..Interval
        /\ RoundShape' /\ PassedInv'
    BY <1>1, ClaimPoll
  <2>2. 0 \in 0..MaxPoll
    BY <1>0
  <2>3. Answered' = {}
    BY <2>1 DEF Answered
  <2>4. /\ settings' \in {{}} \cup SavedLists /\ ignored' \in {{}} \cup SavedLists
        /\ loaded' \in BOOLEAN /\ edits' \in 0..MaxEdits
    BY <1>0, <1>1 DEF PollTypeOK
  <2>5. PollTypeOK'
    BY <2>1, <2>2, <2>3, <2>4 DEF PollTypeOK, PollStates
  <2> QED
    BY <2>1, <2>5 DEF PollInv
<1>2. CASE BeginRound
  BY <1>1, <1>2 DEF BeginRound
<1>3. CASE BeginRoundOnOldSettings
  BY <1>1, <1>3 DEF BeginRoundOnOldSettings
<1>4. ASSUME round' = Rest(round), poll' \in [Names -> PollStates],
             UNCHANGED <<cursor, settings, ignored, loaded, edits, passed>>
      PROVE  PollInv'
  <2>1. round' = [phase |-> "resting", active |-> round.active, claims |-> {},
                  answers |-> <<>>, elapsed |-> 0, rest |-> Interval]
    BY <1>0, <1>4 DEF Rest, RoundShape
  <2>2. /\ round'.phase = "resting" /\ round'.active = round.active /\ round'.claims = {}
        /\ round'.answers = <<>> /\ round'.elapsed = 0 /\ round'.rest = Interval
        /\ RoundShape'
    BY <2>1 DEF RoundShape
  <2>3. Answered' = {}
    BY <2>2 DEF Answered
  <2>4. 0 \in 0..MaxPoll /\ Interval \in 0..Interval
    BY <1>0
  <2>5. PassedInv'
    BY <1>0, <1>4, <2>2, QuietRing
  <2>6. PollTypeOK'
    BY <1>0, <1>4, <2>2, <2>3, <2>4 DEF PollTypeOK, PollStates
  <2> QED
    BY <2>2, <2>5, <2>6 DEF PollInv
<1>5. CASE RoundWithoutSettings
  <2>1. poll' \in [Names -> PollStates]
    BY <1>0, <1>5 DEF RoundWithoutSettings, PollTypeOK, PollStates
  <2> QED
    BY <1>4, <1>5, <2>1 DEF RoundWithoutSettings
<1>6. CASE StorePollResults
  <2>1. ASSUME NEW a \in Answered
        PROVE  StoredState(poll[a], round.answers[a], round.elapsed) \in PollStates
    <3>1. a \in Names /\ round.answers[a] \in Results /\ round.elapsed \in Nat
      BY <1>0 DEF PollTypeOK
    <3>2. poll[a] \in PollStates
      BY <1>0, <3>1 DEF PollTypeOK, PollStates
    <3> QED
      BY <3>1, <3>2, StoredStates DEF PollStates
  <2>2. poll' \in [Names -> PollStates]
    BY <1>0, <1>6, <2>1 DEF StorePollResults, PollTypeOK, PollStates
  <2> QED
    BY <1>4, <1>6, <2>2 DEF StorePollResults
<1>7. ASSUME NEW a \in Names, Answer(a) PROVE PollInv'
  <2>1. PICK r \in Results :
          round' = [round EXCEPT !.answers =
                      [b \in Answered \cup {a} |-> IF b = a THEN r ELSE @[b]]]
    BY <1>7 DEF Answer
  <2> DEFINE answers == [b \in Answered \cup {a} |-> IF b = a THEN r ELSE round.answers[b]]
  <2>2. round' = [round EXCEPT !.answers = answers]
    BY <2>1
  <2>3. DOMAIN answers = Answered \cup {a} /\ \A b \in Answered \cup {a} : answers[b] \in Results
    BY <1>0 DEF PollTypeOK
  <2> HIDE DEF answers
  <2>4. /\ round'.phase = round.phase /\ round'.active = round.active
        /\ round'.claims = round.claims /\ round'.answers = answers
        /\ round'.elapsed = round.elapsed /\ round'.rest = round.rest
        /\ RoundShape'
    BY <1>0, <2>2 DEF RoundShape
  <2>5. Answered' = Answered \cup {a} /\ a \in round.claims
    BY <1>7, <2>3, <2>4 DEF Answered, Answer
  <2>6. UNCHANGED <<poll, cursor, settings, ignored, loaded, edits, passed>>
    BY <1>7 DEF Answer
  <2>7. PassedInv'
    BY <1>0, <2>4, <2>6, QuietRing
  <2>8. PollTypeOK'
    BY <1>0, <2>3, <2>4, <2>5, <2>6 DEF PollTypeOK
  <2> QED
    BY <2>4, <2>7, <2>8 DEF PollInv
<1>8. CASE EditIgnored
  <2>1. UNCHANGED <<poll, cursor, ignored, loaded, round, passed>> /\ Answered' = Answered
    BY <1>8 DEF EditIgnored, Answered
  <2>2. settings' \in {{}} \cup SavedLists /\ edits' \in 0..MaxEdits
    BY <1>0, <1>8 DEF EditIgnored, PollTypeOK
  <2>3. PollTypeOK'
    BY <1>0, <2>1, <2>2 DEF PollTypeOK
  <2> QED
    BY <1>0, <2>1, <2>3, QuietRing DEF PollInv, RoundShape
<1>9. CASE LoopCancelled
  <2>1. round' = [phase |-> "ended", active |-> {}, claims |-> {}, answers |-> <<>>,
                  elapsed |-> 0, rest |-> 0]
    BY <1>9 DEF LoopCancelled, Idle
  <2>2. /\ round'.phase = "ended" /\ round'.active = {} /\ round'.claims = {}
        /\ round'.answers = <<>> /\ round'.elapsed = 0 /\ round'.rest = 0
        /\ RoundShape' /\ PassedInv'
    BY <2>1 DEF RoundShape, PassedInv
  <2>3. Answered' = {}
    BY <2>2 DEF Answered
  <2>4. Fresh \in PollStates
    BY SchedulerAssumption, WaitsBounded DEF Fresh, PollStates
  <2>5. /\ poll' \in [Names -> PollStates] /\ passed' \in [Names -> Nat]
        /\ cursor' \in 0..Len(Adapters)
    BY <1>9, <2>4, NamesRanked DEF LoopCancelled
  <2>6. 0 \in 0..MaxPoll /\ 0 \in 0..Interval
    BY <1>0
  <2>7. UNCHANGED <<settings, ignored, loaded, edits>>
    BY <1>9 DEF LoopCancelled
  <2>8. PollTypeOK'
    BY <1>0, <2>2, <2>3, <2>5, <2>6, <2>7 DEF PollTypeOK, PollStates
  <2> QED
    BY <2>2, <2>8 DEF PollInv
<1>10. CASE PollTimePasses
  <2> DEFINE elapsed == IF round.phase = "polling" THEN round.elapsed + 1 ELSE 0
             rest == Less(round.rest, 1)
  <2>1. round' = [round EXCEPT !.elapsed = elapsed, !.rest = rest]
    BY <1>10 DEF PollTimePasses
  <2>2. elapsed \in 0..MaxPoll /\ rest \in 0..Interval
    <3>1. /\ round.elapsed \in 0..MaxPoll /\ round.rest \in 0..Interval
          /\ round.phase = "polling" => round.elapsed < MaxPoll
      BY <1>0, <1>10 DEF PollTimePasses, PollTypeOK
    <3>2. elapsed \in 0..MaxPoll
      BY <1>0, <3>1
    <3>3. rest \in 0..Interval
      BY <1>0, <3>1 DEF Less
    <3> QED
      BY <3>2, <3>3
  <2> HIDE DEF elapsed, rest
  <2>3. /\ round'.phase = round.phase /\ round'.active = round.active
        /\ round'.claims = round.claims /\ round'.answers = round.answers
        /\ round'.elapsed = elapsed /\ round'.rest = rest
        /\ RoundShape'
    BY <1>0, <2>1 DEF RoundShape
  <2>4. Answered' = Answered
    BY <2>3 DEF Answered
  <2>5. poll' \in [Names -> PollStates]
    <3>1. ASSUME NEW a \in Names PROVE [poll[a] EXCEPT !.wait = Less(@, 1)] \in PollStates
      <4>1. poll[a] \in PollStates /\ MaxWait \in Nat
        BY <1>0, WaitsBounded DEF PollTypeOK, PollStates
      <4>2. Less(poll[a].wait, 1) \in 0..MaxWait
        BY <4>1 DEF PollStates, Less
      <4> QED
        BY <4>1, <4>2 DEF PollStates
    <3> QED
      BY <1>10, <3>1 DEF PollTimePasses
  <2>6. UNCHANGED <<cursor, settings, ignored, loaded, edits, passed>>
    BY <1>10 DEF PollTimePasses
  <2>7. PassedInv'
    BY <1>0, <2>3, <2>6, QuietRing
  <2>8. PollTypeOK'
    BY <1>0, <2>2, <2>3, <2>4, <2>5, <2>6 DEF PollTypeOK, PollStates
  <2> QED
    BY <2>3, <2>7, <2>8 DEF PollInv
<1>11. CASE UNCHANGED pollVars
  <2>1. UNCHANGED <<poll, cursor, settings, ignored, loaded, round, edits, passed>>
    BY <1>11 DEF pollVars
  <2>2. Answered' = Answered
    BY <2>1 DEF Answered
  <2>3. PollTypeOK'
    BY <1>0, <2>1, <2>2 DEF PollTypeOK
  <2> QED
    BY <1>0, <2>1, <2>3, QuietRing DEF PollInv, RoundShape
<1> QED
  BY <1>2, <1>3, <1>5, <1>6, <1>7, <1>8, <1>9, <1>10, <1>11 DEF PollStep

LEMMA PollInvariance == Spec => []PollInv
<1>1. Init => PollInv
  BY InitPoll DEF Init
<1>2. PollInv /\ [Next]_vars => PollInv'
  BY PollSteps, StepPoll
<1> QED
  BY <1>1, <1>2, PTL DEF Spec

\* The cursor starves nobody: with n exchanges on the list, a due one is passed
\* over by at most (n - 1) \div MaxDue rounds in a row.
THEOREM NobodyStarves == Spec => []PassedOverBounded
<1>1. PollInv => PassedOverBounded
  <2> SUFFICES ASSUME PollInv, NEW a \in round.active
               PROVE  passed[a] <= (Cardinality(round.active) - 1) \div MaxDue
    BY DEF PassedOverBounded
  <2>1. /\ round.active \in SUBSET Names /\ passed[a] \in Nat /\ cursor \in Nat
        /\ MaxDue \in Nat \ {0}
    BY NamesRanked, SchedulerAssumption DEF PollInv, PollTypeOK
  <2>2. PICK n \in Nat : n = Cardinality(round.active)
    BY <2>1, Indices
  <2>3. Offset(RingStart(round.active), round.active, a) \in Nat
    <3>1. PICK start : /\ start = RingStart(round.active)
                       /\ start \in 0..Cardinality(round.active) - 1
      BY <2>1, RingStarts
    <3>2. Offset(start, round.active, a) \in 0..Cardinality(round.active) - 1
      BY <2>1, <3>1, Offsets
    <3> QED
      BY <2>2, <3>1, <3>2
  <2>4. passed[a] * MaxDue + Offset(RingStart(round.active), round.active, a) < n
    BY <2>2 DEF PollInv, PassedInv
  <2>5. PICK k \in Nat : k = passed[a] /\ k * MaxDue \in Nat
    BY <2>1
  <2>6. n - 1 \in Nat /\ k * MaxDue <= n - 1
    BY <2>2, <2>3, <2>4, <2>5
  <2>7. k <= (n - 1) \div MaxDue
    BY <2>1, <2>6, TimesFits
  <2> QED
    BY <2>2, <2>5, <2>7
<1> QED
  BY PollInvariance, <1>1, PTL

---------------------------------------------------------------------------
(* Both together. *)

\* The collector's task ends for stop() only, its loop with it, and the clients are
\* closed behind it.
ClosingInv ==
    /\ closed \in BOOLEAN
    /\ closed => stopped
    /\ ~alive[Collector] => stopping /\ round.phase = "ended"

LEMMA StepClosing ==
    SupervisorInv /\ PollInv /\ ClosingInv /\ [Next]_vars => ClosingInv'
<1> SUFFICES ASSUME SupervisorInv, PollInv, ClosingInv, [Next]_vars PROVE ClosingInv'
  OBVIOUS
<1>0. /\ alive[Collector] \in BOOLEAN /\ Collector \in Tasks
      /\ alive \in [Tasks -> BOOLEAN]
      /\ (stopped => stopping) /\ RoundShape
  BY CollectorAssumption DEF SupervisorInv, SupervisorTypeOK, Paced, PollInv
<1>1. CASE Round
  <2>1. alive[Collector] /\ UNCHANGED <<alive, stopped, closed>>
    BY <1>1 DEF Round, InCollector, RoundReported, Beat, Running, taskVars
  <2> QED
    BY <2>1 DEF ClosingInv
<1>2. CASE ~stopping /\ EditIgnored /\ UNCHANGED <<taskVars, closed>>
  BY <1>2 DEF EditIgnored, taskVars, ClosingInv
<1>3. CASE Supervision /\ UNCHANGED <<pollVars, closed>>
  <2>1. stopped => stopped'
    BY <1>3 DEF Supervision, Launch, ShowBackoff, Restart, Fail, Return, Beat,
                Cancelled, StopReturns
  <2>2. alive'[Collector] = alive[Collector]
    BY <1>0, <1>3 DEF Supervision, Launch, ShowBackoff, Restart, Fail, Return, Beat,
                      Cancelled, StopReturns, Others
  <2>3. stopping' = stopping
    BY <1>3 DEF Supervision, Launch, ShowBackoff, Restart, Fail, Return, Beat,
                Cancelled, StopReturns
  <2> QED
    BY <1>3, <2>1, <2>2, <2>3 DEF ClosingInv, pollVars
<1>4. CASE Stop /\ UNCHANGED <<pollVars, closed>>
  BY <1>4 DEF Stop, pollVars, ClosingInv
<1>5. CASE CollectorCancelled
  <2>1. round'.phase = "ended" /\ stopping' /\ UNCHANGED <<stopped, closed>>
    BY <1>5 DEF CollectorCancelled, LoopCancelled, Cancelled, Idle
  <2> QED
    BY <2>1 DEF ClosingInv
<1>6. CASE Close
  BY <1>6 DEF Close, pollVars, taskVars, ClosingInv
<1>7. CASE Tick
  <2>1. ~stopping /\ UNCHANGED <<alive, stopped, closed>>
    BY <1>7 DEF Tick, TaskTimePasses
  <2> QED
    BY <1>0, <2>1 DEF ClosingInv
<1>8. CASE UNCHANGED vars
  BY <1>8 DEF vars, pollVars, taskVars, ClosingInv
<1> QED
  BY <1>1, <1>2, <1>3, <1>4, <1>5, <1>6, <1>7, <1>8 DEF Next

LEMMA ClosingInvariance == Spec => []ClosingInv
<1>1. Init => ClosingInv
  BY CollectorAssumption DEF Init, SupervisorInit, ClosingInv
<1> QED
  BY SupervisorInvariance, PollInvariance, <1>1, StepClosing, PTL DEF Spec

\* Types; and no request of a round is under way once the clients are closed.
THEOREM TypesKept == Spec => []TypeOK
<1>1. SupervisorInv /\ PollInv /\ ClosingInv => TypeOK
  BY CollectorAssumption DEF SupervisorInv, PollInv, ClosingInv, TypeOK
<1> QED
  BY SupervisorInvariance, PollInvariance, ClosingInvariance, <1>1, PTL
---------------------------------------------------------------------------
(* The safety half of EveryoneServed. *)

\* A claim lasts exactly as long as the round that made it: whatever the polls
\* answer and however the round ends, no exchange is left marked in flight, which
\* would keep it from ever being due again.
ClaimsReleased ==
    \A a \in Names : poll[a].in_flight <=> round.phase = "polling" /\ a \in round.claims

LEMMA StepClaims == PollInv /\ ClaimsReleased /\ PollStep => ClaimsReleased'
<1> SUFFICES ASSUME PollInv, ClaimsReleased, PollStep, NEW a \in Names
             PROVE  poll'[a].in_flight <=> round'.phase = "polling" /\ a \in round'.claims
  BY DEF ClaimsReleased
<1>0. /\ poll \in [Names -> PollStates] /\ RoundShape
      /\ round.phase \in {"polling", "resting", "ended"}
      /\ poll[a].in_flight <=> round.phase = "polling" /\ a \in round.claims
  BY DEF PollInv, PollTypeOK, PollStates, ClaimsReleased
<1>1. ASSUME NEW without, MayBegin, ClaimDue(without)
      PROVE  poll'[a].in_flight <=> round'.phase = "polling" /\ a \in round'.claims
  <2> DEFINE list == Active(without)
             C == Claims(list)
  <2>1. ~poll[a].in_flight
    BY <1>0, <1>1 DEF MayBegin
  <2>2. CASE list = {}
    <3>1. round' = [Rest(round) EXCEPT !.active = {}] /\ poll' = poll
      BY <1>1, <2>2 DEF ClaimDue
    <3>2. round'.phase = "resting"
      BY <1>0, <3>1 DEF RoundShape, Rest
    <3> QED
      BY <2>1, <3>1, <3>2
  <2>3. CASE list # {}
    <3>1. /\ poll' = [b \in Names |-> [poll[b] EXCEPT !.in_flight = @ \/ b \in C]]
          /\ round'.phase = "polling" /\ round'.claims = C
      BY <1>1, <2>3 DEF ClaimDue
    <3>2. poll'[a].in_flight <=> poll[a].in_flight \/ a \in C
      <4>1. poll[a] \in PollStates
        BY <1>0
      <4> HIDE DEF C
      <4>2. poll'[a] = [poll[a] EXCEPT !.in_flight = poll[a].in_flight \/ a \in C]
        BY <3>1
      <4> QED
        BY <4>1, <4>2 DEF PollStates
    <3> QED
      BY <2>1, <3>1, <3>2
  <2> QED
    BY <2>2, <2>3
<1>2. CASE BeginRound \/ BeginRoundOnOldSettings
  BY <1>1, <1>2 DEF BeginRound, BeginRoundOnOldSettings
<1>3. CASE RoundWithoutSettings
  <2>1. round'.phase = "resting" /\ poll' = poll /\ round.phase = "resting"
    BY <1>0, <1>3 DEF RoundWithoutSettings, MayBegin, Rest, RoundShape
  <2> QED
    BY <1>0, <2>1
<1>4. CASE StorePollResults
  <2>1. /\ round'.phase = "resting" /\ round.phase = "polling"
        /\ poll'[a] = IF a \in round.claims
                      THEN StoredState(poll[a], round.answers[a], round.elapsed) ELSE poll[a]
    BY <1>0, <1>4 DEF StorePollResults, Rest, RoundShape
  <2>2. a \in round.claims => poll'[a].in_flight = FALSE
    BY <2>1 DEF StoredState
  <2> QED
    BY <1>0, <2>1, <2>2
<1>5. ASSUME NEW b \in Names, Answer(b)
      PROVE  poll'[a].in_flight <=> round'.phase = "polling" /\ a \in round'.claims
  <2>1. round'.phase = round.phase /\ round'.claims = round.claims /\ poll' = poll
    BY <1>0, <1>5 DEF Answer, RoundShape
  <2> QED
    BY <1>0, <2>1
<1>6. CASE EditIgnored \/ UNCHANGED pollVars
  BY <1>0, <1>6 DEF EditIgnored, pollVars
<1>7. CASE LoopCancelled
  BY <1>7 DEF LoopCancelled, Idle, Fresh
<1>8. CASE PollTimePasses
  <2>1. round'.phase = round.phase /\ round'.claims = round.claims
    BY <1>0, <1>8 DEF PollTimePasses, RoundShape
  <2>2. poll'[a].in_flight = poll[a].in_flight
    <3>1. poll[a] \in PollStates
      BY <1>0
    <3>2. poll'[a] = [poll[a] EXCEPT !.wait = Less(poll[a].wait, 1)]
      BY <1>8 DEF PollTimePasses
    <3> QED
      BY <3>1, <3>2 DEF PollStates
  <2> QED
    BY <1>0, <2>1, <2>2
<1> QED
  BY <1>2, <1>3, <1>4, <1>5, <1>6, <1>7, <1>8 DEF PollStep

THEOREM ClaimsAreReleased == Spec => []ClaimsReleased
<1>1. Init => ClaimsReleased
  BY DEF Init, PollInit, Fresh, Idle, ClaimsReleased
<1>2. PollInv /\ ClaimsReleased /\ [Next]_vars => ClaimsReleased'
  BY PollSteps, StepClaims
<1> QED
  BY PollInvariance, <1>1, <1>2, PTL DEF Spec
=============================================================================
