--------------------------- MODULE GateTwapProofs ---------------------------
(***************************************************************************)
(* Proofs about GateTwap for any set of jobs and requests: types, the      *)
(* account of orders, that a cancelled job sends nothing more, and that    *)
(* what a job takes is what its plan takes.  The inductions the last needs *)
(* (over the slices of a plan, over the elements of a sum) are arguments   *)
(* about a least counterexample, which needs no induction rule.            *)
(***************************************************************************)
EXTENDS GateTwap, FiniteSetTheorems, WellFoundedInduction, TLAPS

(* What holds of one job between any two steps.                            *)

(* An id that is not in use has no traces.                                 *)
Unused(j) ==
    state[j] = "none" =>
        /\ task[j] = "none" /\ next[j] = 1 /\ wire[j] = 0
        /\ arrived[j] = {} /\ counted[j] = {} /\ j \notin cancelled

(* Only the slice the job is at can be on the wire, and only while or      *)
(* after its task waited for the answer.                                   *)
OnTheWire(j) ==
    /\ wire[j] # 0 => /\ wire[j] = next[j] /\ next[j] \notin arrived[j]
                      /\ task[j] \in {"waiting", "cancelling", "done"}
    /\ task[j] = "waiting" => request[j].live /\ state[j] # "none"

(* Behind the job's slice, counted and taken orders are the same.          *)
Counted(j) ==
    /\ state[j] # "none" /\ request[j].live => counted[j] \subseteq arrived[j]
    /\ arrived[j] \subseteq counted[j] \cup {next[j]}
    /\ next[j] \in arrived[j] => task[j] \in {"waiting", "cancelling", "done"}
    /\ \A i \in counted[j] : i < next[j]

(* A completed job has nothing open; a cancelled one is on its way out.    *)
Ended(j) ==
    /\ state[j] = "completed" => /\ task[j] = "done" /\ wire[j] = 0
                                 /\ arrived[j] \subseteq counted[j]
    /\ j \in cancelled => task[j] \in {"cancelling", "done"}
    /\ closing => task[j] \in {"none", "cancelling", "done"}
    /\ task[j] = "none" <=> state[j] = "none"

JobInv(j) == Unused(j) /\ OnTheWire(j) /\ Counted(j) /\ Ended(j)

IInv == TypeOK /\ \A j \in Jobs : JobInv(j)

-----------------------------------------------------------------------------
LEMMA InitHolds == Init => IInv
<1> SUFFICES ASSUME Init PROVE IInv
    OBVIOUS
<1>1. TypeOK
  <2>1. /\ request \in [Jobs -> Requests \cup {NoRequest}]
        /\ next \in [Jobs -> Nat \ {0}] /\ wire \in [Jobs -> Nat]
      BY DEF Init
  <2>5. /\ closing \in BOOLEAN /\ closed \in BOOLEAN /\ cancelled \subseteq Jobs
      BY DEF Init
  <2>2. /\ counted \in [Jobs -> SUBSET Nat] /\ skipped \in [Jobs -> SUBSET Nat]
        /\ arrived \in [Jobs -> SUBSET Nat]
      BY DEF Init
  <2>3. /\ state \in [Jobs -> {"none", "queued", "running", "completed", "failed", "cancelled"}]
        /\ task \in [Jobs -> {"none", "created", "running", "waiting", "cancelling", "done"}]
      BY DEF Init
  <2>4. \A j \in Jobs : (state[j] = "none") <=> (request[j] = NoRequest)
      BY DEF Init
  <2> QED
      BY <2>1, <2>2, <2>3, <2>4, <2>5 DEF TypeOK
<1>2. ASSUME NEW j \in Jobs PROVE JobInv(j)
      BY <1>2 DEF Init, JobInv, Unused, OnTheWire, Counted, Ended
<1> QED
    BY <1>1, <1>2 DEF IInv

(* Every step keeps the types.                                             *)
LEMMA TypesKept == TypeOK /\ (\A j \in Jobs : JobInv(j)) /\ [Next]_vars => TypeOK'
<1> SUFFICES ASSUME TypeOK, \A j \in Jobs : JobInv(j), [Next]_vars PROVE TypeOK'
    OBVIOUS
<1> USE TwapAssumption DEF TypeOK, JobInv, Unused, Ended
<1>1. ASSUME NEW j \in Jobs, Start(j) PROVE TypeOK'
      BY <1>1 DEF Start
<1>2. ASSUME NEW j \in Jobs, Begin(j) PROVE TypeOK'
      BY <1>2 DEF Begin
<1>3. ASSUME NEW j \in Jobs, Skip(j) PROVE TypeOK'
      BY <1>3 DEF Skip, AtSlice
<1>4. ASSUME NEW j \in Jobs, DryOrder(j) PROVE TypeOK'
      BY <1>4 DEF DryOrder, AtSlice
<1>5. ASSUME NEW j \in Jobs, Send(j) PROVE TypeOK'
      BY <1>5 DEF Send, AtSlice
<1>6. ASSUME NEW j \in Jobs, Answered(j) PROVE TypeOK'
      BY <1>6 DEF Answered, Sent
<1>7. ASSUME NEW j \in Jobs, SendFails(j) PROVE TypeOK'
      BY <1>7 DEF SendFails
<1>8. ASSUME NEW j \in Jobs, Complete(j) PROVE TypeOK'
      BY <1>8 DEF Complete
<1>9. ASSUME NEW j \in Jobs, Arrive(j) \/ Lost(j) PROVE TypeOK'
      BY <1>9 DEF Arrive, Lost
<1>10. ASSUME NEW j \in Jobs, Cancel(j) PROVE TypeOK'
      BY <1>10 DEF Cancel, TaskCancelled, Known
<1>11. ASSUME NEW j \in Jobs, Unwind(j) PROVE TypeOK'
      BY <1>11 DEF Unwind
<1>12. CASE Close
      BY <1>12 DEF Close, TaskCancelled, Unfinished
<1>13. CASE CloseClient
      BY <1>13 DEF CloseClient
<1>14. CASE UNCHANGED vars
      BY <1>14 DEF vars
<1> QED
    BY <1>1, <1>2, <1>3, <1>4, <1>5, <1>6, <1>7, <1>8, <1>9, <1>10, <1>11, <1>12,
       <1>13, <1>14 DEF Next, JobStep

(* Every step keeps what holds of each job.                                *)
LEMMA JobsKept == IInv /\ [Next]_vars => \A k \in Jobs : JobInv(k)'
<1> SUFFICES ASSUME IInv, [Next]_vars, NEW k \in Jobs PROVE JobInv(k)'
    OBVIOUS
<1>0. TypeOK /\ JobInv(k)
      BY DEF IInv
<1> USE <1>0, TwapAssumption DEF TypeOK, JobInv, Unused, OnTheWire, Counted, Ended
<1>1. ASSUME NEW j \in Jobs, Start(j) PROVE JobInv(k)'
      BY <1>1 DEF Start
<1>2. ASSUME NEW j \in Jobs, Begin(j) PROVE JobInv(k)'
      BY <1>2 DEF Begin
<1>3. ASSUME NEW j \in Jobs, Skip(j) PROVE JobInv(k)'
      BY <1>3 DEF Skip, AtSlice
<1>4. ASSUME NEW j \in Jobs, DryOrder(j) PROVE JobInv(k)'
      BY <1>4 DEF DryOrder, AtSlice
<1>5. ASSUME NEW j \in Jobs, Send(j) PROVE JobInv(k)'
      BY <1>5 DEF Send, AtSlice
<1>6. ASSUME NEW j \in Jobs, Answered(j) PROVE JobInv(k)'
      BY <1>6 DEF Answered, Sent
<1>7. ASSUME NEW j \in Jobs, SendFails(j) PROVE JobInv(k)'
      BY <1>7 DEF SendFails
<1>8. ASSUME NEW j \in Jobs, Complete(j) PROVE JobInv(k)'
      BY <1>8 DEF Complete
<1>9. ASSUME NEW j \in Jobs, Arrive(j) \/ Lost(j) PROVE JobInv(k)'
      BY <1>9 DEF Arrive, Lost
<1>10. ASSUME NEW j \in Jobs, Cancel(j) PROVE JobInv(k)'
      BY <1>10 DEF Cancel, TaskCancelled, Unfinished, Known
<1>11. ASSUME NEW j \in Jobs, Unwind(j) PROVE JobInv(k)'
      BY <1>11 DEF Unwind
<1>12. CASE Close
      BY <1>12 DEF Close, TaskCancelled, Unfinished
<1>13. CASE CloseClient
      BY <1>13 DEF CloseClient
<1>14. CASE UNCHANGED vars
      BY <1>14 DEF vars
<1> QED
    BY <1>1, <1>2, <1>3, <1>4, <1>5, <1>6, <1>7, <1>8, <1>9, <1>10, <1>11, <1>12,
       <1>13, <1>14 DEF Next, JobStep

LEMMA Inductive == IInv /\ [Next]_vars => IInv'
  BY TypesKept, JobsKept DEF IInv

THEOREM Invariance == Spec => []IInv
<1>1. Init => IInv
      BY InitHolds
<1>2. IInv /\ [Next]_vars => IInv'
      BY Inductive
<1> QED
    BY <1>1, <1>2, PTL DEF Spec

-----------------------------------------------------------------------------
(* The types of the jobs' state hold for any jobs and requests.            *)
THEOREM TypeCorrect == Spec => []TypeOK
<1>1. IInv => TypeOK
      BY DEF IInv
<1> QED
    BY <1>1, Invariance, PTL

(* Counted orders were taken, and at most the last one sent is open; for   *)
(* any jobs and plans (_run, cancel, aclose).                              *)
THEOREM OrdersAreAccounted == Spec => []OrdersAccounted
<1>1. ASSUME IInv PROVE OrdersAccounted
  <2> SUFFICES ASSUME NEW j \in Jobs
      PROVE /\ (state[j] # "none" /\ request[j].live) => counted[j] \subseteq arrived[j]
            /\ (arrived[j] \cup ({wire[j]} \ {0})) \ counted[j] \subseteq {next[j]}
            /\ state[j] = "completed" =>
                 (arrived[j] \cup ({wire[j]} \ {0})) \ counted[j] = {}
      BY DEF OrdersAccounted
  <2>1. TypeOK /\ JobInv(j)
      BY <1>1 DEF IInv
  <2> QED
      BY <2>1 DEF TypeOK, JobInv, OnTheWire, Counted, Ended
<1> QED
    BY <1>1, Invariance, PTL

(* After a cancellation and after the shutdown no job sends an order.      *)
THEOREM CancelledStaysSilent == Spec => CancelledSendsNothing
<1>1. IInv /\ [Next]_vars =>
        [\A j \in Jobs : (wire'[j] # wire[j] /\ wire'[j] # 0)
                         => j \notin cancelled /\ ~closing]_vars
  <2> SUFFICES ASSUME IInv, Next, NEW k \in Jobs, wire'[k] # wire[k], wire'[k] # 0
      PROVE  k \notin cancelled /\ ~closing
      OBVIOUS
  <2>1. TypeOK /\ JobInv(k)
      BY DEF IInv
  <2>2. ASSUME NEW j \in Jobs, Send(j) PROVE k \notin cancelled /\ ~closing
    <3>1. k = j
        BY <2>1, <2>2 DEF Send, TypeOK
    <3> QED
        BY <2>1, <2>2, <3>1 DEF Send, AtSlice, JobInv, Ended
  <2>3. ASSUME NEW j \in Jobs, Arrive(j) \/ Lost(j) PROVE FALSE
      BY <2>1, <2>3 DEF Arrive, Lost, TypeOK
  <2>4. ASSUME UNCHANGED wire PROVE FALSE
      BY <2>4
  <2> QED
      BY <2>2, <2>3, <2>4 DEF Next, JobStep, Start, Begin, Skip, DryOrder, Answered,
         SendFails, Complete, Cancel, Unwind, Close, CloseClient
<1> QED
    BY <1>1, Invariance, PTL DEF Spec, CancelledSendsNothing

---------------------------------------------------------------------------
(* Sums over a finite set, as MapThenSumSet takes them: one element chosen  *)
(* at a time.                                                               *)

Pick(s) == CHOOSE x \in s : TRUE

SumsUp(f, g, S) ==
    f = [s \in SUBSET S |-> IF s = {} THEN 0 ELSE g[Pick(s)] + f[s \ {Pick(s)}]]

SetSum(g, S) == (CHOOSE f : SumsUp(f, g, S))[S]

(* Finite sets have no descending chain, stated without an operator argument. *)
LEMMA SmallestSubset ==
    ASSUME NEW S, IsFiniteSet(S), NEW B \in SUBSET SUBSET S, B # {}
    PROVE  \E T \in B : \A U \in B : ~(U \subseteq T /\ U # T)
<1>1. B \subseteq FiniteSubsetsOf(S)
    BY FS_Subset DEF FiniteSubsetsOf
<1>2. PICK T \in B : \A U \in B : ~(<<U, T>> \in StrictSubsetOrdering(S))
    BY <1>1, FS_StrictSubsetOrderingWellFounded, WFMin
<1>. QED  BY <1>2 DEF StrictSubsetOrdering

(* Two such sums agree where both are defined. *)
LEMMA SumsAgree ==
    ASSUME NEW g, NEW S, IsFiniteSet(S), NEW U \in SUBSET S, NEW V \in SUBSET S,
           NEW f, SumsUp(f, g, U), NEW h, SumsUp(h, g, V),
           NEW s \in SUBSET U, s \in SUBSET V
    PROVE  f[s] = h[s]
<1>. DEFINE B == {t \in SUBSET S : t \subseteq U /\ t \subseteq V /\ f[t] # h[t]}
<1>1. SUFFICES ASSUME B # {} PROVE FALSE
    OBVIOUS
<1>2. PICK t \in B : \A u \in B : ~(u \subseteq t /\ u # t)
  <2>1. B \in SUBSET SUBSET S
      OBVIOUS
  <2>. HIDE DEF B
  <2>. QED  BY <1>1, <2>1, SmallestSubset
<1>3. t # {} /\ t \subseteq U /\ t \subseteq V /\ f[t] # h[t]
    BY <1>2 DEF SumsUp
<1>. DEFINE r == t \ {Pick(t)}
<1>4. Pick(t) \in t
    BY <1>3 DEF Pick
<1>5. r \subseteq U /\ r \subseteq V /\ r # t /\ r \subseteq t
    BY <1>3, <1>4
<1>6. f[r] = h[r]
    BY <1>2, <1>5
<1>7. f[t] = g[Pick(t)] + f[r] /\ h[t] = g[Pick(t)] + h[r]
    BY <1>3 DEF SumsUp
<1>. QED  BY <1>3, <1>6, <1>7

(* There is such a sum. *)
LEMMA SumExists ==
    ASSUME NEW g, NEW S, IsFiniteSet(S)
    PROVE  \E f : SumsUp(f, g, S)
<1>. DEFINE B == {T \in SUBSET S : ~ \E f : SumsUp(f, g, T)}
<1>1. SUFFICES ASSUME B # {} PROVE FALSE
    OBVIOUS
<1>2. PICK T \in B : \A u \in B : ~(u \subseteq T /\ u # T)
  <2>1. B \in SUBSET SUBSET S
      OBVIOUS
  <2>. HIDE DEF B
  <2>. QED  BY <1>1, <2>1, SmallestSubset
<1>. DEFINE Sol(u) == CHOOSE f : SumsUp(f, g, u)
            f == [s \in SUBSET T |-> IF s = {} THEN 0
                     ELSE g[Pick(s)] + Sol(s \ {Pick(s)})[s \ {Pick(s)}]]
<1>3. ASSUME NEW u \in SUBSET T, u # T PROVE SumsUp(Sol(u), g, u)
  <2>1. u \in SUBSET S /\ u \notin B
      BY <1>2, <1>3
  <2>2. PICK h : SumsUp(h, g, u)
      BY <2>1
  <2>. QED  BY <2>2
<1>4. ASSUME NEW s \in SUBSET T, s # {}
      PROVE  f[s \ {Pick(s)}] = Sol(s \ {Pick(s)})[s \ {Pick(s)}]
  <2>. DEFINE u == s \ {Pick(s)}
             p == u \ {Pick(u)}
  <2>1. Pick(s) \in s /\ u \in SUBSET T /\ u # T
      BY <1>4 DEF Pick
  <2>2. SumsUp(Sol(u), g, u)
      BY <1>3, <2>1
  <2>3. CASE u = {}
    <3>1. Sol(u)[u] = 0
        BY <2>2, <2>3 DEF SumsUp
    <3>. QED  BY <2>1, <2>3, <3>1
  <2>4. CASE u # {}
    <3>1. Pick(u) \in u
        BY <2>4 DEF Pick
    <3>2. p \in SUBSET u /\ p \in SUBSET T /\ p # T /\ u \in SUBSET S /\ p \in SUBSET S
        BY <2>1, <3>1
    <3>3. SumsUp(Sol(p), g, p)
        BY <1>3, <3>2
    <3>4. Sol(u)[p] = Sol(p)[p]
      <4>. HIDE DEF Sol, u, p
      <4>. QED  BY <2>2, <3>2, <3>3, SumsAgree
    <3>5. Sol(u)[u] = g[Pick(u)] + Sol(u)[p]
      <4>. HIDE DEF Sol
      <4>. QED  BY <2>2, <2>4 DEF SumsUp
    <3>6. f[u] = g[Pick(u)] + Sol(p)[p]
        BY <2>1, <2>4
    <3>. HIDE DEF Sol, f, u, p
    <3>7. f[u] = Sol(u)[u]
        BY <3>4, <3>5, <3>6
    <3>. QED  BY <3>7 DEF u
  <2>. QED  BY <2>3, <2>4
<1>5. SumsUp(f, g, T)
  <2>. HIDE DEF Sol
  <2>1. \A s \in SUBSET T : s # {} => f[s] = g[Pick(s)] + f[s \ {Pick(s)}]
      BY <1>4
  <2>2. f = [s \in SUBSET T |-> f[s]]
      OBVIOUS
  <2>3. f[{}] = 0
      OBVIOUS
  <2>. HIDE DEF f
  <2>. QED  BY <2>1, <2>2, <2>3 DEF SumsUp
<1>. HIDE DEF f
<1>. QED  BY <1>2, <1>5

LEMMA SumEmpty == ASSUME NEW g PROVE SetSum(g, {}) = 0
<1>1. PICK f : SumsUp(f, g, {})
    BY SumExists, FS_EmptySet
<1>2. SumsUp(CHOOSE h : SumsUp(h, g, {}), g, {})
    BY <1>1
<1>. QED  BY <1>2 DEF SetSum, SumsUp

LEMMA SumPick ==
    ASSUME NEW g, NEW S, IsFiniteSet(S), S # {}
    PROVE  SetSum(g, S) = g[Pick(S)] + SetSum(g, S \ {Pick(S)})
<1>. DEFINE f == CHOOSE h : SumsUp(h, g, S)
            T == S \ {Pick(S)}
            k == CHOOSE h : SumsUp(h, g, T)
<1>1. IsFiniteSet(T)
    BY FS_Subset
<1>2. SumsUp(f, g, S) /\ SumsUp(k, g, T)
    BY <1>1, SumExists
<1>3. f[T] = k[T]
  <2>. HIDE DEF f, k
  <2>. QED  BY <1>2, SumsAgree
<1>4. f[S] = g[Pick(S)] + f[T]
  <2>. HIDE DEF f
  <2>. QED  BY <1>2 DEF SumsUp
<1>. QED  BY <1>3, <1>4 DEF SetSum

LEMMA SumNat ==
    ASSUME NEW g, NEW S, IsFiniteSet(S), \A x \in S : g[x] \in Nat
    PROVE  SetSum(g, S) \in Nat
<1>. DEFINE B == {t \in SUBSET S : SetSum(g, t) \notin Nat}
<1>1. SUFFICES ASSUME B # {} PROVE FALSE
    OBVIOUS
<1>2. PICK t \in B : \A u \in B : ~(u \subseteq t /\ u # t)
  <2>1. B \in SUBSET SUBSET S
      OBVIOUS
  <2>. HIDE DEF B
  <2>. QED  BY <1>1, <2>1, SmallestSubset
<1>3. t # {} /\ IsFiniteSet(t)
  <2>1. SetSum(g, {}) \in Nat
      BY SumEmpty
  <2>2. t \in SUBSET S /\ t # {}
      BY <1>2, <2>1
  <2>. QED  BY <2>2, FS_Subset
<1>4. Pick(t) \in t
    BY <1>3 DEF Pick
<1>5. SetSum(g, t \ {Pick(t)}) \in Nat
    BY <1>2, <1>4
<1>6. SetSum(g, t) = g[Pick(t)] + SetSum(g, t \ {Pick(t)})
    BY <1>3, SumPick
<1>. QED  BY <1>2, <1>4, <1>5, <1>6

(* A sum may be taken with any of its elements first. *)
FirstOf(g, S, x) == SetSum(g, S) = g[x] + SetSum(g, S \ {x})

LEMMA SumAny ==
    ASSUME NEW g, NEW S, IsFiniteSet(S), \A x \in S : g[x] \in Nat
    PROVE  \A x \in S : FirstOf(g, S, x)
<1>. DEFINE B == {t \in SUBSET S : \E y \in t : SetSum(g, t) # g[y] + SetSum(g, t \ {y})}
<1>1. SUFFICES ASSUME B # {} PROVE FALSE
    BY DEF FirstOf
<1>2. PICK t \in B : \A u \in B : ~(u \subseteq t /\ u # t)
  <2>1. B \in SUBSET SUBSET S
      OBVIOUS
  <2>. HIDE DEF B
  <2>. QED  BY <1>1, <2>1, SmallestSubset
<1>3. PICK y \in t : SetSum(g, t) # g[y] + SetSum(g, t \ {y})
    BY <1>2
<1>4. PICK c \in t : c = Pick(t) /\ SetSum(g, t) = g[c] + SetSum(g, t \ {c})
  <2>1. IsFiniteSet(t) /\ t # {}
      BY <1>2, <1>3, FS_Subset
  <2>2. Pick(t) \in t
      BY <2>1 DEF Pick
  <2>. QED  BY <2>1, <2>2, SumPick
<1>5. c # y
    BY <1>3, <1>4
<1>. DEFINE r == (t \ {c}) \ {y}
<1>6. SetSum(g, t \ {c}) = g[y] + SetSum(g, r)
  <2>1. t \ {c} \in SUBSET S /\ t \ {c} \notin B /\ y \in t \ {c}
      BY <1>2, <1>3, <1>4, <1>5
  <2>. QED  BY <2>1
<1>7. SetSum(g, t \ {y}) = g[c] + SetSum(g, r)
  <2>1. t \ {y} \in SUBSET S /\ t \ {y} \notin B /\ c \in t \ {y}
      BY <1>2, <1>3, <1>4, <1>5
  <2>2. (t \ {y}) \ {c} = r
      OBVIOUS
  <2>. QED  BY <2>1, <2>2
<1>8. SetSum(g, r) \in Nat /\ g[c] \in Nat /\ g[y] \in Nat
  <2>1. r \in SUBSET S
      BY <1>2
  <2>. QED  BY <1>2, <2>1, SumNat, FS_Subset
<1>. HIDE DEF r
<1>. QED  BY <1>3, <1>4, <1>6, <1>7, <1>8

---------------------------------------------------------------------------
(* What the plan computes.                                                 *)

(* floor_order_size: whole steps, never more than the size it is given.    *)
LEMMA FlooredSize ==
    ASSUME NEW h \in Nat, NEW c \in Nat \ {0}
    PROVE  /\ h \div (100 * c) \in Nat
           /\ (h \div (100 * c)) * c \in Nat
           /\ 100 * ((h \div (100 * c)) * c) <= h
           /\ h < 100 * ((h \div (100 * c)) * c) + 100 * c
<1>. DEFINE d == 100 * c
            q == h \div d
<1>1. d \in Nat /\ d > 0
    OBVIOUS
<1>2. q \in Nat /\ d * q <= h /\ h < d * q + d
  <2>. HIDE DEF d
  <2>. QED  BY <1>1
<1>3. d * q = 100 * (q * c) /\ q * c \in Nat
  <2>. HIDE DEF q
  <2>. QED  BY <1>2
<1>. QED  BY <1>2, <1>3

(* A minimum of whole steps holds at least one.                            *)
LEMMA MinimumOfSteps ==
    ASSUME NEW m \in Nat \ {0}, NEW c \in Nat \ {0}, m % c = 0, NEW n \in Nat,
           NEW q \in Nat, n = q * c, n < m
    PROVE  n + c <= m
<1>. DEFINE p == m \div c
<1>1. p \in Nat /\ m = c * p
    OBVIOUS
<1>. HIDE DEF p
<1>2. q < p
  <2>1. ASSUME p <= q PROVE FALSE
    <3>1. c * p <= c * q
        BY <1>1, <2>1
    <3>. QED  BY <1>1, <3>1
  <2>. QED  BY <1>1, <2>1
<1>3. c * (q + 1) <= c * p
    BY <1>1, <1>2
<1>. QED  BY <1>1, <1>3

(* An order never exceeds what is left; the last order of a plan that takes *)
(* the rest leaves less than an order of the minimum size.                  *)
LEMMA OrderFits ==
    ASSUME NEW rq \in Requests, NEW i \in Nat, NEW r \in Nat
    PROVE  /\ OrderSize(rq, i, r) \in Nat /\ OrderSize(rq, i, r) <= r
           /\ rq.last_order_all /\ i = rq.count => r - OrderSize(rq, i, r) < rq.min
<1>1. /\ rq.step \in Nat \ {0} /\ rq.min \in Nat \ {0} /\ rq.min % rq.step = 0
      /\ rq.percent \in Nat /\ rq.initial \in Nat
    BY TwapAssumption DEF RequestType
<1>. DEFINE raw == IF rq.last_order_all /\ i = rq.count THEN r * 100
                   ELSE (IF rq.mode = "remaining" THEN r ELSE rq.initial) * rq.percent
            h == SmallerOf(raw, r * 100)
            n == (h \div (100 * rq.step)) * rq.step
<1>2. raw \in Nat
    BY <1>1
<1>3. h \in Nat /\ h <= r * 100 /\ (rq.last_order_all /\ i = rq.count => h = r * 100)
    BY <1>2 DEF SmallerOf
<1>4. /\ h \div (100 * rq.step) \in Nat
      /\ n \in Nat /\ 100 * n <= h /\ h < 100 * n + 100 * rq.step
  <2>. HIDE DEF h
  <2>1. h \in Nat /\ rq.step \in Nat \ {0}
      BY <1>1, <1>3
  <2>2. PICK c : c = rq.step
      OBVIOUS
  <2>3. c \in Nat \ {0}
      BY <2>1, <2>2
  <2>4. /\ h \div (100 * c) \in Nat
        /\ (h \div (100 * c)) * c \in Nat
        /\ 100 * ((h \div (100 * c)) * c) <= h
        /\ h < 100 * ((h \div (100 * c)) * c) + 100 * c
      BY <2>1, <2>3, FlooredSize
  <2>. QED  BY <2>2, <2>4
<1>5. OrderSize(rq, i, r) = IF n >= rq.min THEN n ELSE 0
    BY DEF OrderSize, FloorOrderSize
<1>6. n <= r
  <2>. HIDE DEF n, h
  <2>. QED  BY <1>3, <1>4
<1>7. ASSUME rq.last_order_all, i = rq.count, n < rq.min PROVE r < rq.min
  <2>1. n + rq.step <= rq.min
    <3>1. PICK q \in Nat : n = q * rq.step
        BY <1>4
    <3>. HIDE DEF n
    <3>. QED  BY <1>1, <1>4, <1>7, <3>1, MinimumOfSteps
  <2>2. r * 100 < 100 * n + 100 * rq.step
      BY <1>3, <1>4, <1>7
  <2>. HIDE DEF n
  <2>. QED  BY <1>1, <1>4, <2>1, <2>2
<1>8. ASSUME rq.last_order_all, i = rq.count, n >= rq.min PROVE r - n < rq.min
  <2>1. rq.step <= rq.min
    <3>1. \A m, c \in Nat \ {0} : m % c = 0 => 0 + c <= m
      <4>. SUFFICES ASSUME NEW m \in Nat \ {0}, NEW c \in Nat \ {0}, m % c = 0
                    PROVE  0 + c <= m
          OBVIOUS
      <4>1. 0 = 0 * c /\ 0 < m /\ 0 \in Nat
          OBVIOUS
      <4>. QED  BY <4>1, MinimumOfSteps
    <3>. QED  BY <1>1, <3>1
  <2>2. r * 100 < 100 * n + 100 * rq.step
      BY <1>3, <1>4, <1>8
  <2>. HIDE DEF n
  <2>. QED  BY <1>1, <1>4, <2>1, <2>2
<1>. HIDE DEF n
<1>. QED  BY <1>1, <1>4, <1>5, <1>6, <1>7, <1>8

\* What is left after a slice of which "left" was there.
LeftAfter(rq, i, left) ==
    LET order == OrderSize(rq, i, left) IN IF order > left THEN 0 ELSE left - order

Descends(f, rq, n) ==
    f = [i \in 0..n |-> IF i = 0 THEN rq.initial ELSE LeftAfter(rq, i, f[i - 1])]

(* The naturals are well-founded, stated without an operator argument.     *)
Less == {p \in Nat \X Nat : p[1] < p[2]}
LEMMA LeastNumber ==
    ASSUME NEW B \in SUBSET Nat, B # {}
    PROVE  \E n \in B : \A m \in B : n <= m
<1>1. IsWellFoundedOn(Less, Nat)
    BY NatLessThanWellFounded DEF OpToRel, Less
<1>2. PICK n \in B : \A m \in B : ~ (<<m, n>> \in Less)
    BY <1>1, WFMin
<1>3. ASSUME NEW m \in B PROVE n <= m
  <2>1. m \in Nat /\ n \in Nat /\ <<m, n>> \notin Less
      BY <1>2
  <2>2. ~(m < n)
      BY <2>1 DEF Less
  <2>. QED  BY <2>1, <2>2
<1>. QED  BY <1>3

LEMMA PlanExists ==
    ASSUME NEW rq, NEW n \in Nat
    PROVE  \E f : Descends(f, rq, n)
<1>. DEFINE B == {m \in Nat : ~ \E f : Descends(f, rq, m)}
<1>1. SUFFICES ASSUME B # {} PROVE FALSE
    OBVIOUS
<1>2. PICK m \in B : \A k \in B : m <= k
    BY <1>1, LeastNumber
<1>3. CASE m = 0
  <2>. DEFINE f == [i \in 0..0 |-> rq.initial]
  <2>1. Descends(f, rq, 0)
      BY DEF Descends
  <2>. QED  BY <1>2, <1>3, <2>1
<1>4. CASE m > 0
  <2>1. m \in Nat /\ m - 1 \in Nat /\ m - 1 \notin B
      BY <1>2, <1>4
  <2>2. PICK f : Descends(f, rq, m - 1)
      BY <2>1
  <2>. DEFINE g == [i \in 0..m |-> IF i = m THEN LeftAfter(rq, m, f[m - 1]) ELSE f[i]]
  <2>3. \A i \in 0..m - 1 : g[i] = f[i]
      BY <2>1
  <2>4. \A i \in 0..m : g[i] = IF i = 0 THEN rq.initial ELSE LeftAfter(rq, i, g[i - 1])
    <3>1. ASSUME NEW i \in 0..m, i = 0 PROVE g[i] = rq.initial
        BY <1>4, <2>1, <2>2, <2>3, <3>1 DEF Descends
    <3>2. ASSUME NEW i \in 0..m, i # 0 PROVE g[i] = LeftAfter(rq, i, g[i - 1])
      <4>1. i - 1 \in 0..m - 1
          BY <2>1, <3>2
      <4>2. g[i - 1] = f[i - 1]
          BY <2>3, <4>1
      <4>3. CASE i = m
          BY <4>2, <4>3
      <4>4. CASE i # m
        <5>1. i \in 0..m - 1
            BY <2>1, <4>4
        <5>2. f[i] = LeftAfter(rq, i, f[i - 1])
            BY <2>2, <3>2, <5>1 DEF Descends
        <5>. QED  BY <2>3, <4>2, <5>1, <5>2
      <4>. QED  BY <4>3, <4>4
    <3>. QED  BY <3>1, <3>2
  <2>5. g = [i \in 0..m |-> g[i]]
      OBVIOUS
  <2>. HIDE DEF g
  <2>6. Descends(g, rq, m)
      BY <2>4, <2>5 DEF Descends
  <2>. QED  BY <1>2, <2>6
<1>. QED  BY <1>2, <1>3, <1>4

(* Slice by slice the plan takes what it orders from what is left.         *)
LEMMA PlanDescends ==
    ASSUME NEW rq \in Requests
    PROVE  /\ rq.count \in Nat /\ rq.initial \in Nat
           /\ RemainingAfter(rq) \in [0..rq.count -> Nat]
           /\ RemainingAfter(rq)[0] = rq.initial
           /\ \A i \in 1..rq.count :
                 /\ Plan(rq)[i] = OrderSize(rq, i, RemainingAfter(rq)[i - 1])
                 /\ Plan(rq)[i] \in Nat
                 /\ RemainingAfter(rq)[i] = RemainingAfter(rq)[i - 1] - Plan(rq)[i]
                 /\ RemainingAfter(rq)[i] \in Nat
<1>. DEFINE f == RemainingAfter(rq)
<1>1. rq.count \in Nat /\ rq.initial \in Nat
    BY TwapAssumption DEF RequestType
<1>2. f = CHOOSE h : Descends(h, rq, rq.count)
    BY DEF RemainingAfter, Descends, LeftAfter
<1>3. Descends(f, rq, rq.count)
    BY <1>1, <1>2, PlanExists
<1>. HIDE DEF f
<1>4. \A i \in 0..rq.count :
          f[i] = IF i = 0 THEN rq.initial ELSE LeftAfter(rq, i, f[i - 1])
    BY <1>1, <1>3 DEF Descends
<1>. DEFINE B == {i \in Nat : i \in 0..rq.count /\ f[i] \notin Nat}
<1>5. B = {}
  <2>1. SUFFICES ASSUME B # {} PROVE FALSE
      OBVIOUS
  <2>2. PICK m \in B : \A k \in B : m <= k
    <3>1. B \in SUBSET Nat
        OBVIOUS
    <3>. HIDE DEF B
    <3>. QED  BY <2>1, <3>1, LeastNumber
  <2>3. m # 0 /\ m \in 0..rq.count
      BY <1>1, <1>4, <2>2
  <2>4. m - 1 \in 0..rq.count /\ m - 1 \notin B /\ m - 1 \in Nat
      BY <1>1, <2>2, <2>3
  <2>5. f[m - 1] \in Nat
      BY <2>4
  <2>6. OrderSize(rq, m, f[m - 1]) \in Nat /\ OrderSize(rq, m, f[m - 1]) <= f[m - 1]
      BY <2>2, <2>5, OrderFits
  <2>7. LeftAfter(rq, m, f[m - 1]) \in Nat
      BY <2>5, <2>6 DEF LeftAfter
  <2>. QED  BY <1>4, <2>2, <2>3, <2>7
<1>6. \A i \in 0..rq.count : f[i] \in Nat
    BY <1>1, <1>5
<1>7. f \in [0..rq.count -> Nat]
    BY <1>3, <1>6 DEF Descends
<1>8. ASSUME NEW i \in 1..rq.count
      PROVE  /\ Plan(rq)[i] = OrderSize(rq, i, f[i - 1])
             /\ Plan(rq)[i] \in Nat
             /\ f[i] = f[i - 1] - Plan(rq)[i]
             /\ f[i] \in Nat
  <2>1. i - 1 \in 0..rq.count /\ i \in 0..rq.count /\ i # 0 /\ i \in Nat
      BY <1>1
  <2>2. Plan(rq)[i] = OrderSize(rq, i, f[i - 1])
      BY DEF Plan, f
  <2>3. f[i - 1] \in Nat
      BY <1>6, <2>1
  <2>4. OrderSize(rq, i, f[i - 1]) \in Nat /\ OrderSize(rq, i, f[i - 1]) <= f[i - 1]
      BY <2>1, <2>3, OrderFits
  <2>5. f[i] = LeftAfter(rq, i, f[i - 1])
      BY <1>4, <2>1
  <2>. QED  BY <1>6, <2>1, <2>2, <2>3, <2>4, <2>5 DEF LeftAfter
<1>9. f[0] = rq.initial
    BY <1>1, <1>4
<1>. QED  BY <1>1, <1>7, <1>8, <1>9 DEF f

(* Sums over some of n numbered slices.                                     *)
LEMMA SliceSums ==
    ASSUME NEW g, NEW n \in Nat, \A i \in 1..n : g[i] \in Nat
    PROVE  \A D \in SUBSET (1..n) :
              /\ IsFiniteSet(D) /\ SetSum(g, D) \in Nat
              /\ \A x \in D : FirstOf(g, D, x)
<1>. SUFFICES ASSUME NEW D \in SUBSET (1..n)
              PROVE  /\ IsFiniteSet(D) /\ SetSum(g, D) \in Nat
                     /\ \A x \in D : FirstOf(g, D, x)
    OBVIOUS
<1>1. IsFiniteSet(1..n)
    BY FS_Interval
<1>2. IsFiniteSet(D)
    BY <1>1, FS_Subset
<1>3. \A x \in D : g[x] \in Nat
    OBVIOUS
<1>4. SetSum(g, D) \in Nat
    BY <1>2, <1>3, SumNat
<1>5. \A x \in D : FirstOf(g, D, x)
    BY <1>2, <1>3, SumAny
<1>. QED  BY <1>2, <1>4, <1>5

(* Any orders of the plan add up to what it takes from the position at most, *)
(* and to just that when only skipped slices are missing.                    *)
LEMMA PlanAddsUp ==
    ASSUME NEW rq \in Requests, NEW A \in SUBSET (1..rq.count)
    PROVE  /\ IsFiniteSet(A)
           /\ SetSum(Plan(rq), A) \in Nat
           /\ SetSum(Plan(rq), A) <= rq.initial
           /\ (\A i \in 1..rq.count \ A : Plan(rq)[i] = 0)
                 => SetSum(Plan(rq), A) = rq.initial - RemainingAfter(rq)[rq.count]
<1>. DEFINE g == Plan(rq)
            f == RemainingAfter(rq)
            c == rq.count
<1>1. /\ c \in Nat /\ rq.initial \in Nat /\ f[0] = rq.initial
      /\ \A i \in 0..c : f[i] \in Nat
      /\ \A i \in 1..c : g[i] \in Nat /\ f[i] = f[i - 1] - g[i]
    BY PlanDescends
<1>. HIDE DEF g, f, c
<1>2. \A D \in SUBSET (1..c) :
          /\ IsFiniteSet(D) /\ SetSum(g, D) \in Nat
          /\ \A x \in D : FirstOf(g, D, x)
    BY <1>1, SliceSums
<1>. DEFINE Fits(i, D) == /\ SetSum(g, D) <= rq.initial - f[i]
                          /\ (\A k \in 1..i \ D : g[k] = 0) => SetSum(g, D) = rq.initial - f[i]
            B == {i \in Nat : i <= c /\ \E D \in SUBSET (1..i) : ~Fits(i, D)}
<1>3. B = {}
  <2>1. SUFFICES ASSUME B # {} PROVE FALSE
      OBVIOUS
  <2>2. PICK i \in B : \A k \in B : i <= k
    <3>1. B \in SUBSET Nat
        OBVIOUS
    <3>. HIDE DEF B
    <3>. QED  BY <2>1, <3>1, LeastNumber
  <2>3. i \in Nat /\ i <= c
      BY <2>2
  <2>4. PICK D \in SUBSET (1..i) : ~Fits(i, D)
      BY <2>2
  <2>5. CASE i = 0
    <3>1. D = {}
        BY <2>5
    <3>2. SetSum(g, D) = 0
        BY <3>1, SumEmpty
    <3>. QED  BY <1>1, <2>4, <2>5, <3>2
  <2>6. CASE i > 0
    <3>1. /\ i - 1 \in Nat /\ i - 1 <= c /\ i - 1 \notin B
          /\ i \in 1..c /\ i \in 0..c /\ i - 1 \in 0..c
        BY <1>1, <2>2, <2>3, <2>6
    <3>2. \A E \in SUBSET (1..i - 1) : Fits(i - 1, E)
        BY <3>1
    <3>3. f[i] \in Nat /\ f[i - 1] \in Nat /\ g[i] \in Nat /\ f[i] = f[i - 1] - g[i]
        BY <1>1, <3>1
    <3>4. CASE i \in D
      <4>. DEFINE E == D \ {i}
      <4>1. E \in SUBSET (1..i - 1) /\ D \in SUBSET (1..c) /\ E \in SUBSET (1..c)
          BY <1>1, <2>3, <2>6
      <4>2. SetSum(g, D) = g[i] + SetSum(g, E)
          BY <1>2, <3>4, <4>1 DEF FirstOf
      <4>3. SetSum(g, E) \in Nat /\ SetSum(g, D) \in Nat
          BY <1>2, <4>1
      <4>4. (1..i - 1) \ E \subseteq (1..i) \ D
          BY <2>3, <2>6
      <4>. HIDE DEF E
      <4>5. Fits(i - 1, E)
          BY <3>2, <4>1
      <4>6. SetSum(g, E) <= rq.initial - f[i - 1]
          BY <4>5
      <4>7. (\A k \in 1..i \ D : g[k] = 0) => SetSum(g, E) = rq.initial - f[i - 1]
          BY <4>4, <4>5
      <4>8. Fits(i, D)
          BY <1>1, <3>3, <4>2, <4>3, <4>6, <4>7
      <4>. QED  BY <2>4, <4>8
    <3>5. CASE i \notin D
      <4>1. D \in SUBSET (1..i - 1) /\ D \in SUBSET (1..c) /\ (1..i - 1) \ D \subseteq (1..i) \ D
          BY <1>1, <2>3, <2>6, <3>5
      <4>2. SetSum(g, D) \in Nat
          BY <1>2, <4>1
      <4>3. Fits(i - 1, D)
          BY <3>2, <4>1
      <4>4. (\A k \in 1..i \ D : g[k] = 0) => g[i] = 0
          BY <2>3, <2>6, <3>5
      <4>5. SetSum(g, D) <= rq.initial - f[i - 1]
          BY <4>3
      <4>6. (\A k \in 1..i \ D : g[k] = 0) => SetSum(g, D) = rq.initial - f[i - 1]
          BY <4>1, <4>3
      <4>7. Fits(i, D)
          BY <1>1, <3>3, <4>2, <4>4, <4>5, <4>6
      <4>. QED  BY <2>4, <4>7
    <3>. QED  BY <3>4, <3>5
  <2>. QED  BY <2>3, <2>5, <2>6
<1>4. A \in SUBSET (1..c) /\ c \in 0..c
    BY <1>1 DEF c
<1>5. Fits(c, A)
    BY <1>1, <1>3, <1>4
<1>6. SetSum(g, A) \in Nat /\ IsFiniteSet(A) /\ f[c] \in Nat
    BY <1>1, <1>2, <1>4
<1>7. SetSum(g, A) <= rq.initial
    BY <1>1, <1>5, <1>6
<1>. QED  BY <1>5, <1>6, <1>7 DEF g, f, c

---------------------------------------------------------------------------
(* What the jobs take.                                                     *)

\* A job's orders are slices of its plan, and behind the slice it is at only
\* those of no size are missing.
PlanFollowed(j) ==
    state[j] # "none" =>
        /\ request[j] \in Requests
        /\ arrived[j] \subseteq 1..request[j].count
        /\ wire[j] # 0 => wire[j] <= request[j].count
        /\ task[j] = "waiting" => next[j] <= request[j].count
        /\ \A i \in 1..request[j].count : i < next[j] => i \in counted[j] \/ Size(j, i) = 0
        /\ state[j] = "completed" => next[j] > request[j].count

PlansFollowed == \A j \in Jobs : PlanFollowed(j)

LEMMA PlanKept == IInv /\ IInv' /\ PlansFollowed /\ [Next]_vars => PlansFollowed'
<1>. SUFFICES ASSUME IInv, IInv', PlansFollowed, [Next]_vars, NEW k \in Jobs
              PROVE  PlanFollowed(k)'
    BY DEF PlansFollowed
<1>0. /\ TypeOK /\ JobInv(k) /\ PlanFollowed(k)
      /\ \A rq \in Requests : rq.count \in Nat
    BY TwapAssumption DEF IInv, RequestType, PlansFollowed
<1>a. state[k] # "none" => request[k].count \in Nat
    BY <1>0 DEF PlanFollowed
<1>b. ASSUME request'[k] = request[k] PROVE \A i : Size(k, i)' = Size(k, i)
    BY <1>b DEF Size
<1>. USE <1>0 DEF TypeOK, JobInv, Unused, OnTheWire, Counted, Ended, PlanFollowed
<1>1. ASSUME NEW j \in Jobs, Start(j) PROVE PlanFollowed(k)'
  <2>1. CASE j # k
      BY <1>1, <1>b, <2>1 DEF Start
  <2>2. CASE j = k
    <3>1. /\ state'[k] = "queued" /\ task'[k] = "created" /\ request'[k] \in Requests
          /\ wire'[k] = 0 /\ arrived'[k] = {} /\ next'[k] = 1
        BY <1>1, <2>2 DEF Start
    <3>. QED  BY <3>1
  <2>. QED  BY <2>1, <2>2
<1>2. ASSUME NEW j \in Jobs, Begin(j) PROVE PlanFollowed(k)'
    BY <1>2, <1>b DEF Begin
<1>3. ASSUME NEW j \in Jobs, Skip(j) PROVE PlanFollowed(k)'
  <2>1. CASE j # k
      BY <1>3, <1>b, <2>1 DEF Skip, AtSlice
  <2>2. CASE j = k
    <3>1. /\ UNCHANGED <<request, state, task, counted, wire, arrived>>
          /\ next'[k] = next[k] + 1 /\ task[k] = "running" /\ Size(k, next[k]) = 0
          /\ next[k] <= request[k].count
        BY <1>3, <2>2 DEF Skip, AtSlice
    <3>2. \A i \in 1..request[k].count : i < next[k] + 1 => i \in counted[k] \/ Size(k, i) = 0
        BY <1>a, <3>1
    <3>. QED  BY <1>b, <3>1, <3>2
  <2>. QED  BY <2>1, <2>2
<1>4. ASSUME NEW j \in Jobs, DryOrder(j) \/ Answered(j) PROVE PlanFollowed(k)'
  <2>1. CASE j # k
      BY <1>4, <1>b, <2>1 DEF DryOrder, Answered, AtSlice
  <2>2. CASE j = k
    <3>1. /\ UNCHANGED <<request, state, wire, arrived>>
          /\ next'[k] = next[k] + 1 /\ task[k] \in {"running", "waiting"}
          /\ task'[k] = "running" /\ counted'[k] = counted[k] \cup {next[k]}
        BY <1>4, <2>2 DEF DryOrder, Answered, Sent, AtSlice
    <3>2. ASSUME NEW i \in 1..request[k].count, i < next[k] + 1
          PROVE  i \in counted'[k] \/ Size(k, i) = 0
      <4>1. state[k] # "none" /\ i \in Nat /\ next[k] \in Nat
          BY <1>a, <3>1
      <4>2. CASE i = next[k]
          BY <3>1, <4>2
      <4>3. CASE i < next[k]
          BY <3>1, <4>1, <4>3
      <4>4. \A m, n \in Nat : m < n + 1 => m = n \/ m < n
          OBVIOUS
      <4>. QED  BY <3>2, <4>1, <4>2, <4>3, <4>4
    <3>3. /\ \A i \in 1..request[k].count : i < next'[k] => i \in counted'[k] \/ Size(k, i)' = 0
          /\ state[k] # "completed"
        BY <1>b, <3>1, <3>2
    <3>. QED  BY <3>1, <3>3
  <2>. QED  BY <2>1, <2>2
<1>5. ASSUME NEW j \in Jobs, Send(j) PROVE PlanFollowed(k)'
    BY <1>5, <1>b DEF Send, AtSlice
<1>6. ASSUME NEW j \in Jobs, SendFails(j) \/ Lost(j) \/ Unwind(j) PROVE PlanFollowed(k)'
    BY <1>6, <1>b DEF SendFails, Lost, Unwind
<1>7. ASSUME NEW j \in Jobs, Complete(j) PROVE PlanFollowed(k)'
    BY <1>7, <1>b DEF Complete
<1>8. ASSUME NEW j \in Jobs, Arrive(j) PROVE PlanFollowed(k)'
  <2>1. CASE j # k
      BY <1>8, <1>b, <2>1 DEF Arrive
  <2>2. CASE j = k
    <3>1. /\ UNCHANGED <<request, state, task, next, counted>>
          /\ arrived'[k] = arrived[k] \cup {wire[k]} /\ wire[k] # 0 /\ wire'[k] = 0
        BY <1>8, <2>2 DEF Arrive
    <3>2. state[k] # "none" => wire[k] \in 1..request[k].count
        BY <1>a, <3>1
    <3>. QED  BY <1>b, <3>1, <3>2
  <2>. QED  BY <2>1, <2>2
<1>9. ASSUME NEW j \in Jobs, Cancel(j) PROVE PlanFollowed(k)'
    BY <1>9, <1>b DEF Cancel, TaskCancelled, Known
<1>10. CASE Close
    BY <1>10, <1>b DEF Close, TaskCancelled, Unfinished
<1>11. CASE CloseClient
    BY <1>11, <1>b DEF CloseClient
<1>12. CASE UNCHANGED vars
    BY <1>12, <1>b DEF vars
<1>. QED
    BY <1>1, <1>2, <1>3, <1>4, <1>5, <1>6, <1>7, <1>8, <1>9, <1>10, <1>11, <1>12
       DEF Next, JobStep

(* What the fold in Taken sums up.                                         *)
LEMMA TakenIsSum ==
    ASSUME NEW j
    PROVE  Taken(j) = SetSum(Plan(request[j]), arrived[j])
  BY DEF Taken, MapThenSumSet, MapThenFoldSet, SetSum, SumsUp, Pick, Size

(* A job takes no more than the size it was planned for, and a live job that *)
(* is shown as completed and was to clear the rest leaves less than one      *)
(* order of the minimum size: build_plan slice by slice, with every way _run *)
(* can end.                                                                  *)
THEOREM TakesWhatItPlanned == Spec => []ReducesAsPlanned
<1>1. Init => PlansFollowed
    BY DEF Init, PlanFollowed, PlansFollowed
<1>2. ASSUME IInv, PlansFollowed PROVE ReducesAsPlanned
  <2>. SUFFICES ASSUME NEW j \in Jobs, state[j] # "none"
                PROVE  /\ Taken(j) <= request[j].initial
                       /\ (state[j] = "completed" /\ request[j].live
                             /\ request[j].last_order_all /\ request[j].count > 0)
                          => request[j].initial - Taken(j) < request[j].min
      BY DEF ReducesAsPlanned
  <2>0. TypeOK /\ JobInv(j) /\ PlanFollowed(j)
      BY <1>2 DEF IInv, PlansFollowed
  <2>. DEFINE A == arrived[j]
  <2>1. PICK rq \in Requests : rq = request[j]
      BY <2>0 DEF PlanFollowed
  <2>2. A \in SUBSET (1..rq.count)
      BY <2>0, <2>1 DEF PlanFollowed
  <2>3. Taken(j) = SetSum(Plan(rq), A)
      BY <2>1, TakenIsSum
  <2>4. PICK S \in SUBSET (1..rq.count) : S = A
      BY <2>2
  <2>5. /\ SetSum(Plan(rq), S) \in Nat
        /\ SetSum(Plan(rq), S) <= rq.initial
        /\ (\A i \in 1..rq.count \ S : Plan(rq)[i] = 0)
                 => SetSum(Plan(rq), S) = rq.initial - RemainingAfter(rq)[rq.count]
      BY PlanAddsUp
  <2>6. ASSUME state[j] = "completed", rq.live, rq.last_order_all, rq.count > 0
        PROVE  rq.initial - SetSum(Plan(rq), S) < rq.min
    <3>0. /\ rq.count \in Nat /\ rq.initial \in Nat
          /\ RemainingAfter(rq) \in [0..rq.count -> Nat]
          /\ \A i \in 1..rq.count :
                 /\ Plan(rq)[i] = OrderSize(rq, i, RemainingAfter(rq)[i - 1])
                 /\ RemainingAfter(rq)[i] = RemainingAfter(rq)[i - 1] - Plan(rq)[i]
        BY PlanDescends
    <3>1. \A i \in 1..rq.count \ S : Plan(rq)[i] = 0
      <4>1. counted[j] \subseteq S /\ next[j] > rq.count /\ next[j] \in Nat
          BY <2>0, <2>1, <2>4, <2>6 DEF TypeOK, JobInv, Counted, Ended, PlanFollowed
      <4>2. \A i \in 1..rq.count : i < next[j]
          BY <3>0, <4>1
      <4>. QED  BY <2>0, <2>1, <4>1, <4>2 DEF PlanFollowed, Size
    <3>2. PICK n \in Nat : n = rq.count /\ n \in 1..rq.count /\ n - 1 \in 0..rq.count
        BY <2>6, <3>0
    <3>3. PICK r \in Nat : r = RemainingAfter(rq)[n - 1]
        BY <3>0, <3>2
    <3>4. r - OrderSize(rq, n, r) < rq.min
        BY <2>6, <3>2, OrderFits
    <3>5. RemainingAfter(rq)[n] = r - OrderSize(rq, n, r)
        BY <3>0, <3>2, <3>3
    <3>6. rq.min \in Nat /\ RemainingAfter(rq)[n] \in Nat
        BY <3>0, <3>2, TwapAssumption DEF RequestType
    <3>. QED  BY <2>5, <3>0, <3>1, <3>2, <3>4, <3>5, <3>6
  <2>. QED  BY <2>1, <2>3, <2>4, <2>5, <2>6
<1>. QED  BY <1>1, <1>2, PlanKept, Invariance, PTL DEF Spec
=============================================================================
