------------------------- MODULE AlertDeliveryProofs -------------------------
(***************************************************************************)
(* Proofs about AlertDelivery, for every set of keys, every cooldown,      *)
(* every retention and every bound.                                        *)
(***************************************************************************)
EXTENDS AlertDelivery, FiniteSetTheorems, TLAPS

(* The wait after a failure is a natural number of seconds. *)
LEMMA RetryWaitNat ==
    ASSUME NEW k \in Keys, NEW a \in Nat
    PROVE  RetryWait(k, a) \in Nat
<1>1. Cooldown[k] \in Nat /\ RetryBase \in Nat /\ RetryMax \in Nat
  BY AlertAssumption
<1>2. \A b, c \in Nat : Smaller(b, c) \in Nat
  BY DEF Smaller
<1>3. \A d \in {1, 2, 4, 8, 16} : RetryBase * d \in Nat
  BY <1>1
<1>4. PICK d \in {1, 2, 4, 8, 16} :
          RetryWait(k, a) = Smaller(Smaller(RetryBase * d, RetryMax), Cooldown[k])
  BY DEF RetryWait
<1>5. RetryBase * d \in Nat
  BY <1>3
<1>6. Smaller(RetryBase * d, RetryMax) \in Nat
  BY <1>1, <1>2, <1>5
<1>. QED  BY <1>1, <1>2, <1>4, <1>6

(* Every row the code writes is a row. *)
LEMMA RowOperationsType ==
    ASSUME TypeOK, NEW k \in Keys
    PROVE  /\ MarkPending(row[k]) \in Rows
           /\ Recorded(k) \in Rows
           /\ NoRow \in Rows
  BY DEF TypeOK, MarkPending, Recorded, NoRow, Rows, Times, NoTime

(* Handing the permit on moves keys between stages only. *)
LEMMA HandOverType ==
    ASSUME TypeOK, NEW k \in Keys, HandOver(k)
    PROVE  /\ stage' \in [Keys -> Stages]
           /\ \A j \in Keys : \/ stage'[j] = stage[j]
                              \/ j = k /\ stage'[j] = "idle"
                              \/ stage[j] = "queued" /\ stage'[j] = "checking"
  BY DEF HandOver, TypeOK, Stages, Restoring, Working

---------------------------------------------------------------------------
(* Type correctness. *)

LEMMA InitType == Init => TypeOK
  BY DEF Init, TypeOK, Modes, Stages, NoRow, Rows, Times, NoTime

LEMMA StepType == TypeOK /\ [Next]_vars => TypeOK'
<1>. SUFFICES ASSUME TypeOK, [Next]_vars PROVE TypeOK'
  OBVIOUS
<1>. USE DEF TypeOK
<1>1. CASE Tick
  BY <1>1 DEF Tick, engineVars, historyVars
<1>2. CASE Crash
  BY <1>2 DEF Crash, Modes, Stages, Times, NoTime
<1>3. CASE Restart
  BY <1>3 DEF Restart, RestoredLastSent, RestoredRetryAfter, Modes, Stages, Restoring,
              Rows, Times, NoTime
<1>4. ASSUME NEW k \in Keys, ReportUnknown(k) PROVE TypeOK'
  BY <1>4 DEF ReportUnknown, engineVars, historyVars, Stages, Restoring
<1>5. ASSUME NEW k \in Keys, ClearPending(k) PROVE TypeOK'
  BY <1>5, RowOperationsType DEF ClearPending, engineVars, historyVars, Stages
<1>6. CASE FinishRestore
  BY <1>6 DEF FinishRestore, engineVars, historyVars, Modes
<1>7. CASE BeginRound
  <2>1. Pruned(row) \in [Keys -> Rows]
    BY DEF Pruned, NoRow, Rows, Times, NoTime
  <2>2. row' \in [Keys -> Rows] /\ lastPrune' \in Times
    BY <1>7, <2>1 DEF BeginRound, Times
  <2>. QED  BY <1>7, <2>2 DEF BeginRound, engineVars, historyVars, Modes
<1>8. CASE AbortRound
  BY <1>8 DEF AbortRound, engineVars, historyVars, Modes
<1>9. ASSUME NEW active \in SUBSET Keys, NEW stable \in SUBSET Keys,
             Evaluate(active, stable)
      PROVE  TypeOK'
  <2>1. hits' \in [Keys -> Nat]
    BY <1>9, AlertAssumption DEF Evaluate, Smaller
  <2>2. stage' \in [Keys -> Stages]
    BY <1>9 DEF Evaluate, Stages
  <2>3. /\ retryAfter' \in [Keys -> Times]
        /\ attempts' \in [Keys -> Nat]
        /\ holdUntil' \in [Keys -> Times]
    BY <1>9 DEF Evaluate, Times
  <2>4. loop' \in Modes
    BY <1>9 DEF Evaluate, Modes
  <2>5. UNCHANGED <<now, lastSent, lastPrune, row, boots, started, counted, reached, doubt>>
    BY <1>9 DEF Evaluate
  <2>. QED  BY <2>1, <2>2, <2>3, <2>4, <2>5
<1>10. CASE EndRound
  BY <1>10 DEF EndRound, engineVars, historyVars, Modes
<1>11. ASSUME NEW k \in Keys, Match(k) PROVE TypeOK'
  <2>1. CASE Admit(k)
    BY <2>1 DEF Admit, engineVars, historyVars, Stages, Working
  <2>2. ASSUME Postpone(k) PROVE TypeOK'
    <3>1. RetryWait(k, attempts[k] + 1) \in Nat
      BY RetryWaitNat
    <3>2. /\ attempts' \in [Keys -> Nat]
          /\ retryAfter' \in [Keys -> Times]
      BY <2>2, <3>1 DEF Postpone, Times
    <3>. QED  BY <2>2, <3>2 DEF Postpone, historyVars, Stages, Working
  <2>3. CASE Mute(k)
    BY <2>2, <2>3 DEF Mute
  <2>4. CASE Abandon(k)
    <3>1. row' \in [Keys -> Rows] /\ doubt' \in [Keys -> Times]
      BY <2>4, RowOperationsType DEF Abandon, Times
    <3>. QED  BY <2>4, <3>1, HandOverType DEF Abandon, engineVars
  <2>5. CASE BeginSend(k)
    BY <2>5, RowOperationsType DEF BeginSend, engineVars, Stages, Working, Times
  <2>6. CASE SendAccepted(k)
    BY <2>6 DEF SendAccepted, Stages, Working, Times
  <2>7. CASE SendRejected(k)
    BY <2>2, <2>7 DEF SendRejected
  <2>8. CASE PersistOk(k)
    BY <2>8, RowOperationsType, HandOverType DEF PersistOk, engineVars
  <2>9. CASE PersistFails(k)
    <3>1. row' \in [Keys -> Rows] /\ doubt' \in [Keys -> Times]
      BY <2>9, RowOperationsType DEF PersistFails
    <3>. QED  BY <2>9, <3>1, HandOverType DEF PersistFails, engineVars
  <2>. QED  BY <1>11, <2>1, <2>3, <2>4, <2>5, <2>6, <2>7, <2>8, <2>9 DEF Match
<1>12. CASE UNCHANGED vars
  BY <1>12 DEF vars
<1>. QED
  BY <1>1, <1>2, <1>3, <1>4, <1>5, <1>6, <1>7, <1>8, <1>9, <1>10, <1>11, <1>12 DEF Next

(* In every behaviour the engine, the loop and the table hold values of their *)
(* types; in particular no backoff or mark is ever a time before the start.   *)
THEOREM TypeCorrect == Spec => []TypeOK
<1>. QED  BY InitType, StepType, PTL DEF Spec

---------------------------------------------------------------------------
(* The cooldown. *)

LEMMA InitCooldown == Init => CooldownSafe
  BY DEF Init, CooldownSafe, CooldownInv, Passed, Protects, NoRow, NoTime, Working, Restoring

LEMMA StepCooldown == TypeOK /\ TypeOK' /\ CooldownSafe /\ [Next]_vars => CooldownSafe'
<1>. SUFFICES ASSUME TypeOK, TypeOK', CooldownSafe, [Next]_vars, NEW j \in Keys
              PROVE  CooldownInv(j)'
  BY DEF CooldownSafe
<1>0. /\ CooldownInv(j)
      /\ Cooldown[j] \in Nat
  BY AlertAssumption DEF CooldownSafe
<1>. USE DEF TypeOK, CooldownInv, Passed, Protects, Times, NoTime
<1>1. CASE Tick
  BY <1>0, <1>1 DEF Tick, engineVars, historyVars, Rows
<1>2. CASE Crash
  BY <1>0, <1>2 DEF Crash, Rows, Working, Restoring
<1>3. CASE Restart
  BY <1>0, <1>3 DEF Restart, RestoredLastSent, Rows, Working, Restoring
<1>4. ASSUME NEW k \in Keys, ReportUnknown(k) PROVE CooldownInv(j)'
  BY <1>0, <1>4 DEF ReportUnknown, engineVars, historyVars, Rows, Working, Restoring
<1>5. ASSUME NEW k \in Keys, ClearPending(k) PROVE CooldownInv(j)'
  BY <1>0, <1>5 DEF ClearPending, Recorded, engineVars, historyVars, Rows, Working, Restoring
<1>6. CASE FinishRestore
  BY <1>0, <1>6 DEF FinishRestore, engineVars, historyVars, Rows, Working, Restoring
<1>7. CASE BeginRound
  <2>1. Retention \in Nat /\ Retention >= Cooldown[j]
    BY <1>0, AlertAssumption DEF Retention, Larger
  <2>2. row'[j] = row[j] \/ (row'[j] = NoRow /\ Expired(row[j]))
    BY <1>7 DEF BeginRound, Pruned
  <2>3. Passed(j)' \/ Protects(row'[j], counted'[j])
    <3>1. UNCHANGED <<now, counted>>
      BY <1>7 DEF BeginRound, historyVars
    <3>2. CASE row'[j] = row[j]
      BY <1>0, <3>1, <3>2
    <3>3. CASE Expired(row[j])
      <4>1. row[j] \in Rows /\ now \in Nat /\ counted[j] \in Nat \union {-1}
        OBVIOUS
      <4>2. row[j].updated < now - Retention /\ row[j].pending = -1
        BY <3>3 DEF Expired
      <4>3. counted[j] = -1 \/ now - counted[j] >= Cooldown[j]
        BY <1>0, <2>1, <4>1, <4>2 DEF Rows
      <4>. QED  BY <3>1, <4>3
    <3>. QED  BY <2>2, <3>2, <3>3
  <2>4. /\ row'[j].pending <= now' /\ row'[j].updated <= now'
        /\ row'[j].lastSent <= row'[j].updated
    BY <1>0, <1>7, <2>2 DEF BeginRound, NoRow, Rows, historyVars
  <2>. QED
    BY <1>0, <1>7, <2>3, <2>4 DEF BeginRound, engineVars, historyVars, Working, Restoring
<1>8. CASE AbortRound
  BY <1>0, <1>8 DEF AbortRound, engineVars, historyVars, Rows, Working, Restoring
<1>9. ASSUME NEW active \in SUBSET Keys, NEW stable \in SUBSET Keys,
             Evaluate(active, stable)
      PROVE  CooldownInv(j)'
  <2>1. /\ UNCHANGED <<now, lastSent, row, started, counted>>
        /\ loop = "evaluating" /\ loop' = "processing"
    BY <1>9 DEF Evaluate
  <2>2. stage'[j] = stage[j] \/ (stage'[j] = "queued" /\ CooledAt(j, now))
    BY <1>9 DEF Evaluate, Limited
  <2>3. Passed(j) \/ ~CooledAt(j, now)
    BY <1>0, <2>1 DEF CooledAt
  <2>. QED
    BY <1>0, <2>1, <2>2, <2>3 DEF Rows, Working, Restoring
<1>10. CASE EndRound
  BY <1>0, <1>10 DEF EndRound, engineVars, historyVars, Rows, Working, Restoring
<1>11. ASSUME NEW k \in Keys, Match(k) PROVE CooldownInv(j)'
  <2>0. stage[k] \in Working \union {"queued"} /\ loop = "processing"
    BY <1>11 DEF Match, Admit, Mute, Abandon, BeginSend, SendAccepted, SendRejected,
                 PersistOk, PersistFails, Working, CooldownSafe
  <2>. USE DEF Working, Restoring, Rows
  <2>1. CASE Admit(k)
    BY <1>0, <2>0, <2>1 DEF Admit, engineVars, historyVars
  <2>2. CASE Postpone(k)
    BY <1>0, <2>0, <2>2 DEF Postpone, historyVars
  <2>3. CASE Abandon(k)
    <3>1. row'[j] = row[j] \/ row'[j] = MarkPending(row[j])
      BY <2>3 DEF Abandon
    <3>2. UNCHANGED <<now, loop, lastSent, started, counted>>
      BY <2>3 DEF Abandon, engineVars, historyVars
    <3>3. \/ stage'[j] = stage[j]
          \/ stage'[j] = "idle"
          \/ stage[j] = "queued" /\ stage'[j] = "checking"
      BY <2>3, HandOverType DEF Abandon
    <3>4. stage[j] # "sending" \/ row'[j] = row[j]
      BY <2>3 DEF Abandon
    <3>5. CASE row'[j] = row[j]
      BY <1>0, <2>0, <3>2, <3>3, <3>5
    <3>6. CASE row'[j] = MarkPending(row[j])
      <4>1. /\ row'[j].pending = now /\ row'[j].updated = now
            /\ row'[j].lastSent = row[j].lastSent
        BY <3>6 DEF MarkPending
      <4>. QED  BY SMTT(30), <1>0, <2>0, <3>2, <3>3, <3>4, <4>1
    <3>. QED  BY <3>1, <3>5, <3>6
  <2>4. CASE BeginSend(k)
    BY <1>0, <2>0, <2>4 DEF BeginSend, MarkPending, engineVars
  <2>5. CASE SendAccepted(k)
    BY <1>0, <2>0, <2>5 DEF SendAccepted
  <2>6. ASSUME stage[k] = "persisting", HandOver(k),
               row' = row \/ row' = [row EXCEPT ![k] = Recorded(k)],
               UNCHANGED <<now, loop, lastSent, started, counted>>
        PROVE  CooldownInv(j)'
    <3>1. row'[j] = row[j] \/ row'[j] = Recorded(j)
      BY <2>6
    <3>2. \/ stage'[j] = stage[j]
          \/ stage'[j] = "idle"
          \/ stage[j] = "queued" /\ stage'[j] = "checking"
      BY <2>6, HandOverType
    <3>3. stage[j] # "sending" \/ row'[j] = row[j]
      BY <2>6
    <3>. QED  BY <1>0, <2>0, <2>6, <3>1, <3>2, <3>3 DEF Recorded
  <2>7. CASE PersistOk(k)
    BY <2>6, <2>7 DEF PersistOk, engineVars
  <2>8. CASE PersistFails(k)
    BY <2>6, <2>8 DEF PersistFails, engineVars, historyVars
  <2>. QED
    BY <1>11, <2>1, <2>2, <2>3, <2>4, <2>5, <2>7, <2>8 DEF Match, Mute, SendRejected
<1>12. CASE UNCHANGED vars
  BY <1>0, <1>12 DEF vars
<1>. QED
  BY <1>1, <1>2, <1>3, <1>4, <1>5, <1>6, <1>7, <1>8, <1>9, <1>10, <1>11, <1>12 DEF Next

(* The memory of the running engine and the table each protect every cooldown *)
(* that is still open, whatever crashes, failed writes and prunes happened.   *)
THEOREM CooldownProtected == Spec => []CooldownSafe
<1>. QED  BY InitType, StepType, InitCooldown, StepCooldown, PTL DEF Spec

(* Only BeginSend starts a send, and it starts from a match that was let through. *)
LEMMA SendStart ==
    ASSUME TypeOK, [Next]_vars, NEW k \in Keys, stage[k] # "sending", stage'[k] = "sending"
    PROVE  BeginSend(k)
<1>. USE DEF TypeOK
<1>1. ASSUME NEW j \in Keys, Match(j) PROVE BeginSend(k)
  BY <1>1, HandOverType
     DEF Match, Admit, Mute, SendRejected, Postpone, Abandon, BeginSend, SendAccepted,
         PersistOk, PersistFails
<1>2. ASSUME NEW a \in SUBSET Keys, NEW b \in SUBSET Keys, Evaluate(a, b) PROVE FALSE
  BY <1>2 DEF Evaluate
<1>3. ASSUME NEW j \in Keys, ReportUnknown(j) \/ ClearPending(j) PROVE FALSE
  BY <1>3 DEF ReportUnknown, ClearPending
<1>4. ~(Tick \/ Crash \/ Restart \/ FinishRestore \/ BeginRound \/ AbortRound \/ EndRound
        \/ UNCHANGED vars)
  BY DEF Tick, Crash, Restart, FinishRestore, BeginRound, AbortRound, EndRound, vars
<1>. QED  BY <1>1, <1>2, <1>3, <1>4 DEF Next

(* No send starts inside the cooldown of an earlier send of the same key that *)
(* succeeded or that a crash cut short.                                       *)
THEOREM CooldownRespected == Spec => NoSendInsideCooldown
<1>1. ASSUME TypeOK, CooldownSafe, [Next]_vars
      PROVE  [\A k \in Keys :
                stage[k] # "sending" /\ stage'[k] = "sending"
                   => counted[k] = NoTime \/ now - counted[k] >= Cooldown[k]]_vars
  BY <1>1, SendStart DEF BeginSend, CooldownSafe, CooldownInv, Passed
<1>. QED
  BY <1>1, TypeCorrect, CooldownProtected, PTL DEF Spec, NoSendInsideCooldown

---------------------------------------------------------------------------
(* The silence. *)

\* Why no key is held back without a reason: neither the engine nor the table
\* knows of a send after the last one that was, or may have been, taken; a mark
\* in the table is that of an attempt in doubt; and when the process dies, what
\* was in doubt stays so for good.
SilenceInv(k) ==
    /\ reached[k] <= doubt[k] /\ doubt[k] <= now
    /\ lastSent[k] <= reached[k]
    /\ row[k].lastSent <= reached[k]
    /\ row[k].pending <= doubt[k]
    /\ loop \in {"down", "restoring"} => reached[k] = doubt[k]

SilenceSafe == \A k \in Keys : SilenceInv(k)

LEMMA InitSilence == Init => SilenceSafe
  BY DEF Init, SilenceSafe, SilenceInv, NoRow, NoTime

LEMMA StepSilence ==
    TypeOK /\ TypeOK' /\ CooldownSafe /\ SilenceSafe /\ [Next]_vars => SilenceSafe'
<1>. SUFFICES ASSUME TypeOK, TypeOK', CooldownSafe, SilenceSafe, [Next]_vars, NEW j \in Keys
              PROVE  SilenceInv(j)'
  BY DEF SilenceSafe
<1>0. SilenceInv(j)
  BY DEF SilenceSafe
<1>N. /\ now \in Nat /\ now' \in Nat
      /\ lastSent[j] \in Times /\ reached[j] \in Times /\ doubt[j] \in Times
      /\ row[j] \in Rows
  BY DEF TypeOK
<1>. USE DEF TypeOK, SilenceInv, Times, NoTime
<1>1. CASE Tick
  BY <1>0, <1>1 DEF Tick, engineVars, historyVars, Rows
<1>2. CASE Crash
  BY <1>0, <1>2 DEF Crash, Rows
<1>3. CASE Restart
  BY <1>0, <1>3 DEF Restart, RestoredLastSent, Rows
<1>4. ASSUME NEW k \in Keys, ReportUnknown(k) PROVE SilenceInv(j)'
  BY <1>0, <1>4 DEF ReportUnknown, engineVars, historyVars, Rows
<1>5. ASSUME NEW k \in Keys, ClearPending(k) PROVE SilenceInv(j)'
  <2>1. row'[j] = row[j] \/ row'[j] = Recorded(j)
    BY <1>5 DEF ClearPending
  <2>2. UNCHANGED <<now, loop, lastSent, reached, doubt>>
    BY <1>5 DEF ClearPending, engineVars, historyVars
  <2>3. Recorded(j).pending = -1 /\ Recorded(j).lastSent = lastSent[j]
    BY DEF Recorded
  <2>4. -1 <= doubt[j]
    BY <1>N
  <2>. QED  BY <1>0, <2>1, <2>2, <2>3, <2>4
<1>6. CASE FinishRestore \/ AbortRound \/ EndRound
  <2>1. /\ UNCHANGED <<now, lastSent, row, reached, doubt>>
        /\ loop' \notin {"down", "restoring"}
    BY <1>6 DEF FinishRestore, AbortRound, EndRound, engineVars, historyVars
  <2>. QED  BY <1>0, <2>1
<1>7. CASE BeginRound
  <2>1. row'[j] = row[j] \/ row'[j] = NoRow
    BY <1>7 DEF BeginRound, Pruned
  <2>2. UNCHANGED <<now, lastSent, reached, doubt>> /\ loop' = "evaluating"
    BY <1>7 DEF BeginRound, engineVars, historyVars
  <2>3. -1 <= reached[j] /\ -1 <= doubt[j]
    BY <1>N
  <2>. QED  BY <1>0, <2>1, <2>2, <2>3 DEF NoRow
<1>8. ASSUME NEW active \in SUBSET Keys, NEW stable \in SUBSET Keys,
             Evaluate(active, stable)
      PROVE  SilenceInv(j)'
  BY <1>0, <1>8 DEF Evaluate, Rows
<1>9. ASSUME NEW k \in Keys, Match(k) PROVE SilenceInv(j)'
  <2>0. loop = "processing" /\ loop' = "processing"
    BY <1>9 DEF Match, Admit, Mute, Postpone, Abandon, BeginSend, SendAccepted, SendRejected,
                PersistOk, PersistFails, Working, CooldownSafe, CooldownInv
  <2>1. CASE Admit(k)
    BY <1>0, <2>0, <2>1 DEF Admit, engineVars, historyVars
  <2>2. CASE Postpone(k)
    BY <1>0, <2>0, <2>2 DEF Postpone, historyVars
  <2>3. CASE Abandon(k) \/ BeginSend(k)
    <3>1. UNCHANGED <<now, lastSent, reached>>
      BY <2>3 DEF Abandon, BeginSend, engineVars
    <3>2. \/ row'[j] = row[j] /\ doubt'[j] = doubt[j]
          \/ row'[j] = MarkPending(row[j]) /\ doubt'[j] = now
      BY <2>3 DEF Abandon, BeginSend
    <3>3. reached[j] <= now
      BY <1>0, <1>N
    <3>4. row[j] \in Rows => MarkPending(row[j]).pending = now
                             /\ MarkPending(row[j]).lastSent = row[j].lastSent
      BY DEF MarkPending, Rows
    <3>. QED  BY <1>0, <1>N, <2>0, <3>1, <3>2, <3>3, <3>4
  <2>4. CASE SendAccepted(k)
    <3>1. UNCHANGED <<now, row>>
      BY <2>4 DEF SendAccepted
    <3>2. \/ lastSent'[j] = lastSent[j] /\ reached'[j] = reached[j] /\ doubt'[j] = doubt[j]
          \/ lastSent'[j] = now /\ reached'[j] = now /\ doubt'[j] = now
      BY <2>4 DEF SendAccepted
    <3>3. row[j].lastSent <= now /\ row[j].pending <= now
      BY <1>0, <1>N DEF Rows
    <3>. QED  BY <1>0, <1>N, <2>0, <3>1, <3>2, <3>3
  <2>5. CASE PersistOk(k) \/ PersistFails(k)
    <3>1. UNCHANGED <<now, lastSent, reached>>
      BY <2>5 DEF PersistOk, PersistFails, engineVars
    <3>2. \/ row'[j] = row[j] /\ doubt'[j] = doubt[j]
          \/ row'[j] = Recorded(j) /\ doubt'[j] = reached[j]
      BY <2>5 DEF PersistOk, PersistFails
    <3>3. -1 <= reached[j] /\ reached[j] <= now
      BY <1>0, <1>N
    <3>4. Recorded(j).pending = -1 /\ Recorded(j).lastSent = lastSent[j]
      BY DEF Recorded
    <3>. QED  BY <1>0, <1>N, <2>0, <3>1, <3>2, <3>3, <3>4
  <2>. QED
    BY <1>9, <2>1, <2>2, <2>3, <2>4, <2>5 DEF Match, Mute, SendRejected
<1>10. CASE UNCHANGED vars
  BY <1>0, <1>10 DEF vars
<1>. QED
  BY <1>1, <1>2, <1>3, <1>4, <1>5, <1>6, <1>7, <1>8, <1>9, <1>10 DEF Next

(* A key is held back by its cooldown only while the cooldown of an alert runs *)
(* that was taken, or whose outcome a crash left open; a failure that was      *)
(* recorded silences nothing, whatever crashes and restarts follow.            *)
THEOREM SilenceHasReason == Spec => []SilenceJustified
<1>1. TypeOK /\ SilenceSafe => SilenceJustified
  <2>. SUFFICES ASSUME TypeOK, SilenceSafe, NEW k \in Keys, ~CooledAt(k, now)
                PROVE  reached[k] # NoTime /\ now - reached[k] < Cooldown[k]
    BY DEF SilenceJustified
  <2>1. Cooldown[k] \in Nat
    BY AlertAssumption
  <2>2. lastSent[k] <= reached[k] /\ lastSent[k] # NoTime /\ now - lastSent[k] < Cooldown[k]
    BY <2>1 DEF SilenceSafe, SilenceInv, CooledAt, TypeOK, Times, NoTime
  <2>. QED  BY <2>1, <2>2 DEF TypeOK, Times, NoTime
<1>. QED
  BY <1>1, InitType, StepType, InitCooldown, StepCooldown, InitSilence, StepSilence, PTL
     DEF Spec

---------------------------------------------------------------------------
(* The backoff. *)

\* What the backoff rests on: it never reaches further than the key's cooldown,
\* neither in memory nor, counted from the row's last touch, in the table, so
\* that a row the prune may drop holds none that still runs; and while it runs,
\* the engine and the row a restart would read both know it.
BackoffInv(k) ==
    /\ retryAfter[k] <= now + Cooldown[k]
    /\ row[k].retryAfter <= row[k].updated + Cooldown[k]
    /\ stage[k] \in {"queued", "checking", "sending"} => holdUntil[k] <= now
    /\ loop # "down" => holdUntil[k] <= now \/ retryAfter[k] >= holdUntil[k]
    /\ \/ holdUntil[k] <= now
       \/ row[k].pending = NoTime /\ row[k].retryAfter >= holdUntil[k]

BackoffSafe == \A k \in Keys : BackoffInv(k)

(* A wait is never longer than the cooldown of its key. *)
LEMMA RetryWaitCapped ==
    ASSUME NEW k \in Keys, NEW a \in Nat
    PROVE  RetryWait(k, a) <= Cooldown[k]
<1>1. Cooldown[k] \in Nat /\ RetryBase \in Nat /\ RetryMax \in Nat
  BY AlertAssumption
<1>2. \A b, c \in Nat : Smaller(b, c) \in Nat /\ Smaller(b, c) <= c
  BY DEF Smaller
<1>3. \A d \in {1, 2, 4, 8, 16} : RetryBase * d \in Nat
  BY <1>1
<1>4. PICK d \in {1, 2, 4, 8, 16} :
          RetryWait(k, a) = Smaller(Smaller(RetryBase * d, RetryMax), Cooldown[k])
  BY DEF RetryWait
<1>5. Smaller(RetryBase * d, RetryMax) \in Nat
  BY <1>1, <1>2, <1>3
<1>. QED  BY <1>1, <1>2, <1>4, <1>5

LEMMA InitBackoff == Init => BackoffSafe
  BY AlertAssumption DEF Init, BackoffSafe, BackoffInv, NoRow, NoTime

(* The retry steps: a failure sets the end of the wait from the present, and *)
(* recording a key copies what the engine knows into a row touched now.      *)
LEMMA StepBackoff ==
    TypeOK /\ TypeOK' /\ CooldownSafe /\ BackoffSafe /\ [Next]_vars => BackoffSafe'
<1>. SUFFICES ASSUME TypeOK, TypeOK', CooldownSafe, BackoffSafe, [Next]_vars,
                     NEW j \in Keys
              PROVE  BackoffInv(j)'
  BY DEF BackoffSafe
<1>0. /\ BackoffInv(j)
      /\ Cooldown[j] \in Nat
      /\ row[j].updated <= now
      /\ stage[j] \in Working \union {"queued"} => loop = "processing"
  BY AlertAssumption DEF BackoffSafe, CooldownSafe, CooldownInv
<1>. USE DEF TypeOK, BackoffInv, Times, NoTime
<1>1. CASE Tick
  BY <1>0, <1>1 DEF Tick, engineVars, historyVars, Rows
<1>2. CASE Crash
  BY <1>0, <1>2 DEF Crash, Rows
<1>3. CASE Restart
  BY <1>0, <1>3 DEF Restart, RestoredRetryAfter, Rows
<1>4. ASSUME NEW k \in Keys, ReportUnknown(k) PROVE BackoffInv(j)'
  BY <1>0, <1>4 DEF ReportUnknown, engineVars, historyVars, Rows
<1>5. ASSUME NEW k \in Keys, ClearPending(k) PROVE BackoffInv(j)'
  <2>1. row'[j] = row[j] \/ row'[j] = Recorded(j)
    BY <1>5 DEF ClearPending
  <2>2. UNCHANGED <<now, loop, retryAfter, holdUntil>> /\ loop = "restoring"
    BY <1>5 DEF ClearPending, engineVars, historyVars
  <2>3. stage'[j] = stage[j] \/ stage'[j] = "idle"
    BY <1>5 DEF ClearPending
  <2>. QED  BY <1>0, <2>1, <2>2, <2>3 DEF Recorded, Rows
<1>6. CASE FinishRestore \/ AbortRound \/ EndRound
  BY <1>0, <1>6 DEF FinishRestore, AbortRound, EndRound, engineVars, historyVars, Rows
<1>7. CASE BeginRound
  <2>1. Retention \in Nat /\ Retention >= Cooldown[j]
    BY <1>0, AlertAssumption DEF Retention, Larger
  <2>2. row'[j] = row[j] \/ (row'[j] = NoRow /\ Expired(row[j]))
    BY <1>7 DEF BeginRound, Pruned
  <2>3. UNCHANGED <<now, stage, retryAfter, holdUntil>> /\ loop # "down"
    BY <1>7 DEF BeginRound, engineVars, historyVars
  <2>4. CASE row'[j] = row[j]
    BY <1>0, <2>3, <2>4
  <2>5. CASE row'[j] = NoRow /\ Expired(row[j])
    <3>1. row[j] \in Rows /\ now \in Nat /\ holdUntil[j] \in Nat \union {-1}
      OBVIOUS
    <3>2. row[j].updated < now - Retention
      BY <2>5 DEF Expired
    <3>3. holdUntil[j] <= now
      BY <1>0, <2>1, <3>1, <3>2 DEF Rows
    <3>. QED  BY <1>0, <2>3, <2>5, <3>3 DEF NoRow
  <2>. QED  BY <2>2, <2>4, <2>5
<1>9. ASSUME NEW active \in SUBSET Keys, NEW stable \in SUBSET Keys,
             Evaluate(active, stable)
      PROVE  BackoffInv(j)'
  <2>1. UNCHANGED <<now, row>> /\ loop = "evaluating"
    BY <1>9 DEF Evaluate
  <2>2. holdUntil'[j] = holdUntil[j] \/ holdUntil'[j] = NoTime
    BY <1>9 DEF Evaluate
  <2>3. \/ retryAfter'[j] = retryAfter[j]
        \/ retryAfter'[j] = NoTime /\ ~BackedOff(j, now)
        \/ retryAfter'[j] = NoTime /\ holdUntil'[j] = NoTime
    BY <1>9 DEF Evaluate
  <2>4. stage'[j] = stage[j] \/ (stage'[j] = "queued" /\ ~BackedOff(j, now))
    BY <1>9 DEF Evaluate, Limited
  <2>5. ~BackedOff(j, now) => holdUntil[j] <= now
    BY <1>0, <2>1 DEF BackedOff
  <2>. QED  BY <1>0, <2>1, <2>2, <2>3, <2>4, <2>5 DEF Rows
<1>11. ASSUME NEW k \in Keys, Match(k) PROVE BackoffInv(j)'
  <2>0. stage[k] \in Working \union {"queued"} /\ loop = "processing"
    BY <1>11 DEF Match, Admit, Mute, Abandon, BeginSend, SendAccepted, SendRejected,
                 PersistOk, PersistFails, Working, CooldownSafe, CooldownInv
  <2>. USE DEF Rows
  <2>1. CASE Admit(k)
    BY <1>0, <2>1 DEF Admit, engineVars, historyVars
  <2>2. CASE Postpone(k) /\ stage[k] \in {"checking", "sending"}
    <3>1. RetryWait(k, attempts[k] + 1) \in Nat
          /\ RetryWait(k, attempts[k] + 1) <= Cooldown[k]
      BY RetryWaitNat, RetryWaitCapped
    <3>2. UNCHANGED <<now, loop, row, holdUntil>>
      BY <2>2 DEF Postpone, historyVars
    <3>3. CASE j = k
      <4>1. retryAfter'[j] = now + RetryWait(k, attempts[k] + 1) /\ stage'[j] = "persisting"
        BY <2>2, <3>3 DEF Postpone
      <4>2. now <= retryAfter'[j] /\ retryAfter'[j] <= now + Cooldown[j]
        BY <1>0, <3>1, <3>3, <4>1
      <4>. QED  BY <1>0, <2>2, <3>2, <3>3, <4>1, <4>2
    <3>4. CASE j # k
      BY <1>0, <2>2, <3>2, <3>4 DEF Postpone
    <3>. QED  BY <3>3, <3>4
  <2>3. CASE Abandon(k)
    <3>1. row'[j] = row[j] \/ (row'[j] = MarkPending(row[j]) /\ stage[j] = "checking")
      BY <2>3 DEF Abandon
    <3>2. UNCHANGED <<now, loop, retryAfter, holdUntil>>
      BY <2>3 DEF Abandon, engineVars, historyVars
    <3>3. \/ stage'[j] = stage[j]
          \/ stage'[j] = "idle"
          \/ stage[j] = "queued" /\ stage'[j] = "checking"
      BY <2>3, HandOverType DEF Abandon
    <3>4. CASE row'[j] = row[j]
      BY <1>0, <3>2, <3>3, <3>4
    <3>5. CASE row'[j] = MarkPending(row[j]) /\ stage[j] = "checking"
      <4>1. row'[j].updated = now /\ row'[j].retryAfter = row[j].retryAfter
        BY <3>5 DEF MarkPending
      <4>2. holdUntil[j] <= now
        BY <1>0, <3>5
      <4>3. row'[j].retryAfter <= row'[j].updated + Cooldown[j]
        <5>1. /\ row[j].retryAfter \in Int /\ row[j].updated \in Int
              /\ row[j].updated <= now /\ now \in Nat
              /\ row[j].retryAfter <= row[j].updated + Cooldown[j]
          BY <1>0
        <5>. QED  BY <1>0, <4>1, <5>1
      <4>. QED  BY <1>0, <3>2, <4>2, <4>3
    <3>. QED  BY <3>1, <3>4, <3>5
  <2>4. CASE BeginSend(k)
    BY <1>0, <2>4 DEF BeginSend, MarkPending, engineVars
  <2>5. CASE SendAccepted(k)
    BY <1>0, <2>5 DEF SendAccepted
  <2>6. ASSUME stage[k] = "persisting", HandOver(k),
               \/ row' = row /\ holdUntil' = holdUntil
               \/ /\ row' = [row EXCEPT ![k] = Recorded(k)]
                  /\ \/ holdUntil' = holdUntil
                     \/ holdUntil' = [holdUntil EXCEPT ![k] = retryAfter[k]],
               UNCHANGED <<now, loop, retryAfter>>
        PROVE  BackoffInv(j)'
    <3>1. \/ row'[j] = row[j] /\ holdUntil'[j] = holdUntil[j]
          \/ /\ row'[j] = Recorded(j)
             /\ stage[j] = "persisting"
             /\ holdUntil'[j] = holdUntil[j] \/ holdUntil'[j] = retryAfter[j]
      BY <2>6
    <3>2. \/ stage'[j] = stage[j] /\ j # k
          \/ stage'[j] = "idle"
          \/ stage[j] = "queued" /\ stage'[j] = "checking"
      BY <2>6, HandOverType DEF HandOver
    <3>3. stage[j] = "persisting" /\ j # k => row'[j] = row[j] /\ holdUntil'[j] = holdUntil[j]
      BY <2>6
    <3>. QED  BY <1>0, <2>0, <2>6, <3>1, <3>2, <3>3 DEF Recorded
  <2>7. CASE PersistOk(k)
    BY <2>6, <2>7 DEF PersistOk, engineVars
  <2>8. CASE PersistFails(k)
    BY <2>6, <2>8 DEF PersistFails, engineVars, historyVars
  <2>. QED
    BY <1>11, <2>1, <2>2, <2>3, <2>4, <2>5, <2>7, <2>8 DEF Match, Mute, SendRejected
<1>12. CASE UNCHANGED vars
  BY <1>0, <1>12 DEF vars
<1>. QED
  BY <1>1, <1>2, <1>3, <1>4, <1>5, <1>6, <1>7, <1>9, <1>11, <1>12 DEF Next

(* While a stored backoff runs, the engine, and the row a restart would read, *)
(* both hold an end of it that is no earlier, and no prune can drop that row. *)
THEOREM BackoffKept == Spec => []BackoffSafe
<1>. QED
  BY InitType, StepType, InitCooldown, StepCooldown, InitBackoff, StepBackoff, PTL DEF Spec

(* A key whose signal persists is let through again only when the backoff     *)
(* stored for it is over, whatever crashes, failed writes and prunes happened *)
(* in between.                                                                *)
THEOREM NoEarlyRetry == Spec => BackoffRespected
<1>1. ASSUME TypeOK, CooldownSafe, BackoffSafe, [Next]_vars, NEW k \in Keys,
             stage[k] # "queued", stage'[k] = "queued"
      PROVE  now >= holdUntil'[k]
  <2>. USE DEF TypeOK
  <2>1. PICK a \in SUBSET Keys, b \in SUBSET Keys : Evaluate(a, b)
    <3>1. ~\E j \in Keys : Match(j)
      BY <1>1, HandOverType
         DEF Match, Admit, Mute, SendRejected, Postpone, Abandon, BeginSend, SendAccepted,
             PersistOk, PersistFails
    <3>2. ~\E j \in Keys : ReportUnknown(j) \/ ClearPending(j)
      BY <1>1 DEF ReportUnknown, ClearPending
    <3>3. ~(Tick \/ Crash \/ Restart \/ FinishRestore \/ BeginRound \/ AbortRound \/ EndRound
            \/ UNCHANGED vars)
      BY <1>1 DEF Tick, Crash, Restart, FinishRestore, BeginRound, AbortRound, EndRound, vars
    <3>. QED  BY <1>1, <3>1, <3>2, <3>3 DEF Next
  <2>2. /\ k \in a /\ ~BackedOff(k, now)
        /\ holdUntil'[k] = holdUntil[k]
        /\ loop = "evaluating"
    BY <1>1, <2>1 DEF Evaluate, Limited
  <2>. QED  BY <1>1, <2>2 DEF BackoffSafe, BackoffInv, BackedOff, Times, NoTime
<1>2. ASSUME TypeOK, CooldownSafe, BackoffSafe, [Next]_vars
      PROVE  [\A k \in Keys :
                stage[k] # "queued" /\ stage'[k] = "queued" => now >= holdUntil'[k]]_vars
  BY <1>1, <1>2
<1>. QED
  BY <1>2, TypeCorrect, CooldownProtected, BackoffKept, PTL DEF Spec, BackoffRespected

---------------------------------------------------------------------------
(* Unknown events. *)

\* An event is what its key and the start of its send make it.
EventsIdentified ==
    \A e \in events :
       e = [key |-> e.key, pending |-> e.pending, id |-> UnknownEventId(e.key, e.pending)]

(* The identity of an unknown event is computed from the interrupted send    *)
(* alone, so the start-ups that report the same send write the same event.   *)
THEOREM UnknownReportedOnce == Spec => []OneUnknownEvent
<1>1. Init => EventsIdentified
  BY DEF Init, EventsIdentified
<1>2. EventsIdentified /\ [Next]_vars => EventsIdentified'
  <2>. SUFFICES ASSUME EventsIdentified, [Next]_vars PROVE EventsIdentified'
    OBVIOUS
  <2>1. ASSUME NEW k \in Keys, ReportUnknown(k) PROVE EventsIdentified'
    <3>1. CASE UNCHANGED events
      BY <3>1 DEF EventsIdentified, UnknownEventId
    <3>2. CASE events' = events \union
                {[key |-> k, pending |-> lastSent[k],
                  id |-> UnknownEventId(k, lastSent[k])]}
      BY <3>2 DEF EventsIdentified, UnknownEventId
    <3>. QED  BY <2>1, <3>1, <3>2 DEF ReportUnknown
  <2>2. CASE UNCHANGED events
    BY <2>2 DEF EventsIdentified, UnknownEventId
  <2>3. ASSUME NEW k \in Keys, ClearPending(k) \/ Match(k) PROVE UNCHANGED events
    BY <2>3 DEF ClearPending, Match, Admit, Mute, Abandon, BeginSend, SendAccepted,
                SendRejected, Postpone, PersistOk, PersistFails
  <2>4. ASSUME NEW a \in SUBSET Keys, NEW b \in SUBSET Keys, Evaluate(a, b)
        PROVE  UNCHANGED events
    BY <2>4 DEF Evaluate
  <2>5. CASE Tick \/ Crash \/ Restart \/ FinishRestore \/ BeginRound \/ AbortRound \/ EndRound
             \/ UNCHANGED vars
    BY <2>2, <2>5 DEF Tick, Crash, Restart, FinishRestore, BeginRound, AbortRound, EndRound,
                      vars
  <2>. QED  BY <2>1, <2>2, <2>3, <2>4, <2>5 DEF Next
<1>3. EventsIdentified => OneUnknownEvent
  BY DEF EventsIdentified, OneUnknownEvent
<1>. QED  BY <1>1, <1>2, <1>3, PTL DEF Spec

---------------------------------------------------------------------------
(* The permits. *)

LEMMA SameGroupEquivalence ==
    /\ \A j \in Keys : SameGroup(j, j)
    /\ \A j, k \in Keys : SameGroup(j, k) => SameGroup(k, j)
    /\ \A i, j, k \in Keys : SameGroup(i, j) /\ SameGroup(j, k) => SameGroup(i, k)
  BY DEF SameGroup

(* No more permits are held when keys only leave their tasks. *)
LEMMA FewerAtWork ==
    ASSUME MatchesSerialized, \A k \in Keys : stage'[k] \in Working => stage[k] \in Working
    PROVE  MatchesSerialized'
<1>. DEFINE W == {k \in Keys : stage[k] \in Working}
            V == {k \in Keys : stage'[k] \in Working}
<1>1. V \subseteq W /\ IsFiniteSet(W) /\ IsFiniteSet(V)
  BY AlertAssumption, FS_Subset
<1>2. Cardinality(V) <= Cardinality(W) /\ Cardinality(W) \in Nat /\ Cardinality(V) \in Nat
  BY <1>1, FS_Subset, FS_CardinalityType
<1>3. Cardinality(V) <= Concurrency
  <2>1. Cardinality(W) <= Concurrency /\ Concurrency \in Int
    BY AlertAssumption DEF MatchesSerialized
  <2>. QED  BY <1>2, <2>1
<1>. QED  BY <1>3 DEF MatchesSerialized, SameGroup

(* Handing the permit on inside the group leaves the number of permits and   *)
(* one task per group.                                                       *)
LEMMA HandOverKeepsPermits ==
    ASSUME TypeOK, MatchesSerialized, NEW k \in Keys, stage[k] \in Working, HandOver(k)
    PROVE  MatchesSerialized'
<1>1. CASE stage' = [stage EXCEPT ![k] = "idle"]
  BY <1>1, FewerAtWork DEF TypeOK, Working
<1>2. ASSUME NEW j \in Keys, stage[j] = "queued", SameGroup(j, k),
             stage' = [stage EXCEPT ![k] = "idle", ![j] = "checking"]
      PROVE  MatchesSerialized'
  <2>. DEFINE W == {i \in Keys : stage[i] \in Working}
              V == {i \in Keys : stage'[i] \in Working}
  <2>1. j \notin W /\ k \in W /\ j # k
    BY <1>2 DEF Working
  <2>2. V = (W \ {k}) \union {j}
    BY <1>2, <2>1 DEF TypeOK, Working
  <2>3. IsFiniteSet(W) /\ IsFiniteSet(W \ {k}) /\ j \notin W \ {k}
    BY <2>1, AlertAssumption, FS_Subset
  <2>4. /\ Cardinality(W \ {k}) = Cardinality(W) - 1
        /\ Cardinality(V) = Cardinality(W \ {k}) + 1
        /\ Cardinality(W) \in Nat
    <3>1. Cardinality(W \ {k}) = Cardinality(W) - 1 /\ Cardinality(W) \in Nat
      BY <2>1, <2>3, FS_RemoveElement, FS_CardinalityType
    <3>2. Cardinality(V) = Cardinality(W \ {k}) + 1
      BY <2>2, <2>3, FS_AddElement
    <3>. QED  BY <3>1, <3>2
  <2>5. Cardinality(V) <= Concurrency
    <3>1. Cardinality(W) <= Concurrency
      BY DEF MatchesSerialized
    <3>. QED  BY <2>4, <3>1
  <2>6. ASSUME NEW m \in V, NEW n \in V, SameGroup(m, n) PROVE m = n
    <3>1. \A i \in W : SameGroup(i, k) => i = k
      BY <2>1 DEF MatchesSerialized
    <3>2. \A i \in W \ {k} : ~SameGroup(i, j) /\ ~SameGroup(j, i)
      BY <1>2, <2>1, <3>1, SameGroupEquivalence
    <3>3. \A a, b \in W : SameGroup(a, b) => a = b
      BY DEF MatchesSerialized
    <3>. QED  BY <2>2, <2>6, <3>2, <3>3
  <2>. QED  BY <2>5, <2>6 DEF MatchesSerialized, SameGroup
<1>. QED  BY <1>1, <1>2 DEF HandOver

LEMMA AdmitKeepsPermits ==
    ASSUME TypeOK, MatchesSerialized, NEW k \in Keys, Admit(k)
    PROVE  MatchesSerialized'
<1>. DEFINE W == {i \in Keys : stage[i] \in Working}
            V == {i \in Keys : stage'[i] \in Working}
<1>1. V = W \union {k} /\ k \notin W
  BY DEF Admit, TypeOK, Working
<1>2. IsFiniteSet(W) /\ Cardinality(W) \in Nat
  BY AlertAssumption, FS_Subset, FS_CardinalityType
<1>3. Cardinality(V) = Cardinality(W) + 1
  BY <1>1, <1>2, FS_AddElement
<1>4. Cardinality(V) <= Concurrency
  <2>1. Cardinality(W) < Concurrency /\ Concurrency \in Nat
    BY AlertAssumption DEF Admit
  <2>. QED  BY <1>2, <1>3, <2>1
<1>5. ASSUME NEW m \in V, NEW n \in V, SameGroup(m, n) PROVE m = n
  <2>1. \A i \in W : ~SameGroup(i, k) /\ ~SameGroup(k, i)
    BY SameGroupEquivalence DEF Admit
  <2>2. \A a, b \in W : SameGroup(a, b) => a = b
    BY DEF MatchesSerialized
  <2>. QED  BY <1>1, <1>5, <2>1, <2>2
<1>. QED  BY <1>4, <1>5 DEF MatchesSerialized, SameGroup

LEMMA StepPermits ==
    TypeOK /\ CooldownSafe /\ MatchesSerialized /\ [Next]_vars => MatchesSerialized'
<1>. SUFFICES ASSUME TypeOK, CooldownSafe, MatchesSerialized, [Next]_vars
              PROVE  MatchesSerialized'
  OBVIOUS
<1>. USE DEF TypeOK
<1>1. CASE Crash \/ Restart \/ FinishRestore \/ BeginRound \/ AbortRound \/ EndRound \/ Tick
           \/ UNCHANGED vars
  BY <1>1, FewerAtWork
     DEF Crash, Restart, FinishRestore, BeginRound, AbortRound, EndRound, Tick, vars, Working
<1>2. ASSUME NEW k \in Keys, ReportUnknown(k) \/ ClearPending(k) PROVE MatchesSerialized'
  BY <1>2, FewerAtWork DEF ReportUnknown, ClearPending, Working
<1>3. ASSUME NEW a \in SUBSET Keys, NEW b \in SUBSET Keys, Evaluate(a, b)
      PROVE  MatchesSerialized'
  BY <1>3, FewerAtWork DEF Evaluate, Working
<1>4. ASSUME NEW k \in Keys, Match(k) PROVE MatchesSerialized'
  <2>1. CASE Admit(k)
    BY <2>1, AdmitKeepsPermits
  <2>2. CASE Mute(k) \/ BeginSend(k) \/ SendAccepted(k) \/ SendRejected(k)
    BY <2>2, FewerAtWork
       DEF Mute, BeginSend, SendAccepted, SendRejected, Postpone, Working
  <2>3. CASE Abandon(k) \/ PersistOk(k) \/ PersistFails(k)
    BY <2>3, HandOverKeepsPermits DEF Abandon, PersistOk, PersistFails, Working
  <2>. QED  BY <1>4, <2>1, <2>2, <2>3 DEF Match
<1>. QED  BY <1>1, <1>2, <1>3, <1>4 DEF Next

(* At most the configured number of matches are in progress, and never two of *)
(* one group, although a task hands its permit on without releasing it.       *)
THEOREM PermitsKept == Spec => []MatchesSerialized
<1>1. Init => MatchesSerialized
  <2>1. ASSUME Init PROVE MatchesSerialized
    <3>1. {k \in Keys : stage[k] \in Working} = {}
      BY <2>1 DEF Init, Working
    <3>2. Cardinality({k \in Keys : stage[k] \in Working}) = 0
      BY <3>1, FS_EmptySet
    <3>. QED  BY <3>1, <3>2, AlertAssumption DEF MatchesSerialized
  <2>. QED  BY <2>1
<1>. QED  BY <1>1, StepPermits, TypeCorrect, CooldownProtected, PTL DEF Spec

---------------------------------------------------------------------------
(* Refinement of AlertGate. *)

(* A step that starts no send, ends none and counts none. *)
LEMMA QuietStep ==
    ASSUME stage \in [Keys -> Stages], stage' \in [Keys -> Stages],
           \A k \in Keys : stage[k] = "sending" <=> stage'[k] = "sending",
           UNCHANGED <<now, started, counted>>
    PROVE  UNCHANGED Gate!gateVars
<1>1. {k \in Keys : stage[k] = "sending"}' = {k \in Keys : stage[k] = "sending"}
  OBVIOUS
<1>. QED  BY <1>1 DEF Gate!gateVars

LEMMA StepGate ==
    ASSUME TypeOK, TypeOK', CooldownSafe, [Next]_vars
    PROVE  [Gate!Next]_(Gate!gateVars)
<1>. USE DEF TypeOK
<1>1. CASE Tick
  BY <1>1 DEF Tick, historyVars, Gate!Next, Gate!Tick
<1>2. CASE Crash
  <2>1. {k \in Keys : stage[k] = "sending"}' = {}
    BY <1>2 DEF Crash
  <2>2. Gate!Interrupt
    BY <1>2, <2>1 DEF Crash, Gate!Interrupt
  <2>. QED  BY <2>2 DEF Gate!Next
<1>3. CASE Restart
  BY <1>3, QuietStep DEF Restart, CooldownSafe, CooldownInv, Working
<1>4. ASSUME NEW k \in Keys, ReportUnknown(k) \/ ClearPending(k)
      PROVE  UNCHANGED Gate!gateVars
  BY <1>4, QuietStep DEF ReportUnknown, ClearPending, historyVars
<1>5. CASE FinishRestore \/ BeginRound \/ AbortRound \/ EndRound
  BY <1>5, QuietStep DEF FinishRestore, BeginRound, AbortRound, EndRound, historyVars
<1>6. ASSUME NEW a \in SUBSET Keys, NEW b \in SUBSET Keys, Evaluate(a, b)
      PROVE  UNCHANGED Gate!gateVars
  BY <1>6, QuietStep DEF Evaluate, CooldownSafe, CooldownInv, Working
<1>7. ASSUME NEW k \in Keys, Match(k) PROVE [Gate!Next]_(Gate!gateVars)
  <2>1. CASE Admit(k) \/ Mute(k)
    BY <2>1, QuietStep DEF Admit, Mute, Postpone, historyVars
  <2>2. CASE Abandon(k) \/ PersistOk(k) \/ PersistFails(k)
    BY <2>2, HandOverType, QuietStep DEF Abandon, PersistOk, PersistFails, historyVars
  <2>3. CASE BeginSend(k)
    <3>1. {j \in Keys : stage[j] = "sending"}'
             = {j \in Keys : stage[j] = "sending"} \union {k}
      BY <2>3 DEF BeginSend
    <3>2. k \notin {j \in Keys : stage[j] = "sending"} /\ Gate!Open(k)
      BY <2>3 DEF BeginSend, CooldownSafe, CooldownInv, Passed, Gate!Open, Gate!Never, NoTime
    <3>3. Gate!Begin(k)
      BY <2>3, <3>1, <3>2 DEF BeginSend, Gate!Begin
    <3>. QED  BY <3>3 DEF Gate!Next
  <2>4. CASE SendAccepted(k)
    <3>1. {j \in Keys : stage[j] = "sending"}'
             = {j \in Keys : stage[j] = "sending"} \ {k}
      BY <2>4 DEF SendAccepted
    <3>2. Gate!Succeed(k)
      BY <2>4, <3>1 DEF SendAccepted, Gate!Succeed
    <3>. QED  BY <3>2 DEF Gate!Next
  <2>5. CASE SendRejected(k)
    <3>1. {j \in Keys : stage[j] = "sending"}'
             = {j \in Keys : stage[j] = "sending"} \ {k}
      BY <2>5 DEF SendRejected, Postpone
    <3>2. Gate!Fail(k)
      BY <2>5, <3>1 DEF SendRejected, Postpone, historyVars, Gate!Fail
    <3>. QED  BY <3>2 DEF Gate!Next
  <2>. QED  BY <1>7, <2>1, <2>2, <2>3, <2>4, <2>5 DEF Match
<1>8. CASE UNCHANGED vars
  BY <1>8, QuietStep DEF vars
<1>. QED  BY <1>1, <1>2, <1>3, <1>4, <1>5, <1>6, <1>7, <1>8 DEF Next

(* The pipeline implements the abstract cooldown gate: every behaviour of the *)
(* engine, the table and the loop is one of AlertGate.                        *)
THEOREM ImplementsGate == Spec => GateSpec
<1>1. Init => Gate!Init
  BY DEF Init, Gate!Init, Gate!Never, NoTime
<1>. QED
  BY <1>1, TypeCorrect, CooldownProtected, StepGate, PTL DEF Spec, GateSpec, Gate!Spec
=============================================================================
