-------------------------- MODULE AstroCardsProofs --------------------------
(***************************************************************************)
(* Proofs about AstroCards for any routes, callers and bounds: the types   *)
(* for callers of both kinds, and for automatic callers alone that no      *)
(* route gets a second card, that an add which may still take effect is    *)
(* guarded by its ledger row, and that nothing is submitted over one.      *)
(***************************************************************************)
EXTENDS AstroCards, TLAPS

(* The stages of a call that holds the lock.                               *)
Locked == {"listing", "listed", "submitting", "adding"}

(* An add that may still create its card, and a route without one.         *)
Live(e) == now - e.at <= Expiry
Free(r) == \A e \in wire : e.route = r => ~Live(e)

Typed == TypeOK /\ \A h \in Handlers : stage[h] = "adding" => current[h] \in Wire

OneHolder ==
    /\ \A h \in Handlers : stage[h] \in Locked => h \in holder
    /\ \A g, h \in holder : g = h

Numbered ==
    /\ \A e \in wire : e.number <= adds /\ e.number \notin landed /\ e.at <= now
    /\ \A e, f \in wire : e.number = f.number => e = f
    /\ \A n \in landed : n <= adds

(* The ledger row of a live add is open and not older than the add, so     *)
(* that it expires only after the add has.                                 *)
Guarded ==
    \A e \in wire : Live(e) => /\ attempts[e.route].state \in Open
                               /\ attempts[e.route].updated >= e.at

(* A live add is the only one of its route, which has no card yet.         *)
Alone == \A e, f \in wire : Live(e) /\ Live(f) /\ e.route = f.route => e = f
NoCardYet == \A e \in wire : Live(e) => cards[e.route] = 0

(* What a call has read: a route it saw has no live add, and one it did    *)
(* not see has no card, unless its row says that one may come.             *)
Fresh(r) == attempts[r].state \in Open /\ now - attempts[r].updated <= Expiry
Listed(h) ==
    stage[h] = "listed" =>
        /\ \A r \in seen[h] : Free(r)
        /\ \A r \in Routes \ seen[h] : cards[r] = 0 \/ Fresh(r)

(* What a call goes on to add has no card and no live add; the live add of *)
(* the route it is adding is its own.                                      *)
ToAdd(h) ==
    stage[h] \in {"submitting", "adding"} => \A r \in todo[h] : Free(r) /\ cards[r] = 0
Adding(h) ==
    stage[h] = "adding" =>
        \A e \in wire : Live(e) /\ e.route = current[h].route => e = current[h]

Calls == \A h \in Handlers : Listed(h) /\ ToAdd(h) /\ Adding(h)
OneCard == \A r \in Routes : cards[r] <= 1

Ledger == Guarded /\ Alone /\ NoCardYet /\ OneCard
IInv == Typed /\ OneHolder /\ Numbered /\ Ledger /\ Calls
-----------------------------------------------------------------------------
LEMMA InitHolds == Init => IInv
<1> SUFFICES ASSUME Init PROVE IInv
    OBVIOUS
<1> USE CardsAssumption DEF Init
<1>1. Typed
      BY DEF Typed, TypeOK, Stages, Attempts, NoAttempt
<1>2. OneHolder /\ Numbered /\ Ledger
      BY DEF OneHolder, Locked, Numbered, Ledger, Guarded, Alone, NoCardYet, OneCard
<1>3. Calls
      BY DEF Calls, Listed, ToAdd, Adding
<1> QED
    BY <1>1, <1>2, <1>3 DEF IInv

(* What the ledger's operations return.                                    *)
LEMMA MarkTyped ==
    ASSUME now \in Nat, NEW ledger \in [Routes -> Attempts], NEW r \in Routes,
           NEW s \in Open \union Settled
    PROVE  /\ Mark(ledger, r, s) \in [Routes -> Attempts]
           /\ Mark(ledger, r, s)[r] = [state |-> s, updated |-> now]
           /\ \A q \in Routes \ {r} : Mark(ledger, r, s)[q] = ledger[q]
    BY DEF Mark, Attempts

LEMMA CleanedTyped ==
    ASSUME NEW ledger \in [Routes -> Attempts]
    PROVE  /\ Cleaned(ledger) \in [Routes -> Attempts]
           /\ \A q \in Routes : ledger[q].state \in Open => Cleaned(ledger)[q] = ledger[q]
           /\ \A q \in Routes : Cleaned(ledger)[q].state \in Open => Cleaned(ledger)[q] = ledger[q]
    BY DEF Cleaned, Attempts, NoAttempt, Open, Settled

LEMMA ReconciledTyped ==
    ASSUME now \in Nat, attempts \in [Routes -> Attempts], NEW V \in SUBSET Routes
    PROVE  /\ Reconciled(V) \in [Routes -> Attempts]
           /\ \A q \in Routes \ V : Reconciled(V)[q] = attempts[q]
    BY DEF Reconciled, Attempts, Settled

(* mark_pending, committed: its own row, and no open row of another route. *)
LEMMA PendingTyped ==
    ASSUME now \in Nat, attempts \in [Routes -> Attempts], NEW r \in Routes,
           NEW ledger \in MarkedPending(r)
    PROVE  /\ ledger \in [Routes -> Attempts]
           /\ ledger[r] = [state |-> "pending", updated |-> now]
           /\ \A q \in Routes \ {r} : attempts[q].state \in Open => ledger[q] = attempts[q]
<1>1. "pending" \in Open
      BY DEF Open
<1>2. CASE ledger = Mark(attempts, r, "pending")
      BY <1>1, <1>2, MarkTyped
<1>3. CASE ledger = Mark(Cleaned(attempts), r, "pending")
      BY <1>1, <1>3, MarkTyped, CleanedTyped
<1> QED
    BY <1>2, <1>3 DEF MarkedPending

(* The row of an add without a clear answer.                               *)
LEMMA UncertainTyped ==
    ASSUME now \in Nat, attempts \in [Routes -> Attempts], NEW r \in Routes,
           NEW ledger \in MarkedUncertain(r)
    PROVE  \/ ledger = attempts
           \/ /\ ledger \in [Routes -> Attempts]
              /\ ledger[r] = [state |-> "unknown", updated |-> now]
              /\ \A q \in Routes \ {r} : ledger[q] = attempts[q]
<1>1. "unknown" \in Open
      BY DEF Open
<1> QED
    BY <1>1, MarkTyped DEF MarkedUncertain, UncertainState

(* Every step keeps the types, with callers of both kinds.                 *)
LEMMA TypesKept == Typed /\ [Next]_vars => Typed'
<1> SUFFICES ASSUME Typed, [Next]_vars PROVE Typed'
    OBVIOUS
<1>0. now \in Nat /\ attempts \in [Routes -> Attempts]
      BY DEF Typed, TypeOK
<1> USE CardsAssumption DEF Typed, TypeOK, Stages, Wire, NoAdd
<1>1. ASSUME NEW h \in Handlers, NEW V \in SUBSET Routes, Start(h, V) PROVE Typed'
      BY <1>1 DEF Start, callVars, remoteVars
<1>2. ASSUME NEW h \in Handlers, Acquire(h) PROVE Typed'
      BY <1>2 DEF Acquire, callVars, remoteVars
<1>3. ASSUME NEW h \in Handlers, List(h) PROVE Typed'
      BY <1>3 DEF List, callVars, remoteVars
<1>4. ASSUME NEW h \in Handlers, ListFails(h) PROVE Typed'
      BY <1>4 DEF ListFails, Finish, callVars, remoteVars
<1>5. ASSUME NEW h \in Handlers, Reconcile(h) PROVE Typed'
  <2>1. attempts' \in [Routes -> Attempts]
      BY <1>0, <1>5, ReconciledTyped DEF Reconcile, Visible, Undecided
  <2>2. CASE Finish(h)
      BY <1>5, <2>1, <2>2 DEF Reconcile, Finish, remoteVars
  <2>3. CASE ~Finish(h)
    <3>1. /\ stage' = [stage EXCEPT ![h] = "submitting"]
          /\ todo' = [todo EXCEPT ![h] = planned[h] \ seen[h]]
          /\ UNCHANGED <<now, holder, planned, seen, current, remoteVars>>
        BY <1>5, <2>3 DEF Reconcile
    <3>2. stage' \in [Handlers -> Stages] /\ todo' \in [Handlers -> SUBSET Routes]
        BY <3>1
    <3> QED
        BY <2>1, <3>1, <3>2 DEF remoteVars
  <2> QED
      BY <2>2, <2>3
<1>6. ASSUME NEW h \in Handlers, ReconcileFails(h) PROVE Typed'
  <2>1. attempts' \in [Routes -> Attempts]
      BY <1>0, <1>6, ReconciledTyped DEF ReconcileFails, Visible, Undecided
  <2> QED
      BY <1>6, <2>1 DEF ReconcileFails, Finish, remoteVars
<1>7. ASSUME NEW h \in Handlers, Disqualified(h) PROVE Typed'
      BY <1>7 DEF Disqualified, Finish, callVars, remoteVars
<1>8. ASSUME NEW h \in Handlers, NEW r \in Routes, Submit(h, r) PROVE Typed'
  <2>1. attempts' \in [Routes -> Attempts]
      BY <1>0, <1>8, PendingTyped DEF Submit
  <2> QED
      BY <1>8, <2>1 DEF Submit
<1>9. ASSUME NEW h \in Handlers, NEW r \in Routes, SubmitFails(h, r) PROVE Typed'
  <2>1. attempts' \in [Routes -> Attempts]
      BY <1>0, <1>9, PendingTyped DEF SubmitFails
  <2> QED
      BY <1>9, <2>1 DEF SubmitFails, Finish, remoteVars
<1>10. ASSUME NEW h \in Handlers, AddCreated(h) PROVE Typed'
  <2>1. attempts' \in [Routes -> Attempts]
      BY <1>0, <1>10, MarkTyped DEF AddCreated, Settled
  <2> QED
      BY <1>10, <2>1 DEF AddCreated, Finish, remoteVars
<1>11. ASSUME NEW h \in Handlers, AddRejected(h) PROVE Typed'
  <2>1. attempts' \in [Routes -> Attempts]
    <3>1. current[h].route \in Routes
          BY <1>11 DEF AddRejected
    <3>2. Mark(attempts, current[h].route, "failed") \in [Routes -> Attempts]
          BY <1>0, <3>1, MarkTyped DEF Settled
    <3> QED
        BY <1>0, <1>11, <3>2 DEF AddRejected
  <2> QED
      BY <1>11, <2>1 DEF AddRejected, Finish
<1>12. ASSUME NEW h \in Handlers, AddUncertain(h) PROVE Typed'
  <2>1. attempts' \in [Routes -> Attempts]
      BY <1>0, <1>12, UncertainTyped DEF AddUncertain
  <2> QED
      BY <1>12, <2>1 DEF AddUncertain, Finish, remoteVars
<1>13. ASSUME Land PROVE Typed'
  <2> PICK e \in wire : /\ wire' = wire \ {e} /\ landed' = landed \union {e.number}
                        /\ cards' = [cards EXCEPT ![e.route] = @ + 1]
      BY <1>13 DEF Land
  <2>1. e.number \in 1..MaxAdds /\ e.route \in Routes
      OBVIOUS
  <2>2. cards' \in [Routes -> Nat]
      BY <2>1
  <2>4. landed' \subseteq 1..MaxAdds /\ wire' \subseteq wire
      BY <2>1
  <2>3. UNCHANGED <<now, callVars, attempts, adds>>
      BY <1>13 DEF Land
  <2> HIDE DEF Wire
  <2> QED
      BY <2>2, <2>3, <2>4 DEF callVars
<1>14. ASSUME Drop PROVE Typed'
      BY <1>14 DEF Drop, callVars, remoteVars
<1>15. ASSUME NEW r \in Routes, OperatorDeletes(r) PROVE Typed'
      BY <1>15 DEF OperatorDeletes, callVars, remoteVars
<1>16. ASSUME Tick PROVE Typed'
      BY <1>16 DEF Tick, callVars, remoteVars
<1>17. ASSUME Crash PROVE Typed'
      BY <1>17 DEF Crash, callVars, remoteVars
<1>18. ASSUME UNCHANGED vars PROVE Typed'
      BY <1>18 DEF vars, callVars, remoteVars
<1> QED
    BY <1>1, <1>2, <1>3, <1>4, <1>5, <1>6, <1>7, <1>8, <1>9, <1>10, <1>11, <1>12, <1>13, <1>14, <1>15, <1>16, <1>17, <1>18 DEF Next, Call

(* Every step keeps the lock and the numbers of the adds.                  *)
LEMMA LockKept == Typed /\ OneHolder /\ [Next]_vars => OneHolder'
<1> SUFFICES ASSUME Typed, OneHolder, [Next]_vars PROVE OneHolder'
    OBVIOUS
<1> USE CardsAssumption DEF Typed, TypeOK, Stages, OneHolder, Locked
<1>1. ASSUME NEW h \in Handlers, NEW V \in SUBSET Routes, Start(h, V) PROVE OneHolder'
      BY <1>1 DEF Start, callVars, remoteVars
<1>2. ASSUME NEW h \in Handlers, Acquire(h) PROVE OneHolder'
      BY <1>2 DEF Acquire, callVars, remoteVars
<1>3. ASSUME NEW h \in Handlers, List(h) PROVE OneHolder'
      BY <1>3 DEF List, callVars, remoteVars
<1>4. ASSUME NEW h \in Handlers, ListFails(h) PROVE OneHolder'
      BY <1>4 DEF ListFails, Finish, callVars, remoteVars
<1>5. ASSUME NEW h \in Handlers, Reconcile(h) PROVE OneHolder'
      BY <1>5 DEF Reconcile, Finish, Reconciled, callVars, remoteVars
<1>6. ASSUME NEW h \in Handlers, ReconcileFails(h) PROVE OneHolder'
      BY <1>6 DEF ReconcileFails, Finish, Reconciled, callVars, remoteVars
<1>7. ASSUME NEW h \in Handlers, Disqualified(h) PROVE OneHolder'
      BY <1>7 DEF Disqualified, Finish, callVars, remoteVars
<1>8. ASSUME NEW h \in Handlers, NEW r \in Routes, Submit(h, r) PROVE OneHolder'
      BY <1>8 DEF Submit, MarkedPending, Mark, Cleaned, callVars, remoteVars
<1>9. ASSUME NEW h \in Handlers, NEW r \in Routes, SubmitFails(h, r) PROVE OneHolder'
      BY <1>9 DEF SubmitFails, Finish, MarkedPending, Mark, Cleaned, callVars, remoteVars
<1>10. ASSUME NEW h \in Handlers, AddCreated(h) PROVE OneHolder'
      BY <1>10 DEF AddCreated, Finish, Mark, callVars, remoteVars
<1>11. ASSUME NEW h \in Handlers, AddRejected(h) PROVE OneHolder'
      BY <1>11 DEF AddRejected, Finish, Mark, callVars, remoteVars
<1>12. ASSUME NEW h \in Handlers, AddUncertain(h) PROVE OneHolder'
      BY <1>12 DEF AddUncertain, Finish, MarkedUncertain, UncertainState, Mark, callVars, remoteVars
<1>13. ASSUME Land PROVE OneHolder'
      BY <1>13 DEF Land, callVars, remoteVars
<1>14. ASSUME Drop PROVE OneHolder'
      BY <1>14 DEF Drop, callVars, remoteVars
<1>15. ASSUME NEW r \in Routes, OperatorDeletes(r) PROVE OneHolder'
      BY <1>15 DEF OperatorDeletes, callVars, remoteVars
<1>16. ASSUME Tick PROVE OneHolder'
      BY <1>16 DEF Tick, callVars, remoteVars
<1>17. ASSUME Crash PROVE OneHolder'
      BY <1>17 DEF Crash, callVars, remoteVars
<1>18. ASSUME UNCHANGED vars PROVE OneHolder'
      BY <1>18 DEF vars, callVars, remoteVars
<1> QED
    BY <1>1, <1>2, <1>3, <1>4, <1>5, <1>6, <1>7, <1>8, <1>9, <1>10, <1>11, <1>12, <1>13, <1>14, <1>15, <1>16, <1>17, <1>18 DEF Next, Call

LEMMA NumbersKept == Typed /\ Numbered /\ [Next]_vars => Numbered'
<1> SUFFICES ASSUME Typed, Numbered, [Next]_vars PROVE Numbered'
    OBVIOUS
<1> USE CardsAssumption DEF Typed, TypeOK, Wire, NoAdd, Numbered
<1>1. ASSUME NEW h \in Handlers, NEW V \in SUBSET Routes, Start(h, V) PROVE Numbered'
      BY <1>1 DEF Start, callVars, remoteVars
<1>2. ASSUME NEW h \in Handlers, Acquire(h) PROVE Numbered'
      BY <1>2 DEF Acquire, callVars, remoteVars
<1>3. ASSUME NEW h \in Handlers, List(h) PROVE Numbered'
      BY <1>3 DEF List, callVars, remoteVars
<1>4. ASSUME NEW h \in Handlers, ListFails(h) PROVE Numbered'
      BY <1>4 DEF ListFails, Finish, callVars, remoteVars
<1>5. ASSUME NEW h \in Handlers, Reconcile(h) PROVE Numbered'
      BY <1>5 DEF Reconcile, Finish, Reconciled, callVars, remoteVars
<1>6. ASSUME NEW h \in Handlers, ReconcileFails(h) PROVE Numbered'
      BY <1>6 DEF ReconcileFails, Finish, Reconciled, callVars, remoteVars
<1>7. ASSUME NEW h \in Handlers, Disqualified(h) PROVE Numbered'
      BY <1>7 DEF Disqualified, Finish, callVars, remoteVars
<1>8. ASSUME NEW h \in Handlers, NEW r \in Routes, Submit(h, r) PROVE Numbered'
      BY <1>8 DEF Submit, MarkedPending, Mark, Cleaned, callVars, remoteVars
<1>9. ASSUME NEW h \in Handlers, NEW r \in Routes, SubmitFails(h, r) PROVE Numbered'
      BY <1>9 DEF SubmitFails, Finish, MarkedPending, Mark, Cleaned, callVars, remoteVars
<1>10. ASSUME NEW h \in Handlers, AddCreated(h) PROVE Numbered'
      BY <1>10 DEF AddCreated, Finish, Mark, callVars, remoteVars
<1>11. ASSUME NEW h \in Handlers, AddRejected(h) PROVE Numbered'
      BY <1>11 DEF AddRejected, Finish, Mark, callVars, remoteVars
<1>12. ASSUME NEW h \in Handlers, AddUncertain(h) PROVE Numbered'
      BY <1>12 DEF AddUncertain, Finish, MarkedUncertain, UncertainState, Mark, callVars, remoteVars
<1>13. ASSUME Land PROVE Numbered'
      BY <1>13 DEF Land, callVars, remoteVars
<1>14. ASSUME Drop PROVE Numbered'
      BY <1>14 DEF Drop, callVars, remoteVars
<1>15. ASSUME NEW r \in Routes, OperatorDeletes(r) PROVE Numbered'
      BY <1>15 DEF OperatorDeletes, callVars, remoteVars
<1>16. ASSUME Tick PROVE Numbered'
      BY <1>16 DEF Tick, callVars, remoteVars
<1>17. ASSUME Crash PROVE Numbered'
      BY <1>17 DEF Crash, callVars, remoteVars
<1>18. ASSUME UNCHANGED vars PROVE Numbered'
      BY <1>18 DEF vars, callVars, remoteVars
<1> QED
    BY <1>1, <1>2, <1>3, <1>4, <1>5, <1>6, <1>7, <1>8, <1>9, <1>10, <1>11, <1>12, <1>13, <1>14, <1>15, <1>16, <1>17, <1>18 DEF Next, Call

(* A row guards its route also after a step that leaves open rows alone,   *)
(* renews them, or settles one without a live add.                         *)
LEMMA GuardKept ==
    ASSUME Typed, Guarded, Numbered, now' = now, wire' \subseteq wire,
           \A q \in Routes :
              \/ attempts[q].state \in Open => attempts'[q] = attempts[q]
              \/ attempts'[q].state \in Open /\ attempts'[q].updated = now
              \/ Free(q)
    PROVE  Guarded'
<1> SUFFICES ASSUME NEW e \in wire, now - e.at <= Expiry
             PROVE  attempts'[e.route].state \in Open /\ attempts'[e.route].updated >= e.at
    BY DEF Guarded, Live
<1>1. e.route \in Routes /\ e.at \in Nat /\ now \in Nat /\ e.at <= now
    BY DEF Typed, TypeOK, Wire, Numbered
<1>2. ~Free(e.route)
    BY DEF Free, Live
<1>3. attempts[e.route].state \in Open /\ attempts[e.route].updated >= e.at
    BY DEF Guarded, Live
<1> QED
    BY <1>1, <1>2, <1>3

(* Fewer adds and fewer cards disturb nothing else of the ledger.          *)
LEMMA CardsKept ==
    ASSUME Typed, Ledger, now' = now, wire' \subseteq wire, cards' = cards
    PROVE  (Alone /\ NoCardYet /\ OneCard)'
    BY DEF Ledger, Alone, NoCardYet, OneCard, Live

(* Every step of automatic callers keeps the ledger's part.                *)
LEMMA LedgerKept == Manual = {} /\ IInv /\ [Next]_vars => Ledger'
<1> SUFFICES ASSUME Manual = {}, IInv, [Next]_vars PROVE Ledger'
    OBVIOUS
<1>0. /\ Typed /\ Numbered /\ Ledger /\ Guarded
      /\ now \in Nat /\ attempts \in [Routes -> Attempts] /\ wire \subseteq Wire
      /\ \A h \in Handlers : Listed(h) /\ ToAdd(h) /\ Adding(h)
      BY DEF IInv, Typed, TypeOK, Ledger, Calls
<1>1. ASSUME UNCHANGED <<now, attempts, wire, cards>> PROVE Ledger'
      BY <1>0, <1>1 DEF Ledger, Guarded, Alone, NoCardYet, OneCard, Live
<1>2. ASSUME NEW h \in Handlers, NEW V \in SUBSET Visible(h), stage[h] = "listed",
             attempts' = Reconciled(V), UNCHANGED <<now, wire, cards>>
      PROVE  Ledger'
  <2>1. V \subseteq Routes /\ \A q \in V : Free(q)
        BY <1>0, <1>2 DEF Visible, Undecided, Typed, TypeOK, Listed
  <2>2. \A q \in Routes \ V : attempts'[q] = attempts[q]
        BY <1>0, <1>2, <2>1, ReconciledTyped
  <2>3. Guarded'
        BY <1>0, <1>2, <2>1, <2>2, GuardKept
  <2> QED
      BY <1>0, <1>2, <2>3, CardsKept DEF Ledger
<1>3. ASSUME NEW h \in Handlers, NEW r \in Routes, Submit(h, r) PROVE Ledger'
  <2> DEFINE new == [number |-> adds + 1, route |-> r, at |-> now]
  <2>1. /\ wire' = wire \union {new} /\ now' = now /\ cards' = cards
        /\ new.route = r /\ new.at = now
        /\ \A e \in wire : e.route = r => ~Live(e)
        /\ cards[r] = 0
        BY <1>0, <1>3 DEF Submit, ToAdd, Free, Typed, TypeOK
  <2>2. /\ attempts'[r] = [state |-> "pending", updated |-> now]
        /\ \A q \in Routes \ {r} : attempts[q].state \in Open => attempts'[q] = attempts[q]
        BY <1>0, <1>3, PendingTyped DEF Submit
  <2> HIDE DEF new
  <2>3. Guarded'
    <3> SUFFICES ASSUME NEW e \in wire', now - e.at <= Expiry
                 PROVE  attempts'[e.route].state \in Open /\ attempts'[e.route].updated >= e.at
        BY <2>1 DEF Guarded, Live
    <3>1. CASE e = new
          BY <1>0, <2>1, <2>2, <3>1 DEF Open
    <3>2. CASE e # new
      <4>1. e \in wire /\ e.route \in Routes \ {r}
            BY <1>0, <2>1, <3>2 DEF Live, Wire
      <4> QED
          BY <1>0, <2>2, <4>1 DEF Guarded, Live
    <3> QED
        BY <3>1, <3>2
  <2>4. (Alone /\ NoCardYet /\ OneCard)'
        BY <1>0, <2>1 DEF Ledger, Alone, NoCardYet, OneCard, Live
  <2> QED
      BY <2>3, <2>4 DEF Ledger
<1>4. ASSUME NEW h \in Handlers, NEW r \in Routes, SubmitFails(h, r) PROVE Ledger'
  <2>1. attempts' # attempts =>
           /\ attempts'[r] = [state |-> "pending", updated |-> now]
           /\ \A q \in Routes \ {r} : attempts[q].state \in Open => attempts'[q] = attempts[q]
        BY <1>0, <1>4, PendingTyped DEF SubmitFails
  <2>2. UNCHANGED <<now, wire, cards>>
        BY <1>4 DEF SubmitFails, remoteVars
  <2>3. Guarded'
        BY <1>0, <2>1, <2>2, GuardKept DEF Open
  <2> QED
      BY <1>0, <2>2, <2>3, CardsKept DEF Ledger
<1>5. ASSUME NEW h \in Handlers, stage[h] = "adding", now' = now, cards' = cards,
             wire' \subseteq wire,
             \A e \in wire' : e.route = current[h].route => ~Live(e),
             attempts' \in {Mark(attempts, current[h].route, s) : s \in Settled}
                           \union {attempts}
      PROVE  Ledger'
  <2>1. current[h].route \in Routes
        BY <1>0, <1>5 DEF Typed, Wire
  <2>2. \A q \in Routes \ {current[h].route} : attempts'[q] = attempts[q]
    <3>1. ASSUME NEW s \in Settled
          PROVE  \A q \in Routes \ {current[h].route} :
                    Mark(attempts, current[h].route, s)[q] = attempts[q]
      <4>1. s \in Open \union Settled
            OBVIOUS
      <4> QED
          BY <1>0, <2>1, <4>1, MarkTyped
    <3> QED
        BY <1>5, <3>1
  <2>3. Guarded'
    <3> SUFFICES ASSUME NEW e \in wire', now - e.at <= Expiry
                 PROVE  attempts'[e.route].state \in Open /\ attempts'[e.route].updated >= e.at
        BY <1>5 DEF Guarded, Live
    <3>1. e \in wire /\ e.route \in Routes \ {current[h].route}
          BY <1>0, <1>5 DEF Live, Wire
    <3> QED
        BY <1>0, <2>2, <3>1 DEF Guarded, Live
  <2> QED
      BY <1>0, <1>5, <2>3, CardsKept DEF Ledger
<1>6. ASSUME NEW h \in Handlers, AddCreated(h) PROVE Ledger'
  <2>1. /\ stage[h] = "adding" /\ current[h].number \in landed
        /\ UNCHANGED <<now, wire, cards>>
        /\ attempts' = Mark(attempts, current[h].route, "created")
        BY <1>6 DEF AddCreated, remoteVars
  <2>2. \A e \in wire' : e.route = current[h].route => ~Live(e)
        BY <1>0, <2>1 DEF Live, Adding, Numbered
  <2> QED
      BY <1>5, <2>1, <2>2 DEF Settled
<1>7. ASSUME NEW h \in Handlers, AddRejected(h) PROVE Ledger'
  <2>1. /\ stage[h] = "adding" /\ UNCHANGED <<now, cards>> /\ wire' = wire \ {current[h]}
        /\ attempts' \in {Mark(attempts, current[h].route, "failed"), attempts}
        BY <1>7 DEF AddRejected
  <2>2. \A e \in wire' : e.route = current[h].route => ~Live(e)
        BY <1>0, <2>1 DEF Live, Adding
  <2> QED
      BY <1>5, <2>1, <2>2 DEF Settled
<1>8. ASSUME NEW h \in Handlers, AddUncertain(h) PROVE Ledger'
  <2>1. /\ stage[h] = "adding" /\ UNCHANGED <<now, wire, cards>>
        /\ attempts' \in MarkedUncertain(current[h].route)
        /\ current[h].route \in Routes
        BY <1>0, <1>8 DEF AddUncertain, remoteVars, Typed, Wire
  <2>2. \/ attempts' = attempts
        \/ /\ attempts'[current[h].route] = [state |-> "unknown", updated |-> now]
           /\ \A q \in Routes \ {current[h].route} : attempts'[q] = attempts[q]
        BY <1>0, <2>1, UncertainTyped
  <2>3. Guarded'
        BY <1>0, <2>1, <2>2, GuardKept DEF Open
  <2> QED
      BY <1>0, <2>1, <2>3, CardsKept DEF Ledger
<1>9. CASE Land
  <2> PICK e \in wire : /\ Live(e) /\ wire' = wire \ {e}
                        /\ cards' = [cards EXCEPT ![e.route] = @ + 1]
      BY <1>9 DEF Land, Live
  <2>1. UNCHANGED <<now, attempts>>
        BY <1>9 DEF Land
  <2>2. Guarded'
        BY <1>0, <2>1, GuardKept
  <2>3. /\ e.route \in Routes /\ cards \in [Routes -> Nat] /\ cards[e.route] = 0
        /\ \A f \in wire' : Live(f) => f.route # e.route /\ f.route \in Routes
        BY <1>0 DEF Ledger, Alone, NoCardYet, Typed, TypeOK, Wire
  <2>4. (Alone /\ NoCardYet)'
        BY <1>0, <2>1, <2>3 DEF Ledger, Alone, NoCardYet, Live
  <2>5. OneCard'
        BY <1>0, <2>3 DEF Ledger, OneCard
  <2> QED
      BY <2>2, <2>4, <2>5 DEF Ledger
<1>10. CASE Drop
  <2>1. wire' \subseteq wire /\ UNCHANGED <<now, attempts, cards>>
        BY <1>10 DEF Drop
  <2> QED
      BY <1>0, <2>1, GuardKept, CardsKept DEF Ledger
<1>11. ASSUME NEW r \in Routes, OperatorDeletes(r) PROVE Ledger'
  <2>1. UNCHANGED <<now, attempts, wire>> /\ cards' = [cards EXCEPT ![r] = 0]
        BY <1>11 DEF OperatorDeletes
  <2>2. Guarded'
        BY <1>0, <2>1, GuardKept
  <2>3. (Alone /\ NoCardYet /\ OneCard)'
        BY <1>0, <2>1 DEF Ledger, Alone, NoCardYet, OneCard, Live, Typed, TypeOK, Wire
  <2> QED
      BY <2>2, <2>3 DEF Ledger
<1>12. CASE Tick
  <2>1. now' = now + 1 /\ UNCHANGED <<attempts, wire, cards>>
        BY <1>12 DEF Tick, remoteVars
  <2>2. \A e \in wire : Live(e)' => Live(e)
        BY <1>0, <2>1, CardsAssumption DEF Live, Wire
  <2> QED
      BY <1>0, <2>1, <2>2 DEF Ledger, Guarded, Alone, NoCardYet, OneCard
<1>13. ASSUME NEW h \in Handlers,
              \/ \E V \in SUBSET Routes : Start(h, V)
              \/ Acquire(h) \/ List(h) \/ ListFails(h) \/ Disqualified(h)
       PROVE  Ledger'
      BY <1>1, <1>13 DEF Start, Acquire, List, ListFails, Disqualified, remoteVars
<1>14. ASSUME NEW h \in Handlers, Reconcile(h) \/ ReconcileFails(h) PROVE Ledger'
  <2>1. PICK V \in SUBSET Visible(h) : attempts' = Reconciled(V)
        BY <1>14 DEF Reconcile, ReconcileFails
  <2>2. stage[h] = "listed" /\ UNCHANGED <<now, wire, cards>>
        BY <1>14 DEF Reconcile, ReconcileFails, remoteVars
  <2> QED
      BY <1>2, <2>1, <2>2
<1>15. CASE Crash \/ UNCHANGED vars
      BY <1>1, <1>15 DEF Crash, vars, remoteVars
<1> QED
    BY <1>3, <1>4, <1>6, <1>7, <1>8, <1>9, <1>10, <1>11, <1>12, <1>13, <1>14, <1>15
       DEF Next, Call

(* A call that holds the lock is the only one with anything to lose.       *)
LEMMA OthersWait ==
    ASSUME OneHolder, NEW g \in Handlers, NEW h \in Handlers, g # h, stage[h] \in Locked
    PROVE  stage[g] \notin Locked
    BY DEF OneHolder

(* Every step of automatic callers keeps what calls rely on.               *)
LEMMA CallsKept == Manual = {} /\ IInv /\ [Next]_vars => Calls'
<1> SUFFICES ASSUME Manual = {}, IInv, [Next]_vars, NEW g \in Handlers
             PROVE  (Listed(g) /\ ToAdd(g) /\ Adding(g))'
    BY DEF Calls
<1> DEFINE Good == Listed(g) /\ ToAdd(g) /\ Adding(g)
<1>0. /\ Typed /\ OneHolder /\ Numbered /\ Ledger /\ Guarded /\ Alone /\ NoCardYet
      /\ now \in Nat /\ attempts \in [Routes -> Attempts] /\ wire \subseteq Wire
      /\ \A h \in Handlers : Listed(h) /\ ToAdd(h) /\ Adding(h)
      BY DEF IInv, Typed, TypeOK, Ledger, Calls
<1>1. ASSUME stage'[g] \notin {"listed", "submitting", "adding"} PROVE Good'
      BY <1>1 DEF Listed, ToAdd, Adding
<1>2. ASSUME UNCHANGED <<now, attempts, wire, cards, stage, seen, todo, current>> PROVE Good'
      BY <1>0, <1>2 DEF Listed, ToAdd, Adding, Free, Live, Fresh
(* A step of another call that has the lock.                               *)
<1>3. ASSUME NEW h \in Handlers, g # h, stage[h] \in Locked, stage'[g] = stage[g] PROVE Good'
      BY <1>0, <1>1, <1>3, OthersWait DEF Locked
<1>4. ASSUME NEW h \in Handlers, NEW V \in SUBSET Routes, Start(h, V) PROVE Good'
  <2>1. CASE g = h
        BY <1>0, <1>1, <1>4, <2>1 DEF Start, Typed, TypeOK
  <2>2. CASE g # h
        BY <1>0, <1>4, <2>2 DEF Start, remoteVars, Typed, TypeOK, Listed, ToAdd, Adding, Free,
                                Live, Fresh
  <2> QED
      BY <2>1, <2>2
<1>5. ASSUME NEW h \in Handlers, Acquire(h) PROVE Good'
  <2>1. CASE g = h
        BY <1>0, <1>1, <1>5, <2>1 DEF Acquire, Typed, TypeOK
  <2>2. CASE g # h
        BY <1>0, <1>5, <2>2 DEF Acquire, remoteVars, Typed, TypeOK, Listed, ToAdd, Adding, Free,
                                Live, Fresh
  <2> QED
      BY <2>1, <2>2
<1>6. ASSUME NEW h \in Handlers, List(h) PROVE Good'
  <2>1. CASE g = h
    <3>1. /\ stage'[g] = "listed" /\ seen'[g] = {r \in Routes : cards[r] > 0}
          /\ UNCHANGED <<now, attempts, wire, cards>>
          BY <1>0, <1>6, <2>1 DEF List, remoteVars, Typed, TypeOK
    <3>2. \A r \in Routes : cards[r] > 0 => Free(r)
          BY <1>0 DEF NoCardYet, Free, Typed, TypeOK
    <3>3. \A r \in Routes \ seen'[g] : cards[r] = 0
          BY <1>0, <3>1 DEF Typed, TypeOK
    <3> QED
        BY <3>1, <3>2, <3>3 DEF Listed, ToAdd, Adding, Free, Live
  <2>2. CASE g # h
        BY <1>0, <1>3, <1>6, <2>2 DEF List, Locked, Typed, TypeOK
  <2> QED
      BY <2>1, <2>2
<1>7. ASSUME NEW h \in Handlers, stage[h] \in Locked, Finish(h) PROVE Good'
  <2>1. CASE g = h
        BY <1>0, <1>1, <1>7, <2>1 DEF Finish, Typed, TypeOK
  <2>2. CASE g # h
        BY <1>0, <1>3, <1>7, <2>2 DEF Finish, Typed, TypeOK
  <2> QED
      BY <2>1, <2>2
<1>8. ASSUME NEW h \in Handlers, Reconcile(h) PROVE Good'
  <2> SUFFICES ASSUME ~Finish(h) PROVE Good'
      BY <1>7, <1>8 DEF Reconcile, Locked
  <2>1. /\ stage[h] = "listed" /\ stage' = [stage EXCEPT ![h] = "submitting"]
        /\ todo' = [todo EXCEPT ![h] = planned[h] \ seen[h]]
        /\ Blocking(h) = {} /\ UNCHANGED <<now, wire, cards>>
        BY <1>8 DEF Reconcile, remoteVars
  <2>2. CASE g = h
    <3> SUFFICES ASSUME NEW r \in planned[h] \ seen[h] PROVE Free(r) /\ cards[r] = 0
        BY <1>0, <2>1, <2>2 DEF Listed, ToAdd, Adding, Free, Live, Typed, TypeOK
    <3>1. r \in Routes /\ (cards[r] = 0 \/ Fresh(r))
          BY <1>0, <2>1 DEF Listed, Typed, TypeOK
    <3>2. attempts[r].state \in Open => Outdated(r)
          BY <2>1 DEF Blocking, Undecided
    <3>3. attempts[r].updated \in Int
          BY <1>0, <3>1 DEF Attempts, NoAttempt, NoTime
    <3>4. ~Fresh(r)
          BY <1>0, <3>2, <3>3, CardsAssumption DEF Fresh, Outdated
    <3>5. Free(r)
      <4> SUFFICES ASSUME NEW e \in wire, e.route = r, Live(e) PROVE FALSE
          BY DEF Free
      <4>1. attempts[r].state \in Open /\ attempts[r].updated >= e.at
            BY <1>0 DEF Guarded
      <4>2. now - attempts[r].updated > Expiry
            BY <3>2, <4>1 DEF Outdated
      <4>3. e.at \in Nat
            BY <1>0 DEF Wire
      <4> QED
          BY <1>0, <3>3, <4>1, <4>2, <4>3, CardsAssumption DEF Live
    <3> QED
        BY <3>1, <3>4, <3>5
  <2>3. CASE g # h
        BY <1>0, <1>3, <2>1, <2>3 DEF Locked, Typed, TypeOK
  <2> QED
      BY <2>2, <2>3
<1>9. ASSUME NEW h \in Handlers, NEW r \in Routes, Submit(h, r) PROVE Good'
  <2> DEFINE new == [number |-> adds + 1, route |-> r, at |-> now]
  <2>1. /\ stage[h] = "submitting" /\ stage' = [stage EXCEPT ![h] = "adding"]
        /\ r \in todo[h] /\ todo' = [todo EXCEPT ![h] = @ \ {r}]
        /\ current' = [current EXCEPT ![h] = new] /\ wire' = wire \union {new}
        /\ new.route = r /\ UNCHANGED <<now, cards>>
        BY <1>0, <1>9 DEF Submit, Typed, TypeOK
  <2> HIDE DEF new
  <2>2. CASE g = h
    <3>1. /\ stage'[g] = "adding" /\ current'[g] = new /\ todo'[g] = todo[g] \ {r}
          BY <1>0, <2>1, <2>2 DEF Typed, TypeOK
    <3>2. \A q \in todo[g] : Free(q) /\ cards[q] = 0
          BY <1>0, <2>1, <2>2 DEF ToAdd
    <3>3. ToAdd(g)'
          BY <2>1, <3>1, <3>2 DEF ToAdd, Free, Live
    <3>4. Adding(g)'
          BY <2>1, <2>2, <3>1, <3>2 DEF Adding, Free, Live
    <3> QED
        BY <3>1, <3>3, <3>4 DEF Listed
  <2>3. CASE g # h
        BY <1>0, <1>3, <2>1, <2>3 DEF Locked, Typed, TypeOK
  <2> QED
      BY <2>2, <2>3
<1>10. ASSUME NEW h \in Handlers, AddCreated(h) PROVE Good'
  <2> SUFFICES ASSUME ~Finish(h) PROVE Good'
      BY <1>7, <1>10 DEF AddCreated, Locked
  <2>1. /\ stage[h] = "adding" /\ stage' = [stage EXCEPT ![h] = "submitting"]
        /\ UNCHANGED <<now, wire, cards, todo>>
        BY <1>10 DEF AddCreated, remoteVars
  <2>2. CASE g = h
        BY <1>0, <2>1, <2>2 DEF Listed, ToAdd, Adding, Free, Live, Typed, TypeOK
  <2>3. CASE g # h
        BY <1>0, <1>3, <2>1, <2>3 DEF Locked, Typed, TypeOK
  <2> QED
      BY <2>2, <2>3
(* What happens at the server.                                             *)
<1>11. CASE Land
  <2> PICK e \in wire : /\ Live(e) /\ wire' = wire \ {e}
                        /\ cards' = [cards EXCEPT ![e.route] = @ + 1]
      BY <1>11 DEF Land, Live
  <2>1. UNCHANGED <<now, attempts, stage, seen, todo, current>>
        BY <1>11 DEF Land, callVars
  <2>2. /\ e.route \in Routes /\ ~Free(e.route) /\ Fresh(e.route)
    <3>1. e.route \in Routes /\ e.at \in Nat
          BY <1>0 DEF Wire
    <3>2. attempts[e.route].state \in Open /\ attempts[e.route].updated >= e.at
          BY <1>0 DEF Guarded
    <3>3. attempts[e.route].updated \in Int
          BY <1>0, <3>1 DEF Attempts, NoAttempt, NoTime
    <3> QED
        BY <1>0, <3>1, <3>2, <3>3, CardsAssumption DEF Free, Fresh, Live
  <2>3. \A r \in Routes : r # e.route => cards'[r] = cards[r]
        BY <1>0, <2>2 DEF Typed, TypeOK
  <2>4. \A r \in Routes : Free(r) => Free(r)'
        BY <2>1 DEF Free, Live
  <2>5. Listed(g)'
        BY <1>0, <2>1, <2>2, <2>3, <2>4 DEF Listed, Fresh, Typed, TypeOK
  <2>6. ToAdd(g)'
        BY <1>0, <2>1, <2>2, <2>3, <2>4 DEF ToAdd, Typed, TypeOK
  <2>7. Adding(g)'
        BY <1>0, <2>1 DEF Adding, Live
  <2> QED
      BY <2>5, <2>6, <2>7
<1>12. CASE Drop
  <2>1. wire' \subseteq wire /\ UNCHANGED <<now, attempts, cards, stage, seen, todo, current>>
        BY <1>12 DEF Drop, callVars
  <2> QED
      BY <1>0, <2>1 DEF Listed, ToAdd, Adding, Free, Live, Fresh
<1>13. ASSUME NEW r \in Routes, OperatorDeletes(r) PROVE Good'
  <2>1. /\ cards' = [cards EXCEPT ![r] = 0]
        /\ UNCHANGED <<now, attempts, wire, stage, seen, todo, current>>
        BY <1>13 DEF OperatorDeletes, callVars
  <2>2. \A q \in Routes : cards[q] = 0 => cards'[q] = 0
        BY <1>0, <2>1 DEF Typed, TypeOK
  <2> QED
      BY <1>0, <2>1, <2>2 DEF Listed, ToAdd, Adding, Free, Live, Fresh, Typed, TypeOK
<1>14. CASE Tick
  <2>1. /\ now' = now + 1 /\ stage[g] # "listed"
        /\ UNCHANGED <<attempts, wire, cards, stage, seen, todo, current>>
        BY <1>14 DEF Tick, callVars, remoteVars
  <2>2. \A e \in wire : Live(e)' => Live(e)
        BY <1>0, <2>1, CardsAssumption DEF Live, Wire
  <2> QED
      BY <1>0, <2>1, <2>2 DEF Listed, ToAdd, Adding, Free
<1>15. CASE Crash
      BY <1>1, <1>15 DEF Crash
<1>16. ASSUME NEW h \in Handlers, \/ ListFails(h) \/ ReconcileFails(h) \/ Disqualified(h)
                                  \/ \E r \in Routes : SubmitFails(h, r)
                                  \/ AddRejected(h) \/ AddUncertain(h)
       PROVE  Good'
      BY <1>7, <1>16 DEF ListFails, ReconcileFails, Disqualified, SubmitFails, AddRejected,
                         AddUncertain, Locked
<1>17. CASE UNCHANGED vars
      BY <1>2, <1>17 DEF vars
<1> QED
    BY <1>4, <1>5, <1>6, <1>8, <1>9, <1>10, <1>11, <1>12, <1>13, <1>14, <1>15, <1>16, <1>17
       DEF Next, Call
-----------------------------------------------------------------------------
(* What holds with callers of both kinds, and what automatic callers add.  *)
Safe == Typed /\ (Manual = {} => IInv)

LEMMA SafeKept == Safe /\ [Next]_vars => Safe'
<1> SUFFICES ASSUME Safe, [Next]_vars PROVE Safe'
    OBVIOUS
<1>1. Typed'
      BY TypesKept DEF Safe
<1>2. ASSUME Manual = {} PROVE IInv'
  <2>1. IInv
        BY <1>2 DEF Safe
  <2>2. OneHolder' /\ Numbered'
        BY <2>1, LockKept, NumbersKept DEF IInv
  <2>3. Ledger' /\ Calls'
        BY <1>2, <2>1, LedgerKept, CallsKept DEF IInv
  <2> QED
      BY <1>1, <2>2, <2>3 DEF IInv
<1> QED
    BY <1>1, <1>2 DEF Safe

LEMMA Invariance == Spec => []Safe
<1>1. Init => Safe
      BY InitHolds DEF Safe, IInv
<1> QED
    BY <1>1, SafeKept, PTL DEF Spec

(* The types of calls, ledger, adds and cards, for callers of both kinds   *)
(* (AstroAlertService._handle, astro_card_attempts).                       *)
THEOREM TypeCorrect == Spec => []TypeOK
<1>1. Safe => TypeOK
      BY DEF Safe, Typed
<1> QED
    BY <1>1, Invariance, PTL

(* With automatic callers only, _handle never gives a route two cards:     *)
(* the per-name lock, the live list and the ledger together outlast racing *)
(* callers, lost answers, late cards, deletions in Astro and restarts.     *)
THEOREM NoSecondCard == Spec => []AtMostOneCard
<1>1. Safe => AtMostOneCard
      BY DEF Safe, IInv, Ledger, OneCard, AtMostOneCard
<1> QED
    BY <1>1, Invariance, PTL

(* With automatic callers only, an add whose card may still appear has an  *)
(* open row in the ledger: no path of _handle settles it early.            *)
THEOREM OpenAddsAreGuarded == Spec => []OpenAddIsGuarded
<1>1. Safe => OpenAddIsGuarded
      BY DEF Safe, IInv, Ledger, Guarded, Live, OpenAddIsGuarded
<1> QED
    BY <1>1, Invariance, PTL

(* With automatic callers only, _handle submits a route only when no       *)
(* earlier add of it can still create its card, as the ledger's comment on *)
(* pending and unknown outcomes promises.                                  *)
THEOREM AutomaticCallsWait == Manual = {} /\ Spec => AutomaticWaits
<1> DEFINE Waits ==
      \A h \in Handlers \ Manual :
          stage[h] = "submitting" /\ stage'[h] = "adding"
             => \A e \in wire, f \in wire' \ wire :
                   e.route = f.route => now - e.at > Expiry
<1>1. ASSUME Manual = {}, Safe, Next PROVE Waits
  <2> SUFFICES ASSUME NEW h \in Handlers,
                      stage[h] = "submitting", stage'[h] = "adding",
                      NEW e \in wire, NEW f \in wire' \ wire, e.route = f.route
               PROVE  now - e.at > Expiry
      OBVIOUS
  <2>1. PICK g \in Handlers, r \in Routes : Submit(g, r)
    <3>1. wire' \subseteq wire \/ \E g \in Handlers, r \in Routes : Submit(g, r)
          BY <1>1 DEF Next, Call, Start, Acquire, List, ListFails, Reconcile, ReconcileFails,
                      Disqualified, SubmitFails, AddCreated, AddRejected, AddUncertain, Land,
                      Drop, OperatorDeletes, Tick, Crash, remoteVars
    <3> QED
        BY <3>1
  <2>2. /\ IInv /\ now \in Nat /\ e \in Wire
        /\ current \in [Handlers -> Wire \union {NoAdd}]
        BY <1>1 DEF Safe, IInv, Typed, TypeOK
  <2>3. f.route = r
        BY <2>1, <2>2 DEF Submit
  <2>4. r \in todo[g] /\ stage[g] = "submitting"
        BY <2>1 DEF Submit
  <2>5. Free(r)
        BY <2>2, <2>4 DEF IInv, Calls, ToAdd
  <2> QED
      BY <2>2, <2>3, <2>5, CardsAssumption DEF Free, Live, Wire
<1>2. ASSUME Manual = {} PROVE Safe /\ [Next]_vars => [Waits]_vars
      BY <1>1, <1>2
<1>3. CASE Manual = {}
      BY <1>2, <1>3, Invariance, PTL DEF Spec, AutomaticWaits
<1> QED
    BY <1>3
=============================================================================
