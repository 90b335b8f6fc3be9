------------------------------ MODULE AstroCards ------------------------------
(***************************************************************************)
(* Creation of the Astro cards of one pair name by AstroAlertService: the  *)
(* per-name lock, the durable attempt ledger (astro_card_attempts), and    *)
(* the remote Astro server, whose answer to an add may be lost and whose   *)
(* card may appear long after the caller gave up or the process died.      *)
(* Alerts, pre-adds and people share the handler; names do not interact.   *)
(***************************************************************************)
EXTENDS Integers, FiniteSets

CONSTANTS
    Routes,       \* card variants of the name: route_key of a planned card
    Handlers,     \* concurrent callers of _handle
    Manual,       \* the callers that come from the manual endpoint
    Expiry,       \* hours after which an unknown outcome stops blocking
    KeepFor,      \* hours a settled ledger row is kept
    MaxTime,      \* bound on the clock, in hours
    MaxAdds       \* bound on submissions

ASSUME CardsAssumption ==
    /\ Manual \subseteq Handlers
    /\ Expiry \in Nat /\ KeepFor \in Nat
    /\ MaxTime \in Nat /\ MaxAdds \in Nat

VARIABLES
    now,
    stage,        \* stage[h]: where the handler is
    holder,       \* handlers holding the name's lock
    planned,      \* planned[h]: variants the call may create
    seen,         \* seen[h]: routes in the list the call has read
    todo,         \* todo[h]: variants still to be added
    current,      \* current[h]: the add whose answer the call awaits, or NoAdd
    attempts,     \* attempts[r]: ledger row of r
    adds,         \* submissions so far
    wire,         \* adds whose effect at the remote server is still open
    landed,       \* numbers of the adds that created their card
    cards         \* cards[r]: cards of r on the server

vars == <<now, stage, holder, planned, seen, todo, current, attempts, adds, wire,
          landed, cards>>
callVars == <<stage, holder, planned, seen, todo, current>>
remoteVars == <<adds, wire, landed, cards>>

NoTime == -1
Stages == {"idle", "waiting", "listing", "listed", "submitting", "adding"}
NoAttempt == [state |-> "none", updated |-> NoTime]
Open == {"pending", "unknown"}
Settled == {"created", "failed", "reconciled"}
Attempts == {NoAttempt} \union [state : Open \union Settled, updated : Nat]
Wire == [number : 1..MaxAdds, route : Routes, at : Nat]
NoAdd == [number |-> 0]

TypeOK ==
    /\ now \in Nat
    /\ stage \in [Handlers -> Stages]
    /\ holder \subseteq Handlers
    /\ planned \in [Handlers -> SUBSET Routes]
    /\ seen \in [Handlers -> SUBSET Routes]
    /\ todo \in [Handlers -> SUBSET Routes]
    /\ current \in [Handlers -> Wire \union {NoAdd}]
    /\ attempts \in [Routes -> Attempts]
    /\ adds \in 0..MaxAdds
    /\ wire \subseteq Wire
    /\ landed \subseteq 1..MaxAdds
    /\ cards \in [Routes -> Nat]

---------------------------------------------------------------------------
(* The ledger. *)

\* Mutant of Mark: the update loses its timestamp.
MarkUntimed(ledger, r, state) == [ledger EXCEPT ![r] = [state |-> state, updated |-> NoTime]]

Mark(ledger, r, state) == [ledger EXCEPT ![r] = [state |-> state, updated |-> now]]

\* The daily cleanup inside mark_pending never touches an open outcome.
Cleaned(ledger) ==
    [r \in Routes |-> IF ledger[r].state \in Settled /\ now - ledger[r].updated > KeepFor
                      THEN NoAttempt ELSE ledger[r]]

\* mark_pending, whose cleanup runs once a day.
MarkedPending(r) ==
    {Mark(attempts, r, "pending"), Mark(Cleaned(attempts), r, "pending")}

\* Mutant of UncertainState: a time-out counts as a rejection.
UncertainStateFailed(r) == "failed"

UncertainState(r) == "unknown"

\* _mark_attempt_best_effort: if the write fails, the pending row stays.
MarkedUncertain(r) == {Mark(attempts, r, UncertainState(r)), attempts}

---------------------------------------------------------------------------
(* One call of _handle. *)

Finish(h) ==
    /\ stage' = [stage EXCEPT ![h] = "idle"]
    /\ holder' = holder \ {h}
    /\ planned' = [planned EXCEPT ![h] = {}]
    /\ seen' = [seen EXCEPT ![h] = {}]
    /\ todo' = [todo EXCEPT ![h] = {}]
    /\ current' = [current EXCEPT ![h] = NoAdd]

\* The opportunity passed its checks and the planner produced variants.
Start(h, variants) ==
    /\ stage[h] = "idle"
    /\ stage' = [stage EXCEPT ![h] = "waiting"]
    /\ planned' = [planned EXCEPT ![h] = variants]
    /\ UNCHANGED <<now, holder, seen, todo, current, attempts, remoteVars>>

\* Mutant of Acquire: callers of one name do not share a lock.
AcquireUnlocked(h) ==
    /\ stage[h] = "waiting"
    /\ holder' = holder \union {h}
    /\ stage' = [stage EXCEPT ![h] = "listing"]
    /\ UNCHANGED <<now, planned, seen, todo, current, attempts, remoteVars>>

Acquire(h) ==
    /\ stage[h] = "waiting"
    /\ holder = {}
    /\ holder' = {h}
    /\ stage' = [stage EXCEPT ![h] = "listing"]
    /\ UNCHANGED <<now, planned, seen, todo, current, attempts, remoteVars>>

\* A live list_pairs under the lock.
List(h) ==
    /\ stage[h] = "listing"
    /\ stage' = [stage EXCEPT ![h] = "listed"]
    /\ seen' = [seen EXCEPT ![h] = {r \in Routes : cards[r] > 0}]
    /\ UNCHANGED <<now, holder, planned, todo, current, attempts, remoteVars>>

ListFails(h) ==
    /\ stage[h] = "listing"
    /\ Finish(h)
    /\ UNCHANGED <<now, attempts, remoteVars>>

Undecided(h) == {r \in planned[h] : attempts[r].state \in Open}

Visible(h) == Undecided(h) \intersect seen[h]

\* Mutant of Outdated: the instant of the expiry itself already counts.
OutdatedOffByOne(r) == attempts[r].state = "unknown" /\ now - attempts[r].updated >= Expiry

\* Only an unknown outcome expires; a pending one may be an interrupted process.
Outdated(r) == attempts[r].state = "unknown" /\ now - attempts[r].updated > Expiry

\* Outcomes that keep an automatic call from adding anything.
Blocking(h) ==
    IF h \in Manual THEN {} ELSE {r \in Undecided(h) \ seen[h] : ~Outdated(r)}

\* The ledger with the routes of V, which the server shows, settled.
Reconciled(V) ==
    [r \in Routes |-> IF r \in V THEN [state |-> "reconciled", updated |-> now]
                      ELSE attempts[r]]

\* Settle what the server shows, then stop at an open outcome, at a conflict
\* with other cards of the name, or when nothing is missing.
Reconcile(h) ==
    LET missing == planned[h] \ seen[h]
    IN /\ stage[h] = "listed"
       /\ attempts' = Reconciled(Visible(h))
       /\ \/ Finish(h)
          \/ /\ Blocking(h) = {}
             /\ missing # {}
             /\ stage' = [stage EXCEPT ![h] = "submitting"]
             /\ todo' = [todo EXCEPT ![h] = missing]
             /\ UNCHANGED <<holder, planned, seen, current>>
       /\ UNCHANGED <<now, remoteVars>>

\* The ledger fails on the way: the call adds nothing.
ReconcileFails(h) ==
    /\ stage[h] = "listed"
    /\ \E V \in SUBSET Visible(h) : attempts' = Reconciled(V)
    /\ Finish(h)
    /\ UNCHANGED <<now, remoteVars>>

\* The fresh market check rejects the opportunity before the next add.
Disqualified(h) ==
    /\ stage[h] = "submitting"
    /\ Finish(h)
    /\ UNCHANGED <<now, attempts, remoteVars>>

\* mark_pending commits and the add goes out.
Submit(h, r) ==
    /\ stage[h] = "submitting"
    /\ r \in todo[h]
    /\ adds < MaxAdds
    /\ attempts' \in MarkedPending(r)
    /\ adds' = adds + 1
    /\ current' = [current EXCEPT ![h] = [number |-> adds + 1, route |-> r, at |-> now]]
    /\ wire' = wire \union {current'[h]}
    /\ todo' = [todo EXCEPT ![h] = @ \ {r}]
    /\ stage' = [stage EXCEPT ![h] = "adding"]
    /\ UNCHANGED <<now, holder, planned, seen, landed, cards>>

\* mark_pending fails or is cancelled: no add, though a cancelled commit may
\* have landed.
SubmitFails(h, r) ==
    /\ stage[h] = "submitting"
    /\ r \in todo[h]
    /\ attempts' \in {attempts} \union MarkedPending(r)
    /\ Finish(h)
    /\ UNCHANGED <<now, remoteVars>>

\* Success is reported and the ledger confirms it; on to the next variant.
AddCreated(h) ==
    /\ stage[h] = "adding"
    /\ current[h].number \in landed
    /\ attempts' = Mark(attempts, current[h].route, "created")
    /\ \/ /\ todo[h] = {}
          /\ Finish(h)
       \/ /\ todo[h] # {}
          /\ stage' = [stage EXCEPT ![h] = "submitting"]
          /\ current' = [current EXCEPT ![h] = NoAdd]
          /\ UNCHANGED <<holder, planned, seen, todo>>
    /\ UNCHANGED <<now, remoteVars>>

\* A 4xx answer with a body: the server did not create the card.
AddRejected(h) ==
    /\ stage[h] = "adding"
    /\ current[h] \in wire
    /\ wire' = wire \ {current[h]}
    /\ attempts' \in {Mark(attempts, current[h].route, "failed"), attempts}
    /\ Finish(h)
    /\ UNCHANGED <<now, adds, landed, cards>>

\* Time-out, network error, 5xx, cancellation, or a lost confirmation.
AddUncertain(h) ==
    /\ stage[h] = "adding"
    /\ attempts' \in MarkedUncertain(current[h].route)
    /\ Finish(h)
    /\ UNCHANGED <<now, remoteVars>>

---------------------------------------------------------------------------
(* The server, its operator, time and the process. *)

\* An accepted add creates its card, at the latest within Expiry hours: the
\* premise of the 24-hour rule.
Land ==
    \E e \in wire :
        /\ now - e.at <= Expiry
        /\ wire' = wire \ {e}
        /\ landed' = landed \union {e.number}
        /\ cards' = [cards EXCEPT ![e.route] = @ + 1]
        /\ UNCHANGED <<now, callVars, attempts, adds>>

Drop ==
    \E e \in wire :
        /\ wire' = wire \ {e}
        /\ UNCHANGED <<now, callVars, attempts, adds, landed, cards>>

\* A person deletes the cards of a route in Astro.
OperatorDeletes(r) ==
    /\ cards[r] > 0
    /\ cards' = [cards EXCEPT ![r] = 0]
    /\ UNCHANGED <<now, callVars, attempts, adds, wire, landed>>

\* The ledger is read within seconds of the list, never an hour later.
Tick ==
    /\ now < MaxTime
    /\ \A h \in Handlers : stage[h] # "listed"
    /\ now' = now + 1
    /\ UNCHANGED <<callVars, attempts, remoteVars>>

Crash ==
    /\ \E h \in Handlers : stage[h] # "idle"
    /\ stage' = [h \in Handlers |-> "idle"]
    /\ holder' = {}
    /\ planned' = [h \in Handlers |-> {}]
    /\ seen' = [h \in Handlers |-> {}]
    /\ todo' = [h \in Handlers |-> {}]
    /\ current' = [h \in Handlers |-> NoAdd]
    /\ UNCHANGED <<now, attempts, remoteVars>>

Init ==
    /\ now = 0
    /\ stage = [h \in Handlers |-> "idle"]
    /\ holder = {}
    /\ planned = [h \in Handlers |-> {}]
    /\ seen = [h \in Handlers |-> {}]
    /\ todo = [h \in Handlers |-> {}]
    /\ current = [h \in Handlers |-> NoAdd]
    /\ attempts = [r \in Routes |-> NoAttempt]
    /\ adds = 0
    /\ wire = {}
    /\ landed = {}
    /\ cards = [r \in Routes |-> 0]

Call(h) ==
    \/ \E variants \in SUBSET Routes \ {{}} : Start(h, variants)
    \/ Acquire(h)
    \/ List(h)
    \/ ListFails(h)
    \/ Reconcile(h)
    \/ ReconcileFails(h)
    \/ Disqualified(h)
    \/ \E r \in Routes : Submit(h, r) \/ SubmitFails(h, r)
    \/ AddCreated(h)
    \/ AddRejected(h)
    \/ AddUncertain(h)

Next ==
    \/ \E h \in Handlers : Call(h)
    \/ Land
    \/ Drop
    \/ \E r \in Routes : OperatorDeletes(r)
    \/ Tick
    \/ Crash

Spec == Init /\ [][Next]_vars

---------------------------------------------------------------------------
(* Properties. *)

\* With automatic callers only, no route ever gets two cards: not by callers
\* racing on one name, nor by resubmitting an add whose answer was lost and
\* whose card shows up later, nor across restarts.
AtMostOneCard == Manual = {} => \A r \in Routes : cards[r] <= 1

\* With automatic callers only, an add that may still create its card is
\* guarded in the ledger by an open outcome.
OpenAddIsGuarded ==
    Manual = {} =>
        \A e \in wire : now - e.at <= Expiry => attempts[e.route].state \in Open

\* An automatic call submits a route only when no earlier add of that route
\* can still create its card ("pending/unknown block automatic resubmission").
AutomaticWaits ==
    [][\A h \in Handlers \ Manual :
          stage[h] = "submitting" /\ stage'[h] = "adding"
             => \A e \in wire, f \in wire' \ wire :
                   e.route = f.route => now - e.at > Expiry]_vars
=============================================================================
