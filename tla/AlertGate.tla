------------------------------ MODULE AlertGate ------------------------------
(***************************************************************************)
(* What the alert pipeline promises its reader, with none of its           *)
(* machinery: per alert key, a notification whose delivery succeeded, or   *)
(* whose delivery a crash cut short, keeps the key shut for its cooldown.  *)
(* A delivery that was reported as failed does not.  AlertDelivery is the  *)
(* detailed specification shown to implement this one.                     *)
(***************************************************************************)
EXTENDS Integers

CONSTANTS
    Keys,       \* alert keys, one per (rule, opportunity)
    Cooldown    \* Cooldown[k]: the rule's cooldown_seconds

VARIABLES
    clock,
    busy,       \* keys with a notification on its way
    started,    \* started[k]: when the latest notification of k began
    counted     \* counted[k]: start of the latest one that keeps k shut

gateVars == <<clock, busy, started, counted>>

Never == -1

Open(k) == counted[k] = Never \/ clock - counted[k] >= Cooldown[k]

Init ==
    /\ clock = 0
    /\ busy = {}
    /\ started = [k \in Keys |-> Never]
    /\ counted = [k \in Keys |-> Never]

Tick ==
    /\ clock' = clock + 1
    /\ UNCHANGED <<busy, started, counted>>

Begin(k) ==
    /\ k \notin busy
    /\ Open(k)
    /\ busy' = busy \union {k}
    /\ started' = [started EXCEPT ![k] = clock]
    /\ UNCHANGED <<clock, counted>>

Succeed(k) ==
    /\ k \in busy
    /\ busy' = busy \ {k}
    /\ counted' = [counted EXCEPT ![k] = started[k]]
    /\ UNCHANGED <<clock, started>>

Fail(k) ==
    /\ k \in busy
    /\ busy' = busy \ {k}
    /\ UNCHANGED <<clock, started, counted>>

\* The process dies: whatever was on its way may have arrived.
Interrupt ==
    /\ busy' = {}
    /\ counted' = [k \in Keys |-> IF k \in busy THEN started[k] ELSE counted[k]]
    /\ UNCHANGED <<clock, started>>

Next ==
    \/ Tick
    \/ \E k \in Keys : Begin(k) \/ Succeed(k) \/ Fail(k)
    \/ Interrupt

Spec == Init /\ [][Next]_gateVars
=============================================================================
