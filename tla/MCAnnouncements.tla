-------------------------- MODULE MCAnnouncements --------------------------
(* Two notices of one source, both alerted on: a Bybit listing and a later *)
(* notice without an event.  Unrecorded reminders are bounded, and of the  *)
(* eight configurations the run takes the usual ones and one without a     *)
(* webhook.                                                                *)
EXTENDS Announcements

CONSTANTS MaxExcused    \* bound: unrecorded reminders per item

Bounded ==
    /\ \A i \in Items : excused[i] <= MaxExcused
    /\ sender \/ (quietStart /\ others)
    /\ quietStart \/ others

MCWanted == {1, 2}
MCDated == {1}
MCClearing == {1}
=============================================================================
