----------------------------- MODULE MCGateTwap -----------------------------
(* A small instance of GateTwap for TLC.                                   *)
EXTENDS GateTwap

Rq(live, percent, mode, all, initial, min) ==
    [live |-> live, count |-> 3, percent |-> percent, mode |-> mode,
     last_order_all |-> all, initial |-> initial, min |-> min,
     step |-> IF min = 2 THEN 2 ELSE 1]

(* Slices that overrun the position, that fall below the minimum, that are *)
(* cleared by the last order, and a dry run.                               *)
MCRequests ==
    {Rq(TRUE, 40, "initial", FALSE, 7, 1), Rq(TRUE, 40, "initial", TRUE, 7, 3),
     Rq(TRUE, 25, "remaining", TRUE, 7, 2), Rq(TRUE, 60, "remaining", FALSE, 7, 1),
     Rq(TRUE, 50, "initial", TRUE, 7, 2), Rq(FALSE, 40, "initial", TRUE, 2, 1)}
=============================================================================
