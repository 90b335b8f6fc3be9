--------------------------- MODULE MCShadowMirror ---------------------------
(* An instance of ShadowMirror for TLC. *)
EXTENDS ShadowMirror

CONSTANTS rowA, rowB, q1, q2, t1, t2, none

\* Snapshots that grow, shrink, replace a row, change a quote, the table or
\* the minute.
AllSnapshots ==
    {[rows |-> <<>>, quotes |-> <<>>, table |-> t1, minute |-> 1],
     [rows |-> <<rowA>>, quotes |-> <<q1>>, table |-> t1, minute |-> 1],
     [rows |-> <<rowA>>, quotes |-> <<q2>>, table |-> t2, minute |-> 1],
     [rows |-> <<rowB>>, quotes |-> <<q1>>, table |-> t1, minute |-> 1],
     [rows |-> <<rowA, rowB>>, quotes |-> <<q1, q1>>, table |-> t1, minute |-> 2]}
=============================================================================
