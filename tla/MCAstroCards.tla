----------------------------- MODULE MCAstroCards -----------------------------
(* Instances of AstroCards for TLC: hours are the unit, a day shrinks to one. *)
EXTENDS AstroCards, TLC

CONSTANTS h1, h2, r1, r2

Symmetry == Permutations(Routes) \union Permutations(Handlers \ Manual)
=============================================================================
