---------------------------- MODULE MCSessionPool ----------------------------
(***************************************************************************)
(* Small instances of SessionPool for TLC.                                 *)
(***************************************************************************)
EXTENDS SessionPool, TLC

CONSTANTS o1, o2, h1, h2, h3, x1, x2, x3

Sym == Permutations(Owner) \cup Permutations(Call) \cup Permutations(Ctx)
=============================================================================
