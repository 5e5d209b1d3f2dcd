--------------------------- MODULE MCPluginActions ---------------------------
(***************************************************************************)
(* Small instances of PluginActions for TLC.                               *)
(***************************************************************************)
EXTENDS PluginActions, TLC

CONSTANTS c1, k1, d1, u1, h1, h2

\* A submission and a login_kick of one person.
OneOwner == [a \in Action |-> u1]
CallAndKick == [a \in Action |-> IF a = k1 THEN "login_kick" ELSE IF a = d1 THEN "disconnect" ELSE "call"]

Callers == Permutations(Handler)
=============================================================================
