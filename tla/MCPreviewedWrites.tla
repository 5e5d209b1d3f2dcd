--------------------------- MODULE MCPreviewedWrites ---------------------------
(* PreviewedWrites for two actions: one call of one tool, made twice. *)
EXTENDS PreviewedWrites, TLC

CONSTANTS a1, a2, k1, f1, w1, w2

OneKey == [a \in Action |-> k1]
OneFile == [a \in Action |-> f1]

\* Neither the actions nor the contents of DaouOffice are told apart.
Alike == Permutations(Action) \cup Permutations(World)
=============================================================================
