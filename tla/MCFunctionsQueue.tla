-------------------------- MODULE MCFunctionsQueue --------------------------
(* Small instances of FunctionsQueue for TLC.                              *)
EXTENDS FunctionsQueue, TLC

CONSTANTS h1, h2

HandlerSet == {h1, h2}
HandlerSymmetry == Permutations(HandlerSet)
=============================================================================
