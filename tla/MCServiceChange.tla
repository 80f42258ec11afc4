-------------------------- MODULE MCServiceChange --------------------------
(* Small instances of ServiceChange for TLC.                               *)
EXTENDS ServiceChange, TLC

CONSTANTS small, large

OneProductEach == [s \in Specs |-> s]
DearerLarge == [s \in Specs |-> IF s = small THEN 1 ELSE 2]
ChangeSymmetry == Permutations(Changes) \cup Permutations(Workers)
=============================================================================
