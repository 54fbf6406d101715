------------------------------- MODULE MCSpool -------------------------------
(* Instances of Spool for TLC: two functions, k2 compiled in integer mode at
   most; call sites that share one slot of the caller's tables. *)
EXTENDS Spool, TLC

CONSTANTS k1, k2

OneSlot == [s \in CallSites |-> 1]
\* Native functions differ in nothing but their names.
FunctionSymmetry == Permutations(Functions)

BothModes == [m \in Kinds |-> IF m = Int32 THEN {k1, k2} ELSE {k1}]
=============================================================================
