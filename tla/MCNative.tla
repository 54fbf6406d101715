------------------------------ MODULE MCNative ------------------------------
(* Native code for TLC: the table that stores it, and the tiers that decide    *)
(* when there is some.  A behaviour is of one of the two, and leaves the other *)
(* in its initial state.  Keys k1 and k2 have the same hash, k3 the next one,  *)
(* so that their probe sequences overlap and wrap around.                      *)
EXTENDS VaultTable, Tiered, TLC

CONSTANTS k1, k2, k3

VARIABLE program

Hash == [k \in Keys |-> IF k = k3 THEN 0 ELSE 3]

Symmetry == Permutations(Types)

NativeInit == program \in {"table", "tiers"} /\ Init /\ TierInit

NativeNext ==
  /\ UNCHANGED program
  /\ \/ program = "table" /\ Next /\ UNCHANGED tierVars
     \/ program = "tiers" /\ TierNext /\ UNCHANGED vars

NativeSpec == NativeInit /\ [][NativeNext]_<<program, vars, tierVars>>
=============================================================================
