------------------------------ MODULE MCShapes ------------------------------
(* Instances of Shapes for TLC. *)
EXTENDS Shapes, TLC

CONSTANTS x, y, z, g

NoSites == <<>>
OneAtom == g :> x
OneGet == g :> "get"
OneEntry == g :> "e"

OneIndex == [sa \in Addresses \X Atoms |-> 0]
OwnEntries == [sa \in Addresses \X Atoms |-> sa]

Symmetry == Permutations(Objects) \cup Permutations(Addresses)
=============================================================================
