------------------------------ MODULE VaultMap ------------------------------
(***************************************************************************)
(* What the table of a Vault promises, whatever its slots and its scoring: *)
(* a map that holds at most MaxEntries items, forgets an item only to make *)
(* room for another or because it is told to, and then holds that other.   *)
(* Vault.tla uses the table in this form (MakesRoom).                      *)
(***************************************************************************)
EXTENDS Naturals, FiniteSets

CONSTANTS Items, MaxEntries

VARIABLE held

Init == held = {}

\* TurboJS_CodeCacheCompile and _StoreContinuation of an item not held: the
\* items of V make room.
Insert(x) ==
  /\ x \notin held
  /\ \E V \in SUBSET held :
       /\ Cardinality(held \ V) < MaxEntries
       /\ held' = (held \ V) \cup {x}

\* The same when the entry cannot be registered: it is removed again.
Fail(x) ==
  /\ x \notin held
  /\ \E V \in SUBSET held : held' = held \ V

\* TurboJS_CodeCacheInvalidate
Remove(x) == held' = held \ {x}

\* TurboJS_CodeCacheClear
Clear == held' = {}

Next == (\E x \in Items : Insert(x) \/ Fail(x) \/ Remove(x)) \/ Clear

Spec == Init /\ [][Next]_held
=============================================================================
