----------------------------- MODULE OrderedMap -----------------------------
(***************************************************************************)
(* What a Map or a Set promises: its entries in the order in which their   *)
(* keys were inserted, and walks over them (iterators, forEach) that visit *)
(* every entry once, in that order, whatever is added and removed during   *)
(* the walk.  A walk is the number of remaining entries it has passed.     *)
(***************************************************************************)
EXTENDS Integers, Sequences, SequencesExt

CONSTANTS Keys, Values, Walks

VARIABLES
  entries,  \* the keys and values, in order
  passed,   \* passed[w]: how many of the entries w has passed; -1: no walk, -2: at the end
  turn      \* changes whenever a walk visits an entry

Init ==
  /\ entries = <<>>
  /\ passed = [w \in Walks |-> -1]
  /\ turn = FALSE

IndexOfKey(k) == {i \in DOMAIN entries : entries[i].key = k}

\* The walks once the entry at j is gone.
Without(j) == [w \in Walks |-> IF passed[w] >= j THEN passed[w] - 1 ELSE passed[w]]

Put(k, v) ==
  /\ UNCHANGED <<turn, passed>>
  /\ entries' = IF IndexOfKey(k) = {} THEN Append(entries, [key |-> k, value |-> v])
                ELSE [i \in DOMAIN entries |->
                        IF i \in IndexOfKey(k) THEN [key |-> k, value |-> v] ELSE entries[i]]

Take(k) ==
  \E j \in IndexOfKey(k) :
    entries' = RemoveAt(entries, j) /\ passed' = Without(j) /\ UNCHANGED turn

\* getOrInsertComputed replaces what its callback has inserted.
Replace(k, v) ==
  \E j \in IndexOfKey(k) :
    /\ entries' = Append(RemoveAt(entries, j), [key |-> k, value |-> v])
    /\ passed' = Without(j) /\ UNCHANGED turn

Clear ==
  /\ entries' = <<>>
  /\ passed' = [w \in Walks |-> IF passed[w] > 0 THEN 0 ELSE passed[w]]
  /\ UNCHANGED turn

Begin(w) ==
  /\ passed[w] < 0
  /\ passed' = [passed EXCEPT ![w] = 0] /\ UNCHANGED <<entries, turn>>

Visit(w) ==
  /\ passed[w] \in 0 .. Len(entries) - 1
  /\ passed' = [passed EXCEPT ![w] = @ + 1]
  /\ turn' = ~turn /\ UNCHANGED entries

\* A walk that has begun in this very step visits the first entry at once.
BeginVisit(w) ==
  /\ passed[w] < 0 /\ entries # <<>>
  /\ passed' = [passed EXCEPT ![w] = 1]
  /\ turn' = ~turn /\ UNCHANGED entries

\* A walk comes to its end when no entry is left ...
Finish(w) ==
  /\ passed[w] = Len(entries) \/ (passed[w] = -1 /\ entries = <<>>)
  /\ passed' = [passed EXCEPT ![w] = -2] /\ UNCHANGED <<entries, turn>>

\* ... or is abandoned.
Abandon(w) ==
  /\ passed[w] # -1
  /\ passed' = [passed EXCEPT ![w] = -1] /\ UNCHANGED <<entries, turn>>

Next ==
  \/ \E w \in Walks : Begin(w) \/ Visit(w) \/ BeginVisit(w) \/ Finish(w) \/ Abandon(w)
  \/ \E k \in Keys : Take(k)
  \/ \E k \in Keys, v \in Values : Put(k, v) \/ Replace(k, v)
  \/ Clear

Spec == Init /\ [][Next]_<<entries, passed, turn>>
=============================================================================
