------------------------------- MODULE Objects ------------------------------
(***************************************************************************)
(* What the object model promises: an object has a prototype and own       *)
(* properties in the order they were added, and an operation on one object *)
(* changes no other object.                                                *)
(***************************************************************************)
EXTENDS Sequences, SequencesExt

CONSTANTS
  Objects,
  Protos,
  Props,   \* properties: a name and what the flags say of it
  NoObject

VARIABLE own  \* own[o]: the prototype and the own properties of o

\* A property whose stored value is the one it was given.
Valued(p) == [prop |-> p, value |-> p]

Init == own = [o \in Objects |-> NoObject]

\* What an operation may make of an object: old and new are an object before
\* and after it.
Created(old, new) ==
  /\ old = NoObject /\ new # NoObject
  /\ new.proto \in Protos
  /\ new.props \in {<<>>} \cup {<<Valued(p)>> : p \in Props}

Freed(old, new) == old # NoObject /\ new = NoObject

Added(old, new) ==
  /\ old # NoObject /\ new # NoObject /\ new.proto = old.proto
  /\ \E p \in Props :
       /\ \A i \in DOMAIN old.props : old.props[i].prop.atom # p.atom
       /\ new.props = Append(old.props, Valued(p))

Redefined(old, new) ==
  /\ old # NoObject /\ new # NoObject /\ new.proto = old.proto
  /\ \E p \in Props, i \in DOMAIN old.props :
       /\ old.props[i].prop.atom = p.atom
       /\ new.props = ReplaceAt(old.props, i, Valued(p))

Deleted(old, new) ==
  /\ old # NoObject /\ new # NoObject /\ new.proto = old.proto
  /\ \E i \in DOMAIN old.props : new.props = RemoveAt(old.props, i)

Rebased(old, new) ==
  /\ old # NoObject /\ new # NoObject /\ new.props = old.props
  /\ new.proto \in Protos

Next == \E o \in Objects :
  LET old == own[o]
      new == own'[o]
  IN  /\ new # old
      /\ \A q \in Objects \ {o} : own'[q] = own[q]
      /\ \/ Created(old, new) \/ Freed(old, new) \/ Added(old, new)
         \/ Redefined(old, new) \/ Deleted(old, new) \/ Rebased(old, new)

Spec == Init /\ [][Next]_own
=============================================================================
