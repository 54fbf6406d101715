----------------------------- MODULE MCCollector ----------------------------
(* Instances of Collector for TLC: a behaviour is one of a heap of the first *)
(* kind, with WeakMaps and inline caches, or one of the second kind, with    *)
(* WeakRefs and FinalizationRegistries.                                      *)
EXTENDS Naturals, FiniteSets

CONSTANTS
  Programs,                       \* the kinds of heap: "caches", "finalizers"
  Values, Cells, Maps, Bytecodes,        \* the nodes of a heap of the first kind
  FinValues, NoCells, Registries, Refs,  \* the nodes of a heap of the second kind
  MaxLive, MaxEdges, FinEdges, MaxJobs

VARIABLES
  program, where, refs, mark, freed, out, ic, root, records, callback, entries, targets, jobs,
  phase, todo, collected, failed

Caches == INSTANCE Collector WITH Registries <- {}, Refs <- {}

Finalizers == INSTANCE Collector WITH
                Values <- FinValues, Cells <- NoCells, Maps <- {}, Bytecodes <- {},
                MaxEdges <- FinEdges

Init ==
  \/ program = "caches" /\ program \in Programs /\ Caches!Init
  \/ program = "finalizers" /\ program \in Programs /\ Finalizers!Init

Next ==
  /\ UNCHANGED program
  /\ \/ program = "caches" /\ Caches!Next
     \/ program = "finalizers" /\ Finalizers!Next

Spec == Init /\ [][Next]_<<program, Caches!vars>>

-----------------------------------------------------------------------------
(* The properties of Collector, of heaps of both kinds. *)

(* Collector!Consistent: the collector works on well-formed memory throughout, *)
(* no freed node is touched, its assertions hold, and gc_decref and gc_scan    *)
(* leave the reference count of every node that stays as it was                *)
Consistent ==
  IF program = "caches" THEN Caches!Consistent ELSE Finalizers!Consistent

(* Collector!ReachableKept: JS_RunGC and js_free_value_rt free nothing the      *)
(* program can reach                                                           *)
ReachableKept ==
  IF program = "caches" THEN Caches!ReachableKept ELSE Finalizers!ReachableKept

(* Collector!WeakLive: WeakMaps, WeakRefs and registries refer to no node that  *)
(* has been freed                                                              *)
WeakLive ==
  IF program = "caches" THEN Caches!WeakLive ELSE Finalizers!WeakLive

(* Collector!GarbageCollected: collections leave no garbage behind              *)
GarbageCollected ==
  IF program = "caches" THEN Caches!GarbageCollected ELSE Finalizers!GarbageCollected

(* Collector!RuntimeEmpty: nothing is left of a program that has dropped all    *)
(* its references, the assertion of turbojs_internal_free_runtime              *)
RuntimeEmpty ==
  IF program = "caches" THEN Caches!RuntimeEmpty ELSE Finalizers!RuntimeEmpty
=============================================================================
