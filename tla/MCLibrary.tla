----------------------------- MODULE MCLibrary ------------------------------
(* What programs are given to work with, for TLC: Map and Set, modules,        *)
(* Atomics, workers and the event loop.  A behaviour is of one of the five     *)
(* and leaves the others in their initial states.                              *)
EXTENDS Collections, Atomics, EventLoop, TLC

CONSTANTS
  key1, key2,                                       \* keys of Collections
  Modules, None, MaxImports,                        \* of Modules
  Main, Workers, Buffers, MaxQueue, MaxObjects      \* of Workers

VARIABLES
  program,
  graph, mod, dfs, jobs, imports, clock, body, failed,
  thread, object, handler, refs, pipe, hand, objects, count

modules == <<graph, mod, dfs, jobs, imports, clock, body, failed>>
workers == <<thread, object, handler, refs, pipe, hand, objects, count>>

\* key1 collides with Zero in a table of four, and key2 with none.
HashOf == [k \in Keys |-> IF k = key1 THEN 4 ELSE IF k = key2 THEN 1 ELSE IF k = Zero THEN 0 ELSE 2]

-----------------------------------------------------------------------------
(* Graphs: all of three modules where some await and at most one is broken, a   *)
(* diamond, and a cycle that is entered from two sides.                         *)

Graph(requires, tla, broken) ==
  [requires |-> requires, tla |-> tla, broken |-> broken, imported |-> {1, 3}]

Small == 1 .. 3

Ascending(S) == SetToSortSeq(S, <)

SmallGraphs ==
  {[m \in Modules |-> IF m \in Small THEN Ascending(f[m]) ELSE <<>>] :
     f \in {g \in [Small -> SUBSET Small] : \A m \in Small : m \notin g[m]}}

Diamond == <<<<2, 3>>, <<4>>, <<4>>, <<>>>>
Knot == <<<<2, 3>>, <<4>>, <<4>>, <<2>>>>

AllGraphs ==
  {Graph(r, t, {}) : r \in SmallGraphs, t \in SUBSET Small}
    \cup {Graph(r, {1}, {2}) : r \in SmallGraphs}
    \cup {Graph(r, t, {}) : r \in {Diamond, Knot}, t \in SUBSET Modules}

NoGraph == Graph(<<>>, {}, {})

-----------------------------------------------------------------------------
M == INSTANCE Modules WITH Graphs <- AllGraphs \cup {NoGraph}
W == INSTANCE Workers WITH queue <- pipe

LibraryInit ==
  /\ program \in {"collections", "modules", "atomics", "workers", "loop"}
  /\ Init /\ M!Init /\ AtomicsInit /\ W!Init /\ LoopInit
  /\ (graph = NoGraph) = (program # "modules")
  /\ is_set => program = "collections"

LibraryNext ==
  /\ UNCHANGED program
  /\ \/ program = "collections" /\ Next /\ UNCHANGED <<modules, atomics, workers, loop>>
     \/ program = "modules" /\ M!Next /\ UNCHANGED <<vars, atomics, workers, loop>>
     \/ program = "atomics" /\ AtomicsNext /\ UNCHANGED <<vars, modules, workers, loop>>
     \/ program = "workers" /\ W!Next /\ UNCHANGED <<vars, modules, atomics, loop>>
     \/ program = "loop" /\ LoopNext /\ UNCHANGED <<vars, modules, atomics, workers>>

LibrarySpec == LibraryInit /\ [][LibraryNext]_<<program, vars, modules, atomics, workers, loop>>

-----------------------------------------------------------------------------
(* The properties of the five that speak of one of them only: those of Atomics  *)
(* and EventLoop, NoLostWakeup and NothingSleptThrough, are checked as they are. *)

(* Collections!Consistent: the records of a Map or Set are counted exactly, by  *)
(* the collection and by the walks that are at them, and hashed; and the other  *)
(* modules are well formed and the assertions of module_linker.c hold           *)
LibraryConsistent ==
  /\ program = "collections" => Consistent
  /\ program = "modules" => M!TypeOK /\ M!AssertionsHold
  /\ program = "atomics" => AtomicsTypeOK /\ ListExact
  /\ program = "loop" => LoopTypeOK

(* A Map or Set is an ordered map: iterators, forEach and the methods of Set    *)
(* visit every entry once and in the order of insertion, those added behind     *)
(* them during the walk included, and none that was deleted before they came    *)
(* to it.  (Ordered!Spec, where only collections take steps.)                   *)
ImplementsOrderedMap ==
  /\ Ordered!Init
  /\ [][program = "collections" /\ Ordered!Next]_<<Contents(s), Passed, turn>>

(* Modules!DependenciesFirst: a body runs once, after all that it requires      *)
DependenciesFirst == program = "modules" => M!DependenciesFirst

(* Modules!OutcomeExact: import() is answered with what became of the module    *)
OutcomeExact == program = "modules" => M!OutcomeExact

(* Workers!SharedExact: pipes and shared buffers count their holders in all     *)
(* threads, and the last one frees them                                         *)
SharedExact == program = "workers" => W!SharedExact
=============================================================================
