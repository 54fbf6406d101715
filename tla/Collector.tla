------------------------------ MODULE Collector -----------------------------
(***************************************************************************)
(* Memory management: reference counting, the trial deletion that frees    *)
(* cycles, and the weak references that must not outlive their targets.    *)
(* (gc/collector.c, object_lifetime.c, function_compiler.c, weak maps,     *)
(* WeakRef and FinalizationRegistry.)                                      *)
(*                                                                         *)
(* Nodes are GC objects.  Values (objects and function bytecode) are freed *)
(* through the lists of the runtime; cells (shapes and variable            *)
(* references) are freed by whoever drops the last reference to them.      *)
(* The program runs only while the phase is "none"; the collector is       *)
(* modelled one list element at a time.  The order of a list is left open. *)
(***************************************************************************)
EXTENDS Integers, FiniteSets, Sequences, SequencesExt

CONSTANTS
  Values, Cells,
  Maps,        \* values that are WeakMaps
  Registries,  \* values that are FinalizationRegistries
  Refs,        \* values that are WeakRefs
  Bytecodes,   \* values that are function bytecode, with inline caches
  MaxLive,     \* bound on the allocated nodes
  MaxEdges,    \* bound on the references between nodes
  MaxJobs      \* bound on entries and the jobs made of them

Nodes == Values \cup Cells

\* A WeakMap that is freed leaves the values of live keys to the next collection.
Enough == 1 + Cardinality(Maps)

VARIABLES
  where,    \* the list a node is on: "gc", "tmp", "zero", or "none" if not allocated
  refs,     \* JS_REF_COUNT
  mark,     \* JS_GC_MARK
  freed,    \* free_mark
  out,      \* out[n]: the nodes n refers to by a counted and marked reference
  ic,       \* ic[n]: the cells the inline caches of bytecode n retain
  root,     \* nodes referred to from the stack and the globals
  records,  \* WeakMap records [map, key, value]
  callback, \* callback[g]: the callback of registry g, as a set of at most one
  entries,  \* FinalizationRegistry entries [registry, target, cb, held]
  targets,  \* targets[r]: the target of WeakRef r, as a set of at most one
  jobs,     \* the enqueued finalization jobs [cb, held]
  phase,    \* what the runtime is doing
  todo,     \* nodes that the current loop over a list has not visited
  collected,\* the collections that have run, up to Enough, since the program's last step
  failed    \* an assertion has failed

weak == <<records, callback, entries, targets, jobs>>
heap == <<out, ic, root, weak>>
vars == <<where, refs, mark, freed, heap, phase, todo, collected, failed>>

Init ==
  /\ where = [n \in Nodes |-> "none"]
  /\ refs = [n \in Nodes |-> 0]
  /\ mark = [n \in Nodes |-> 0]
  /\ freed = [n \in Nodes |-> FALSE]
  /\ out = [n \in Nodes |-> {}]
  /\ ic = [n \in Bytecodes |-> {}]
  /\ root = {} /\ records = {} /\ entries = {} /\ jobs = <<>>
  /\ targets = [r \in Refs |-> {}]
  /\ callback = [g \in Registries |-> {}]
  /\ phase = "none" /\ todo = {} /\ collected = 0 /\ failed = FALSE

-----------------------------------------------------------------------------
(* References *)

On(list) == {n \in Nodes : where[n] = list}
One(b) == IF b THEN 1 ELSE 0

\* The registries in S whose callback is c, and the references of entries or
\* jobs to c: the callback, and the held value when it is an object.
Calling(S, c) == Cardinality({g \in S \cap Registries : c \in callback[g]})
Uses(S, c) == Cardinality({e \in S : e.cb = c}) + Cardinality({e \in S : c \in e.held})

\* Mutant of Children: what a shape or a variable reference refers to is not visited.
ChildrenOfValues(p) == [c \in Nodes |-> One(p \in Values /\ c \in out[p])]

\* mark_children: how many times marking p visits c.  A WeakMap's value is
\* marked from the key; callbacks and held values from the registry; the cells
\* that inline caches retain, not at all.
Children(p) ==
  [c \in Nodes |-> One(c \in out[p])
                   + Cardinality({r \in records : r.key = p /\ r.value = c})
                   + Calling({p}, c) + Uses({e \in entries : e.registry = p}, c)]

\* What the program can get hold of from a set of nodes.
Reach(from) ==
  LET Step(S) == S \cup UNION {out[n] : n \in S}
                   \cup {r.value : r \in {q \in records : q.map \in S /\ q.key \in S}}
      R[k \in 0 .. Cardinality(Nodes)] == IF k = 0 THEN from ELSE Step(R[k - 1])
  IN  R[Cardinality(Nodes)]

JobNodes == UNION {{jobs[i].cb} \cup jobs[i].held : i \in DOMAIN jobs}
Reachable == Reach(root \cup JobNodes)

\* Number of references among nodes and records.
Edges == Cardinality(UNION {{n} \X out[n] : n \in Nodes})
         + Cardinality(records) + Cardinality(entries)
         + Cardinality(UNION {{b} \X ic[b] : b \in Bytecodes})

-----------------------------------------------------------------------------
(* Releasing references *)

NoRelease == [c \in Nodes |-> 0]

\* The counts and lists after rel[c] references to each c have been released
\* and gain[c] taken.  A cell whose count falls to zero is freed at once
\* (js_free_shape, free_var_ref); a value is queued unless cycles are being
\* removed (js_free_value_rt).
Released(rel, gain) ==
  LET dead == {c \in Cells : rel[c] > 0 /\ refs[c] = rel[c]}
      all == [c \in Nodes |-> rel[c] + Cardinality({d \in dead : c \in out[d]})]
      left == [c \in Nodes |-> refs[c] + gain[c] - all[c]]
      Queued(c) == c \in Values /\ all[c] > 0 /\ left[c] <= 0 /\ phase # "sweep"
  IN  [refs |-> left,
       where |-> [c \in Nodes |-> IF c \in dead THEN "none"
                                  ELSE IF Queued(c) THEN "zero" ELSE where[c]],
       out |-> [c \in Nodes |-> IF c \in dead THEN {} ELSE out[c]]]

\* JS_FreeValueRT by the program: a value that is queued starts free_zero_refcount.
Settle(r) ==
  /\ refs' = r.refs /\ where' = r.where
  /\ phase' = IF \E c \in Nodes : r.where[c] = "zero" THEN "free" ELSE phase

\* Mutant of Enqueued: the marks of garbage still to be freed are not looked at.
EnqueuedFreed(p) ==
  {e \in entries : e.target = p /\ \A c \in {e.cb} \cup e.held : ~freed[c] /\ c # p}

\* The entries of which reset_weak_ref enqueues the job when p, already marked
\* as freed, is their target.
Enqueued(p) ==
  {e \in entries : e.target = p /\ \A c \in {e.cb} \cup e.held :
                                      ~freed[c] /\ c # p /\ mark[c] = 0}

\* Records and entries that go with p: p is the key or the target
\* (reset_weak_ref), or the map or the registry (the finalizers).
RecordsOf(p) == {r \in records : p \in {r.key, r.map}}
EntriesOf(p) == {e \in entries : p \in {e.target, e.registry}}

\* Mutant of Untargeted: the WeakRef keeps its target.
UntargetedKept(p) == [r \in Refs |-> IF r = p THEN {} ELSE targets[r]]

\* The targets left when p is freed, as a target or as a WeakRef.
Untargeted(p) == [r \in Refs |-> IF r = p THEN {} ELSE targets[r] \ {p}]

\* turbojs_vm_property_ic_destroy: the cells the inline caches of n give back.
Icing(n) == IF n \in Bytecodes THEN ic[n] ELSE {}

\* free_object and free_function_bytecode.  While cycles are removed the memory
\* of p is kept if p is still referred to.
FreeNode(p) ==
  LET rel == [c \in Nodes |->
                One(c \in out[p]) + One(c \in Icing(p))
                + Cardinality({r \in RecordsOf(p) : r.value = c})
                + Calling({p}, c) + Uses(EntriesOf(p), c)]
      gain == [c \in Nodes |-> Uses(Enqueued(p), c)]
      r == Released(rel, gain)
  IN  /\ refs' = r.refs
      /\ where' = [r.where EXCEPT ![p] =
                     IF phase = "sweep" /\ r.refs[p] # 0 THEN "zero" ELSE "none"]
      /\ out' = [r.out EXCEPT ![p] = {}]
      /\ ic' = [b \in Bytecodes |-> IF b = p THEN {} ELSE ic[b]]
      /\ freed' = [freed EXCEPT ![p] = where'[p] # "none"]
      /\ records' = records \ RecordsOf(p)
      /\ callback' = [g \in Registries |-> IF g = p THEN {} ELSE callback[g]]
      /\ entries' = entries \ EntriesOf(p)
      /\ targets' = Untargeted(p)
      /\ LET new == SetToSeq(Enqueued(p)) IN
         jobs' = jobs \o [i \in DOMAIN new |-> [cb |-> new[i].cb, held |-> new[i].held]]
      /\ UNCHANGED <<root, mark>>

\* One turn of the loop of free_zero_refcount.
FreeZero ==
  /\ phase = "free"
  /\ \E p \in On("zero") :
       IF refs[p] # 0
       THEN failed' = TRUE /\ UNCHANGED <<where, refs, mark, freed, heap, phase>>
       ELSE /\ FreeNode(p)
            /\ phase' = IF \E c \in Nodes : where'[c] = "zero" THEN "free" ELSE "none"
            /\ UNCHANGED failed
  /\ UNCHANGED <<todo, collected>>

-----------------------------------------------------------------------------
(* The program *)

Idle == phase = "none" /\ collected' = 0 /\ UNCHANGED <<mark, freed, todo, failed>>

CanAllocate(n) == where[n] = "none" /\ Cardinality({m \in Nodes : where[m] # "none"}) < MaxLive

\* A new object or function, referred to from the stack.
NewValue(n) ==
  /\ Idle /\ CanAllocate(n)
  /\ where' = [where EXCEPT ![n] = "gc"]
  /\ refs' = [refs EXCEPT ![n] = 1]
  /\ root' = root \cup {n}
  /\ UNCHANGED <<out, ic, weak, phase>>

\* A new shape or variable reference, owned by p.
NewCell(n, p) ==
  /\ Idle /\ CanAllocate(n) /\ Edges < MaxEdges
  /\ where' = [where EXCEPT ![n] = "gc"]
  /\ refs' = [refs EXCEPT ![n] = 1]
  /\ out' = [out EXCEPT ![p] = @ \cup {n}]
  /\ UNCHANGED <<ic, root, weak, phase>>

\* a refers to b: a property, a constant, a prototype, a captured variable.
Link(a, b) ==
  /\ Idle /\ b \notin out[a] /\ Edges < MaxEdges
  /\ ~(a \in Cells /\ b \in Cells)
  /\ out' = [out EXCEPT ![a] = @ \cup {b}]
  /\ refs' = [refs EXCEPT ![b] = @ + 1]
  /\ UNCHANGED <<where, ic, root, weak, phase>>

Unlink(a, b) ==
  /\ Idle /\ b \in out[a]
  /\ LET r == Released([NoRelease EXCEPT ![b] = 1], NoRelease) IN
     Settle(r) /\ out' = [r.out EXCEPT ![a] = @ \ {b}]
  /\ UNCHANGED <<ic, root, weak>>

\* The stack or a global takes or drops a reference.
Take(n) ==
  /\ Idle /\ n \notin root
  /\ root' = root \cup {n}
  /\ refs' = [refs EXCEPT ![n] = @ + 1]
  /\ UNCHANGED <<where, out, ic, weak, phase>>

DropRoot(n) ==
  /\ Idle /\ n \in root
  /\ LET r == Released([NoRelease EXCEPT ![n] = 1], NoRelease) IN
     Settle(r) /\ out' = r.out
  /\ root' = root \ {n}
  /\ UNCHANGED <<ic, weak>>

\* turbojs_vm_property_ic_fill: an inline cache of b retains the shape s and gives
\* back the ways it replaces.
FillCache(b, s) ==
  /\ Idle /\ s \notin ic[b] /\ Edges < MaxEdges
  /\ \E old \in SUBSET ic[b] :
       LET r == Released([c \in Nodes |-> One(c \in old)], [NoRelease EXCEPT ![s] = 1]) IN
       /\ Settle(r) /\ out' = r.out
       /\ ic' = [ic EXCEPT ![b] = (@ \ old) \cup {s}]
  /\ UNCHANGED <<root, weak>>

\* js_map_set on a WeakMap: the old value of the key, if it has a record, is
\* replaced.
SetRecord(m, k, v) ==
  LET old == {r \in records : r.map = m /\ r.key = k} IN
  /\ Idle /\ Edges < MaxEdges
  /\ records' = (records \ old) \cup {[map |-> m, key |-> k, value |-> v]}
  /\ LET x == Released([c \in Nodes |-> Cardinality({r \in old : r.value = c})],
                       [NoRelease EXCEPT ![v] = 1]) IN
     Settle(x) /\ out' = x.out
  /\ UNCHANGED <<ic, root, callback, entries, targets, jobs>>

\* map_delete_record
DeleteRecord(r) ==
  /\ Idle
  /\ records' = records \ {r}
  /\ LET x == Released([NoRelease EXCEPT ![r.value] = 1], NoRelease) IN
     Settle(x) /\ out' = x.out
  /\ UNCHANGED <<ic, root, callback, entries, targets, jobs>>

\* js_finrec_constructor
NewRegistry(g, cb) ==
  /\ Idle /\ CanAllocate(g)
  /\ where' = [where EXCEPT ![g] = "gc"]
  /\ refs' = [refs EXCEPT ![g] = 1, ![cb] = @ + 1]
  /\ root' = root \cup {g}
  /\ callback' = [callback EXCEPT ![g] = {cb}]
  /\ UNCHANGED <<out, ic, records, entries, targets, jobs, phase>>

\* js_finrec_register; held is empty when the held value is no object.  The target
\* may be the callback, but neither the registry nor the held value.
Register(g, t, held) ==
  /\ Idle /\ Edges < MaxEdges
  /\ Cardinality(entries) + Len(jobs) < MaxJobs
  /\ t # g /\ t \notin held
  /\ \E cb \in callback[g] :
       LET e == [registry |-> g, target |-> t, cb |-> cb, held |-> held] IN
       /\ e \notin entries
       /\ entries' = entries \cup {e}
       /\ refs' = [c \in Nodes |-> refs[c] + Uses({e}, c)]
  /\ UNCHANGED <<where, out, ic, root, records, callback, targets, jobs, phase>>

\* js_weakref_constructor
NewRef(r, t) ==
  /\ Idle /\ CanAllocate(r)
  /\ where' = [where EXCEPT ![r] = "gc"]
  /\ refs' = [refs EXCEPT ![r] = 1]
  /\ root' = root \cup {r}
  /\ targets' = [targets EXCEPT ![r] = {t}]
  /\ UNCHANGED <<out, ic, records, callback, entries, jobs, phase>>

\* js_weakref_deref, whose result is kept on the stack.
Deref(r) ==
  /\ Idle
  /\ \E t \in targets[r] \ root :
       /\ root' = root \cup {t}
       /\ refs' = [refs EXCEPT ![t] = @ + 1]
  /\ UNCHANGED <<where, out, ic, weak, phase>>

\* js_finrec_job has run, and its arguments are freed.
RunJob ==
  /\ Idle /\ jobs # <<>>
  /\ jobs' = Tail(jobs)
  /\ LET r == Released([c \in Nodes |-> Uses({Head(jobs)}, c)], NoRelease) IN
     Settle(r) /\ out' = r.out
  /\ UNCHANGED <<ic, root, records, callback, entries, targets>>

-----------------------------------------------------------------------------
(* JS_RunGC *)

Collecting == UNCHANGED <<freed, heap, collected>>

RunGC ==
  /\ phase = "none"
  /\ phase' = "decref" /\ todo' = On("gc")
  /\ UNCHANGED <<where, refs, mark, freed, heap, collected, failed>>

\* The nodes that gc_decref moves to tmp_obj_list when it visits p: visited
\* nodes, p among them, without a reference left.
Unrooted(p, left) ==
  {c \in Nodes : left[c] = 0 /\ (c = p \/ (Children(p)[c] > 0 /\ mark[c] = 1))}

\* gc_decref, one node.
Decref ==
  /\ phase = "decref"
  /\ \E p \in todo :
       LET left == [c \in Nodes |-> refs[c] - Children(p)[c]]
           unrooted == Unrooted(p, left)
       IN
       /\ failed' = (mark[p] # 0 \/ \E c \in Nodes : left[c] < 0)
       /\ refs' = left
       /\ mark' = [mark EXCEPT ![p] = 1]
       /\ where' = [c \in Nodes |-> IF c \in unrooted THEN "tmp" ELSE where[c]]
       /\ todo' = todo \ {p}
  /\ UNCHANGED phase /\ Collecting

DecrefDone ==
  /\ phase = "decref" /\ todo = {}
  /\ phase' = "scan" /\ todo' = On("gc")
  /\ UNCHANGED <<where, refs, mark, failed>> /\ Collecting

\* The nodes gc_scan_incref_child takes back from tmp_obj_list for p.
Rescued(p) == {c \in Nodes : refs[c] = 0 /\ Children(p)[c] > 0}

\* The first loop of gc_scan, one node.
Scan ==
  /\ phase = "scan"
  /\ \E p \in todo : LET rescued == Rescued(p) IN
       /\ failed' = (refs[p] <= 0)
       /\ refs' = [c \in Nodes |-> refs[c] + Children(p)[c]]
       /\ where' = [c \in Nodes |-> IF c \in rescued THEN "gc" ELSE where[c]]
       /\ mark' = [c \in Nodes |-> IF c = p \/ c \in rescued THEN 0 ELSE mark[c]]
       /\ todo' = (todo \ {p}) \cup rescued
  /\ UNCHANGED phase /\ Collecting

\* Mutant of Restored: the references among garbage are not counted again.
RestoredNone == refs

\* The second loop of gc_scan, gc_scan_incref_child2.
Restored ==
  [c \in Nodes |-> refs[c] + FoldSet(LAMBDA p, sum : sum + Children(p)[c], 0, On("tmp"))]

ScanDone ==
  /\ phase = "scan" /\ todo = {}
  /\ refs' = Restored
  /\ phase' = "sweep"
  /\ UNCHANGED <<where, mark, todo, failed>> /\ Collecting

\* One turn of the loop of gc_free_cycles: a value is freed; a cell is set aside,
\* for it goes with the last value that refers to it.
Sweep ==
  /\ phase = "sweep"
  /\ \E p \in On("tmp") :
       IF p \in Values THEN FreeNode(p)
       ELSE where' = [where EXCEPT ![p] = "zero"] /\ UNCHANGED <<refs, mark, freed, heap>>
  /\ UNCHANGED <<phase, todo, collected, failed>>

\* The end of gc_free_cycles: the memory of the freed values is released.
SweepDone ==
  /\ phase = "sweep" /\ On("tmp") = {}
  /\ failed' = ~(On("zero") \subseteq Values)
  /\ where' = [n \in Nodes |-> IF where[n] = "zero" THEN "none" ELSE where[n]]
  /\ refs' = [n \in Nodes |-> IF where[n] = "zero" THEN 0 ELSE refs[n]]
  /\ freed' = [n \in Nodes |-> FALSE]
  /\ mark' = [n \in Nodes |-> IF where[n] = "gc" THEN mark[n] ELSE 0]
  /\ phase' = "none" /\ collected' = Min({collected + 1, Enough})
  /\ UNCHANGED <<heap, todo>>

Gc == Decref \/ DecrefDone \/ Scan \/ ScanDone \/ Sweep \/ SweepDone

\* The program gets at what it can reach.
Program ==
  LET R == Reachable
      V == R \cap Values
  IN  \/ \E n \in Values \ (Refs \cup Registries) : NewValue(n)
      \/ \E n \in Cells, p \in V : NewCell(n, p)
      \/ \E a \in R : (\E b \in R : Link(a, b)) \/ (\E b \in out[a] : Unlink(a, b))
      \/ \E n \in V : Take(n) \/ DropRoot(n)
      \/ \E b \in R \cap Bytecodes, s \in R \cap Cells : FillCache(b, s)
      \/ \E m \in R \cap Maps, k, v \in V : SetRecord(m, k, v)
      \/ \E r \in records : {r.map, r.key} \subseteq R /\ DeleteRecord(r)
      \/ \E g \in Registries, cb \in V : NewRegistry(g, cb)
      \/ \E g \in R \cap Registries, t \in V, held \in {{}} \cup {{v} : v \in V} :
           Register(g, t, held)
      \/ \E r \in Refs, t \in V : NewRef(r, t)
      \/ \E r \in R \cap Refs : Deref(r)
      \/ RunJob

Next == ~failed /\ ((phase = "none" /\ Program) \/ FreeZero \/ RunGC \/ Gc)

Spec == Init /\ [][Next]_vars

-----------------------------------------------------------------------------
(* Properties *)

\* The variables have their types; in particular no count ever falls below zero.
TypeOK ==
  /\ where \in [Nodes -> {"none", "gc", "tmp", "zero"}]
  /\ refs \in [Nodes -> Nat] /\ mark \in [Nodes -> {0, 1}]
  /\ out \in [Nodes -> SUBSET Nodes]
  /\ phase \in {"none", "free", "decref", "scan", "sweep"}

\* The counted references to c.
Counted(c) ==
  One(c \in root) + Cardinality({p \in Nodes : c \in out[p]})
  + Cardinality({b \in Bytecodes : c \in ic[b]})
  + Cardinality({r \in records : r.value = c})
  + Calling(Registries, c) + Uses(entries, c)
  + FoldSet(LAMBDA i, sum : sum + Uses({jobs[i]}, c), 0, DOMAIN jobs)

\* While the program runs, counts are exact: trial deletion gives back every
\* reference it takes away from a node that stays.
CountsExact ==
  phase = "none" => \A c \in Nodes : where[c] # "none" => refs[c] = Counted(c)

\* What the program can reach is never freed, not even in the middle of a
\* collection.
ReachableKept == \A n \in Reachable : where[n] # "none" /\ ~freed[n]

\* A reference to be released is a reference to allocated memory: nodes that are
\* still to be freed refer to no node whose memory is gone.
NoDangling ==
  \A n \in Nodes : where[n] # "none" =>
    \A c \in Nodes : Children(n)[c] > 0 \/ c \in Icing(n) => where[c] # "none"

\* Weak references refer to objects that have not been freed: keys and targets
\* are forgotten when they are freed, and the holder's record with the holder.
WeakLive ==
  LET Alive(n) == where[n] # "none" /\ ~freed[n] IN
  /\ \A r \in records : Alive(r.map) /\ Alive(r.key)
  /\ \A e \in entries : Alive(e.registry) /\ Alive(e.target)
  /\ \A r \in Refs : \A t \in targets[r] : Alive(r) /\ Alive(t)

\* The assertions of the collector hold: a reference is never taken away twice, a
\* node kept by gc_decref has a reference left, and only values wait for the end.
AssertionsHold == ~failed

\* The collector works on well-formed memory throughout, and counts it exactly.
Consistent == TypeOK /\ CountsExact /\ NoDangling /\ AssertionsHold

\* Collections leave no garbage: what is still allocated after them hangs on the
\* stack, the globals, a job or a shape that an inline cache retains, by way of
\* references, of records of reached keys and of entries of reached registries.
GarbageCollected ==
  collected = Enough =>
    LET Held(n) == out[n] \cup {r.value : r \in {q \in records : q.key = n}}
                     \cup (IF n \in Registries THEN callback[n] ELSE {})
                     \cup UNION {{e.cb} \cup e.held : e \in {q \in entries : q.registry = n}}
        R[k \in 0 .. Cardinality(Nodes)] ==
          IF k = 0 THEN root \cup JobNodes \cup UNION {ic[b] : b \in Bytecodes}
          ELSE LET before == R[k - 1] IN before \cup UNION {Held(n) : n \in before}
    IN  On("gc") \subseteq R[Cardinality(Nodes)]

\* When nothing is referred to from outside any more, collections leave
\* nothing: the assertion at the end of turbojs_internal_free_runtime.
RuntimeEmpty == collected = Enough /\ root = {} /\ jobs = <<>> => On("gc") = {}
=============================================================================
