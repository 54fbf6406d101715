------------------------------- MODULE Shapes -------------------------------
(***************************************************************************)
(* The object model: shapes (hidden classes) shared by objects, the table  *)
(* of hashed shapes, the weak shape-transition cache in front of it, and   *)
(* the four-way property inline caches of bytecode functions.              *)
(* (shape_core.c, object_core.c, property_lookup.c, property_definition.c, *)
(* the get_field and put_field instructions.)                              *)
(*                                                                         *)
(* A shape lives at an address, and an address is used again once it is    *)
(* free.  Values are abstracted to tags: slots[o][i] names the property    *)
(* whose value was last stored in p->prop[i].  Hash values are taken to be *)
(* free of collisions, and allocation succeeds.                            *)
(* Assertions are compiled in: failed records that one has failed.         *)
(***************************************************************************)
EXTENDS Integers, FiniteSets, Sequences, SequencesExt

CONSTANTS
  Objects,     \* object addresses
  Addresses,   \* shape addresses
  Protos,      \* prototypes
  Atoms,       \* property names
  ObjectProto, \* Object.prototype
  Kinds,       \* what flags make of a property: "data", "readonly", "getset"
  Sites,       \* the property instructions of a bytecode function
  SiteAtom,    \* SiteAtom[i]: the name site i accesses
  SiteKind,    \* SiteKind[i]: "get" or "put"
  SiteEntry,   \* SiteEntry[i]: the cache entry site i is hashed to
  Ways,        \* TURBOJS_VM_PROPERTY_IC_WAYS
  InitialSize, \* JS_PROP_INITIAL_SIZE
  CompactAt,   \* the 8 of delete_property
  Transitions, \* whether the shape-transition cache is used
  CacheIndex,  \* CacheIndex[s, a]: the entry for shape s and name a
  Operations,  \* the kinds of operation the program performs
  Null

Prop(a, k) == [atom |-> a, kind |-> k]
Deleted == Prop(Null, "data")
Unset == Prop(Null, "unset")  \* an uninitialized JSProperty

MaxProps == Cardinality(Atoms) + 1  \* bound on prop_count
PropIndex == 1 .. MaxProps

VARIABLES
  sh,     \* sh[s]: the shape at address s
  obj,    \* obj[o]: the address of the shape of o, Null if o is free
  slots,  \* slots[o]: the property values of o
  trans,  \* the shape_transition_* arrays
  ic,     \* b->property_ic
  failed  \* an assertion has failed

vars == <<sh, obj, slots, trans, ic, failed>>

FreeShape == [live |-> FALSE, hashed |-> FALSE, proto |-> Null, props |-> <<>>,
              size |-> 0, gone |-> 0, refs |-> 0]
NoTransition == [source |-> Null, target |-> Null, prop |-> Unset]
NoHint == [object |-> Null, shape |-> Null, index |-> 0]
EmptyEntry == [site |-> Null, ways |-> <<>>, last |-> NoHint, replace |-> 0]

Init ==
  /\ sh = [s \in Addresses |-> FreeShape]
  /\ obj = [o \in Objects |-> Null]
  /\ slots = [o \in Objects |-> [i \in PropIndex |-> Unset]]
  /\ trans = [i \in Range(CacheIndex) |-> NoTransition]
  /\ ic = [e \in Range(SiteEntry) |-> EmptyEntry]
  /\ failed = FALSE

-----------------------------------------------------------------------------
(* Shapes.  A heap h is the shapes and the transition cache. *)

Heap == [sh |-> sh, trans |-> trans]
Free(h) == {s \in Addresses : ~h.sh[s].live}
With(h, s, shape) == [sh |-> [h.sh EXCEPT ![s] = shape], trans |-> h.trans]

\* js_new_shape_nohash, js_new_shape2
NewShape(p, hashed) ==
  [live |-> TRUE, hashed |-> hashed, proto |-> p, props |-> <<>>,
   size |-> InitialSize, gone |-> 0, refs |-> 1]

\* js_dup_shape
Dup(h, s) == With(h, s, [h.sh[s] EXCEPT !.refs = @ + 1])

\* The invalidation of js_free_shape0.
Forget(t, s) ==
  [i \in DOMAIN t |-> IF s \in {t[i].source, t[i].target} THEN NoTransition ELSE t[i]]

\* js_free_shape
Drop(h, s) ==
  IF h.sh[s].refs = 1
  THEN [sh |-> [h.sh EXCEPT ![s] = FreeShape], trans |-> Forget(h.trans, s)]
  ELSE With(h, s, [h.sh[s] EXCEPT !.refs = @ - 1])

\* resize_properties: the shape moves from s to n.
Moved(h, s, n, size) ==
  [h EXCEPT !.sh = [@ EXCEPT ![n] = [h.sh[s] EXCEPT !.size = size], ![s] = FreeShape]]

Grown(size) == IF size < 7 THEN 7 ELSE (size * 3) \div 2

\* js_clone_shape
Clone(h, s, n, hashed) ==
  With(h, n, [h.sh[s] EXCEPT !.refs = 1, !.hashed = hashed])

Hashed(h) == {s \in Addresses : h.sh[s].live /\ h.sh[s].hashed}

\* The table walk of find_hashed_shape_prop.
Matching(h, s, p) ==
  {t \in Hashed(h) : /\ h.sh[t].proto = h.sh[s].proto
                     /\ h.sh[t].props = Append(h.sh[s].props, p)}

\* The cached transition from s by p, if any.
Cached(h, s, p) ==
  LET e == h.trans[CacheIndex[s, p.atom]] IN
  IF Transitions /\ e.source = s /\ e.prop = p THEN {e.target} ELSE {}

Remembered(h, s, p, t) ==
  IF Transitions
  THEN [h EXCEPT !.trans = [@ EXCEPT ![CacheIndex[s, p.atom]] =
                              [source |-> s, target |-> t, prop |-> p]]]
  ELSE h

Commit(h) == sh' = h.sh /\ trans' = h.trans

OwnIndex(o, a) == {i \in DOMAIN sh[obj[o]].props : sh[obj[o]].props[i].atom = a}

-----------------------------------------------------------------------------
(* Objects *)

\* JS_NewObjectFromShape: obj[o] refers to s, whose count includes it.
Create(o, h, s) ==
  /\ Commit(h)
  /\ obj' = [obj EXCEPT ![o] = s]
  /\ slots' = [slots EXCEPT ![o] = [i \in PropIndex |-> Unset]]
  /\ UNCHANGED <<ic, failed>>

\* find_hashed_shape_proto
EmptyShapes(p) == {s \in Hashed(Heap) : sh[s].proto = p /\ sh[s].props = <<>>}

\* JS_NewObjectProtoClass
NewObject(o, p) ==
  /\ obj[o] = Null
  /\ IF EmptyShapes(p) # {}
     THEN \E s \in EmptyShapes(p) : Create(o, Dup(Heap, s), s)
     ELSE \E s \in Free(Heap) : Create(o, With(Heap, s, NewShape(p, TRUE)), s)

\* JS_NewObjectProtoClassAlloc: a prototype or a constructor gets a shape that
\* is not in the table.
NewObjectAlloc(o, p) ==
  /\ "alloc" \in Operations
  /\ obj[o] = Null
  /\ \E s \in Free(Heap) : Create(o, With(Heap, s, NewShape(p, FALSE)), s)

\* JS_NewObjectFrom with one property: an empty object is made and its shape
\* is moved and extended in place.
NewObjectFrom(o, a) ==
  /\ "from" \in Operations
  /\ obj[o] = Null
  /\ IF EmptyShapes(ObjectProto) # {}
     THEN failed' = TRUE /\ UNCHANGED <<sh, obj, slots, trans, ic>>
     ELSE \E s \in Free(Heap) :
            /\ Commit(With(Heap, s, [NewShape(ObjectProto, TRUE) EXCEPT
                                       !.size = Grown(InitialSize),
                                       !.props = <<Prop(a, "data")>>]))
            /\ obj' = [obj EXCEPT ![o] = s]
            /\ slots' = [slots EXCEPT ![o] = [i \in PropIndex |->
                                                IF i = 1 THEN Prop(a, "data") ELSE Unset]]
            /\ UNCHANGED <<ic, failed>>

\* free_object
FreeObject(o) ==
  /\ obj[o] # Null
  /\ Commit(Drop(Heap, obj[o]))
  /\ obj' = [obj EXCEPT ![o] = Null]
  /\ slots' = [slots EXCEPT ![o] = [i \in PropIndex |-> Unset]]
  /\ UNCHANGED <<ic, failed>>

\* o takes shape s in heap h, and the value of p is stored in the last property
\* of s.
Store(h, o, s, p) ==
  /\ Commit(h)
  /\ obj' = [obj EXCEPT ![o] = s]
  /\ slots' = [slots EXCEPT ![o] = [@ EXCEPT ![Len(h.sh[s].props)] = p]]
  /\ UNCHANGED <<ic, failed>>

\* The assertion of add_property, and add_shape_property: p is added to the
\* shape s of o, which moves when its properties must grow.
Extend(h, o, s, p) ==
  LET Added(g, t) == With(g, t, [g.sh[t] EXCEPT !.props = Append(@, p)]) IN
  IF h.sh[s].refs # 1
  THEN failed' = TRUE /\ UNCHANGED <<sh, obj, slots, trans, ic>>
  ELSE IF Len(h.sh[s].props) < h.sh[s].size
  THEN Store(Added(h, s), o, s, p)
  ELSE \E n \in Free(h) :
         Store(Added(Moved(h, s, n, Grown(h.sh[s].size)), n), o, n, p)

CanAdd(o, p) == obj[o] # Null /\ OwnIndex(o, p.atom) = {} /\ Len(sh[obj[o]].props) < MaxProps

\* Mutant of AddProperty: the reference to the shape left behind is kept.
AddPropertyLeaks(o, p) ==
  /\ CanAdd(o, p)
  /\ LET s == obj[o] IN
     IF sh[s].hashed /\ Matching(Heap, s, p) # {}
     THEN \E t \in Matching(Heap, s, p) : Store(Dup(Heap, t), o, t, p)
     ELSE IF sh[s].hashed /\ sh[s].refs # 1
     THEN \E n \in Free(Heap) : Extend(Drop(Clone(Heap, s, n, TRUE), s), o, n, p)
     ELSE Extend(Heap, o, s, p)

\* add_property and the store of its caller, which has found no own property.
AddProperty(o, p) ==
  /\ CanAdd(o, p)
  /\ LET s == obj[o]
         Adopt(h, t) == Store(Drop(Dup(h, t), s), o, t, p)
     IN  IF ~sh[s].hashed THEN Extend(Heap, o, s, p)
         ELSE IF Cached(Heap, s, p) # {} THEN \E t \in Cached(Heap, s, p) : Adopt(Heap, t)
         ELSE IF Matching(Heap, s, p) # {}
              THEN \E t \in Matching(Heap, s, p) : Adopt(Remembered(Heap, s, p, t), t)
         ELSE IF sh[s].refs # 1
              THEN \E n \in Free(Heap) : Extend(Drop(Clone(Heap, s, n, TRUE), s), o, n, p)
         ELSE Extend(Heap, o, s, p)

-----------------------------------------------------------------------------
(* Updates in place *)

\* js_shape_prepare_update: the heaps h in which the shape s of o may be
\* modified.
Prepared(o) ==
  LET s == obj[o] IN
  IF ~sh[s].hashed THEN {[h |-> Heap, s |-> s]}
  ELSE IF sh[s].refs # 1
       THEN {[h |-> Drop(Clone(Heap, s, n, FALSE), s), s |-> n] : n \in Free(Heap)}
  ELSE {[h |-> With(Heap, s, [sh[s] EXCEPT !.hashed = FALSE]), s |-> s]}

\* JS_DefineProperty on an own property whose flags change.
Redefine(o, p) ==
  /\ "redefine" \in Operations
  /\ obj[o] # Null
  /\ \E i \in OwnIndex(o, p.atom), u \in Prepared(o) :
       /\ sh[obj[o]].props[i] # p
       /\ Commit(With(u.h, u.s, [u.h.sh[u.s] EXCEPT !.props[i] = p]))
       /\ obj' = [obj EXCEPT ![o] = u.s]
       /\ slots' = [slots EXCEPT ![o] = [@ EXCEPT ![i] = p]]
  /\ UNCHANGED <<ic, failed>>

\* JS_SetPrototypeInternal
SetProto(o, p) ==
  /\ "setproto" \in Operations
  /\ obj[o] # Null /\ sh[obj[o]].proto # p
  /\ \E u \in Prepared(o) :
       /\ Commit(With(u.h, u.s, [u.h.sh[u.s] EXCEPT !.proto = p]))
       /\ obj' = [obj EXCEPT ![o] = u.s]
  /\ UNCHANGED <<slots, ic, failed>>

\* The indices of the properties of shape that are not deleted, in order.
Kept(shape) ==
  SelectSeq([i \in DOMAIN shape.props |-> i], LAMBDA i : shape.props[i] # Deleted)

\* Mutant of Compacted: the values stay where they were.
CompactedShapeOnly(shape, values) ==
  [shape |-> [shape EXCEPT !.props = [j \in DOMAIN Kept(shape) |-> @[Kept(shape)[j]]],
                           !.gone = 0],
   values |-> values]

\* compact_properties: the shape and the values without the deleted properties.
Compacted(shape, values) ==
  LET kept == Kept(shape) IN
  [shape |-> [shape EXCEPT !.props = [j \in DOMAIN kept |-> @[kept[j]]],
                           !.size = IF Len(kept) > InitialSize THEN Len(kept) ELSE InitialSize,
                           !.gone = 0],
   values |-> [j \in PropIndex |-> IF j \in DOMAIN kept THEN values[kept[j]] ELSE Unset]]

\* delete_property
DeleteProperty(o, a) ==
  /\ "delete" \in Operations
  /\ obj[o] # Null
  /\ \E i \in OwnIndex(o, a), u \in Prepared(o) :
       LET old == u.h.sh[u.s]
           shape == [old EXCEPT !.props[i] = Deleted, !.gone = @ + 1]
           values == [slots[o] EXCEPT ![i] = Unset]
           c == Compacted(shape, values)
       IN  IF shape.gone >= CompactAt /\ shape.gone >= Len(shape.props) \div 2
           THEN \E n \in Free(u.h) :
                  /\ Commit([u.h EXCEPT !.sh = [@ EXCEPT ![u.s] = FreeShape, ![n] = c.shape]])
                  /\ obj' = [obj EXCEPT ![o] = n]
                  /\ slots' = [slots EXCEPT ![o] = c.values]
           ELSE /\ Commit(With(u.h, u.s, shape))
                /\ obj' = [obj EXCEPT ![o] = u.s]
                /\ slots' = [slots EXCEPT ![o] = values]
  /\ UNCHANGED <<ic, failed>>

-----------------------------------------------------------------------------
(* Property inline caches.  The ways are searched from hot_way, a matter of  *)
(* speed only: their shapes are distinct.                                    *)

Entry(i) == ic[SiteEntry[i]]

\* turbojs_vm_property_ic_lookup: the index a hit of site i on o yields.
Hit(i, o) ==
  LET e == Entry(i) IN
  IF e.site # i THEN {}
  ELSE IF e.last.object = o /\ e.last.shape = obj[o] THEN {e.last.index}
  ELSE {e.ways[w].index : w \in {v \in DOMAIN e.ways : e.ways[v].shape = obj[o]}}

Hint(o, x) == [object |-> o, shape |-> obj[o], index |-> x]

\* The index of an own property a lookup fills the cache with.
Fillable(i, o) ==
  {x \in OwnIndex(o, SiteAtom[i]) :
     sh[obj[o]].props[x].kind \in IF SiteKind[i] = "put" THEN {"data"} ELSE {"data", "readonly"}}

DropAll(h, ways) == FoldSeq(LAMBDA w, g : Drop(g, w.shape), h, ways)

\* Mutant of Filled: the way does not hold a reference.
FilledUnretained(i, o, x) ==
  LET e == IF Entry(i).site = i THEN Entry(i) ELSE [EmptyEntry EXCEPT !.site = i]
      way == [shape |-> obj[o], index |-> x]
  IN  [h |-> Heap,
       entry |-> [e EXCEPT !.ways = IF Len(e.ways) < Ways THEN Append(@, way)
                                    ELSE ReplaceAt(@, e.replace + 1, way),
                           !.last = Hint(o, x)]]

\* turbojs_vm_property_ic_fill after a miss: the heap and the entry.
Filled(i, o, x) ==
  LET same == Entry(i).site = i
      e == IF same THEN Entry(i) ELSE [EmptyEntry EXCEPT !.site = i]
      h == IF same THEN Heap ELSE DropAll(Heap, Entry(i).ways)
      way == [shape |-> obj[o], index |-> x]
  IN  IF Len(e.ways) < Ways
      THEN [h |-> Dup(h, obj[o]),
            entry |-> [e EXCEPT !.ways = Append(@, way), !.last = Hint(o, x)]]
      ELSE [h |-> Dup(Drop(h, e.ways[e.replace + 1].shape), obj[o]),
            entry |-> [e EXCEPT !.ways = ReplaceAt(@, e.replace + 1, way),
                                !.replace = (@ + 1) % Ways, !.last = Hint(o, x)]]

\* The cache after site i has accessed o, and the index it accessed.
Access(i, o, x) ==
  IF Hit(i, o) # {}
  THEN /\ x \in Hit(i, o)
       /\ ic' = [ic EXCEPT ![SiteEntry[i]] = [@ EXCEPT !.last = Hint(o, x)]]
       /\ UNCHANGED <<sh, trans>>
  ELSE /\ x \in Fillable(i, o)
       /\ ic' = [ic EXCEPT ![SiteEntry[i]] = Filled(i, o, x).entry]
       /\ Commit(Filled(i, o, x).h)

\* OP_get_field and OP_get_field2 on an own property that is cached or can be.
GetField(i, o) ==
  /\ SiteKind[i] = "get" /\ obj[o] # Null
  /\ \E x \in PropIndex : Access(i, o, x)
  /\ UNCHANGED <<obj, slots, failed>>

\* OP_put_field, likewise.
PutField(i, o) ==
  /\ SiteKind[i] = "put" /\ obj[o] # Null
  /\ \E x \in PropIndex :
       /\ Access(i, o, x)
       /\ slots' = [slots EXCEPT ![o] = [@ EXCEPT ![x] = Prop(SiteAtom[i], "data")]]
  /\ UNCHANGED <<obj, failed>>

\* free_function_bytecode with turbojs_vm_property_ic_destroy; another function
\* takes the place of the one that is freed.
FreeBytecode ==
  /\ \E e \in DOMAIN ic : ic[e] # EmptyEntry
  /\ Commit(FoldSet(LAMBDA e, h : DropAll(h, ic[e].ways), Heap, DOMAIN ic))
  /\ ic' = [e \in DOMAIN ic |-> EmptyEntry]
  /\ UNCHANGED <<obj, slots, failed>>

-----------------------------------------------------------------------------
Next ==
  /\ ~failed
  /\ \/ \E o \in Objects, p \in Protos :
          NewObject(o, p) \/ NewObjectAlloc(o, p) \/ SetProto(o, p)
     \/ \E o \in Objects, a \in Atoms : NewObjectFrom(o, a) \/ DeleteProperty(o, a)
     \/ \E o \in Objects, a \in Atoms, k \in Kinds :
          AddProperty(o, Prop(a, k)) \/ Redefine(o, Prop(a, k))
     \/ \E o \in Objects : FreeObject(o)
     \/ \E i \in Sites, o \in Objects : GetField(i, o) \/ PutField(i, o)
     \/ FreeBytecode

Spec == Init /\ [][Next]_vars

-----------------------------------------------------------------------------
(* Properties *)

\* The variables have their types.
TypeOK ==
  /\ \A s \in Addresses :
       /\ sh[s].proto \in Protos \cup {Null} /\ sh[s].size \in Nat /\ sh[s].refs \in Nat
       /\ Len(sh[s].props) \in 0 .. MaxProps /\ sh[s].gone \in 0 .. Len(sh[s].props)
  /\ obj \in [Objects -> Addresses \cup {Null}]
  /\ \A e \in DOMAIN ic : Len(ic[e].ways) \in 0 .. Ways

\* Reference counts are exact: a shape is counted once by each object that has
\* it and once by each way of an inline cache that holds it, and a free address
\* is counted by nobody.
RefsExact ==
  \A s \in Addresses :
    sh[s].refs = Cardinality({o \in Objects : obj[o] = s})
               + Cardinality({w \in (DOMAIN ic) \X (1 .. Ways) :
                   w[2] \in DOMAIN ic[w[1]].ways /\ ic[w[1]].ways[w[2]].shape = s})

\* A layout is in the table once: objects that acquire the same properties in
\* the same order share their shape.
HashedUnique ==
  \A s, t \in Hashed(Heap) :
    sh[s].proto = sh[t].proto /\ sh[s].props = sh[t].props => s = t

\* No assertion of add_property or JS_NewObjectFrom fails: a shape is extended
\* in place only when its object is the only one to refer to it.  This is claimed
\* of programs without inline caches: a way that turbojs_vm_property_ic_fill gave
\* a shape outside the table is a second reference, and add_property then fails.
AssertionsHold == ~failed

\* The shapes are well formed, counted and shared.
Consistent == TypeOK /\ RefsExact /\ HashedUnique /\ AssertionsHold

\* A hit yields the index of the property the site names, a plain data property
\* for a read and a writable one for a write: the index is used unchecked.
IcSound ==
  \A i \in Sites, o \in Objects :
    obj[o] # Null => Hit(i, o) \subseteq Fillable(i, o)

\* The object at o, seen through its shape.
Own(o) ==
  IF obj[o] = Null THEN Null
  ELSE LET shape == sh[obj[o]]
           all == [i \in DOMAIN shape.props |-> [prop |-> shape.props[i], value |-> slots[o][i]]]
       IN  [proto |-> shape.proto, props |-> SelectSeq(all, LAMBDA x : x.prop # Deleted)]

Obj == INSTANCE Objects WITH
         own <- [o \in Objects |-> Own(o)],
         Props <- {Prop(a, k) : a \in Atoms, k \in Kinds},
         NoObject <- Null

\* Sharing, cloning, moving and compacting shapes is invisible: each operation
\* has its effect on the object it is applied to, keeps that object's other
\* properties and their values, and affects no other object.
ImplementsObjects == Obj!Spec
=============================================================================
