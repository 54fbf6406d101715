---------------------------- MODULE Collections ----------------------------
(***************************************************************************)
(* A Map or a Set, its iterators, and the calls that run code of the       *)
(* program while they walk over it: forEach, getOrInsertComputed and the   *)
(* methods of Set that take another set (builtins/collection_builtin.c).   *)
(* Between two steps of such a call the program may do anything to the     *)
(* collection.                                                             *)
(*                                                                         *)
(* A collection is a list of records with a hash table beside it.  Values  *)
(* that are themselves iterators of the collection, and other programs     *)
(* than one collection with one call under way, are left out.              *)
(***************************************************************************)
EXTENDS Integers, FiniteSets, FiniteSetsExt, Sequences, SequencesExt

CONSTANTS
  Zero, MinusZero,  \* js_int32(0) and the Float64 -0.0
  Keys,             \* the keys a program uses, both zeros included
  Values,           \* the values of a Map
  Undefined,        \* JS_UNDEFINED, the value of the records of a Set
  Hash,             \* map_hash_key
  Threshold,        \* record_count_threshold of a new collection
  Iterators,        \* iterator objects
  Others, MaxItems, \* bound: the keys another set yields, and how many
  MaxChanges        \* bound on the changes while a method of Set is under way

Null == 0          \* no record
Freed == -1        \* a pointer to a record that was freed
Walks == Iterators \cup {"call"}
Sets == {"isDisjointFrom", "isSubsetOf", "isSupersetOf", "intersection", "difference",
         "symmetricDifference", "union"}

VARIABLES
  is_set,   \* whether the collection is a Set
  s,        \* its JSMapState, and where the walks over it are
  it,       \* it[i]: the state of iterator i
  call,     \* the call under way
  turn      \* changes whenever a walk visits an entry

vars == <<is_set, s, it, call, turn>>

-----------------------------------------------------------------------------
(* Records and the hash table.  A record that walk w points to is named by its  *)
(* index at[w] in the list.                                                     *)

\* js_map_constructor
Empty(walks) ==
  [records |-> <<>>, table |-> [h \in {0} |-> <<>>], threshold |-> Threshold,
   record_count |-> 0, at |-> [w \in walks |-> Null]]

\* map_normalize_key
Normal(k) == IF k = MinusZero THEN Zero ELSE k

Bucket(m, k) == Hash[k] % Cardinality(DOMAIN m.table)

Live(m) == SelectSeq(m.records, LAMBDA r : ~r.empty)
KeysOf(m) == [i \in DOMAIN Live(m) |-> Live(m)[i].key]

\* map_find_record: the index of the record, whose hash_link is in the bucket of k.
Find(m, k) ==
  LET b == m.table[Bucket(m, k)]
      found == {i \in DOMAIN b : Normal(b[i]) = Normal(k)}
  IN  IF found = {} THEN Null
      ELSE CHOOSE r \in DOMAIN m.records : ~m.records[r].empty /\ m.records[r].key = b[Min(found)]

\* map_hash_resize
Resized(m) ==
  LET size == IF Cardinality(DOMAIN m.table) = 1 THEN 4 ELSE 2 * Cardinality(DOMAIN m.table) IN
  [m EXCEPT !.table = [h \in 0 .. size - 1 |-> SelectSeq(KeysOf(m), LAMBDA k : Hash[k] % size = h)],
            !.threshold = 2 * size]

\* map_add_record, and the value that its callers put into the new record.
Added(m, k, v) ==
  LET new == [key |-> k, value |-> v, empty |-> FALSE, ref_count |-> 1]
      n == [m EXCEPT !.records = Append(@, new),
                     !.table[Bucket(m, k)] = Append(@, k),
                     !.record_count = @ + 1]
  IN  IF n.record_count >= n.threshold THEN Resized(n) ELSE n

\* list_del and js_free_rt: pointers to the record dangle.
Unlinked(m, r) ==
  [m EXCEPT !.records = RemoveAt(@, r),
            !.at = [w \in DOMAIN @ |-> CASE @[w] = r -> Freed [] @[w] > r -> @[w] - 1 [] OTHER -> @[w]]]

\* Mutant of Deleted: a record that is being visited is freed as well.
DeletedAnyway(m, r) ==
  LET k == m.records[r].key IN
  Unlinked([m EXCEPT !.table[Bucket(m, k)] = SelectSeq(@, LAMBDA x : x # k),
                     !.record_count = @ - 1], r)

\* map_delete_record: a record that is being visited stays as a zombie.
Deleted(m, r) ==
  LET k == m.records[r].key
      unhashed == [m EXCEPT !.table[Bucket(m, k)] = SelectSeq(@, LAMBDA x : x # k),
                            !.record_count = @ - 1]
  IN  IF m.records[r].ref_count = 1 THEN Unlinked(unhashed, r)
      ELSE [unhashed EXCEPT !.records[r] = [key |-> Undefined, value |-> Undefined, empty |-> TRUE,
                                            ref_count |-> @.ref_count - 1]]

\* map_decref_record
Released(m, r) ==
  IF m.records[r].ref_count = 1 THEN Unlinked(m, r)
  ELSE [m EXCEPT !.records[r].ref_count = @ - 1]

\* js_map_set
Put(m, k, v) ==
  LET r == Find(m, Normal(k)) IN
  IF r = Null THEN Added(m, Normal(k), v) ELSE [m EXCEPT !.records[r].value = v]

\* js_map_delete
Without(m, k) == LET r == Find(m, Normal(k)) IN IF r = Null THEN m ELSE Deleted(m, r)

\* js_map_clear
Cleared(m) == FoldLeft(Without, m, KeysOf(m))

\* Walk w lets go of its record.
Left(m, w) ==
  IF m.at[w] = Null THEN m
  ELSE LET r == m.at[w] IN Released([m EXCEPT !.at[w] = Null], r)

\* Mutant of Moved: the list goes on behind the first record after that of w, deleted or not.
MovedOne(m, w) ==
  LET n == m.at[w] + 1
      locked == [m EXCEPT !.records[n].ref_count = @ + 1, !.at[w] = n]
  IN  IF n > Len(m.records) THEN Left(m, w)
      ELSE IF m.at[w] = Null THEN locked ELSE Released(locked, m.at[w])

\* Walk w goes on to the next record that is not empty, locks it and releases the one
\* it comes from.
Moved(m, w) ==
  LET later == {i \in m.at[w] + 1 .. Len(m.records) : ~m.records[i].empty}
      n == Min(later)
      locked == [m EXCEPT !.records[n].ref_count = @ + 1, !.at[w] = n]
  IN  IF later = {} THEN Left(m, w)
      ELSE IF m.at[w] = Null THEN locked ELSE Released(locked, m.at[w])

-----------------------------------------------------------------------------
(* Operations of the program *)

NoCall == [op |-> "none"]

Init ==
  /\ is_set \in BOOLEAN
  /\ s = Empty(Walks)
  /\ it = [i \in Iterators |-> "free"]
  /\ call = NoCall
  /\ turn = FALSE

Contents(m) ==
  LET live == Live(m)
  IN  [i \in DOMAIN live |-> [key |-> live[i].key, value |-> live[i].value]]

\* The collection becomes m; a method that is under way keeps count of its changes.
Change(m) ==
  /\ s' = m
  /\ IF call.op \in Sets /\ Contents(m) # Contents(s)
     THEN /\ call.changes < MaxChanges
          /\ call' = [call EXCEPT !.changes = @ + 1, !.start = <<>>]
     ELSE UNCHANGED call
  /\ UNCHANGED <<is_set, it, turn>>

ValuesHere == IF is_set THEN {Undefined} ELSE Values

\* js_map_set (Map.prototype.set, Set.prototype.add)
Set(k, v) == v \in ValuesHere /\ Change(Put(s, k, v))

\* js_map_getOrInsert
GetOrInsert(k, v) ==
  /\ ~is_set /\ v \in Values
  /\ Find(s, Normal(k)) = Null
  /\ Change(Added(s, Normal(k), v))

\* js_map_delete
Delete(k) == Change(Without(s, k))

\* js_map_clear
Clear == Change(Cleared(s))

\* js_create_map_iterator
CreateIterator(i) ==
  /\ it[i] = "free" /\ call.op \notin Sets
  /\ it' = [it EXCEPT ![i] = "open"]
  /\ UNCHANGED <<is_set, s, call, turn>>

\* js_map_iterator_next
IteratorNext(i) ==
  LET m == Moved(s, i) IN
  /\ it[i] = "open"
  /\ s' = m
  /\ it' = IF m.at[i] = Null THEN [it EXCEPT ![i] = "done"] ELSE it
  /\ turn' = (turn # (m.at[i] # Null))
  /\ UNCHANGED <<is_set, call>>

\* js_map_iterator_finalizer
FreeIterator(i) ==
  /\ it[i] # "free"
  /\ s' = Left(s, i)
  /\ it' = [it EXCEPT ![i] = "free"]
  /\ UNCHANGED <<is_set, call, turn>>

-----------------------------------------------------------------------------
(* js_map_forEach: a step returns from one call of the callback and goes on to *)
(* the next                                                                    *)

ForEachStep ==
  LET m == Moved(s, "call") IN
  /\ s' = m
  /\ call' = [op |-> "forEach", done |-> m.at["call"] = Null]
  /\ turn' = (turn # (m.at["call"] # Null))
  /\ UNCHANGED <<is_set, it>>

ForEach == call = NoCall /\ ForEachStep

ForEachNext == call.op = "forEach" /\ ~call.done /\ ForEachStep

\* js_map_getOrInsert with a callback, which is called now ...
GetOrInsertComputed(k) ==
  /\ call = NoCall /\ ~is_set /\ Find(s, Normal(k)) = Null
  /\ call' = [op |-> "computed", key |-> Normal(k), done |-> FALSE]
  /\ UNCHANGED <<is_set, s, it, turn>>

\* ... and returns v: what it has inserted under the key itself is deleted.
Computed(v) ==
  /\ call.op = "computed" /\ ~call.done
  /\ s' = Added(Without(s, call.key), call.key, v)
  /\ call' = [call EXCEPT !.done = TRUE]
  /\ UNCHANGED <<is_set, it, turn>>

-----------------------------------------------------------------------------
(* The methods of Set that take another set *)

Copy(m) == FoldLeft(LAMBDA t, k : Added(t, k, Undefined), Empty({}), KeysOf(m))

\* Mutant of Mode: isSubsetOf gives up on a set of the same size.
ModeStrict(op, count, size) ==
  CASE op \in {"isDisjointFrom", "intersection", "difference"} -> IF count > size THEN "keys" ELSE "self"
    [] op = "isSubsetOf" -> IF count >= size THEN "end" ELSE "self"
    [] op = "isSupersetOf" -> IF count < size THEN "end" ELSE "keys"
    [] OTHER -> "keys"

\* Whether the call goes over the keys of the other set, or over its own.
Mode(op, count, size) ==
  CASE op \in {"isDisjointFrom", "intersection", "difference"} -> IF count > size THEN "keys" ELSE "self"
    [] op = "isSubsetOf" -> IF count > size THEN "end" ELSE "self"
    [] op = "isSupersetOf" -> IF count < size THEN "end" ELSE "keys"
    [] OTHER -> "keys"

\* Bound: no iterator is in use while a method of Set is under way.
OnlyWalk == \A i \in Iterators : it[i] = "free"

\* js_set_isDisjointFrom and so on, up to the first call of the program's code
\* after js_setlike_get_props: items are the keys the other set is going to yield
\* (a set-like object may repeat some), and the number of them is its size.
Begin(op, items) ==
  LET mode == Mode(op, s.record_count, Cardinality({Normal(items[j]) : j \in DOMAIN items})) IN
  /\ call = NoCall /\ is_set /\ OnlyWalk
  /\ call' = [op |-> op, items |-> items, mode |-> mode, done |-> mode = "end",
              opened |-> FALSE, next |-> 1, key |-> Undefined, ended |-> FALSE,
              start |-> KeysOf(s), changes |-> 0,
              found |-> mode # "end" /\ op \in {"isSubsetOf", "isSupersetOf"},
              t |-> IF op \in {"symmetricDifference", "union"} THEN Copy(s) ELSE Empty({})]
  /\ UNCHANGED <<is_set, s, it, turn>>

\* The keys of the other set have been asked for.
Open ==
  /\ call.op \in Sets /\ call.mode = "keys" /\ ~call.opened
  /\ call' = [call EXCEPT !.opened = TRUE, !.t = IF call.op = "difference" THEN Copy(s) ELSE @]
  /\ UNCHANGED <<is_set, s, it, turn>>

\* What a call does with a key the other set yields: the body of the loop over its keys
\* in js_set_isDisjointFrom, js_set_isSupersetOf, js_set_intersection, js_set_difference,
\* js_set_symmetricDifference and js_set_union.
WithItem(c, k) ==
  LET here == Find(s, k) # Null
      there == Find(c.t, k) # Null
      add == [c EXCEPT !.t = Added(@, k, Undefined)]
  IN  CASE c.op \in {"isDisjointFrom", "isSupersetOf"} ->
             [c EXCEPT !.found = here, !.done = (here = (c.op = "isDisjointFrom"))]
        [] c.op = "intersection" -> IF here /\ ~there THEN add ELSE c
        [] c.op = "difference" -> [c EXCEPT !.t = Without(@, k)]
        [] c.op = "symmetricDifference" ->
             IF here THEN [c EXCEPT !.t = Without(@, k)] ELSE IF there THEN c ELSE add
        [] OTHER -> [c EXCEPT !.t = Put(@, k, Undefined)]

\* JS_IteratorNext on the keys of the other set.
YieldedKey ==
  /\ call.op \in Sets /\ call.mode = "keys" /\ call.opened /\ ~call.done
  /\ call' = IF call.next > Len(call.items) THEN [call EXCEPT !.done = TRUE]
             ELSE WithItem([call EXCEPT !.next = @ + 1], Normal(call.items[call.next]))
  /\ UNCHANGED <<is_set, s, it, turn>>

\* What a call does with the answer of the other set's has for its own key k.
WithAnswer(c, k, has) ==
  CASE c.op \in {"isDisjointFrom", "isSubsetOf"} ->
         [c EXCEPT !.found = has, !.done = (has = (c.op = "isDisjointFrom"))]
    [] OTHER -> IF has = (c.op = "intersection") /\ Find(c.t, k) = Null
                THEN [c EXCEPT !.t = Added(@, k, Undefined)] ELSE c

\* The other set's has returns, and the call goes on to its own next key: the loop of
\* js_set_isDisjointFrom, js_set_isSubsetOf, js_set_intersection and js_set_difference
\* over the records of the set itself.
Walk ==
  LET has == \E j \in DOMAIN call.items : Normal(call.items[j]) = Normal(call.key)
      c == IF call.key = Undefined THEN call ELSE WithAnswer(call, call.key, has)
      m == Moved(s, "call")
      n == m.at["call"]
  IN  /\ call.op \in Sets /\ call.mode = "self" /\ ~call.done
      /\ IF c.done
         THEN s' = Left(s, "call") /\ call' = c /\ UNCHANGED turn
         ELSE /\ s' = m
              /\ call' = [c EXCEPT !.done = (n = Null), !.ended = (n = Null),
                                   !.key = IF n = Null THEN Undefined ELSE m.records[n].key]
              /\ turn' = (turn # (n # Null))
      /\ UNCHANGED <<is_set, it>>

-----------------------------------------------------------------------------
\* The call returns its result.
Return ==
  /\ call # NoCall /\ call.done
  /\ call' = NoCall /\ UNCHANGED <<is_set, s, it, turn>>

\* The program's code throws out of the call.
Throw ==
  /\ call # NoCall /\ ~call.done
  /\ s' = Left(s, "call")
  /\ call' = NoCall /\ UNCHANGED <<is_set, it, turn>>

Items == SeqOf(Others, MaxItems)

Next ==
  \/ \E k \in Keys, v \in Values \cup {Undefined} : Set(k, v) \/ GetOrInsert(k, v)
  \/ \E k \in Keys : Delete(k) \/ GetOrInsertComputed(k)
  \/ Clear
  \/ \E i \in Iterators : CreateIterator(i) \/ IteratorNext(i) \/ FreeIterator(i)
  \/ ForEach \/ ForEachNext
  \/ \E v \in Values : Computed(v)
  \/ \E op \in Sets, items \in Items : Begin(op, items)
  \/ Open \/ YieldedKey \/ Walk
  \/ Return \/ Throw

Spec == Init /\ [][Next]_vars

-----------------------------------------------------------------------------
(* Properties *)

\* The list, the hash table and the count of a collection agree.
WellFormed(m) ==
  /\ m.record_count = Len(Live(m))
  /\ IsInjective(KeysOf(m))
  /\ \A k \in Keys, h \in DOMAIN m.table :
       Cardinality({i \in DOMAIN m.table[h] : m.table[h][i] = k})
         = IF Contains(KeysOf(m), k) /\ h = Bucket(m, k) THEN 1 ELSE 0

\* A record stays allocated while a walk is at it, and no longer: the collection and
\* every walk at a record hold one reference each ("the current element is locked",
\* "keep a zombie record for iterators"), and the hash table leads to the records that
\* are not deleted and to nothing else.
Consistent ==
  /\ WellFormed(s)
  /\ \A w \in Walks : s.at[w] \in DOMAIN s.records \cup {Null}
  /\ \A r \in DOMAIN s.records :
       s.records[r].ref_count = Cardinality({w \in Walks : s.at[w] = r})
                                  + (IF s.records[r].empty THEN 0 ELSE 1)
  /\ call.op \in Sets => WellFormed(call.t)

\* How many entries walk w has passed.
Position(w) == Cardinality({i \in 1 .. s.at[w] : ~s.records[i].empty})

Passed ==
  [w \in Walks |->
     CASE s.at[w] # Null -> Position(w)
       [] w \in Iterators -> (CASE it[w] = "open" -> 0 [] it[w] = "done" -> -2 [] OTHER -> -1)
       [] call.op = "forEach" \/ (call.op \in Sets /\ call.ended) -> -2
       [] OTHER -> -1]

Ordered == INSTANCE OrderedMap WITH
  entries <- Contents(s), passed <- Passed, Values <- Values \cup {Undefined}

\* The keys of the other set, as a set and in the order in which they come first.
Other == {Normal(call.items[j]) : j \in DOMAIN call.items}
Given == FoldLeft(LAMBDA seen, k : IF Contains(seen, Normal(k)) THEN seen ELSE Append(seen, Normal(k)),
                  <<>>, call.items)

\* A method of Set that takes another set computes what its name says, in the order
\* that the specification of the language gives the result, whichever of the two sets
\* it goes over, if the program leaves this one alone.
SetMethodExact ==
  call.op \in Sets /\ call.done /\ call.changes = 0 =>
    LET Own == ToSet(call.start)
        Part(a, B) == SelectSeq(a, LAMBDA k : k \in B)
    IN  CASE call.op = "isDisjointFrom" -> call.found = (Own \cap Other # {})
          [] call.op = "isSubsetOf" -> call.found = (Own \subseteq Other)
          [] call.op = "isSupersetOf" -> call.found = (Other \subseteq Own)
          [] call.op = "intersection" ->
               KeysOf(call.t) = IF call.mode = "keys" THEN Part(Given, Own) ELSE Part(call.start, Other)
          [] call.op = "difference" -> KeysOf(call.t) = Part(call.start, Own \ Other)
          [] call.op = "symmetricDifference" ->
               KeysOf(call.t) = Part(call.start, Own \ Other) \o Part(Given, Other \ Own)
          [] OTHER -> KeysOf(call.t) = call.start \o Part(Given, Other \ Own)
=============================================================================
