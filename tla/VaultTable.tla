----------------------------- MODULE VaultTable -----------------------------
(***************************************************************************)
(* The storage of a Vault (code_cache.c): an open-addressed table with     *)
(* linear probing and tombstones, the byte and entry budgets, the weighted *)
(* ageing that picks what is evicted, and the accounting.                  *)
(*                                                                         *)
(* Function entries are placed by their key's hash; continuation entries   *)
(* have no key and take the first slot that is not live.  The native code  *)
(* an entry owns is abstracted to its size, in blocks of 16 KB.            *)
(***************************************************************************)
EXTENDS Integers, FiniteSets

CONSTANTS
  Keys,          \* cache keys
  Conts,         \* continuation identities
  Home,          \* Home[k]: key_hash(k) & (slot_count - 1)
  SlotCount,     \* slot_count; next_pow2 makes it at least 2 * MaxEntries
  MaxEntries,    \* maximum_entries
  MaxBytes,      \* maximum_code_bytes, in blocks
  Sizes,         \* code sizes, in blocks
  Null,          \* no key, no continuation
  AllocMayFail,  \* whether register_entry_dependencies may fail
  MaxClock       \* bound: the clock stops here

Slots == 0 .. SlotCount - 1

ASSUME TableAssumption ==
  /\ SlotCount \in Nat /\ MaxEntries \in Nat \ {0} /\ SlotCount >= 2 * MaxEntries
  /\ Home \in [Keys -> Slots]
  /\ MaxBytes \in Nat /\ Sizes \subseteq Nat
  /\ Null \notin Keys \cup Conts /\ Keys \cap Conts = {}
  /\ AllocMayFail \in BOOLEAN /\ MaxClock \in Nat

VARIABLES
  slot,       \* slot[i]: the entry in slot i
  clock,      \* the logical time of the last access
  count,      \* live entries
  bytes,      \* code_bytes: their total size
  contCount,  \* stats.continuation_entry_count
  contBytes   \* stats.continuation_code_bytes

vars == <<slot, clock, count, bytes, contCount, contBytes>>

Blank(s) ==
  [state |-> s, key |-> Null, cont |-> Null, size |-> 0, stamp |-> 0, hits |-> 0]

Init ==
  /\ slot = [i \in Slots |-> Blank("empty")]
  /\ clock = 0 /\ count = 0 /\ bytes = 0
  /\ contCount = 0 /\ contBytes = 0

-----------------------------------------------------------------------------
(* Probing *)

None == SlotCount  \* SIZE_MAX

\* How many probes find_slot makes before it looks at slot i.
Dist(k, i) == IF i >= Home[k] THEN i - Home[k] ELSE i + SlotCount - Home[k]

FirstOf(k, S) == CHOOSE i \in S : \A j \in S : Dist(k, i) <= Dist(k, j)

\* Where a probe for k ends: an empty slot or the entry of k.
Ends(t, k) ==
  {i \in Slots : t[i].state = "empty" \/ (t[i].state = "live" /\ t[i].key = k)}

\* The tombstones a probe for k passes.
Tombstones(t, k) ==
  {i \in Slots : /\ t[i].state = "tombstone"
                 /\ \A j \in Ends(t, k) : Dist(k, i) < Dist(k, j)}

\* find_slot(cache, key, 0)
FindSlot(t, k) == IF Ends(t, k) = {} THEN None ELSE FirstOf(k, Ends(t, k))

\* Mutant of FindForInsert: tombstones are not reused.
FindForInsertFresh(t, k) == FindSlot(t, k)

\* find_slot(cache, key, 1): the first tombstone passed is preferred to the
\* empty slot that ends the probe.
FindForInsert(t, k) ==
  LET i == FindSlot(t, k) IN
  IF Tombstones(t, k) # {} /\ (i = None \/ t[i].state = "empty")
  THEN FirstOf(k, Tombstones(t, k)) ELSE i

Live(t) == {i \in Slots : t[i].state = "live"}
Found(t, k) == FindSlot(t, k) # None /\ t[FindSlot(t, k)].state = "live"

\* find_continuation_entry
ContSlot(t, c) == {i \in Live(t) : t[i].cont = c}

\* The slot TurboJS_CodeCacheStoreContinuation takes.
FirstFree(t) ==
  LET free == Slots \ Live(t) IN
  IF free = {} THEN None ELSE CHOOSE i \in free : \A j \in free : i <= j

-----------------------------------------------------------------------------
(* Ageing *)

\* The blocks of native code that the entries in S own, and how many there are.
Blocks(t, S) == UNION {{i} \X (1 .. t[i].size) : i \in S}
SizeOf(t, S) == Cardinality(Blocks(t, S))

Smaller(a, b) == IF a < b THEN a ELSE b

\* eviction_score
Score(i) ==
  LET e == slot[i]
      retention == IF e.cont # Null THEN 4 + Smaller(e.hits, 12)
                                    ELSE 1 + Smaller(e.hits, 3)
  IN  ((clock - e.stamp + 1) * (1 + e.size) * 1024) \div retention

\* The live entries evict_lru would choose before i.
Worse(i) ==
  {j \in Live(slot) : \/ Score(j) > Score(i)
                      \/ Score(j) = Score(i) /\ slot[j].stamp < slot[i].stamp}

\* Mutant of Fits: one entry too many.
FitsOneMore(n, b, size) == n <= MaxEntries /\ size <= MaxBytes - b

Fits(n, b, size) == n < MaxEntries /\ size <= MaxBytes - b

\* The entries the loop of Compile and StoreContinuation evicts.  A removal
\* changes neither the clock nor another entry, so the loop takes entries in
\* the order of their scores until the new code fits.
Victims(size) ==
  {i \in Live(slot) :
     ~Fits(count - Cardinality(Worse(i)), bytes - SizeOf(slot, Worse(i)), size)}

-----------------------------------------------------------------------------
(* Removal and insertion *)

\* Mutant of Tombed: a removed entry leaves an empty slot.
TombedEmpty(t, S) == [i \in Slots |-> IF i \in S THEN Blank("empty") ELSE t[i]]

\* remove_slot for the live slots of S: the slot becomes a tombstone.
Tombed(t, S) == [i \in Slots |-> IF i \in S THEN Blank("tombstone") ELSE t[i]]

Deducted(total, n) == IF total >= n THEN total - n ELSE 0

\* Mutant of Removed: the bytes stay accounted for.
RemovedKeepsBytes(t, S) ==
  [slot |-> Tombed(t.slot, S), count |-> t.count - Cardinality(S),
   bytes |-> t.bytes, contCount |-> t.contCount, contBytes |-> t.contBytes]

\* The accounting of remove_slot for the live slots of S.
Removed(t, S) ==
  LET C == {i \in S : t.slot[i].cont # Null} IN
  [slot |-> Tombed(t.slot, S), count |-> t.count - Cardinality(S),
   bytes |-> t.bytes - SizeOf(t.slot, S),
   contCount |-> Deducted(t.contCount, Cardinality(C)),
   contBytes |-> Deducted(t.contBytes, SizeOf(t.slot, C))]

Table == [slot |-> slot, count |-> count, bytes |-> bytes,
          contCount |-> contCount, contBytes |-> contBytes]

Commit(t) ==
  /\ slot' = t.slot /\ count' = t.count /\ bytes' = t.bytes
  /\ contCount' = t.contCount /\ contBytes' = t.contBytes

Touched(e) ==
  [state |-> e.state, key |-> e.key, cont |-> e.cont, size |-> e.size,
   stamp |-> clock + 1, hits |-> e.hits + 1]

\* touch_entry
Touch(i) ==
  /\ slot' = [slot EXCEPT ![i] = Touched(slot[i])]
  /\ clock' = clock + 1
  /\ UNCHANGED <<count, bytes, contCount, contBytes>>

\* t with e in slot i; n: how many continuations this adds to the statistics.
Filled(t, i, e, n) ==
  [slot |-> [t.slot EXCEPT ![i] = e], count |-> t.count + 1,
   bytes |-> t.bytes + e.size,
   contCount |-> t.contCount + n, contBytes |-> t.contBytes + n * e.size]

\* The tail of Compile and StoreContinuation: e goes into slot i of t, and
\* comes out again when its call sites cannot be indexed; a continuation is
\* counted only after that.
Place(t, i, e, failed) ==
  /\ Commit(IF failed THEN Removed(Filled(t, i, e, 0), {i})
            ELSE Filled(t, i, e, IF e.cont = Null THEN 0 ELSE 1))
  /\ clock' = clock + 1

NewEntry(k, c, size) ==
  [state |-> "live", key |-> k, cont |-> c, size |-> size,
   stamp |-> clock + 1, hits |-> 1]

-----------------------------------------------------------------------------
(* Actions *)

\* TurboJS_CodeCacheLookup (a miss changes only statistics).
Lookup(k) ==
  /\ clock < MaxClock
  /\ Found(slot, k)
  /\ Touch(FindSlot(slot, k))

\* TurboJS_CodeCacheLookupContinuation
LookupContinuation(c) ==
  /\ clock < MaxClock
  /\ \E i \in ContSlot(slot, c) : Touch(i)

\* TurboJS_CodeCacheCompile with native code of the given size.  Code that is
\* larger than the whole budget is refused before anything is evicted; when
\* the loop or the probe finds no place the evictions have still happened.
Compile(k, size) ==
  /\ clock < MaxClock
  /\ IF Found(slot, k) THEN Touch(FindSlot(slot, k))
     ELSE /\ size <= MaxBytes
          /\ LET t == Removed(Table, Victims(size))
                 i == FindForInsert(t.slot, k)
             IN  IF Fits(t.count, t.bytes, size) /\ i # None
                 THEN \E failed \in {FALSE, AllocMayFail} :
                        Place(t, i, NewEntry(k, Null, size), failed)
                 ELSE Commit(t) /\ UNCHANGED clock

\* TurboJS_CodeCacheStoreContinuation
StoreContinuation(c, size) ==
  /\ clock < MaxClock
  /\ IF ContSlot(slot, c) # {} THEN \E i \in ContSlot(slot, c) : Touch(i)
     ELSE /\ size <= MaxBytes
          /\ LET t == Removed(Table, Victims(size))
                 i == FirstFree(t.slot)
             IN  IF Fits(t.count, t.bytes, size) /\ i # None
                 THEN \E failed \in {FALSE, AllocMayFail} :
                        Place(t, i, NewEntry(Null, c, size), failed)
                 ELSE Commit(t) /\ UNCHANGED clock

\* TurboJS_CodeCacheInvalidate
Invalidate(k) ==
  /\ Found(slot, k)
  /\ Commit(Removed(Table, {FindSlot(slot, k)}))
  /\ UNCHANGED clock

\* TurboJS_CodeCacheClear: the tombstones go too; the continuation statistics
\* are what remove_slot leaves.
Clear ==
  /\ LET t == Removed(Table, Live(slot)) IN
     /\ slot' = [i \in Slots |-> Blank("empty")]
     /\ count' = 0 /\ bytes' = 0
     /\ contCount' = t.contCount /\ contBytes' = t.contBytes
  /\ UNCHANGED clock

Next ==
  \/ \E k \in Keys : Lookup(k) \/ Invalidate(k) \/ \E s \in Sizes : Compile(k, s)
  \/ \E c \in Conts : LookupContinuation(c) \/ \E s \in Sizes : StoreContinuation(c, s)
  \/ Clear

Spec == Init /\ [][Next]_vars

-----------------------------------------------------------------------------
(* Properties *)

\* Every component has its type; slots that are not live are blank.
TypeOK ==
  /\ slot \in [Slots -> [state: {"empty", "live", "tombstone"},
                         key: Keys \cup {Null}, cont: Conts \cup {Null},
                         size: Nat, stamp: Nat, hits: Nat]]
  /\ clock \in Nat /\ count \in Int /\ bytes \in Int
  /\ contCount \in Nat /\ contBytes \in Nat

\* A probe finds the entry of every key that has one, past any number of
\* tombstones and continuation entries, and no key is stored twice.
ProbeFindsLive ==
  \A k \in Keys, i \in Live(slot) : slot[i].key = k => FindSlot(slot, k) = i

\* Every live entry is a function or a continuation, and no continuation is
\* stored twice.
OneKindEach ==
  \A i, j \in Live(slot) :
    /\ (slot[i].key = Null) # (slot[i].cont = Null)
    /\ slot[i].cont # Null /\ slot[i].cont = slot[j].cont => i = j

\* count is exact and within the budget, so that the decrement in remove_slot
\* never wraps.
EntryBudget == count = Cardinality(Live(slot)) /\ count <= MaxEntries

\* code_bytes is exact and within the budget, so that neither the subtraction
\* in remove_slot nor maximum_code_bytes - code_bytes wraps.
ByteBudget == bytes = SizeOf(slot, Live(slot)) /\ bytes <= MaxBytes

\* While the entry budget is not exhausted every insertion has a slot to go to,
\* even when tombstones have used up the last empty slot.
SlotForInsert ==
  count < MaxEntries =>
    FirstFree(slot) # None /\ \A k \in Keys : FindForInsert(slot, k) # None

\* The continuation statistics never report more than is cached, and are exact
\* while edges can be allocated: a continuation that is taken out again before it
\* was counted makes them fall behind, never wrap.
ContinuationStats ==
  LET C == {i \in Live(slot) : slot[i].cont # Null} IN
  /\ contCount <= Cardinality(C) /\ contBytes <= SizeOf(slot, C)
  /\ ~AllocMayFail => contCount = Cardinality(C) /\ contBytes = SizeOf(slot, C)

\* The counters that the unsigned subtractions of remove_slot and of the budget
\* tests rely on.
Accounting == EntryBudget /\ ByteBudget /\ ContinuationStats

\* Code that fits the budget is never refused for want of a place: eviction makes
\* room and a probe finds a slot, however many tombstones there are.
FittingCodeCached ==
  \A s \in Sizes : s <= MaxBytes =>
    LET t == Removed(Table, Victims(s)) IN
    /\ Fits(t.count, t.bytes, s) /\ FirstFree(t.slot) # None
    /\ \A k \in Keys : Found(slot, k) \/ FindForInsert(t.slot, k) # None

\* The clock orders accesses: no two live entries have the same stamp, which
\* is what makes the choice of a victim unambiguous.
StampsUnique ==
  \A i, j \in Live(slot) : slot[i].stamp = slot[j].stamp => i = j

\* The table is well formed: every live entry has one name and one stamp, and the
\* counters agree with the entries.
Consistent == TypeOK /\ OneKindEach /\ StampsUnique /\ Accounting

\* The table implements the bounded map that Vault.tla assumes.
Map == INSTANCE VaultMap WITH
  Items <- Keys \cup Conts,
  held <- {IF slot[i].cont = Null THEN slot[i].key ELSE slot[i].cont : i \in Live(slot)}

ImplementsMap == Map!Spec
=============================================================================
