-------------------------- MODULE VaultTableProofs --------------------------
(***************************************************************************)
(* Proofs about VaultTable, for every table size, hash function and        *)
(* sequence of operations: a probe finds every live key, the counters are  *)
(* exact and within the budgets, code that fits is never refused, and the  *)
(* table implements VaultMap.                                              *)
(***************************************************************************)
EXTENDS VaultTable, FiniteSetTheorems, WellFoundedInduction, TLAPS

(* The slots *)

\* A nonempty set of naturals has a least member.
LEMMA LeastNatural ==
  ASSUME NEW S, S \subseteq Nat, S # {}
  PROVE  \E d \in S : \A e \in S : d <= e
<1>1. PICK d \in S : \A e \in S : ~(<<e, d>> \in OpToRel(<, Nat))
  BY WFMin, NatLessThanWellFounded, ZenonT(60)
<1>2. ASSUME NEW e \in S, e < d  PROVE FALSE
  <2>1. <<e, d>> \in Nat \X Nat
    OBVIOUS
  <2>2. <<e, d>>[1] < <<e, d>>[2]
    BY <1>2
  <2>3. <<e, d>> \in OpToRel(<, Nat)
    BY <2>1, <2>2, ZenonT(60) DEF OpToRel
  <2> QED  BY <1>1, <2>3, ZenonT(60)
<1> QED
  BY <1>2, SMTT(60)

LEMMA SlotsFinite == IsFiniteSet(Slots)
  BY FS_Interval, TableAssumption DEF Slots

\* Different slots are probed at different distances.
LEMMA DistDiffers ==
  ASSUME NEW k \in Keys, NEW i \in Slots, NEW j \in Slots, Dist(k, i) = Dist(k, j)
  PROVE  i = j
  BY TableAssumption DEF Dist, Slots

LEMMA DistNat ==
  ASSUME NEW k \in Keys, NEW i \in Slots
  PROVE  Dist(k, i) \in Nat
  BY TableAssumption DEF Dist, Slots

\* A nonempty set of slots has one that a probe reaches first.
LEMMA FirstExists ==
  ASSUME NEW k \in Keys, NEW S, S \subseteq Slots, S # {}
  PROVE  /\ FirstOf(k, S) \in S
         /\ \A j \in S : Dist(k, FirstOf(k, S)) <= Dist(k, j)
<1> DEFINE D == {Dist(k, j) : j \in S}
<1>1. D \subseteq Nat /\ D # {}
  BY DistNat
<1>2. PICK d \in D : \A e \in D : d <= e
  <2> HIDE DEF D
  <2> QED  BY <1>1, LeastNatural, ZenonT(60)
<1>3. \E i \in S : \A j \in S : Dist(k, i) <= Dist(k, j)
  BY <1>2
<1> QED
  BY <1>3 DEF FirstOf

-----------------------------------------------------------------------------
(* The inductive invariant *)

Entries == [state: {"empty", "live", "tombstone"},
            key: Keys \cup {Null}, cont: Conts \cup {Null},
            size: Nat, stamp: Nat, hits: Nat]

\* No probe for the key of a live entry stops before it reaches the entry.
Reached(t) ==
  \A i \in Live(t) : t[i].key # Null =>
    \A j \in Slots : Dist(t[i].key, j) < Dist(t[i].key, i) =>
      t[j].state # "empty" /\ (t[j].state = "live" => t[j].key # t[i].key)

\* An entry is a function or a continuation, and each continuation has one.
Kinds(t) ==
  \A i, j \in Live(t) :
    /\ (t[i].key = Null) # (t[i].cont = Null)
    /\ t[i].cont # Null /\ t[i].cont = t[j].cont => i = j

Good(t) == t \in [Slots -> Entries] /\ Reached(t) /\ Kinds(t)

ContsOf(t) == {i \in Live(t) : t[i].cont # Null}

\* The byte and continuation counters of table t agree with its entries.
Summed(t) ==
  /\ t.bytes = SizeOf(t.slot, Live(t.slot)) /\ t.bytes <= MaxBytes
  /\ t.contCount \in Nat /\ t.contCount <= Cardinality(ContsOf(t.slot))
  /\ t.contBytes \in Nat /\ t.contBytes <= SizeOf(t.slot, ContsOf(t.slot))
  /\ ~AllocMayFail => /\ t.contCount = Cardinality(ContsOf(t.slot))
                      /\ t.contBytes = SizeOf(t.slot, ContsOf(t.slot))

\* Every access has a time of its own, at most c.
Stamped(t, c) ==
  \A i, j \in Live(t) : t[i].stamp <= c /\ (t[i].stamp = t[j].stamp => i = j)

Inv ==
  /\ Good(slot) /\ clock \in Nat /\ EntryBudget
  /\ Summed(Table) /\ Stamped(slot, clock)

\* What the invariant says of a table that is not yet the cache's, at time c.
Counted(t, c) ==
  /\ Good(t.slot) /\ t.count = Cardinality(Live(t.slot)) /\ t.count <= MaxEntries
  /\ Summed(t) /\ Stamped(t.slot, c)

LEMMA LiveFinite ==
  ASSUME NEW t
  PROVE  IsFiniteSet(Live(t)) /\ Cardinality(Live(t)) \in Nat
  BY SlotsFinite, FS_Subset, FS_CardinalityType DEF Live

\* In a good table a probe for k ends at the entry of k.
LEMMA ProbeFinds ==
  ASSUME NEW t, Good(t), NEW k \in Keys, NEW i \in Live(t), t[i].key = k
  PROVE  FindSlot(t, k) = i
<1> DEFINE f == FirstOf(k, Ends(t, k))
<1>1. i \in Ends(t, k) /\ i \in Slots /\ Ends(t, k) \subseteq Slots
  BY DEF Ends, Live
<1>2. f \in Ends(t, k) /\ Dist(k, f) <= Dist(k, i)
  <2> HIDE DEF f
  <2> QED  BY <1>1, FirstExists DEF f
<1>3. ~(Dist(k, f) < Dist(k, i))
  <2>1. k # Null
    BY TableAssumption, SMTT(60)
  <2>2. t[f].state = "empty" \/ (t[f].state = "live" /\ t[f].key = k)
    BY <1>2 DEF Ends
  <2> HIDE DEF f
  <2> QED  BY <1>1, <1>2, <2>1, <2>2, SMTT(60) DEF Good, Reached
<1>4. f = i
  <2> HIDE DEF f
  <2> QED  BY <1>1, <1>2, <1>3, DistNat, DistDiffers, SMTT(60)
<1> QED
  BY <1>1, <1>4 DEF FindSlot

\* A key that is not found has no entry.
LEMMA NotFoundAbsent ==
  ASSUME NEW t, Good(t), NEW k \in Keys, ~Found(t, k)
  PROVE  \A i \in Live(t) : t[i].key # k
<1>1. SUFFICES ASSUME NEW i \in Live(t), t[i].key = k  PROVE FALSE
  OBVIOUS
<1>2. FindSlot(t, k) = i
  BY <1>1, ProbeFinds
<1>3. i # None /\ t[i].state = "live"
  BY TableAssumption DEF Live, Slots, None
<1> QED
  BY <1>2, <1>3, SMTT(60) DEF Found

\* A found slot is the entry of the key.
LEMMA FoundIsEntry ==
  ASSUME NEW t, NEW k \in Keys, Found(t, k)
  PROVE  FindSlot(t, k) \in Live(t) /\ t[FindSlot(t, k)].key = k
<1>1. Ends(t, k) # {} /\ Ends(t, k) \subseteq Slots
  BY DEF Found, FindSlot, Ends
<1>2. FindSlot(t, k) \in Ends(t, k)
  BY <1>1, FirstExists DEF FindSlot
<1> QED
  BY <1>2, SMTT(60) DEF Found, Ends, Live

-----------------------------------------------------------------------------
(* What the operations do to a good table *)

LEMMA TombedGood ==
  ASSUME NEW t, Good(t), NEW S
  PROVE  Good(Tombed(t, S)) /\ Live(Tombed(t, S)) = Live(t) \ S
<1> DEFINE u == Tombed(t, S)
<1>1. u \in [Slots -> Entries]
  BY DEF Good, Tombed, Blank, Entries
<1>2. \A i \in Slots : u[i] = IF i \in S THEN Blank("tombstone") ELSE t[i]
  BY DEF Tombed
<1>3. \A i \in Slots : i \in S => u[i].state = "tombstone"
  BY <1>2 DEF Blank
<1> HIDE DEF u
<1>4. Live(u) = Live(t) \ S
  BY <1>2, <1>3 DEF Live
<1>5. \A i \in Live(u) : u[i] = t[i] /\ i \in Live(t) /\ i \in Slots
  BY <1>2, <1>4, SMTT(60) DEF Live
<1>6. Reached(u)
  <2>1. SUFFICES ASSUME NEW i \in Live(u), u[i].key # Null, NEW j \in Slots,
                        Dist(u[i].key, j) < Dist(u[i].key, i)
                 PROVE  u[j].state # "empty" /\ (u[j].state = "live" => u[j].key # u[i].key)
    BY DEF Reached
  <2>2. t[j].state # "empty" /\ (t[j].state = "live" => t[j].key # t[i].key)
    BY <1>5, <2>1 DEF Good, Reached
  <2> QED  BY <1>2, <1>3, <1>5, <2>2, SMTT(60)
<1>7. Kinds(u)
  BY <1>5 DEF Good, Kinds
<1> QED
  BY <1>1, <1>4, <1>6, <1>7, SMTT(60) DEF Good, u

\* Overwriting a slot with an entry of the same state, key and continuation.
LEMMA SameGood ==
  ASSUME NEW t, Good(t), NEW u \in [Slots -> Entries],
         \A i \in Slots : u[i].state = t[i].state /\ u[i].key = t[i].key /\ u[i].cont = t[i].cont
  PROVE  Good(u) /\ Live(u) = Live(t)
<1>1. Live(u) = Live(t) /\ Live(t) \subseteq Slots
  BY DEF Live
<1>2. Reached(u)
  BY <1>1, SMTT(60) DEF Good, Reached
<1>3. Kinds(u)
  BY <1>1, SMTT(60) DEF Good, Kinds
<1> QED
  BY <1>1, <1>2, <1>3 DEF Good

\* What the first probe for an absent key finds is not live, and nothing a
\* probe passes on the way there is empty.
LEMMA InsertSlot ==
  ASSUME NEW t, NEW k \in Keys, \A i \in Live(t) : t[i].key # k,
         t \in [Slots -> Entries],
         FindForInsert(t, k) # None
  PROVE  LET f == FindForInsert(t, k) IN
         /\ f \in Slots \ Live(t)
         /\ \A j \in Slots : Dist(k, j) < Dist(k, f) => t[j].state # "empty"
<1> DEFINE T == Tombstones(t, k)
           E == Ends(t, k)
           f == FindForInsert(t, k)
<1>1. T \subseteq Slots /\ E \subseteq Slots
  BY DEF Tombstones, Ends
<1>2. \A i \in E : t[i].state = "empty"
  BY DEF Ends, Live
<1>3. CASE T # {} /\ (FindSlot(t, k) = None \/ t[FindSlot(t, k)].state = "empty")
  <2>1. f = FirstOf(k, T)
    BY <1>3, SMTT(60) DEF FindForInsert
  <2>2. f \in T
    <3> HIDE DEF T
    <3> QED  BY <1>1, <1>3, <2>1, FirstExists, SMTT(60)
  <2>3. f \in Slots /\ t[f].state = "tombstone" /\ \A j \in E : Dist(k, f) < Dist(k, j)
    BY <2>2 DEF Tombstones
  <2>4. \A j \in Slots : t[j].state = "empty" => j \in E
    BY DEF Ends
  <2> HIDE DEF f, E, T
  <2>5. \A j \in Slots : Dist(k, j) < Dist(k, f) => t[j].state # "empty"
    BY <2>3, <2>4, DistNat, SMTT(60)
  <2> QED  BY <2>3, <2>5 DEF Live, f
<1>4. CASE ~(T # {} /\ (FindSlot(t, k) = None \/ t[FindSlot(t, k)].state = "empty"))
  <2>1. f = FindSlot(t, k)
    BY <1>4 DEF FindForInsert
  <2>2. E # {} /\ f = FirstOf(k, E)
    BY <2>1 DEF FindSlot
  <2> HIDE DEF f, E, T
  <2>3. f \in E /\ \A j \in E : Dist(k, f) <= Dist(k, j)
    BY <1>1, <2>2, FirstExists, SMTT(60)
  <2>4. \A j \in Slots : t[j].state = "empty" => j \in E
    BY DEF Ends, E
  <2>5. \A j \in Slots : Dist(k, j) < Dist(k, f) => t[j].state # "empty"
    BY <1>1, <2>3, <2>4, DistNat, SMTT(60)
  <2> QED  BY <1>1, <1>2, <2>3, <2>5, SMTT(60) DEF Live, f
<1> QED
  BY <1>3, <1>4, SMTT(60)

\* A new entry in a slot that is not live: a function entry where the probe for
\* its key ends, or a continuation anywhere.
LEMMA FilledGood ==
  ASSUME NEW t, Good(t), NEW i \in Slots \ Live(t), NEW e \in Entries,
         e.state = "live",
         (e.key = Null) # (e.cont = Null),
         e.key # Null =>
           /\ \A j \in Live(t) : t[j].key # e.key
           /\ \A j \in Slots : Dist(e.key, j) < Dist(e.key, i) => t[j].state # "empty",
         e.cont # Null => \A j \in Live(t) : t[j].cont # e.cont
  PROVE  /\ Good([t EXCEPT ![i] = e])
         /\ Live([t EXCEPT ![i] = e]) = Live(t) \cup {i}
<1> DEFINE u == [t EXCEPT ![i] = e]
<1>1. u \in [Slots -> Entries]
  BY DEF Good
<1>2. u[i] = e /\ \A j \in Slots : j # i => u[j] = t[j]
  BY DEF Good
<1> HIDE DEF u
<1>3. Live(u) = Live(t) \cup {i}
  BY <1>2, SMTT(60) DEF Live
<1>4. Reached(u)
  <2>1. SUFFICES ASSUME NEW a \in Live(u), u[a].key # Null, NEW j \in Slots,
                        Dist(u[a].key, j) < Dist(u[a].key, a)
                 PROVE  u[j].state # "empty" /\ (u[j].state = "live" => u[j].key # u[a].key)
    BY DEF Reached
  <2>2. u[a].key \in Keys /\ a \in Slots
    BY <1>1, <2>1, SMTT(60) DEF Entries, Live
  <2>3. j # a
    BY <2>1, <2>2, DistNat, SMTT(60)
  <2>4. CASE a = i
    <3>1. t[j].state # "empty" /\ u[j] = t[j]
      BY <1>2, <2>1, <2>3, <2>4, SMTT(60)
    <3>2. u[j].state = "live" => j \in Live(t)
      BY <3>1, SMTT(60) DEF Live
    <3> QED  BY <1>2, <2>1, <2>4, <3>1, <3>2, SMTT(60)
  <2>5. CASE a # i
    <3>1. a \in Live(t) /\ u[a] = t[a]
      BY <1>2, <1>3, <2>2, <2>5, SMTT(60)
    <3>2. t[j].state # "empty" /\ (t[j].state = "live" => t[j].key # t[a].key)
      BY <2>1, <3>1, SMTT(60) DEF Good, Reached
    <3> QED  BY <1>2, <2>1, <3>1, <3>2, SMTT(60)
  <2> QED  BY <2>4, <2>5, SMTT(60)
<1>5. Kinds(u)
  <2>1. \A a \in Live(u) : a = i \/ (a \in Live(t) /\ u[a] = t[a])
    BY <1>2, <1>3 DEF Live
  <2> QED  BY <1>2, <2>1, SMTT(60) DEF Good, Kinds
<1> QED
  BY <1>1, <1>3, <1>4, <1>5, ZenonT(60) DEF Good, u

\* While a slot is not live an insertion finds a place.
LEMMA InsertFindsSlot ==
  ASSUME NEW t \in [Slots -> Entries], NEW k \in Keys, Live(t) # Slots
  PROVE  FindForInsert(t, k) # None
<1>1. None \notin Slots
  BY TableAssumption DEF None, Slots
<1>2. PICK i \in Slots : t[i].state = "empty" \/ t[i].state = "tombstone"
  BY SMTT(60) DEF Live, Entries
<1>3. CASE Ends(t, k) = {}
  <2>1. i \in Tombstones(t, k)
    BY <1>2, <1>3 DEF Tombstones, Ends
  <2>2. Tombstones(t, k) \subseteq Slots
    BY DEF Tombstones
  <2>3. FirstOf(k, Tombstones(t, k)) \in Slots
    BY <2>1, <2>2, FirstExists, SMTT(60)
  <2> QED  BY <1>1, <1>3, <2>1, <2>3, SMTT(60) DEF FindForInsert, FindSlot
<1>4. CASE Ends(t, k) # {}
  <2>1. Ends(t, k) \subseteq Slots /\ Tombstones(t, k) \subseteq Slots
    BY DEF Ends, Tombstones
  <2>2. FindSlot(t, k) \in Slots
    BY <1>4, <2>1, FirstExists, SMTT(60) DEF FindSlot
  <2>3. Tombstones(t, k) # {} => FirstOf(k, Tombstones(t, k)) \in Slots
    BY <2>1, FirstExists, SMTT(60)
  <2> QED  BY <1>1, <2>2, <2>3, SMTT(60) DEF FindForInsert
<1> QED
  BY <1>3, <1>4, SMTT(60)

LEMMA FirstFreeSlot ==
  ASSUME NEW t
  PROVE  /\ FirstFree(t) # None => FirstFree(t) \in Slots \ Live(t)
         /\ Live(t) # Slots => FirstFree(t) # None
<1> DEFINE free == Slots \ Live(t)
<1>1. CASE free = {}
  BY <1>1 DEF FirstFree, Live
<1>2. CASE free # {}
  <2>1. \E i \in free : \A j \in free : i <= j
    <3>1. free \subseteq Nat
      BY TableAssumption DEF Slots
    <3> HIDE DEF free
    <3> QED  BY <1>2, <3>1, LeastNatural, ZenonT(60)
  <2>2. FirstFree(t) = CHOOSE i \in free : \A j \in free : i <= j
    BY <1>2 DEF FirstFree
  <2>3. FirstFree(t) \in free
    <3> HIDE DEF free
    <3> QED  BY <2>1, <2>2, SMTT(60)
  <2> QED  BY <2>3, TableAssumption DEF Slots, None
<1> QED
  BY <1>1, <1>2, SMTT(60)

-----------------------------------------------------------------------------
(* How much code a set of slots owns *)

LEMMA BlocksFinite ==
  ASSUME NEW t \in [Slots -> Entries], NEW S, S \subseteq Slots
  PROVE  IsFiniteSet(Blocks(t, S)) /\ SizeOf(t, S) \in Nat
<1> DEFINE f == [i \in S |-> {i} \X (1 .. t[i].size)]
           R == {{i} \X (1 .. t[i].size) : i \in S}
<1>1. IsFiniteSet(S)
  BY SlotsFinite, FS_Subset
<1>2. f \in Surjection(S, R)
  BY DEF Surjection
<1>3. \A T \in R : IsFiniteSet(T)
  <2>1. SUFFICES ASSUME NEW i \in S  PROVE IsFiniteSet({i} \X (1 .. t[i].size))
    OBVIOUS
  <2>2. t[i].size \in Nat
    BY DEF Entries
  <2>3. IsFiniteSet(1 .. t[i].size)
    BY <2>2, FS_Interval
  <2>4. IsFiniteSet({i})
    BY FS_Singleton, Zenon
  <2> QED  BY <2>3, <2>4, FS_Product, Zenon
<1> HIDE DEF f, R
<1>4. IsFiniteSet(R)
  BY <1>1, <1>2, FS_Surjection
<1>5. IsFiniteSet(UNION R)
  BY <1>3, <1>4, FS_UNION
<1> QED
  BY <1>5, FS_CardinalityType DEF Blocks, SizeOf, R

\* What a slot owns is its size.
LEMMA SizeOfOne ==
  ASSUME NEW t \in [Slots -> Entries], NEW i \in Slots
  PROVE  SizeOf(t, {i}) = t[i].size
<1> DEFINE n == t[i].size
<1>1. n \in Nat
  BY DEF Entries
<1> HIDE DEF n
<1>2. Blocks(t, {i}) = {i} \X (1 .. n)
  BY DEF Blocks, n
<1>3. IsFiniteSet(1 .. n) /\ Cardinality(1 .. n) = n
  BY <1>1, FS_Interval
<1>4. Cardinality({i} \X (1 .. n)) = 1 * n
  <2>1. IsFiniteSet({i}) /\ Cardinality({i}) = 1
    BY FS_Singleton, Zenon
  <2>2. Cardinality({i} \X (1 .. n)) = Cardinality({i}) * Cardinality(1 .. n)
    BY <1>3, <2>1, FS_Product, Zenon
  <2> QED  BY <1>3, <2>1, <2>2, Zenon
<1>5. SizeOf(t, {i}) = 1 * n
  BY <1>2, <1>4, Zenon DEF SizeOf
<1>6. SizeOf(t, {i}) = n
  BY <1>1, <1>5
<1> QED
  BY <1>6 DEF n

\* Slots own their code separately.
LEMMA SizeOfUnion ==
  ASSUME NEW t \in [Slots -> Entries], NEW S, NEW T,
         S \subseteq Slots, T \subseteq Slots, S \cap T = {}
  PROVE  SizeOf(t, S \cup T) = SizeOf(t, S) + SizeOf(t, T)
<1>1. Blocks(t, S \cup T) = Blocks(t, S) \cup Blocks(t, T)
  BY DEF Blocks
<1>2. Blocks(t, S) \cap Blocks(t, T) = {}
  <2>1. \A A, b : b \in Blocks(t, A) => b[1] \in A
    BY DEF Blocks
  <2> QED  BY <2>1
<1>3. /\ IsFiniteSet(Blocks(t, S)) /\ SizeOf(t, S) \in Nat
      /\ IsFiniteSet(Blocks(t, T)) /\ SizeOf(t, T) \in Nat
  BY BlocksFinite
<1>4. Cardinality(Blocks(t, S) \cup Blocks(t, T)) =
        Cardinality(Blocks(t, S)) + Cardinality(Blocks(t, T)) - Cardinality({})
  BY <1>2, <1>3, FS_Union
<1>5. SizeOf(t, S \cup T) = SizeOf(t, S) + SizeOf(t, T) - Cardinality({})
  BY <1>1, <1>4, Zenon DEF SizeOf
<1> QED
  BY <1>3, <1>5, FS_EmptySet

LEMMA SizeOfNone ==
  ASSUME NEW t
  PROVE  SizeOf(t, {}) = 0
<1>1. Blocks(t, {}) = {}
  BY DEF Blocks
<1> QED
  BY <1>1, FS_EmptySet DEF SizeOf

\* Taking slots out of a set takes out what they own.
LEMMA SizeOfRest ==
  ASSUME NEW t \in [Slots -> Entries], NEW S, NEW T, S \subseteq Slots, T \subseteq S
  PROVE  SizeOf(t, S \ T) = SizeOf(t, S) - SizeOf(t, T) /\ SizeOf(t, T) <= SizeOf(t, S)
<1>1. SizeOf(t, (S \ T) \cup T) = SizeOf(t, S \ T) + SizeOf(t, T)
  BY SizeOfUnion
<1>2. (S \ T) \cup T = S
  OBVIOUS
<1>3. SizeOf(t, S \ T) \in Nat /\ SizeOf(t, T) \in Nat
  BY BlocksFinite
<1>4. SizeOf(t, S) = SizeOf(t, S \ T) + SizeOf(t, T)
  BY <1>1, <1>2, Zenon
<1> QED
  BY <1>3, <1>4

\* Only the sizes count.
LEMMA SizeOfSame ==
  ASSUME NEW t, NEW u, NEW S, \A i \in S : u[i].size = t[i].size
  PROVE  SizeOf(u, S) = SizeOf(t, S)
<1>1. Blocks(u, S) = Blocks(t, S)
  BY DEF Blocks
<1> QED
  BY <1>1 DEF SizeOf

-----------------------------------------------------------------------------
(* The accounting *)

LEMMA ContsFinite ==
  ASSUME NEW t
  PROVE  IsFiniteSet(ContsOf(t)) /\ Cardinality(ContsOf(t)) \in Nat
  BY LiveFinite, FS_Subset, FS_CardinalityType DEF ContsOf

\* remove_slot keeps the counters exact, and deducts no more than they hold.
LEMMA RemovedSummed ==
  ASSUME NEW t, Good(t.slot), Summed(t), NEW S, S \subseteq Live(t.slot)
  PROVE  Summed(Removed(t, S))
<1> DEFINE u == Tombed(t.slot, S)
           r == Removed(t, S)
           L == Live(t.slot)
           C == ContsOf(t.slot)
           D == {i \in S : t.slot[i].cont # Null}
<1>1. /\ r.slot = u /\ r.bytes = t.bytes - SizeOf(t.slot, S)
      /\ r.contCount = Deducted(t.contCount, Cardinality(D))
      /\ r.contBytes = Deducted(t.contBytes, SizeOf(t.slot, D))
  BY DEF Removed
<1>2. t.slot \in [Slots -> Entries] /\ L \subseteq Slots /\ S \subseteq Slots
  BY DEF Good, Live
<1>3. Live(u) = L \ S /\ \A i \in L \ S : u[i] = t.slot[i]
  <2>1. Live(u) = L \ S
    BY TombedGood
  <2> QED  BY <1>2, <2>1 DEF Tombed
<1>4. ContsOf(u) = C \ D /\ D \subseteq C /\ C \subseteq L
  BY <1>3 DEF ContsOf
<1> HIDE DEF u, r, L, C, D
<1>5. SizeOf(u, L \ S) = SizeOf(t.slot, L \ S) /\ SizeOf(u, C \ D) = SizeOf(t.slot, C \ D)
  <2>1. \A i \in C \ D : i \in L \ S
    BY <1>4 DEF C, D, L, ContsOf
  <2> QED  BY <1>3, <2>1, SizeOfSame
<1>6. /\ SizeOf(t.slot, L \ S) = SizeOf(t.slot, L) - SizeOf(t.slot, S)
      /\ SizeOf(t.slot, L) \in Nat /\ SizeOf(t.slot, S) \in Nat
  BY <1>2, SizeOfRest, BlocksFinite DEF L
<1>7. /\ SizeOf(t.slot, C \ D) = SizeOf(t.slot, C) - SizeOf(t.slot, D)
      /\ SizeOf(t.slot, C) \in Nat /\ SizeOf(t.slot, D) \in Nat
      /\ SizeOf(t.slot, D) <= SizeOf(t.slot, C)
  <2>1. C \subseteq Slots /\ D \subseteq Slots
    BY <1>2, <1>4
  <2> QED  BY <1>2, <1>4, <2>1, SizeOfRest, BlocksFinite
<1>8. /\ Cardinality(C \ D) = Cardinality(C) - Cardinality(D)
      /\ Cardinality(C) \in Nat /\ Cardinality(D) \in Nat
      /\ Cardinality(D) <= Cardinality(C)
  <2>1. IsFiniteSet(C) /\ Cardinality(C) \in Nat
    BY ContsFinite DEF C
  <2>2. C \cap D = D
    BY <1>4
  <2>3. IsFiniteSet(D) /\ Cardinality(D) <= Cardinality(C)
    BY <1>4, <2>1, FS_Subset
  <2>4. Cardinality(C \ D) = Cardinality(C) - Cardinality(D)
    BY <2>1, <2>2, FS_Difference, Zenon
  <2> QED  BY <2>1, <2>3, <2>4, FS_CardinalityType
<1>9. /\ t.bytes = SizeOf(t.slot, L) /\ t.bytes <= MaxBytes
      /\ t.contCount \in Nat /\ t.contCount <= Cardinality(C)
      /\ t.contBytes \in Nat /\ t.contBytes <= SizeOf(t.slot, C)
      /\ ~AllocMayFail => t.contCount = Cardinality(C) /\ t.contBytes = SizeOf(t.slot, C)
  BY Zenon DEF Summed, L, C
<1>10. r.bytes = SizeOf(u, Live(u)) /\ r.bytes <= MaxBytes
  <2>1. SizeOf(u, Live(u)) = SizeOf(t.slot, L \ S)
    BY <1>3, <1>5, Zenon
  <2> QED  BY <1>1, <1>6, <1>9, <2>1, TableAssumption
<1>11. /\ r.contCount \in Nat /\ r.contCount <= Cardinality(C \ D)
       /\ ~AllocMayFail => r.contCount = Cardinality(C \ D)
  BY <1>1, <1>8, <1>9 DEF Deducted
<1>12. /\ r.contBytes \in Nat /\ r.contBytes <= SizeOf(u, C \ D)
       /\ ~AllocMayFail => r.contBytes = SizeOf(u, C \ D)
  BY <1>1, <1>5, <1>7, <1>9 DEF Deducted
<1>13. Summed(r)
  BY <1>1, <1>4, <1>10, <1>11, <1>12, Zenon DEF Summed
<1> QED
  BY <1>13 DEF r

\* Compile and StoreContinuation add a new entry to the counters; n says whether
\* a continuation has been counted already.
LEMMA FilledSummed ==
  ASSUME NEW t, Good(t.slot), Summed(t), NEW i \in Slots \ Live(t.slot), NEW e \in Entries,
         e.state = "live", e.size <= MaxBytes - t.bytes, NEW n \in {0, 1},
         n = 1 => e.cont # Null, n = 0 => e.cont = Null \/ AllocMayFail
  PROVE  Summed(Filled(t, i, e, n))
<1> DEFINE u == [t.slot EXCEPT ![i] = e]
           r == Filled(t, i, e, n)
           L == Live(t.slot)
           C == ContsOf(t.slot)
<1>1. /\ r.slot = u /\ r.bytes = t.bytes + e.size
      /\ r.contCount = t.contCount + n /\ r.contBytes = t.contBytes + n * e.size
  BY DEF Filled
<1>2. /\ t.slot \in [Slots -> Entries] /\ u \in [Slots -> Entries]
      /\ L \subseteq Slots /\ i \notin L /\ C \subseteq L
  BY DEF Good, Live, ContsOf
<1>3. u[i] = e /\ \A j \in L : u[j] = t.slot[j]
  BY <1>2
<1>4. /\ Live(u) = L \cup {i}
      /\ ContsOf(u) = IF e.cont = Null THEN C ELSE C \cup {i}
  <2>1. Live(u) = L \cup {i}
    BY <1>2 DEF Live
  <2> QED  BY <1>2, <1>3, <2>1 DEF ContsOf
<1> HIDE DEF u, r, L, C
<1>5. SizeOf(u, L) = SizeOf(t.slot, L) /\ SizeOf(u, C) = SizeOf(t.slot, C)
  BY <1>2, <1>3, SizeOfSame
<1>6. SizeOf(u, {i}) = e.size /\ e.size \in Nat
  BY <1>2, <1>3, SizeOfOne DEF Entries
<1>7. /\ SizeOf(u, L \cup {i}) = SizeOf(t.slot, L) + e.size
      /\ SizeOf(u, C \cup {i}) = SizeOf(t.slot, C) + e.size
      /\ SizeOf(t.slot, L) \in Nat /\ SizeOf(t.slot, C) \in Nat
  <2>1. L \cap {i} = {} /\ C \cap {i} = {} /\ C \subseteq Slots /\ {i} \subseteq Slots
    BY <1>2
  <2>2. /\ SizeOf(u, L \cup {i}) = SizeOf(u, L) + SizeOf(u, {i})
        /\ SizeOf(u, C \cup {i}) = SizeOf(u, C) + SizeOf(u, {i})
    BY <1>2, <2>1, SizeOfUnion
  <2>3. SizeOf(t.slot, L) \in Nat /\ SizeOf(t.slot, C) \in Nat
    BY <1>2, <2>1, BlocksFinite
  <2> QED  BY <1>5, <1>6, <2>2, <2>3
<1>8. /\ Cardinality(C) \in Nat
      /\ Cardinality(C \cup {i}) = Cardinality(C) + 1
  BY <1>2, ContsFinite, FS_AddElement DEF C
<1>9. /\ t.bytes = SizeOf(t.slot, L) /\ t.bytes <= MaxBytes
      /\ t.contCount \in Nat /\ t.contCount <= Cardinality(C)
      /\ t.contBytes \in Nat /\ t.contBytes <= SizeOf(t.slot, C)
      /\ ~AllocMayFail => t.contCount = Cardinality(C) /\ t.contBytes = SizeOf(t.slot, C)
  BY Zenon DEF Summed, L, C
<1>10. r.bytes = SizeOf(u, Live(u)) /\ r.bytes <= MaxBytes
  <2>1. SizeOf(u, Live(u)) = SizeOf(t.slot, L) + e.size
    BY <1>4, <1>7, Zenon
  <2> QED  BY <1>1, <1>6, <1>7, <1>9, <2>1, TableAssumption
<1>11. CASE e.cont = Null
  <2>1. n = 0 /\ ContsOf(u) = C
    BY <1>4, <1>11
  <2>2. r.contCount = t.contCount /\ r.contBytes = t.contBytes
    BY <1>1, <1>6, <1>9, <2>1
  <2> QED  BY <1>1, <1>5, <1>9, <1>10, <2>1, <2>2, Zenon DEF Summed, r
<1>12. CASE e.cont # Null
  <2>1. ContsOf(u) = C \cup {i}
    BY <1>4, <1>12, Zenon
  <2>2. /\ r.contCount \in Nat /\ r.contCount <= Cardinality(C) + 1
        /\ r.contBytes \in Nat /\ r.contBytes <= SizeOf(t.slot, C) + e.size
        /\ ~AllocMayFail => /\ r.contCount = Cardinality(C) + 1
                            /\ r.contBytes = SizeOf(t.slot, C) + e.size
    <3>1. CASE n = 0
      BY <1>1, <1>6, <1>7, <1>8, <1>9, <1>12, <3>1
    <3>2. CASE n = 1
      BY <1>1, <1>6, <1>7, <1>8, <1>9, <1>12, <3>2
    <3> QED  BY <3>1, <3>2
  <2> QED  BY <1>1, <1>7, <1>8, <1>10, <2>1, <2>2, Zenon DEF Summed, r
<1> QED
  BY <1>11, <1>12

-----------------------------------------------------------------------------
(* What the steps do to the invariant *)

\* A table becomes the cache's.
LEMMA CommitInv ==
  ASSUME NEW t, NEW c \in Nat, Counted(t, c), Commit(t), clock' = c
  PROVE  Inv'
<1>1. /\ Table'.slot = t.slot /\ Table'.bytes = t.bytes
      /\ Table'.contCount = t.contCount /\ Table'.contBytes = t.contBytes
  BY DEF Commit, Table
<1>2. Summed(Table)'
  BY <1>1, Zenon DEF Counted, Summed
<1>3. Good(slot)' /\ EntryBudget' /\ Stamped(slot, clock)'
  BY Zenon DEF Commit, Counted, EntryBudget, Good, Reached, Kinds, Live, Stamped
<1> QED
  BY <1>2, <1>3 DEF Inv

LEMMA TouchStep ==
  ASSUME Inv, NEW i \in Live(slot), Touch(i)
  PROVE  /\ Inv' /\ Live(slot') = Live(slot)
         /\ \A j \in Slots : slot'[j].key = slot[j].key /\ slot'[j].cont = slot[j].cont
<1> DEFINE e == Touched(slot[i])
<1>1. i \in Slots /\ slot[i] \in Entries /\ clock \in Nat
  BY SMTT(60) DEF Inv, Good, Live
<1>2. /\ e \in Entries /\ e.state = slot[i].state /\ e.key = slot[i].key
      /\ e.cont = slot[i].cont /\ e.size = slot[i].size /\ e.stamp = clock + 1
  BY <1>1 DEF Entries, Touched
<1>3. slot' = [slot EXCEPT ![i] = e]
  BY DEF Touch
<1> HIDE DEF e
<1>4. slot' \in [Slots -> Entries]
  BY <1>2, <1>3, ZenonT(60) DEF Inv, Good
<1>5. \A j \in Slots : /\ slot'[j].state = slot[j].state /\ slot'[j].key = slot[j].key
                       /\ slot'[j].cont = slot[j].cont /\ slot'[j].size = slot[j].size
  BY <1>1, <1>2, <1>3, SMTT(60) DEF Inv, Good
<1>6. Good(slot') /\ Live(slot') = Live(slot)
  BY <1>4, <1>5, SameGood, SMTT(60) DEF Inv
<1>7. clock' = clock + 1 /\ clock' \in Nat /\ count' = count
  BY <1>1, SMTT(60) DEF Touch
<1>8. Summed(Table)'
  <2>1. /\ Table'.slot = slot' /\ Table'.bytes = Table.bytes
        /\ Table'.contCount = Table.contCount /\ Table'.contBytes = Table.contBytes
    BY DEF Touch, Table
  <2>2. ContsOf(slot') = ContsOf(slot) /\ ContsOf(slot) \subseteq Live(slot) /\ Live(slot) \subseteq Slots
    BY <1>5, <1>6 DEF ContsOf, Live
  <2>3. SizeOf(slot', Live(slot)) = SizeOf(slot, Live(slot))
    BY <1>5, <2>2, SizeOfSame
  <2>4. SizeOf(slot', ContsOf(slot)) = SizeOf(slot, ContsOf(slot))
    BY <1>5, <2>2, SizeOfSame
  <2>5. Table.slot = slot
    BY DEF Table
  <2> QED  BY <1>6, <2>1, <2>2, <2>3, <2>4, <2>5, Zenon DEF Inv, Summed
<1>9. Stamped(slot', clock')
  <2>1. \A j \in Live(slot) : /\ slot'[j].stamp = IF j = i THEN clock + 1 ELSE slot[j].stamp
                              /\ slot[j].stamp \in Nat /\ slot[j].stamp <= clock
    BY <1>2, <1>3 DEF Inv, Good, Live, Entries, Stamped
  <2> QED  BY <1>1, <1>6, <1>7, <2>1 DEF Inv, Stamped
<1> QED
  BY <1>5, <1>6, <1>7, <1>8, <1>9, SMTT(60) DEF Inv, EntryBudget

LEMMA RemovedCounted ==
  ASSUME NEW t, NEW c, Counted(t, c), NEW S, S \subseteq Live(t.slot)
  PROVE  /\ Counted(Removed(t, S), c)
         /\ Removed(t, S).slot = Tombed(t.slot, S)
         /\ Live(Tombed(t.slot, S)) = Live(t.slot) \ S
<1>1. Removed(t, S).slot = Tombed(t.slot, S) /\ Removed(t, S).count = t.count - Cardinality(S)
  BY SMTT(60) DEF Removed
<1>2. Good(Tombed(t.slot, S)) /\ Live(Tombed(t.slot, S)) = Live(t.slot) \ S
  BY TombedGood DEF Counted
<1>3. Cardinality(Live(t.slot) \ S) = Cardinality(Live(t.slot)) - Cardinality(S)
  <2>1. Live(t.slot) \cap S = S
    OBVIOUS
  <2> QED  BY <2>1, LiveFinite, FS_Difference, Zenon
<1>4. Cardinality(Live(t.slot)) \in Nat /\ Cardinality(S) \in Nat
  BY LiveFinite, FS_Subset, FS_CardinalityType, SMTT(60)
<1>5. Summed(Removed(t, S))
  BY RemovedSummed DEF Counted
<1>6. Stamped(Tombed(t.slot, S), c)
  <2>1. \A i \in Live(t.slot) \ S : Tombed(t.slot, S)[i] = t.slot[i]
    BY DEF Tombed, Live
  <2> QED  BY <1>2, <2>1 DEF Counted, Stamped
<1>7. LET r == Removed(t, S) IN r.count = Cardinality(Live(r.slot)) /\ r.count <= MaxEntries
  BY <1>1, <1>2, <1>3, <1>4, TableAssumption, SMTT(60) DEF Counted
<1> QED
  BY <1>1, <1>2, <1>5, <1>6, <1>7, Zenon DEF Counted

\* A new entry in a slot that is not live.
LEMMA FilledCounted ==
  ASSUME NEW t, NEW c \in Nat, Counted(t, c), t.count < MaxEntries,
         NEW i \in Slots \ Live(t.slot), NEW e \in Entries,
         e.state = "live", (e.key = Null) # (e.cont = Null),
         e.key # Null =>
           /\ \A j \in Live(t.slot) : t.slot[j].key # e.key
           /\ \A j \in Slots : Dist(e.key, j) < Dist(e.key, i) => t.slot[j].state # "empty",
         e.cont # Null => \A j \in Live(t.slot) : t.slot[j].cont # e.cont,
         e.size <= MaxBytes - t.bytes, e.stamp = c + 1, NEW n \in {0, 1},
         n = 1 => e.cont # Null, n = 0 => e.cont = Null \/ AllocMayFail
  PROVE  LET r == Filled(t, i, e, n) IN
         /\ Counted(r, c + 1) /\ r.slot = [t.slot EXCEPT ![i] = e]
         /\ Live(r.slot) = Live(t.slot) \cup {i}
<1> DEFINE u == [t.slot EXCEPT ![i] = e]
           r == Filled(t, i, e, n)
<1>1. Good(u) /\ Live(u) = Live(t.slot) \cup {i}
  BY FilledGood, SMTT(60) DEF Counted
<1>2. Cardinality(Live(u)) = t.count + 1 /\ t.count \in Nat
  BY <1>1, LiveFinite, FS_AddElement, SMTT(60) DEF Counted
<1>3. r.slot = u /\ r.count = t.count + 1
  BY DEF Filled
<1>4. Summed(r)
  BY FilledSummed DEF Counted
<1>5. Stamped(u, c + 1)
  <2>1. t.slot \in [Slots -> Entries] /\ Live(t.slot) \subseteq Slots
    BY DEF Counted, Good, Live
  <2>2. \A j \in Live(t.slot) : u[j] = t.slot[j] /\ t.slot[j].stamp \in Nat /\ t.slot[j].stamp <= c
    BY <2>1 DEF Counted, Stamped, Entries
  <2>3. u[i] = e
    BY <2>1
  <2> HIDE DEF u
  <2> QED  BY <1>1, <2>2, <2>3 DEF Counted, Stamped
<1>6. r.count = Cardinality(Live(u)) /\ r.count <= MaxEntries
  BY <1>2, <1>3, TableAssumption
<1> HIDE DEF u, r
<1>7. Counted(r, c + 1) /\ Live(r.slot) = Live(t.slot) \cup {i}
  BY <1>1, <1>3, <1>4, <1>5, <1>6, Zenon DEF Counted
<1> QED
  BY <1>3, <1>7, Zenon DEF u, r

LEMMA PlaceStep ==
  ASSUME NEW t, clock \in Nat, Counted(t, clock), t.count < MaxEntries,
         NEW i \in Slots \ Live(t.slot), NEW e \in Entries,
         e.state = "live", (e.key = Null) # (e.cont = Null),
         e.key # Null =>
           /\ \A j \in Live(t.slot) : t.slot[j].key # e.key
           /\ \A j \in Slots : Dist(e.key, j) < Dist(e.key, i) => t.slot[j].state # "empty",
         e.cont # Null => \A j \in Live(t.slot) : t.slot[j].cont # e.cont,
         e.size <= MaxBytes - t.bytes, e.stamp = clock + 1,
         NEW failed \in BOOLEAN, failed => AllocMayFail, Place(t, i, e, failed)
  PROVE  /\ Inv'
         /\ ~failed => slot' = [t.slot EXCEPT ![i] = e] /\ Live(slot') = Live(t.slot) \cup {i}
         /\ failed => /\ Live(slot') = Live(t.slot)
                      /\ \A j \in Live(t.slot) : slot'[j] = t.slot[j]
<1> DEFINE u == [t.slot EXCEPT ![i] = e]
<1>1. clock' = clock + 1 /\ clock + 1 \in Nat
  BY SMTT(60) DEF Place
<1>2. ASSUME NEW n \in {0, 1}, n = 1 => e.cont # Null, n = 0 => e.cont = Null \/ AllocMayFail
      PROVE  LET f == Filled(t, i, e, n) IN
             Counted(f, clock + 1) /\ f.slot = u /\ Live(f.slot) = Live(t.slot) \cup {i}
  BY <1>2, FilledCounted, SMTT(60)
<1>3. CASE ~failed
  <2> DEFINE n == IF e.cont = Null THEN 0 ELSE 1
             f == Filled(t, i, e, n)
  <2>1. n \in {0, 1} /\ (n = 1 => e.cont # Null) /\ (n = 0 => e.cont = Null \/ AllocMayFail)
    OBVIOUS
  <2>2. Commit(f)
    BY <1>3, Zenon DEF Place
  <2> HIDE DEF n
  <2>3. Counted(f, clock + 1) /\ f.slot = u /\ Live(f.slot) = Live(t.slot) \cup {i}
    BY <1>2, <2>1, Zenon
  <2> HIDE DEF f
  <2>4. Inv' /\ slot' = u
    BY <1>1, <2>2, <2>3, CommitInv, Zenon DEF Commit
  <2> QED  BY <1>3, <2>3, <2>4, Zenon
<1>4. CASE failed
  <2> DEFINE f == Filled(t, i, e, 0)
             r == Removed(f, {i})
  <2>1. Commit(r)
    BY <1>4, Zenon DEF Place
  <2>2. Counted(f, clock + 1) /\ f.slot = u /\ Live(f.slot) = Live(t.slot) \cup {i}
    <3>1. 0 \in {0, 1} /\ 0 # 1 /\ AllocMayFail
      BY <1>4
    <3> QED  BY <1>2, <3>1, Zenon
  <2> HIDE DEF f, u
  <2>3. Counted(r, clock + 1) /\ r.slot = Tombed(u, {i}) /\ Live(r.slot) = Live(t.slot)
    <3>1. {i} \subseteq Live(f.slot)
      BY <2>2, Zenon
    <3>2. (Live(t.slot) \cup {i}) \ {i} = Live(t.slot)
      OBVIOUS
    <3>3. /\ Counted(r, clock + 1) /\ r.slot = Tombed(f.slot, {i})
          /\ Live(Tombed(f.slot, {i})) = Live(f.slot) \ {i}
      <4> DEFINE S == {i}
                 c == clock + 1
      <4>1. Counted(f, c) /\ S \subseteq Live(f.slot)
        BY <2>2, <3>1
      <4> HIDE DEF S, c
      <4>2. /\ Counted(Removed(f, S), c) /\ Removed(f, S).slot = Tombed(f.slot, S)
            /\ Live(Tombed(f.slot, S)) = Live(f.slot) \ S
        BY <4>1, RemovedCounted
      <4> QED  BY <4>2 DEF S, c
    <3> QED  BY <2>2, <3>2, <3>3, Zenon
  <2>4. Inv' /\ slot' = r.slot
    <3> HIDE DEF r
    <3> QED  BY <1>1, <2>1, <2>3, CommitInv, Zenon DEF Commit
  <2>5. \A j \in Live(t.slot) : slot'[j] = t.slot[j]
    BY <2>3, <2>4, ZenonT(60) DEF Tombed, Live, Counted, Good, u
  <2> QED  BY <1>4, <2>3, <2>4, <2>5, Zenon
<1> QED
  BY <1>3, <1>4, SMTT(60)

-----------------------------------------------------------------------------
(* The items a table holds *)

Item(e) == IF e.cont = Null THEN e.key ELSE e.cont
Held(t) == {Item(t[i]) : i \in Live(t)}

LEMMA HeldBound ==
  ASSUME NEW t
  PROVE  Cardinality(Held(t)) <= Cardinality(Live(t)) /\ Cardinality(Held(t)) \in Nat
<1> DEFINE f == [i \in Live(t) |-> Item(t[i])]
<1>1. f \in Surjection(Live(t), Held(t))
  BY DEF Surjection, Held
<1> HIDE DEF f
<1>2. IsFiniteSet(Held(t)) /\ Cardinality(Held(t)) <= Cardinality(Live(t))
  BY <1>1, LiveFinite, FS_Surjection, SMTT(60)
<1> QED
  BY <1>2, FS_CardinalityType

\* An absent item is not held.
LEMMA AbsentKey ==
  ASSUME NEW t, Good(t), NEW k \in Keys, \A i \in Live(t) : t[i].key # k
  PROVE  k \notin Held(t)
<1>1. \A i \in Live(t) : t[i].cont \in Conts \cup {Null}
  BY DEF Good, Entries, Live
<1> QED
  BY <1>1, TableAssumption, SMTT(60) DEF Held, Item

LEMMA AbsentCont ==
  ASSUME NEW t, Good(t), NEW c \in Conts, \A i \in Live(t) : t[i].cont # c
  PROVE  c \notin Held(t)
<1>1. \A i \in Live(t) : t[i].key \in Keys \cup {Null}
  BY DEF Good, Entries, Live
<1> QED
  BY <1>1, TableAssumption, SMTT(60) DEF Held, Item

\* The table after the evictions of a step.
LEMMA Evicted ==
  ASSUME Inv, NEW S, S \subseteq Live(slot)
  PROVE  LET t == Removed(Table, S) IN
         /\ Counted(t, clock) /\ Live(t.slot) = Live(slot) \ S
         /\ \A i \in Live(t.slot) : t.slot[i] = slot[i]
         /\ Held(t.slot) \subseteq Held(slot)
<1> DEFINE t == Removed(Table, S)
<1>1. Counted(Table, clock) /\ Table.slot = slot
  BY DEF Inv, Counted, Table, EntryBudget
<1>2. Counted(t, clock) /\ t.slot = Tombed(slot, S) /\ Live(t.slot) = Live(slot) \ S
  BY <1>1, RemovedCounted, SMTT(60)
<1>3. \A i \in Live(t.slot) : t.slot[i] = slot[i]
  BY <1>2, SMTT(60) DEF Tombed, Live
<1> HIDE DEF t
<1>4. Held(t.slot) \subseteq Held(slot)
  BY <1>2, <1>3 DEF Held
<1> QED
  BY <1>2, <1>3, <1>4, SMTT(60) DEF t

\* An insertion after evictions is an insertion into the map.
LEMMA InsertImplements ==
  ASSUME NEW t, NEW c, Counted(t, c), t.count < MaxEntries, Held(t.slot) \subseteq Held(slot),
         NEW x, x \notin Held(slot), NEW i \in Slots \ Live(t.slot), NEW e, Item(e) = x,
         slot' = [t.slot EXCEPT ![i] = e], Live(slot') = Live(t.slot) \cup {i}
  PROVE  Map!Insert(x)
<1>1. slot'[i] = e /\ \A j \in Live(t.slot) : slot'[j] = t.slot[j]
  BY SMTT(60) DEF Counted, Good, Live
<1>2. Held(slot') = Held(t.slot) \cup {x}
  BY <1>1, SMTT(60) DEF Held
<1> DEFINE V == Held(slot) \ Held(t.slot)
<1>3. V \in SUBSET Held(slot) /\ Held(slot) \ V = Held(t.slot)
  BY SMTT(60)
<1>4. Cardinality(Held(t.slot)) < MaxEntries
  BY HeldBound, LiveFinite, TableAssumption, SMTT(60) DEF Counted
<1>5. Cardinality(Held(slot) \ V) < MaxEntries /\ Held(slot') = (Held(slot) \ V) \cup {x}
  BY <1>2, <1>3, <1>4, SMTT(60)
<1>6. \E W \in SUBSET Held(slot) : /\ Cardinality(Held(slot) \ W) < MaxEntries
                                   /\ Held(slot') = (Held(slot) \ W) \cup {x}
  BY <1>3, <1>5, ZenonT(60)
<1>7. \A S : Map!Cardinality(S) = Cardinality(S)
  BY DEF Map!Cardinality, Cardinality, Map!IsFiniteSet, IsFiniteSet
<1> QED
  BY <1>6, <1>7, ZenonT(60) DEF Map!Insert, Held, Item

\* Evictions without an insertion are a failed insertion into the map.
LEMMA FailImplements ==
  ASSUME NEW t, Held(t) \subseteq Held(slot), NEW x, x \notin Held(slot),
         Live(slot') = Live(t), \A j \in Live(t) : slot'[j] = t[j]
  PROVE  Map!Fail(x)
<1>1. Held(slot') = Held(t)
  BY SMTT(60) DEF Held
<1> DEFINE V == Held(slot) \ Held(t)
<1>2. V \in SUBSET Held(slot) /\ Held(slot') = Held(slot) \ V
  BY <1>1
<1>3. \E W \in SUBSET Held(slot) : Held(slot') = Held(slot) \ W
  BY <1>2, Zenon
<1> QED
  BY <1>3, Zenon DEF Map!Fail, Held, Item

\* A step of the map.
MapStep == [Map!Next]_(Held(slot))

LEMMA TouchImplements ==
  ASSUME Inv, NEW i \in Live(slot), Touch(i)
  PROVE  Inv' /\ MapStep
<1>1. Inv' /\ Live(slot') = Live(slot)
  BY TouchStep, SMTT(60)
<1>2. \A j \in Live(slot) : slot'[j].key = slot[j].key /\ slot'[j].cont = slot[j].cont
  BY TouchStep, SMTT(60) DEF Live
<1>3. Held(slot') = Held(slot)
  BY <1>1, <1>2, SMTT(60) DEF Held, Item
<1> QED
  BY <1>1, <1>3, SMTT(60) DEF MapStep, Held

LEMMA ItemStep ==
  ASSUME NEW x \in Keys \cup Conts, Map!Insert(x) \/ Map!Fail(x) \/ Map!Remove(x)
  PROVE  MapStep
  BY Zenon DEF MapStep, Map!Next

LEMMA NewEntryGood ==
  ASSUME NEW k \in Keys \cup {Null}, NEW c \in Conts \cup {Null}, NEW s \in Sizes, clock \in Nat
  PROVE  /\ NewEntry(k, c, s) \in Entries /\ NewEntry(k, c, s).state = "live"
         /\ NewEntry(k, c, s).key = k /\ NewEntry(k, c, s).cont = c
         /\ NewEntry(k, c, s).size = s /\ NewEntry(k, c, s).stamp = clock + 1
  BY TableAssumption DEF NewEntry, Entries

LEMMA CompileStep ==
  ASSUME Inv, NEW k \in Keys, NEW s \in Sizes, Compile(k, s)
  PROVE  Inv' /\ MapStep
<1>1. CASE Found(slot, k)
  <2>1. FindSlot(slot, k) \in Live(slot) /\ Touch(FindSlot(slot, k))
    BY <1>1, FoundIsEntry, SMTT(60) DEF Compile
  <2> QED  BY <2>1, TouchImplements, SMTT(60)
<1>2. CASE ~Found(slot, k)
  <2> DEFINE t == Removed(Table, Victims(s))
             i == FindForInsert(t.slot, k)
             e == NewEntry(k, Null, s)
  <2>1. Victims(s) \subseteq Live(slot)
    BY SMTT(60) DEF Victims
  <2>2. /\ Counted(t, clock) /\ Live(t.slot) = Live(slot) \ Victims(s)
        /\ \A j \in Live(t.slot) : t.slot[j] = slot[j]
        /\ Held(t.slot) \subseteq Held(slot)
    BY <2>1, Evicted, SMTT(60)
  <2>3. \A j \in Live(slot) : slot[j].key # k
    BY <1>2, NotFoundAbsent, SMTT(60) DEF Inv
  <2>4. k \notin Held(slot)
    BY <2>3, AbsentKey, SMTT(60) DEF Inv
  <2>5. \A j \in Live(t.slot) : t.slot[j].key # k
    BY <2>2, <2>3, SMTT(60)
  <2>6. clock \in Nat /\ k # Null
    BY TableAssumption, SMTT(60) DEF Inv
  <2>7. /\ e \in Entries /\ e.state = "live" /\ e.key = k /\ e.cont = Null
        /\ e.size = s /\ e.stamp = clock + 1
    BY <2>6, NewEntryGood, SMTT(60)
  <2>8. CASE Fits(t.count, t.bytes, s) /\ i # None
    <3>1. PICK failed \in {FALSE, AllocMayFail} : Place(t, i, e, failed)
      BY <1>2, <2>8, Zenon DEF Compile
    <3>2. failed \in BOOLEAN /\ (failed => AllocMayFail)
      <4>1. failed = FALSE \/ failed = AllocMayFail
        BY Zenon
      <4>2. CASE AllocMayFail = TRUE
        BY <4>1, <4>2
      <4>3. CASE AllocMayFail = FALSE
        BY <4>1, <4>3
      <4> QED  BY <4>2, <4>3, TableAssumption, Zenon
    <3>3. t.count < MaxEntries /\ e.size <= MaxBytes - t.bytes
      BY <2>7, <2>8, SMTT(60) DEF Fits
    <3>4. /\ i \in Slots \ Live(t.slot)
          /\ \A j \in Slots : Dist(k, j) < Dist(k, i) => t.slot[j].state # "empty"
      <4>1. t.slot \in [Slots -> Entries]
        BY <2>2, Zenon DEF Counted, Good
      <4> HIDE DEF t
      <4> QED  BY <2>5, <2>8, <4>1, InsertSlot, ZenonT(60)
    <3> HIDE DEF t, i, e
    <3>5. /\ Inv'
          /\ ~failed => slot' = [t.slot EXCEPT ![i] = e] /\ Live(slot') = Live(t.slot) \cup {i}
          /\ failed => /\ Live(slot') = Live(t.slot)
                       /\ \A j \in Live(t.slot) : slot'[j] = t.slot[j]
      BY <2>2, <2>5, <2>6, <2>7, <3>1, <3>2, <3>3, <3>4, PlaceStep, ZenonT(60)
    <3>6. CASE ~failed
      <4>1. Item(e) = k
        BY <2>7 DEF Item
      <4>2. Map!Insert(k)
        BY <2>2, <2>4, <3>3, <3>4, <3>5, <3>6, <4>1, InsertImplements, ZenonT(60)
      <4> QED  BY <3>5, <4>2, ItemStep, Zenon
    <3>7. CASE failed
      <4>1. Map!Fail(k)
        BY <2>2, <2>4, <3>5, <3>7, FailImplements, SMTT(60)
      <4> QED  BY <3>5, <4>1, ItemStep, Zenon
    <3> QED  BY <3>6, <3>7
  <2>9. CASE ~(Fits(t.count, t.bytes, s) /\ i # None)
    <3>1. slot' = t.slot /\ Commit(t) /\ clock' = clock
      BY <1>2, <2>9, ZenonT(60) DEF Compile, Commit
    <3> HIDE DEF t, i, e
    <3>2. Inv'
      BY <2>2, <2>6, <3>1, CommitInv, Zenon
    <3>3. Map!Fail(k)
      BY <2>2, <2>4, <3>1, FailImplements, SMTT(60)
    <3> QED  BY <3>2, <3>3, ItemStep, Zenon
  <2> QED  BY <2>8, <2>9, SMTT(60)
<1> QED
  BY <1>1, <1>2, SMTT(60)

LEMMA StoreContinuationStep ==
  ASSUME Inv, NEW c \in Conts, NEW s \in Sizes, StoreContinuation(c, s)
  PROVE  Inv' /\ MapStep
<1>1. CASE ContSlot(slot, c) # {}
  <2>1. PICK i \in ContSlot(slot, c) : Touch(i)
    BY <1>1 DEF StoreContinuation
  <2>2. i \in Live(slot)
    BY DEF ContSlot
  <2> QED  BY <2>1, <2>2, TouchImplements, SMTT(60)
<1>2. CASE ContSlot(slot, c) = {}
  <2> DEFINE t == Removed(Table, Victims(s))
             i == FirstFree(t.slot)
             e == NewEntry(Null, c, s)
  <2>1. Victims(s) \subseteq Live(slot)
    BY DEF Victims
  <2>2. /\ Counted(t, clock) /\ Live(t.slot) = Live(slot) \ Victims(s)
        /\ \A j \in Live(t.slot) : t.slot[j] = slot[j]
        /\ Held(t.slot) \subseteq Held(slot)
    BY <2>1, Evicted
  <2>3. \A j \in Live(slot) : slot[j].cont # c
    BY <1>2, SMTT(60) DEF ContSlot
  <2>4. c \notin Held(slot)
    BY <2>3, AbsentCont, SMTT(60) DEF Inv
  <2>5. \A j \in Live(t.slot) : t.slot[j].cont # c
    BY <2>2, <2>3
  <2>6. clock \in Nat /\ c # Null
    BY TableAssumption, SMTT(60) DEF Inv
  <2>7. /\ e \in Entries /\ e.state = "live" /\ e.key = Null /\ e.cont = c
        /\ e.size = s /\ e.stamp = clock + 1
    BY <2>6, NewEntryGood, SMTT(60)
  <2>8. CASE Fits(t.count, t.bytes, s) /\ i # None
    <3>1. PICK failed \in {FALSE, AllocMayFail} : Place(t, i, e, failed)
      BY <1>2, <2>8, Zenon DEF StoreContinuation
    <3>2. failed \in BOOLEAN /\ (failed => AllocMayFail)
      <4>1. failed = FALSE \/ failed = AllocMayFail
        BY Zenon
      <4>2. CASE AllocMayFail = TRUE
        BY <4>1, <4>2
      <4>3. CASE AllocMayFail = FALSE
        BY <4>1, <4>3
      <4> QED  BY <4>2, <4>3, TableAssumption, Zenon
    <3>3. t.count < MaxEntries /\ e.size <= MaxBytes - t.bytes
      BY <2>7, <2>8, SMTT(60) DEF Fits
    <3>4. i \in Slots \ Live(t.slot)
      <4> HIDE DEF t
      <4> QED  BY <2>8, FirstFreeSlot
    <3> HIDE DEF t, i, e
    <3>5. /\ Inv'
          /\ ~failed => slot' = [t.slot EXCEPT ![i] = e] /\ Live(slot') = Live(t.slot) \cup {i}
          /\ failed => /\ Live(slot') = Live(t.slot)
                       /\ \A j \in Live(t.slot) : slot'[j] = t.slot[j]
      BY <2>2, <2>5, <2>6, <2>7, <3>1, <3>2, <3>3, <3>4, PlaceStep, ZenonT(60)
    <3>6. CASE ~failed
      <4>1. Item(e) = c
        BY <2>6, <2>7 DEF Item
      <4>2. Map!Insert(c)
        BY <2>2, <2>4, <3>3, <3>4, <3>5, <3>6, <4>1, InsertImplements, ZenonT(60)
      <4> QED  BY <3>5, <4>2, ItemStep, Zenon
    <3>7. CASE failed
      <4>1. Map!Fail(c)
        BY <2>2, <2>4, <3>5, <3>7, FailImplements
      <4> QED  BY <3>5, <4>1, ItemStep, Zenon
    <3> QED  BY <3>6, <3>7
  <2>9. CASE ~(Fits(t.count, t.bytes, s) /\ i # None)
    <3>1. slot' = t.slot /\ Commit(t) /\ clock' = clock
      BY <1>2, <2>9, ZenonT(60) DEF StoreContinuation, Commit
    <3> HIDE DEF t, i, e
    <3>2. Inv'
      BY <2>2, <2>6, <3>1, CommitInv, Zenon
    <3>3. Map!Fail(c)
      BY <2>2, <2>4, <3>1, FailImplements
    <3> QED  BY <3>2, <3>3, ItemStep, Zenon
  <2> QED  BY <2>8, <2>9, SMTT(60)
<1> QED
  BY <1>1, <1>2, SMTT(60)

LEMMA InvalidateStep ==
  ASSUME Inv, NEW k \in Keys, Invalidate(k)
  PROVE  Inv' /\ MapStep
<1> DEFINE i == FindSlot(slot, k)
           t == Removed(Table, {i})
<1>1. i \in Live(slot) /\ slot[i].key = k /\ k # Null
  BY FoundIsEntry, TableAssumption, SMTT(60) DEF Invalidate
<1>2. slot' = t.slot /\ Commit(t) /\ clock' = clock /\ clock \in Nat
  BY Zenon DEF Invalidate, Commit, Inv
<1>3. /\ Counted(t, clock) /\ Live(t.slot) = Live(slot) \ {i}
      /\ \A j \in Live(t.slot) : t.slot[j] = slot[j]
  <2> HIDE DEF i
  <2> QED  BY <1>1, Evicted, SMTT(60)
<1>4. Item(slot[i]) = k
  BY <1>1 DEF Inv, Good, Kinds, Item
<1>5. \A j \in Live(slot) : Item(slot[j]) = k => j = i
  <2>1. SUFFICES ASSUME NEW j \in Live(slot), Item(slot[j]) = k  PROVE j = i
    OBVIOUS
  <2>2. slot[j].cont \in Conts \cup {Null}
    BY SMTT(60) DEF Inv, Good, Entries, Live
  <2>3. slot[j].key = k
    BY <2>1, <2>2, TableAssumption, SMTT(60) DEF Item
  <2> QED  BY <2>3, ProbeFinds, SMTT(60) DEF Inv
<1> HIDE DEF t, i
<1>6. Held(slot') = Held(slot) \ {k}
  BY <1>2, <1>3, <1>4, <1>5, SMTT(60) DEF Held
<1>7. Map!Remove(k)
  BY <1>6, SMTT(60) DEF Map!Remove, Held, Item
<1>8. Inv'
  BY <1>2, <1>3, CommitInv, Zenon
<1> QED
  BY <1>7, <1>8, ItemStep, Zenon

LEMMA EmptyTable ==
  ASSUME NEW t, t = [i \in Slots |-> Blank("empty")]
  PROVE  Good(t) /\ Live(t) = {} /\ Cardinality(Live(t)) = 0
<1>1. t \in [Slots -> Entries]
  BY DEF Blank, Entries
<1>2. Live(t) = {}
  BY DEF Live, Blank
<1> QED
  BY <1>1, <1>2, FS_EmptySet, SMTT(60) DEF Good, Reached, Kinds

\* An empty table, with counters that are all zero, at time c.
LEMMA EmptyCounted ==
  ASSUME NEW t, t.slot = [i \in Slots |-> Blank("empty")], NEW c,
         t.count = 0, t.bytes = 0, t.contCount = 0, t.contBytes = 0
  PROVE  Counted(t, c)
<1>1. Good(t.slot) /\ Live(t.slot) = {} /\ Cardinality(Live(t.slot)) = 0
  BY EmptyTable, Zenon
<1>2. ContsOf(t.slot) = {}
  BY <1>1 DEF ContsOf
<1>3. /\ SizeOf(t.slot, Live(t.slot)) = 0 /\ SizeOf(t.slot, ContsOf(t.slot)) = 0
      /\ Cardinality(ContsOf(t.slot)) = 0
  BY <1>1, <1>2, SizeOfNone, FS_EmptySet, Zenon
<1>4. Summed(t)
  <2>1. 0 \in Nat /\ 0 <= 0 /\ 0 <= MaxBytes
    BY TableAssumption
  <2> QED  BY <1>3, <2>1, Zenon DEF Summed
<1>5. Stamped(t.slot, c) /\ 0 <= MaxEntries
  BY <1>1, TableAssumption DEF Stamped
<1> QED
  BY <1>1, <1>4, <1>5, Zenon DEF Counted

LEMMA ClearStep ==
  ASSUME Inv, Clear
  PROVE  Inv' /\ MapStep
<1> DEFINE t == Removed(Table, Live(slot))
           e == [slot |-> slot', count |-> 0, bytes |-> 0, contCount |-> 0, contBytes |-> 0]
<1>1. slot' = [i \in Slots |-> Blank("empty")] /\ count' = 0 /\ bytes' = 0 /\ clock' = clock
  BY DEF Clear
<1>2. contCount' = 0 /\ contBytes' = 0
  <2>1. Counted(t, clock) /\ Live(t.slot) = Live(slot) \ Live(slot)
    BY Evicted, Zenon
  <2>2. ContsOf(t.slot) = {}
    BY <2>1 DEF ContsOf
  <2>3. SizeOf(t.slot, ContsOf(t.slot)) = 0 /\ Cardinality(ContsOf(t.slot)) = 0
    BY <2>2, SizeOfNone, FS_EmptySet, Zenon
  <2>4. contCount' = t.contCount /\ contBytes' = t.contBytes
    BY Zenon DEF Clear
  <2> HIDE DEF t
  <2> QED  BY <2>1, <2>3, <2>4 DEF Counted, Summed
<1>3. Inv'
  <2>1. Counted(e, clock)
    <3>1. /\ e.slot = slot' /\ e.count = 0 /\ e.bytes = 0
          /\ e.contCount = 0 /\ e.contBytes = 0
      OBVIOUS
    <3> HIDE DEF e
    <3> QED  BY <1>1, <3>1, EmptyCounted, Zenon
  <2>2. Commit(e) /\ clock \in Nat
    BY <1>1, <1>2 DEF Commit, Inv
  <2> HIDE DEF e
  <2> QED  BY <1>1, <2>1, <2>2, CommitInv, Zenon
<1>4. Map!Clear
  <2>1. Live(slot') = {}
    BY <1>1, EmptyTable, Zenon
  <2> QED  BY <2>1, SMTT(60) DEF Map!Clear
<1> QED
  BY <1>3, <1>4, SMTT(60) DEF MapStep, Map!Next

LEMMA InitInv == Init => Inv /\ Map!Init
<1> SUFFICES ASSUME Init  PROVE Inv /\ Map!Init
  OBVIOUS
<1>1. Good(slot) /\ Live(slot) = {} /\ Cardinality(Live(slot)) = 0
  BY EmptyTable, SMTT(60) DEF Init
<1>2. Counted(Table, clock) /\ Table.slot = slot /\ Table.count = count
  <2>1. /\ Table.slot = slot /\ Table.count = 0 /\ Table.bytes = 0
        /\ Table.contCount = 0 /\ Table.contBytes = 0 /\ count = 0
    BY DEF Init, Table
  <2>2. slot = [i \in Slots |-> Blank("empty")]
    BY DEF Init
  <2> QED  BY <2>1, <2>2, EmptyCounted, Zenon
<1>3. clock \in Nat
  BY DEF Init
<1>4. Inv
  BY <1>2, <1>3, Zenon DEF Inv, Counted, EntryBudget
<1> QED
  BY <1>1, <1>4 DEF Map!Init

LEMMA NextInv == Inv /\ [Next]_vars => Inv' /\ MapStep
<1> SUFFICES ASSUME Inv, [Next]_vars  PROVE Inv' /\ MapStep
  OBVIOUS
<1>1. ASSUME NEW k \in Keys, Lookup(k)  PROVE Inv' /\ MapStep
  BY <1>1, FoundIsEntry, TouchImplements, SMTT(60) DEF Lookup
<1>2. ASSUME NEW c \in Conts, LookupContinuation(c)  PROVE Inv' /\ MapStep
  <2>1. PICK i \in ContSlot(slot, c) : Touch(i)
    BY <1>2 DEF LookupContinuation
  <2>2. i \in Live(slot)
    BY DEF ContSlot
  <2> QED  BY <2>1, <2>2, TouchImplements, SMTT(60)
<1>3. CASE UNCHANGED vars
  <2>1. Commit(Table) /\ clock' = clock /\ clock \in Nat
    BY <1>3 DEF vars, Commit, Table, Inv
  <2>2. Counted(Table, clock)
    BY DEF Inv, Counted, Table, EntryBudget
  <2> QED  BY <1>3, <2>1, <2>2, CommitInv, Zenon DEF vars, MapStep, Held, Live, Item
<1> QED
  BY <1>1, <1>2, <1>3, CompileStep, StoreContinuationStep, InvalidateStep, ClearStep, SMTT(60) DEF Next

-----------------------------------------------------------------------------
(* What evict_lru takes *)

\* A score is a number, however old, large or popular the entry is.
LEMMA ScoreNat ==
  ASSUME Inv, NEW i \in Live(slot)
  PROVE  Score(i) \in Int /\ slot[i].stamp \in Nat
<1> DEFINE e == slot[i]
           n == (clock - e.stamp + 1) * (1 + e.size) * 1024
           r == IF e.cont # Null THEN 4 + Smaller(e.hits, 12) ELSE 1 + Smaller(e.hits, 3)
<1>1. e.size \in Nat /\ e.hits \in Nat /\ e.stamp \in Nat /\ clock \in Nat
  BY DEF Inv, Good, Live, Entries
<1>2. r \in Nat \ {0}
  BY <1>1 DEF Smaller
<1>3. n \in Int
  <2>1. clock - e.stamp + 1 \in Int /\ 1 + e.size \in Int
    BY <1>1
  <2> QED  BY <2>1
<1>4. Score(i) = n \div r
  BY DEF Score
<1> HIDE DEF n, r
<1>5. n \div r \in Int
  BY <1>2, <1>3
<1> QED
  BY <1>1, <1>4, <1>5

\* The order in which entries are evicted is total, and no entry precedes itself.
LEMMA WorseOrders ==
  ASSUME Inv, NEW i \in Live(slot), NEW j \in Live(slot)
  PROVE  /\ i \notin Worse(i)
         /\ i = j \/ i \in Worse(j) \/ j \in Worse(i)
         /\ j \in Worse(i) => Worse(j) \subseteq Worse(i)
<1>1. \A k \in Live(slot) : Score(k) \in Int /\ slot[k].stamp \in Nat
  BY ScoreNat
<1>2. slot[i].stamp = slot[j].stamp => i = j
  BY DEF Inv, Stamped
<1> QED
  BY <1>1, <1>2 DEF Worse

LEMMA WorseCounts ==
  ASSUME Inv, NEW S, NEW T, S \subseteq T, T \subseteq Live(slot)
  PROVE  /\ Cardinality(S) \in Nat /\ Cardinality(T) \in Nat /\ Cardinality(S) <= Cardinality(T)
         /\ SizeOf(slot, S) \in Nat /\ SizeOf(slot, T) \in Nat
         /\ SizeOf(slot, S) <= SizeOf(slot, T)
         /\ Cardinality(S) = Cardinality(T) => S = T
<1>1. IsFiniteSet(T)
  BY LiveFinite, FS_Subset
<1>2. IsFiniteSet(S) /\ Cardinality(S) <= Cardinality(T) /\ (Cardinality(S) = Cardinality(T) => S = T)
  BY <1>1, FS_Subset, Zenon
<1>3. slot \in [Slots -> Entries] /\ T \subseteq Slots /\ S \subseteq Slots
  BY DEF Inv, Good, Live
<1> QED
  BY <1>1, <1>2, <1>3, FS_CardinalityType, SizeOfRest, BlocksFinite

\* What the loop of Compile and StoreContinuation evicts makes room: the entries
\* that precede the first survivor, or all of them.
LEMMA EvictionMakesRoom ==
  ASSUME Inv, NEW s \in Nat, s <= MaxBytes
  PROVE  LET V == Victims(s) IN
         Fits(count - Cardinality(V), bytes - SizeOf(slot, V), s)
<1> DEFINE V == Victims(s)
           L == Live(slot)
           Rest == L \ V
           Ok(S) == Fits(count - Cardinality(S), bytes - SizeOf(slot, S), s)
<1>1. V = {i \in L : ~Ok(Worse(i))}
  BY DEF Victims
<1>2. \A i : Worse(i) \subseteq L
  BY DEF Worse
<1>3. /\ count = Cardinality(L) /\ bytes = SizeOf(slot, L)
      /\ MaxBytes \in Nat /\ MaxEntries \in Nat \ {0}
      /\ count \in Nat /\ bytes \in Nat
  <2>1. count = Cardinality(L) /\ bytes = SizeOf(slot, L)
    BY DEF Inv, EntryBudget, Summed, Table
  <2>2. Cardinality(L) \in Nat /\ SizeOf(slot, L) \in Nat
    BY WorseCounts
  <2> QED  BY <2>1, <2>2, TableAssumption
<1>4. ASSUME NEW S, NEW T, S \subseteq T, T \subseteq L, Ok(S)  PROVE Ok(T)
  <2>1. /\ Cardinality(S) \in Nat /\ Cardinality(T) \in Nat /\ Cardinality(S) <= Cardinality(T)
        /\ SizeOf(slot, S) \in Nat /\ SizeOf(slot, T) \in Nat
        /\ SizeOf(slot, S) <= SizeOf(slot, T)
    BY <1>4, WorseCounts
  <2> QED  BY <1>3, <1>4, <2>1 DEF Fits
<1>5. CASE Rest = {}
  <2>1. V = L
    BY <1>1, <1>5
  <2>2. Ok(L)
    BY <1>3 DEF Fits
  <2> QED  BY <2>1, <2>2, Zenon
<1>6. CASE Rest # {}
  <2> DEFINE N == {Cardinality(Worse(i)) : i \in Rest}
  <2>1. N # {} /\ N \subseteq Nat
    BY <1>2, <1>6, WorseCounts
  <2>2. PICK d \in N : \A n \in N : d <= n
    <3> HIDE DEF N
    <3> QED  BY <2>1, LeastNatural, Zenon
  <2>3. PICK i \in Rest : d = Cardinality(Worse(i))
    OBVIOUS
  <2>4. \A j \in Rest : Cardinality(Worse(i)) <= Cardinality(Worse(j))
    BY <2>2, <2>3
  <2> HIDE DEF Ok
  <2>5. Ok(Worse(i)) /\ i \in L
    BY <1>1
  <2>6. Worse(i) \subseteq V
    <3>1. SUFFICES ASSUME NEW j \in Worse(i), j \in Rest  PROVE FALSE
      BY <1>2
    <3>2. j \in L /\ j \notin Worse(j) /\ Worse(j) \subseteq Worse(i)
      BY <2>5, <3>1, WorseOrders
    <3>3. /\ Cardinality(Worse(j)) \in Nat /\ Cardinality(Worse(i)) \in Nat
          /\ Cardinality(Worse(j)) <= Cardinality(Worse(i))
          /\ Cardinality(Worse(j)) = Cardinality(Worse(i)) => Worse(j) = Worse(i)
      BY <1>2, <3>2, WorseCounts
    <3>4. Worse(j) = Worse(i)
      BY <2>4, <3>1, <3>3
    <3> QED  BY <3>1, <3>2, <3>4, Zenon
  <2>7. V \subseteq L
    BY <1>1, Zenon
  <2> HIDE DEF V
  <2>8. Ok(V)
    BY <1>4, <2>5, <2>6, <2>7, Zenon
  <2> QED  BY <2>8 DEF Ok, V
<1> QED
  BY <1>5, <1>6

-----------------------------------------------------------------------------
(* Theorems *)

\* In every reachable table, whatever the hash function and however many
\* tombstones there are, find_slot ends at the entry of every cached key.
THEOREM TableProbes == Spec => []ProbeFindsLive
<1>1. Inv => ProbeFindsLive
  BY ProbeFinds, SMTT(60) DEF Inv, ProbeFindsLive
<1> QED
  BY <1>1, InitInv, NextInv, PTL DEF Spec

\* count is the number of live entries and stays within maximum_entries, so
\* that the decrement in remove_slot never wraps.
THEOREM TableBudget == Spec => []EntryBudget
<1>1. Inv => EntryBudget
  BY SMTT(60) DEF Inv
<1> QED
  BY <1>1, InitInv, NextInv, PTL DEF Spec

\* Every live entry is a function or a continuation, and
\* TurboJS_CodeCacheStoreContinuation never stores an identity twice.
THEOREM TableKinds == Spec => []OneKindEach
<1>1. Inv => OneKindEach
  BY ZenonT(60) DEF Inv, Good, Kinds, OneKindEach
<1> QED
  BY <1>1, InitInv, NextInv, PTL DEF Spec

\* Below the entry budget Compile and StoreContinuation always find a slot,
\* even when tombstones have used up every empty one: next_pow2 gives the table
\* at least twice as many slots as the budget allows entries.
THEOREM TableHasRoom == Spec => []SlotForInsert
<1>1. ASSUME Inv, count < MaxEntries  PROVE Live(slot) # Slots
  <2>1. Cardinality(Slots) = SlotCount
    BY FS_Interval, TableAssumption, SMTT(60) DEF Slots
  <2> QED  BY <1>1, <2>1, TableAssumption, SMTT(60) DEF Inv, EntryBudget
<1>2. Inv => SlotForInsert
  BY <1>1, InsertFindsSlot, FirstFreeSlot, SMTT(60) DEF SlotForInsert, Inv, Good
<1> QED
  BY <1>2, InitInv, NextInv, PTL DEF Spec

\* code_bytes and the statistics are exact and within their budgets, every live
\* entry has one name, and no two were last used at the same time: the unsigned
\* subtractions of remove_slot and of the budget tests never wrap.
THEOREM TableConsistent == Spec => []Consistent
<1>1. ASSUME Inv  PROVE Consistent
  <2>1. TypeOK
    <3>1. Cardinality(Live(slot)) \in Nat /\ SizeOf(slot, Live(slot)) \in Nat
      BY <1>1, WorseCounts
    <3> QED  BY <1>1, <3>1 DEF Inv, Good, Entries, EntryBudget, Summed, Table, TypeOK
  <2>2. OneKindEach
    BY <1>1, ZenonT(60) DEF Inv, Good, Kinds, OneKindEach
  <2>3. StampsUnique
    BY <1>1 DEF Inv, Stamped, StampsUnique
  <2>4. Accounting
    <3>1. ByteBudget
      BY <1>1 DEF Inv, Summed, Table, ByteBudget
    <3>2. ContinuationStats
      BY <1>1 DEF Inv, Summed, Table, ContsOf, ContinuationStats
    <3> QED  BY <1>1, <3>1, <3>2 DEF Inv, Accounting
  <2> QED  BY <2>1, <2>2, <2>3, <2>4 DEF Consistent
<1> QED
  BY <1>1, InitInv, NextInv, PTL DEF Spec

\* Compile and StoreContinuation never refuse code that fits the whole budget:
\* eviction in the order of the scores stops with enough room, and then a probe
\* finds a slot.
THEOREM TableCachesWhatFits == Spec => []FittingCodeCached
<1>1. ASSUME Inv, NEW s \in Sizes, s <= MaxBytes
      PROVE  LET t == Removed(Table, Victims(s)) IN
             /\ Fits(t.count, t.bytes, s) /\ FirstFree(t.slot) # None
             /\ \A k \in Keys : FindForInsert(t.slot, k) # None
  <2> DEFINE t == Removed(Table, Victims(s))
  <2>1. Victims(s) \subseteq Live(slot) /\ s \in Nat
    BY TableAssumption DEF Victims
  <2>2. t.count = count - Cardinality(Victims(s)) /\ t.bytes = bytes - SizeOf(slot, Victims(s))
    BY DEF Removed, Table
  <2>3. Fits(t.count, t.bytes, s)
    BY <1>1, <2>1, <2>2, EvictionMakesRoom, Zenon
  <2>4. Counted(t, clock)
    BY <1>1, <2>1, Evicted, Zenon
  <2> HIDE DEF t
  <2>5. Live(t.slot) # Slots /\ t.slot \in [Slots -> Entries]
    <3>1. Cardinality(Slots) = SlotCount
      BY FS_Interval, TableAssumption, SMTT(60) DEF Slots
    <3>2. Cardinality(Live(t.slot)) # SlotCount
      BY <2>3, <2>4, TableAssumption DEF Counted, Fits
    <3> QED  BY <2>4, <3>1, <3>2, Zenon DEF Counted, Good
  <2> QED  BY <2>3, <2>5, InsertFindsSlot, FirstFreeSlot, Zenon DEF t
<1>2. Inv => FittingCodeCached
  BY <1>1, Zenon DEF FittingCodeCached
<1> QED
  BY <1>2, InitInv, NextInv, PTL DEF Spec

\* The slot table implements the bounded map: probing, tombstones, ageing and
\* failed insertions are invisible to the users of the cache.
THEOREM TableImplementsMap == Spec => ImplementsMap
<1>1. MapStep => [Map!Next]_{IF slot[i].cont = Null THEN slot[i].key ELSE slot[i].cont : i \in Live(slot)}
  BY Zenon DEF MapStep, Held, Item
<1> QED
  BY <1>1, InitInv, NextInv, PTL DEF Spec, ImplementsMap, Map!Spec
=============================================================================
