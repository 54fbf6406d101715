--------------------------- MODULE SpoolOpsProofs ---------------------------
(*****************************************************************************)
(* The tiers: what a call does to the bytecode and to the two Vaults keeps the*)
(* runtime good, moves it forward and compiles no mode twice in vain.        *)
(*****************************************************************************)
EXTENDS SpoolInductive

-----------------------------------------------------------------------------
(* The operations of a Vault, without call sites *)

\* From v to w, an operation for bytecode k in the Vault of mode m.
VaultStep(v, w, k, m) ==
  /\ w \in Vaults
  /\ GoodVault(w) /\ OwnEntries(w, m)
  /\ Advances(v, w)
  /\ \A j \in Keys \ {k} :
       /\ EntryOf(w, j) \subseteq EntryOf(v, j)
       /\ w.handle[j].function # Null => v.handle[j].function # Null

LEMMA LookedUpStep ==
  ASSUME NEW m \in Kinds, NEW v, GoodVault(v), OwnEntries(v, m), NEW k \in Keys,
         NEW f \in EntryOf(v, k)
  PROVE  LET w == LookedUp(v, f) IN
         /\ VaultStep(v, w, k, m)
         /\ \A j \in Keys : EntryOf(w, j) = EntryOf(v, j)
         /\ w.handle = v.handle
<1> DEFINE w == LookedUp(v, f)
<1>1. v \in Vaults /\ f \in v.live /\ v.entry[f].cont = Null
  BY DEF GoodVault, EntryOf
<1>2. w.live = v.live /\ w.entry = v.entry /\ w.handle = v.handle
  BY <1>1 DEF LookedUp, Vaults
<1>3. GoodVault(w)
  BY <1>1, LookedUpGood
<1> HIDE DEF w
<1>4. Advances(v, w)
  BY <1>1, <1>2, SameHandlesAdvance
<1>5. \A j \in Keys : EntryOf(w, j) = EntryOf(v, j)
  BY <1>2 DEF EntryOf
<1>6. OwnEntries(w, m)
  BY <1>2, Zenon DEF OwnEntries
<1>7. w \in Vaults
  BY <1>3 DEF GoodVault
<1> QED BY <1>2, <1>3, <1>4, <1>5, <1>6, <1>7, Zenon DEF VaultStep, w

LEMMA CompiledStep ==
  ASSUME NEW m \in Kinds, NEW v, GoodVault(v), OwnEntries(v, m), NEW k \in Keys,
         NEW g \in Functions \ v.live, NEW V \in SUBSET v.live
  PROVE  LET w == Compiled(v, k, g, {}, V, "ok") IN
         /\ VaultStep(v, w, k, m)
         /\ g \in EntryOf(w, k)
         /\ w.handle[k].function # Null => v.handle[k].function # Null
<1> DEFINE u == RemoveAll(v, V)
           e == [NoEntry EXCEPT !.key = k, !.sites = {}]
           r == Registered(e, "ok")
           x == Inserted(u, g, e, "ok")
           w == Compiled(v, k, g, {}, V, "ok")
<1>1. V \in SUBSET Functions /\ "ok" \in Outcomes /\ {} \in SUBSET Sites
  BY DEF GoodVault, Vaults, Outcomes
<1>2. /\ u \in Vaults /\ GoodVault(u) /\ OwnEntries(u, m) /\ Advances(v, u)
      /\ u.live = v.live \ V
      /\ \A j \in Keys :
           /\ EntryOf(u, j) = EntryOf(v, j) \ V
           /\ u.handle[j].function # Null => v.handle[j].function # Null
  BY <1>1, SpoolAssumption, RemoveAllStep, SMTT(30)
<1>3. e \in Entries /\ e.key = k /\ e.cont = Null /\ e.handle = Null /\ e.sites = {}
  BY Zenon DEF NoEntry, Entries
<1> HIDE DEF u, e
<1>4. /\ r \in Entries /\ r.key = k /\ r.cont = Null /\ r.handle = Null /\ r.sites = {}
  BY <1>1, <1>3, RegisteredType, Zenon
<1>5. w = LookedUp(x, g)
  BY DEF Compiled, u, e
<1>6. /\ x.live = u.live \cup {g} /\ x.entry = [u.entry EXCEPT ![g] = r]
      /\ x.handle = u.handle /\ x \in Vaults
  BY <1>2, <1>4, Zenon DEF Inserted, Vaults
<1>7. w.live = u.live \cup {g} /\ w.entry = [u.entry EXCEPT ![g] = r] /\ w.handle = u.handle
  <2> HIDE DEF x, r, w
  <2> QED BY <1>5, <1>6, Zenon DEF LookedUp, Vaults
<1>8. GoodVault(w) /\ Advances(v, w)
  BY <1>1, CompiledGood, CompiledAdvances, Zenon
<1> HIDE DEF r, x, w
<1>9. u.entry \in [Functions -> Entries] /\ u.live \in SUBSET Functions
  BY <1>2 DEF Vaults
<1>10. /\ w.entry[g] = r
       /\ \A f \in Functions \ {g} : w.entry[f] = u.entry[f]
  BY <1>7, <1>9, Zenon
<1>11. OwnEntries(w, m)
  <2>1. ASSUME NEW f \in w.live
        PROVE  /\ w.entry[f].cont = Null /\ w.entry[f].key \in Keys
               /\ w.entry[f].handle \in {Null, w.entry[f].key}
               /\ w.entry[f].sites = {}
    <3>1. CASE f = g
      BY <3>1, <1>4, <1>10
    <3>2. CASE f # g
      <4>1. f \in u.live /\ w.entry[f] = u.entry[f]
        BY <3>2, <1>7, <1>9, <1>10
      <4> QED BY <4>1, <1>2, Zenon DEF OwnEntries
    <3> QED BY <3>1, <3>2
  <2>2. \A j \in Keys : w.handle[j].function # Null => w.handle[j].kind = m
    BY <1>2, <1>7, Zenon DEF OwnEntries
  <2> QED BY <2>1, <2>2, Zenon DEF OwnEntries
<1>12. g \in EntryOf(w, k)
  BY <1>4, <1>7, <1>10, Zenon DEF EntryOf
<1>13. ASSUME NEW j \in Keys \ {k}
       PROVE  EntryOf(w, j) \subseteq EntryOf(v, j)
  <2>1. g \notin EntryOf(w, j)
    BY <1>4, <1>10 DEF EntryOf
  <2>2. EntryOf(w, j) \subseteq EntryOf(u, j)
    BY <2>1, <1>7, <1>9, <1>10 DEF EntryOf
  <2> QED BY <2>2, <1>2
<1>14. \A j \in Keys : w.handle[j].function # Null => v.handle[j].function # Null
  BY <1>2, <1>7, Zenon
<1>15. w \in Vaults
  BY <1>8 DEF GoodVault
<1> QED BY <1>8, <1>11, <1>12, <1>13, <1>14, <1>15, Zenon DEF VaultStep, w

LEMMA AttachedStep ==
  ASSUME NEW m \in Kinds, NEW v, GoodVault(v), OwnEntries(v, m), NEW k \in Keys,
         NEW f \in EntryOf(v, k)
  PROVE  LET w == Attached(v, f, k, m, 1) IN
         /\ VaultStep(v, w, k, m)
         /\ \A j \in Keys : EntryOf(w, j) = EntryOf(v, j)
<1> DEFINE w == Attached(v, f, k, m, 1)
           hnd == [x \in Handles |->
             IF x = k THEN Published(v.handle[k], f, m, 1)
             ELSE IF x = v.entry[f].handle /\ v.handle[x].function = f
               THEN Invalidated(v.handle[x])
             ELSE v.handle[x]]
           ent == [v.entry EXCEPT ![f].handle = k]
<1>1. /\ v \in Vaults /\ v.live \in SUBSET Functions
      /\ v.entry \in [Functions -> Entries]
      /\ v.handle \in [Handles -> HandleRecords]
      /\ f \in v.live /\ f \in Functions
      /\ v.entry[f].cont = Null /\ v.entry[f].key = k
  BY DEF GoodVault, Vaults, EntryOf
<1>2. k \in Handles /\ 1 \in ArgCounts /\ Handles = Keys
  BY SpoolAssumption
<1>3. GoodVault(w) /\ Advances(v, w) /\ w.live = v.live /\ w.handle[k].kind = m
  <2>1. GoodVault(w) /\ w.live = v.live /\ w.handle[k].kind = m
    BY <1>1, <1>2, AttachedGood, SMT
  <2>2. Advances(v, w)
    BY <1>1, <1>2, AttachedAdvances, SMT
  <2> QED BY <2>1, <2>2
<1>4. w.entry = ent /\ w.handle = hnd
  BY <1>1 DEF Attached, Vaults
<1>5. /\ \A g \in Functions : /\ ent[g].key = v.entry[g].key /\ ent[g].cont = v.entry[g].cont
                              /\ ent[g].sites = v.entry[g].sites
                              /\ g # f => ent[g] = v.entry[g]
      /\ ent[f].handle = k
  BY <1>1 DEF Entries
<1>6. ASSUME NEW j \in Keys \ {k}, hnd[j].function # Null
      PROVE  hnd[j] = v.handle[j]
  BY <1>1, <1>2, <1>6, InvalidatedType
<1> HIDE DEF w, ent, hnd
<1>7. ASSUME NEW j \in Keys PROVE EntryOf(w, j) = EntryOf(v, j)
  BY <1>1, <1>3, <1>4, <1>5 DEF EntryOf
<1>8. OwnEntries(w, m)
  <2>1. ASSUME NEW g \in w.live
        PROVE  /\ w.entry[g].cont = Null /\ w.entry[g].key \in Keys
               /\ w.entry[g].handle \in {Null, w.entry[g].key}
               /\ w.entry[g].sites = {}
    <3>1. /\ g \in v.live /\ g \in Functions
          /\ v.entry[g].cont = Null /\ v.entry[g].key \in Keys
          /\ v.entry[g].handle \in {Null, v.entry[g].key}
          /\ v.entry[g].sites = {}
      BY <1>1, <1>3, Zenon DEF OwnEntries
    <3>2. /\ w.entry[g].key = v.entry[g].key /\ w.entry[g].cont = v.entry[g].cont
          /\ w.entry[g].sites = v.entry[g].sites
      BY <3>1, <1>4, <1>5
    <3>3. w.entry[g].handle \in {k, v.entry[g].handle}
      BY <3>1, <1>4, <1>5
    <3>4. w.entry[g].handle = k => g = f \/ w.entry[g].handle = v.entry[g].handle
      BY <3>1, <1>4, <1>5
    <3> QED BY <3>1, <3>2, <3>3, <3>4, <1>1
  <2>2. ASSUME NEW j \in Keys, w.handle[j].function # Null
        PROVE  w.handle[j].kind = m
    <3>1. CASE j = k
      BY <3>1, <1>3
    <3>2. CASE j # k
      BY <3>2, <2>2, <1>4, <1>6 DEF OwnEntries
    <3> QED BY <3>1, <3>2
  <2> QED BY <2>1, <2>2, ZenonT(60) DEF OwnEntries
<1>9. \A j \in Keys \ {k} : w.handle[j].function # Null => v.handle[j].function # Null
  BY <1>4, <1>6, Zenon
<1>10. w \in Vaults
  BY <1>3 DEF GoodVault
<1> QED BY <1>3, <1>7, <1>8, <1>9, <1>10, Zenon DEF VaultStep, w

LEMMA SameVaultStep ==
  ASSUME NEW m \in Kinds, NEW v, GoodVault(v), OwnEntries(v, m), NEW k \in Keys
  PROVE  VaultStep(v, v, k, m)
<1>1. v \in Vaults
  BY DEF GoodVault
<1>2. Advances(v, v)
  BY <1>1, SameHandlesAdvance
<1> QED BY <1>1, <1>2, Zenon DEF VaultStep

-----------------------------------------------------------------------------
(* The runtime *)

LEMMA RuntimeFields ==
  ASSUME NEW r, GoodRuntime(r), NEW m \in Kinds, NEW k \in Keys
  PROVE  /\ r \in Runtimes /\ r.nextId \in Nat
         /\ r.fn \in [Keys -> FunctionRecords] /\ r.vault \in [Kinds -> Vaults]
         /\ r.fn[k] \in FunctionRecords /\ r.fn[k].id \in Nat /\ r.fn[k].id <= r.nextId
         /\ GoodVault(r.vault[m]) /\ OwnEntries(r.vault[m], m) /\ r.vault[m] \in Vaults
         /\ GoodFunction(r, k, m)
<1>1. r \in Runtimes /\ r.fn[k].id <= r.nextId /\ GoodFunction(r, k, m)
      /\ GoodVault(r.vault[m]) /\ OwnEntries(r.vault[m], m)
  BY Zenon DEF GoodRuntime
<1>2. /\ r.fn \in [Keys -> FunctionRecords] /\ r.vault \in [Kinds -> Vaults]
      /\ r.nextId \in Nat
  BY <1>1 DEF Runtimes
<1>3. r.fn[k] \in FunctionRecords /\ r.fn[k].id \in Nat
  BY <1>2 DEF FunctionRecords
<1>4. r.vault[m] \in Vaults
  BY <1>2
<1> QED BY <1>1, <1>2, <1>3, <1>4

\* A step of bytecode k in one Vault that may hand k a new identity.
RuntimeStep(r, q, k, m, w) ==
  /\ q \in Runtimes
  /\ VaultStep(r.vault[m], w, k, m)
  /\ q.vault = [r.vault EXCEPT ![m] = w]
  /\ q.nextId >= r.nextId
  /\ \A j \in Keys \ {k} : q.fn[j] = r.fn[j]
  /\ \/ q.fn[k].id = r.fn[k].id
     \/ q.fn[k].id > r.nextId /\ q.fn[k].id <= q.nextId

LEMMA RuntimeStepVaults ==
  ASSUME NEW r, GoodRuntime(r), NEW q, NEW k \in Keys, NEW m \in Kinds, NEW w,
         RuntimeStep(r, q, k, m, w)
  PROVE  /\ q.vault[m] = w
         /\ \A n \in Kinds \ {m} : q.vault[n] = r.vault[n]
         /\ \A n \in Kinds : VaultStep(r.vault[n], q.vault[n], k, n)
<1>1. r.vault \in [Kinds -> Vaults]
  BY RuntimeFields
<1>2. /\ q.vault[m] = w
      /\ \A n \in Kinds \ {m} : q.vault[n] = r.vault[n]
  BY <1>1, Zenon DEF RuntimeStep
<1>3. ASSUME NEW n \in Kinds PROVE VaultStep(r.vault[n], q.vault[n], k, n)
  <2>1. CASE n = m
    BY <2>1, <1>2, Zenon DEF RuntimeStep
  <2>2. CASE n # m
    <3>1. GoodVault(r.vault[n]) /\ OwnEntries(r.vault[n], n) /\ q.vault[n] = r.vault[n]
      BY <2>2, <1>2, RuntimeFields, Zenon
    <3> QED BY <3>1, SameVaultStep, Zenon
  <2> QED BY <2>1, <2>2
<1> QED BY <1>2, <1>3, Zenon

LEMMA RuntimeStepGood ==
  ASSUME NEW r, GoodRuntime(r), NEW q, NEW k \in Keys, NEW m \in Kinds, NEW w,
         RuntimeStep(r, q, k, m, w), \A n \in Kinds : GoodFunction(q, k, n)
  PROVE  GoodRuntime(q) /\ Later(r, q)
<1>1. /\ r.nextId \in Nat /\ q.nextId \in Nat /\ q.nextId >= r.nextId
      /\ q \in Runtimes
  BY RuntimeFields, SMT DEF RuntimeStep, Runtimes
<1>2. ASSUME NEW j \in Keys
      PROVE  /\ r.fn[j].id \in Nat /\ r.fn[j].id <= r.nextId
             /\ q.fn[j].id \in Nat /\ q.fn[j].id <= q.nextId
             /\ q.fn[j].id = r.fn[j].id \/ (j = k /\ q.fn[j].id > r.nextId)
  <2>1. r.fn[j].id \in Nat /\ r.fn[j].id <= r.nextId
    BY RuntimeFields
  <2>2. q.fn[j].id \in Nat
    BY <1>1 DEF Runtimes, FunctionRecords
  <2>3. \/ q.fn[j].id = r.fn[j].id
        \/ j = k /\ q.fn[j].id > r.nextId /\ q.fn[j].id <= q.nextId
    BY SMTT(30) DEF RuntimeStep
  <2> QED BY <1>1, <2>1, <2>2, <2>3
<1>3. \A n \in Kinds : VaultStep(r.vault[n], q.vault[n], k, n)
  BY RuntimeStepVaults, Zenon
<1>4. Later(r, q)
  BY <1>1, <1>2, <1>3 DEF Later, VaultStep
<1>5. ASSUME NEW i \in Keys, NEW j \in Keys, i # j, q.fn[i].id # 0
      PROVE  q.fn[i].id # q.fn[j].id
  <2>1. r.fn[i].id # 0 => r.fn[i].id # r.fn[j].id
    BY <1>5, Zenon DEF GoodRuntime
  <2>2. /\ q.fn[i].id = r.fn[i].id \/ (i = k /\ q.fn[i].id > r.nextId)
        /\ q.fn[j].id = r.fn[j].id \/ (j = k /\ q.fn[j].id > r.nextId)
        /\ r.fn[i].id <= r.nextId /\ r.fn[j].id <= r.nextId
        /\ r.fn[i].id \in Nat /\ r.fn[j].id \in Nat
        /\ q.fn[i].id \in Nat /\ q.fn[j].id \in Nat
    BY <1>2
  <2> QED BY <1>1, <1>5, <2>1, <2>2
<1>6. ASSUME NEW j \in Keys, NEW n \in Kinds PROVE GoodFunction(q, j, n)
  <2>1. CASE j = k
    BY <2>1, SMTT(60)
  <2>2. CASE j # k
    <3>1. q.fn[j] = r.fn[j]
      BY <2>2 DEF RuntimeStep
    <3>2. /\ EntryOf(q.vault[n], j) \subseteq EntryOf(r.vault[n], j)
          /\ q.vault[n].handle[j].function # Null => r.vault[n].handle[j].function # Null
      BY <2>2, <1>3, Zenon DEF VaultStep
    <3>3. GoodFunction(r, j, n)
      BY RuntimeFields
    <3> QED BY <3>1, <3>2, <3>3 DEF GoodFunction
  <2> QED BY <2>1, <2>2
<1>7. \A n \in Kinds : GoodVault(q.vault[n]) /\ OwnEntries(q.vault[n], n)
  BY <1>3, Zenon DEF VaultStep
<1> QED BY <1>1, <1>2, <1>4, <1>5, <1>6, <1>7, ZenonT(60) DEF GoodRuntime

\* A call that only counts, or hands k an identity: what decides about code
\* stays as it was.
Quiet(r, q, k) ==
  /\ q \in Runtimes
  /\ q.vault = r.vault
  /\ q.nextId >= r.nextId
  /\ \A j \in Keys \ {k} : q.fn[j] = r.fn[j]
  /\ q.fn[k].alive = r.fn[k].alive
  /\ q.fn[k].reserved = r.fn[k].reserved
  /\ q.fn[k].attempted = r.fn[k].attempted
  /\ \/ q.fn[k].id = r.fn[k].id
     \/ q.fn[k].id > r.nextId /\ q.fn[k].id <= q.nextId

LEMMA QuietGood ==
  ASSUME NEW r, GoodRuntime(r), NEW k \in Keys, NEW q, Quiet(r, q, k)
  PROVE  GoodRuntime(q) /\ Later(r, q) /\ OneTry(r, q)
<1>1. Int32 \in Kinds
  BY SpoolAssumption
<1> DEFINE w == r.vault[Int32]
<1>2. r.vault \in [Kinds -> Vaults] /\ r.nextId \in Nat
      /\ GoodVault(w) /\ OwnEntries(w, Int32)
  BY <1>1, RuntimeFields
<1>3. RuntimeStep(r, q, k, Int32, w)
  <2>1. VaultStep(r.vault[Int32], w, k, Int32)
    BY <1>1, <1>2, SameVaultStep
  <2>2. [r.vault EXCEPT ![Int32] = w] = r.vault
    BY <1>1, <1>2
  <2> QED BY <2>1, <2>2, Zenon DEF RuntimeStep, Quiet
<1>4. ASSUME NEW n \in Kinds PROVE GoodFunction(q, k, n)
  <2>1. GoodFunction(r, k, n) /\ r.fn[k].id \in Nat
    BY RuntimeFields
  <2>2. r.fn[k].id # 0 => q.fn[k].id # 0
    BY <1>2, <2>1 DEF Quiet
  <2> QED BY <2>1, <2>2, Zenon DEF GoodFunction, Quiet
<1>5. GoodRuntime(q) /\ Later(r, q)
  BY <1>1, <1>3, <1>4, RuntimeStepGood
<1>6. OneTry(r, q)
  BY Zenon DEF OneTry, Quiet
<1> QED BY <1>5, <1>6

LEMMA FunctionSet ==
  ASSUME NEW r \in Runtimes, NEW k \in Keys, NEW f \in FunctionRecords
  PROVE  LET q == [r EXCEPT !.fn[k] = f] IN
         /\ q \in Runtimes
         /\ q.vault = r.vault /\ q.nextId = r.nextId
         /\ q.fn[k] = f
         /\ \A j \in Keys \ {k} : q.fn[j] = r.fn[j]
<1> DEFINE q == [r EXCEPT !.fn[k] = f]
           g == [r.fn EXCEPT ![k] = f]
<1>1. r.fn \in [Keys -> FunctionRecords] /\ r.vault \in [Kinds -> Vaults] /\ r.nextId \in Nat
  BY DEF Runtimes
<1>2. g \in [Keys -> FunctionRecords] /\ g[k] = f /\ \A j \in Keys \ {k} : g[j] = r.fn[j]
  BY <1>1
<1>3. q.fn = g /\ q.vault = r.vault /\ q.nextId = r.nextId
  BY Zenon DEF Runtimes
<1>4. q \in Runtimes
  BY <1>1, <1>2, ZenonT(60) DEF Runtimes
<1> QED BY <1>2, <1>3, <1>4, Zenon

LEMMA IdentifiedQuiet ==
  ASSUME NEW r, GoodRuntime(r), NEW k \in Keys
  PROVE  LET q == Identified(r, k) IN
         /\ Quiet(r, q, k)
         /\ q.fn[k].id # 0
         /\ q.fn[k].leaf = r.fn[k].leaf /\ q.fn[k].region = r.fn[k].region
<1> DEFINE q == Identified(r, k)
           i == r.nextId + 1
           f == [r.fn[k] EXCEPT !.id = i]
           g == [r.fn EXCEPT ![k] = f]
<1>1. /\ r \in Runtimes /\ r.fn \in [Keys -> FunctionRecords] /\ r.vault \in [Kinds -> Vaults]
      /\ r.nextId \in Nat /\ r.fn[k] \in FunctionRecords
  <2>1. Int32 \in Kinds
    BY SpoolAssumption, SMTT(60)
  <2> QED BY <2>1, RuntimeFields
<1>2. CASE r.fn[k].id # 0
  <2>1. q = r
    BY <1>2, SMTT(60) DEF Identified
  <2> QED BY <1>1, <1>2, <2>1, SMT DEF Quiet
<1>3. CASE r.fn[k].id = 0
  <2>0. i \in Nat /\ i # 0 /\ i > r.nextId /\ i <= i /\ i >= r.nextId
    BY <1>1
  <2> HIDE DEF i
  <2>1. /\ f \in FunctionRecords /\ f.id = i /\ f.alive = r.fn[k].alive
        /\ f.reserved = r.fn[k].reserved /\ f.attempted = r.fn[k].attempted
        /\ f.leaf = r.fn[k].leaf /\ f.region = r.fn[k].region
    BY <1>1, <2>0, Zenon DEF FunctionRecords
  <2> HIDE DEF f
  <2>2. g \in [Keys -> FunctionRecords] /\ g[k] = f /\ \A j \in Keys \ {k} : g[j] = r.fn[j]
    BY <1>1, <2>1, Zenon
  <2> HIDE DEF g
  <2>3. q = [r EXCEPT !.nextId = i, !.fn = g]
    BY <1>3, Zenon DEF Identified, i, f, g
  <2> HIDE DEF q
  <2>4. q \in Runtimes /\ q.fn = g /\ q.vault = r.vault /\ q.nextId = i
    BY <1>1, <2>0, <2>2, <2>3, Zenon DEF Runtimes
  <2> QED BY <2>0, <2>1, <2>2, <2>4, SMTT(60) DEF Quiet, q
<1> QED BY <1>2, <1>3

LEMMA FunctionSetQuiet ==
  ASSUME NEW r, GoodRuntime(r), NEW k \in Keys, NEW f \in FunctionRecords,
         f.alive = r.fn[k].alive, f.reserved = r.fn[k].reserved,
         f.attempted = r.fn[k].attempted, f.id = r.fn[k].id
  PROVE  Quiet(r, [r EXCEPT !.fn[k] = f], k)
<1> DEFINE q == [r EXCEPT !.fn[k] = f]
<1>1. r \in Runtimes /\ r.nextId \in Nat
  BY DEF GoodRuntime, Runtimes
<1>2. /\ q \in Runtimes /\ q.vault = r.vault /\ q.nextId = r.nextId
      /\ q.fn[k] = f /\ \A j \in Keys \ {k} : q.fn[j] = r.fn[j]
  BY <1>1, FunctionSet, ZenonT(60)
<1> HIDE DEF q
<1>3. q.nextId >= r.nextId
  BY <1>1, <1>2
<1> QED BY <1>2, <1>3, Zenon DEF Quiet, q

LEMMA RegionCallQuiet ==
  ASSUME NEW r, GoodRuntime(r), NEW k \in Keys, NEW arg, NEW o \in RegionCall(r, k, arg)
  PROVE  Quiet(r, o.r, k)
<1> DEFINE f == r.fn[k]
           f1 == [f EXCEPT !.calls = f.calls + 1]
           f2 == [f1 EXCEPT !.region = TRUE]
           counted == [r EXCEPT !.fn[k].calls = @ + 1]
           compiled == [counted EXCEPT !.fn[k].region = TRUE]
<1>1. r \in Runtimes /\ f \in FunctionRecords /\ r.fn \in [Keys -> FunctionRecords]
  BY DEF GoodRuntime, Runtimes
<1>2. Quiet(r, r, k)
  BY <1>1 DEF Quiet, Runtimes
<1>3. ASSUME f.calls # RegionThreshold
      PROVE  Quiet(r, counted, k) /\ Quiet(r, compiled, k)
  <2>1. f.calls + 1 \in 0..RegionThreshold
    BY <1>1, <1>3, SpoolAssumption DEF FunctionRecords
  <2>2. /\ f1 \in FunctionRecords /\ f1.alive = f.alive /\ f1.reserved = f.reserved
        /\ f1.attempted = f.attempted /\ f1.id = f.id
    BY <1>1, <2>1, Zenon DEF FunctionRecords
  <2>3. counted = [r EXCEPT !.fn[k] = f1]
    BY Zenon
  <2>4. Quiet(r, counted, k)
    BY <2>2, <2>3, FunctionSetQuiet, Zenon
  <2> HIDE DEF f1
  <2>5. /\ f2 \in FunctionRecords /\ f2.alive = f.alive /\ f2.reserved = f.reserved
        /\ f2.attempted = f.attempted /\ f2.id = f.id
    BY <2>2, Zenon DEF FunctionRecords
  <2>6. counted.fn = [r.fn EXCEPT ![k] = f1]
    BY <1>1, <2>3, Zenon DEF Runtimes
  <2>7. compiled = [counted EXCEPT !.fn[k] = f2]
    <3>1. counted.fn[k] = f1
      BY <1>1, <2>6, Zenon
    <3> HIDE DEF counted
    <3> QED BY <3>1, Zenon
  <2>8. [counted EXCEPT !.fn[k] = f2] = [r EXCEPT !.fn[k] = f2]
    <3>1. [counted.fn EXCEPT ![k] = f2] = [r.fn EXCEPT ![k] = f2]
      <4> HIDE DEF f2, counted
      <4> QED BY <1>1, <2>6
    <3>2. [counted EXCEPT !.fn = [counted.fn EXCEPT ![k] = f2]]
          = [r EXCEPT !.fn = [counted.fn EXCEPT ![k] = f2]]
      <4> DEFINE G == [counted.fn EXCEPT ![k] = f2]
      <4>1. counted = [r EXCEPT !.fn = [r.fn EXCEPT ![k] = f1]]
        BY <2>3
      <4> HIDE DEF G
      <4> QED BY <1>1, <4>1, Zenon DEF Runtimes
    <3> HIDE DEF f2, counted
    <3> QED BY <3>1, <3>2, Zenon
  <2>9. Quiet(r, compiled, k)
    <3> HIDE DEF f2, counted, compiled
    <3> QED BY <2>5, <2>7, <2>8, FunctionSetQuiet, Zenon
  <2> QED BY <2>4, <2>9
<1>4. \/ o.r = r
      \/ f.calls # RegionThreshold /\ (o.r = counted \/ o.r = compiled)
  <2> DEFINE run(q) == {[r |-> q, done |-> TRUE], [r |-> q, done |-> FALSE]}
  <2>1. o \in IF arg # "int" \/ (~f.region /\ f.calls = RegionThreshold)
               THEN {[r |-> r, done |-> FALSE]}
             ELSE IF f.region THEN run(r)
             ELSE IF f.calls + 1 < RegionThreshold \/ k \notin Regions
               THEN {[r |-> counted, done |-> FALSE]}
             ELSE run(compiled)
    BY Zenon DEF RegionCall
  <2> HIDE DEF counted, compiled, f
  <2>2. CASE f.calls = RegionThreshold
    BY <1>1, <2>1, <2>2, SMT DEF FunctionRecords
  <2>3. CASE f.calls # RegionThreshold
    BY <2>1, <2>3, SMT
  <2> QED BY <2>2, <2>3
<1> HIDE DEF counted, compiled
<1> QED BY <1>2, <1>3, <1>4, Zenon

LEMMA LeafCallQuiet ==
  ASSUME NEW r, GoodRuntime(r), NEW k \in Keys, NEW o \in LeafCall(r, k)
  PROVE  Quiet(r, o.r, k) /\ o.r.fn[k].id = r.fn[k].id
<1> DEFINE plan == IF k \in Leaves THEN "plan" ELSE "none"
           f == [r.fn[k] EXCEPT !.leaf = plan]
<1>1. r \in Runtimes /\ r.fn[k] \in FunctionRecords
  BY DEF GoodRuntime, Runtimes
<1>2. plan \in {"unknown", "plan", "none"}
  OBVIOUS
<1> HIDE DEF plan
<1>3. /\ f \in FunctionRecords /\ f.alive = r.fn[k].alive /\ f.reserved = r.fn[k].reserved
      /\ f.attempted = r.fn[k].attempted /\ f.id = r.fn[k].id
  BY <1>1, <1>2, Zenon DEF FunctionRecords
<1> DEFINE q == [r EXCEPT !.fn[k] = f]
<1>4. PICK ok : o = [r |-> q, done |-> ok]
  BY Zenon DEF LeafCall, plan
<1> HIDE DEF f
<1>5. Quiet(r, q, k)
  BY <1>3, FunctionSetQuiet, Zenon
<1>6. q.fn[k] = f
  BY <1>1, <1>3, FunctionSet, ZenonT(60)
<1> HIDE DEF q
<1>7. o.r = q
  BY <1>4
<1> QED BY <1>3, <1>5, <1>6, <1>7, Zenon

LEMMA LaterTransitive ==
  ASSUME NEW r, GoodRuntime(r), NEW q, GoodRuntime(q), NEW p, GoodRuntime(p),
         Later(r, q), Later(q, p)
  PROVE  Later(r, p)
<1>1. /\ r.nextId \in Nat /\ q.nextId \in Nat /\ p.nextId \in Nat
      /\ q.nextId >= r.nextId /\ p.nextId >= q.nextId
  BY DEF GoodRuntime, Runtimes, Later
<1>2. ASSUME NEW k \in Keys
      PROVE  p.fn[k].id = r.fn[k].id \/ p.fn[k].id > r.nextId
  <2>1. p.fn[k].id \in Nat /\ q.fn[k].id \in Nat
    BY DEF GoodRuntime, Runtimes, FunctionRecords
  <2>2. /\ q.fn[k].id = r.fn[k].id \/ q.fn[k].id > r.nextId
        /\ p.fn[k].id = q.fn[k].id \/ p.fn[k].id > q.nextId
    BY DEF Later
  <2> QED BY <1>1, <2>1, <2>2, SMTT(60)
<1>3. ASSUME NEW m \in Kinds PROVE Advances(r.vault[m], p.vault[m])
  <2>1. r.vault[m] \in Vaults /\ q.vault[m] \in Vaults /\ p.vault[m] \in Vaults
    BY Zenon DEF GoodRuntime, GoodVault
  <2> QED BY <2>1, AdvancesTransitive DEF Later
<1> QED BY <1>1, <1>2, <1>3, SMTT(60) DEF Later

-----------------------------------------------------------------------------
(* The baseline tier *)

\* The entries of every function in both Vaults are the same.
SameEntries(r, q) ==
  \A m \in Kinds, k \in Keys : EntryOf(q.vault[m], k) = EntryOf(r.vault[m], k)

LEMMA VaultSet ==
  ASSUME NEW r \in Runtimes, NEW m \in Kinds, NEW w \in Vaults
  PROVE  LET q == [r EXCEPT !.vault[m] = w] IN
         /\ q \in Runtimes
         /\ q.fn = r.fn /\ q.nextId = r.nextId
         /\ q.vault = [r.vault EXCEPT ![m] = w]
         /\ q.vault[m] = w
<1> DEFINE q == [r EXCEPT !.vault[m] = w]
           u == [r.vault EXCEPT ![m] = w]
<1>1. r.fn \in [Keys -> FunctionRecords] /\ r.vault \in [Kinds -> Vaults] /\ r.nextId \in Nat
  BY DEF Runtimes
<1>2. u \in [Kinds -> Vaults] /\ u[m] = w
  BY <1>1
<1>3. q.vault = u /\ q.fn = r.fn /\ q.nextId = r.nextId
  BY Zenon DEF Runtimes
<1>4. q \in Runtimes
  BY <1>1, <1>2, Zenon DEF Runtimes
<1> QED BY <1>2, <1>3, <1>4, Zenon

\* Replacing the Vault of mode m in an operation for k.
LEMMA VaultSetGood ==
  ASSUME NEW r, GoodRuntime(r), NEW m \in Kinds, NEW k \in Keys,
         NEW w, VaultStep(r.vault[m], w, k, m),
         EntryOf(w, k) # {} =>
           r.fn[k].alive /\ m \in r.fn[k].attempted /\ k \in Compilable[m],
         w.handle[k].function # Null => r.fn[k].id # 0
  PROVE  LET q == [r EXCEPT !.vault[m] = w] IN
         /\ GoodRuntime(q) /\ Later(r, q)
         /\ q.fn = r.fn /\ q.nextId = r.nextId
         /\ q.vault[m] = w
         /\ RuntimeStep(r, q, k, m, w)
<1> DEFINE q == [r EXCEPT !.vault[m] = w]
<1>1. r \in Runtimes /\ w \in Vaults /\ r.nextId \in Nat /\ r.vault \in [Kinds -> Vaults]
  BY RuntimeFields DEF VaultStep
<1>2. /\ q \in Runtimes
      /\ q.fn = r.fn /\ q.nextId = r.nextId
      /\ q.vault = [r.vault EXCEPT ![m] = w]
      /\ q.vault[m] = w
  BY <1>1, VaultSet, SMTT(30)
<1> HIDE DEF q
<1>3. q.nextId >= r.nextId
  BY <1>1, <1>2
<1>4. RuntimeStep(r, q, k, m, w)
  BY <1>2, <1>3, ZenonT(60) DEF RuntimeStep
<1>5. ASSUME NEW n \in Kinds PROVE GoodFunction(q, k, n)
  <2>1. GoodFunction(r, k, n)
    BY RuntimeFields
  <2>2. CASE n = m
    BY <2>1, <2>2, <1>2, Zenon DEF GoodFunction
  <2>3. CASE n # m
    <3>1. q.vault[n] = r.vault[n]
      BY <2>3, <1>1, <1>2, ZenonT(60)
    <3> QED BY <2>1, <3>1, <1>2, Zenon DEF GoodFunction
  <2> QED BY <2>2, <2>3, SMTT(60)
<1>6. GoodRuntime(q) /\ Later(r, q)
  BY <1>4, <1>5, RuntimeStepGood
<1> QED BY <1>2, <1>4, <1>6, ZenonT(60) DEF q

\* Replacing the record of k.
LEMMA FunctionSetGood ==
  ASSUME NEW r, GoodRuntime(r), NEW k \in Keys, NEW f \in FunctionRecords,
         f.alive = r.fn[k].alive, f.id = r.fn[k].id,
         \A n \in Kinds :
           /\ EntryOf(r.vault[n], k) # {} => n \in f.attempted
           /\ f.reserved = n => n \in f.attempted /\ k \in Compilable[n]
  PROVE  LET q == [r EXCEPT !.fn[k] = f] IN
         /\ GoodRuntime(q) /\ Later(r, q) /\ OneTry(r, q)
         /\ q.vault = r.vault /\ q.fn[k] = f
<1> DEFINE q == [r EXCEPT !.fn[k] = f]
           w == r.vault[Int32]
<1>1. Int32 \in Kinds
  BY SpoolAssumption, SMTT(60)
<1>2. /\ r \in Runtimes /\ r.nextId \in Nat /\ r.vault \in [Kinds -> Vaults]
      /\ GoodVault(w) /\ OwnEntries(w, Int32)
  BY <1>1, RuntimeFields
<1>3. /\ q \in Runtimes
      /\ q.vault = r.vault /\ q.nextId = r.nextId
      /\ q.fn[k] = f
      /\ \A j \in Keys \ {k} : q.fn[j] = r.fn[j]
  BY <1>2, FunctionSet, ZenonT(60)
<1> HIDE DEF q
<1>4. RuntimeStep(r, q, k, Int32, w)
  <2>1. VaultStep(r.vault[Int32], w, k, Int32)
    BY <1>1, <1>2, SameVaultStep
  <2>2. [r.vault EXCEPT ![Int32] = w] = r.vault /\ q.nextId >= r.nextId
    BY <1>1, <1>2, <1>3
  <2> QED BY <1>3, <2>1, <2>2, Zenon DEF RuntimeStep
<1>5. ASSUME NEW n \in Kinds PROVE GoodFunction(q, k, n)
  <2>1. GoodFunction(r, k, n)
    BY RuntimeFields
  <2> QED BY <2>1, <1>3, Zenon DEF GoodFunction
<1>6. GoodRuntime(q) /\ Later(r, q)
  BY <1>1, <1>4, <1>5, RuntimeStepGood
<1>7. OneTry(r, q)
  BY <1>3, Zenon DEF OneTry
<1> QED BY <1>3, <1>6, <1>7, Zenon DEF q

LEMMA SameLater ==
  ASSUME NEW r, GoodRuntime(r)
  PROVE  Later(r, r) /\ OneTry(r, r) /\ SameEntries(r, r)
<1>1. r.nextId >= r.nextId
  BY DEF GoodRuntime, Runtimes
<1>2. \A m \in Kinds : Advances(r.vault[m], r.vault[m])
  BY SameHandlesAdvance DEF GoodRuntime, GoodVault
<1> QED BY <1>1, <1>2, Zenon DEF Later, OneTry, SameEntries

\* Entering native code that is in the Vault.
LEMMA EnteredGood ==
  ASSUME NEW r, GoodRuntime(r), NEW k \in Keys, NEW m \in Kinds,
         NEW f \in EntryOf(r.vault[m], k), NEW o \in Entered(r, k, m, f)
  PROVE  GoodRuntime(o.r) /\ Later(r, o.r) /\ SameEntries(r, o.r)
<1> DEFINE q == Identified(r, k)
           v == q.vault[m]
           w == Attached(v, f, k, m, 1)
           a == [q EXCEPT !.vault[m] = w]
           p == IF r.vault[m].handle[k].function = f THEN r ELSE a
           g == [p.fn[k] EXCEPT !.reserved = m]
           p2 == [p EXCEPT !.fn[k] = g]
<1>1. Quiet(r, q, k) /\ q.fn[k].id # 0
  BY IdentifiedQuiet, Zenon
<1>2. GoodRuntime(q) /\ Later(r, q) /\ q.vault = r.vault
  BY <1>1, QuietGood, ZenonT(60) DEF Quiet
<1>3. f \in EntryOf(v, k) /\ GoodVault(v) /\ OwnEntries(v, m) /\ GoodFunction(q, k, m)
  BY <1>2, RuntimeFields, Zenon
<1>4. \/ o = [r |-> [p EXCEPT !.fn[k].reserved = m], done |-> TRUE]
      \/ o = [r |-> p, done |-> FALSE]
  BY Zenon DEF Entered
<1>5. [p EXCEPT !.fn[k].reserved = m] = p2
  BY Zenon
<1>6. o.r = p2 \/ o.r = p
  <2> HIDE DEF p, p2
  <2>1. o = [r |-> p2, done |-> TRUE] \/ o = [r |-> p, done |-> FALSE]
    BY <1>4, <1>5
  <2> QED BY <2>1
<1> HIDE DEF q, v
<1>7. VaultStep(v, w, k, m) /\ \A j \in Keys : EntryOf(w, j) = EntryOf(v, j)
  BY <1>3, AttachedStep, SMT
<1> HIDE DEF w
<1>8. EntryOf(w, k) # {} => q.fn[k].alive /\ m \in q.fn[k].attempted /\ k \in Compilable[m]
  BY <1>3, <1>7, ZenonT(60) DEF GoodFunction, v
<1>9. VaultStep(q.vault[m], w, k, m)
  BY <1>7 DEF v
<1>10. /\ GoodRuntime(a) /\ Later(q, a) /\ a.vault[m] = w
       /\ RuntimeStep(q, a, k, m, w)
  BY <1>1, <1>2, <1>8, <1>9, VaultSetGood, SMTT(30)
<1> HIDE DEF a
<1>11. SameEntries(r, a)
  <2> SUFFICES ASSUME NEW n \in Kinds, NEW j \in Keys
               PROVE  EntryOf(a.vault[n], j) = EntryOf(r.vault[n], j)
    BY Zenon DEF SameEntries
  <2>1. CASE n = m
    BY <2>1, <1>2, <1>7, <1>10, Zenon DEF v
  <2>2. CASE n # m
    <3>1. \A i \in Kinds \ {m} : a.vault[i] = q.vault[i]
      BY <1>2, <1>10, RuntimeStepVaults, SMTT(30)
    <3> QED BY <2>2, <3>1, <1>2, Zenon
  <2> QED BY <2>1, <2>2
<1>12. GoodRuntime(p) /\ Later(r, p) /\ SameEntries(r, p)
  BY <1>2, <1>10, <1>11, LaterTransitive, SameLater, Zenon
<1> HIDE DEF p
<1>13. EntryOf(p.vault[m], k) # {}
  BY <1>12, ZenonT(60) DEF SameEntries
<1>14. p.fn[k] \in FunctionRecords
  BY <1>12, RuntimeFields
<1>15. /\ g \in FunctionRecords /\ g.alive = p.fn[k].alive /\ g.id = p.fn[k].id
       /\ g.attempted = p.fn[k].attempted /\ g.reserved = m
  BY <1>14, Zenon DEF FunctionRecords
<1> HIDE DEF g
<1>16. ASSUME NEW n \in Kinds
       PROVE  /\ EntryOf(p.vault[n], k) # {} => n \in g.attempted
              /\ g.reserved = n => n \in g.attempted /\ k \in Compilable[n]
  <2>1. GoodFunction(p, k, n) /\ GoodFunction(p, k, m)
    BY <1>12, RuntimeFields
  <2> QED BY <2>1, <1>13, <1>15, ZenonT(60) DEF GoodFunction
<1>17. GoodRuntime(p2) /\ Later(p, p2) /\ p2.vault = p.vault
  BY <1>12, <1>15, <1>16, FunctionSetGood, ZenonT(60)
<1> HIDE DEF p2
<1>18. Later(r, p2) /\ SameEntries(r, p2)
  BY <1>12, <1>17, LaterTransitive, Zenon DEF SameEntries
<1> QED BY <1>6, <1>12, <1>17, <1>18, Zenon

LEMMA MissedFields ==
  ASSUME NEW f \in FunctionRecords, NEW m \in Kinds
  PROVE  /\ Missed(f, m) \in FunctionRecords
         /\ Missed(f, m).alive = f.alive /\ Missed(f, m).id = f.id
         /\ Missed(f, m).reserved = IF f.reserved = m THEN Null ELSE f.reserved
         /\ Missed(f, m).attempted = IF f.reserved = m THEN f.attempted \ {m}
                                     ELSE f.attempted
<1> DEFINE n == IF f.count[m] < Threshold THEN f.count[m] + 1 ELSE f.count[m]
           cn == [f.count EXCEPT ![m] = n]
           ct == [f.count EXCEPT ![m] = Threshold]
<1>1. f.count \in [Kinds -> 0..Threshold] /\ f.attempted \in SUBSET Kinds
  BY DEF FunctionRecords
<1>2. Threshold \in Nat
  BY SpoolAssumption
<1>3. f.count[m] \in 0..Threshold
  BY <1>1
<1>4. n \in 0..Threshold /\ Threshold \in 0..Threshold
  BY <1>2, <1>3
<1> HIDE DEF n
<1>5. cn \in [Kinds -> 0..Threshold] /\ ct \in [Kinds -> 0..Threshold]
  BY <1>1, <1>4
<1> HIDE DEF cn, ct
<1>6. CASE f.reserved = m
  <2> DEFINE A == f.attempted \ {m}
  <2>1. A \in SUBSET Kinds
    BY <1>1
  <2>2. Missed(f, m) = [f EXCEPT !.reserved = Null, !.attempted = A, !.count = ct]
    BY <1>6, Zenon DEF Missed, ct
  <2> HIDE DEF A
  <2> QED BY <1>5, <1>6, <2>1, <2>2, Zenon DEF FunctionRecords, A
<1>7. CASE f.reserved # m
  <2>1. Missed(f, m) = [f EXCEPT !.count = cn]
    BY <1>7, Zenon DEF Missed, cn, n
  <2> QED BY <1>5, <1>7, <2>1, Zenon DEF FunctionRecords
<1> QED BY <1>6, <1>7

LEMMA TriedFields ==
  ASSUME NEW f \in FunctionRecords, NEW m \in Kinds
  PROVE  /\ Tried(f, m) \in FunctionRecords
         /\ Tried(f, m).alive = f.alive /\ Tried(f, m).id = f.id
         /\ Tried(f, m).reserved = f.reserved
         /\ Tried(f, m).attempted = f.attempted \cup {m}
<1> DEFINE A == f.attempted \cup {m}
<1>1. A \in SUBSET Kinds
  BY DEF FunctionRecords
<1>2. Tried(f, m) = [f EXCEPT !.attempted = A]
  BY Zenon DEF Tried
<1> HIDE DEF A
<1> QED BY <1>1, <1>2, Zenon DEF FunctionRecords, A

\* A missing entry in mode m: the function is counted, or tried and refused.
LEMMA MissGood ==
  ASSUME NEW r, GoodRuntime(r), NEW k \in Keys, NEW m \in Kinds,
         EntryOf(r.vault[m], k) = {},
         NEW f, f = Missed(r.fn[k], m) \/ f = Tried(Missed(r.fn[k], m), m)
  PROVE  LET q == [r EXCEPT !.fn[k] = f] IN
         /\ GoodRuntime(q) /\ Later(r, q) /\ OneTry(r, q)
         /\ q.vault = r.vault /\ q.fn[k] = f
<1> DEFINE g == Missed(r.fn[k], m)
           t == Tried(g, m)
<1>1. r.fn[k] \in FunctionRecords /\ m # Null
  BY RuntimeFields, NullAssumption
<1>2. /\ g \in FunctionRecords /\ g.alive = r.fn[k].alive /\ g.id = r.fn[k].id
      /\ g.reserved = IF r.fn[k].reserved = m THEN Null ELSE r.fn[k].reserved
      /\ g.attempted = IF r.fn[k].reserved = m THEN r.fn[k].attempted \ {m}
                       ELSE r.fn[k].attempted
  BY <1>1, MissedFields, ZenonT(60)
<1> HIDE DEF g
<1>3. /\ t \in FunctionRecords /\ t.alive = g.alive /\ t.id = g.id
      /\ t.reserved = g.reserved /\ t.attempted = g.attempted \cup {m}
  BY <1>2, TriedFields, Zenon
<1> HIDE DEF t
<1>4. /\ f \in FunctionRecords /\ f.alive = r.fn[k].alive /\ f.id = r.fn[k].id
      /\ f.reserved = IF r.fn[k].reserved = m THEN Null ELSE r.fn[k].reserved
      /\ \A n \in Kinds \ {m} : n \in r.fn[k].attempted => n \in f.attempted
  BY <1>2, <1>3, SMTT(60) DEF g, t
<1>5. ASSUME NEW n \in Kinds
      PROVE  /\ EntryOf(r.vault[n], k) # {} => n \in f.attempted
             /\ f.reserved = n => n \in f.attempted /\ k \in Compilable[n]
  <2>1. GoodFunction(r, k, n) /\ n # Null
    BY RuntimeFields, NullAssumption
  <2>2. CASE n = m
    BY <2>2, <2>1, <1>4, SMTT(60)
  <2>3. CASE n # m
    BY <2>3, <2>1, <1>4 DEF GoodFunction
  <2> QED BY <2>2, <2>3, SMTT(60)
<1> QED BY <1>4, <1>5, FunctionSetGood, SMTT(30)

LEMMA OneTrySameEntries ==
  ASSUME NEW r, NEW q, NEW p, OneTry(r, q), SameEntries(q, p)
  PROVE  OneTry(r, p)
BY Zenon DEF OneTry, SameEntries

\* Code compiled after the attempt was recorded: an entry appears for k alone.
LEMMA CompileGood ==
  ASSUME NEW r, GoodRuntime(r), NEW k \in Keys, r.fn[k].alive, NEW m \in Kinds,
         EntryOf(r.vault[m], k) = {}, k \in Compilable[m],
         MayCompile(Missed(r.fn[k], m), m),
         NEW g \in Functions \ r.vault[m].live, NEW V \in SUBSET r.vault[m].live
  PROVE  LET t == [r EXCEPT !.fn[k] = Tried(Missed(r.fn[k], m), m)]
             w == Compiled(r.vault[m], k, g, {}, V, "ok")
             q == [t EXCEPT !.vault[m] = w]
         IN  /\ GoodRuntime(q) /\ Later(r, q) /\ OneTry(r, q)
             /\ g \in EntryOf(q.vault[m], k)
<1> DEFINE f == Tried(Missed(r.fn[k], m), m)
           t == [r EXCEPT !.fn[k] = f]
           w == Compiled(r.vault[m], k, g, {}, V, "ok")
           q == [t EXCEPT !.vault[m] = w]
<1>1. /\ GoodVault(r.vault[m]) /\ OwnEntries(r.vault[m], m)
      /\ r.fn[k] \in FunctionRecords /\ GoodFunction(r, k, m)
  BY RuntimeFields, ZenonT(60)
<1>2. /\ VaultStep(r.vault[m], w, k, m)
      /\ g \in EntryOf(w, k)
      /\ w.handle[k].function # Null => r.vault[m].handle[k].function # Null
  BY <1>1, CompiledStep, SMTT(30)
<1>3. /\ f \in FunctionRecords
      /\ f.alive = r.fn[k].alive /\ f.id = r.fn[k].id /\ m \in f.attempted
  <2> DEFINE e == Missed(r.fn[k], m)
  <2>1. e \in FunctionRecords /\ e.alive = r.fn[k].alive /\ e.id = r.fn[k].id
    BY <1>1, MissedFields, Zenon
  <2> HIDE DEF e
  <2>2. /\ Tried(e, m) \in FunctionRecords
        /\ Tried(e, m).alive = e.alive /\ Tried(e, m).id = e.id
        /\ Tried(e, m).attempted = e.attempted \cup {m}
    BY <2>1, TriedFields, Zenon
  <2> QED BY <2>1, <2>2, Zenon DEF e
<1>4. ~(m \in r.fn[k].attempted /\ r.fn[k].reserved # m)
  <2>1. m \notin Missed(r.fn[k], m).attempted
    BY DEF MayCompile
  <2> QED BY <1>1, <2>1, MissedFields, ZenonT(60)
<1>5. f = Missed(r.fn[k], m) \/ f = Tried(Missed(r.fn[k], m), m)
  OBVIOUS
<1> HIDE DEF f, w
<1>6. GoodRuntime(t) /\ Later(r, t) /\ t.vault = r.vault /\ t.fn[k] = f
  BY <1>5, MissGood, SMTT(30)
<1> HIDE DEF t
<1>7. VaultStep(t.vault[m], w, k, m)
  BY <1>2, <1>6, Zenon
<1>8. w.handle[k].function # Null => t.fn[k].id # 0
  BY <1>1, <1>2, <1>3, <1>6, Zenon DEF GoodFunction
<1>9. EntryOf(w, k) # {} => t.fn[k].alive /\ m \in t.fn[k].attempted /\ k \in Compilable[m]
  BY <1>3, <1>6, Zenon
<1>10. /\ GoodRuntime(q) /\ Later(t, q)
       /\ q.fn = t.fn /\ q.nextId = t.nextId
       /\ q.vault[m] = w
       /\ RuntimeStep(t, q, k, m, w)
  BY <1>6, <1>7, <1>8, <1>9, VaultSetGood, Zenon
<1> HIDE DEF q
<1>11. Later(r, q)
  BY <1>6, <1>10, LaterTransitive, ZenonT(60)
<1>12. OneTry(r, q)
  <2> SUFFICES ASSUME NEW j \in Keys, NEW n \in Kinds, n \in r.fn[j].attempted,
                      EntryOf(r.vault[n], j) = {}, EntryOf(q.vault[n], j) # {}
               PROVE  r.fn[j].reserved = n
    BY Zenon, ZenonT(60) DEF OneTry
  <2>1. \A i \in Kinds \ {m} : q.vault[i] = t.vault[i]
    BY <1>6, <1>10, RuntimeStepVaults, SMTT(30)
  <2>2. n = m
    BY <2>1, <1>6, Zenon
  <2>3. j = k
    BY <2>2, <1>2, <1>10, ZenonT(60) DEF VaultStep
  <2> QED BY <2>2, <2>3, <1>4
<1> QED BY <1>2, <1>10, <1>11, <1>12, Zenon DEF q, t, w, f

LEMMA BaselineCallGood ==
  ASSUME NEW r, GoodRuntime(r), NEW k \in Keys, r.fn[k].alive, NEW arg,
         NEW o \in BaselineCall(r, k, arg)
  PROVE  GoodRuntime(o.r) /\ Later(r, o.r) /\ OneTry(r, o.r)
<1> DEFINE m == Mode(r.fn[k], arg)
           v == r.vault[m]
           f == Missed(r.fn[k], m)
           tried == [r EXCEPT !.fn[k] = Tried(f, m)]
           counted == [r EXCEPT !.fn[k] = f]
           compiled(g, V) == [tried EXCEPT !.vault[m] = Compiled(v, k, g, {}, V, "ok")]
           found(g) == [r EXCEPT !.vault[m] = LookedUp(v, g)]
           rooms == {W \in SUBSET v.live : Cardinality(v.live \ W) < MaxEntries}
<1>1. m = Null \/ m \in Kinds
  BY SpoolAssumption DEF Mode
<1>2. o \in IF m = Null THEN {[r |-> r, done |-> FALSE]}
            ELSE IF EntryOf(v, k) # {}
              THEN UNION {Entered(found(g), k, m, g) : g \in EntryOf(v, k)}
            ELSE IF ~MayCompile(f, m) THEN {[r |-> counted, done |-> FALSE]}
            ELSE IF k \notin Compilable[m] THEN {[r |-> tried, done |-> FALSE]}
            ELSE UNION {UNION {Entered(compiled(g, V), k, m, g) : V \in rooms} :
                          g \in Functions \ v.live}
  BY Zenon DEF BaselineCall
<1>3. CASE m = Null
  <2>1. o = [r |-> r, done |-> FALSE]
    BY <1>2, <1>3, Zenon
  <2>2. o.r = r
    BY <2>1, SMTT(60)
  <2> QED BY <2>2, SameLater, Zenon
<1>4. CASE m \in Kinds /\ EntryOf(v, k) # {}
  <2>0. m # Null
    BY <1>4, NullAssumption
  <2>1. PICK g \in EntryOf(v, k) : o \in Entered(found(g), k, m, g)
    <3> HIDE DEF found, m, v
    <3> QED BY <1>2, <1>4, <2>0, Zenon
  <2> HIDE DEF m
  <2>2. GoodVault(v) /\ OwnEntries(v, m) /\ GoodFunction(r, k, m)
    BY <1>4, RuntimeFields, ZenonT(60)
  <2> DEFINE w == LookedUp(v, g)
             q == [r EXCEPT !.vault[m] = w]
  <2>3. /\ VaultStep(v, w, k, m)
        /\ \A j \in Keys : EntryOf(w, j) = EntryOf(v, j)
        /\ w.handle = v.handle
    BY <1>4, <2>2, LookedUpStep, SMTT(30)
  <2> HIDE DEF w
  <2>4. /\ EntryOf(w, k) # {} => r.fn[k].alive /\ m \in r.fn[k].attempted /\ k \in Compilable[m]
        /\ w.handle[k].function # Null => r.fn[k].id # 0
    BY <2>2, <2>3, Zenon DEF GoodFunction
  <2>5. /\ GoodRuntime(q) /\ Later(r, q) /\ q.vault[m] = w /\ RuntimeStep(r, q, k, m, w)
    BY <1>4, <2>3, <2>4, VaultSetGood, SMTT(30)
  <2>6. q = found(g)
    BY Zenon, ZenonT(60) DEF w
  <2> HIDE DEF q
  <2>7. SameEntries(r, q)
    <3> SUFFICES ASSUME NEW n \in Kinds, NEW j \in Keys
                 PROVE  EntryOf(q.vault[n], j) = EntryOf(r.vault[n], j)
      BY Zenon DEF SameEntries
    <3>1. CASE n = m
      BY <3>1, <2>3, <2>5, Zenon
    <3>2. CASE n # m
      <4>1. \A i \in Kinds \ {m} : q.vault[i] = r.vault[i]
        BY <1>4, <2>5, RuntimeStepVaults, SMTT(30)
      <4> QED BY <3>2, <4>1, Zenon
    <3> QED BY <3>1, <3>2
  <2>8. g \in EntryOf(q.vault[m], k)
    BY <2>3, <2>5, Zenon
  <2>9. GoodRuntime(o.r) /\ Later(q, o.r) /\ SameEntries(q, o.r)
    BY <1>4, <2>1, <2>5, <2>6, <2>8, EnteredGood, Zenon
  <2>10. Later(r, o.r)
    BY <2>5, <2>9, LaterTransitive, Zenon
  <2>11. OneTry(r, o.r)
    BY <2>7, <2>9, SameLater, OneTrySameEntries, ZenonT(60)
  <2> QED BY <2>9, <2>10, <2>11, SMTT(60)
<1>5. CASE m \in Kinds /\ EntryOf(v, k) = {}
  <2>0. m # Null
    BY <1>5, NullAssumption
  <2> HIDE DEF m
  <2>1. CASE ~MayCompile(f, m) \/ k \notin Compilable[m]
    <3>1. o = [r |-> counted, done |-> FALSE] \/ o = [r |-> tried, done |-> FALSE]
      <4> HIDE DEF v, f, counted, tried
      <4> QED BY <1>2, <1>5, <2>0, <2>1, Zenon
    <3>2. /\ GoodRuntime(counted) /\ Later(r, counted) /\ OneTry(r, counted)
          /\ GoodRuntime(tried) /\ Later(r, tried) /\ OneTry(r, tried)
      BY <1>5, MissGood, SMTT(30)
    <3> HIDE DEF counted, tried
    <3>3. o.r = counted \/ o.r = tried
      BY <3>1, SMTT(60)
    <3> QED BY <3>2, <3>3, Zenon
  <2>2. CASE MayCompile(f, m) /\ k \in Compilable[m]
    <3>1. PICK g \in Functions \ v.live, V \in rooms : o \in Entered(compiled(g, V), k, m, g)
      <4> HIDE DEF v, f, compiled, rooms, counted, tried, found
      <4>1. o \in UNION {UNION {Entered(compiled(g, V), k, m, g) : V \in rooms} :
                           g \in Functions \ v.live}
        BY <1>2, <1>5, <2>0, <2>2, Zenon
      <4>2. PICK g \in Functions \ v.live :
              o \in UNION {Entered(compiled(g, V), k, m, g) : V \in rooms}
        BY <4>1, Zenon
      <4> QED BY <4>2, Zenon
    <3>2. V \in SUBSET v.live
      BY Zenon
    <3> DEFINE q == compiled(g, V)
    <3>3. /\ GoodRuntime(q) /\ Later(r, q) /\ OneTry(r, q)
          /\ g \in EntryOf(q.vault[m], k)
      BY <1>5, <2>2, <3>2, CompileGood, Zenon
    <3> HIDE DEF q
    <3>4. GoodRuntime(o.r) /\ Later(q, o.r) /\ SameEntries(q, o.r)
      BY <1>5, <3>1, <3>3, EnteredGood, Zenon DEF q
    <3>5. Later(r, o.r)
      BY <3>3, <3>4, LaterTransitive, Zenon
    <3>6. OneTry(r, o.r)
      BY <3>3, <3>4, OneTrySameEntries, Zenon
    <3> QED BY <3>4, <3>5, <3>6
  <2> QED BY <2>1, <2>2
<1> QED BY <1>1, <1>3, <1>4, <1>5, SMTT(60)

-----------------------------------------------------------------------------
(* The tiers together *)

LEMMA QuietOneTry ==
  ASSUME NEW r, NEW q, NEW p, NEW k \in Keys, Quiet(r, q, k), OneTry(q, p)
  PROVE  OneTry(r, p)
<1>1. /\ q.vault = r.vault
      /\ \A j \in Keys : q.fn[j].attempted = r.fn[j].attempted
                         /\ q.fn[j].reserved = r.fn[j].reserved
  BY DEF Quiet
<1> QED BY <1>1, ZenonT(60) DEF OneTry

LEMMA QuietThenGood ==
  ASSUME NEW r, GoodRuntime(r), NEW q, NEW k \in Keys, Quiet(r, q, k),
         NEW p, GoodRuntime(p), Later(q, p), OneTry(q, p)
  PROVE  Later(r, p) /\ OneTry(r, p)
<1>1. GoodRuntime(q) /\ Later(r, q)
  BY QuietGood, ZenonT(60)
<1> QED BY <1>1, LaterTransitive, QuietOneTry, Zenon

LEMMA NativeCallGood ==
  ASSUME NEW r, GoodRuntime(r), NEW k \in Keys, r.fn[k].alive, NEW arg,
         NEW o \in NativeCall(r, k, arg)
  PROVE  GoodRuntime(o.r) /\ Later(r, o.r) /\ OneTry(r, o.r)
<1>1. PICK p \in RegionCall(r, k, arg) :
        o \in IF p.done THEN {p} ELSE BaselineCall(p.r, k, arg)
  BY Zenon DEF NativeCall
<1>2. Quiet(r, p.r, k)
  BY RegionCallQuiet, Zenon
<1>3. GoodRuntime(p.r) /\ Later(r, p.r) /\ OneTry(r, p.r)
  BY <1>2, QuietGood, ZenonT(60)
<1>4. CASE p.done
  BY <1>1, <1>3, <1>4
<1>5. CASE ~p.done
  <2>1. o \in BaselineCall(p.r, k, arg) /\ p.r.fn[k].alive
    BY <1>1, <1>2, <1>5, Zenon DEF Quiet
  <2>2. GoodRuntime(o.r) /\ Later(p.r, o.r) /\ OneTry(p.r, o.r)
    BY <1>3, <2>1, BaselineCallGood, Zenon
  <2> QED BY <1>2, <2>2, QuietThenGood, Zenon
<1> QED BY <1>4, <1>5

=============================================================================
