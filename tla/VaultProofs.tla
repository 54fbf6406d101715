---------------------------- MODULE VaultProofs -----------------------------
(***************************************************************************)
(* Safety of the Vault for every number of functions, keys, handles and    *)
(* continuations, with and without allocation failures: the invariant      *)
(* follows action by action from the lemmas on the operations, and the     *)
(* generations advance in every step.  Then uniqueness of entries,         *)
(* completeness of the reverse indices, and what the indices buy: retiring *)
(* a function clears every call site at its handle.  The last two hold as  *)
(* long as the allocation of index edges does not fail (~AllocMayFail).    *)
(***************************************************************************)
EXTENDS Vault, VaultOpsProofs

\* The inductive invariant: the Vault is good, and so is every call site of
\* an IR that may still be compiled.
Inv ==
  /\ GoodVault(vault)
  /\ ir \in [Keys -> SUBSET Sites]
  /\ \A k \in Keys : \A s \in ir[k] : SiteSound(vault, s)

LEMMA InitInv == Init => Inv
<1> SUFFICES ASSUME Init PROVE Inv
  OBVIOUS
<1>1. HandleInit \in HandleRecords
  BY DEF HandleInit, HandleRecords
<1>2. EmptyVault \in Vaults
  BY <1>1, NoEntryType, SMTT(60) DEF EmptyVault, Vaults
<1>3. /\ vault.live = {}
      /\ \A f \in Functions : vault.entry[f] = NoEntry
      /\ \A h \in Handles : vault.handle[h].function = Null
      /\ vault.lastFunction = Null
  BY DEF Init, EmptyVault, HandleInit
<1> QED BY <1>2, <1>3, Zenon DEF Init, Inv, GoodVault, DeadBlank, Signed, HandleOwned,
                          LastSound, SitesSound

LEMMA KeptIRSites ==
  ASSUME Inv, NEW w, GoodVault(w), KeepsSites(vault, w), vault' = w, ir' = ir
  PROVE  Inv'
<1>1. GoodVault(vault)'
  BY ZenonT(60) DEF GoodVault, Vaults, DeadBlank, Signed, HandleOwned, LastSound, SitesSound,
         SiteSound, OwnerKey
<1>2. ASSUME NEW k \in Keys, NEW s \in ir[k] PROVE SiteSound(vault, s)'
  <2>1. s \in Sites /\ SiteSound(vault, s)
    BY <1>2 DEF Inv
  <2>2. SiteSound(w, s)
    BY <2>1, Zenon DEF KeepsSites
  <2> QED BY <2>2, Zenon DEF SiteSound, OwnerKey
<1> QED BY <1>1, <1>2 DEF Inv

LEMMA NextInv == Inv /\ [Next]_vars => Inv'
<1> SUFFICES ASSUME Inv, [Next]_vars PROVE Inv'
  BY Zenon
<1>1. ASSUME NEW k \in Keys, Resolve(k) PROVE Inv'
  <2>1. PICK S \in SUBSET Resolvable(vault) : ir' = [ir EXCEPT ![k] = S]
    BY <1>1, Zenon DEF Resolve
  <2>2. vault' = vault
    BY <1>1 DEF Resolve
  <2>3. \A s \in S : s \in Sites /\ SiteSound(vault, s)
    BY ResolvableSound DEF Inv
  <2>4. ir' \in [Keys -> SUBSET Sites]
    BY <2>1, <2>3 DEF Inv
  <2>5. \A j \in Keys : \A s \in ir'[j] : SiteSound(vault, s)
    BY <2>1, <2>3 DEF Inv
  <2> QED BY <2>2, <2>4, <2>5, ZenonT(60) DEF Inv, GoodVault, Vaults, DeadBlank, Signed,
             HandleOwned, LastSound, SitesSound, SiteSound, OwnerKey
<1>2. ASSUME NEW k \in Keys, Lookup(k) PROVE Inv'
  <2>1. PICK f \in EntryOf(vault, k) : vault' = LookedUp(vault, f)
    BY <1>2 DEF Lookup
  <2>2. f \in vault.live /\ vault.entry[f].cont = Null
    BY ZenonT(60) DEF EntryOf
  <2>3. GoodVault(LookedUp(vault, f)) /\ KeepsSites(vault, LookedUp(vault, f))
    BY <2>2, LookedUpGood DEF Inv
  <2> QED BY <1>2, <2>1, <2>3, KeptIRSites DEF Lookup
<1>3. ASSUME NEW k \in Keys, Compile(k) PROVE Inv'
  <2>1. PICK f \in Functions \ vault.live, V \in SUBSET vault.live, o \in OutcomesOf(ir[k]) :
          vault' = Compiled(vault, k, f, ir[k], V, o)
    BY <1>3, ZenonT(60) DEF Compile
  <2>2. o \in Outcomes /\ ir[k] \in SUBSET Sites /\ \A s \in ir[k] : SiteSound(vault, s)
    BY DEF Inv, OutcomesOf
  <2>3. /\ GoodVault(Compiled(vault, k, f, ir[k], V, o))
        /\ KeepsSites(vault, Compiled(vault, k, f, ir[k], V, o))
    BY <2>2, CompiledGood, Zenon DEF Inv
  <2> QED BY <1>3, <2>1, <2>3, KeptIRSites, Zenon DEF Compile
<1>4. ASSUME NEW k \in Keys, Invalidate(k) PROVE Inv'
  <2>1. EntryOf(vault, k) \in SUBSET Functions
    BY DEF EntryOf, Inv, GoodVault, Vaults
  <2>2. /\ GoodVault(RemoveAll(vault, EntryOf(vault, k)))
        /\ KeepsSites(vault, RemoveAll(vault, EntryOf(vault, k)))
    BY <2>1, RemoveAllGood DEF Inv
  <2> QED BY <1>4, <2>2, KeptIRSites, SMTT(60) DEF Invalidate
<1>5. ASSUME NEW c \in Conts, NEW k \in Keys, StoreContinuation(c, k) PROVE Inv'
  <2>1. PICK f \in Functions \ vault.live, V \in SUBSET vault.live, S \in SUBSET ir[k] :
          \E o \in OutcomesOf(S) : vault' = ContinuationStored(vault, c, f, S, V, o)
    BY <1>5 DEF StoreContinuation
  <2>2. PICK o \in OutcomesOf(S) : vault' = ContinuationStored(vault, c, f, S, V, o)
    BY <2>1
  <2>3. o \in Outcomes /\ S \in SUBSET Sites /\ \A s \in S : SiteSound(vault, s)
    BY Zenon DEF Inv, OutcomesOf
  <2>4. /\ GoodVault(ContinuationStored(vault, c, f, S, V, o))
        /\ KeepsSites(vault, ContinuationStored(vault, c, f, S, V, o))
    BY <2>3, ContinuationStoredGood, Zenon DEF Inv
  <2> QED BY <1>5, <2>2, <2>4, KeptIRSites, ZenonT(60) DEF StoreContinuation
<1>6. ASSUME NEW k \in Keys, NEW h \in Handles, NEW kind \in Kinds,
             NEW argc \in ArgCounts, NEW i \in {k, Null}, Attach(k, h, kind, argc, i)
      PROVE  Inv'
  <2>1. PICK f \in EntryOf(vault, k) :
          LET v == Attached(vault, f, h, kind, argc) IN
          \E O \in {Owners(v, i)} \cup (IF AllocMayFail THEN {{}} ELSE {}) :
            \E out \in [O -> IF AllocMayFail THEN Outcomes ELSE {"ok"}] :
              vault' = RepatchDependents(v, O, i, h, kind, argc, out)
    BY <1>6, Zenon DEF Attach
  <2> DEFINE v == Attached(vault, f, h, kind, argc)
  <2>2. PICK O \in {Owners(v, i)} \cup (IF AllocMayFail THEN {{}} ELSE {}) :
          \E out \in [O -> IF AllocMayFail THEN Outcomes ELSE {"ok"}] :
              vault' = RepatchDependents(v, O, i, h, kind, argc, out)
    BY <2>1
  <2>3. PICK out \in [O -> IF AllocMayFail THEN Outcomes ELSE {"ok"}] :
              vault' = RepatchDependents(v, O, i, h, kind, argc, out)
    BY <2>2
  <2>4. f \in vault.live /\ vault.entry[f].cont = Null /\ vault.entry[f].key = k
    BY ZenonT(60) DEF EntryOf
  <2>5. /\ GoodVault(v) /\ KeepsSites(vault, v)
        /\ v.live = vault.live
        /\ v.entry[f].key = k
        /\ v.handle[h].function = f
        /\ v.handle[h].kind = kind /\ v.handle[h].argc = argc
    BY <2>4, AttachedGood, SMTT(60) DEF Inv
  <2> HIDE DEF v
  <2>6. out \in [O -> Outcomes]
    BY DEF Outcomes
  <2>7. O \in SUBSET v.live
    BY DEF Owners
  <2>8. f \in Functions /\ f # Null
    BY <2>4, NullAssumption, ZenonT(60) DEF Inv, GoodVault, Vaults
  <2>9. O # {} => i \in Keys /\ OwnerKey(v, h) = i
    BY <2>5 DEF Owners, OwnerKey
  <2> DEFINE w == RepatchDependents(v, O, i, h, kind, argc, out)
  <2>10. GoodVault(w) /\ KeepsSites(v, w)
    BY <2>5, <2>6, <2>7, <2>8, <2>9, RepatchDependentsGood, Zenon
  <2>11. KeepsSites(vault, w)
    BY <2>5, <2>10, KeepsSitesTransitive, Zenon
  <2> HIDE DEF w
  <2>12. vault' = w /\ ir' = ir
    BY <1>6, <2>3, Zenon DEF Attach, w
  <2> QED BY <2>10, <2>11, <2>12, KeptIRSites
<1>7. ASSUME Clear PROVE Inv'
  <2> DEFINE u == RemoveAll(vault, vault.live)
             w == [u EXCEPT !.lastKey = Null, !.lastFunction = Null]
  <2>1. GoodVault(u) /\ KeepsSites(vault, u)
    BY RemoveAllGood DEF Inv, GoodVault, Vaults
  <2> HIDE DEF u
  <2>2. /\ w.live = u.live /\ w.entry = u.entry /\ w.handle = u.handle
        /\ w.lastFunction = Null /\ w \in Vaults
    BY <2>1, Zenon DEF GoodVault, Vaults
  <2>3. vault' = w /\ ir' = ir
    BY <1>7, SMTT(60) DEF Clear, u
  <2> HIDE DEF w
  <2>4. \A s : SiteSound(w, s) <=> SiteSound(u, s)
    BY <2>2 DEF SiteSound, OwnerKey
  <2>5. GoodVault(w) /\ KeepsSites(vault, w)
    BY <2>1, <2>2, <2>4, ZenonT(60) DEF GoodVault, KeepsSites, DeadBlank, Signed, HandleOwned,
                            LastSound, SitesSound
  <2> QED BY <2>3, <2>5, KeptIRSites, SMTT(60)
<1>8. ASSUME UNCHANGED vars PROVE Inv'
  BY <1>8, ZenonT(60) DEF vars, Inv, GoodVault, Vaults, DeadBlank, Signed, HandleOwned,
              LastSound, SitesSound, SiteSound, OwnerKey
<1> QED BY <1>1, <1>2, <1>3, <1>4, <1>5, <1>6, <1>7, <1>8 DEF Next

LEMMA Invariance == Spec => []Inv
BY InitInv, NextInv, PTL DEF Spec

\* Every reachable state of the Vault has its type.
THEOREM TypeCorrect == Spec => []TypeOK
<1>1. Inv => TypeOK
  BY DEF Inv, GoodVault, TypeOK
<1> QED BY <1>1, Invariance, PTL

\* No published handle outlives the native function it points to.
THEOREM PublicationSafe == Spec => []PublishedHandleOwned
<1>1. Inv => PublishedHandleOwned
  BY DEF Inv, GoodVault, PublishedHandleOwned
<1> QED BY <1>1, Invariance, PTL

\* A native call that passes the generation guard enters a live function with
\* the signature and the identity its call site was resolved for.
THEOREM GuardedCallSafe == Spec => []GuardedCallSound
<1>1. Inv => GuardedCallSound
  BY DEF Inv, GoodVault, SitesSound, GuardedCallSound, LiveSites, IRSites
<1> QED BY <1>1, Invariance, PTL

\* The last-key shortcut of lookup is always current.
THEOREM LastLookupSafe == Spec => []LastLookupSound
<1>1. Inv => LastLookupSound
  BY DEF Inv, GoodVault, LastLookupSound
<1> QED BY <1>1, Invariance, PTL

-----------------------------------------------------------------------------
LEMMA NextAdvances == Inv /\ [Next]_vars => [Advances(vault, vault')]_vars
<1> SUFFICES ASSUME Inv, Next PROVE Advances(vault, vault')
  OBVIOUS
<1>0. GoodVault(vault) /\ vault \in Vaults /\ vault.live \in SUBSET Functions
  BY DEF Inv, GoodVault, Vaults
<1>1. ASSUME NEW k \in Keys, Resolve(k) PROVE Advances(vault, vault')
  BY <1>0, <1>1, SameHandlesAdvance DEF Resolve
<1>2. ASSUME NEW k \in Keys, Lookup(k) PROVE Advances(vault, vault')
  BY <1>0, <1>2, LookedUpHandles, SameHandlesAdvance DEF Lookup
<1>3. ASSUME NEW k \in Keys, Compile(k) PROVE Advances(vault, vault')
  <2>1. PICK f \in Functions \ vault.live, V \in SUBSET vault.live, o \in OutcomesOf(ir[k]) :
          vault' = Compiled(vault, k, f, ir[k], V, o)
    BY <1>3 DEF Compile
  <2>2. o \in Outcomes /\ ir[k] \in SUBSET Sites /\ \A s \in ir[k] : SiteSound(vault, s)
    BY DEF Inv, OutcomesOf
  <2> QED BY <1>0, <2>1, <2>2, CompiledAdvances
<1>4. ASSUME NEW k \in Keys, Invalidate(k) PROVE Advances(vault, vault')
  BY <1>0, <1>4, RemoveAllAdvances DEF Invalidate, EntryOf
<1>5. ASSUME NEW c \in Conts, NEW k \in Keys, StoreContinuation(c, k)
      PROVE  Advances(vault, vault')
  <2>1. PICK f \in Functions \ vault.live, V \in SUBSET vault.live, S \in SUBSET ir[k] :
          \E o \in OutcomesOf(S) : vault' = ContinuationStored(vault, c, f, S, V, o)
    BY <1>5 DEF StoreContinuation
  <2>2. PICK o \in OutcomesOf(S) : vault' = ContinuationStored(vault, c, f, S, V, o)
    BY <2>1
  <2>3. o \in Outcomes /\ S \in SUBSET Sites /\ \A s \in S : SiteSound(vault, s)
    BY DEF Inv, OutcomesOf
  <2> QED BY <1>0, <2>2, <2>3, ContinuationStoredAdvances
<1>6. ASSUME NEW k \in Keys, NEW h \in Handles, NEW kind \in Kinds,
             NEW argc \in ArgCounts, NEW i \in {k, Null}, Attach(k, h, kind, argc, i)
      PROVE  Advances(vault, vault')
  <2>1. PICK f \in EntryOf(vault, k) :
          LET v == Attached(vault, f, h, kind, argc) IN
          \E O, out : vault' = RepatchDependents(v, O, i, h, kind, argc, out)
    BY <1>6 DEF Attach
  <2> DEFINE v == Attached(vault, f, h, kind, argc)
  <2>2. f \in vault.live /\ vault.entry[f].cont = Null
    BY ZenonT(60) DEF EntryOf
  <2>3. Advances(vault, v) /\ v \in Vaults
    BY <1>0, <2>2, AttachedAdvances, AttachedGood DEF GoodVault
  <2> HIDE DEF v
  <2>4. vault'.handle = v.handle
    BY <2>1, <2>3 DEF RepatchDependents, Vaults, v
  <2> QED BY <2>3, <2>4 DEF Advances
<1>7. ASSUME Clear PROVE Advances(vault, vault')
  <2> DEFINE u == RemoveAll(vault, vault.live)
  <2>1. Advances(vault, u) /\ GoodVault(u)
    BY <1>0, RemoveAllAdvances, RemoveAllGood
  <2> HIDE DEF u
  <2>2. vault'.handle = u.handle
    BY <1>7, <2>1 DEF Clear, u, GoodVault, Vaults
  <2> QED BY <2>1, <2>2 DEF Advances
<1> QED BY <1>1, <1>2, <1>3, <1>4, <1>5, <1>6, <1>7 DEF Next

\* A generation names exactly one publication of a handle, so the generation
\* test of a call site identifies the code it was resolved against.
THEOREM GenerationsAdvance == Spec => GenerationNamesPublication
BY Invariance, NextAdvances, PTL DEF Spec, GenerationNamesPublication

-----------------------------------------------------------------------------
(* Uniqueness of entries *)

LEMMA SameKeysUnique ==
  ASSUME NEW v, NEW w, OneEntryEach(v), w.live \subseteq v.live,
         \A f \in w.live : /\ w.entry[f].key = v.entry[f].key
                           /\ w.entry[f].cont = v.entry[f].cont
  PROVE  OneEntryEach(w)
BY DEF OneEntryEach

LEMMA RemoveAllKeys ==
  ASSUME NEW v \in Vaults, NEW V \in SUBSET Functions
  PROVE  LET w == RemoveAll(v, V) IN
         /\ w.live = v.live \ V
         /\ \A f \in v.live \ V : /\ w.entry[f].key = v.entry[f].key
                                  /\ w.entry[f].cont = v.entry[f].cont
<1>1. v.live \in SUBSET Functions
  BY SMTT(60) DEF Vaults
<1> DEFINE w == RemoveAll(v, V)
<1>2. /\ w.live = v.live \ V
      /\ \A f \in Functions \ V :
              /\ w.entry[f].key = v.entry[f].key
              /\ w.entry[f].cont = v.entry[f].cont
              /\ w.entry[f].deps = v.entry[f].deps
              /\ w.entry[f].ids = v.entry[f].ids
              /\ w.entry[f].sites =
                   ClearTargets(v.entry[f].sites, Retired(v, V) \cap v.entry[f].deps)
  BY RemoveAllFields, SMTT(60)
<1> HIDE DEF w
<1>3. \A f \in v.live \ V : f \in Functions \ V
  BY <1>1
<1> QED BY <1>2, <1>3, Zenon DEF w

LEMMA RemoveAllUnique ==
  ASSUME NEW v \in Vaults, OneEntryEach(v), NEW V \in SUBSET Functions
  PROVE  OneEntryEach(RemoveAll(v, V))
<1> DEFINE w == RemoveAll(v, V)
<1>1. w.live = v.live \ V
  BY RemoveAllKeys
<1>2. \A f \in v.live \ V : /\ w.entry[f].key = v.entry[f].key
                            /\ w.entry[f].cont = v.entry[f].cont
  <2> TAKE f \in v.live \ V
  <2> QED BY RemoveAllKeys
<1> HIDE DEF w
<1>3. OneEntryEach(w)
  BY <1>1, <1>2, SameKeysUnique
<1> QED BY <1>3 DEF w

LEMMA InsertedUnique ==
  ASSUME NEW v \in Vaults, OneEntryEach(v), NEW f \in Functions \ v.live,
         NEW e \in Entries, NEW o \in Outcomes,
         \A g \in v.live : ~(v.entry[g].key = e.key /\ v.entry[g].cont = e.cont)
  PROVE  OneEntryEach(Inserted(v, f, e, o))
<1> DEFINE x == Inserted(v, f, e, o)
           r == Registered(e, o)
<1>1. r.key = e.key /\ r.cont = e.cont
  BY RegisteredType
<1> HIDE DEF r
<1>2. /\ x.live = v.live \cup {f}
      /\ x.entry = [v.entry EXCEPT ![f] = r]
      /\ v.entry \in [Functions -> Entries] /\ v.live \in SUBSET Functions
  BY DEF Inserted, Vaults, r
<1> HIDE DEF x
<1>3. /\ x.entry[f] = r
      /\ \A g \in v.live : x.entry[g] = v.entry[g] /\ g # f
  BY <1>2
<1>4. OneEntryEach(x)
  BY <1>1, <1>2, <1>3 DEF OneEntryEach
<1> QED BY <1>4 DEF x

LEMMA CompiledUnique ==
  ASSUME NEW v, GoodVault(v), OneEntryEach(v), NEW k \in Keys,
         NEW f \in Functions \ v.live, EntryOf(v, k) = {},
         NEW S \in SUBSET Sites, \A s \in S : SiteSound(v, s),
         NEW V \in SUBSET v.live, NEW o \in Outcomes
  PROVE  OneEntryEach(Compiled(v, k, f, S, V, o))
<1> DEFINE w == RemoveAll(v, V)
           e == [NoEntry EXCEPT !.key = k, !.sites = S]
           x == Inserted(w, f, e, o)
           y == Compiled(v, k, f, S, V, o)
<1>1. /\ V \in SUBSET Functions /\ v \in Vaults /\ v.live \in SUBSET Functions
  BY SMTT(60) DEF GoodVault, Vaults
<1>2. GoodVault(w) /\ KeepsSites(v, w) /\ OneEntryEach(w) /\ w \in Vaults
  BY <1>1, RemoveAllGood, RemoveAllUnique, SMTT(60) DEF GoodVault
<1>3. /\ w.live = v.live \ V
      /\ \A g \in v.live \ V : /\ w.entry[g].key = v.entry[g].key
                               /\ w.entry[g].cont = v.entry[g].cont
  <2>1. w.live = v.live \ V
    BY <1>1, RemoveAllKeys, SMTT(60)
  <2>2. ASSUME NEW g \in v.live \ V
        PROVE  w.entry[g].key = v.entry[g].key /\ w.entry[g].cont = v.entry[g].cont
    BY <1>1, RemoveAllKeys
  <2> QED BY <2>1, <2>2
<1>4. /\ e \in Entries /\ e.handle = Null /\ e.sites = S /\ e.key = k /\ e.cont = Null
  BY Zenon DEF NoEntry, Entries
<1> HIDE DEF w, e
<1>5. \A g \in w.live : ~(w.entry[g].key = e.key /\ w.entry[g].cont = e.cont)
  BY <1>3, <1>4, SMTT(60) DEF EntryOf
<1>6. OneEntryEach(x)
  BY <1>2, <1>3, <1>4, <1>5, InsertedUnique, SMTT(60)
<1>7. GoodVault(x)
  BY <1>2, <1>3, <1>4, InsertedGood DEF KeepsSites
<1> HIDE DEF x
<1>8. OneEntryEach(LookedUp(x, f))
  BY <1>6, <1>7, SMTT(60) DEF LookedUp, OneEntryEach, GoodVault, Vaults
<1>9. OneEntryEach(RemoveAll(x, {f}))
  BY <1>6, <1>7, RemoveAllUnique DEF GoodVault
<1>10. y = IF o = "ok" THEN LookedUp(x, f) ELSE RemoveAll(x, {f})
  BY DEF Compiled, x, e, w
<1> QED BY <1>8, <1>9, <1>10

LEMMA ContinuationStoredUnique ==
  ASSUME NEW v, GoodVault(v), OneEntryEach(v), NEW c \in Conts,
         NEW f \in Functions \ v.live, ContinuationEntry(v, c) = {},
         NEW S \in SUBSET Sites, \A s \in S : SiteSound(v, s),
         NEW V \in SUBSET v.live, NEW o \in Outcomes
  PROVE  OneEntryEach(ContinuationStored(v, c, f, S, V, o))
<1> DEFINE w == RemoveAll(v, V)
           e == [NoEntry EXCEPT !.cont = c, !.sites = S]
           x == Inserted(w, f, e, o)
           y == ContinuationStored(v, c, f, S, V, o)
<1>1. /\ V \in SUBSET Functions /\ v \in Vaults /\ v.live \in SUBSET Functions
  BY DEF GoodVault, Vaults
<1>2. GoodVault(w) /\ KeepsSites(v, w) /\ OneEntryEach(w) /\ w \in Vaults
  BY <1>1, RemoveAllGood, RemoveAllUnique DEF GoodVault
<1>3. /\ w.live = v.live \ V
      /\ \A g \in v.live \ V : /\ w.entry[g].key = v.entry[g].key
                               /\ w.entry[g].cont = v.entry[g].cont
  <2>1. w.live = v.live \ V
    BY <1>1, RemoveAllKeys
  <2>2. ASSUME NEW g \in v.live \ V
        PROVE  w.entry[g].key = v.entry[g].key /\ w.entry[g].cont = v.entry[g].cont
    BY <1>1, RemoveAllKeys
  <2> QED BY <2>1, <2>2
<1>4. /\ e \in Entries /\ e.handle = Null /\ e.sites = S /\ e.cont = c
  BY Zenon DEF NoEntry, Entries
<1> HIDE DEF w, e
<1>5. \A g \in w.live : ~(w.entry[g].key = e.key /\ w.entry[g].cont = e.cont)
  BY <1>3, <1>4, SMTT(60) DEF ContinuationEntry
<1>6. OneEntryEach(x)
  BY <1>2, <1>3, <1>4, <1>5, InsertedUnique, SMTT(60)
<1>7. GoodVault(x)
  BY <1>2, <1>3, <1>4, InsertedGood DEF KeepsSites
<1> HIDE DEF x
<1>8. OneEntryEach(RemoveAll(x, {f}))
  BY <1>6, <1>7, RemoveAllUnique DEF GoodVault
<1>9. y = IF o = "ok" THEN x ELSE RemoveAll(x, {f})
  BY DEF ContinuationStored, x, e, w
<1> QED BY <1>6, <1>8, <1>9

\* The entries of w have the keys, call sites and edges of those of v.
SameContents(v, w) ==
  /\ w.live = v.live
  /\ \A g \in Functions : /\ w.entry[g].key = v.entry[g].key
                          /\ w.entry[g].cont = v.entry[g].cont
                          /\ w.entry[g].sites = v.entry[g].sites
                          /\ w.entry[g].deps = v.entry[g].deps
                          /\ w.entry[g].ids = v.entry[g].ids

LEMMA AttachedKeys ==
  ASSUME NEW v \in Vaults, NEW f \in v.live, NEW h \in Handles, NEW kind, NEW argc
  PROVE  SameContents(v, Attached(v, f, h, kind, argc))
<1> DEFINE w == Attached(v, f, h, kind, argc)
           ent == [v.entry EXCEPT ![f].handle = h]
<1>1. /\ v.live \in SUBSET Functions /\ v.entry \in [Functions -> Entries]
      /\ f \in Functions
  BY DEF Vaults
<1>2. w.live = v.live /\ w.entry = ent
  BY DEF Attached, Vaults
<1> HIDE DEF w
<1>3. \A g \in Functions : /\ ent[g].key = v.entry[g].key /\ ent[g].cont = v.entry[g].cont
                           /\ ent[g].sites = v.entry[g].sites
                           /\ ent[g].deps = v.entry[g].deps /\ ent[g].ids = v.entry[g].ids
  BY <1>1, SMTT(60) DEF Entries
<1> QED BY <1>2, <1>3, Zenon DEF SameContents, w

LEMMA RepatchDependentsKeys ==
  ASSUME NEW v \in Vaults, NEW O \in SUBSET v.live, NEW h \in Handles,
         NEW i, NEW kind, NEW argc, NEW out \in [O -> Outcomes]
  PROVE  LET w == RepatchDependents(v, O, i, h, kind, argc, out) IN
         /\ w.live = v.live
         /\ \A g \in Functions : /\ w.entry[g].key = v.entry[g].key
                                 /\ w.entry[g].cont = v.entry[g].cont
<1> DEFINE w == RepatchDependents(v, O, i, h, kind, argc, out)
           P(g) == PatchOwner(v, g, i, h, kind, argc, out[g])
<1>1. /\ w.live = v.live
      /\ w.entry = [g \in Functions |-> IF g \in O THEN P(g) ELSE v.entry[g]]
      /\ v.entry \in [Functions -> Entries]
      /\ v.handle[h].generation \in Nat
  BY DEF RepatchDependents, Vaults, HandleRecords
<1> HIDE DEF w
<1>2. ASSUME NEW g \in Functions, g \in O
      PROVE  P(g).key = v.entry[g].key /\ P(g).cont = v.entry[g].cont
  <2> DEFINE e == v.entry[g]
             S == Repatched(e.sites, i, h, v.handle[h].generation, kind, argc)
             q == [e EXCEPT !.sites = S]
  <2>1. e \in Entries /\ e.sites \in SUBSET Sites /\ out[g] \in Outcomes
    BY <1>1, <1>2, SMTT(60) DEF Entries
  <2>2. S \in SUBSET Sites
    BY <1>1, <2>1, RepatchedType
  <2> HIDE DEF S
  <2>3. q \in Entries /\ q.key = e.key /\ q.cont = e.cont
    BY <2>1, <2>2 DEF Entries
  <2>4. P(g) = IF \E s \in e.sites : Repatchable(s, i, kind, argc)
               THEN Registered(q, out[g]) ELSE e
    BY SMTT(60) DEF PatchOwner, S
  <2> HIDE DEF q, P, e
  <2>5. Registered(q, out[g]).key = q.key /\ Registered(q, out[g]).cont = q.cont
    BY <2>1, <2>3, RegisteredType
  <2> QED BY <2>3, <2>4, <2>5, SMTT(60) DEF e
<1> HIDE DEF P
<1> QED BY <1>1, <1>2 DEF w

LEMMA NextUnique == Inv /\ UniqueEntries /\ [Next]_vars => UniqueEntries'
<1> SUFFICES ASSUME Inv, OneEntryEach(vault), [Next]_vars PROVE OneEntryEach(vault')
  BY DEF UniqueEntries
<1>0. GoodVault(vault) /\ vault \in Vaults /\ vault.live \in SUBSET Functions
  BY DEF Inv, GoodVault, Vaults
<1>1. ASSUME vault' = vault PROVE OneEntryEach(vault')
  BY <1>1
<1>2. ASSUME NEW k \in Keys, Lookup(k) PROVE OneEntryEach(vault')
  BY <1>0, <1>2, SMTT(60) DEF Lookup, LookedUp, OneEntryEach, Vaults
<1>3. ASSUME NEW k \in Keys, Compile(k) PROVE OneEntryEach(vault')
  <2>1. PICK f \in Functions \ vault.live, V \in SUBSET vault.live, o \in OutcomesOf(ir[k]) :
          vault' = Compiled(vault, k, f, ir[k], V, o)
    BY <1>3, SMTT(60) DEF Compile
  <2>2. o \in Outcomes /\ ir[k] \in SUBSET Sites /\ \A s \in ir[k] : SiteSound(vault, s)
    BY DEF Inv, OutcomesOf
  <2>3. EntryOf(vault, k) = {}
    BY <1>3 DEF Compile
  <2> QED BY <1>0, <2>1, <2>2, <2>3, CompiledUnique, SMTT(60)
<1>4. ASSUME NEW k \in Keys, Invalidate(k) PROVE OneEntryEach(vault')
  BY <1>0, <1>4, RemoveAllUnique, SMTT(60) DEF Invalidate, EntryOf
<1>5. ASSUME NEW c \in Conts, NEW k \in Keys, StoreContinuation(c, k)
      PROVE  OneEntryEach(vault')
  <2>1. PICK f \in Functions \ vault.live, V \in SUBSET vault.live, S \in SUBSET ir[k] :
          \E o \in OutcomesOf(S) : vault' = ContinuationStored(vault, c, f, S, V, o)
    BY <1>5, SMTT(60) DEF StoreContinuation
  <2>2. PICK o \in OutcomesOf(S) : vault' = ContinuationStored(vault, c, f, S, V, o)
    BY <2>1, SMTT(60)
  <2>3. o \in Outcomes /\ S \in SUBSET Sites /\ \A s \in S : SiteSound(vault, s)
    BY SMTT(60) DEF Inv, OutcomesOf
  <2>4. ContinuationEntry(vault, c) = {}
    BY <1>5, SMTT(60) DEF StoreContinuation
  <2> QED BY <1>0, <2>2, <2>3, <2>4, ContinuationStoredUnique, SMTT(60)
<1>6. ASSUME NEW k \in Keys, NEW h \in Handles, NEW kind \in Kinds,
             NEW argc \in ArgCounts, NEW i \in {k, Null}, Attach(k, h, kind, argc, i)
      PROVE  OneEntryEach(vault')
  <2>1. PICK f \in EntryOf(vault, k) :
          LET v == Attached(vault, f, h, kind, argc) IN
          \E O \in {Owners(v, i)} \cup (IF AllocMayFail THEN {{}} ELSE {}) :
            \E out \in [O -> IF AllocMayFail THEN Outcomes ELSE {"ok"}] :
              vault' = RepatchDependents(v, O, i, h, kind, argc, out)
    BY <1>6, SMTT(60) DEF Attach
  <2> DEFINE v == Attached(vault, f, h, kind, argc)
  <2>2. PICK O \in {Owners(v, i)} \cup (IF AllocMayFail THEN {{}} ELSE {}) :
          \E out \in [O -> IF AllocMayFail THEN Outcomes ELSE {"ok"}] :
            vault' = RepatchDependents(v, O, i, h, kind, argc, out)
    BY <2>1
  <2>3. PICK out \in [O -> Outcomes] : vault' = RepatchDependents(v, O, i, h, kind, argc, out)
    BY <2>2, SMTT(60) DEF Outcomes
  <2>4. f \in vault.live /\ vault.entry[f].cont = Null
    BY DEF EntryOf
  <2>5. v \in Vaults
    BY <1>0, <2>4, AttachedGood, ZenonT(60) DEF GoodVault
  <2>6. O \in SUBSET v.live
    BY <2>2, ZenonT(60) DEF Owners
  <2>7. /\ v.live = vault.live
        /\ \A g \in Functions : /\ v.entry[g].key = vault.entry[g].key
                                /\ v.entry[g].cont = vault.entry[g].cont
                                /\ v.entry[g].sites = vault.entry[g].sites
                                /\ v.entry[g].deps = vault.entry[g].deps
                                /\ v.entry[g].ids = vault.entry[g].ids
    <3>1. SameContents(vault, v)
      BY <1>0, <2>4, AttachedKeys, ZenonT(60) DEF GoodVault
    <3> QED BY <3>1, Zenon DEF SameContents
  <2> HIDE DEF v
  <2>8. OneEntryEach(v)
    BY <1>0, <2>7, SameKeysUnique, ZenonT(60)
  <2>9. /\ vault'.live = v.live
        /\ \A g \in Functions : /\ vault'.entry[g].key = v.entry[g].key
                                /\ vault'.entry[g].cont = v.entry[g].cont
    BY <2>3, <2>5, <2>6, RepatchDependentsKeys, SMTT(60)
  <2> QED BY <1>0, <2>7, <2>8, <2>9, SameKeysUnique, SMTT(60)
<1>7. ASSUME Clear PROVE OneEntryEach(vault')
  <2> DEFINE u == RemoveAll(vault, vault.live)
  <2>1. OneEntryEach(u) /\ u \in Vaults
    BY <1>0, RemoveAllUnique, RemoveAllGood DEF GoodVault
  <2> HIDE DEF u
  <2>2. vault'.live = u.live /\ vault'.entry = u.entry
    BY <1>7, <2>1 DEF Clear, u, Vaults
  <2> QED BY <2>1, <2>2, SMTT(60) DEF OneEntryEach
<1>8. ASSUME NEW k \in Keys, Resolve(k) PROVE vault' = vault
  BY <1>8 DEF Resolve
<1> QED
  BY <1>1, <1>2, <1>3, <1>4, <1>5, <1>6, <1>7, <1>8, SMTT(60) DEF Next, vars

\* At most one live entry per key and per continuation, for any number of
\* keys, functions, entries and evictions (find_slot and
\* find_continuation_entry guard every insertion).
THEOREM EntriesUnique == Spec => []UniqueEntries
<1>1. Init => UniqueEntries
  BY DEF Init, EmptyVault, UniqueEntries, OneEntryEach
<1> QED BY <1>1, Invariance, NextUnique, PTL DEF Spec

\* The Vault stays well formed, its last-key shortcut and its entries included.
THEOREM VaultConsistent == Spec => []Consistent
BY TypeCorrect, LastLookupSafe, EntriesUnique, PTL DEF Consistent

-----------------------------------------------------------------------------
(* The reverse indices *)

Covered(e) == Targets(e.sites) \subseteq e.deps /\ Identities(e.sites) \subseteq e.ids

LEMMA ClearTargetsTargets ==
  ASSUME NEW S \in SUBSET Sites, NEW H
  PROVE  /\ Targets(ClearTargets(S, H)) \subseteq Targets(S) \ H
         /\ Identities(ClearTargets(S, H)) \subseteq Identities(S)
<1>1. ASSUME NEW t \in ClearTargets(S, H)
      PROVE  /\ t.target = Null \/ (t.target \in Targets(S) /\ t.target \notin H)
             /\ t.id = Null \/ t.id \in Identities(S)
  <2>1. PICK s \in S : t = IF s.target \in H THEN [s EXCEPT !.target = Null, !.gen = 0] ELSE s
    BY Zenon DEF ClearTargets
  <2>2. s \in Sites
    OBVIOUS
  <2>3. CASE s.target \in H
    <3>1. t.target = Null /\ t.id = s.id
      BY <2>1, <2>2, <2>3 DEF Sites
    <3> QED BY <3>1 DEF Identities
  <2>4. CASE s.target \notin H
    BY <2>1, <2>4 DEF Targets, Identities
  <2> QED BY <2>3, <2>4
<1> QED BY <1>1 DEF Targets, Identities

LEMMA RegisteredCovered ==
  ASSUME NEW e \in Entries
  PROVE  Covered(Registered(e, "ok"))
<1>1. Targets(e.sites) \in SUBSET Handles
  BY DEF Targets, Entries, Sites
<1>2. Identities(e.sites) \in SUBSET Keys
  BY DEF Identities, Entries, Sites
<1>3. /\ Registered(e, "ok").deps = Targets(e.sites)
      /\ Registered(e, "ok").ids = Identities(e.sites)
      /\ Registered(e, "ok").sites = e.sites
  BY <1>1, <1>2, SMTT(60) DEF Registered, Entries
<1> QED BY <1>3 DEF Covered

LEMMA RemoveAllSites ==
  ASSUME NEW v \in Vaults, NEW V \in SUBSET Functions, NEW g \in v.live \ V
  PROVE  LET w == RemoveAll(v, V) IN
         /\ Targets(w.entry[g].sites) \subseteq
              Targets(v.entry[g].sites) \ (Retired(v, V) \cap v.entry[g].deps)
         /\ Identities(w.entry[g].sites) \subseteq Identities(v.entry[g].sites)
         /\ w.entry[g].deps = v.entry[g].deps
         /\ w.entry[g].ids = v.entry[g].ids
<1> DEFINE w == RemoveAll(v, V)
<1>1. g \in Functions \ V /\ v.entry[g] \in Entries /\ v.entry[g].sites \in SUBSET Sites
  BY SMTT(60) DEF Vaults, Entries
<1>2. \A f \in Functions \ V :
              /\ w.entry[f] \in Entries
              /\ w.entry[f].key = v.entry[f].key
              /\ w.entry[f].cont = v.entry[f].cont
              /\ w.entry[f].handle = v.entry[f].handle
              /\ w.entry[f].deps = v.entry[f].deps
              /\ w.entry[f].ids = v.entry[f].ids
              /\ w.entry[f].sites =
                   ClearTargets(v.entry[f].sites, Retired(v, V) \cap v.entry[f].deps)
  BY RemoveAllFields, SMTT(60)
<1> HIDE DEF w
<1>3. /\ w.entry[g].deps = v.entry[g].deps
      /\ w.entry[g].ids = v.entry[g].ids
      /\ w.entry[g].sites = ClearTargets(v.entry[g].sites, Retired(v, V) \cap v.entry[g].deps)
  BY <1>1, <1>2
<1> QED BY <1>1, <1>3, ClearTargetsTargets DEF w

LEMMA RemoveAllCovers ==
  ASSUME NEW v \in Vaults, IndexCovers(v), NEW V \in SUBSET Functions
  PROVE  IndexCovers(RemoveAll(v, V))
<1> DEFINE w == RemoveAll(v, V)
<1>1. w.live = v.live \ V
  BY RemoveAllKeys, SMTT(60)
<1>2. ASSUME NEW f \in v.live \ V PROVE Covered(w.entry[f])
  <2>1. /\ Targets(w.entry[f].sites) \subseteq Targets(v.entry[f].sites)
        /\ Identities(w.entry[f].sites) \subseteq Identities(v.entry[f].sites)
        /\ w.entry[f].deps = v.entry[f].deps
        /\ w.entry[f].ids = v.entry[f].ids
    BY RemoveAllSites
  <2> HIDE DEF w
  <2> QED BY <2>1 DEF Covered, IndexCovers
<1> HIDE DEF w
<1>3. IndexCovers(w)
  BY <1>1, <1>2 DEF IndexCovers, Covered
<1> QED BY <1>3 DEF w

LEMMA RemoveAllClears ==
  ASSUME NEW v, GoodVault(v), IndexCovers(v), NEW V \in SUBSET Functions
  PROVE  ClearsRetired(v, RemoveAll(v, V))
<1> DEFINE w == RemoveAll(v, V)
<1>0. v \in Vaults /\ HandleOwned(v) /\ v.live \in SUBSET Functions
  BY DEF GoodVault, Vaults
<1>1. w.live = v.live \ V
  BY <1>0, RemoveAllKeys
<1>2. ASSUME NEW h \in Handles, v.handle[h].function # Null,
             v.handle[h].function \notin v.live \ V, NEW f \in v.live \ V
      PROVE  h \notin Targets(w.entry[f].sites)
  <2>1. h \in Retired(v, V)
    BY <1>0, <1>2 DEF HandleOwned, Retired
  <2>2. Targets(w.entry[f].sites) \subseteq
          Targets(v.entry[f].sites) \ (Retired(v, V) \cap v.entry[f].deps)
    BY <1>0, RemoveAllSites
  <2>3. Targets(v.entry[f].sites) \subseteq v.entry[f].deps
    BY DEF IndexCovers
  <2> HIDE DEF w
  <2> QED BY <2>1, <2>2, <2>3, SMTT(60)
<1> HIDE DEF w
<1>3. ClearsRetired(v, w)
  BY <1>1, <1>2 DEF ClearsRetired
<1> QED BY <1>3 DEF w

LEMMA InsertedCovers ==
  ASSUME NEW v \in Vaults, IndexCovers(v), NEW f \in Functions \ v.live, NEW e \in Entries
  PROVE  LET x == Inserted(v, f, e, "ok") IN
         /\ IndexCovers(x)
         /\ x.live = v.live \cup {f}
         /\ \A g \in v.live : x.entry[g] = v.entry[g]
<1> DEFINE x == Inserted(v, f, e, "ok")
           r == Registered(e, "ok")
<1>1. Covered(r)
  BY RegisteredCovered
<1> HIDE DEF r
<1>2. /\ x.live = v.live \cup {f}
      /\ x.entry = [v.entry EXCEPT ![f] = r]
      /\ v.entry \in [Functions -> Entries] /\ v.live \in SUBSET Functions
  BY DEF Inserted, Vaults, r
<1> HIDE DEF x
<1>3. /\ x.entry[f] = r
      /\ \A g \in v.live : x.entry[g] = v.entry[g]
  BY <1>2
<1>4. IndexCovers(x)
  BY <1>1, <1>2, <1>3 DEF IndexCovers, Covered
<1> QED BY <1>2, <1>3, <1>4 DEF x

\* Evicting V and inserting a fresh function f, the common part of
\* Compiled and ContinuationStored.
LEMMA ReplacedIndex ==
  ASSUME NEW v, GoodVault(v), IndexCovers(v), NEW V \in SUBSET v.live,
         NEW f \in Functions \ v.live, NEW e \in Entries
  PROVE  LET x == Inserted(RemoveAll(v, V), f, e, "ok") IN
         /\ IndexCovers(x)
         /\ ClearsRetired(v, x)
<1> DEFINE w == RemoveAll(v, V)
           x == Inserted(w, f, e, "ok")
<1>0. /\ v \in Vaults /\ HandleOwned(v) /\ v.live \in SUBSET Functions
      /\ V \in SUBSET Functions
  BY DEF GoodVault, Vaults
<1>1. w \in Vaults /\ IndexCovers(w) /\ ClearsRetired(v, w) /\ w.live = v.live \ V
  BY <1>0, RemoveAllGood, RemoveAllCovers, RemoveAllClears, RemoveAllKeys, SMTT(60) DEF GoodVault
<1> HIDE DEF w
<1>2. /\ IndexCovers(x)
      /\ x.live = w.live \cup {f}
      /\ \A g \in w.live : x.entry[g] = w.entry[g]
  BY <1>1, InsertedCovers, SMTT(60)
<1> HIDE DEF x
<1>3. ASSUME NEW h \in Handles, v.handle[h].function # Null,
             v.handle[h].function \notin x.live, NEW g \in v.live \cap x.live
      PROVE  h \notin Targets(x.entry[g].sites)
  BY <1>1, <1>2, <1>3 DEF ClearsRetired
<1>4. ClearsRetired(v, x)
  BY <1>3 DEF ClearsRetired
<1> QED BY <1>2, <1>4 DEF x, w

LEMMA CompiledIndex ==
  ASSUME NEW v, GoodVault(v), IndexCovers(v), NEW k \in Keys,
         NEW f \in Functions \ v.live, NEW S \in SUBSET Sites, NEW V \in SUBSET v.live
  PROVE  LET y == Compiled(v, k, f, S, V, "ok") IN
         IndexCovers(y) /\ ClearsRetired(v, y)
<1> DEFINE e == [NoEntry EXCEPT !.key = k, !.sites = S]
           w == RemoveAll(v, V)
           x == Inserted(w, f, e, "ok")
           y == Compiled(v, k, f, S, V, "ok")
<1>1. e \in Entries
  BY Zenon DEF NoEntry, Entries
<1> HIDE DEF e
<1>2. IndexCovers(x) /\ ClearsRetired(v, x)
  BY <1>1, ReplacedIndex
<1>3. w \in Vaults
  BY RemoveAllGood DEF GoodVault, Vaults
<1> HIDE DEF w
<1>4. y = LookedUp(x, f)
  BY DEF Compiled, e, w
<1>5. y.live = x.live /\ y.entry = x.entry
  <2> HIDE DEF y
  <2>1. DOMAIN x = DOMAIN w
    BY <1>3 DEF Inserted, Vaults
  <2>2. DOMAIN x = {"live", "entry", "handle", "lastKey", "lastFunction"}
    BY <1>3, <2>1, SMTT(60) DEF Vaults
  <2> HIDE DEF x
  <2> QED BY <1>4, <2>2 DEF LookedUp
<1> HIDE DEF x, y
<1>6. IndexCovers(y) /\ ClearsRetired(v, y)
  BY <1>2, <1>5 DEF IndexCovers, ClearsRetired
<1> QED BY <1>6 DEF y

LEMMA ContinuationStoredIndex ==
  ASSUME NEW v, GoodVault(v), IndexCovers(v), NEW c \in Conts,
         NEW f \in Functions \ v.live, NEW S \in SUBSET Sites, NEW V \in SUBSET v.live
  PROVE  LET y == ContinuationStored(v, c, f, S, V, "ok") IN
         IndexCovers(y) /\ ClearsRetired(v, y)
<1> DEFINE e == [NoEntry EXCEPT !.cont = c, !.sites = S]
<1>1. e \in Entries
  BY Zenon DEF NoEntry, Entries
<1>2. ContinuationStored(v, c, f, S, V, "ok") = Inserted(RemoveAll(v, V), f, e, "ok")
  BY DEF ContinuationStored
<1> HIDE DEF e
<1> QED BY <1>1, <1>2, ReplacedIndex

LEMMA RepatchDependentsCovers ==
  ASSUME NEW v \in Vaults, IndexCovers(v), NEW O \in SUBSET v.live, NEW h \in Handles,
         NEW i, NEW kind, NEW argc, NEW out \in [O -> {"ok"}]
  PROVE  IndexCovers(RepatchDependents(v, O, i, h, kind, argc, out))
<1> DEFINE w == RepatchDependents(v, O, i, h, kind, argc, out)
           P(g) == PatchOwner(v, g, i, h, kind, argc, out[g])
<1>1. /\ w.live = v.live
      /\ w.entry = [g \in Functions |-> IF g \in O THEN P(g) ELSE v.entry[g]]
      /\ v.entry \in [Functions -> Entries]
      /\ v.handle[h].generation \in Nat
      /\ v.live \in SUBSET Functions
  BY DEF RepatchDependents, Vaults, HandleRecords
<1> HIDE DEF w
<1>2. ASSUME NEW g \in Functions, g \in O PROVE Covered(P(g))
  <2> DEFINE e == v.entry[g]
             S == Repatched(e.sites, i, h, v.handle[h].generation, kind, argc)
             q == [e EXCEPT !.sites = S]
  <2>1. e \in Entries /\ e.sites \in SUBSET Sites /\ out[g] = "ok"
    BY <1>1, <1>2 DEF Entries
  <2>2. S \in SUBSET Sites
    BY <1>1, <2>1, RepatchedType
  <2> HIDE DEF S
  <2>3. q \in Entries
    BY <2>1, <2>2 DEF Entries
  <2>4. P(g) = IF \E s \in e.sites : Repatchable(s, i, kind, argc)
               THEN Registered(q, "ok") ELSE e
    BY <2>1 DEF PatchOwner, S
  <2>5. Covered(e)
    BY <1>2 DEF IndexCovers, Covered
  <2> HIDE DEF q, P, e
  <2>6. Covered(Registered(q, "ok"))
    BY <2>3, RegisteredCovered
  <2> QED BY <2>4, <2>5, <2>6
<1> HIDE DEF P
<1>3. ASSUME NEW g \in v.live PROVE Covered(w.entry[g])
  <2>1. CASE g \in O
    BY <1>1, <1>2, <2>1
  <2>2. CASE g \notin O
    BY <1>1, <2>2 DEF IndexCovers, Covered
  <2> QED BY <2>1, <2>2
<1>4. IndexCovers(w)
  BY <1>1, <1>3, ZenonT(60) DEF IndexCovers, Covered
<1> QED BY <1>4 DEF w

\* A step that keeps all live entries has nothing to clear.
LEMMA SameLiveClears ==
  ASSUME NEW v, NEW w, HandleOwned(v), w.live = v.live
  PROVE  ClearsRetired(v, w)
BY DEF ClearsRetired, HandleOwned

-----------------------------------------------------------------------------
(* Every step *)

LEMMA NextIndex ==
  ASSUME ~AllocMayFail
  PROVE  Inv /\ IndexComplete /\ [Next]_vars =>
           IndexComplete' /\ [ClearsRetired(vault, vault')]_vars
<1> DEFINE Goal == IndexCovers(vault') /\ ClearsRetired(vault, vault')
<1> SUFFICES ASSUME Inv, IndexCovers(vault), [Next]_vars PROVE Goal
  BY DEF IndexComplete
<1>0. /\ GoodVault(vault) /\ vault \in Vaults /\ vault.live \in SUBSET Functions
      /\ HandleOwned(vault)
  BY DEF Inv, GoodVault, Vaults
<1>1. ASSUME vault' = vault PROVE Goal
  BY <1>0, <1>1, SameLiveClears
<1>2. ASSUME NEW k \in Keys, Lookup(k) PROVE Goal
  <2>1. vault'.live = vault.live /\ vault'.entry = vault.entry
    BY <1>0, <1>2 DEF Lookup, LookedUp, Vaults
  <2> QED BY <1>0, <2>1, SameLiveClears DEF IndexCovers
<1>3. ASSUME NEW k \in Keys, Compile(k) PROVE Goal
  <2>1. PICK f \in Functions \ vault.live, V \in SUBSET vault.live, o \in OutcomesOf(ir[k]) :
          vault' = Compiled(vault, k, f, ir[k], V, o)
    BY <1>3 DEF Compile
  <2>2. o = "ok" /\ ir[k] \in SUBSET Sites
    BY DEF Inv, OutcomesOf
  <2> QED BY <1>0, <2>1, <2>2, CompiledIndex
<1>4. ASSUME NEW k \in Keys, Invalidate(k) PROVE Goal
  BY <1>0, <1>4, RemoveAllCovers, RemoveAllClears, SMTT(60) DEF Invalidate, EntryOf
<1>5. ASSUME NEW c \in Conts, NEW k \in Keys, StoreContinuation(c, k) PROVE Goal
  <2>1. PICK f \in Functions \ vault.live, V \in SUBSET vault.live, S \in SUBSET ir[k] :
          \E o \in OutcomesOf(S) : vault' = ContinuationStored(vault, c, f, S, V, o)
    BY <1>5 DEF StoreContinuation
  <2>2. PICK o \in OutcomesOf(S) : vault' = ContinuationStored(vault, c, f, S, V, o)
    BY <2>1
  <2>3. o = "ok" /\ S \in SUBSET Sites
    BY DEF Inv, OutcomesOf
  <2> QED BY <1>0, <2>2, <2>3, ContinuationStoredIndex, SMTT(60)
<1>6. ASSUME NEW k \in Keys, NEW h \in Handles, NEW kind \in Kinds,
             NEW argc \in ArgCounts, NEW i \in {k, Null}, Attach(k, h, kind, argc, i)
      PROVE  Goal
  <2>1. PICK f \in EntryOf(vault, k) :
          LET v == Attached(vault, f, h, kind, argc) IN
          \E O \in {Owners(v, i)} \cup (IF AllocMayFail THEN {{}} ELSE {}) :
            \E out \in [O -> IF AllocMayFail THEN Outcomes ELSE {"ok"}] :
              vault' = RepatchDependents(v, O, i, h, kind, argc, out)
    BY <1>6 DEF Attach
  <2> DEFINE v == Attached(vault, f, h, kind, argc)
  <2>2. PICK out \in [Owners(v, i) -> {"ok"}] :
          vault' = RepatchDependents(v, Owners(v, i), i, h, kind, argc, out)
    BY <2>1, SMTT(60)
  <2>4. f \in vault.live /\ vault.entry[f].cont = Null
    BY ZenonT(60) DEF EntryOf
  <2>5. v \in Vaults
    BY <1>0, <2>4, AttachedGood, ZenonT(60) DEF GoodVault
  <2>6. Owners(v, i) \in SUBSET v.live
    BY ZenonT(60) DEF Owners
  <2>7. /\ v.live = vault.live
        /\ \A g \in Functions : /\ v.entry[g].key = vault.entry[g].key
                                /\ v.entry[g].cont = vault.entry[g].cont
                                /\ v.entry[g].sites = vault.entry[g].sites
                                /\ v.entry[g].deps = vault.entry[g].deps
                                /\ v.entry[g].ids = vault.entry[g].ids
    <3>1. SameContents(vault, v)
      BY <1>0, <2>4, AttachedKeys, ZenonT(60) DEF GoodVault
    <3> QED BY <3>1, Zenon DEF SameContents
  <2> HIDE DEF v
  <2>8. IndexCovers(v)
    BY <1>0, <2>7, SMTT(60) DEF IndexCovers
  <2>9. IndexCovers(vault')
    BY <2>2, <2>5, <2>6, <2>8, RepatchDependentsCovers
  <2>10. vault'.live = vault.live
    BY <2>2, <2>5, <2>7, SMTT(60) DEF RepatchDependents, Vaults
  <2> QED BY <1>0, <2>9, <2>10, SameLiveClears, ZenonT(60)
<1>7. ASSUME Clear PROVE Goal
  <2>1. vault'.live = {}
    BY <1>0, <1>7, RemoveAllKeys DEF Clear, RemoveAll
  <2> QED BY <2>1, SMTT(60) DEF IndexCovers, ClearsRetired
<1>8. ASSUME NEW k \in Keys, Resolve(k) PROVE vault' = vault
  BY <1>8 DEF Resolve
<1> HIDE DEF Goal
<1> QED
  BY <1>1, <1>2, <1>3, <1>4, <1>5, <1>6, <1>7, <1>8, SMTT(60) DEF Next, vars

\* While index edges can be allocated, the reverse dependency index and the
\* identity index lead to every call site of every live entry.
THEOREM IndexIsComplete ==
  ASSUME ~AllocMayFail
  PROVE  Spec => []IndexComplete
<1>1. Init => IndexComplete
  BY DEF Init, EmptyVault, IndexComplete, IndexCovers
<1>2. Inv /\ IndexComplete /\ [Next]_vars => IndexComplete'
  BY NextIndex
<1> QED BY <1>1, <1>2, Invariance, PTL DEF Spec

\* While index edges can be allocated, removing a function (eviction,
\* Invalidate, Clear) clears every call site at its handle in the same step,
\* so no surviving caller keeps a pointer to a retired handle.
THEOREM RetirementClears ==
  ASSUME ~AllocMayFail
  PROVE  Spec => RetirementClearsSites
<1>1. Inv /\ IndexComplete /\ [Next]_vars => [ClearsRetired(vault, vault')]_vars
  BY NextIndex
<1> QED BY <1>1, Invariance, IndexIsComplete, PTL DEF Spec, RetirementClearsSites
=============================================================================
