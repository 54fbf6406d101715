--------------------------- MODULE VaultOpsProofs ---------------------------
(***************************************************************************)
(* Every operation of VaultOps keeps a Vault good (GoodVault), keeps every *)
(* sound call site sound, wherever the site is stored, and advances the    *)
(* generations of the handles it touches.  The state machines that drive a *)
(* Vault build their invariants on these lemmas.                           *)
(***************************************************************************)
EXTENDS VaultOps, TLAPS

SitesSound(v) ==
  \A f \in v.live : \A s \in v.entry[f].sites : SiteSound(v, s)

\* The inductive invariant of a single Vault.
GoodVault(v) ==
  /\ v \in Vaults
  /\ DeadBlank(v)
  /\ Signed(v)
  /\ HandleOwned(v)
  /\ LastSound(v)
  /\ SitesSound(v)

\* No site that was sound in v becomes unsound in w.
KeepsSites(v, w) == \A s \in Sites : SiteSound(v, s) => SiteSound(w, s)

-----------------------------------------------------------------------------
(* Types of the building blocks *)

LEMMA NoEntryType == NoEntry \in Entries
BY DEF NoEntry, Entries

LEMMA InvalidatedType ==
  ASSUME NEW r \in HandleRecords
  PROVE  /\ Invalidated(r) \in HandleRecords
         /\ Invalidated(r).function = Null
         /\ Invalidated(r).generation >= r.generation
         /\ r.function # Null => Invalidated(r).generation > r.generation
BY DEF HandleRecords, Invalidated, NextGeneration

LEMMA PublishedType ==
  ASSUME NEW r \in HandleRecords, NEW f \in Functions,
         NEW kind \in Kinds, NEW argc \in ArgCounts
  PROVE  /\ Published(r, f, kind, argc) \in HandleRecords
         /\ Published(r, f, kind, argc).function = f
         /\ Published(r, f, kind, argc).kind = kind
         /\ Published(r, f, kind, argc).argc = argc
         /\ \/ Published(r, f, kind, argc) = r
            \/ Published(r, f, kind, argc).generation > r.generation
BY ArgCountsAssumption DEF HandleRecords, Published, NextGeneration

LEMMA ClearTargetsType ==
  ASSUME NEW S \in SUBSET Sites, NEW H
  PROVE  /\ ClearTargets(S, H) \in SUBSET Sites
         /\ \A t \in ClearTargets(S, H) : t.target = Null \/ t \in S
<1> SUFFICES ASSUME NEW t \in ClearTargets(S, H)
             PROVE  t \in Sites /\ (t.target = Null \/ t \in S)
  OBVIOUS
<1>1. PICK s \in S : t = IF s.target \in H THEN [s EXCEPT !.target = Null, !.gen = 0] ELSE s
  BY Zenon DEF ClearTargets
<1>2. s \in Sites
  OBVIOUS
<1> QED
  BY <1>1, <1>2, Zenon DEF Sites

LEMMA RepatchedType ==
  ASSUME NEW S \in SUBSET Sites, NEW i, NEW h \in Handles, NEW g \in Nat,
         NEW kind, NEW argc
  PROVE  /\ Repatched(S, i, h, g, kind, argc) \in SUBSET Sites
         /\ \A t \in Repatched(S, i, h, g, kind, argc) :
              \/ t \in S
              \/ /\ t.target = h /\ t.gen = g
                 /\ t.id = i /\ t.kind = kind /\ t.argc = argc
<1> SUFFICES ASSUME NEW t \in Repatched(S, i, h, g, kind, argc)
             PROVE  /\ t \in Sites
                    /\ \/ t \in S
                       \/ /\ t.target = h /\ t.gen = g
                          /\ t.id = i /\ t.kind = kind /\ t.argc = argc
  OBVIOUS
<1>1. PICK s \in S : t = IF Repatchable(s, i, kind, argc)
                         THEN [s EXCEPT !.target = h, !.gen = g] ELSE s
  BY Zenon DEF Repatched
<1>2. s \in Sites
  OBVIOUS
<1> QED
  BY <1>1, <1>2, Zenon DEF Sites, Repatchable

LEMMA RegisteredType ==
  ASSUME NEW e \in Entries, NEW o \in Outcomes
  PROVE  /\ Registered(e, o) \in Entries
         /\ Registered(e, o).key = e.key
         /\ Registered(e, o).cont = e.cont
         /\ Registered(e, o).handle = e.handle
         /\ Registered(e, o).sites = e.sites
<1>1. Targets(e.sites) \in SUBSET Handles
  BY DEF Targets, Entries, Sites
<1>2. Identities(e.sites) \in SUBSET Keys
  BY DEF Identities, Entries, Sites
<1> QED
  BY <1>1, <1>2, ZenonT(60) DEF Registered, Entries

-----------------------------------------------------------------------------
(* Removal *)

\* The fields of a Vault after remove_slot, one equation each.
LEMMA RemoveAllFields ==
  ASSUME NEW v \in Vaults, NEW V \in SUBSET Functions
  PROVE  LET w == RemoveAll(v, V) IN
         /\ w.live = v.live \ V
         /\ \A f \in V : w.entry[f] = NoEntry
         /\ \A f \in Functions \ V :
              /\ w.entry[f] \in Entries
              /\ w.entry[f].key = v.entry[f].key
              /\ w.entry[f].cont = v.entry[f].cont
              /\ w.entry[f].handle = v.entry[f].handle
              /\ w.entry[f].deps = v.entry[f].deps
              /\ w.entry[f].ids = v.entry[f].ids
              /\ w.entry[f].sites =
                   ClearTargets(v.entry[f].sites, Retired(v, V) \cap v.entry[f].deps)
         /\ \A h \in Retired(v, V) : w.handle[h] = Invalidated(v.handle[h])
         /\ \A h \in Handles \ Retired(v, V) : w.handle[h] = v.handle[h]
         /\ w \in Vaults
<1> DEFINE w == RemoveAll(v, V)
           R == Retired(v, V)
           ent == [f \in Functions |->
             IF f \in V THEN NoEntry
             ELSE [v.entry[f] EXCEPT !.sites = ClearTargets(@, R \cap v.entry[f].deps)]]
           hnd == [h \in Handles |->
             IF h \in R THEN Invalidated(v.handle[h]) ELSE v.handle[h]]
<1>1. /\ v.live \in SUBSET Functions
      /\ v.entry \in [Functions -> Entries]
      /\ v.handle \in [Handles -> HandleRecords]
      /\ v.lastKey \in Keys \cup {Null}
      /\ v.lastFunction \in Functions \cup {Null}
  BY DEF Vaults
<1>2. ASSUME NEW f \in Functions \ V
      PROVE  /\ ent[f] \in Entries
             /\ ent[f].key = v.entry[f].key
             /\ ent[f].cont = v.entry[f].cont
             /\ ent[f].handle = v.entry[f].handle
             /\ ent[f].deps = v.entry[f].deps
             /\ ent[f].ids = v.entry[f].ids
             /\ ent[f].sites = ClearTargets(v.entry[f].sites, R \cap v.entry[f].deps)
  <2> DEFINE e == v.entry[f]
             C == ClearTargets(e.sites, R \cap e.deps)
  <2>1. e \in Entries
    BY <1>1
  <2>2. e.sites \in SUBSET Sites
    BY <2>1 DEF Entries
  <2>3. C \in SUBSET Sites
    BY <2>2, ClearTargetsType
  <2>4. ent[f] = [e EXCEPT !.sites = C]
    OBVIOUS
  <2> HIDE DEF e, C, ent
  <2>5. QED
    BY <2>1, <2>3, <2>4 DEF Entries, e, C
<1>3. ent \in [Functions -> Entries]
  <2> SUFFICES ASSUME NEW f \in Functions PROVE ent[f] \in Entries
    BY SMTT(60)
  <2>1. CASE f \in V
    BY <2>1, NoEntryType
  <2>2. CASE f \notin V
    BY <1>2, <2>2
  <2> QED BY <2>1, <2>2
<1>4. hnd \in [Handles -> HandleRecords]
  BY <1>1, InvalidatedType
<1>5. R \in SUBSET Handles
  BY DEF Retired
<1>6. /\ w.live = v.live \ V
      /\ w.entry = ent
      /\ w.handle = hnd
  BY DEF RemoveAll
<1>7. w \in Vaults
  <2>1. w = [live |-> v.live \ V, entry |-> ent, handle |-> hnd,
             lastKey |-> w.lastKey, lastFunction |-> w.lastFunction]
    BY DEF RemoveAll
  <2>2. w.lastKey \in Keys \cup {Null} /\ w.lastFunction \in Functions \cup {Null}
    BY <1>1 DEF RemoveAll
  <2> HIDE DEF w, ent, hnd
  <2> QED BY <1>1, <1>3, <1>4, <2>1, <2>2 DEF Vaults
<1>8. \A f \in V : ent[f] = NoEntry
  OBVIOUS
<1>9. /\ \A h \in R : hnd[h] = Invalidated(v.handle[h])
      /\ \A h \in Handles \ R : hnd[h] = v.handle[h]
  BY <1>5
<1> HIDE DEF ent, hnd
<1> QED BY <1>2, <1>6, <1>7, <1>8, <1>9

LEMMA RemoveAllGood ==
  ASSUME NEW v, GoodVault(v), NEW V \in SUBSET Functions
  PROVE  /\ GoodVault(RemoveAll(v, V))
         /\ KeepsSites(v, RemoveAll(v, V))
<1> DEFINE w == RemoveAll(v, V)
           R == Retired(v, V)
<1>0. /\ v \in Vaults
      /\ v.live \in SUBSET Functions
      /\ v.entry \in [Functions -> Entries]
      /\ v.handle \in [Handles -> HandleRecords]
      /\ R \in SUBSET Handles
  BY DEF GoodVault, Vaults, Retired
<1>F. /\ w.live = v.live \ V
      /\ \A f \in V : w.entry[f] = NoEntry
      /\ \A f \in Functions \ V :
           /\ w.entry[f] \in Entries
           /\ w.entry[f].key = v.entry[f].key
           /\ w.entry[f].cont = v.entry[f].cont
           /\ w.entry[f].handle = v.entry[f].handle
           /\ w.entry[f].deps = v.entry[f].deps
           /\ w.entry[f].ids = v.entry[f].ids
           /\ w.entry[f].sites = ClearTargets(v.entry[f].sites, R \cap v.entry[f].deps)
      /\ \A h \in R : w.handle[h] = Invalidated(v.handle[h])
      /\ \A h \in Handles \ R : w.handle[h] = v.handle[h]
      /\ w \in Vaults
  BY <1>0, RemoveAllFields, Zenon
<1>L. /\ w.lastFunction = (IF \E f \in V : v.entry[f].key = v.lastKey
                           THEN Null ELSE v.lastFunction)
      /\ w.lastKey = (IF \E f \in V : v.entry[f].key = v.lastKey
                      THEN Null ELSE v.lastKey)
  BY SMTT(60) DEF RemoveAll
<1> HIDE DEF w
<1>1. \* a handle that stays published still has its owner
      ASSUME NEW h \in Handles \ R, v.handle[h].function # Null
      PROVE  /\ v.handle[h].function \in v.live \ V
             /\ v.handle[h].function \in Functions
  <2>1. /\ v.handle[h].function \in v.live
        /\ v.entry[v.handle[h].function].cont = Null
        /\ v.entry[v.handle[h].function].handle = h
    BY <1>1, SMTT(60) DEF GoodVault, HandleOwned
  <2>2. v.handle[h].function \notin V
    BY <1>1, <2>1 DEF Retired
  <2> QED BY <2>1, <2>2, <1>0, SMTT(60)
<1>2. \A h \in R : w.handle[h].function = Null
  BY <1>0, <1>F, InvalidatedType, SMTT(60)
<1>3. HandleOwned(w)
  <2> SUFFICES ASSUME NEW h \in Handles, w.handle[h].function # Null
               PROVE  /\ w.handle[h].function \in w.live
                      /\ w.entry[w.handle[h].function].cont = Null
                      /\ w.entry[w.handle[h].function].handle = h
    BY DEF HandleOwned
  <2>1. h \in Handles \ R /\ w.handle[h] = v.handle[h]
    BY <1>2, <1>F
  <2>2. /\ v.entry[v.handle[h].function].cont = Null
        /\ v.entry[v.handle[h].function].handle = h
    BY <2>1 DEF GoodVault, HandleOwned
  <2>3. v.handle[h].function \in v.live \ V /\ v.handle[h].function \in Functions
    BY <2>1, <1>1
  <2> QED BY <2>1, <2>2, <2>3, <1>F, ZenonT(60)
<1>4. DeadBlank(w)
  <2> SUFFICES ASSUME NEW f \in Functions \ w.live
               PROVE  w.entry[f] = NoEntry
    BY DEF DeadBlank
  <2>1. CASE f \in V
    BY <2>1, <1>F
  <2>2. CASE f \notin V
    <3>1. v.entry[f] = NoEntry
      BY <2>2, <1>F DEF GoodVault, DeadBlank
    <3>2. v.entry[f].sites = {}
      BY <3>1 DEF NoEntry
    <3>3. ClearTargets({}, R \cap v.entry[f].deps) = {}
      BY DEF ClearTargets
    <3>4. w.entry[f].sites = {}
      BY <3>2, <3>3, <2>2, <1>F, Zenon
    <3>5. /\ w.entry[f] \in Entries
          /\ w.entry[f].key = Null /\ w.entry[f].cont = Null
          /\ w.entry[f].handle = Null
          /\ w.entry[f].deps = {} /\ w.entry[f].ids = {}
      BY <3>1, <1>F, <2>2 DEF NoEntry
    <3> DEFINE e == w.entry[f]
    <3> HIDE DEF e
    <3>6. e = [key |-> e.key, cont |-> e.cont, handle |-> e.handle,
               sites |-> e.sites, deps |-> e.deps, ids |-> e.ids]
      BY <3>5, SMTT(60) DEF Entries, e
    <3> QED BY <3>4, <3>5, <3>6 DEF NoEntry, e
  <2> QED BY <2>1, <2>2
<1>5. LastSound(w)
  <2> SUFFICES ASSUME w.lastFunction # Null
               PROVE  /\ w.lastFunction \in w.live
                      /\ w.entry[w.lastFunction].cont = Null
                      /\ w.entry[w.lastFunction].key = w.lastKey
    BY DEF LastSound
  <2>1. /\ ~ \E f \in V : v.entry[f].key = v.lastKey
        /\ w.lastFunction = v.lastFunction /\ w.lastKey = v.lastKey
    BY <1>L
  <2>2. /\ v.lastFunction \in v.live
        /\ v.entry[v.lastFunction].cont = Null
        /\ v.entry[v.lastFunction].key = v.lastKey
    BY <2>1 DEF GoodVault, LastSound
  <2>3. v.lastFunction \notin V
    BY <2>1, <2>2
  <2> QED BY <2>1, <2>2, <2>3, <1>F, <1>0, ZenonT(60)
<1>6. KeepsSites(v, w)
  <2> SUFFICES ASSUME NEW s \in Sites, SiteSound(v, s), s.target # Null
               PROVE  /\ s.gen <= w.handle[s.target].generation
                      /\ s.gen = w.handle[s.target].generation =>
                           /\ w.handle[s.target].function # Null
                           /\ w.handle[s.target].kind = s.kind
                           /\ w.handle[s.target].argc = s.argc
                           /\ s.id # Null => OwnerKey(w, s.target) = s.id
    BY DEF KeepsSites, SiteSound
  <2> DEFINE h == s.target
  <2>1. h \in Handles /\ s.gen \in Nat
    BY DEF Sites
  <2>2. CASE h \in R
    <3>1. v.handle[h].function # Null /\ v.handle[h] \in HandleRecords
      BY <1>0, <2>1, <2>2, NullAssumption DEF Retired
    <3>2. w.handle[h].generation > v.handle[h].generation
      BY <3>1, <2>2, <1>F, InvalidatedType
    <3>3. v.handle[h].generation \in Nat /\ w.handle[h].generation \in Nat
      BY <3>1, <2>1, <1>F DEF Vaults, HandleRecords
    <3>4. s.gen <= v.handle[h].generation
      BY DEF SiteSound
    <3> QED BY <3>2, <3>3, <3>4, <2>1
  <2>3. CASE h \notin R
    <3>1. w.handle[h] = v.handle[h]
      BY <2>1, <2>3, <1>F
    <3>2. ASSUME v.handle[h].function # Null
          PROVE  OwnerKey(w, h) = OwnerKey(v, h)
      BY <3>1, <3>2, <2>1, <2>3, <1>1, <1>F, ZenonT(60) DEF OwnerKey
    <3> QED BY <3>1, <3>2 DEF SiteSound
  <2> QED BY <2>2, <2>3
<1>7. SitesSound(w)
  <2> SUFFICES ASSUME NEW f \in w.live, NEW t \in w.entry[f].sites
               PROVE  SiteSound(w, t)
    BY DEF SitesSound
  <2>1. f \in v.live /\ f \in Functions \ V
    BY <1>0, <1>F
  <2>2. v.entry[f].sites \in SUBSET Sites
    BY <2>1, <1>0 DEF Entries
  <2>3. t.target = Null \/ t \in v.entry[f].sites
    <3>1. t \in ClearTargets(v.entry[f].sites, R \cap v.entry[f].deps)
      BY <2>1, <1>F, SMTT(60)
    <3> QED BY <3>1, <2>2, ClearTargetsType
  <2>4. CASE t.target = Null
    BY <2>4 DEF SiteSound
  <2>5. CASE t \in v.entry[f].sites
    BY <2>1, <2>2, <2>5, <1>6, SMTT(60) DEF GoodVault, SitesSound, KeepsSites
  <2> QED BY <2>3, <2>4, <2>5
<1>8. Signed(w)
  BY <1>2, <1>F, SMTT(60) DEF GoodVault, Signed
<1> QED BY <1>F, <1>3, <1>4, <1>5, <1>6, <1>7, <1>8 DEF GoodVault, w

-----------------------------------------------------------------------------
(* Insertion *)

LEMMA InsertedGood ==
  ASSUME NEW v, GoodVault(v), NEW f \in Functions, f \notin v.live,
         NEW e \in Entries, e.handle = Null, NEW o \in Outcomes,
         \A s \in e.sites : SiteSound(v, s)
  PROVE  LET x == Inserted(v, f, e, o) IN
         /\ GoodVault(x) /\ KeepsSites(v, x)
         /\ x.live = v.live \cup {f}
         /\ x.entry[f].cont = e.cont /\ x.entry[f].key = e.key
<1> DEFINE x == Inserted(v, f, e, o)
           r == Registered(e, o)
<1>1. /\ v \in Vaults
      /\ v.live \in SUBSET Functions
      /\ v.entry \in [Functions -> Entries]
      /\ v.handle \in [Handles -> HandleRecords]
  BY DEF GoodVault, Vaults
<1>2. /\ r \in Entries /\ r.key = e.key /\ r.cont = e.cont
      /\ r.handle = e.handle /\ r.sites = e.sites
  BY RegisteredType
<1> HIDE DEF r
<1>3. /\ x.live = v.live \cup {f}
      /\ x.entry = [v.entry EXCEPT ![f] = r]
      /\ x.handle = v.handle
      /\ x.lastKey = v.lastKey /\ x.lastFunction = v.lastFunction
      /\ x \in Vaults
  BY <1>1, <1>2, Zenon DEF Inserted, Vaults, r
<1> HIDE DEF x
<1>4. /\ x.entry[f] = r
      /\ \A g \in Functions : g # f => x.entry[g] = v.entry[g]
  BY <1>1, <1>3, SMTT(60)
<1>5. HandleOwned(x)
  BY <1>1, <1>3, <1>4, SMTT(60) DEF GoodVault, HandleOwned
<1>6. DeadBlank(x)
  BY <1>3, <1>4, SMTT(60) DEF GoodVault, DeadBlank
<1>7. LastSound(x)
  BY <1>1, <1>3, <1>4, SMTT(60) DEF GoodVault, LastSound
<1>8. \A s \in Sites : SiteSound(v, s) => SiteSound(x, s)
  <2> SUFFICES ASSUME NEW s \in Sites, SiteSound(v, s), s.target # Null,
                      v.handle[s.target].function # Null
               PROVE  OwnerKey(x, s.target) = OwnerKey(v, s.target)
    BY <1>3 DEF SiteSound
  <2>1. s.target \in Handles
    BY SMTT(60) DEF Sites
  <2>2. v.handle[s.target].function \in v.live
    BY <2>1 DEF GoodVault, HandleOwned
  <2> QED BY <2>2, <1>1, <1>3, <1>4, SMTT(60) DEF OwnerKey
<1>9. SitesSound(x)
  <2> SUFFICES ASSUME NEW g \in x.live, NEW s \in x.entry[g].sites
               PROVE  SiteSound(x, s)
    BY DEF SitesSound
  <2>1. CASE g = f
    <3>1. s \in e.sites /\ s \in Sites
      BY <2>1, <1>4, <1>2, SMTT(60) DEF Entries
    <3> QED BY <3>1, <1>8, SMTT(60)
  <2>2. CASE g # f
    <3>1. g \in v.live /\ g \in Functions /\ s \in v.entry[g].sites
      BY <2>2, <1>1, <1>3, <1>4
    <3>2. s \in Sites
      BY <3>1, <1>1 DEF Entries
    <3>3. SiteSound(v, s)
      BY <3>1, SMTT(60) DEF GoodVault, SitesSound
    <3> QED BY <3>2, <3>3, <1>8, SMTT(60)
  <2> QED BY <2>1, <2>2
<1>10. Signed(x)
  BY <1>3 DEF GoodVault, Signed
<1> QED BY <1>2, <1>3, <1>4, <1>5, <1>6, <1>7, <1>8, <1>9, <1>10, SMTT(60)
        DEF GoodVault, KeepsSites, x

LEMMA LookedUpGood ==
  ASSUME NEW v, GoodVault(v), NEW f \in v.live, v.entry[f].cont = Null
  PROVE  GoodVault(LookedUp(v, f)) /\ KeepsSites(v, LookedUp(v, f))
<1> DEFINE w == LookedUp(v, f)
<1>1. v \in Vaults /\ f \in Functions
  BY DEF GoodVault, Vaults
<1>2. v.entry[f].key \in Keys \cup {Null}
  BY <1>1 DEF Vaults, Entries
<1>3. /\ w.live = v.live /\ w.entry = v.entry /\ w.handle = v.handle
      /\ w.lastKey = v.entry[f].key /\ w.lastFunction = f
      /\ w \in Vaults
  BY <1>1, <1>2, Zenon DEF LookedUp, Vaults
<1> HIDE DEF w
<1>4. \A s : SiteSound(w, s) <=> SiteSound(v, s)
  BY <1>3 DEF SiteSound, OwnerKey
<1> QED BY <1>3, <1>4, ZenonT(60) DEF GoodVault, KeepsSites, DeadBlank, Signed, HandleOwned,
                          LastSound, SitesSound, w

LEMMA KeepsSitesTransitive ==
  ASSUME NEW u, NEW v, NEW w, KeepsSites(u, v), KeepsSites(v, w)
  PROVE  KeepsSites(u, w)
BY DEF KeepsSites

LEMMA CompiledGood ==
  ASSUME NEW v, GoodVault(v), NEW k \in Keys, NEW f \in Functions \ v.live,
         NEW S \in SUBSET Sites, \A s \in S : SiteSound(v, s),
         NEW V \in SUBSET v.live, NEW o \in Outcomes
  PROVE  /\ GoodVault(Compiled(v, k, f, S, V, o))
         /\ KeepsSites(v, Compiled(v, k, f, S, V, o))
<1> DEFINE w == RemoveAll(v, V)
           e == [NoEntry EXCEPT !.key = k, !.sites = S]
           x == Inserted(w, f, e, o)
<1>1. V \in SUBSET Functions
  BY DEF GoodVault, Vaults
<1>2. GoodVault(w) /\ KeepsSites(v, w)
  BY <1>1, RemoveAllGood
<1>3. f \notin w.live
  BY DEF RemoveAll
<1>4. e \in Entries /\ e.handle = Null /\ e.sites = S /\ e.cont = Null
  BY Zenon DEF NoEntry, Entries
<1>5. \A s \in S : SiteSound(w, s)
  BY <1>2, SMTT(60) DEF KeepsSites
<1> HIDE DEF w, e
<1>6. /\ GoodVault(x) /\ KeepsSites(w, x)
      /\ f \in x.live /\ x.entry[f].cont = Null
  BY <1>2, <1>3, <1>4, <1>5, InsertedGood
<1> HIDE DEF x
<1>7. GoodVault(LookedUp(x, f)) /\ KeepsSites(x, LookedUp(x, f))
  BY <1>6, LookedUpGood
<1>8. GoodVault(RemoveAll(x, {f})) /\ KeepsSites(x, RemoveAll(x, {f}))
  BY <1>6, RemoveAllGood
<1>9. Compiled(v, k, f, S, V, o) = IF o = "ok" THEN LookedUp(x, f) ELSE RemoveAll(x, {f})
  BY DEF Compiled, x, e, w
<1> QED BY <1>2, <1>6, <1>7, <1>8, <1>9, KeepsSitesTransitive

LEMMA ContinuationStoredGood ==
  ASSUME NEW v, GoodVault(v), NEW c \in Conts, NEW f \in Functions \ v.live,
         NEW S \in SUBSET Sites, \A s \in S : SiteSound(v, s),
         NEW V \in SUBSET v.live, NEW o \in Outcomes
  PROVE  /\ GoodVault(ContinuationStored(v, c, f, S, V, o))
         /\ KeepsSites(v, ContinuationStored(v, c, f, S, V, o))
<1> DEFINE w == RemoveAll(v, V)
           e == [NoEntry EXCEPT !.cont = c, !.sites = S]
           x == Inserted(w, f, e, o)
<1>1. V \in SUBSET Functions
  BY DEF GoodVault, Vaults
<1>2. GoodVault(w) /\ KeepsSites(v, w)
  BY <1>1, RemoveAllGood
<1>3. f \notin w.live
  BY DEF RemoveAll
<1>4. e \in Entries /\ e.handle = Null /\ e.sites = S
  BY Zenon DEF NoEntry, Entries
<1>5. \A s \in S : SiteSound(w, s)
  BY <1>2 DEF KeepsSites
<1> HIDE DEF w, e
<1>6. GoodVault(x) /\ KeepsSites(w, x)
  BY <1>2, <1>3, <1>4, <1>5, InsertedGood
<1> HIDE DEF x
<1>7. GoodVault(RemoveAll(x, {f})) /\ KeepsSites(x, RemoveAll(x, {f}))
  BY <1>6, RemoveAllGood
<1>8. ContinuationStored(v, c, f, S, V, o) = IF o = "ok" THEN x ELSE RemoveAll(x, {f})
  BY DEF ContinuationStored, x, e, w
<1> QED BY <1>2, <1>6, <1>7, <1>8, KeepsSitesTransitive

-----------------------------------------------------------------------------
(* Publication *)

LEMMA AttachedGood ==
  ASSUME NEW v, GoodVault(v), NEW f \in v.live, v.entry[f].cont = Null,
         NEW h \in Handles, NEW kind \in Kinds, NEW argc \in ArgCounts
  PROVE  LET w == Attached(v, f, h, kind, argc) IN
         /\ GoodVault(w) /\ KeepsSites(v, w)
         /\ w.live = v.live
         /\ w.entry[f].key = v.entry[f].key
         /\ w.handle[h].function = f
         /\ w.handle[h].kind = kind /\ w.handle[h].argc = argc
<1> DEFINE w == Attached(v, f, h, kind, argc)
           old == v.entry[f].handle
           hnd == [x \in Handles |->
             IF x = h THEN Published(v.handle[h], f, kind, argc)
             ELSE IF x = old /\ v.handle[x].function = f THEN Invalidated(v.handle[x])
             ELSE v.handle[x]]
           ent == [v.entry EXCEPT ![f].handle = h]
<1>1. /\ v \in Vaults
      /\ v.live \in SUBSET Functions
      /\ v.entry \in [Functions -> Entries]
      /\ v.handle \in [Handles -> HandleRecords]
      /\ f \in Functions
  BY SMTT(60) DEF GoodVault, Vaults
<1>2. hnd \in [Handles -> HandleRecords]
  BY <1>1, InvalidatedType, PublishedType
<1>3. /\ ent \in [Functions -> Entries]
      /\ \A g \in Functions :
           /\ ent[g].key = v.entry[g].key /\ ent[g].cont = v.entry[g].cont
           /\ ent[g].sites = v.entry[g].sites
           /\ g # f => ent[g] = v.entry[g]
      /\ ent[f].handle = h
  BY <1>1 DEF Entries
<1>4. /\ w.live = v.live /\ w.entry = ent /\ w.handle = hnd
      /\ w.lastKey = v.lastKey /\ w.lastFunction = v.lastFunction
  BY <1>1 DEF Attached, Vaults
<1>5. w \in Vaults
  <2>1. w = [v EXCEPT !.entry = ent, !.handle = hnd]
    BY DEF Attached
  <2>2. v.lastKey \in Keys \cup {Null} /\ v.lastFunction \in Functions \cup {Null}
    BY <1>1, SMTT(60) DEF Vaults
  <2> HIDE DEF w, ent, hnd
  <2> QED BY <1>1, <1>2, <1>3, <2>1, <2>2, Zenon DEF Vaults
<1>6. /\ hnd[h] = Published(v.handle[h], f, kind, argc)
      /\ \A x \in Handles : x # h /\ x = old /\ v.handle[x].function = f =>
           hnd[x] = Invalidated(v.handle[x])
      /\ \A x \in Handles : x # h /\ ~(x = old /\ v.handle[x].function = f) =>
           hnd[x] = v.handle[x]
  BY SMTT(60)
<1>7. /\ hnd[h].function = f /\ hnd[h].kind = kind /\ hnd[h].argc = argc
      /\ hnd[h] = v.handle[h] \/ hnd[h].generation > v.handle[h].generation
  BY <1>1, <1>6, PublishedType, SMTT(60)
<1> HIDE DEF w, ent, hnd
<1>8. HandleOwned(w)
  <2> SUFFICES ASSUME NEW x \in Handles, w.handle[x].function # Null
               PROVE  /\ w.handle[x].function \in w.live
                      /\ w.entry[w.handle[x].function].cont = Null
                      /\ w.entry[w.handle[x].function].handle = x
    BY SMTT(60) DEF HandleOwned
  <2>1. CASE x = h
    BY <2>1, <1>1, <1>3, <1>4, <1>7, NullAssumption, SMTT(60)
  <2>2. CASE x # h
    <3>1. hnd[x] = v.handle[x] /\ ~(x = old /\ v.handle[x].function = f)
      BY <2>2, <1>1, <1>4, <1>6, InvalidatedType
    <3>2. /\ v.handle[x].function \in v.live
          /\ v.entry[v.handle[x].function].cont = Null
          /\ v.entry[v.handle[x].function].handle = x
      BY <3>1, <1>4, ZenonT(60) DEF GoodVault, HandleOwned
    <3>3. v.handle[x].function # f
      BY <3>1, <3>2, SMTT(60)
    <3> QED BY <3>1, <3>2, <3>3, <1>1, <1>3, <1>4, SMTT(60)
  <2> QED BY <2>1, <2>2, ZenonT(60)
<1>9. DeadBlank(w)
  BY <1>3, <1>4, SMTT(60) DEF GoodVault, DeadBlank
<1>10. LastSound(w)
  BY <1>1, <1>3, <1>4 DEF GoodVault, LastSound
<1>11. \A s \in Sites : SiteSound(v, s) => SiteSound(w, s)
  <2> SUFFICES ASSUME NEW s \in Sites, SiteSound(v, s), s.target # Null
               PROVE  /\ s.gen <= w.handle[s.target].generation
                      /\ s.gen = w.handle[s.target].generation =>
                           /\ w.handle[s.target].function # Null
                           /\ w.handle[s.target].kind = s.kind
                           /\ w.handle[s.target].argc = s.argc
                           /\ s.id # Null => OwnerKey(w, s.target) = s.id
    BY Zenon DEF SiteSound
  <2> DEFINE t == s.target
  <2>1. t \in Handles /\ s.gen \in Nat
    BY SMTT(60) DEF Sites
  <2>2. /\ v.handle[t].generation \in Nat /\ hnd[t].generation \in Nat
        /\ s.gen <= v.handle[t].generation
    BY <2>1, <1>1, <1>2, SMTT(60) DEF HandleRecords, SiteSound
  <2>3. CASE hnd[t].generation > v.handle[t].generation
    BY <2>1, <2>2, <2>3, <1>4, SMTT(60)
  <2>4. CASE hnd[t] = v.handle[t]
    <3>1. ASSUME v.handle[t].function # Null
          PROVE  OwnerKey(w, t) = OwnerKey(v, t)
      <4>1. v.handle[t].function \in Functions
        BY <3>1, <2>1, <1>1, SMTT(60) DEF HandleRecords
      <4> QED BY <4>1, <2>4, <1>3, <1>4, SMTT(60) DEF OwnerKey
    <3> QED BY <3>1, <2>4, <1>4, SMTT(60) DEF SiteSound
  <2>5. hnd[t] = v.handle[t] \/ hnd[t].generation > v.handle[t].generation
    <3>1. CASE t = h
      BY <3>1, <1>7
    <3>2. CASE t # h /\ t = old /\ v.handle[t].function = f
      BY <3>2, <2>1, <1>1, <1>6, InvalidatedType, NullAssumption, ZenonT(60)
    <3>3. CASE t # h /\ ~(t = old /\ v.handle[t].function = f)
      BY <3>3, <2>1, <1>6, SMTT(60)
    <3> QED BY <3>1, <3>2, <3>3, SMTT(60)
  <2> QED BY <2>3, <2>4, <2>5, Zenon
<1>12. SitesSound(w)
  <2> SUFFICES ASSUME NEW g \in w.live, NEW s \in w.entry[g].sites
               PROVE  SiteSound(w, s)
    BY SMTT(60) DEF SitesSound
  <2>1. g \in v.live /\ g \in Functions /\ s \in v.entry[g].sites
    BY <1>1, <1>3, <1>4, SMTT(60)
  <2>2. s \in Sites
    BY <2>1, <1>1 DEF Entries
  <2> QED BY <2>1, <2>2, <1>11 DEF GoodVault, SitesSound
<1>13. Signed(w)
  <2> SUFFICES ASSUME NEW x \in Handles, w.handle[x].function # Null
               PROVE  w.handle[x].kind \in Kinds /\ w.handle[x].argc \in ArgCounts
    BY SMTT(60) DEF Signed
  <2>1. CASE x = h
    BY <2>1, <1>4, <1>7, SMTT(60)
  <2>2. CASE x # h
    <3>1. hnd[x] = v.handle[x]
      BY <2>2, <1>1, <1>4, <1>6, InvalidatedType
    <3> QED BY <3>1, <1>4, SMTT(60) DEF GoodVault, Signed
  <2> QED BY <2>1, <2>2
<1> QED BY <1>1, <1>3, <1>4, <1>5, <1>7, <1>8, <1>9, <1>10, <1>11, <1>12, <1>13, ZenonT(60)
        DEF GoodVault, KeepsSites, w

LEMMA PatchOwnerGood ==
  ASSUME NEW v, GoodVault(v), NEW f \in v.live, NEW h \in Handles,
         NEW i \in Keys, NEW o \in Outcomes,
         v.handle[h].function # Null, OwnerKey(v, h) = i
  PROVE  LET p == PatchOwner(v, f, i, h, v.handle[h].kind, v.handle[h].argc, o) IN
         /\ p \in Entries
         /\ p.key = v.entry[f].key /\ p.cont = v.entry[f].cont
         /\ p.handle = v.entry[f].handle
         /\ \A s \in p.sites : SiteSound(v, s)
<1> DEFINE kind == v.handle[h].kind
           argc == v.handle[h].argc
           g == v.handle[h].generation
           e == v.entry[f]
           S == Repatched(e.sites, i, h, g, kind, argc)
           q == [e EXCEPT !.sites = S]
           p == PatchOwner(v, f, i, h, kind, argc, o)
<1>1. /\ e \in Entries /\ f \in Functions
      /\ g \in Nat
      /\ h # Null
  BY NullAssumption DEF GoodVault, Vaults, HandleRecords
<1>2. e.sites \in SUBSET Sites
  BY <1>1, SMTT(60) DEF Entries
<1>3. /\ S \in SUBSET Sites
      /\ \A t \in S :
              \/ t \in e.sites
              \/ /\ t.target = h /\ t.gen = g
                 /\ t.id = i /\ t.kind = kind /\ t.argc = argc
  BY <1>1, <1>2, RepatchedType
<1> HIDE DEF S
<1>4. /\ q \in Entries /\ q.key = e.key /\ q.cont = e.cont
      /\ q.handle = e.handle /\ q.sites = S
  BY <1>1, <1>3 DEF Entries
<1>5. p = IF \E s \in e.sites : Repatchable(s, i, kind, argc)
          THEN Registered(q, o) ELSE e
  BY SMTT(60) DEF PatchOwner, S
<1> HIDE DEF p, q
<1>6. \A s \in e.sites : SiteSound(v, s)
  BY SMTT(60) DEF GoodVault, SitesSound
<1>7. \A s \in S : SiteSound(v, s)
  <2> SUFFICES ASSUME NEW s \in S, s.target = h, s.gen = g, s.id = i,
                      s.kind = kind, s.argc = argc
               PROVE  SiteSound(v, s)
    BY <1>3, <1>6, SMTT(60)
  <2> QED BY <1>1, SMTT(60) DEF SiteSound
<1>8. /\ Registered(q, o) \in Entries
      /\ Registered(q, o).key = q.key /\ Registered(q, o).cont = q.cont
      /\ Registered(q, o).handle = q.handle /\ Registered(q, o).sites = q.sites
  BY <1>4, RegisteredType
<1> QED BY <1>1, <1>4, <1>5, <1>6, <1>7, <1>8, Zenon DEF p

LEMMA RepatchDependentsGood ==
  ASSUME NEW v, GoodVault(v), NEW O \in SUBSET v.live, NEW h \in Handles,
         NEW i, NEW out \in [O -> Outcomes],
         v.handle[h].function # Null,
         O # {} => i \in Keys /\ OwnerKey(v, h) = i
  PROVE  LET w == RepatchDependents(v, O, i, h, v.handle[h].kind,
                                    v.handle[h].argc, out) IN
         GoodVault(w) /\ KeepsSites(v, w) /\ w.handle = v.handle
<1> DEFINE kind == v.handle[h].kind
           argc == v.handle[h].argc
           w == RepatchDependents(v, O, i, h, kind, argc, out)
           ent == [f \in Functions |->
             IF f \in O THEN PatchOwner(v, f, i, h, kind, argc, out[f]) ELSE v.entry[f]]
<1>1. /\ v \in Vaults
      /\ v.live \in SUBSET Functions
      /\ v.entry \in [Functions -> Entries]
      /\ v.handle \in [Handles -> HandleRecords]
  BY Zenon DEF GoodVault, Vaults
<1>2. ASSUME NEW f \in Functions
      PROVE  /\ ent[f] \in Entries
             /\ ent[f].key = v.entry[f].key /\ ent[f].cont = v.entry[f].cont
             /\ ent[f].handle = v.entry[f].handle
             /\ f \notin v.live => ent[f] = v.entry[f]
             /\ f \in v.live => \A s \in ent[f].sites : SiteSound(v, s)
  <2>1. CASE f \in O
    <3>1. /\ i \in Keys /\ OwnerKey(v, h) = i /\ f \in v.live
          /\ out[f] \in Outcomes
      BY <2>1, ZenonT(60)
    <3>2. ent[f] = PatchOwner(v, f, i, h, kind, argc, out[f])
      BY <2>1, SMTT(60)
    <3> DEFINE o == out[f]
               p == PatchOwner(v, f, i, h, kind, argc, o)
    <3> HIDE DEF o
    <3>3. /\ p \in Entries
          /\ p.key = v.entry[f].key /\ p.cont = v.entry[f].cont
          /\ p.handle = v.entry[f].handle
          /\ \A s \in p.sites : SiteSound(v, s)
      <4>1. o \in Outcomes /\ f \in v.live
        BY <3>1 DEF o
      <4> QED BY <3>1, <4>1, PatchOwnerGood, SMTT(60)
    <3> HIDE DEF ent, p
    <3>4. ent[f] = p
      BY <3>2, Zenon DEF p, o
    <3> QED BY <3>1, <3>3, <3>4, Zenon
  <2>2. CASE f \notin O
    <3>1. ent[f] = v.entry[f]
      BY <2>2
    <3> HIDE DEF ent
    <3> QED BY <3>1, <1>1, SMTT(60) DEF GoodVault, SitesSound
  <2> QED BY <2>1, <2>2, ZenonT(60)
<1>3. /\ w.live = v.live /\ w.entry = ent /\ w.handle = v.handle
      /\ w.lastKey = v.lastKey /\ w.lastFunction = v.lastFunction
  BY <1>1 DEF RepatchDependents, Vaults
<1>4. ent \in [Functions -> Entries]
  <2>1. ent = [f \in Functions |-> ent[f]]
    BY SMTT(60)
  <2> HIDE DEF ent
  <2> QED BY <1>2, <2>1, SMTT(60)
<1>5. w \in Vaults
  <2>1. w = [live |-> w.live, entry |-> w.entry, handle |-> w.handle,
             lastKey |-> w.lastKey, lastFunction |-> w.lastFunction]
    BY <1>1, SMTT(60) DEF RepatchDependents, Vaults
  <2>2. v.lastKey \in Keys \cup {Null} /\ v.lastFunction \in Functions \cup {Null}
    BY <1>1, SMTT(60) DEF Vaults
  <2> HIDE DEF w, ent
  <2> QED BY <1>1, <1>3, <1>4, <2>1, <2>2 DEF Vaults
<1> HIDE DEF w, ent
<1>6. HandleOwned(w)
  BY <1>1, <1>2, <1>3, SMTT(60) DEF GoodVault, HandleOwned
<1>7. DeadBlank(w)
  BY <1>2, <1>3, ZenonT(60) DEF GoodVault, DeadBlank
<1>8. LastSound(w)
  BY <1>1, <1>2, <1>3, SMTT(60) DEF GoodVault, LastSound
<1>9. \A s \in Sites : SiteSound(v, s) => SiteSound(w, s)
  <2> SUFFICES ASSUME NEW s \in Sites, SiteSound(v, s), s.target # Null,
                      v.handle[s.target].function # Null
               PROVE  OwnerKey(w, s.target) = OwnerKey(v, s.target)
    BY <1>3, Zenon DEF SiteSound
  <2>1. v.handle[s.target].function \in Functions
    BY <1>1 DEF Sites, HandleRecords
  <2> QED BY <2>1, <1>2, <1>3, ZenonT(60) DEF OwnerKey
<1>10. SitesSound(w)
  <2> SUFFICES ASSUME NEW f \in w.live, NEW s \in w.entry[f].sites
               PROVE  SiteSound(w, s)
    BY DEF SitesSound
  <2>1. f \in v.live /\ f \in Functions /\ s \in ent[f].sites
    BY <1>1, <1>3, SMTT(60)
  <2>2. SiteSound(v, s) /\ s \in Sites
    BY <2>1, <1>2 DEF Entries
  <2> QED BY <2>2, <1>9
<1>11. Signed(w)
  BY <1>3, ZenonT(60) DEF GoodVault, Signed
<1> QED BY <1>3, <1>5, <1>6, <1>7, <1>8, <1>9, <1>10, <1>11, Zenon
        DEF GoodVault, KeepsSites, w

-----------------------------------------------------------------------------
(* Resolution *)

LEMMA ResolvableSound ==
  ASSUME NEW v, GoodVault(v), NEW s \in Resolvable(v)
  PROVE  s \in Sites /\ SiteSound(v, s)
<1>1. PICK h \in Handles :
        v.handle[h].function # Null /\ \E i \in {Null, OwnerKey(v, h)} : s = SiteFor(v, h, i)
  BY DEF Resolvable
<1>2. PICK i \in {Null, OwnerKey(v, h)} : s = SiteFor(v, h, i)
  BY <1>1, SMTT(60)
<1>3. /\ v.handle[h].kind \in Kinds /\ v.handle[h].argc \in ArgCounts
      /\ v.handle[h].generation \in Nat
      /\ OwnerKey(v, h) \in Keys \cup {Null}
  BY <1>1 DEF GoodVault, Signed, Vaults, HandleRecords, Entries, OwnerKey
<1>4. /\ s \in Sites
      /\ s.target = h /\ s.gen = v.handle[h].generation
      /\ s.kind = v.handle[h].kind /\ s.argc = v.handle[h].argc
      /\ s.id \in {Null, OwnerKey(v, h)}
  BY <1>2, <1>3, Zenon DEF SiteFor, Sites
<1> QED BY <1>1, <1>3, <1>4 DEF SiteSound

-----------------------------------------------------------------------------
(* Generations *)

LEMMA AdvancesTransitive ==
  ASSUME NEW u \in Vaults, NEW v \in Vaults, NEW w \in Vaults,
         Advances(u, v), Advances(v, w)
  PROVE  Advances(u, w)
<1> SUFFICES ASSUME NEW h \in Handles
             PROVE  /\ w.handle[h].generation >= u.handle[h].generation
                    /\ w.handle[h].generation = u.handle[h].generation =>
                         w.handle[h] = u.handle[h]
  BY DEF Advances
<1>1. /\ u.handle[h].generation \in Nat /\ v.handle[h].generation \in Nat
      /\ w.handle[h].generation \in Nat
  BY DEF Vaults, HandleRecords
<1> QED BY <1>1 DEF Advances

LEMMA SameHandlesAdvance ==
  ASSUME NEW v \in Vaults, NEW w, w.handle = v.handle
  PROVE  Advances(v, w)
BY DEF Advances, Vaults, HandleRecords

LEMMA RemoveAllAdvances ==
  ASSUME NEW v, GoodVault(v), NEW V \in SUBSET Functions
  PROVE  Advances(v, RemoveAll(v, V))
<1> DEFINE w == RemoveAll(v, V)
           R == Retired(v, V)
<1>1. v \in Vaults /\ v.handle \in [Handles -> HandleRecords]
  BY DEF GoodVault, Vaults
<1>2. /\ \A h \in R : w.handle[h] = Invalidated(v.handle[h])
      /\ \A h \in Handles \ R : w.handle[h] = v.handle[h]
  BY <1>1, RemoveAllFields
<1> HIDE DEF w
<1> SUFFICES ASSUME NEW h \in Handles
             PROVE  /\ w.handle[h].generation >= v.handle[h].generation
                    /\ w.handle[h].generation = v.handle[h].generation =>
                         w.handle[h] = v.handle[h]
  BY DEF Advances, w
<1>3. v.handle[h] \in HandleRecords /\ v.handle[h].generation \in Nat
  BY <1>1 DEF HandleRecords
<1>4. CASE h \in R
  <2>1. v.handle[h].function # Null
    BY <1>4, NullAssumption DEF Retired
  <2>2. /\ Invalidated(v.handle[h]).generation > v.handle[h].generation
        /\ Invalidated(v.handle[h]).generation \in Nat
    BY <2>1, <1>3, InvalidatedType DEF HandleRecords
  <2> QED BY <2>2, <1>2, <1>3, <1>4
<1>5. CASE h \notin R
  BY <1>2, <1>3, <1>5
<1> QED BY <1>4, <1>5

LEMMA InsertedHandles ==
  ASSUME NEW v \in Vaults, NEW f, NEW e, NEW o
  PROVE  Inserted(v, f, e, o).handle = v.handle
BY DEF Inserted, Vaults

LEMMA LookedUpHandles ==
  ASSUME NEW v \in Vaults, NEW f
  PROVE  LookedUp(v, f).handle = v.handle
BY DEF LookedUp, Vaults

LEMMA CompiledAdvances ==
  ASSUME NEW v, GoodVault(v), NEW k \in Keys, NEW f \in Functions \ v.live,
         NEW S \in SUBSET Sites, \A s \in S : SiteSound(v, s),
         NEW V \in SUBSET v.live, NEW o \in Outcomes
  PROVE  Advances(v, Compiled(v, k, f, S, V, o))
<1> DEFINE w == RemoveAll(v, V)
           e == [NoEntry EXCEPT !.key = k, !.sites = S]
           x == Inserted(w, f, e, o)
           y == Compiled(v, k, f, S, V, o)
<1>1. V \in SUBSET Functions /\ v \in Vaults
  BY DEF GoodVault, Vaults
<1>2. GoodVault(w) /\ KeepsSites(v, w) /\ Advances(v, w)
  BY <1>1, RemoveAllGood, RemoveAllAdvances
<1>3. f \notin w.live
  BY DEF RemoveAll
<1>4. e \in Entries /\ e.handle = Null /\ e.sites = S
  BY Zenon DEF NoEntry, Entries
<1>5. \A s \in S : SiteSound(w, s)
  BY <1>2 DEF KeepsSites
<1> HIDE DEF w, e
<1>6. GoodVault(x)
  BY <1>2, <1>3, <1>4, <1>5, InsertedGood
<1>7. w \in Vaults /\ x \in Vaults
  BY <1>2, <1>6 DEF GoodVault
<1>8. Advances(v, x)
  BY <1>1, <1>2, <1>7, InsertedHandles, SameHandlesAdvance, AdvancesTransitive
<1> HIDE DEF x
<1>9. y = IF o = "ok" THEN LookedUp(x, f) ELSE RemoveAll(x, {f})
  BY DEF Compiled, x, e, w
<1>10. Advances(x, y)
  BY <1>6, <1>7, <1>9, LookedUpHandles, SameHandlesAdvance, RemoveAllAdvances
<1>11. y \in Vaults
  BY CompiledGood DEF GoodVault
<1> QED BY <1>1, <1>7, <1>8, <1>10, <1>11, AdvancesTransitive

LEMMA ContinuationStoredAdvances ==
  ASSUME NEW v, GoodVault(v), NEW c \in Conts, NEW f \in Functions \ v.live,
         NEW S \in SUBSET Sites, \A s \in S : SiteSound(v, s),
         NEW V \in SUBSET v.live, NEW o \in Outcomes
  PROVE  Advances(v, ContinuationStored(v, c, f, S, V, o))
<1> DEFINE w == RemoveAll(v, V)
           e == [NoEntry EXCEPT !.cont = c, !.sites = S]
           x == Inserted(w, f, e, o)
           y == ContinuationStored(v, c, f, S, V, o)
<1>1. V \in SUBSET Functions /\ v \in Vaults
  BY DEF GoodVault, Vaults
<1>2. GoodVault(w) /\ KeepsSites(v, w) /\ Advances(v, w)
  BY <1>1, RemoveAllGood, RemoveAllAdvances
<1>3. f \notin w.live
  BY DEF RemoveAll
<1>4. e \in Entries /\ e.handle = Null /\ e.sites = S
  BY Zenon DEF NoEntry, Entries
<1>5. \A s \in S : SiteSound(w, s)
  BY <1>2 DEF KeepsSites
<1> HIDE DEF w, e
<1>6. GoodVault(x)
  BY <1>2, <1>3, <1>4, <1>5, InsertedGood
<1>7. w \in Vaults /\ x \in Vaults
  BY <1>2, <1>6 DEF GoodVault
<1>8. Advances(v, x)
  BY <1>1, <1>2, <1>7, InsertedHandles, SameHandlesAdvance, AdvancesTransitive
<1> HIDE DEF x
<1>9. y = IF o = "ok" THEN x ELSE RemoveAll(x, {f})
  BY DEF ContinuationStored, x, e, w
<1>10. Advances(x, y)
  BY <1>6, <1>7, <1>9, SameHandlesAdvance, RemoveAllAdvances, SMTT(60)
<1>11. y \in Vaults
  BY ContinuationStoredGood DEF GoodVault
<1> QED BY <1>1, <1>7, <1>8, <1>10, <1>11, AdvancesTransitive

LEMMA AttachedAdvances ==
  ASSUME NEW v, GoodVault(v), NEW f \in v.live,
         NEW h \in Handles, NEW kind \in Kinds, NEW argc \in ArgCounts
  PROVE  Advances(v, Attached(v, f, h, kind, argc))
<1> DEFINE w == Attached(v, f, h, kind, argc)
           old == v.entry[f].handle
<1>1. /\ v \in Vaults
      /\ v.handle \in [Handles -> HandleRecords]
      /\ f \in Functions
  BY DEF GoodVault, Vaults
<1>2. w.handle = [x \in Handles |->
        IF x = h THEN Published(v.handle[h], f, kind, argc)
        ELSE IF x = old /\ v.handle[x].function = f THEN Invalidated(v.handle[x])
        ELSE v.handle[x]]
  BY <1>1 DEF Attached, Vaults
<1> HIDE DEF w
<1> SUFFICES ASSUME NEW x \in Handles
             PROVE  /\ w.handle[x].generation >= v.handle[x].generation
                    /\ w.handle[x].generation = v.handle[x].generation =>
                         w.handle[x] = v.handle[x]
  BY DEF Advances, w
<1>3. v.handle[x] \in HandleRecords /\ v.handle[x].generation \in Nat
  BY <1>1 DEF HandleRecords
<1>4. CASE x = h
  <2>1. /\ Published(v.handle[x], f, kind, argc).generation \in Nat
        /\ \/ Published(v.handle[x], f, kind, argc) = v.handle[x]
           \/ Published(v.handle[x], f, kind, argc).generation > v.handle[x].generation
    BY <1>1, <1>3, PublishedType DEF HandleRecords
  <2>2. w.handle[x] = Published(v.handle[x], f, kind, argc)
    BY <1>2, <1>4
  <2> QED BY <2>1, <2>2, <1>3
<1>5. CASE x # h /\ x = old /\ v.handle[x].function = f
  <2>1. /\ Invalidated(v.handle[x]).generation \in Nat
        /\ Invalidated(v.handle[x]).generation > v.handle[x].generation
    BY <1>1, <1>3, <1>5, InvalidatedType, NullAssumption, SMTT(60) DEF HandleRecords
  <2>2. w.handle[x] = Invalidated(v.handle[x])
    BY <1>2, <1>5
  <2> QED BY <2>1, <2>2, <1>3, SMTT(60)
<1>6. CASE x # h /\ ~(x = old /\ v.handle[x].function = f)
  BY <1>2, <1>3, <1>6
<1> QED BY <1>4, <1>5, <1>6

-----------------------------------------------------------------------------
(* Vaults of bytecode without call sites *)

\* The entries of the Vault of mode m are functions without call sites, each
\* published through the handle of its own bytecode at most.
OwnEntries(v, m) ==
  /\ \A f \in v.live : /\ v.entry[f].cont = Null
                       /\ v.entry[f].key \in Keys
                       /\ v.entry[f].handle \in {Null, v.entry[f].key}
                       /\ v.entry[f].sites = {}
  /\ \A k \in Keys : v.handle[k].function # Null => v.handle[k].kind = m

\* Removal keeps such a Vault so, and takes nothing but the victims away.
LEMMA RemoveAllStep ==
  ASSUME Handles = Keys, NEW m \in Kinds, NEW v, GoodVault(v), OwnEntries(v, m),
         NEW V \in SUBSET Functions
  PROVE  LET w == RemoveAll(v, V) IN
         /\ w \in Vaults /\ GoodVault(w) /\ OwnEntries(w, m) /\ Advances(v, w)
         /\ w.live = v.live \ V
         /\ \A j \in Keys :
              /\ EntryOf(w, j) = EntryOf(v, j) \ V
              /\ w.handle[j].function # Null => v.handle[j].function # Null
<1> DEFINE w == RemoveAll(v, V)
           R == Retired(v, V)
<1>1. /\ v \in Vaults /\ v.live \in SUBSET Functions
      /\ v.handle \in [Handles -> HandleRecords]
      /\ R \in SUBSET Handles
  BY Zenon DEF GoodVault, Vaults, Retired
<1>2. GoodVault(w) /\ Advances(v, w)
  BY RemoveAllGood, RemoveAllAdvances
<1>3. w \in Vaults
  BY <1>2 DEF GoodVault
<1>4. /\ w.live = v.live \ V
      /\ \A f \in V : w.entry[f] = NoEntry
      /\ \A f \in Functions \ V :
           /\ w.entry[f] \in Entries
           /\ w.entry[f].key = v.entry[f].key
           /\ w.entry[f].cont = v.entry[f].cont
           /\ w.entry[f].handle = v.entry[f].handle
           /\ w.entry[f].deps = v.entry[f].deps
           /\ w.entry[f].ids = v.entry[f].ids
           /\ w.entry[f].sites = ClearTargets(v.entry[f].sites, R \cap v.entry[f].deps)
      /\ \A h \in R : w.handle[h] = Invalidated(v.handle[h])
      /\ \A h \in Handles \ R : w.handle[h] = v.handle[h]
      /\ w \in Vaults
  BY <1>1, RemoveAllFields, Zenon
<1> HIDE DEF w
<1>5. ASSUME NEW j \in Keys
      PROVE  EntryOf(w, j) = EntryOf(v, j) \ V
  <2>1. \A f \in v.live \ V : w.entry[f].key = v.entry[f].key /\ w.entry[f].cont = v.entry[f].cont
    BY <1>1, <1>4, Zenon
  <2> QED BY <1>4, <2>1 DEF EntryOf
<1>6. ASSUME NEW j \in Keys, w.handle[j].function # Null
      PROVE  w.handle[j] = v.handle[j]
  <2>1. j \in Handles
    BY Zenon
  <2>2. j \notin R
    BY <1>1, <1>4, <1>6, <2>1, InvalidatedType
  <2> QED BY <1>4, <2>1, <2>2
<1>7. ASSUME NEW f \in w.live
      PROVE  /\ w.entry[f].cont = Null /\ w.entry[f].key \in Keys
             /\ w.entry[f].handle \in {Null, w.entry[f].key}
             /\ w.entry[f].sites = {}
  <2>1. f \in v.live /\ f \in Functions \ V
    BY <1>1, <1>4
  <2>2. v.entry[f].sites = {}
    BY <2>1 DEF OwnEntries
  <2>3. ClearTargets({}, R \cap v.entry[f].deps) = {}
    BY DEF ClearTargets
  <2>4. w.entry[f].sites = {}
    BY <1>4, <2>1, <2>2, <2>3, Zenon
  <2>5. /\ v.entry[f].cont = Null /\ v.entry[f].key \in Keys
        /\ v.entry[f].handle \in {Null, v.entry[f].key}
    BY <2>1, Zenon DEF OwnEntries
  <2>6. /\ w.entry[f].key = v.entry[f].key /\ w.entry[f].cont = v.entry[f].cont
        /\ w.entry[f].handle = v.entry[f].handle
    BY <1>4, <2>1, Zenon
  <2> QED BY <2>4, <2>5, <2>6
<1>8. OwnEntries(w, m)
  BY <1>6, <1>7, Zenon DEF OwnEntries
<1> QED BY <1>2, <1>3, <1>4, <1>5, <1>6, <1>8, Zenon DEF w

=============================================================================
