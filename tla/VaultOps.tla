------------------------------ MODULE VaultOps ------------------------------
(***************************************************************************)
(* The state of one Vault (TurboJSCodeCache, src/jit/runtime/code_cache.c) *)
(* and its operations, as functions from a Vault to a Vault.               *)
(*                                                                         *)
(* A Vault owns native functions.  A function is published through an      *)
(* entry handle that lives outside the Vault (in the bytecode object);     *)
(* compiled callers reach it through Clutch call sites that hold the       *)
(* handle and the generation they expect, never the code pointer.  Two     *)
(* indices lead from a handle, and from a callable identity, to the        *)
(* entries whose call sites mention it.                                    *)
(*                                                                         *)
(* Abstractions.  An entry is named by the native function it owns (slots  *)
(* and probing are in VaultTable).  Call sites of a function form a set.   *)
(* Any live entry may be an eviction victim here; the scoring that picks   *)
(* one is in VaultTable.  The identity of a callable is its key.           *)
(***************************************************************************)
EXTENDS Naturals, FiniteSets

CONSTANTS
  Functions,      \* native allocations; an address is reused after a free
  Keys,           \* cache keys (bytecode objects), also their identities
  Handles,        \* TurboJSNativeEntryHandle objects
  Conts,          \* continuation identities (IR id, revision, start pc)
  Kinds,          \* native entry kinds other than NONE
  ArgCounts,      \* declared argument counts
  Null            \* NULL, NONE and the zero identity

ASSUME NullAssumption ==
  Null \notin Functions \cup Keys \cup Handles \cup Conts \cup Kinds

ASSUME ArgCountsAssumption == ArgCounts \subseteq Nat

Sites ==
  [target: Handles \cup {Null}, gen: Nat, kind: Kinds, argc: ArgCounts,
   id: Keys \cup {Null}]

Entries ==
  [key: Keys \cup {Null}, cont: Conts \cup {Null}, handle: Handles \cup {Null},
   sites: SUBSET Sites, deps: SUBSET Handles, ids: SUBSET Keys]

HandleRecords ==
  [function: Functions \cup {Null}, generation: Nat, kind: Kinds \cup {Null},
   argc: Nat]

Vaults ==
  [live: SUBSET Functions, entry: [Functions -> Entries],
   handle: [Handles -> HandleRecords], lastKey: Keys \cup {Null},
   lastFunction: Functions \cup {Null}]

NoEntry ==
  [key |-> Null, cont |-> Null, handle |-> Null,
   sites |-> {}, deps |-> {}, ids |-> {}]

\* TurboJS_NativeEntryHandleInit: an all-zero handle.
HandleInit == [function |-> Null, generation |-> 0, kind |-> Null, argc |-> 0]

\* TurboJS_CodeCacheCreate.
EmptyVault ==
  [live |-> {}, entry |-> [f \in Functions |-> NoEntry],
   handle |-> [h \in Handles |-> HandleInit],
   lastKey |-> Null, lastFunction |-> Null]

-----------------------------------------------------------------------------
(* Entry handles *)

\* next_entry_generation; the runs and the guards of the state machines keep
\* generations far below the 64-bit wrap-around.
NextGeneration(g) == g + 1

\* Mutant of Invalidated: a memset that restarts the generations.
InvalidatedRestarts(r) == HandleInit

\* TurboJS_NativeEntryHandleInvalidate
Invalidated(r) ==
  [function |-> Null,
   generation |-> IF r.function # Null \/ r.kind # Null
                  THEN NextGeneration(r.generation) ELSE r.generation,
   kind |-> Null, argc |-> 0]

\* Mutant of Published: republishing keeps the generation.
PublishedSameGeneration(r, f, kind, argc) ==
  [function |-> f, generation |-> IF r.generation = 0 THEN 1 ELSE r.generation,
   kind |-> kind, argc |-> argc]

\* publish_entry_handle
Published(r, f, kind, argc) ==
  IF r.function = f /\ r.kind = kind /\ r.argc = argc
  THEN r
  ELSE [function |-> f, generation |-> NextGeneration(r.generation),
        kind |-> kind, argc |-> argc]

\* TurboJS_NativeEntryHandleIsLive, also the guard emitted before a native
\* call: the target, the generation, the kind and the function are tested,
\* the argument count is not.
IsLive(v, h, g, kind) ==
  /\ h # Null
  /\ v.handle[h].function # Null
  /\ g # 0
  /\ v.handle[h].generation = g
  /\ v.handle[h].kind = kind

-----------------------------------------------------------------------------
(* Call sites *)

\* What turbojs_vm_spool_call_resolver records for a call whose target is
\* published through h: the current generation and signature, with or
\* without a callable identity.
SiteFor(v, h, i) ==
  [target |-> h, gen |-> v.handle[h].generation, kind |-> v.handle[h].kind,
   argc |-> v.handle[h].argc, id |-> i]

OwnerKey(v, h) == v.entry[v.handle[h].function].key

Resolvable(v) ==
  UNION {{SiteFor(v, h, i) : i \in {Null, OwnerKey(v, h)}} :
           h \in {x \in Handles : v.handle[x].function # Null}}

\* TurboJS_NativeInvalidateClutchTarget, for every handle in H.
ClearTargets(sites, H) ==
  {IF s.target \in H THEN [s EXCEPT !.target = Null, !.gen = 0] ELSE s :
     s \in sites}

Repatchable(s, i, kind, argc) == s.id = i /\ s.kind = kind /\ s.argc = argc

\* TurboJS_NativeRepatchClutchIdentity
Repatched(sites, i, h, g, kind, argc) ==
  {IF Repatchable(s, i, kind, argc)
     THEN [s EXCEPT !.target = h, !.gen = g] ELSE s : s \in sites}

-----------------------------------------------------------------------------
(* The reverse dependency index and the identity index.  An edge is in the
   list of its owner and in a bucket; both are the owner's deps and ids. *)

Targets(sites) == {s.target : s \in sites} \ {Null}
Identities(sites) == {s.id : s \in sites} \ {Null}

\* Which allocation of register_entry_dependencies fails, if any.
Outcomes == {"ok", "dependency_oom", "repatch_oom"}

MayFail(sites, o) ==
  \/ o = "ok"
  \/ o = "dependency_oom" /\ Targets(sites) # {}
  \/ o = "repatch_oom" /\ Identities(sites) # {}

\* register_entry_dependencies: a failure in the first loop drops the
\* dependency edges and leaves the old identity edges; a failure in
\* register_entry_repatch_dependencies drops both.
Registered(e, o) ==
  [e EXCEPT !.deps = IF o = "ok" THEN Targets(e.sites) ELSE {},
            !.ids = IF o = "ok" THEN Identities(e.sites)
                    ELSE IF o = "repatch_oom" THEN {} ELSE @]

-----------------------------------------------------------------------------
(* Removal *)

\* The handles remove_slot retires with the entries of V: those that still
\* publish the function being removed.
Retired(v, V) ==
  {h \in Handles : \E f \in V : /\ v.entry[f].cont = Null
                                /\ v.entry[f].handle = h
                                /\ v.handle[h].function = f}

\* Mutant of RemoveAll: the last-key shortcut survives the removal.
RemoveAllKeepsLast(v, V) ==
  LET R == Retired(v, V) IN
  [v EXCEPT
    !.live = @ \ V,
    !.entry = [f \in Functions |->
      IF f \in V THEN NoEntry
      ELSE [@[f] EXCEPT !.sites = ClearTargets(@, R \cap v.entry[f].deps)]],
    !.handle = [h \in Handles |->
      IF h \in R THEN Invalidated(v.handle[h]) ELSE v.handle[h]]]

\* Mutant of RemoveAll: the dependents of a retired handle are not visited.
RemoveAllKeepsSites(v, V) ==
  [live |-> v.live \ V,
   entry |-> [f \in Functions |-> IF f \in V THEN NoEntry ELSE v.entry[f]],
   handle |-> [h \in Handles |->
     IF h \in Retired(v, V) THEN Invalidated(v.handle[h]) ELSE v.handle[h]],
   lastKey |-> Null, lastFunction |-> Null]

\* remove_slot for every entry of V.  The order does not matter: each call
\* retires its own handle, clears the indexed call sites of the entries that
\* remain, drops its own edges and destroys its own function.
RemoveAll(v, V) ==
  LET R == Retired(v, V) IN
  [live |-> v.live \ V,
   entry |-> [f \in Functions |->
     IF f \in V THEN NoEntry
     ELSE [v.entry[f] EXCEPT !.sites = ClearTargets(@, R \cap v.entry[f].deps)]],
   handle |-> [h \in Handles |->
     IF h \in R THEN Invalidated(v.handle[h]) ELSE v.handle[h]],
   lastKey |-> IF \E f \in V : v.entry[f].key = v.lastKey THEN Null ELSE v.lastKey,
   lastFunction |-> IF \E f \in V : v.entry[f].key = v.lastKey
                    THEN Null ELSE v.lastFunction]

EntryOf(v, k) == {f \in v.live : v.entry[f].cont = Null /\ v.entry[f].key = k}
ContinuationEntry(v, c) == {f \in v.live : v.entry[f].cont = c}

-----------------------------------------------------------------------------
(* Insertion and publication *)

Inserted(v, f, e, o) ==
  [v EXCEPT !.live = @ \cup {f}, !.entry[f] = Registered(e, o)]

\* TurboJS_CodeCacheLookup: the entry found becomes the last-key shortcut.
LookedUp(v, f) ==
  [v EXCEPT !.lastKey = v.entry[f].key, !.lastFunction = f]

\* TurboJS_CodeCacheCompile on a miss: V is evicted, f is the new native
\* function.  When an edge cannot be allocated the new entry is removed.
Compiled(v, k, f, sites, V, o) ==
  LET w == RemoveAll(v, V)
      e == [NoEntry EXCEPT !.key = k, !.sites = sites]
      x == Inserted(w, f, e, o)
  IN  IF o = "ok" THEN LookedUp(x, f) ELSE RemoveAll(x, {f})

\* TurboJS_CodeCacheStoreContinuation on a miss.
ContinuationStored(v, c, f, sites, V, o) ==
  LET w == RemoveAll(v, V)
      e == [NoEntry EXCEPT !.cont = c, !.sites = sites]
      x == Inserted(w, f, e, o)
  IN  IF o = "ok" THEN x ELSE RemoveAll(x, {f})

\* repatch_identity_dependents: the owners are collected first (nothing is
\* patched when that list cannot grow); an owner with a patched site is
\* registered again, and a failure of that registration is ignored.
Owners(v, i) == {f \in v.live : i # Null /\ i \in v.entry[f].ids}

\* Mutant of PatchOwner: a patched owner is not registered again.
PatchOwnerUnregistered(v, f, i, h, kind, argc, o) ==
  [v.entry[f] EXCEPT !.sites =
     Repatched(@, i, h, v.handle[h].generation, kind, argc)]

PatchOwner(v, f, i, h, kind, argc, o) ==
  LET e == v.entry[f]
      patched == [e EXCEPT !.sites =
                    Repatched(@, i, h, v.handle[h].generation, kind, argc)]
  IN  IF \E s \in e.sites : Repatchable(s, i, kind, argc)
      THEN Registered(patched, o) ELSE e

RepatchDependents(v, O, i, h, kind, argc, out) ==
  [v EXCEPT !.entry = [f \in Functions |->
     IF f \in O THEN PatchOwner(v, f, i, h, kind, argc, out[f]) ELSE @[f]]]

\* Mutant of Attached: the replaced handle stays published.
AttachedKeepsOld(v, f, h, kind, argc) ==
  [v EXCEPT !.entry[f].handle = h,
            !.handle[h] = Published(@, f, kind, argc)]

\* The publication half of TurboJS_CodeCacheAttachEntryHandleIdentity, for the
\* entry f: a different handle that still publishes f is invalidated first.
Attached(v, f, h, kind, argc) ==
  LET old == v.entry[f].handle IN
  [v EXCEPT
    !.entry[f].handle = h,
    !.handle = [x \in Handles |->
      IF x = h THEN Published(v.handle[h], f, kind, argc)
      ELSE IF x = old /\ v.handle[x].function = f THEN Invalidated(v.handle[x])
      ELSE v.handle[x]]]

-----------------------------------------------------------------------------
(* What a Vault promises *)

\* A published handle points to a function that is still in the Vault, and
\* that entry knows the handle, so removing it will retire the handle.
HandleOwned(v) ==
  \A h \in Handles : v.handle[h].function # Null =>
     /\ v.handle[h].function \in v.live
     /\ v.entry[v.handle[h].function].cont = Null
     /\ v.entry[v.handle[h].function].handle = h

\* A call site whose expected generation is the current one belongs to the
\* current publication: the function it will enter is published, has the
\* signature the site was compiled for, and is the callable the site names.
SiteSound(v, s) ==
  s.target # Null =>
    /\ s.gen <= v.handle[s.target].generation
    /\ s.gen = v.handle[s.target].generation =>
         /\ v.handle[s.target].function # Null
         /\ v.handle[s.target].kind = s.kind
         /\ v.handle[s.target].argc = s.argc
         /\ s.id # Null => OwnerKey(v, s.target) = s.id

\* The last-key shortcut of Lookup answers what a probe would answer.
LastSound(v) ==
  v.lastFunction # Null =>
    /\ v.lastFunction \in v.live
    /\ v.entry[v.lastFunction].cont = Null
    /\ v.entry[v.lastFunction].key = v.lastKey

\* A published handle has a signature.
Signed(v) ==
  \A h \in Handles : v.handle[h].function # Null =>
     v.handle[h].kind \in Kinds /\ v.handle[h].argc \in ArgCounts

\* A function that is not in the Vault has no entry.
DeadBlank(v) == \A f \in Functions \ v.live : v.entry[f] = NoEntry

\* No two live entries have the same key, or the same continuation.
OneEntryEach(v) ==
  \A f, g \in v.live :
    /\ v.entry[f].key = v.entry[g].key
    /\ v.entry[f].cont = v.entry[g].cont
    => f = g

\* From v to w no generation decreases, and a handle whose generation stays
\* the same stays the same.
Advances(v, w) ==
  \A h \in Handles :
    /\ w.handle[h].generation >= v.handle[h].generation
    /\ w.handle[h].generation = v.handle[h].generation =>
         w.handle[h] = v.handle[h]

\* Every call-site target, and every callable identity, has its edge.
IndexCovers(v) ==
  \A f \in v.live : /\ Targets(v.entry[f].sites) \subseteq v.entry[f].deps
                    /\ Identities(v.entry[f].sites) \subseteq v.entry[f].ids

\* Between v and w, every handle whose function left the Vault disappeared
\* from the call sites of the entries that stayed.
ClearsRetired(v, w) ==
  \A h \in Handles :
    /\ v.handle[h].function # Null
    /\ v.handle[h].function \notin w.live
    => \A f \in v.live \cap w.live : h \notin Targets(w.entry[f].sites)
=============================================================================
