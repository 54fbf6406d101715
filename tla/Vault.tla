-------------------------------- MODULE Vault --------------------------------
(***************************************************************************)
(* One Vault driven through its public operations (code_cache.c), with     *)
(* callers that resolve call sites into an IR, keep the IR, and compile    *)
(* functions and continuation segments from it later.                      *)
(***************************************************************************)
EXTENDS VaultOps

CONSTANTS
  Callers,         \* the keys whose code contains calls
  MaxEntries,      \* maximum_entries of TurboJS_CodeCacheCreate
  MaxSites,        \* bound: call sites of one function
  MaxGeneration,   \* bound: no handle is published beyond this generation
  AllocMayFail     \* whether calloc and realloc of index edges may fail

ASSUME BoundsAssumption ==
  /\ Callers \subseteq Keys
  /\ MaxEntries \in Nat \ {0}
  /\ MaxSites \in Nat
  /\ MaxGeneration \in Nat
  /\ AllocMayFail \in BOOLEAN

VARIABLES
  vault,    \* the Vault and the handles attached to its entries
  ir        \* ir[k]: the call sites last resolved for the code of k

vars == <<vault, ir>>

OutcomesOf(sites) ==
  {o \in Outcomes : MayFail(sites, o) /\ (o # "ok" => AllocMayFail)}

-----------------------------------------------------------------------------
Init ==
  /\ vault = EmptyVault
  /\ ir = [k \in Keys |-> {}]

\* turbojs_vm_spool_call_resolver, once per call of the function being
\* lowered: only published targets can be resolved.
Resolve(k) ==
  /\ k \in Callers
  /\ \E S \in SUBSET Resolvable(vault) :
       /\ Cardinality(S) <= MaxSites
       /\ ir' = [ir EXCEPT ![k] = S]
  /\ UNCHANGED vault

\* TurboJS_CodeCacheLookup (a miss only counts).
Lookup(k) ==
  /\ \E f \in EntryOf(vault, k) : vault' = LookedUp(vault, f)
  /\ UNCHANGED ir

\* The eviction loop of Compile and StoreContinuation: any set of entries
\* that makes room, with the check after the loop.
MakesRoom(V) ==
  /\ V \subseteq vault.live
  /\ Cardinality(vault.live \ V) < MaxEntries

\* TurboJS_CodeCacheCompile; a hit only touches the entry it returns.
Compile(k) ==
  /\ EntryOf(vault, k) = {}
  /\ \E f \in Functions \ vault.live, V \in SUBSET vault.live,
        o \in OutcomesOf(ir[k]) :
       /\ MakesRoom(V)
       /\ vault' = Compiled(vault, k, f, ir[k], V, o)
  /\ UNCHANGED ir

\* TurboJS_CodeCacheStoreContinuation; a segment holds some of the calls of
\* the function it continues.
StoreContinuation(c, k) ==
  /\ ContinuationEntry(vault, c) = {}
  /\ \E f \in Functions \ vault.live, V \in SUBSET vault.live,
        S \in SUBSET ir[k] :
       \E o \in OutcomesOf(S) :
         /\ MakesRoom(V)
         /\ vault' = ContinuationStored(vault, c, f, S, V, o)
  /\ UNCHANGED ir

\* TurboJS_CodeCacheAttachEntryHandleIdentity (i is Null for
\* TurboJS_CodeCacheAttachEntryHandle).
Attach(k, h, kind, argc, i) ==
  /\ vault.handle[h].generation < MaxGeneration
  /\ \E f \in EntryOf(vault, k) :
       LET v == Attached(vault, f, h, kind, argc) IN
       \E O \in {Owners(v, i)} \cup (IF AllocMayFail THEN {{}} ELSE {}) :
         \E out \in [O -> IF AllocMayFail THEN Outcomes ELSE {"ok"}] :
           vault' = RepatchDependents(v, O, i, h, kind, argc, out)
  /\ UNCHANGED ir

\* TurboJS_CodeCacheInvalidate
Invalidate(k) ==
  /\ vault' = RemoveAll(vault, EntryOf(vault, k))
  /\ UNCHANGED ir

\* TurboJS_CodeCacheClear
Clear ==
  /\ vault' = [RemoveAll(vault, vault.live) EXCEPT !.lastKey = Null,
                                                   !.lastFunction = Null]
  /\ UNCHANGED ir

Next ==
  \/ \E k \in Keys : Resolve(k) \/ Lookup(k) \/ Compile(k) \/ Invalidate(k)
  \/ \E c \in Conts, k \in Keys : StoreContinuation(c, k)
  \/ \E k \in Keys, h \in Handles, kind \in Kinds, argc \in ArgCounts :
       \E i \in {k, Null} : Attach(k, h, kind, argc, i)
  \/ Clear

Spec == Init /\ [][Next]_vars

-----------------------------------------------------------------------------
(* Properties *)

LiveSites == UNION {vault.entry[f].sites : f \in vault.live}
IRSites == UNION {ir[k] : k \in Keys}

\* Every component of the state has its type; dead functions have no entry
\* and published handles have a signature.
TypeOK ==
  /\ vault \in Vaults
  /\ DeadBlank(vault)
  /\ Signed(vault)
  /\ ir \in [Keys -> SUBSET Sites]

\* A published handle never points to a released function: "The handle is
\* published only while the corresponding cache entry is live and is
\* invalidated before code memory is released" (jit.h).
PublishedHandleOwned == HandleOwned(vault)

\* A guarded native call (the x64 guard of CALL_NATIVE, and
\* TurboJS_NativeEntryInvoke*) enters a live function of the callable and the
\* signature the site was resolved for, even though the guard tests only the
\* generation and the kind; sites of an IR that is compiled later included.
GuardedCallSound ==
  \A s \in LiveSites \cup IRSites : SiteSound(vault, s)

\* The last-key shortcut of TurboJS_CodeCacheLookup never returns a function
\* that was evicted, invalidated or belongs to another key.
LastLookupSound == LastSound(vault)

\* A key, and a continuation, has at most one live entry, whatever is
\* compiled, evicted and compiled again in between.
UniqueEntries == OneEntryEach(vault)

\* The Vault is well formed, its shortcut and its entries included.
Consistent == TypeOK /\ LastLookupSound /\ UniqueEntries

\* The reverse indices lead to every call site that could be entered or
\* repatched: each target and identity of a live entry's sites has an edge.
IndexComplete == IndexCovers(vault)

\* A generation names one publication: it never decreases, and a handle whose
\* generation stays the same keeps its function, kind and argument count.
GenerationNamesPublication == [][Advances(vault, vault')]_vars

\* A step that removes the function behind a published handle leaves no call
\* site at that handle in any entry that survives the step: "Clears matching
\* Clutch target pointers and expected generations" before the callee is
\* released (vault-reverse-dependency-index.md).
RetirementClearsSites == [][ClearsRetired(vault, vault')]_vars
=============================================================================
