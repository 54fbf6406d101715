-------------------------------- MODULE Spool --------------------------------
(***************************************************************************)
(* The call path of the VM: a bytecode function becomes hot, is compiled   *)
(* by the baseline tier into the integer or the Float64 Vault, and is then *)
(* entered natively, from C (JS_Call) or from the call sites of bytecode,  *)
(* where Telemetry observes the targets and Relay caches the dispatch      *)
(* (vm/jit_bridge.c, vm/relay_call_ic.c, vm/call_feedback.c, and the call  *)
(* opcodes of vm/interpreter.c).                                           *)
(*                                                                         *)
(* A bytecode object is named by its address, which a later object may get *)
(* again; it is the key of its entries and holds their two handles.        *)
(* turbojs_jit_ir_is_vm_safe refuses IR with native calls, so the entries  *)
(* of these Vaults have no Clutch call sites.                              *)
(***************************************************************************)
EXTENDS VaultOps

CONSTANTS
  Int32, Float64,   \* the entry kinds, one Vault each
  CallSites,        \* bytecode offsets of the calls of one caller
  SlotOf,           \* the table index of an offset (both tables hash alike)
  Leaves,           \* bytecode that decodes to a tiny leaf plan
  Capturing,        \* bytecode that captures variables (closure_var_count)
  Compilable,       \* Compilable[m]: bytecode the baseline tier accepts in m
  Regions,          \* bytecode the region compiler accepts
  Threshold,        \* jit_compile_threshold
  RegionThreshold,  \* jit_optimizing_threshold
  MaxTargets,       \* TURBOJS_CALL_FEEDBACK_MAX_TARGETS
  Budget,           \* TURBOJS_VM_CALL_FEEDBACK_BUDGET
  Redline,          \* built with TURBOJS_ENABLE_OPTIMIZING_JIT
  MaxEntries,       \* entries of each Vault
  MaxId,            \* bound: function identities handed out
  MaxGeneration     \* bound: no handle is published beyond this generation

ASSUME SpoolAssumption ==
  /\ Handles = Keys
  /\ Kinds = {Int32, Float64} /\ Int32 # Float64
  /\ Kinds \cap {"empty", "leaf", "disabled"} = {}
  /\ Leaves \subseteq Keys /\ Capturing \subseteq Keys /\ Regions \subseteq Keys
  /\ Compilable \in [Kinds -> SUBSET Keys]
  /\ {Threshold, RegionThreshold, MaxTargets, Budget, MaxEntries} \subseteq Nat \ {0}
  /\ 1 \in ArgCounts

VARIABLES
  fn,      \* fn[k]: the jit fields of the JSFunctionBytecode at address k
  vault,   \* vault[m]: jit_code_cache and jit_float_code_cache
  nextId,  \* jit_next_function_identity
  fb,      \* fb[x]: slot x of the caller's call_feedback
  budget,  \* jit_call_feedback_remaining of the caller
  relay    \* relay[x]: slot x of the caller's relay_call_ic

vars == <<fn, vault, nextId, fb, budget, relay>>

Slots == {SlotOf[s] : s \in CallSites}
Args == {"int", "float", "other", "few"}  \* "few": fewer than declared

\* jit_reserved (Null, Int32, Float64), the identity (0: none yet), the call
\* counts (which stop mattering at the threshold) and attempts of both modes,
\* the region counter and code, and the leaf plan state.
Dead == [alive |-> FALSE, id |-> 0, reserved |-> Null,
         count |-> [m \in Kinds |-> 0], attempted |-> {},
         calls |-> 0, region |-> FALSE, leaf |-> "unknown"]

EmptyWay == [kind |-> "empty", id |-> 0, gen |-> 0]
EmptyRelay == [off |-> Null, primary |-> EmptyWay, secondary |-> EmptyWay]
EmptyFeedback == [off |-> Null, targets |-> {}, mega |-> FALSE]

Init ==
  /\ fn = [k \in Keys |-> Dead]
  /\ vault = [m \in Kinds |-> EmptyVault]
  /\ nextId = 0
  /\ fb = [x \in Slots |-> EmptyFeedback]
  /\ budget = Budget
  /\ relay = [x \in Slots |-> EmptyRelay]

-----------------------------------------------------------------------------
(* The operations of one call act on the runtime part of the state, r. *)

Runtime == [fn |-> fn, vault |-> vault, nextId |-> nextId]

\* turbojs_vm_function_identity
Identified(r, k) ==
  IF r.fn[k].id # 0 THEN r
  ELSE [r EXCEPT !.nextId = @ + 1, !.fn[k].id = r.nextId + 1]

\* turbojs_try_region_call: the outcomes of entering the region tier.
RegionCall(r, k, arg) ==
  LET f == r.fn[k]
      counted == [r EXCEPT !.fn[k].calls = @ + 1]
      compiled == [counted EXCEPT !.fn[k].region = TRUE]
      run(q) == {[r |-> q, done |-> TRUE], [r |-> q, done |-> FALSE]}
  IN  IF arg # "int" \/ (~f.region /\ f.calls = RegionThreshold)
        THEN {[r |-> r, done |-> FALSE]}
      ELSE IF f.region THEN run(r)
      ELSE IF f.calls + 1 < RegionThreshold \/ k \notin Regions
        THEN {[r |-> counted, done |-> FALSE]}
      ELSE run(compiled)

\* The specialization turbojs_try_baseline_call takes for these arguments.
Mode(f, arg) ==
  IF arg = "float" /\ f.reserved # Int32 THEN Float64
  ELSE IF arg = "int" THEN Int32 ELSE Null

\* Mutant of Missed: the mode is given up, but its attempt is not reopened.
MissedKeepsAttempt(f, m) ==
  IF f.reserved = m
  THEN [f EXCEPT !.reserved = Null, !.count[m] = Threshold]
  ELSE [f EXCEPT !.count[m] = IF @ < Threshold THEN @ + 1 ELSE @]

\* A lookup miss: code that had run natively may be compiled at once again,
\* otherwise the call is counted.
Missed(f, m) ==
  IF f.reserved = m
  THEN [f EXCEPT !.reserved = Null, !.attempted = @ \ {m}, !.count[m] = Threshold]
  ELSE [f EXCEPT !.count[m] = IF @ < Threshold THEN @ + 1 ELSE @]

\* Attach the handle if it does not publish the function yet, and invoke: the
\* function completes, and its mode is reserved, or bails out.
Entered(r, k, m, f) ==
  LET q == Identified(r, k)
      p == IF r.vault[m].handle[k].function = f THEN r
           ELSE [q EXCEPT !.vault[m] = Attached(@, f, k, m, 1)]
  IN  {[r |-> [p EXCEPT !.fn[k].reserved = m], done |-> TRUE],
       [r |-> p, done |-> FALSE]}

\* Mutant of MayCompile: only the threshold decides.
MayCompileAgain(f, m) == f.count[m] >= Threshold

\* The call is hot and its mode has not had its attempt.
MayCompile(f, m) == m \notin f.attempted /\ f.count[m] >= Threshold

Tried(f, m) == [f EXCEPT !.attempted = @ \cup {m}]

\* turbojs_try_baseline_call: the outcomes.  A compilation evicts entries that
\* make room; IR the VM refuses fails before it touches the Vault.
BaselineCall(r, k, arg) ==
  LET m == Mode(r.fn[k], arg)
      v == r.vault[m]
      f == Missed(r.fn[k], m)
      tried == [r EXCEPT !.fn[k] = Tried(f, m)]
  IN  IF m = Null THEN {[r |-> r, done |-> FALSE]}
      ELSE IF EntryOf(v, k) # {}
        THEN UNION {Entered([r EXCEPT !.vault[m] = LookedUp(v, g)], k, m, g) :
                      g \in EntryOf(v, k)}
      ELSE IF ~MayCompile(f, m)
        THEN {[r |-> [r EXCEPT !.fn[k] = f], done |-> FALSE]}
      ELSE IF k \notin Compilable[m] THEN {[r |-> tried, done |-> FALSE]}
      ELSE UNION {UNION {Entered([tried EXCEPT !.vault[m] =
                                    Compiled(v, k, g, {}, V, "ok")], k, m, g) :
                           V \in {W \in SUBSET v.live :
                                    Cardinality(v.live \ W) < MaxEntries}} :
                    g \in Functions \ v.live}

\* The region tier, then the baseline tier.
NativeCall(r, k, arg) ==
  UNION {IF o.done THEN {o} ELSE BaselineCall(o.r, k, arg) :
           o \in RegionCall(r, k, arg)}

\* turbojs_try_inline_leaf_call_object: a plan is built on the first call and
\* then executes or declines.
LeafCall(r, k) ==
  LET plan == IF k \in Leaves THEN "plan" ELSE "none"
      q == [r EXCEPT !.fn[k].leaf = plan]
  IN  {[r |-> q, done |-> ok] : ok \in IF k \in Leaves THEN BOOLEAN ELSE {FALSE}}

-----------------------------------------------------------------------------
(* Telemetry: turbojs_vm_call_feedback_observe for the call at offset s. *)

FeedbackAt(t, s) ==
  IF t[SlotOf[s]].off = s THEN t[SlotOf[s]] ELSE [EmptyFeedback EXCEPT !.off = s]

Observed(t, s, i) ==
  LET e == FeedbackAt(t, s) IN
  [t EXCEPT ![SlotOf[s]] =
     IF i \in e.targets \/ e.mega THEN e
     ELSE IF Cardinality(e.targets) < MaxTargets
       THEN [e EXCEPT !.targets = @ \cup {i}]
     ELSE [e EXCEPT !.mega = TRUE]]

-----------------------------------------------------------------------------
(* Relay *)

RelayAt(t, s) ==
  IF t[SlotOf[s]].off = s THEN t[SlotOf[s]] ELSE [EmptyRelay EXCEPT !.off = s]

Usable(e) == e.primary.kind \notin {"empty", "disabled"}

\* The way turbojs_relay_try_call selects for a target identity.
WayFor(e, i) ==
  IF i = e.primary.id THEN e.primary
  ELSE IF e.secondary.kind # "empty" /\ i = e.secondary.id THEN e.secondary
  ELSE EmptyWay

\* turbojs_spool_entry_invoke through a way: too few arguments are noticed
\* before a stale generation, other argument types after it.
InvokeResults(r, k, w, arg) ==
  IF arg = "few" THEN {"miss"}
  ELSE IF ~IsLive(r.vault[w.kind], k, w.gen, w.kind) THEN {"stale"}
  ELSE IF arg = "int" \/ (arg = "float" /\ w.kind = Float64)
    THEN {"hit", "miss"} ELSE {"miss"}

\* The third identity at a site disables it.
Disabled(e) ==
  [e EXCEPT !.primary.kind = "disabled", !.primary.gen = 0,
            !.secondary.kind = "empty", !.secondary.gen = 0]

\* Mutant of Installed: the ways are not compared with the identity.
InstalledTwice(e, w) ==
  IF e.primary.kind = "disabled" THEN e
  ELSE IF e.primary.kind = "empty" THEN [e EXCEPT !.primary = w]
  ELSE IF e.secondary.kind = "empty" THEN [e EXCEPT !.secondary = w]
  ELSE Disabled(e)

\* turbojs_relay_install_leaf and _spool: fill a way, or disable the site.
Installed(e, w) ==
  IF e.primary.kind = "disabled" THEN e
  ELSE IF e.primary.kind = "empty" THEN [e EXCEPT !.primary = w]
  ELSE IF w.id \in {e.primary.id, e.secondary.id} THEN e
  ELSE IF e.secondary.kind = "empty" THEN [e EXCEPT !.secondary = w]
  ELSE Disabled(e)

\* The feedback condition of turbojs_relay_install_spool.
Approved(t, s, i) ==
  LET e == t[SlotOf[s]] IN
  Redline => /\ e.off = s /\ ~e.mega
             /\ Cardinality(e.targets) \in 1..2
             /\ i \in e.targets

\* turbojs_relay_install_spool after a native call of k.
SpoolInstalled(t, f, r, k, s) ==
  LET m == r.fn[k].reserved
      i == r.fn[k].id
  IN  IF m # Null /\ r.vault[m].handle[k].function # Null /\ Approved(f, s, i)
      THEN [t EXCEPT ![SlotOf[s]] =
              Installed(RelayAt(t, s),
                        [kind |-> m, id |-> i,
                         gen |-> r.vault[m].handle[k].generation])]
      ELSE t

-----------------------------------------------------------------------------
(* Actions *)

\* The result of a call, within the bounds: no identity and no publication of
\* k's handles beyond them.
Commit(r, k) ==
  /\ r.nextId <= MaxId
  /\ \A m \in Kinds : r.vault[m].handle[k].generation <= MaxGeneration
  /\ fn' = r.fn /\ vault' = r.vault /\ nextId' = r.nextId

\* A new bytecode object at address k, zero-initialised, its handles too.
Create(k) ==
  /\ ~fn[k].alive
  /\ fn' = [fn EXCEPT ![k] = [Dead EXCEPT !.alive = TRUE]]
  /\ vault' = [m \in Kinds |-> [vault[m] EXCEPT !.handle[k] = HandleInit]]
  /\ UNCHANGED <<nextId, fb, budget, relay>>

\* Mutant of Free: only the integer Vault is told.
FreeIntOnly(k) ==
  /\ fn[k].alive
  /\ fn' = [fn EXCEPT ![k] = Dead]
  /\ vault' = [vault EXCEPT ![Int32] = RemoveAll(@, EntryOf(@, k))]
  /\ UNCHANGED <<nextId, fb, budget, relay>>

\* free_function_bytecode
Free(k) ==
  /\ fn[k].alive
  /\ fn' = [fn EXCEPT ![k] = Dead]
  /\ vault' = [m \in Kinds |-> RemoveAll(vault[m], EntryOf(vault[m], k))]
  /\ UNCHANGED <<nextId, fb, budget, relay>>

\* JS_CallInternal from C: no Relay and no leaf, region and baseline tried.
DirectCall(k, arg) ==
  /\ fn[k].alive
  /\ \E o \in NativeCall(Runtime, k, arg) :
       Commit(o.r, k)
  /\ UNCHANGED <<fb, budget, relay>>

\* After Relay declined: the leaf executor, then, only for a function with
\* native code, the region and baseline tiers, then Pulse (JIT_ATTEMPTED).  A leaf
\* that captures variables gets no way.
Fallback(s, k, arg, r, t, b, u) ==
  \E o \in LeafCall(r, k) :
    /\ fb' = t /\ budget' = b
    /\ \/ /\ o.done /\ k \in Capturing
          /\ Commit(o.r, k) /\ relay' = u
       \/ /\ o.done /\ k \notin Capturing
          /\ LET q == Identified(o.r, k)
                 w == [kind |-> "leaf", id |-> q.fn[k].id, gen |-> 0]
             IN  /\ Commit(q, k)
                 /\ relay' = [u EXCEPT ![SlotOf[s]] = Installed(RelayAt(u, s), w)]
       \/ /\ ~o.done
          /\ o.r.fn[k].region \/ o.r.fn[k].reserved # Null
          /\ \E p \in RegionCall(o.r, k, arg) :
               \/ /\ p.done
                  /\ Commit(p.r, k) /\ relay' = u
               \/ /\ ~p.done
                  /\ \E q \in BaselineCall(p.r, k, arg) :
                       /\ Commit(q.r, k)
                       /\ relay' = IF q.done THEN SpoolInstalled(u, t, q.r, k, s) ELSE u
       \/ /\ ~o.done
          /\ ~o.r.fn[k].region /\ o.r.fn[k].reserved = Null
          /\ Commit(o.r, k) /\ relay' = u

\* OP_call and OP_call_method at offset s with the bytecode function k.
BytecodeCall(s, k, arg) ==
  /\ fn[k].alive
  /\ LET observe == Redline /\ budget # 0
         e == RelayAt(relay, s)
         r == IF observe \/ Usable(e) THEN Identified(Runtime, k) ELSE Runtime
         t == IF observe THEN Observed(fb, s, r.fn[k].id) ELSE fb
         b == IF observe THEN budget - 1 ELSE budget
         w == IF Usable(e) THEN WayFor(e, r.fn[k].id) ELSE EmptyWay
         cleared == [relay EXCEPT ![SlotOf[s]] = [EmptyRelay EXCEPT !.off = s]]
         hit == Commit(r, k) /\ fb' = t /\ budget' = b /\ relay' = relay
         planned == r.fn[k].leaf = "plan"
     IN  \/ /\ w.kind = "leaf" /\ planned
            /\ hit
         \/ /\ w.kind = "leaf"
            /\ Fallback(s, k, arg, r, t, b, IF planned THEN relay ELSE cleared)
         \/ /\ w.kind \in Kinds
            /\ \E x \in InvokeResults(r, k, w, arg) :
                 \/ x = "hit" /\ hit
                 \/ x = "miss" /\ Fallback(s, k, arg, r, t, b, relay)
                 \/ x = "stale" /\ Fallback(s, k, arg, r, t, b, cleared)
         \/ /\ w.kind = "empty"
            /\ Fallback(s, k, arg, r, t, b, relay)

\* TurboJS_ClearRuntimeJITCache
ClearCaches ==
  /\ vault' = [m \in Kinds |->
       [RemoveAll(vault[m], vault[m].live) EXCEPT !.lastKey = Null,
                                                  !.lastFunction = Null]]
  /\ UNCHANGED <<fn, nextId, fb, budget, relay>>

\* The caller is freed with its tables; another takes its place.
FreeCaller ==
  /\ fb' = [x \in Slots |-> EmptyFeedback]
  /\ relay' = [x \in Slots |-> EmptyRelay]
  /\ budget' = Budget
  /\ UNCHANGED <<fn, vault, nextId>>

Next ==
  \/ \E k \in Keys : Create(k) \/ Free(k)
  \/ \E k \in Keys, arg \in Args : DirectCall(k, arg)
  \/ \E s \in CallSites, k \in Keys, arg \in Args : BytecodeCall(s, k, arg)
  \/ ClearCaches
  \/ FreeCaller

Spec == Init /\ [][Next]_vars

\* Calls from C keep coming, with integers and with floats, and the region code
\* of a function, if it has some, does not complete all of them.
FairSpec ==
  /\ Spec
  /\ \A k \in Keys : WF_vars(DirectCall(k, "int")) /\ WF_vars(DirectCall(k, "float"))

-----------------------------------------------------------------------------
(* Properties *)

Ways == {relay[x].primary : x \in Slots} \cup {relay[x].secondary : x \in Slots}

\* Every component has its type and the Vaults are well formed.
TypeOK ==
  /\ fn \in [Keys -> [alive: BOOLEAN, id: 0..nextId, reserved: Kinds \cup {Null},
                      count: [Kinds -> 0..Threshold], attempted: SUBSET Kinds,
                      calls: 0..RegionThreshold, region: BOOLEAN,
                      leaf: {"unknown", "plan", "none"}]]
  /\ \A m \in Kinds : vault[m] \in Vaults /\ DeadBlank(vault[m]) /\ Signed(vault[m])
  /\ nextId \in Nat
  /\ fb \in [Slots -> [off: CallSites \cup {Null}, targets: SUBSET (1..nextId),
                      mega: BOOLEAN]]
  /\ budget \in 0..Budget
  /\ Ways \subseteq [kind: Kinds \cup {"empty", "leaf", "disabled"},
                    id: 0..nextId, gen: Nat]

\* "Relay therefore never retains a dangling code pointer" (relay_call_ic.c):
\* if the function a Spool way names is alive, the way's generation is one its
\* handle has had, and if it is the current one the handle publishes code that
\* its Vault still owns, compiled for that very function, although the Vaults,
\* the function and the address of the function may all have been recycled.
RelayHitSound ==
  \A w \in Ways, k \in Keys :
    w.kind \in Kinds /\ fn[k].alive /\ fn[k].id = w.id =>
      LET h == vault[w.kind].handle[k] IN
      /\ w.gen <= h.generation
      /\ w.gen = h.generation =>
           h.function \in EntryOf(vault[w.kind], k) /\ h.kind = w.kind

\* "Cache entries are keyed by the bytecode object and invalidated when that
\* object is freed" (vm-jit-integration.md): no entry outlives its bytecode,
\* so a new object at the same address cannot hit it.
EntriesOfLiveBytecode ==
  \A m \in Kinds : \A f \in vault[m].live : fn[vault[m].entry[f].key].alive

\* A reserved mode has had its attempt: only then does a missing entry mean
\* that code was evicted or cleared, and may be compiled at once.  Compiled
\* code exists only for modes that had their attempt.
ReservedWasCompiled ==
  \A k \in Keys, m \in Kinds :
    fn[k].reserved = m \/ EntryOf(vault[m], k) # {} =>
      m \in fn[k].attempted /\ k \in Compilable[m]

\* The two ways of a usable site name different functions, so that the
\* secondary way can be reached.
RelayWaysDistinct ==
  \A x \in Slots :
    Usable(relay[x]) /\ relay[x].secondary.kind # "empty" =>
      relay[x].primary.id # relay[x].secondary.id

\* The bookkeeping of functions and sites is well formed.
Consistent == TypeOK /\ ReservedWasCompiled /\ RelayWaysDistinct

\* One compilation attempt per mode: a function is compiled again only after
\* code of it in that mode completed a call and was then evicted or cleared.
OneAttempt ==
  [][\A k \in Keys, m \in Kinds :
       /\ fn[k].alive /\ m \in fn[k].attempted
       /\ EntryOf(vault[m], k) = {} /\ EntryOf(vault'[m], k) # {}
       => fn[k].reserved = m]_vars

\* The bounds leave no room for another identity or publication of k.
Exhausted(k) ==
  \/ fn[k].id = 0 /\ nextId = MaxId
  \/ \E m \in Kinds : vault[m].handle[k].generation >= MaxGeneration

\* The function has been entered natively in mode m, and that code is gone.
Missing(k, m) == fn[k].alive /\ fn[k].reserved = m /\ EntryOf(vault[m], k) = {}

\* Code that was in use and then evicted or cleared is there again some time
\* later, if the function lives and calls of both types keep arriving.  Float64
\* code need not be compiled again once a call of integers has completed in
\* native code: turbojs_try_baseline_call then takes integers only.
RecompiledAfterClear ==
  \A k \in Keys, m \in Kinds :
    Missing(k, m) ~> \/ EntryOf(vault[m], k) # {}
                     \/ m = Float64 /\ fn[k].reserved = Int32
                     \/ ~fn[k].alive \/ Exhausted(k)

=============================================================================
