---------------------------- MODULE SpoolProofs -----------------------------
(*****************************************************************************)
(* Safety of the call path for every number of functions, call sites and     *)
(* table slots, whatever the thresholds, the budget and the bounds are.      *)
(*****************************************************************************)
EXTENDS SpoolOpsProofs, SpoolTableProofs

-----------------------------------------------------------------------------
(* The calls *)

LEMMA CommitRuntime ==
  ASSUME NEW q, GoodRuntime(q), NEW k, Commit(q, k)
  PROVE  Runtime' = q
<1>1. q = [fn |-> q.fn, vault |-> q.vault, nextId |-> q.nextId]
  BY Zenon DEF GoodRuntime, Runtimes
<1>2. fn' = q.fn /\ vault' = q.vault /\ nextId' = q.nextId
  BY DEF Commit
<1> QED BY <1>1, <1>2, Zenon DEF Runtime

\* After Relay: the leaf executor, the tiers, and what they install.
LEMMA FallbackGood ==
  ASSUME NEW r, NEW t, NEW u, NEW b, Good(r, u, t, b), NEW s \in CallSites,
         NEW k \in Keys, r.fn[k].alive, NEW arg, Fallback(s, k, arg, r, t, b, u)
  PROVE  Inv' /\ OneTry(r, Runtime')
<1>1. PICK o \in LeafCall(r, k) :
        /\ fb' = t /\ budget' = b
        /\ \/ /\ o.done /\ k \in Capturing
              /\ Commit(o.r, k) /\ relay' = u
           \/ /\ o.done /\ k \notin Capturing
              /\ LET q == Identified(o.r, k)
                     w == [kind |-> "leaf", id |-> q.fn[k].id, gen |-> 0]
                 IN  /\ Commit(q, k)
                     /\ relay' = [u EXCEPT ![SlotOf[s]] = Installed(RelayAt(u, s), w)]
           \/ /\ ~o.done
              /\ o.r.fn[k].region \/ o.r.fn[k].reserved # Null
              /\ \E p \in RegionCall(o.r, k, arg) :
                   \/ /\ p.done
                      /\ Commit(p.r, k) /\ relay' = u
                   \/ /\ ~p.done
                      /\ \E q \in BaselineCall(p.r, k, arg) :
                           /\ Commit(q.r, k)
                           /\ relay' = IF q.done THEN SpoolInstalled(u, t, q.r, k, s) ELSE u
           \/ /\ ~o.done
              /\ ~o.r.fn[k].region /\ o.r.fn[k].reserved = Null
              /\ Commit(o.r, k) /\ relay' = u
  BY Zenon DEF Fallback
<1>2. GoodRuntime(r) /\ Quiet(r, o.r, k) /\ o.r.fn[k].alive
  <2>1. GoodRuntime(r)
    BY DEF Good
  <2>2. Quiet(r, o.r, k)
    BY <2>1, LeafCallQuiet, Zenon
  <2> QED BY <2>1, <2>2, Zenon DEF Quiet
<1>3. GoodRuntime(o.r) /\ Later(r, o.r) /\ OneTry(r, o.r) /\ Good(o.r, u, t, b)
  BY <1>2, QuietGood, GoodLater, Zenon
<1>4. ASSUME NEW q, GoodRuntime(q), Later(r, q), OneTry(r, q), Commit(q, k),
             GoodTable(q, relay')
      PROVE  Inv' /\ OneTry(r, Runtime')
  <2>1. Runtime' = q
    BY <1>4, CommitRuntime, Zenon
  <2>2. Good(q, u, t, b)
    BY <1>4, GoodLater, Zenon
  <2>3. Good(q, relay', fb', budget')
    BY <1>1, <1>4, <2>2, ZenonT(60) DEF Good
  <2> QED BY <1>4, <2>1, <2>3, ZenonT(60) DEF Inv
<1>5. ASSUME NEW q, GoodRuntime(q), Later(r, q), OneTry(r, q), Commit(q, k), relay' = u
      PROVE  Inv' /\ OneTry(r, Runtime')
  <2>1. GoodTable(q, relay')
    BY <1>2, <1>5, TableLater, ZenonT(60) DEF Good
  <2> QED BY <1>4, <1>5, <2>1
<1>6. CASE /\ Commit(Identified(o.r, k), k)
           /\ relay' = [u EXCEPT ![SlotOf[s]] =
                          Installed(RelayAt(u, s), [kind |-> "leaf", id |-> Identified(o.r, k).fn[k].id, gen |-> 0])]
  <2> DEFINE q == Identified(o.r, k)
             w == [kind |-> "leaf", id |-> q.fn[k].id, gen |-> 0]
  <2>1. Commit(q, k) /\ relay' = [u EXCEPT ![SlotOf[s]] = Installed(RelayAt(u, s), w)]
    BY <1>6, Zenon
  <2>2. Quiet(o.r, q, k)
    BY <1>3, IdentifiedQuiet, Zenon
  <2>3. GoodRuntime(q) /\ Later(o.r, q) /\ OneTry(o.r, q)
    BY <1>3, <2>2, QuietGood, Zenon
  <2> HIDE DEF q
  <2>4. Later(r, q) /\ OneTry(r, q)
    BY <1>2, <2>3, QuietThenGood, ZenonT(60)
  <2>5. q.fn[k].id \in Nat /\ q.fn[k].id <= q.nextId
    BY <2>3, SMTT(30) DEF GoodRuntime, Runtimes, FunctionRecords
  <2>6. w \in WayRecords /\ w.kind = "leaf" /\ w.id = q.fn[k].id
    BY <2>5, Zenon DEF WayRecords
  <2> HIDE DEF w
  <2>7. GoodWay(q, w) /\ w.kind \notin {"empty", "disabled"}
    BY <2>5, <2>6, KindNames, ZenonT(60) DEF GoodWay
  <2>8. GoodTable(q, u)
    BY <1>2, <2>3, <2>4, TableLater, ZenonT(60) DEF Good
  <2>9. GoodTable(q, relay')
    BY <2>1, <2>3, <2>6, <2>7, <2>8, TableInstalled, ZenonT(60)
  <2> QED BY <1>4, <2>1, <2>3, <2>4, <2>9, SMTT(60)
<1>7. ASSUME NEW p \in RegionCall(o.r, k, arg), p.done, Commit(p.r, k), relay' = u
      PROVE  Inv' /\ OneTry(r, Runtime')
  <2>1. Quiet(o.r, p.r, k)
    BY <1>3, <1>7, RegionCallQuiet, ZenonT(60)
  <2>2. GoodRuntime(p.r) /\ Later(o.r, p.r) /\ OneTry(o.r, p.r)
    BY <1>3, <2>1, QuietGood, ZenonT(60)
  <2>3. Later(r, p.r) /\ OneTry(r, p.r)
    BY <1>2, <2>2, QuietThenGood, Zenon
  <2> QED BY <1>5, <1>7, <2>2, <2>3, SMTT(60)
<1>8. ASSUME NEW p \in RegionCall(o.r, k, arg), ~p.done,
             NEW q \in BaselineCall(p.r, k, arg), Commit(q.r, k),
             relay' = IF q.done THEN SpoolInstalled(u, t, q.r, k, s) ELSE u
      PROVE  Inv' /\ OneTry(r, Runtime')
  <2>1. Quiet(o.r, p.r, k)
    BY <1>3, <1>8, RegionCallQuiet, ZenonT(60)
  <2>2. GoodRuntime(p.r) /\ p.r.fn[k].alive
    <3>1. GoodRuntime(p.r)
      BY <1>3, <2>1, QuietGood, ZenonT(60)
    <3>2. p.r.fn[k].alive = o.r.fn[k].alive
      BY <2>1 DEF Quiet
    <3> QED BY <1>2, <3>1, <3>2, ZenonT(60)
  <2>3. GoodRuntime(q.r) /\ Later(p.r, q.r) /\ OneTry(p.r, q.r)
    BY <1>8, <2>2, BaselineCallGood, ZenonT(60)
  <2>4. Later(o.r, q.r) /\ OneTry(o.r, q.r)
    BY <1>3, <2>1, <2>3, QuietThenGood, ZenonT(60)
  <2>5. Later(r, q.r) /\ OneTry(r, q.r)
    BY <1>2, <2>3, <2>4, QuietThenGood, ZenonT(60)
  <2>6. GoodTable(q.r, u)
    BY <1>2, <2>3, <2>5, TableLater, ZenonT(60) DEF Good
  <2>7. GoodTable(q.r, relay')
    BY <1>8, <2>3, <2>6, SpoolInstalledGood, ZenonT(60)
  <2> QED BY <1>4, <1>8, <2>3, <2>5, <2>7, SMTT(60)
<1>9. CASE Commit(o.r, k) /\ relay' = u
  BY <1>3, <1>5, <1>9
<1> QED BY <1>1, <1>6, <1>7, <1>8, <1>9, ZenonT(60)

LEMMA BytecodeCallGood ==
  ASSUME Inv, NEW s \in CallSites, NEW k \in Keys, NEW arg, BytecodeCall(s, k, arg)
  PROVE  Inv' /\ OneTry(Runtime, Runtime')
<1> DEFINE observe == Redline /\ budget # 0
           e == RelayAt(relay, s)
           r == IF observe \/ Usable(e) THEN Identified(Runtime, k) ELSE Runtime
           t == IF observe THEN Observed(fb, s, r.fn[k].id) ELSE fb
           b == IF observe THEN budget - 1 ELSE budget
           w == IF Usable(e) THEN WayFor(e, r.fn[k].id) ELSE EmptyWay
           cleared == [relay EXCEPT ![SlotOf[s]] = [EmptyRelay EXCEPT !.off = s]]
           hit == Commit(r, k) /\ fb' = t /\ budget' = b /\ relay' = relay
           planned == r.fn[k].leaf = "plan"
<1>1. fn[k].alive /\ Runtime.fn[k].alive
  BY Zenon DEF BytecodeCall, Runtime
<1>2. \/ /\ w.kind = "leaf" /\ planned
         /\ hit
      \/ /\ w.kind = "leaf"
         /\ Fallback(s, k, arg, r, t, b, IF planned THEN relay ELSE cleared)
      \/ /\ w.kind \in Kinds
         /\ \E x \in InvokeResults(r, k, w, arg) :
              \/ x = "hit" /\ hit
              \/ x = "miss" /\ Fallback(s, k, arg, r, t, b, relay)
              \/ x = "stale" /\ Fallback(s, k, arg, r, t, b, cleared)
      \/ /\ w.kind = "empty"
         /\ Fallback(s, k, arg, r, t, b, relay)
  BY Zenon DEF BytecodeCall
<1> HIDE DEF w, hit, planned
<1>3. \/ hit
      \/ Fallback(s, k, arg, r, t, b, relay)
      \/ Fallback(s, k, arg, r, t, b, cleared)
  <2> HIDE DEF r, t, b, cleared
  <2>1. (IF planned THEN relay ELSE cleared) \in {relay, cleared}
    OBVIOUS
  <2>2. planned \/ ~planned
    OBVIOUS
  <2> QED BY <1>2, <2>2, Zenon
<1>4. GoodRuntime(Runtime) /\ GoodTable(Runtime, relay) /\ GoodFeedback(Runtime.nextId, fb)
      /\ budget \in 0..Budget
  BY Zenon DEF Inv, Good
<1>5. Quiet(Runtime, Runtime, k)
  BY <1>4 DEF Quiet, GoodRuntime, Runtimes
<1>6. Quiet(Runtime, Identified(Runtime, k), k) /\ Identified(Runtime, k).fn[k].id # 0
  BY <1>4, IdentifiedQuiet, Zenon
<1>7. Quiet(Runtime, r, k) /\ (observe => r.fn[k].id # 0)
  BY <1>5, <1>6, Zenon
<1> HIDE DEF r
<1>8. GoodRuntime(r) /\ Later(Runtime, r) /\ OneTry(Runtime, r) /\ r.fn[k].alive
  BY <1>1, <1>4, <1>7, QuietGood, ZenonT(60) DEF Quiet
<1>9. Good(r, relay, fb, budget)
  BY <1>8, GoodLater, Zenon DEF Inv
<1>10. r.nextId \in Nat /\ r.fn[k].id \in Nat /\ r.fn[k].id <= r.nextId
  BY <1>8, SMTT(30) DEF GoodRuntime, Runtimes, FunctionRecords
<1>11. GoodFeedback(r.nextId, t)
  <2>1. CASE observe
    <3>1. r.fn[k].id \in 1..r.nextId
      BY <1>7, <1>10, <2>1
    <3>2. GoodFeedback(r.nextId, Observed(fb, s, r.fn[k].id))
      BY <1>9, <1>10, <3>1, ObservedGood, ZenonT(60) DEF Good
    <3> QED BY <2>1, <3>2, ZenonT(60)
  <2>2. CASE ~observe
    BY <1>9, <2>2, ZenonT(60) DEF Good
  <2> QED BY <2>1, <2>2
<1>12. b \in 0..Budget
  BY <1>4, SpoolAssumption
<1> HIDE DEF t, b, observe
<1>13. Good(r, relay, t, b)
  BY <1>9, <1>11, <1>12, ZenonT(60) DEF Good
<1>14. GoodTable(r, cleared)
  <2>1. GoodRelay(r, [EmptyRelay EXCEPT !.off = s])
    BY <1>8, EmptyRelayGood, Zenon
  <2> QED BY <1>9, <2>1, TableSet, ZenonT(60) DEF Good
<1> HIDE DEF cleared
<1>15. Good(r, cleared, t, b)
  BY <1>13, <1>14, Zenon DEF Good
<1>16. CASE hit
  <2>1. Commit(r, k) /\ fb' = t /\ budget' = b /\ relay' = relay
    BY <1>16 DEF hit
  <2>2. Runtime' = r
    BY <1>8, <2>1, CommitRuntime, ZenonT(60)
  <2> QED BY <1>8, <1>13, <2>1, <2>2, ZenonT(60) DEF Inv
<1>17. ASSUME NEW u, Good(r, u, t, b), Fallback(s, k, arg, r, t, b, u)
       PROVE  Inv' /\ OneTry(Runtime, Runtime')
  <2>1. Inv' /\ OneTry(r, Runtime')
    BY <1>8, <1>17, FallbackGood, ZenonT(60)
  <2> QED BY <1>7, <2>1, QuietOneTry, ZenonT(60)
<1> QED BY <1>3, <1>13, <1>15, <1>16, <1>17, ZenonT(60)

LEMMA DirectCallGood ==
  ASSUME Inv, NEW k \in Keys, NEW arg, DirectCall(k, arg)
  PROVE  Inv' /\ OneTry(Runtime, Runtime')
<1>1. PICK o \in NativeCall(Runtime, k, arg) : Commit(o.r, k)
  BY DEF DirectCall
<1>2. fn[k].alive /\ fb' = fb /\ budget' = budget /\ relay' = relay
  BY DEF DirectCall
<1>3. GoodRuntime(Runtime) /\ Runtime.fn[k].alive
  BY <1>2, Zenon DEF Inv, Good, Runtime
<1>4. GoodRuntime(o.r) /\ Later(Runtime, o.r) /\ OneTry(Runtime, o.r)
  BY <1>3, NativeCallGood, Zenon
<1>5. Runtime' = o.r
  BY <1>1, <1>4, CommitRuntime, ZenonT(60)
<1>6. Good(o.r, relay, fb, budget)
  BY <1>4, GoodLater, Zenon DEF Inv
<1> QED BY <1>2, <1>4, <1>5, <1>6, ZenonT(60) DEF Inv

LEMMA NextInv == Inv /\ [Next]_vars => Inv' /\ OneTry(Runtime, Runtime')
<1> SUFFICES ASSUME Inv, [Next]_vars PROVE Inv' /\ OneTry(Runtime, Runtime')
  OBVIOUS
<1>1. CASE \E k \in Keys : Create(k) \/ Free(k)
  BY <1>1, CreateGood, FreeGood, ZenonT(60)
<1>2. CASE \E k \in Keys, arg \in Args : DirectCall(k, arg)
  BY <1>2, DirectCallGood, Zenon
<1>3. CASE \E s \in CallSites, k \in Keys, arg \in Args : BytecodeCall(s, k, arg)
  BY <1>3, BytecodeCallGood, Zenon
<1>4. CASE ClearCaches
  BY <1>4, ClearCachesGood, Zenon
<1>5. CASE FreeCaller
  BY <1>5, FreeCallerGood, Zenon
<1>6. CASE UNCHANGED vars
  <2>1. Runtime' = Runtime /\ relay' = relay /\ fb' = fb /\ budget' = budget
    BY <1>6, Zenon DEF vars, Runtime
  <2>2. OneTry(Runtime, Runtime)
    BY Zenon DEF OneTry
  <2> QED BY <2>1, <2>2, Zenon DEF Inv
<1> QED BY <1>1, <1>2, <1>3, <1>4, <1>5, <1>6, ZenonT(60) DEF Next

-----------------------------------------------------------------------------
(* The theorems *)

\* The invariant holds throughout.
THEOREM SpoolInvariant == Spec => []Inv
<1>1. Inv /\ [Next]_vars => Inv'
  BY NextInv
<1> QED BY <1>1, InitInv, PTL DEF Spec

\* A Relay way that a call may follow never leads to code of another function,
\* nor to code its Vault no longer owns, for any number of functions, call
\* sites and slots, whatever the tiers, the evictions and the recycling of
\* bytecode do in between (turbojs_spool_try_invoke, relay_call_ic.c).
THEOREM RelayNeverDangles == Spec => []RelayHitSound
<1>1. Inv => RelayHitSound
  <2> SUFFICES ASSUME Inv, NEW w \in Ways, NEW k \in Keys,
                      w.kind \in Kinds, fn[k].alive, fn[k].id = w.id
               PROVE  LET h == vault[w.kind].handle[k] IN
                      /\ w.gen <= h.generation
                      /\ w.gen = h.generation =>
                           h.function \in EntryOf(vault[w.kind], k) /\ h.kind = w.kind
    BY Zenon DEF RelayHitSound
  <2>1. GoodRuntime(Runtime) /\ GoodTable(Runtime, relay)
    BY DEF Inv, Good
  <2>2. GoodWay(Runtime, w)
    BY <2>1, Zenon DEF Ways, GoodTable, GoodRelay
  <2>3. Runtime.fn = fn /\ Runtime.vault = vault
    BY DEF Runtime
  <2> QED BY <2>1, <2>2, <2>3, WaySound, ZenonT(60)
<1> QED BY <1>1, SpoolInvariant, PTL

\* No entry of either Vault outlives its bytecode, so a new function at a
\* recycled address cannot hit it (free_function_bytecode).
THEOREM NoEntryOutlivesItsBytecode == Spec => []EntriesOfLiveBytecode
<1>1. Inv => EntriesOfLiveBytecode
  <2> SUFFICES ASSUME Inv, NEW m \in Kinds, NEW f \in vault[m].live
               PROVE  fn[vault[m].entry[f].key].alive
    BY Zenon DEF EntriesOfLiveBytecode
  <2>1. GoodRuntime(Runtime) /\ Runtime.fn = fn /\ Runtime.vault = vault
    BY Zenon DEF Inv, Good, Runtime
  <2>2. vault[m].entry[f].key \in Keys /\ vault[m].entry[f].cont = Null
    BY <2>1, ZenonT(60) DEF GoodRuntime, OwnEntries
  <2>3. f \in EntryOf(vault[m], vault[m].entry[f].key)
    BY <2>2 DEF EntryOf
  <2>4. GoodFunction(Runtime, vault[m].entry[f].key, m)
    BY <2>1, <2>2, Zenon DEF GoodRuntime
  <2>5. EntryOf(vault[m], vault[m].entry[f].key) # {}
    BY <2>3, ZenonT(60)
  <2> QED BY <2>1, <2>4, <2>5, ZenonT(60) DEF GoodFunction
<1> QED BY <1>1, SpoolInvariant, PTL

\* The bookkeeping of functions, sites and feedback is well formed: identities
\* stay below the counter, a reserved mode had its attempt, and the two ways of
\* a site name different functions.
THEOREM SpoolConsistent == Spec => []Consistent
<1>1. Inv => Consistent
  <2> SUFFICES ASSUME Inv PROVE Consistent
    OBVIOUS
  <2>1. /\ GoodRuntime(Runtime) /\ GoodTable(Runtime, relay)
        /\ GoodFeedback(nextId, fb) /\ budget \in 0..Budget
        /\ Runtime.fn = fn /\ Runtime.vault = vault /\ Runtime.nextId = nextId
    BY DEF Inv, Good, Runtime
  <2>2. /\ fn \in [Keys -> FunctionRecords] /\ vault \in [Kinds -> Vaults]
        /\ nextId \in Nat /\ \A k \in Keys : fn[k].id <= nextId
    BY <2>1 DEF GoodRuntime, Runtimes
  <2>3. fn \in [Keys -> [alive: BOOLEAN, id: 0..nextId, reserved: Kinds \cup {Null},
                         count: [Kinds -> 0..Threshold], attempted: SUBSET Kinds,
                         calls: 0..RegionThreshold, region: BOOLEAN,
                         leaf: {"unknown", "plan", "none"}]]
    <3>1. ASSUME NEW k \in Keys PROVE fn[k].id \in 0..nextId
      <4>1. fn[k].id \in Nat
        BY <2>2 DEF FunctionRecords
      <4> QED BY <2>2, <4>1
    <3> QED BY <2>2, <3>1, ZenonT(60) DEF FunctionRecords
  <2>4. \A m \in Kinds : vault[m] \in Vaults /\ DeadBlank(vault[m]) /\ Signed(vault[m])
    BY <2>1, Zenon DEF GoodRuntime, GoodVault
  <2>5. fb \in [Slots -> [off: CallSites \cup {Null}, targets: SUBSET (1..nextId),
                          mega: BOOLEAN]]
    BY <2>1, Zenon DEF GoodFeedback, FeedbackRecords
  <2>6. Ways \subseteq [kind: Kinds \cup {"empty", "leaf", "disabled"},
                        id: 0..nextId, gen: Nat]
    <3> SUFFICES ASSUME NEW w \in Ways
                 PROVE  w \in [kind: Kinds \cup {"empty", "leaf", "disabled"},
                               id: 0..nextId, gen: Nat]
      BY Zenon
    <3>1. PICK x \in Slots : w \in {relay[x].primary, relay[x].secondary}
      BY Zenon DEF Ways
    <3>2. GoodRelay(Runtime, relay[x])
      BY <2>1, Zenon DEF GoodTable
    <3>3. w \in WayRecords /\ w.id <= nextId
      BY <2>1, <3>1, <3>2, ZenonT(60) DEF GoodRelay, RelayRecords, GoodWay
    <3>4. w.id \in 0..nextId
      BY <2>2, <3>3 DEF WayRecords
    <3> QED BY <3>3, <3>4, ZenonT(60) DEF WayRecords
  <2>7. ReservedWasCompiled
    BY <2>1, Zenon DEF ReservedWasCompiled, GoodRuntime, GoodFunction
  <2>8. RelayWaysDistinct
    BY <2>1, Zenon DEF RelayWaysDistinct, GoodTable, GoodRelay
  <2> QED BY <2>1, <2>2, <2>3, <2>4, <2>5, <2>6, <2>7, <2>8, ZenonT(60) DEF Consistent, TypeOK
<1> QED BY <1>1, SpoolInvariant, PTL

\* A function is compiled again in a mode only after code of it in that mode
\* completed a call, however evictions, clears and recycling interleave with
\* the calls (try_execute_jit, jit_attempted and jit_reserved).
THEOREM NoFutileRecompilation == Spec => OneAttempt
<1>1. Inv /\ [Next]_vars =>
        [\A k \in Keys, m \in Kinds :
           /\ fn[k].alive /\ m \in fn[k].attempted
           /\ EntryOf(vault[m], k) = {} /\ EntryOf(vault'[m], k) # {}
           => fn[k].reserved = m]_vars
  <2>1. Runtime.fn = fn /\ Runtime.vault = vault /\ Runtime'.vault = vault'
    BY DEF Runtime
  <2> QED BY <2>1, NextInv, ZenonT(60) DEF OneTry
<1> QED BY <1>1, SpoolInvariant, PTL DEF Spec, OneAttempt

=============================================================================
