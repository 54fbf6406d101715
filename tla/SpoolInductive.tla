--------------------------- MODULE SpoolInductive ---------------------------
(*****************************************************************************)
(* What makes the invariant of the call path inductive.                      *)
(*                                                                           *)
(* The operations of one call act on a runtime record, so the argument has   *)
(* two layers: each operation keeps the record good (GoodRuntime) and only   *)
(* moves it forward (Later), and a Relay way that is good stays good when    *)
(* the runtime moves forward.                                                *)
(*****************************************************************************)
EXTENDS Spool, VaultOpsProofs

FunctionRecords ==
  [alive: BOOLEAN, id: Nat, reserved: Kinds \cup {Null},
   count: [Kinds -> 0..Threshold], attempted: SUBSET Kinds,
   calls: 0..RegionThreshold, region: BOOLEAN, leaf: {"unknown", "plan", "none"}]

Runtimes == [fn: [Keys -> FunctionRecords], vault: [Kinds -> Vaults], nextId: Nat]

WayRecords ==
  [kind: Kinds \cup {"empty", "leaf", "disabled"}, id: Nat, gen: Nat]

RelayRecords ==
  [off: CallSites \cup {Null}, primary: WayRecords, secondary: WayRecords]

FeedbackRecords ==
  [off: CallSites \cup {Null}, targets: SUBSET Nat, mega: BOOLEAN]

\* What holds of bytecode k and its entries in the Vault of mode m.
GoodFunction(r, k, m) ==
  /\ EntryOf(r.vault[m], k) # {} =>
       r.fn[k].alive /\ m \in r.fn[k].attempted /\ k \in Compilable[m]
  /\ r.fn[k].reserved = m => m \in r.fn[k].attempted /\ k \in Compilable[m]
  /\ r.vault[m].handle[k].function # Null => r.fn[k].id # 0

GoodRuntime(r) ==
  /\ r \in Runtimes
  /\ \A m \in Kinds : GoodVault(r.vault[m]) /\ OwnEntries(r.vault[m], m)
  /\ \A k \in Keys : r.fn[k].id <= r.nextId
  /\ \A j, k \in Keys : j # k /\ r.fn[j].id # 0 => r.fn[j].id # r.fn[k].id
  /\ \A k \in Keys, m \in Kinds : GoodFunction(r, k, m)

\* No identity of r names another function in q, and the generations of the
\* handles advance.
Later(r, q) ==
  /\ q.nextId >= r.nextId
  /\ \A k \in Keys : q.fn[k].id = r.fn[k].id \/ q.fn[k].id > r.nextId
  /\ \A m \in Kinds : Advances(r.vault[m], q.vault[m])

\* Code appears in q only where r had an attempt left or had run natively.
OneTry(r, q) ==
  \A k \in Keys, m \in Kinds :
    /\ m \in r.fn[k].attempted
    /\ EntryOf(r.vault[m], k) = {} /\ EntryOf(q.vault[m], k) # {}
    => r.fn[k].reserved = m

\* A way names an identity that was handed out.  If it holds native code, then
\* whoever has that identity now has a handle whose generation is not behind
\* the way's, and that is published while the two are equal.
GoodWay(r, w) ==
  /\ w.id <= r.nextId
  /\ w.kind \in Kinds =>
       /\ w.id # 0
       /\ \A k \in Keys : r.fn[k].id = w.id =>
            /\ w.gen <= r.vault[w.kind].handle[k].generation
            /\ w.gen = r.vault[w.kind].handle[k].generation =>
                 r.vault[w.kind].handle[k].function # Null

GoodRelay(r, e) ==
  /\ e \in RelayRecords
  /\ GoodWay(r, e.primary) /\ GoodWay(r, e.secondary)
  /\ e.primary.kind = "empty" => e.secondary.kind = "empty"
  /\ Usable(e) /\ e.secondary.kind # "empty" => e.primary.id # e.secondary.id

GoodTable(r, t) == t \in [Slots -> RelayRecords] /\ \A x \in Slots : GoodRelay(r, t[x])

GoodFeedback(n, t) ==
  t \in [Slots -> FeedbackRecords] /\ \A x \in Slots : t[x].targets \subseteq 1..n

Good(r, t, f, b) ==
  /\ GoodRuntime(r) /\ GoodTable(r, t) /\ GoodFeedback(r.nextId, f)
  /\ b \in 0..Budget

\* The inductive invariant.
Inv == Good(Runtime, relay, fb, budget)

=============================================================================
