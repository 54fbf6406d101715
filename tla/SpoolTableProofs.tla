-------------------------- MODULE SpoolTableProofs --------------------------
(*****************************************************************************)
(* The tables of the caller, and bytecode that comes and goes: the Relay ways and*)
(* the call feedback stay good while functions are freed and their addresses reused,*)
(* Vaults are cleared and callers replaced.                                  *)
(*****************************************************************************)
EXTENDS SpoolInductive

-----------------------------------------------------------------------------
(* The tables as the runtime moves forward *)

LEMMA WayLater ==
  ASSUME NEW r, GoodRuntime(r), NEW q, GoodRuntime(q), Later(r, q),
         NEW w \in WayRecords, GoodWay(r, w)
  PROVE  GoodWay(q, w)
<1>1. /\ w.id \in Nat /\ w.gen \in Nat /\ r.nextId \in Nat /\ q.nextId \in Nat
      /\ w.id <= r.nextId /\ q.nextId >= r.nextId
  BY DEF WayRecords, GoodRuntime, Runtimes, GoodWay, Later
<1>2. w.id <= q.nextId
  BY <1>1, SMTT(60)
<1>3. ASSUME w.kind \in Kinds, NEW k \in Keys, q.fn[k].id = w.id
      PROVE  /\ w.gen <= q.vault[w.kind].handle[k].generation
             /\ w.gen = q.vault[w.kind].handle[k].generation =>
                  q.vault[w.kind].handle[k].function # Null
  <2> DEFINE h == r.vault[w.kind].handle[k]
             g == q.vault[w.kind].handle[k]
  <2>1. r.fn[k].id = w.id
    <3>1. q.fn[k].id = r.fn[k].id \/ q.fn[k].id > r.nextId
      BY DEF Later
    <3> QED BY <1>1, <1>3, <3>1
  <2>2. w.gen <= h.generation /\ (w.gen = h.generation => h.function # Null)
    BY <1>3, <2>1, ZenonT(60) DEF GoodWay
  <2>3. /\ r.vault[w.kind] \in Vaults /\ q.vault[w.kind] \in Vaults
        /\ k \in Handles
    BY <1>3, SpoolAssumption, SMTT(60) DEF GoodRuntime, GoodVault
  <2>4. h.generation \in Nat /\ g.generation \in Nat
    BY <2>3 DEF Vaults, HandleRecords
  <2>5. g.generation >= h.generation /\ (g.generation = h.generation => g = h)
    BY <1>3, <2>3, Zenon DEF Later, Advances
  <2> HIDE DEF g, h
  <2>6. w.gen <= g.generation /\ (w.gen = g.generation => g.function # Null)
    BY <1>1, <2>2, <2>4, <2>5
  <2> QED BY <2>6 DEF g
<1>4. w.kind \in Kinds => w.id # 0
  BY DEF GoodWay
<1> QED BY <1>2, <1>3, <1>4, ZenonT(60) DEF GoodWay

LEMMA TableLater ==
  ASSUME NEW r, GoodRuntime(r), NEW q, GoodRuntime(q), Later(r, q),
         NEW t, GoodTable(r, t)
  PROVE  GoodTable(q, t)
<1>1. ASSUME NEW x \in Slots PROVE GoodRelay(q, t[x])
  <2>1. GoodRelay(r, t[x])
    BY DEF GoodTable
  <2>2. t[x].primary \in WayRecords /\ t[x].secondary \in WayRecords
    BY <2>1 DEF GoodRelay, RelayRecords
  <2>3. GoodWay(q, t[x].primary) /\ GoodWay(q, t[x].secondary)
    BY <2>1, <2>2, WayLater, Zenon DEF GoodRelay
  <2> QED BY <2>1, <2>3, Zenon DEF GoodRelay
<1> QED BY <1>1 DEF GoodTable

LEMMA FeedbackLater ==
  ASSUME NEW n \in Nat, NEW i \in Nat, n <= i, NEW t, GoodFeedback(n, t)
  PROVE  GoodFeedback(i, t)
<1>1. 1..n \subseteq 1..i
  OBVIOUS
<1> QED BY <1>1 DEF GoodFeedback

LEMMA GoodLater ==
  ASSUME NEW r, NEW t, NEW f, NEW b, Good(r, t, f, b), NEW q, GoodRuntime(q), Later(r, q)
  PROVE  Good(q, t, f, b)
<1>1. r.nextId \in Nat /\ q.nextId \in Nat /\ r.nextId <= q.nextId
  BY DEF Good, GoodRuntime, Runtimes, Later
<1>2. GoodTable(q, t)
  BY TableLater, Zenon DEF Good
<1>3. GoodFeedback(q.nextId, f)
  BY <1>1, FeedbackLater, Zenon DEF Good
<1> QED BY <1>2, <1>3, Zenon DEF Good

-----------------------------------------------------------------------------
(* What a call installs *)

LEMMA KindNames == "empty" \notin Kinds /\ "leaf" \notin Kinds /\ "disabled" \notin Kinds
<1>1. Kinds \cap {"empty", "leaf", "disabled"} = {}
  BY SpoolAssumption, Zenon
<1> QED BY <1>1, Zenon

LEMMA EmptyRelayGood ==
  ASSUME NEW r, GoodRuntime(r), NEW s \in CallSites
  PROVE  GoodRelay(r, [EmptyRelay EXCEPT !.off = s]) /\ GoodRelay(r, EmptyRelay)
<1> DEFINE e == [EmptyRelay EXCEPT !.off = s]
<1>1. /\ e.primary = EmptyWay /\ e.secondary = EmptyWay
      /\ EmptyRelay.primary = EmptyWay /\ EmptyRelay.secondary = EmptyWay
  BY Zenon DEF EmptyRelay
<1>2. EmptyWay \in WayRecords /\ EmptyWay.kind = "empty" /\ EmptyWay.id = 0
  BY DEF EmptyWay, WayRecords
<1>3. e \in RelayRecords /\ EmptyRelay \in RelayRecords
  BY <1>2, Zenon DEF RelayRecords, EmptyRelay
<1>4. 0 <= r.nextId
  BY DEF GoodRuntime, Runtimes
<1>5. GoodWay(r, EmptyWay)
  BY <1>2, <1>4, KindNames, Zenon DEF GoodWay
<1> HIDE DEF e
<1> QED BY <1>1, <1>2, <1>3, <1>5, Zenon DEF GoodRelay, e

LEMMA InstalledGood ==
  ASSUME NEW r, NEW e, GoodRelay(r, e),
         NEW w \in WayRecords, GoodWay(r, w), w.kind \notin {"empty", "disabled"}
  PROVE  GoodRelay(r, Installed(e, w))
<1> DEFINE p == [e EXCEPT !.primary = w]
           s == [e EXCEPT !.secondary = w]
           dp == [e.primary EXCEPT !.kind = "disabled", !.gen = 0]
           ds == [e.secondary EXCEPT !.kind = "empty", !.gen = 0]
           d == [e EXCEPT !.primary = dp, !.secondary = ds]
<1>1. /\ e \in RelayRecords /\ GoodWay(r, e.primary) /\ GoodWay(r, e.secondary)
      /\ e.primary \in WayRecords /\ e.secondary \in WayRecords
      /\ e.primary.kind = "empty" => e.secondary.kind = "empty"
      /\ Usable(e) /\ e.secondary.kind # "empty" => e.primary.id # e.secondary.id
  BY Zenon DEF GoodRelay, RelayRecords
<1>2. ASSUME e.primary.kind = "empty" PROVE GoodRelay(r, p)
  <2>1. p \in RelayRecords /\ p.primary = w /\ p.secondary = e.secondary
    BY <1>1, Zenon DEF RelayRecords
  <2> HIDE DEF p
  <2> QED BY <1>1, <1>2, <2>1, Zenon DEF GoodRelay
<1>3. ASSUME e.primary.kind # "empty", w.id # e.primary.id PROVE GoodRelay(r, s)
  <2>1. s \in RelayRecords /\ s.primary = e.primary /\ s.secondary = w
    BY <1>1, Zenon DEF RelayRecords
  <2> HIDE DEF s
  <2> QED BY <1>1, <1>3, <2>1, Zenon DEF GoodRelay
<1>4. GoodRelay(r, d)
  <2>1. /\ dp \in WayRecords /\ dp.kind = "disabled" /\ dp.id = e.primary.id
        /\ ds \in WayRecords /\ ds.kind = "empty" /\ ds.id = e.secondary.id
    BY <1>1, Zenon DEF WayRecords
  <2> HIDE DEF dp, ds
  <2>2. GoodWay(r, dp) /\ GoodWay(r, ds)
    BY <1>1, <2>1, KindNames, Zenon DEF GoodWay
  <2>3. d \in RelayRecords /\ d.primary = dp /\ d.secondary = ds
    BY <1>1, <2>1, Zenon DEF RelayRecords
  <2> HIDE DEF d
  <2> QED BY <2>1, <2>2, <2>3, Zenon DEF GoodRelay
<1>5. Disabled(e) = d
  <2>1. e.primary \in WayRecords
    BY <1>1
  <2> QED BY <1>1, Zenon DEF Disabled, RelayRecords, WayRecords
<1> HIDE DEF p, s, d
<1>6. Installed(e, w) = IF e.primary.kind = "disabled" THEN e
                        ELSE IF e.primary.kind = "empty" THEN p
                        ELSE IF w.id \in {e.primary.id, e.secondary.id} THEN e
                        ELSE IF e.secondary.kind = "empty" THEN s
                        ELSE Disabled(e)
  BY Zenon DEF Installed, p, s
<1> QED BY <1>2, <1>3, <1>4, <1>5, <1>6, Zenon

LEMMA RelayAtGood ==
  ASSUME NEW r, GoodRuntime(r), NEW t, GoodTable(r, t), NEW s \in CallSites
  PROVE  GoodRelay(r, RelayAt(t, s))
<1>1. SlotOf[s] \in Slots
  BY DEF Slots
<1>2. GoodRelay(r, t[SlotOf[s]])
  BY <1>1, Zenon DEF GoodTable
<1>3. GoodRelay(r, [EmptyRelay EXCEPT !.off = s])
  BY EmptyRelayGood
<1> QED BY <1>2, <1>3, Zenon DEF RelayAt

LEMMA TableSet ==
  ASSUME NEW r, NEW t, GoodTable(r, t), NEW s \in CallSites, NEW e, GoodRelay(r, e)
  PROVE  GoodTable(r, [t EXCEPT ![SlotOf[s]] = e])
<1> DEFINE u == [t EXCEPT ![SlotOf[s]] = e]
<1>1. SlotOf[s] \in Slots /\ e \in RelayRecords /\ t \in [Slots -> RelayRecords]
  BY DEF Slots, GoodTable, GoodRelay
<1>2. u \in [Slots -> RelayRecords]
  BY <1>1
<1>3. ASSUME NEW x \in Slots PROVE GoodRelay(r, u[x])
  <2>1. CASE x = SlotOf[s]
    BY <2>1, <1>1
  <2>2. CASE x # SlotOf[s]
    BY <2>2, <1>1 DEF GoodTable
  <2> QED BY <2>1, <2>2
<1> QED BY <1>2, <1>3, Zenon DEF GoodTable

LEMMA TableInstalled ==
  ASSUME NEW r, GoodRuntime(r), NEW t, GoodTable(r, t), NEW s \in CallSites,
         NEW w \in WayRecords, GoodWay(r, w), w.kind \notin {"empty", "disabled"}
  PROVE  GoodTable(r, [t EXCEPT ![SlotOf[s]] = Installed(RelayAt(t, s), w)])
<1>1. GoodRelay(r, RelayAt(t, s))
  BY RelayAtGood, Zenon
<1>2. GoodRelay(r, Installed(RelayAt(t, s), w))
  BY <1>1, InstalledGood, Zenon
<1> QED BY <1>2, TableSet, Zenon

\* The way turbojs_relay_install_spool makes for a published handle of k.
LEMMA OwnWayGood ==
  ASSUME NEW r, GoodRuntime(r), NEW k \in Keys, NEW m \in Kinds,
         NEW h, h = r.vault[m].handle[k], h.function # Null
  PROVE  LET w == [kind |-> m, id |-> r.fn[k].id, gen |-> h.generation] IN
         w \in WayRecords /\ GoodWay(r, w) /\ w.kind \notin {"empty", "disabled"}
<1> DEFINE i == r.fn[k].id
           w == [kind |-> m, id |-> i, gen |-> h.generation]
<1>1. k \in Handles
  BY SpoolAssumption
<1>2. i \in Nat /\ i <= r.nextId /\ r.vault[m] \in Vaults /\ GoodFunction(r, k, m)
  <2>1. r.fn[k] \in FunctionRecords
    BY DEF GoodRuntime, Runtimes
  <2>2. i \in Nat
    BY <2>1 DEF FunctionRecords
  <2>3. i <= r.nextId /\ r.vault[m] \in Vaults /\ GoodFunction(r, k, m)
    BY Zenon DEF GoodRuntime, GoodVault
  <2> QED BY <2>2, <2>3
<1>3. h.generation \in Nat
  BY <1>1, <1>2 DEF Vaults, HandleRecords
<1>4. i # 0
  BY <1>2, Zenon DEF GoodFunction
<1>5. \A j \in Keys : r.fn[j].id = i => j = k
  BY <1>4, Zenon DEF GoodRuntime
<1> HIDE DEF i
<1>6. w \in WayRecords /\ w.kind = m /\ w.id = i /\ w.gen = h.generation
  BY <1>2, <1>3, Zenon DEF WayRecords
<1>7. \A g \in Nat : g <= g
  OBVIOUS
<1> HIDE DEF w
<1>8. GoodWay(r, w)
  BY <1>2, <1>3, <1>4, <1>5, <1>6, <1>7, Zenon DEF GoodWay
<1>9. w.kind \notin {"empty", "disabled"}
  BY <1>6, KindNames, Zenon
<1> QED BY <1>6, <1>8, <1>9, Zenon DEF w, i

LEMMA SpoolInstalledGood ==
  ASSUME NEW r, GoodRuntime(r), NEW t, GoodTable(r, t), NEW s \in CallSites,
         NEW k \in Keys, NEW f
  PROVE  GoodTable(r, SpoolInstalled(t, f, r, k, s))
<1> DEFINE m == r.fn[k].reserved
           h == r.vault[m].handle[k]
           w == [kind |-> m, id |-> r.fn[k].id, gen |-> h.generation]
           u == [t EXCEPT ![SlotOf[s]] = Installed(RelayAt(t, s), w)]
<1>1. SpoolInstalled(t, f, r, k, s) = t \/ (m # Null /\ h.function # Null /\ SpoolInstalled(t, f, r, k, s) = u)
  BY Zenon DEF SpoolInstalled
<1>2. ASSUME m # Null, h.function # Null PROVE GoodTable(r, u)
  <2>1. r.fn[k].reserved \in Kinds \cup {Null}
    BY Zenon DEF GoodRuntime, Runtimes, FunctionRecords
  <2>2. m \in Kinds
    BY <1>2, <2>1, Zenon
  <2> HIDE DEF m
  <2>3. w \in WayRecords /\ GoodWay(r, w) /\ w.kind \notin {"empty", "disabled"}
    BY <1>2, <2>2, OwnWayGood, ZenonT(60)
  <2> HIDE DEF w
  <2> QED BY <2>3, TableInstalled, Zenon
<1> QED BY <1>1, <1>2, Zenon

LEMMA ObservedGood ==
  ASSUME NEW n \in Nat, NEW t, GoodFeedback(n, t), NEW s \in CallSites, NEW i \in 1..n
  PROVE  GoodFeedback(n, Observed(t, s, i))
<1> DEFINE e == FeedbackAt(t, s)
           T == e.targets \cup {i}
           a == [e EXCEPT !.targets = T]
           b == [e EXCEPT !.mega = TRUE]
<1>1. SlotOf[s] \in Slots /\ t \in [Slots -> FeedbackRecords]
  BY DEF Slots, GoodFeedback
<1>2. e \in FeedbackRecords /\ e.targets \subseteq 1..n
  <2>1. t[SlotOf[s]] \in FeedbackRecords /\ t[SlotOf[s]].targets \subseteq 1..n
    BY <1>1 DEF GoodFeedback
  <2> DEFINE z == [EmptyFeedback EXCEPT !.off = s]
  <2>2. z \in FeedbackRecords /\ z.targets = {}
    BY Zenon DEF FeedbackRecords, EmptyFeedback
  <2>3. e = t[SlotOf[s]] \/ e = z
    BY Zenon DEF FeedbackAt
  <2> HIDE DEF e, z
  <2> QED BY <2>1, <2>2, <2>3
<1> HIDE DEF e
<1>3. T \in SUBSET Nat /\ T \subseteq 1..n
  BY <1>2
<1> HIDE DEF T
<1>4. /\ a \in FeedbackRecords /\ a.targets = T
      /\ b \in FeedbackRecords /\ b.targets = e.targets
  BY <1>2, <1>3, Zenon DEF FeedbackRecords
<1> HIDE DEF a, b
<1> DEFINE g == IF i \in e.targets \/ e.mega THEN e
                ELSE IF Cardinality(e.targets) < MaxTargets THEN a ELSE b
<1>5. Observed(t, s, i) = [t EXCEPT ![SlotOf[s]] = g]
  BY Zenon DEF Observed, e, a, b, T
<1>6. g \in FeedbackRecords /\ g.targets \subseteq 1..n
  BY <1>2, <1>3, <1>4, Zenon
<1> HIDE DEF g
<1>7. \A x \in Slots : [t EXCEPT ![SlotOf[s]] = g][x] \in {g, t[x]}
  BY <1>1
<1>8. [t EXCEPT ![SlotOf[s]] = g] \in [Slots -> FeedbackRecords]
  BY <1>1, <1>6, SMTT(60)
<1> QED BY <1>5, <1>6, <1>7, <1>8 DEF GoodFeedback

-----------------------------------------------------------------------------
(* Bytecode and Vaults *)

\* A published handle belongs to the entry of its own bytecode.
LEMMA HandleOwner ==
  ASSUME NEW m \in Kinds, NEW v, GoodVault(v), OwnEntries(v, m), NEW k \in Keys,
         v.handle[k].function # Null
  PROVE  v.handle[k].function \in EntryOf(v, k) /\ v.handle[k].kind = m
<1> DEFINE f == v.handle[k].function
<1>1. k \in Handles /\ k # Null
  BY SpoolAssumption, NullAssumption
<1>2. f \in v.live /\ v.entry[f].cont = Null /\ v.entry[f].handle = k
  BY <1>1, Zenon DEF GoodVault, HandleOwned
<1>3. v.entry[f].handle \in {Null, v.entry[f].key}
  BY <1>2, ZenonT(60) DEF OwnEntries
<1>4. v.entry[f].key = k
  BY <1>1, <1>2, <1>3
<1>5. v.handle[k].kind = m
  BY Zenon DEF OwnEntries
<1> QED BY <1>2, <1>4, <1>5 DEF EntryOf

\* A good way leads to code of the very function it names.
LEMMA WaySound ==
  ASSUME NEW r, GoodRuntime(r), NEW m \in Kinds, NEW w, w.kind = m, GoodWay(r, w),
         NEW k \in Keys, r.fn[k].id = w.id
  PROVE  /\ w.gen <= r.vault[m].handle[k].generation
         /\ w.gen = r.vault[m].handle[k].generation =>
              /\ r.vault[m].handle[k].function \in EntryOf(r.vault[m], k)
              /\ r.vault[m].handle[k].kind = m
<1>1. /\ w.gen <= r.vault[m].handle[k].generation
      /\ w.gen = r.vault[m].handle[k].generation => r.vault[m].handle[k].function # Null
  BY Zenon DEF GoodWay
<1>2. GoodVault(r.vault[m]) /\ OwnEntries(r.vault[m], m)
  BY Zenon DEF GoodRuntime
<1> QED BY <1>1, <1>2, HandleOwner, Zenon

\* From v to w, a Vault of mode m from which everything of bytecode k is gone.
Forgotten(v, w, k, m) ==
  /\ GoodVault(w) /\ OwnEntries(w, m)
  /\ EntryOf(w, k) = {}
  /\ w.handle[k].function = Null
  /\ \A j \in Keys \ {k} :
       /\ EntryOf(w, j) \subseteq EntryOf(v, j)
       /\ w.handle[j].function # Null => v.handle[j].function # Null
       /\ w.handle[j].generation >= v.handle[j].generation
       /\ w.handle[j].generation = v.handle[j].generation => w.handle[j] = v.handle[j]

\* From v to w, a Vault of mode m that only lost entries.
Shrunk(v, w, m) ==
  /\ GoodVault(w) /\ OwnEntries(w, m) /\ Advances(v, w)
  /\ \A j \in Keys :
       /\ EntryOf(w, j) \subseteq EntryOf(v, j)
       /\ w.handle[j].function # Null => v.handle[j].function # Null

\* Bytecode k comes or goes, and nothing of it is left in the Vaults.
LEMMA ForgetGood ==
  ASSUME NEW r, GoodRuntime(r), NEW k \in Keys, NEW q \in Runtimes,
         q.nextId = r.nextId, q.fn[k].id = 0, q.fn[k].reserved = Null,
         \A j \in Keys \ {k} : q.fn[j] = r.fn[j],
         \A m \in Kinds : Forgotten(r.vault[m], q.vault[m], k, m),
         NEW t, GoodTable(r, t)
  PROVE  GoodRuntime(q) /\ GoodTable(q, t) /\ OneTry(r, q)
<1>0. ASSUME NEW m \in Kinds
      PROVE  /\ GoodVault(q.vault[m]) /\ OwnEntries(q.vault[m], m)
             /\ EntryOf(q.vault[m], k) = {}
             /\ q.vault[m].handle[k].function = Null
             /\ \A j \in Keys \ {k} :
                  /\ EntryOf(q.vault[m], j) \subseteq EntryOf(r.vault[m], j)
                  /\ q.vault[m].handle[j].function # Null =>
                       r.vault[m].handle[j].function # Null
                  /\ q.vault[m].handle[j].generation >= r.vault[m].handle[j].generation
                  /\ q.vault[m].handle[j].generation = r.vault[m].handle[j].generation =>
                       q.vault[m].handle[j] = r.vault[m].handle[j]
  BY Zenon DEF Forgotten
<1>1. ASSUME NEW j \in Keys PROVE q.fn[j].id = 0 \/ (j # k /\ q.fn[j] = r.fn[j])
  BY Zenon
<1>2. ASSUME NEW j \in Keys PROVE q.fn[j].id <= q.nextId
  <2>1. r.fn[j].id <= r.nextId /\ 0 <= r.nextId
    BY DEF GoodRuntime, Runtimes
  <2> QED BY <1>1, <2>1, Zenon
<1>3. ASSUME NEW i \in Keys, NEW j \in Keys, i # j, q.fn[i].id # 0
      PROVE  q.fn[i].id # q.fn[j].id
  <2>1. q.fn[i] = r.fn[i] /\ r.fn[i].id # 0
    BY <1>1, <1>3
  <2>2. r.fn[i].id # r.fn[j].id
    BY <1>3, <2>1, Zenon DEF GoodRuntime
  <2> QED BY <1>1, <1>3, <2>1, <2>2, Zenon
<1>4. ASSUME NEW j \in Keys, NEW m \in Kinds PROVE GoodFunction(q, j, m)
  <2>1. CASE j = k
    <3>1. m # Null
      BY NullAssumption, SMTT(60)
    <3> QED BY <1>0, <2>1, <3>1, Zenon DEF GoodFunction
  <2>2. CASE j # k
    <3>1. GoodFunction(r, j, m) /\ q.fn[j] = r.fn[j]
      BY <2>2, Zenon DEF GoodRuntime
    <3>2. /\ EntryOf(q.vault[m], j) \subseteq EntryOf(r.vault[m], j)
          /\ q.vault[m].handle[j].function # Null => r.vault[m].handle[j].function # Null
      BY <1>0, <2>2, ZenonT(60)
    <3> QED BY <3>1, <3>2 DEF GoodFunction
  <2> QED BY <2>1, <2>2
<1>5. GoodRuntime(q)
  BY <1>0, <1>2, <1>3, <1>4, Zenon DEF GoodRuntime
<1>6. ASSUME NEW w \in WayRecords, GoodWay(r, w) PROVE GoodWay(q, w)
  <2>1. w.id <= q.nextId /\ (w.kind \in Kinds => w.id # 0)
    BY <1>6, ZenonT(60) DEF GoodWay
  <2>2. ASSUME w.kind \in Kinds, NEW j \in Keys, q.fn[j].id = w.id
        PROVE  /\ w.gen <= q.vault[w.kind].handle[j].generation
               /\ w.gen = q.vault[w.kind].handle[j].generation =>
                    q.vault[w.kind].handle[j].function # Null
    <3> DEFINE h == r.vault[w.kind].handle[j]
               g == q.vault[w.kind].handle[j]
    <3>1. j # k /\ r.fn[j].id = w.id
      BY <1>1, <2>1, <2>2, Zenon
    <3>2. w.gen <= h.generation /\ (w.gen = h.generation => h.function # Null)
      BY <1>6, <2>2, <3>1, ZenonT(60) DEF GoodWay
    <3>3. r.vault[w.kind] \in Vaults /\ q.vault[w.kind] \in Vaults /\ j \in Handles
      BY <1>5, <2>2, SpoolAssumption, SMTT(60) DEF GoodRuntime, GoodVault
    <3>4. h.generation \in Nat /\ g.generation \in Nat /\ w.gen \in Nat
      BY <3>3 DEF Vaults, HandleRecords, WayRecords
    <3>5. g.generation >= h.generation /\ (g.generation = h.generation => g = h)
      BY <1>0, <2>2, <3>1, ZenonT(60)
    <3> HIDE DEF g, h
    <3>6. w.gen <= g.generation /\ (w.gen = g.generation => g.function # Null)
      BY <3>2, <3>4, <3>5
    <3> QED BY <3>6 DEF g
  <2> QED BY <2>1, <2>2, Zenon DEF GoodWay
<1>7. ASSUME NEW x \in Slots PROVE GoodRelay(q, t[x])
  <2>1. GoodRelay(r, t[x])
    BY DEF GoodTable
  <2>2. t[x].primary \in WayRecords /\ t[x].secondary \in WayRecords
    BY <2>1 DEF GoodRelay, RelayRecords
  <2> QED BY <2>1, <2>2, <1>6, Zenon DEF GoodRelay
<1>8. OneTry(r, q)
  BY <1>0, Zenon DEF OneTry
<1> QED BY <1>5, <1>7, <1>8, Zenon DEF GoodTable

\* Entries leave the Vaults and handles are retired; nothing else changes.
LEMMA ShrinkGood ==
  ASSUME NEW r, GoodRuntime(r), NEW q \in Runtimes,
         q.fn = r.fn, q.nextId = r.nextId,
         \A m \in Kinds : Shrunk(r.vault[m], q.vault[m], m)
  PROVE  GoodRuntime(q) /\ Later(r, q) /\ OneTry(r, q)
<1>0. ASSUME NEW m \in Kinds
      PROVE  /\ GoodVault(q.vault[m]) /\ OwnEntries(q.vault[m], m)
             /\ Advances(r.vault[m], q.vault[m])
             /\ \A j \in Keys :
                  /\ EntryOf(q.vault[m], j) \subseteq EntryOf(r.vault[m], j)
                  /\ q.vault[m].handle[j].function # Null =>
                       r.vault[m].handle[j].function # Null
  BY Zenon DEF Shrunk
<1>1. ASSUME NEW j \in Keys, NEW m \in Kinds PROVE GoodFunction(q, j, m)
  <2>1. GoodFunction(r, j, m)
    BY Zenon DEF GoodRuntime
  <2>2. EntryOf(q.vault[m], j) # {} => EntryOf(r.vault[m], j) # {}
    BY <1>0
  <2> QED BY <1>0, <2>1, <2>2, Zenon DEF GoodFunction
<1>2. GoodRuntime(q)
  BY <1>0, <1>1, Zenon DEF GoodRuntime
<1>3. q.nextId >= r.nextId
  BY DEF GoodRuntime, Runtimes
<1>4. Later(r, q)
  BY <1>0, <1>3, Zenon DEF Later
<1>5. OneTry(r, q)
  BY <1>0, Zenon DEF OneTry
<1> QED BY <1>2, <1>4, <1>5

LEMMA ResetGood ==
  ASSUME NEW m \in Kinds, NEW v, GoodVault(v), OwnEntries(v, m), NEW k \in Keys,
         v.handle[k].function = Null
  PROVE  LET w == [v EXCEPT !.handle[k] = HandleInit] IN
         /\ w \in Vaults /\ GoodVault(w) /\ OwnEntries(w, m)
         /\ w.handle[k].function = Null
         /\ \A j \in Keys : EntryOf(w, j) = EntryOf(v, j)
         /\ \A j \in Keys \ {k} : w.handle[j] = v.handle[j]
<1> DEFINE w == [v EXCEPT !.handle[k] = HandleInit]
<1>1. v \in Vaults /\ Handles = Keys
  BY SpoolAssumption DEF GoodVault
<1>2. HandleInit \in HandleRecords /\ HandleInit.function = Null
  BY DEF HandleInit, HandleRecords
<1>3. /\ w.live = v.live /\ w.entry = v.entry
      /\ w.lastKey = v.lastKey /\ w.lastFunction = v.lastFunction
      /\ w.handle = [v.handle EXCEPT ![k] = HandleInit]
  BY <1>1, Zenon DEF Vaults
<1>4. w \in Vaults
  BY <1>1, <1>2, <1>3, Zenon DEF Vaults
<1> HIDE DEF w
<1>5. v.handle \in [Handles -> HandleRecords]
  BY <1>1 DEF Vaults
<1>6. /\ w.handle[k] = HandleInit
      /\ \A j \in Handles \ {k} : w.handle[j] = v.handle[j]
  BY <1>1, <1>3, <1>5
<1>7. \A j \in Keys : EntryOf(w, j) = EntryOf(v, j)
  BY <1>3 DEF EntryOf
<1>8. \A j \in Handles : w.handle[j].function # Null => w.handle[j] = v.handle[j]
  BY <1>2, <1>6
<1>9. OwnEntries(w, m)
  <2>1. \A j \in Keys : w.handle[j].function # Null => w.handle[j].kind = m
    BY <1>1, <1>8, ZenonT(60) DEF OwnEntries
  <2>2. \A f \in w.live : /\ w.entry[f].cont = Null
                          /\ w.entry[f].key \in Keys
                          /\ w.entry[f].handle \in {Null, w.entry[f].key}
                          /\ w.entry[f].sites = {}
    BY <1>3, SMTT(30) DEF OwnEntries
  <2> QED BY <2>1, <2>2, Zenon DEF OwnEntries
<1>10. DeadBlank(w) /\ LastSound(w)
  BY <1>3, Zenon DEF GoodVault, DeadBlank, LastSound
<1>11. Signed(w) /\ HandleOwned(w)
  <2>1. Signed(v) /\ HandleOwned(v)
    BY DEF GoodVault
  <2>2. Signed(w)
    BY <1>8, <2>1, Zenon DEF Signed
  <2>3. ASSUME NEW h \in Handles, w.handle[h].function # Null
        PROVE  /\ w.handle[h].function \in w.live
               /\ w.entry[w.handle[h].function].cont = Null
               /\ w.entry[w.handle[h].function].handle = h
    <3>1. w.handle[h] = v.handle[h]
      BY <1>8, <2>3, ZenonT(60)
    <3> QED BY <1>3, <2>1, <2>3, <3>1, Zenon DEF HandleOwned
  <2> QED BY <2>2, <2>3, Zenon DEF HandleOwned
<1>12. SitesSound(w)
  BY <1>9 DEF OwnEntries, SitesSound
<1>13. GoodVault(w)
  BY <1>4, <1>10, <1>11, <1>12 DEF GoodVault
<1> QED BY <1>1, <1>2, <1>4, <1>6, <1>7, <1>9, <1>13, ZenonT(60) DEF w

LEMMA ClearedGood ==
  ASSUME NEW m \in Kinds, NEW v, GoodVault(v), OwnEntries(v, m)
  PROVE  LET w == [RemoveAll(v, v.live) EXCEPT !.lastKey = Null, !.lastFunction = Null] IN
         /\ w \in Vaults /\ GoodVault(w) /\ OwnEntries(w, m) /\ Advances(v, w)
         /\ \A j \in Keys :
              /\ EntryOf(w, j) \subseteq EntryOf(v, j)
              /\ w.handle[j].function # Null => v.handle[j].function # Null
<1> DEFINE u == RemoveAll(v, v.live)
           w == [u EXCEPT !.lastKey = Null, !.lastFunction = Null]
<1>1. v.live \in SUBSET Functions
  BY SMTT(60) DEF GoodVault, Vaults
<1>2. /\ u \in Vaults /\ GoodVault(u) /\ OwnEntries(u, m) /\ Advances(v, u)
      /\ u.live = v.live \ v.live
      /\ \A j \in Keys :
           /\ EntryOf(u, j) = EntryOf(v, j) \ v.live
           /\ u.handle[j].function # Null => v.handle[j].function # Null
  BY <1>1, SpoolAssumption, RemoveAllStep, SMTT(30)
<1> HIDE DEF u
<1>3. /\ w.live = u.live /\ w.entry = u.entry /\ w.handle = u.handle
      /\ w.lastKey = Null /\ w.lastFunction = Null
  BY <1>2, Zenon DEF Vaults
<1>4. w \in Vaults
  BY <1>2, Zenon DEF Vaults
<1> HIDE DEF w
<1>5. OwnEntries(w, m)
  BY <1>2, <1>3, Zenon DEF OwnEntries
<1>6. DeadBlank(w) /\ Signed(w) /\ HandleOwned(w)
  BY <1>2, <1>3, ZenonT(60) DEF GoodVault, DeadBlank, Signed, HandleOwned
<1>7. LastSound(w)
  BY <1>3 DEF LastSound
<1>8. SitesSound(w)
  BY <1>5 DEF OwnEntries, SitesSound
<1>9. GoodVault(w)
  BY <1>4, <1>6, <1>7, <1>8 DEF GoodVault
<1>10. Advances(v, w)
  BY <1>2, <1>3, ZenonT(60) DEF Advances
<1>11. \A j \in Keys : EntryOf(w, j) \subseteq EntryOf(v, j)
  BY <1>2, <1>3 DEF EntryOf
<1> QED BY <1>2, <1>3, <1>4, <1>5, <1>9, <1>10, <1>11, ZenonT(60) DEF w, u

LEMMA DeadType == Dead \in FunctionRecords /\ [Dead EXCEPT !.alive = TRUE] \in FunctionRecords
<1>1. 0 \in 0..Threshold /\ 0 \in 0..RegionThreshold /\ 0 \in Nat
  BY SpoolAssumption
<1>2. [m \in Kinds |-> 0] \in [Kinds -> 0..Threshold]
  BY <1>1
<1> QED BY <1>1, <1>2, Zenon DEF Dead, FunctionRecords

-----------------------------------------------------------------------------
(* The actions *)

LEMMA CreateGood ==
  ASSUME Inv, NEW k \in Keys, Create(k)
  PROVE  Inv' /\ OneTry(Runtime, Runtime')
<1> DEFINE r == Runtime
           q == Runtime'
<1>1. /\ r.fn = fn /\ r.vault = vault /\ r.nextId = nextId
      /\ q.fn = fn' /\ q.vault = vault' /\ q.nextId = nextId'
      /\ q = [fn |-> fn', vault |-> vault', nextId |-> nextId']
  BY DEF Runtime
<1>2. /\ GoodRuntime(r) /\ GoodTable(r, relay) /\ GoodFeedback(r.nextId, fb)
      /\ budget \in 0..Budget
  BY DEF Inv, Good
<1>3. /\ ~r.fn[k].alive
      /\ q.fn = [r.fn EXCEPT ![k] = [Dead EXCEPT !.alive = TRUE]]
      /\ q.vault = [m \in Kinds |-> [r.vault[m] EXCEPT !.handle[k] = HandleInit]]
      /\ q.nextId = r.nextId
      /\ fb' = fb /\ budget' = budget /\ relay' = relay
  BY <1>1, Zenon DEF Create
<1> HIDE DEF r, q
<1>4. r.fn \in [Keys -> FunctionRecords] /\ r.nextId \in Nat
  BY <1>2 DEF GoodRuntime, Runtimes
<1>5. ASSUME NEW m \in Kinds
      PROVE  /\ GoodVault(r.vault[m]) /\ OwnEntries(r.vault[m], m)
             /\ EntryOf(r.vault[m], k) = {} /\ r.vault[m].handle[k].function = Null
  <2>1. GoodVault(r.vault[m]) /\ OwnEntries(r.vault[m], m) /\ GoodFunction(r, k, m)
    BY <1>2, Zenon DEF GoodRuntime
  <2>2. EntryOf(r.vault[m], k) = {}
    BY <1>3, <2>1, Zenon DEF GoodFunction
  <2> QED BY <2>1, <2>2, HandleOwner, Zenon
<1>6. ASSUME NEW m \in Kinds
      PROVE  /\ q.vault[m] \in Vaults /\ GoodVault(q.vault[m]) /\ OwnEntries(q.vault[m], m)
             /\ q.vault[m].handle[k].function = Null
             /\ \A j \in Keys : EntryOf(q.vault[m], j) = EntryOf(r.vault[m], j)
             /\ \A j \in Keys \ {k} : q.vault[m].handle[j] = r.vault[m].handle[j]
  <2> DEFINE v == r.vault[m]
             w == [v EXCEPT !.handle[k] = HandleInit]
  <2>1. q.vault[m] = w
    BY <1>3, Zenon
  <2>2. GoodVault(v) /\ OwnEntries(v, m) /\ v.handle[k].function = Null
    BY <1>5, Zenon
  <2> HIDE DEF v
  <2>3. /\ w \in Vaults /\ GoodVault(w) /\ OwnEntries(w, m)
        /\ w.handle[k].function = Null
        /\ \A j \in Keys : EntryOf(w, j) = EntryOf(v, j)
        /\ \A j \in Keys \ {k} : w.handle[j] = v.handle[j]
    BY <2>2, ResetGood, SMTT(30)
  <2> HIDE DEF w
  <2> QED BY <2>1, <2>3, Zenon DEF v
<1>7. q \in Runtimes
  <2>1. fn' \in [Keys -> FunctionRecords]
    BY <1>1, <1>3, <1>4, DeadType, Zenon
  <2>2. vault' = [m \in Kinds |-> vault'[m]]
    BY <1>1, <1>3, Zenon
  <2>3. vault' \in [Kinds -> Vaults]
    BY <1>1, <1>6, <2>2, Zenon
  <2> QED BY <1>1, <1>3, <1>4, <2>1, <2>3, Zenon DEF Runtimes
<1>8. /\ q.fn[k].id = 0 /\ q.fn[k].reserved = Null
      /\ \A j \in Keys \ {k} : q.fn[j] = r.fn[j]
  <2>1. q.fn[k] = [Dead EXCEPT !.alive = TRUE] /\ \A j \in Keys \ {k} : q.fn[j] = r.fn[j]
    BY <1>3, <1>4, Zenon
  <2> QED BY <2>1, ZenonT(60) DEF Dead
<1>9. ASSUME NEW m \in Kinds
      PROVE  Forgotten(r.vault[m], q.vault[m], k, m)
  <2>1. ASSUME NEW j \in Keys
        PROVE  r.vault[m].handle[j].generation >= r.vault[m].handle[j].generation
    BY <1>5, SpoolAssumption DEF GoodVault, Vaults, HandleRecords
  <2> QED BY <1>5, <1>6, <2>1, ZenonT(60) DEF Forgotten
<1>10. GoodRuntime(q) /\ GoodTable(q, relay) /\ OneTry(r, q)
  BY <1>2, <1>3, <1>7, <1>8, <1>9, ForgetGood, Zenon
<1>11. Good(q, relay, fb, budget)
  BY <1>2, <1>3, <1>10, Zenon DEF Good
<1> QED BY <1>3, <1>10, <1>11, Zenon DEF Inv, q, r

LEMMA FreeGood ==
  ASSUME Inv, NEW k \in Keys, Free(k)
  PROVE  Inv' /\ OneTry(Runtime, Runtime')
<1> DEFINE r == Runtime
           q == Runtime'
<1>1. /\ r.fn = fn /\ r.vault = vault /\ r.nextId = nextId
      /\ q.fn = fn' /\ q.vault = vault' /\ q.nextId = nextId'
      /\ q = [fn |-> fn', vault |-> vault', nextId |-> nextId']
  BY DEF Runtime
<1>2. /\ GoodRuntime(r) /\ GoodTable(r, relay) /\ GoodFeedback(r.nextId, fb)
      /\ budget \in 0..Budget
  BY DEF Inv, Good
<1>3. /\ q.fn = [r.fn EXCEPT ![k] = Dead]
      /\ q.vault = [m \in Kinds |-> RemoveAll(r.vault[m], EntryOf(r.vault[m], k))]
      /\ q.nextId = r.nextId
      /\ fb' = fb /\ budget' = budget /\ relay' = relay
  BY <1>1, Zenon DEF Free
<1> HIDE DEF r, q
<1>4. r.fn \in [Keys -> FunctionRecords] /\ r.nextId \in Nat
  BY <1>2 DEF GoodRuntime, Runtimes
<1>5. ASSUME NEW m \in Kinds
      PROVE  /\ q.vault[m] \in Vaults /\ GoodVault(q.vault[m]) /\ OwnEntries(q.vault[m], m)
             /\ Advances(r.vault[m], q.vault[m])
             /\ \A j \in Keys :
                  /\ EntryOf(q.vault[m], j) = EntryOf(r.vault[m], j) \ EntryOf(r.vault[m], k)
                  /\ q.vault[m].handle[j].function # Null =>
                       r.vault[m].handle[j].function # Null
  <2> DEFINE v == r.vault[m]
             V == EntryOf(v, k)
             w == RemoveAll(v, V)
  <2>1. q.vault[m] = w
    BY <1>3, Zenon
  <2>2. GoodVault(v) /\ OwnEntries(v, m)
    BY <1>2, ZenonT(60) DEF GoodRuntime
  <2>3. V \in SUBSET Functions
    BY <2>2, SMTT(60) DEF GoodVault, Vaults, EntryOf
  <2> HIDE DEF v, V
  <2>4. /\ w \in Vaults /\ GoodVault(w) /\ OwnEntries(w, m) /\ Advances(v, w)
        /\ \A j \in Keys :
             /\ EntryOf(w, j) = EntryOf(v, j) \ V
             /\ w.handle[j].function # Null => v.handle[j].function # Null
    BY <2>2, <2>3, SpoolAssumption, RemoveAllStep, SMTT(30)
  <2> HIDE DEF w
  <2> QED BY <2>1, <2>4, Zenon DEF v, V
<1>6. q \in Runtimes
  <2>1. fn' \in [Keys -> FunctionRecords]
    BY <1>1, <1>3, <1>4, DeadType, Zenon
  <2>2. vault' = [m \in Kinds |-> vault'[m]]
    BY <1>1, <1>3, Zenon
  <2>3. vault' \in [Kinds -> Vaults]
    BY <1>1, <1>5, <2>2, Zenon
  <2> QED BY <1>1, <1>3, <1>4, <2>1, <2>3, Zenon DEF Runtimes
<1>7. /\ q.fn[k].id = 0 /\ q.fn[k].reserved = Null
      /\ \A j \in Keys \ {k} : q.fn[j] = r.fn[j]
  <2>1. q.fn[k] = Dead /\ \A j \in Keys \ {k} : q.fn[j] = r.fn[j]
    BY <1>3, <1>4, Zenon
  <2>2. Dead.id = 0 /\ Dead.reserved = Null
    BY DEF Dead
  <2> QED BY <2>1, <2>2, Zenon
<1>8. ASSUME NEW m \in Kinds
      PROVE  Forgotten(r.vault[m], q.vault[m], k, m)
  <2>1. EntryOf(q.vault[m], k) = {}
    BY <1>5
  <2>2. q.vault[m].handle[k].function = Null
    BY <1>5, <2>1, HandleOwner, ZenonT(60)
  <2>3. \A j \in Keys : EntryOf(q.vault[m], j) \subseteq EntryOf(r.vault[m], j)
    BY <1>5
  <2>4. \A j \in Keys :
          /\ q.vault[m].handle[j].generation >= r.vault[m].handle[j].generation
          /\ q.vault[m].handle[j].generation = r.vault[m].handle[j].generation =>
               q.vault[m].handle[j] = r.vault[m].handle[j]
    BY <1>5, SpoolAssumption, Zenon DEF Advances
  <2> QED BY <1>5, <2>1, <2>2, <2>3, <2>4, ZenonT(60) DEF Forgotten
<1>9. GoodRuntime(q) /\ GoodTable(q, relay) /\ OneTry(r, q)
  BY <1>2, <1>3, <1>6, <1>7, <1>8, ForgetGood, Zenon
<1>10. Good(q, relay, fb, budget)
  BY <1>2, <1>3, <1>9, Zenon DEF Good
<1> QED BY <1>3, <1>9, <1>10, Zenon DEF Inv, q, r

LEMMA ClearCachesGood ==
  ASSUME Inv, ClearCaches
  PROVE  Inv' /\ OneTry(Runtime, Runtime')
<1> DEFINE r == Runtime
           q == Runtime'
<1>1. /\ r.fn = fn /\ r.vault = vault /\ r.nextId = nextId
      /\ q.fn = fn' /\ q.vault = vault' /\ q.nextId = nextId'
      /\ q = [fn |-> fn', vault |-> vault', nextId |-> nextId']
  BY DEF Runtime
<1>2. GoodRuntime(r) /\ Good(r, relay, fb, budget)
  BY DEF Inv, Good
<1>3. /\ q.fn = r.fn
      /\ q.vault = [m \in Kinds |-> [RemoveAll(r.vault[m], r.vault[m].live)
                                      EXCEPT !.lastKey = Null, !.lastFunction = Null]]
      /\ q.nextId = r.nextId
      /\ fb' = fb /\ budget' = budget /\ relay' = relay
  BY <1>1, Zenon DEF ClearCaches
<1> HIDE DEF r, q
<1>4. r.fn \in [Keys -> FunctionRecords] /\ r.nextId \in Nat
  BY <1>2 DEF GoodRuntime, Runtimes
<1>5. ASSUME NEW m \in Kinds
      PROVE  /\ q.vault[m] \in Vaults /\ GoodVault(q.vault[m]) /\ OwnEntries(q.vault[m], m)
             /\ Advances(r.vault[m], q.vault[m])
             /\ \A j \in Keys :
                  /\ EntryOf(q.vault[m], j) \subseteq EntryOf(r.vault[m], j)
                  /\ q.vault[m].handle[j].function # Null =>
                       r.vault[m].handle[j].function # Null
  <2> DEFINE v == r.vault[m]
             w == [RemoveAll(v, v.live) EXCEPT !.lastKey = Null, !.lastFunction = Null]
  <2>1. q.vault[m] = w
    BY <1>3, Zenon
  <2>2. GoodVault(v) /\ OwnEntries(v, m)
    BY <1>2, Zenon DEF GoodRuntime
  <2> HIDE DEF v
  <2>3. /\ w \in Vaults /\ GoodVault(w) /\ OwnEntries(w, m) /\ Advances(v, w)
        /\ \A j \in Keys :
             /\ EntryOf(w, j) \subseteq EntryOf(v, j)
             /\ w.handle[j].function # Null => v.handle[j].function # Null
    BY <2>2, ClearedGood, Zenon
  <2> HIDE DEF w
  <2> QED BY <2>1, <2>3, Zenon DEF v
<1>6. q \in Runtimes
  <2>1. vault' = [m \in Kinds |-> vault'[m]]
    BY <1>1, <1>3, Zenon
  <2>2. vault' \in [Kinds -> Vaults]
    BY <1>1, <1>5, <2>1, Zenon
  <2> QED BY <1>1, <1>3, <1>4, <2>2, Zenon DEF Runtimes
<1>7. GoodRuntime(q) /\ Later(r, q) /\ OneTry(r, q)
  <2>1. \A m \in Kinds : Shrunk(r.vault[m], q.vault[m], m)
    BY <1>5, Zenon DEF Shrunk
  <2> QED BY <1>2, <1>3, <1>6, <2>1, ShrinkGood, Zenon
<1>8. Good(q, relay, fb, budget)
  BY <1>2, <1>7, GoodLater, Zenon
<1> QED BY <1>3, <1>7, <1>8, Zenon DEF Inv, q, r

LEMMA EmptyTables ==
  ASSUME NEW r, GoodRuntime(r)
  PROVE  Good(r, [x \in Slots |-> EmptyRelay], [x \in Slots |-> EmptyFeedback], Budget)
<1> DEFINE t == [x \in Slots |-> EmptyRelay]
           f == [x \in Slots |-> EmptyFeedback]
<1>1. ASSUME NEW x \in Slots PROVE GoodRelay(r, t[x]) /\ t[x] \in RelayRecords
  <2>1. PICK s \in CallSites : x = SlotOf[s]
    BY DEF Slots
  <2>2. t[x] = EmptyRelay
    BY Zenon
  <2> QED BY <2>1, <2>2, EmptyRelayGood, Zenon DEF GoodRelay
<1>2. GoodTable(r, t)
  BY <1>1, Zenon DEF GoodTable
<1>3. EmptyFeedback \in FeedbackRecords /\ EmptyFeedback.targets = {}
  BY DEF EmptyFeedback, FeedbackRecords
<1>4. GoodFeedback(r.nextId, f)
  BY <1>3 DEF GoodFeedback
<1>5. Budget \in 0..Budget
  BY SpoolAssumption
<1> QED BY <1>2, <1>4, <1>5, Zenon DEF Good

LEMMA FreeCallerGood ==
  ASSUME Inv, FreeCaller
  PROVE  Inv' /\ OneTry(Runtime, Runtime')
<1>1. Runtime' = Runtime
  BY Zenon DEF FreeCaller, Runtime
<1>2. GoodRuntime(Runtime)
  BY DEF Inv, Good
<1>3. Good(Runtime, [x \in Slots |-> EmptyRelay], [x \in Slots |-> EmptyFeedback], Budget)
  BY <1>2, EmptyTables, Zenon
<1>4. Good(Runtime', relay', fb', budget')
  BY <1>1, <1>3, Zenon DEF FreeCaller
<1>5. OneTry(Runtime, Runtime')
  BY <1>1, Zenon DEF OneTry
<1> QED BY <1>4, <1>5, Zenon DEF Inv

LEMMA InitInv == Init => Inv
<1> SUFFICES ASSUME Init PROVE Inv
  OBVIOUS
<1> DEFINE r == Runtime
<1>1. /\ fn = [k \in Keys |-> Dead] /\ vault = [m \in Kinds |-> EmptyVault] /\ nextId = 0
      /\ fb = [x \in Slots |-> EmptyFeedback] /\ budget = Budget
      /\ relay = [x \in Slots |-> EmptyRelay]
  BY DEF Init
<1>2. EmptyVault \in Vaults
  <2>1. NoEntry \in Entries /\ HandleInit \in HandleRecords
    BY Zenon DEF NoEntry, Entries, HandleInit, HandleRecords
  <2> QED BY <2>1, Zenon DEF EmptyVault, Vaults
<1>3. /\ EmptyVault.live = {} /\ EmptyVault.lastFunction = Null
      /\ EmptyVault.entry = [f \in Functions |-> NoEntry]
      /\ EmptyVault.handle = [h \in Handles |-> HandleInit]
  BY DEF EmptyVault
<1>4. \A h \in Handles : EmptyVault.handle[h].function = Null
  BY <1>3 DEF HandleInit
<1>5. GoodVault(EmptyVault)
  BY <1>2, <1>3, <1>4, SMTT(60)
  DEF GoodVault, DeadBlank, Signed, HandleOwned, LastSound, SitesSound
<1>6. ASSUME NEW m \in Kinds PROVE OwnEntries(EmptyVault, m)
  BY <1>3, <1>4, SpoolAssumption, SMTT(60) DEF OwnEntries
<1>7. \A k \in Keys : EntryOf(EmptyVault, k) = {}
  BY <1>3 DEF EntryOf
<1>8. Dead.id = 0 /\ Dead.reserved = Null
  BY DEF Dead
<1>9. r.fn = fn /\ r.vault = vault /\ r.nextId = 0
  BY <1>1 DEF Runtime
<1>10. r \in Runtimes
  <2>1. fn \in [Keys -> FunctionRecords] /\ vault \in [Kinds -> Vaults] /\ nextId \in Nat
    BY <1>1, <1>2, DeadType
  <2> QED BY <2>1, Zenon DEF Runtime, Runtimes
<1> HIDE DEF r
<1>11. \A k \in Keys : r.fn[k].id = 0 /\ r.fn[k].reserved = Null
  BY <1>1, <1>8, <1>9, ZenonT(60)
<1>12. \A m \in Kinds : r.vault[m] = EmptyVault
  BY <1>1, <1>9, Zenon
<1>13. ASSUME NEW k \in Keys, NEW m \in Kinds PROVE GoodFunction(r, k, m)
  <2>1. m # Null /\ k \in Handles
    BY NullAssumption, SpoolAssumption
  <2> QED BY <1>4, <1>7, <1>11, <1>12, <2>1, Zenon DEF GoodFunction
<1>14. 0 <= r.nextId
  BY <1>9
<1>15. GoodRuntime(r)
  BY <1>5, <1>6, <1>10, <1>11, <1>12, <1>13, <1>14, ZenonT(60) DEF GoodRuntime
<1>16. Good(r, relay, fb, budget)
  BY <1>1, <1>15, EmptyTables, Zenon
<1> QED BY <1>16, Zenon DEF Inv, r

=============================================================================
