---------------------------- MODULE LibraryProofs ----------------------------
(***************************************************************************)
(* Proofs about the parts of the library that threads share.  Atomics: no  *)
(* wake-up is lost between wait and notify, for any number of threads and  *)
(* elements.  The event loop: the pipe that wakes a poll up agrees with    *)
(* the queue of messages, for any number of ports and messages, and the    *)
(* loop sleeps through nothing that is due, whatever the program, the file *)
(* handles and the signals do.                                             *)
(***************************************************************************)
EXTENDS Atomics, EventLoop, FiniteSetTheorems, SequenceTheorems, WellFoundedInduction, TLAPS

(* Atomics *)

\* The inductive invariant: NoLostWakeup needs to know that a record in the
\* list belongs to a thread inside wait, and that a store is never made by one.
WaitersInv == AtomicsTypeOK /\ ListExact /\ NoLostWakeup

\* A fresh list is exact.
LEMMA AtomicsInitInv == AtomicsInit => WaitersInv
BY AtomicsAssumption DEF AtomicsInit, WaitersInv, AtomicsTypeOK, ListExact, NoLostWakeup

\* A wait compares and links in one step, so that it sleeps with the value it
\* waits for; its place is new.
LEMMA WaitInv ==
    ASSUME WaitersInv, NEW t \in Threads, NEW c \in Cells, NEW v \in Numbers, NEW d \in BOOLEAN, Wait(t, c, v, d)
    PROVE WaitersInv'
<1>1. AtomicsTypeOK'
    BY DEF WaitersInv, AtomicsTypeOK, Wait
<1>2. ListExact'
    BY DEF WaitersInv, AtomicsTypeOK, ListExact, Wait
<1>3. NoLostWakeup'
    <2> SUFFICES ASSUME NEW u \in Threads,
                        pc'[u] = "asleep", place'[u] # 0, cell'[ptr'[u]] # expected'[u]
                 PROVE \E w \in Threads : pc'[w] = "stored" /\ ptr'[w] = ptr'[u]
        BY DEF NoLostWakeup
    <2>1. u # t
        BY DEF WaitersInv, AtomicsTypeOK, Wait
    <2>2. PICK w \in Threads : pc[w] = "stored" /\ ptr[w] = ptr[u]
        BY <2>1 DEF WaitersInv, AtomicsTypeOK, NoLostWakeup, Wait
    <2>3. w # t
        BY <2>2 DEF Wait
    <2> QED BY <2>1, <2>2, <2>3 DEF WaitersInv, AtomicsTypeOK, Wait
<1> QED BY <1>1, <1>2, <1>3 DEF WaitersInv

\* Waking up leaves the list alone.
LEMMA WakeUpInv ==
    ASSUME WaitersInv, NEW t \in Threads, NEW r \in {"ok", "timed-out"}, WakeUp(t, r)
    PROVE WaitersInv'
<1>1. AtomicsTypeOK'
    BY DEF WaitersInv, AtomicsTypeOK, WakeUp
<1>2. ListExact'
    BY DEF WaitersInv, AtomicsTypeOK, ListExact, WakeUp
<1>3. NoLostWakeup'
    BY DEF WaitersInv, AtomicsTypeOK, NoLostWakeup, WakeUp
<1> QED BY <1>1, <1>2, <1>3 DEF WaitersInv

\* A thread that returns takes its own record away.
LEMMA UnlinkInv ==
    ASSUME WaitersInv, NEW t \in Threads, Unlink(t)
    PROVE WaitersInv'
<1>1. AtomicsTypeOK'
    BY DEF WaitersInv, AtomicsTypeOK, Unlink
<1>2. ListExact'
    BY DEF WaitersInv, AtomicsTypeOK, ListExact, Unlink
<1>3. NoLostWakeup'
    BY DEF WaitersInv, AtomicsTypeOK, NoLostWakeup, Unlink
<1> QED BY <1>1, <1>2, <1>3 DEF WaitersInv

\* A thread that has stored is the one that has yet to notify.
LEMMA StoreInv ==
    ASSUME WaitersInv, NEW t \in Threads, NEW c \in Cells, NEW v \in Numbers, Store(t, c, v)
    PROVE WaitersInv'
<1>1. AtomicsTypeOK'
    BY DEF WaitersInv, AtomicsTypeOK, Store
<1>2. ListExact'
    BY DEF WaitersInv, AtomicsTypeOK, ListExact, Store
<1>3. NoLostWakeup'
    BY DEF WaitersInv, AtomicsTypeOK, ListExact, NoLostWakeup, Store
<1> QED BY <1>1, <1>2, <1>3 DEF WaitersInv

\* Waiters that are notified leave the list and are signalled; the others stay.
LEMMA NotifiedFacts ==
    ASSUME AtomicsTypeOK, NEW W \in SUBSET Threads, Notified(W)
    PROVE /\ place' \in [Threads -> Nat]
          /\ signalled' \in [Threads -> BOOLEAN]
          /\ \A t \in W : place'[t] = 0 /\ signalled'[t]
          /\ \A t \in Threads \ W : place'[t] = place[t] /\ signalled'[t] = signalled[t]
BY Zenon DEF AtomicsTypeOK, Notified

\* The notification takes every record for its element off the list.
LEMMA NotifyInv ==
    ASSUME WaitersInv, NEW t \in Threads, Notify(t)
    PROVE WaitersInv'
<1>0. PICK W \in SUBSET Threads : Foremost(W, ptr[t], FALSE) /\ Notified(W)
    BY Zenon DEF Notify
<1>1. AtomicsTypeOK'
    BY <1>0, NotifiedFacts DEF WaitersInv, AtomicsTypeOK, Notify
<1>2. ListExact'
    <2>1. \A u \in W : pc[u] \in {"asleep", "awake"}
        BY <1>0 DEF Foremost, Linked, WaitersInv, ListExact
    <2> QED BY <1>0, <2>1, NotifiedFacts DEF WaitersInv, AtomicsTypeOK, ListExact, Notify
<1>3. NoLostWakeup'
    <2> SUFFICES ASSUME NEW u \in Threads,
                        pc'[u] = "asleep", place'[u] # 0, cell'[ptr'[u]] # expected'[u]
                 PROVE \E w \in Threads : pc'[w] = "stored" /\ ptr'[w] = ptr'[u]
        BY DEF NoLostWakeup
    <2>1. u # t /\ u \notin W /\ ptr'[u] = ptr[u]
        BY <1>0, NotifiedFacts DEF WaitersInv, AtomicsTypeOK, Notify
    <2>2. place[u] # 0 /\ pc[u] = "asleep" /\ cell[ptr[u]] # expected[u]
        BY <1>0, <2>1, NotifiedFacts DEF WaitersInv, AtomicsTypeOK, Notify
    <2>3. ptr[u] # ptr[t]
        BY <1>0, <2>1, <2>2 DEF Foremost, Linked
    <2>4. PICK w \in Threads : pc[w] = "stored" /\ ptr[w] = ptr[u]
        BY <2>2 DEF WaitersInv, NoLostWakeup
    <2> QED BY <2>1, <2>3, <2>4 DEF WaitersInv, AtomicsTypeOK, Notify
<1> QED BY <1>1, <1>2, <1>3 DEF WaitersInv

\* Waking up one waiter leaves the others with whoever is to notify them.
LEMMA NotifyOneInv ==
    ASSUME WaitersInv, NEW t \in Threads, NEW c \in Cells, NotifyOne(t, c)
    PROVE WaitersInv'
<1>0. PICK W \in SUBSET Threads : Foremost(W, c, TRUE) /\ Notified(W)
    BY Zenon DEF NotifyOne
<1>1. AtomicsTypeOK'
    BY <1>0, NotifiedFacts DEF WaitersInv, AtomicsTypeOK, NotifyOne
<1>2. ListExact'
    <2>1. \A u \in W : pc[u] \in {"asleep", "awake"}
        BY <1>0 DEF Foremost, Linked, WaitersInv, ListExact
    <2> QED BY <1>0, <2>1, NotifiedFacts DEF WaitersInv, AtomicsTypeOK, ListExact, NotifyOne
<1>3. NoLostWakeup'
    BY <1>0, NotifiedFacts DEF WaitersInv, AtomicsTypeOK, NoLostWakeup, NotifyOne
<1> QED BY <1>1, <1>2, <1>3 DEF WaitersInv

\* The list of waiters never holds a record of a call that has returned, and no
\* wake-up is lost, whatever the threads do.
THEOREM WakeupsKept == AtomicsSpec => [](ListExact /\ NoLostWakeup)
<1>1. WaitersInv /\ [AtomicsNext]_atomics => WaitersInv'
    <2> SUFFICES ASSUME WaitersInv, [AtomicsNext]_atomics PROVE WaitersInv'
        OBVIOUS
    <2>1. CASE UNCHANGED atomics
        BY <2>1 DEF WaitersInv, AtomicsTypeOK, ListExact, NoLostWakeup, atomics
    <2>2. CASE AtomicsNext
        BY <2>2, WaitInv, WakeUpInv, UnlinkInv, StoreInv, NotifyInv, NotifyOneInv DEF AtomicsNext
    <2> QED BY <2>1, <2>2
<1>2. WaitersInv => ListExact /\ NoLostWakeup
    BY DEF WaitersInv
<1> QED BY AtomicsInitInv, <1>1, <1>2, PTL DEF AtomicsSpec

(* The event loop *)

\* What the steps need of the lists of file handles and ports.
ListsOK ==
    /\ "rw" \in DOMAIN ts /\ ts.rw \in Seq(Entries)
    /\ "ports" \in DOMAIN ts /\ ts.ports \in Seq(Ports)
    /\ ts = [f \in DOMAIN ts |-> ts[f]]

Counters == [timers: Nat, ops: Nat, posts: Nat, raised: Nat, busy: Nat]

PipesOK ==
    /\ queue \in [Ports -> Seq(Nat)]
    /\ waker \in [Ports -> Nat]
    /\ done \in Counters

Inv == ListsOK /\ PipesOK /\ WakerExact

(* The lists *)

\* A nonempty set of naturals has a least member.
LEMMA LeastMember ==
    ASSUME NEW S, S \subseteq Nat, S # {}
    PROVE \E i \in S : \A j \in S : i <= j
<1>1. PICK i \in S : \A j \in S : ~(<<j, i>> \in OpToRel(<, Nat))
    BY WFMin, NatLessThanWellFounded, ZenonT(60)
<1>2. ASSUME NEW j \in S, j < i PROVE FALSE
    <2>1. <<j, i>> \in Nat \X Nat
        OBVIOUS
    <2>2. <<j, i>>[1] < <<j, i>>[2]
        BY <1>2, SMTT(60)
    <2>3. <<j, i>> \in OpToRel(<, Nat)
        BY <2>1, <2>2, ZenonT(60) DEF OpToRel
    <2> QED BY <1>1, <2>3, ZenonT(60)
<1> QED BY <1>2, SMTT(60)

\* A search finds one of the positions that match, if there is one.
LEMMA FirstFinds ==
    ASSUME NEW S, S \subseteq Nat \ {0}
    PROVE IF S = {} THEN First(S) = 0 ELSE First(S) \in S
<1>1. CASE S = {}
    BY <1>1, ZenonT(60) DEF First
<1>2. CASE S # {}
    <2>1. PICK i \in S : \A j \in S : i <= j
        BY <1>2, LeastMember, ZenonT(60)
    <2>2. \A j \in 1 .. i - 1 : j \notin S
        BY <2>1, SMTT(60)
    <2>3. First(S) \in S
        BY <1>2, <2>2, ZenonT(60) DEF First
    <2> QED BY <1>2, <2>3, ZenonT(60)
<1> QED BY <1>1, <1>2, ZenonT(60)

LEMMA FirstMatches ==
    ASSUME NEW S, S \subseteq Nat \ {0}
    PROVE First(S) \in {0} \cup S
BY FirstFinds, ZenonT(60)

\* Removing an entry of a list leaves a list.
LEMMA DroppedType ==
    ASSUME NEW T, NEW seq \in Seq(T), NEW i \in {0} \cup DOMAIN seq
    PROVE Dropped(seq, i) \in Seq(T)
<1>1. CASE i = 0
    BY <1>1, SMTT(60) DEF Dropped
<1>2. CASE i # 0
    <2>1. i \in 1 .. Len(seq)
        BY <1>2, SMTT(60)
    <2>2. SubSeq(seq, 1, i - 1) \in Seq(T)
        BY <2>1, SMTT(60)
    <2>3. SubSeq(seq, i + 1, Len(seq)) \in Seq(T)
        BY <2>1, SMTT(60)
    <2> QED BY <1>2, <2>2, <2>3, SMTT(60) DEF Dropped
<1> QED BY <1>1, <1>2, SMTT(60)

\* js_os_setReadHandler finds the entry it looks for, or none.
LEMMA SetHandlerLists ==
    ASSUME ListsOK, NEW fd \in Fds, NEW dir \in Directions, NEW on \in BOOLEAN,
           ts' = SetHandler(fd, dir, on)
    PROVE ListsOK'
<1> DEFINE S == {j \in DOMAIN ts.rw : ts.rw[j].fd = fd}
           i == First(S)
           old == IF i = 0 THEN {} ELSE ts.rw[i].dirs
           entry == [fd |-> fd, dirs |-> IF on THEN old \cup {dir} ELSE old \ {dir}]
<1>1. i \in {0} \cup DOMAIN ts.rw
    <2>1. S \subseteq Nat \ {0}
        BY SMTT(60) DEF ListsOK
    <2> QED BY <2>1, FirstMatches, ZenonT(60)
<1>2. entry \in Entries
    <2>1. old \in SUBSET Directions
        <3>1. CASE i = 0
            BY <3>1
        <3>2. CASE i # 0
            <4>1. ts.rw[i] \in Entries
                BY <1>1, <3>2, SMTT(60) DEF ListsOK
            <4> QED BY <3>2, <4>1, ZenonT(60) DEF Entries
        <3> QED BY <3>1, <3>2, ZenonT(60)
    <2> HIDE DEF old
    <2> QED BY <2>1, SMTT(60) DEF Entries
<1>3. Dropped(ts.rw, i) \in Seq(Entries)
    BY <1>1, DroppedType, SMTT(60) DEF ListsOK
<1>4. i # 0 => [ts.rw EXCEPT ![i] = entry] \in Seq(Entries)
    BY <1>1, <1>2, SMTT(60) DEF ListsOK
<1>5. Append(ts.rw, entry) \in Seq(Entries)
    BY <1>2, SMTT(60) DEF ListsOK
<1> DEFINE new == CASE entry.dirs = {} -> Dropped(ts.rw, i)
                    [] entry.dirs # {} /\ i = 0 -> Append(ts.rw, entry)
                    [] OTHER -> [ts.rw EXCEPT ![i] = entry]
<1>6. ts' = [ts EXCEPT !.rw = new]
    BY ZenonT(60) DEF SetHandler
<1>7. new \in Seq(Entries)
    <2>1. CASE entry.dirs = {}
        BY <2>1, <1>3, ZenonT(60)
    <2>2. CASE entry.dirs # {} /\ i = 0
        BY <2>2, <1>5, SMTT(60)
    <2>3. CASE entry.dirs # {} /\ i # 0
        BY <2>3, <1>4, ZenonT(60)
    <2> QED BY <2>1, <2>2, <2>3, ZenonT(60)
<1> HIDE DEF new
<1> QED BY <1>6, <1>7, SMTT(60) DEF ListsOK

\* js_worker_set_onmessage finds the port it looks for, or none.
LEMMA SetOnMessageLists ==
    ASSUME ListsOK, NEW p \in Ports, NEW on \in BOOLEAN, ts' = SetOnMessage(p, on)
    PROVE ListsOK'
<1> DEFINE S == {j \in DOMAIN ts.ports : ts.ports[j] = p}
           i == First(S)
<1>1. i \in {0} \cup DOMAIN ts.ports
    <2>1. S \subseteq Nat \ {0}
        BY SMTT(60) DEF ListsOK
    <2> QED BY <2>1, FirstMatches, ZenonT(60)
<1> DEFINE new == IF ~on THEN Dropped(ts.ports, i)
                  ELSE IF i = 0 THEN Append(ts.ports, p) ELSE ts.ports
<1>2. new \in Seq(Ports)
    BY <1>1, DroppedType, SMTT(60) DEF ListsOK
<1>3. ts' = [ts EXCEPT !.ports = new]
    BY DEF SetOnMessage
<1> HIDE DEF new
<1> QED BY <1>2, <1>3 DEF ListsOK

(* The array given to poll *)

LEMMA PolledFacts ==
    ASSUME ListsOK
    PROVE /\ Len(Polled) \in Nat /\ DOMAIN Polled = 1 .. Len(Polled)
          /\ \A i \in DOMAIN Polled : \/ Polled[i][1] = "fd"
                                      \/ Polled[i][1] = "port" /\ Polled[i][2] \in Ports
<1> DEFINE A == [i \in 1 .. Len(ts.rw) |-> <<"fd", ts.rw[i]>>]
           B == [i \in 1 .. Len(ts.ports) |-> <<"port", ts.ports[i]>>]
           T == {"fd"} \X Entries \cup {"port"} \X Ports
<1>1. A \in Seq(T)
    BY DEF ListsOK
<1>2. B \in Seq(T)
    BY DEF ListsOK
<1>3. Polled = A \o B
    BY DEF Polled
<1> HIDE DEF A, B
<1>4. Polled \in Seq(T)
    BY <1>1, <1>2, <1>3, SMTT(60)
<1> QED BY <1>4, SMTT(60)

\* poll reports no more entries than it was given.
LEMMA ReportsBounded ==
    ASSUME ListsOK
    PROVE Reports \in 0 .. Len(Polled)
<1> DEFINE R == {i \in DOMAIN Polled : Reported(Polled[i])}
<1>1. IsFiniteSet(1 .. Len(Polled)) /\ Cardinality(1 .. Len(Polled)) = Len(Polled)
    BY PolledFacts, FS_Interval, SMTT(60)
<1>2. R \in SUBSET (1 .. Len(Polled))
    BY PolledFacts
<1> HIDE DEF R
<1>3. Cardinality(R) \in Nat /\ Cardinality(R) <= Len(Polled)
    BY <1>1, <1>2, FS_Subset, FS_CardinalityType, ZenonT(60)
<1>4. Reports = Cardinality(R)
    BY DEF Reports, R
<1> QED BY <1>3, <1>4, PolledFacts, SMTT(60)

\* The entry that is served is one of the array, and a port with a message.
LEMMA ServedFacts ==
    ASSUME ListsOK, Served(Reports) # 0
    PROVE /\ Served(Reports) \in DOMAIN Polled
          /\ Polled[Served(Reports)][1] = "port" => queue[Polled[Served(Reports)][2]] # <<>>
<1> DEFINE S == {i \in 1 .. Reports : CanCall(Polled[i])}
<1>1. S \subseteq Nat \ {0} /\ S \subseteq DOMAIN Polled
    BY PolledFacts, ReportsBounded, SMTT(60)
<1>2. Served(Reports) \in S
    BY <1>1, FirstMatches, ZenonT(60) DEF Served
<1>3. Served(Reports) \in DOMAIN Polled
    BY <1>1, <1>2, ZenonT(60)
<1>4. CanCall(Polled[Served(Reports)])
    BY <1>2, ZenonT(60)
<1> QED BY <1>3, <1>4, SMTT(60) DEF CanCall

(* The steps *)

\* What the bounds count only grows, or starts again.
LEMMA CountersType ==
    ASSUME NEW d \in Counters
    PROVE /\ [d EXCEPT !.ops = @ + 1, !.timers = @ + 1] \in Counters
          /\ [d EXCEPT !.ops = @ + 1] \in Counters
          /\ [d EXCEPT !.posts = @ + 1] \in Counters
          /\ [d EXCEPT !.raised = @ + 1] \in Counters
          /\ [d EXCEPT !.busy = @ + 1] \in Counters
          /\ [d EXCEPT !.busy = 0] \in Counters
<1>1. [d EXCEPT !.ops = @ + 1] \in Counters
    BY SMTT(60) DEF Counters
<1>2. [d EXCEPT !.ops = @ + 1, !.timers = @ + 1] \in Counters
    <2>1. d.ops + 1 \in Nat /\ d.timers + 1 \in Nat
        BY SMTT(60) DEF Counters
    <2> QED BY <2>1, ZenonT(60) DEF Counters
<1>3. [d EXCEPT !.posts = @ + 1] \in Counters
    BY SMTT(60) DEF Counters
<1>4. [d EXCEPT !.raised = @ + 1] \in Counters
    BY SMTT(60) DEF Counters
<1>5. [d EXCEPT !.busy = @ + 1] \in Counters
    BY SMTT(60) DEF Counters
<1>6. [d EXCEPT !.busy = 0] \in Counters
    BY SMTT(60) DEF Counters
<1> QED BY <1>1, <1>2, <1>3, <1>4, <1>5, <1>6, ZenonT(60)

LEMMA InitInv == LoopInit => Inv
    BY DEF LoopInit, Inv, ListsOK, PipesOK, Counters, WakerExact

LEMMA OperateInv == ASSUME Inv, Operate PROVE Inv'
<1>1. ListsOK'
    <2>1. ASSUME NEW id, NEW d, NEW r, ts' = NewTimer(id, d, r) PROVE ListsOK'
        BY <2>1, ZenonT(60) DEF NewTimer, Inv, ListsOK
    <2>2. ASSUME NEW id, ts' = ClearTimer(id) PROVE ListsOK'
        BY <2>2, ZenonT(60) DEF ClearTimer, Inv, ListsOK
    <2>3. ASSUME NEW s, NEW on, ts' = SetSignal(s, on) PROVE ListsOK'
        BY <2>3, ZenonT(60) DEF SetSignal, Inv, ListsOK
    <2>4. ASSUME NEW p, NEW h, ts' = Track(p, h) PROVE ListsOK'
        BY <2>4, ZenonT(60) DEF Track, Inv, ListsOK
    <2>5. CASE ts' = [ts EXCEPT !.jobs = @ + 1]
        BY <2>5 DEF Inv, ListsOK
    <2>6. CASE ts' = [ts EXCEPT !.settled = TRUE]
        BY <2>6, Zenon DEF Inv, ListsOK
    <2> QED BY <2>1, <2>2, <2>3, <2>4, <2>5, <2>6, SetHandlerLists, SetOnMessageLists, ZenonT(60)
                DEF Operate, Inv
<1>2. PipesOK'
    BY CountersType, ZenonT(60) DEF Operate, Inv, PipesOK
<1> QED BY <1>1, <1>2, SMTT(60) DEF Operate, Inv, WakerExact

\* The steps that leave the pipes alone.
LEMMA LocalInv ==
    ASSUME Inv, Turn \/ CallReturns \/ CallThrows \/ PollSignal \/ PollTimer \/ PollSleep \/ TimeOut \/ Tick
    PROVE Inv'
<1>1. ListsOK'
    <2>1. CASE UNCHANGED ts
        BY <2>1, SMTT(60) DEF Inv, ListsOK
    <2>2. CASE Turn
        BY <2>2, SMTT(60) DEF Turn, Call, Inv, ListsOK
    <2>3. CASE ts' = [ts EXCEPT !.settled = TRUE]
        BY <2>3, ZenonT(60) DEF Inv, ListsOK
    <2>4. CASE PollTimer
        BY <2>4, SMTT(60) DEF PollTimer, Inv, ListsOK
    <2>5. CASE Tick
        BY <2>5, ZenonT(60) DEF Tick, Inv, ListsOK
    <2>6. CASE CallThrows
        BY <2>1, <2>3, <2>6, SMTT(60) DEF CallThrows
    <2> QED BY <2>1, <2>2, <2>4, <2>5, <2>6, SMTT(60) DEF CallReturns, PollSignal, PollSleep, TimeOut
<1>2. done' \in Counters
    BY CountersType, ZenonT(60)
       DEF Inv, PipesOK, Turn, CallReturns, CallThrows, PollSignal, PollTimer, PollSleep, TimeOut, Tick
<1>3. UNCHANGED <<queue, waker>>
    BY SMTT(60) DEF Turn, CallReturns, CallThrows, PollSignal, PollTimer, PollSleep, TimeOut, Tick
<1> QED BY <1>1, <1>2, <1>3, SMTT(60) DEF Inv, PipesOK, WakerExact

LEMMA PostInv == ASSUME Inv, NEW p \in Ports, Post(p) PROVE Inv'
<1>1. ListsOK'
    BY SMTT(60) DEF Post, Inv, ListsOK
<1>2. PipesOK'
    <2>0. done.posts + 1 \in Nat
        BY SMTT(60) DEF Inv, PipesOK, Counters
    <2>1. queue' \in [Ports -> Seq(Nat)]
        BY <2>0, SMTT(60) DEF Post, Inv, PipesOK
    <2>2. waker' \in [Ports -> Nat]
        BY SMTT(60) DEF Post, Inv, PipesOK
    <2>3. done' \in Counters
        BY CountersType, ZenonT(60) DEF Post, Inv, PipesOK
    <2> QED BY <2>1, <2>2, <2>3, ZenonT(60) DEF PipesOK
<1>3. queue'[p] # <<>>
    BY DEF Post, Inv, PipesOK
<1>4. waker'[p] = 1
    BY SMTT(60) DEF Post, Inv, PipesOK, WakerExact
<1>5. \A q \in Ports \ {p} : queue'[q] = queue[q] /\ waker'[q] = waker[q]
    BY DEF Post, Inv, PipesOK
<1> QED BY <1>1, <1>2, <1>3, <1>4, <1>5, SMTT(60) DEF Inv, WakerExact

LEMMA ReceiveInv ==
    ASSUME Inv, NEW p \in Ports, queue[p] # <<>>, Receive(p), UNCHANGED <<ts, done>>
    PROVE Inv'
<1>1. ListsOK'
    BY DEF Inv, ListsOK
<1>2. PipesOK'
    BY SMTT(60) DEF Receive, Inv, PipesOK
<1>3. queue'[p] = Tail(queue[p]) /\ queue[p] \in Seq(Nat)
    BY SMTT(60) DEF Receive, Inv, PipesOK
<1>4. queue'[p] = <<>> <=> Len(queue[p]) = 1
    <2>1. Len(queue'[p]) = Len(queue[p]) - 1 /\ queue'[p] \in Seq(Nat)
        BY <1>3, HeadTailProperties, SMTT(60)
    <2>2. queue'[p] = <<>> <=> Len(queue'[p]) = 0
        BY <2>1, EmptySeq, ZenonT(60)
    <2>3. Len(queue[p]) \in Nat
        BY <1>3
    <2> QED BY <2>1, <2>2, <2>3, SMTT(60)
<1>5. waker'[p] = IF queue'[p] = <<>> THEN 0 ELSE 1
    BY <1>4 DEF Receive, Inv, PipesOK, WakerExact
<1>6. \A q \in Ports \ {p} : queue'[q] = queue[q] /\ waker'[q] = waker[q]
    BY DEF Receive, Inv, PipesOK
<1> QED BY <1>1, <1>2, <1>5, <1>6, SMTT(60) DEF Inv, WakerExact

LEMMA WakeInv == ASSUME Inv, Wake PROVE Inv'
<1> DEFINE i == Served(Reports)
<1>1. CASE UNCHANGED <<queue, waker>>
    BY <1>1, SMTT(60) DEF Wake, Inv, ListsOK, PipesOK, WakerExact
<1>2. CASE i # 0 /\ Polled[i][1] = "port" /\ Receive(Polled[i][2])
    BY <1>2, ServedFacts, PolledFacts, ReceiveInv, SMTT(60) DEF Wake, Inv
<1>3. CASE i = 0
    BY <1>1, <1>3, SMTT(60) DEF Wake
<1>4. CASE i # 0 /\ Polled[i][1] = "fd"
    BY <1>1, <1>4, SMTT(60) DEF Wake
<1>5. CASE i # 0 /\ Polled[i][1] = "port"
    BY <1>2, <1>5, SMTT(60) DEF Wake
<1>6. i # 0 => i \in DOMAIN Polled
    BY ServedFacts, SMTT(60) DEF Inv
<1> QED BY <1>3, <1>4, <1>5, <1>6, PolledFacts, SMTT(60) DEF Inv

LEMMA LoopStepInv == Inv /\ [LoopNext]_loop => Inv'
<1> SUFFICES ASSUME Inv, [LoopNext]_loop PROVE Inv'
    BY SMTT(60)
<1>1. CASE UNCHANGED loop
    BY <1>1, SMTT(60) DEF loop, Inv, ListsOK, PipesOK, WakerExact
<1>2. ASSUME NEW s \in Signals, Raise(s) PROVE Inv'
    BY <1>2, CountersType, ZenonT(60) DEF Raise, Inv, ListsOK, PipesOK, WakerExact
<1>3. ASSUME NEW fd \in Fds, NEW dir \in Directions, ReadyChanges(fd, dir) PROVE Inv'
    BY <1>3 DEF ReadyChanges, Inv, ListsOK, PipesOK, WakerExact
<1> QED BY <1>1, <1>2, <1>3, OperateInv, LocalInv, PostInv, WakeInv, SMTT(60) DEF LoopNext, Step, World

\* However the program, the workers, the timers, the file handles and the
\* signals interleave, the pipe that wakes a poll up holds one byte exactly
\* while a message waits: no poll of a port sleeps over a message, and no
\* reader blocks on the pipe with the mutex held.
THEOREM WakerAgrees == LoopSpec => []WakerExact
<1>1. Inv => WakerExact
    BY DEF Inv
<1> QED BY InitInv, LoopStepInv, <1>1, PTL DEF LoopSpec

(* The sleep *)

\* The delays fit an int, which is what js_os_run_timers takes for granted when it
\* passes them to min_int.
Fitting == {n \in Int : n <= IntMax}
DelaysFit == Delays \cup Intervals \subseteq Fitting

Timers == [id: Int, left: Fitting, delay: Fitting, repeats: BOOLEAN]

TimersOK ==
    /\ "timers" \in DOMAIN ts /\ ts.timers \in Seq(Timers)
    /\ "jobs" \in DOMAIN ts /\ ts.jobs \in Nat
    /\ "rejected" \in DOMAIN ts

\* SleepExact needs to know what held already when the poll began: js_std_loop
\* polls with no job pending and no rejection left.
PollsIdle ==
    stage \in {"poll", "asleep"} /\ driver = "loop" => ts.jobs = 0 /\ ts.rejected = {}

SleepInv ==
    /\ Inv /\ TimersOK /\ PollsIdle
    /\ stage = "asleep" => left \in Nat \cup {Forever}
    /\ SleepExact

\* A thread that is not in a poll sleeps through nothing.
LEMMA AwakeInv ==
    ASSUME Inv', TimersOK', stage' \notin {"poll", "asleep"}
    PROVE SleepInv'
BY ZenonT(60) DEF SleepInv, PollsIdle, SleepExact

\* A timer may be given any time that fits.
LEMMA TimerLeft ==
    ASSUME NEW t \in Timers, NEW n \in Fitting
    PROVE [t EXCEPT !.left = n] \in Timers /\ [t EXCEPT !.left = n].left = n
BY ZenonT(60) DEF Timers

LEMMA AgedTimer ==
    ASSUME NEW t \in Timers
    PROVE Aged(t) \in Timers /\ Aged(t).left = Later(t.left) /\ t.left \in Int
<1>1. t.left \in Fitting
    BY ZenonT(60) DEF Timers
<1>2. \A n \in Fitting : Later(n) \in Fitting /\ n \in Int
    BY LoopAssumption, SMTT(60) DEF Later, Fitting
<1>3. Aged(t) = [t EXCEPT !.left = Later(t.left)]
    BY ZenonT(60) DEF Aged
<1> QED BY <1>1, <1>2, <1>3, TimerLeft, ZenonT(60)

\* Operations on the other lists leave the timers and the jobs alone.
LEMMA OthersKept ==
    ASSUME Inv, TimersOK, NEW f \in {"rw", "ports", "handlers", "rejected", "settled"}, NEW x,
           ts' = [ts EXCEPT ![f] = x]
    PROVE TimersOK'
<1>1. ts' = [g \in DOMAIN ts |-> IF g = f THEN x ELSE ts[g]]
    BY ZenonT(60)
<1>2. DOMAIN ts' = DOMAIN ts /\ f # "timers" /\ f # "jobs"
    BY <1>1, SMTT(60)
<1>3. ts'.timers = ts.timers /\ ts'.jobs = ts.jobs
    BY <1>1, <1>2, ZenonT(60) DEF TimersOK
<1> QED BY <1>2, <1>3, ZenonT(60) DEF TimersOK

\* Operations on the timers make lists of timers.
LEMMA TimersKept ==
    ASSUME TimersOK, NEW new \in Seq(Timers), ts' = [ts EXCEPT !.timers = new]
    PROVE TimersOK' /\ ts'.timers = new /\ ts'.jobs = ts.jobs /\ ts'.rejected = ts.rejected
BY SMTT(60) DEF TimersOK

LEMMA OperateTimers ==
    ASSUME Inv, TimersOK, DelaysFit, Operate
    PROVE TimersOK'
<1>0. done.timers + 1 \in Int /\ -1 \in Int
    BY SMTT(60) DEF Inv, PipesOK, Counters
<1>1. ASSUME NEW id \in Int, NEW d \in Fitting, NEW r \in BOOLEAN, ts' = NewTimer(id, d, r)
      PROVE TimersOK'
    <2>1. [id |-> id, left |-> d, delay |-> d, repeats |-> r] \in Timers
        BY ZenonT(60) DEF Timers
    <2>2. Append(ts.timers, [id |-> id, left |-> d, delay |-> d, repeats |-> r]) \in Seq(Timers)
        BY <2>1, SMTT(60) DEF TimersOK
    <2>3. ts' = [ts EXCEPT !.timers = Append(ts.timers, [id |-> id, left |-> d, delay |-> d, repeats |-> r])]
        BY <1>1, ZenonT(60) DEF NewTimer
    <2> QED BY <2>2, <2>3, TimersKept, ZenonT(60)
<1>2. ASSUME NEW id, ts' = ClearTimer(id) PROVE TimersOK'
    <2> DEFINE S == {i \in DOMAIN ts.timers : ts.timers[i].id = id}
    <2>1. S \subseteq Nat \ {0}
        BY SMTT(60) DEF TimersOK
    <2>2. First(S) \in {0} \cup DOMAIN ts.timers
        BY <2>1, FirstMatches, ZenonT(60)
    <2>3. Dropped(ts.timers, First(S)) \in Seq(Timers)
        BY <2>2, DroppedType, ZenonT(60) DEF TimersOK
    <2>4. ts' = [ts EXCEPT !.timers = Dropped(ts.timers, First(S))]
        BY <1>2, ZenonT(60) DEF ClearTimer
    <2> HIDE DEF S
    <2> QED BY <2>3, <2>4, TimersKept, ZenonT(60)
<1>3. ASSUME NEW fd, NEW dir, NEW on, ts' = SetHandler(fd, dir, on) PROVE TimersOK'
    <2>1. PICK x : ts' = [ts EXCEPT !["rw"] = x]
        BY <1>3, ZenonT(60) DEF SetHandler
    <2> QED BY <2>1, OthersKept, ZenonT(60)
<1>4. ASSUME NEW p, NEW on, ts' = SetOnMessage(p, on) PROVE TimersOK'
    <2>1. PICK x : ts' = [ts EXCEPT !["ports"] = x]
        BY <1>4, ZenonT(60) DEF SetOnMessage
    <2> QED BY <2>1, OthersKept, ZenonT(60)
<1>5. ASSUME NEW s, NEW on, ts' = SetSignal(s, on) PROVE TimersOK'
    <2>1. PICK x : ts' = [ts EXCEPT !["handlers"] = x]
        BY <1>5, ZenonT(60) DEF SetSignal
    <2> QED BY <2>1, OthersKept, ZenonT(60)
<1>6. ASSUME NEW p, NEW h, ts' = Track(p, h) PROVE TimersOK'
    <2>1. PICK x : ts' = [ts EXCEPT !["rejected"] = x]
        BY <1>6, ZenonT(60) DEF Track
    <2> QED BY <2>1, OthersKept, ZenonT(60)
<1>7. ASSUME ts' = [ts EXCEPT !.jobs = @ + 1] PROVE TimersOK'
    BY <1>7, SMTT(60) DEF TimersOK
<1>8. ASSUME ts' = [ts EXCEPT !.settled = TRUE] PROVE TimersOK'
    BY <1>8, OthersKept, ZenonT(60)
<1>9. \A d \in Delays \cup Intervals : d \in Fitting /\ AtLeastOne(d) \in Fitting
    BY LoopAssumption, SMTT(60) DEF DelaysFit, Fitting, AtLeastOne
<1> QED BY <1>0, <1>1, <1>2, <1>3, <1>4, <1>5, <1>6, <1>7, <1>8, <1>9, ZenonT(60) DEF Operate

\* A delay that fits is the int it is converted to.
LEMMA ToIntFits ==
    ASSUME NEW d \in Nat, d <= IntMax
    PROVE ToInt(d) = d
<1>1. IntMax + 1 \in Nat \ {0} /\ d + IntMax + 1 \in 0 .. 2 * (IntMax + 1) - 1
    BY LoopAssumption, SMTT(60)
<1>2. ASSUME NEW n \in Nat \ {0}, NEW k \in 0 .. n - 1 PROVE k % n = k
    BY <1>2, SMTT(60)
<1>3. 2 * (IntMax + 1) \in Nat \ {0}
    BY LoopAssumption, SMTT(60)
<1>4. (d + IntMax + 1) % (2 * (IntMax + 1)) = d + IntMax + 1
    BY <1>1, <1>2, <1>3, ZenonT(60)
<1> QED BY <1>1, <1>4, LoopAssumption, SMTT(60) DEF ToInt

\* With no timer expired the loop sleeps no longer than any of them has left.
LEMMA MinDelayLeast ==
    ASSUME TimersOK, ts.timers # <<>>, \A i \in DOMAIN ts.timers : ts.timers[i].left > 0
    PROVE MinDelay \in Nat /\ \A i \in DOMAIN ts.timers : MinDelay <= ts.timers[i].left
<1> DEFINE D == {IntMax} \cup {ToInt(t.left) : t \in Range(ts.timers)}
<1>1. ASSUME NEW i \in DOMAIN ts.timers PROVE ts.timers[i].left \in Nat /\ ToInt(ts.timers[i].left) = ts.timers[i].left
    <2>1. ts.timers[i] \in Timers
        BY <1>1, SMTT(60) DEF TimersOK
    <2>2. ts.timers[i].left \in Fitting
        BY <2>1, ZenonT(60) DEF Timers
    <2>3. ts.timers[i].left \in Nat /\ ts.timers[i].left <= IntMax
        BY <2>2, <1>1, SMTT(60) DEF Fitting
    <2> QED BY <2>3, ToIntFits, ZenonT(60)
<1>2. \A t \in Range(ts.timers) : \E i \in DOMAIN ts.timers : t = ts.timers[i]
    BY ZenonT(60) DEF Range
<1>3. \A i \in DOMAIN ts.timers : ts.timers[i] \in Range(ts.timers)
    BY ZenonT(60) DEF Range
<1>4. D \subseteq Nat
    <2>1. ASSUME NEW t \in Range(ts.timers) PROVE ToInt(t.left) \in Nat
        <3>1. PICK i \in DOMAIN ts.timers : t = ts.timers[i]
            BY <1>2, <2>1, ZenonT(60)
        <3> QED BY <1>1, <3>1, ZenonT(60)
    <2> QED BY <2>1, LoopAssumption, ZenonT(60)
<1>5. \A i \in DOMAIN ts.timers : ts.timers[i].left \in D
    BY <1>1, <1>3, ZenonT(60)
<1>6. IntMax \in D
    OBVIOUS
<1>7. MinDelay = Min(D)
    BY ZenonT(60) DEF MinDelay
<1> HIDE DEF D
<1>8. \E m \in D : \A d \in D : m <= d
    BY <1>4, <1>6, LeastMember, ZenonT(60)
<1>9. Min(D) \in D /\ \A d \in D : Min(D) <= d
    BY <1>8, ZenonT(60) DEF Min
<1> QED BY <1>4, <1>5, <1>7, <1>9, ZenonT(60)

LEMMA PollSleepInv == ASSUME SleepInv, Inv', PollSleep PROVE SleepInv'
<1>1. TimersOK' /\ ts' = ts /\ driver' = driver
    BY SMTT(60) DEF SleepInv, TimersOK, PollSleep
<1>2. CASE stage' \notin {"poll", "asleep"}
    BY <1>1, <1>2, AwakeInv, ZenonT(60)
<1>3. CASE stage' = "asleep" /\ left' = (IF MinDelay < 0 THEN Forever ELSE MinDelay)
    <2>1. \A i \in DOMAIN ts.timers : ts.timers[i].left > 0
        <3> DEFINE S == {i \in DOMAIN ts.timers : ts.timers[i].left <= 0}
        <3>1. S \subseteq Nat \ {0}
            BY SMTT(60) DEF SleepInv, TimersOK
        <3>2. First(S) = 0
            BY ZenonT(60) DEF PollSleep, ExpiredTimer
        <3>3. S = {}
            BY <3>1, <3>2, FirstFinds, ZenonT(60)
        <3>4. ASSUME NEW i \in DOMAIN ts.timers PROVE ts.timers[i].left > 0
            <4>1. ts.timers[i] \in Timers
                BY <3>4, SMTT(60) DEF SleepInv, TimersOK
            <4>2. ts.timers[i].left \in Int
                BY <4>1, SMTT(60) DEF Timers, Fitting
            <4>3. ~(ts.timers[i].left <= 0)
                BY <3>3, <3>4, ZenonT(60)
            <4> QED BY <4>2, <4>3, SMTT(60)
        <3> QED BY <3>4, ZenonT(60)
    <2>2. CASE ts.timers = <<>>
        <3>1. left' = Forever
            BY <1>3, <2>2, SMTT(60) DEF MinDelay, Forever
        <3> QED BY <1>1, <1>3, <2>2, <3>1, SMTT(60) DEF SleepInv, PollsIdle, SleepExact, PollSleep, Forever
    <2>3. CASE ts.timers # <<>>
        <3>1. MinDelay \in Nat /\ \A i \in DOMAIN ts.timers : MinDelay <= ts.timers[i].left
            BY <2>1, <2>3, MinDelayLeast, ZenonT(60) DEF SleepInv
        <3>2. left' = MinDelay /\ left' # Forever
            BY <1>3, <3>1, SMTT(60) DEF Forever
        <3>3. PollsIdle'
            BY <1>1, SMTT(60) DEF SleepInv, PollsIdle, PollSleep
        <3>4. SleepExact'
            BY <1>1, <1>3, <3>1, <3>2, <3>3, ZenonT(60) DEF SleepExact, PollsIdle
        <3> QED BY <1>1, <3>1, <3>2, <3>3, <3>4, ZenonT(60) DEF SleepInv
    <2> QED BY <2>2, <2>3, ZenonT(60)
<1> QED BY <1>2, <1>3, ZenonT(60) DEF PollSleep, Fail

\* js_os_run_timers restarts an interval or takes the timer off the list.
LEMMA PollTimerTimers == ASSUME SleepInv, PollTimer PROVE TimersOK'
<1> DEFINE S == {i \in DOMAIN ts.timers : ts.timers[i].left <= 0}
           n == ExpiredTimer
           t == ts.timers[n]
           new == IF t.repeats THEN [ts.timers EXCEPT ![n].left = t.delay] ELSE Dropped(ts.timers, n)
<1>1. n \in DOMAIN ts.timers
    <2>1. S \subseteq Nat \ {0}
        BY SMTT(60) DEF SleepInv, TimersOK
    <2>2. n \in {0} \cup DOMAIN ts.timers
        BY <2>1, FirstMatches, ZenonT(60) DEF ExpiredTimer
    <2> QED BY <2>2, ZenonT(60) DEF PollTimer
<1>2. t \in Timers
    BY <1>1, SMTT(60) DEF SleepInv, TimersOK
<1>3. t.delay \in Fitting
    BY <1>2, ZenonT(60) DEF Timers
<1>4. [t EXCEPT !.left = t.delay] \in Timers
    BY <1>2, <1>3, TimerLeft, ZenonT(60)
<1>5. ts' = [ts EXCEPT !.timers = new]
    BY ZenonT(60) DEF PollTimer
<1>6. [ts.timers EXCEPT ![n].left = t.delay] = [ts.timers EXCEPT ![n] = [t EXCEPT !.left = t.delay]]
    BY ZenonT(60)
<1>7. [ts.timers EXCEPT ![n] = [t EXCEPT !.left = t.delay]] \in Seq(Timers)
    <2> DEFINE r == [t EXCEPT !.left = t.delay]
    <2>1. r \in Timers
        BY <1>4, ZenonT(60)
    <2> HIDE DEF r, n
    <2>2. [ts.timers EXCEPT ![n] = r] \in Seq(Timers)
        BY <1>1, <2>1, SMTT(60) DEF SleepInv, TimersOK
    <2> QED BY <2>2, ZenonT(60) DEF r
<1>8. Dropped(ts.timers, n) \in Seq(Timers)
    BY <1>1, DroppedType, ZenonT(60) DEF SleepInv, TimersOK
<1>9. new \in Seq(Timers)
    BY <1>6, <1>7, <1>8, ZenonT(60)
<1> HIDE DEF new
<1> QED BY <1>5, <1>9, TimersKept, ZenonT(60) DEF SleepInv

\* Time passes for the sleep and for all timers alike.
LEMMA TickInv == ASSUME SleepInv, Inv', Tick PROVE SleepInv'
<1> DEFINE new == [i \in DOMAIN ts.timers |-> Aged(ts.timers[i])]
<1>1. ts' = [ts EXCEPT !.timers = new]
    BY ZenonT(60) DEF Tick
<1>2. ASSUME NEW i \in DOMAIN ts.timers
      PROVE new[i] \in Timers /\ new[i].left = Later(ts.timers[i].left) /\ ts.timers[i].left \in Int
    <2>1. ts.timers[i] \in Timers
        BY <1>2, SMTT(60) DEF SleepInv, TimersOK
    <2>2. new[i] = Aged(ts.timers[i])
        BY <1>2, ZenonT(60)
    <2> QED BY <2>1, <2>2, AgedTimer, ZenonT(60)
<1>3. DOMAIN new = DOMAIN ts.timers /\ DOMAIN ts.timers = 1 .. Len(ts.timers) /\ Len(ts.timers) \in Nat
    BY SMTT(60) DEF SleepInv, TimersOK
<1>4. \A i \in 1 .. Len(ts.timers) : new[i] \in Timers
    BY <1>2, <1>3, ZenonT(60)
<1>5. new = [i \in 1 .. Len(ts.timers) |-> new[i]]
    BY <1>3, ZenonT(60)
<1> HIDE DEF new
<1>6. new \in Seq(Timers)
    BY <1>3, <1>4, <1>5, SeqDef, SMTT(60)
<1>7. TimersOK' /\ ts'.timers = new /\ ts'.jobs = ts.jobs /\ ts'.rejected = ts.rejected
    BY <1>1, <1>6, TimersKept, ZenonT(60) DEF SleepInv
<1>8. CASE stage # "asleep"
    BY <1>7, <1>8, AwakeInv, SMTT(60) DEF Tick
<1>9. CASE stage = "asleep"
    <2>1. left' = Later(left) /\ stage' = stage /\ driver' = driver /\ left \in Nat \cup {Forever}
        BY <1>9, SMTT(60) DEF SleepInv, Tick
    <2>2. PollsIdle' /\ (driver' = "loop" => ts'.jobs = 0 /\ ts'.rejected = {})
        BY <1>7, <1>9, <2>1, SMTT(60) DEF SleepInv, PollsIdle
    <2>3. CASE left = Forever
        <3>1. ts.timers = <<>> /\ left' = Forever
            BY <1>9, <2>1, <2>3, SMTT(60) DEF SleepInv, SleepExact, Later, Forever
        <3>2. new = <<>>
            BY <1>3, <1>6, <3>1, SMTT(60)
        <3> QED BY <1>7, <2>1, <2>2, <3>1, <3>2, ZenonT(60) DEF SleepInv, SleepExact
    <2>4. CASE left # Forever
        <3>1. left' \in Nat /\ left' # Forever
            BY <2>1, <2>4, SMTT(60) DEF Later, Forever
        <3>2. ASSUME NEW i \in DOMAIN new PROVE left' <= new[i].left
            <4>1. left <= ts.timers[i].left /\ i \in DOMAIN ts.timers
                BY <1>3, <1>9, <2>4, <3>2, ZenonT(60) DEF SleepInv, SleepExact
            <4>2. new[i].left = Later(ts.timers[i].left) /\ ts.timers[i].left \in Int
                BY <1>2, <4>1, ZenonT(60)
            <4> QED BY <2>1, <2>4, <4>1, <4>2, SMTT(60) DEF Later
        <3> QED BY <1>7, <2>1, <2>2, <3>1, <3>2, ZenonT(60) DEF SleepInv, SleepExact
    <2> QED BY <2>3, <2>4, ZenonT(60)
<1> QED BY <1>8, <1>9, ZenonT(60)

\* The other steps: they leave the timers alone, and the thread goes to sleep in
\* none of them.
LEMMA OtherStepsTimers ==
    ASSUME SleepInv, Turn \/ CallReturns \/ CallThrows \/ PollSignal \/ Wake \/ TimeOut
    PROVE TimersOK'
<1>1. CASE ts' = ts
    BY <1>1, SMTT(60) DEF SleepInv, TimersOK
<1>2. CASE ts' = [ts EXCEPT !.settled = TRUE]
    BY <1>2, OthersKept, ZenonT(60) DEF SleepInv
<1>3. CASE ts.jobs > 0 /\ ts' = [ts EXCEPT !.jobs = @ - 1]
    BY <1>3, SMTT(60) DEF SleepInv, TimersOK
<1>4. CASE Turn
    BY <1>1, <1>3, <1>4, ZenonT(60) DEF Turn
<1>5. CASE CallThrows
    BY <1>1, <1>2, <1>5, SMTT(60) DEF CallThrows
<1>6. CASE CallReturns \/ PollSignal \/ Wake \/ TimeOut
    BY <1>1, <1>6, ZenonT(60) DEF CallReturns, PollSignal, Wake, TimeOut
<1> QED BY <1>4, <1>5, <1>6, ZenonT(60)

LEMMA SleepStep == ASSUME DelaysFit, SleepInv, Inv', LoopNext PROVE SleepInv'
<1>1. CASE Operate
    <2>1. TimersOK'
        BY <1>1, OperateTimers, ZenonT(60) DEF SleepInv
    <2>2. stage' \notin {"poll", "asleep"}
        BY <1>1, SMTT(60) DEF Operate
    <2> QED BY <2>1, <2>2, AwakeInv, ZenonT(60)
<1>2. CASE Turn
    <2>1. TimersOK'
        BY <1>2, OtherStepsTimers, ZenonT(60)
    <2>2. PollsIdle' /\ stage' # "asleep"
        BY <1>2, SMTT(60) DEF SleepInv, TimersOK, PollsIdle, Turn, Call
    <2> QED BY <2>1, <2>2, ZenonT(60) DEF SleepInv, SleepExact
<1>3. CASE CallReturns \/ CallThrows
    <2>1. TimersOK'
        BY <1>3, OtherStepsTimers, ZenonT(60)
    <2>2. stage' # "asleep" /\ (stage' = "poll" => driver' # "loop")
        BY <1>3, SMTT(60) DEF CallReturns, CallThrows, Fail
    <2> QED BY <2>1, <2>2, ZenonT(60) DEF SleepInv, SleepExact, PollsIdle
<1>4. CASE PollSignal \/ Wake \/ TimeOut
    <2>1. TimersOK'
        BY <1>4, OtherStepsTimers, ZenonT(60)
    <2>2. stage' \notin {"poll", "asleep"}
        <3>1. CASE Wake
            <4> DEFINE i == Served(Reports)
            <4>1. i # 0 => Polled[i][1] \in {"fd", "port"}
                BY ServedFacts, PolledFacts, SMTT(60) DEF SleepInv, Inv
            <4>2. CASE i = 0
                BY <3>1, <4>2, SMTT(60) DEF Wake
            <4>3. CASE i # 0 /\ Polled[i][1] = "fd"
                BY <3>1, <4>3, SMTT(60) DEF Wake, Call
            <4>4. CASE i # 0 /\ Polled[i][1] = "port"
                BY <3>1, <4>4, SMTT(60) DEF Wake, Receive, Call
            <4> QED BY <4>1, <4>2, <4>3, <4>4, ZenonT(60)
        <3> QED BY <1>4, <3>1, SMTT(60) DEF PollSignal, TimeOut, Call
    <2> QED BY <2>1, <2>2, AwakeInv, ZenonT(60)
<1>5. CASE PollTimer
    <2>1. stage' \notin {"poll", "asleep"}
        BY <1>5, SMTT(60) DEF PollTimer, Call
    <2> QED BY <1>5, <2>1, PollTimerTimers, AwakeInv, ZenonT(60)
<1>6. CASE PollSleep
    BY <1>6, PollSleepInv, ZenonT(60)
<1>7. CASE Tick
    BY <1>7, TickInv, ZenonT(60)
<1>8. ASSUME NEW p \in Ports, Post(p) PROVE SleepInv'
    BY <1>8, ZenonT(60) DEF Post, SleepInv, TimersOK, PollsIdle, SleepExact
<1>9. ASSUME NEW s \in Signals, Raise(s) PROVE SleepInv'
    <2>1. ts' = ts /\ driver' = driver /\ left' = left /\ TimersOK'
        BY <1>9, ZenonT(60) DEF Raise, SleepInv, TimersOK
    <2>2. stage' = stage \/ stage' \notin {"poll", "asleep"}
        BY <1>9, SMTT(60) DEF Raise, Fail
    <2> QED BY <2>1, <2>2, AwakeInv, ZenonT(60) DEF SleepInv, PollsIdle, SleepExact
<1>10. ASSUME NEW fd \in Fds, NEW dir \in Directions, ReadyChanges(fd, dir) PROVE SleepInv'
    BY <1>10, ZenonT(60) DEF ReadyChanges, SleepInv, TimersOK, PollsIdle, SleepExact
<1> QED BY <1>1, <1>2, <1>3, <1>4, <1>5, <1>6, <1>7, <1>8, <1>9, <1>10, ZenonT(60) DEF LoopNext, Step, World

\* js_os_poll_internal sleeps through no message, and, as long as the delays fit
\* an int, no longer than until the first timer is due, and js_std_loop not while
\* a job or a rejection is pending: for any number of timers, ports, handles and
\* signals, and whatever the program does in its handlers.
THEOREM LoopSleepsThroughNothing == DelaysFit => (LoopSpec => []NothingSleptThrough)
<1> SUFFICES ASSUME DelaysFit PROVE LoopSpec => []NothingSleptThrough
    OBVIOUS
<1>1. LoopInit => SleepInv
    BY InitInv DEF LoopInit, SleepInv, TimersOK, PollsIdle, SleepExact
<1>2. SleepInv /\ [LoopNext]_loop => SleepInv'
    <2> SUFFICES ASSUME SleepInv, [LoopNext]_loop PROVE SleepInv'
        OBVIOUS
    <2>1. Inv'
        BY LoopStepInv DEF SleepInv
    <2>2. CASE UNCHANGED loop
        BY <2>1, <2>2, ZenonT(60) DEF loop, SleepInv, TimersOK, PollsIdle, SleepExact
    <2>3. CASE LoopNext
        BY <2>1, <2>3, SleepStep, ZenonT(60)
    <2> QED BY <2>2, <2>3
<1>3. SleepInv => NothingSleptThrough
    BY DEF SleepInv, Inv, NothingSleptThrough
<1> QED BY <1>1, <1>2, <1>3, PTL DEF LoopSpec
==============================================================================
