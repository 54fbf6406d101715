------------------------------- MODULE Atomics -------------------------------
(***************************************************************************)
(* Atomics.wait and Atomics.notify (src/builtins/typed_array_builtin.c) on  *)
(* elements of shared buffers, by threads that use them as programs do: a  *)
(* thread waits while an element has a value it read, a thread that stores *)
(* a value then notifies every waiter, and anybody may wake up one waiter. *)
(*                                                                         *)
(* js_atomics_mutex protects the list of waiters, so that what a thread    *)
(* does between taking and releasing it is one step; the elements are not  *)
(* under the mutex.  js_cond_wait releases the mutex and takes it again in *)
(* another step, and what other threads do in between is what can go       *)
(* wrong.  A record of the list is on the stack of its thread; it keeps    *)
(* its place in the list as a number that grows with every list_add_tail.  *)
(***************************************************************************)
EXTENDS Integers, FiniteSets

CONSTANTS
    Threads,
    Blocking,     \* the threads whose runtime may block (can_block)
    Cells,        \* addresses of elements
    Numbers,      \* what an element may hold, 0 included
    Unset,        \* no element, no number
    MaxWaits,     \* bound: calls of wait
    MaxStores     \* bound: stores and single notifications

ASSUME AtomicsAssumption == Blocking \subseteq Threads /\ 0 \in Numbers /\ Unset \notin Cells

VARIABLES
    cell,         \* value of each element
    pc,           \* where each thread is
    ptr,          \* the element its call of wait or notify is about
    expected,     \* the value its wait compares with
    timed,        \* its wait has a timeout
    place,        \* place of its record in js_atomics_waiter_list, 0 if not linked
    signalled,    \* its condition variable has been signalled
    result,       \* what its wait is about to return
    last,         \* the place given last
    stores        \* what MaxStores counts

atomics == <<cell, pc, ptr, expected, timed, place, signalled, result, last, stores>>

AtomicsInit ==
    /\ cell = [c \in Cells |-> 0]
    /\ pc = [t \in Threads |-> "idle"]
    /\ ptr = [t \in Threads |-> Unset]
    /\ expected = [t \in Threads |-> Unset]
    /\ timed = [t \in Threads |-> FALSE]
    /\ place = [t \in Threads |-> 0]
    /\ signalled = [t \in Threads |-> FALSE]
    /\ result = [t \in Threads |-> "ok"]
    /\ last = 0
    /\ stores = 0

(***************************************************************************)
(* js_atomics_wait.                                                        *)
(***************************************************************************)
\* Mutant of Wait: the element is not compared again under the mutex.
WaitUnchecked(t, c, v, d) ==
    /\ pc[t] = "idle"
    /\ last < MaxWaits
    /\ t \in Blocking
    /\ ptr' = [ptr EXCEPT ![t] = c]
    /\ expected' = [expected EXCEPT ![t] = v]
    /\ timed' = [timed EXCEPT ![t] = d]
    /\ last' = last + 1
    /\ place' = [place EXCEPT ![t] = last + 1]
    /\ pc' = [pc EXCEPT ![t] = "asleep"]
    /\ UNCHANGED <<cell, signalled, result, stores>>

\* The comparison, under the mutex, and the record at the end of the list.  A
\* wait that finds another value, or a runtime that must not block, answers at
\* once and changes nothing.
Wait(t, c, v, d) ==
    /\ pc[t] = "idle"
    /\ last < MaxWaits
    /\ t \in Blocking
    /\ cell[c] = v
    /\ ptr' = [ptr EXCEPT ![t] = c]
    /\ expected' = [expected EXCEPT ![t] = v]
    /\ timed' = [timed EXCEPT ![t] = d]
    /\ last' = last + 1
    /\ place' = [place EXCEPT ![t] = last + 1]
    /\ pc' = [pc EXCEPT ![t] = "asleep"]
    /\ UNCHANGED <<cell, signalled, result, stores>>

\* js_cond_wait or js_cond_timedwait ends: it was signalled, its time is up,
\* or for no reason.
WakeUp(t, r) ==
    /\ pc[t] = "asleep"
    /\ r = "timed-out" => timed[t]
    /\ result' = [result EXCEPT ![t] = r]
    /\ pc' = [pc EXCEPT ![t] = "awake"]
    /\ UNCHANGED <<cell, ptr, expected, timed, place, signalled, last, stores>>

\* The thread has the mutex again, takes its record off the list if it is still
\* linked, and returns.  A record that a notification has taken off has no place
\* already, so that the test of "linked" needs no case of its own.
Unlink(t) ==
    /\ pc[t] = "awake"
    /\ place' = [place EXCEPT ![t] = 0]
    /\ signalled' = [signalled EXCEPT ![t] = FALSE]
    /\ ptr' = [ptr EXCEPT ![t] = Unset]
    /\ expected' = [expected EXCEPT ![t] = Unset]
    /\ timed' = [timed EXCEPT ![t] = FALSE]
    /\ result' = [result EXCEPT ![t] = "ok"]
    /\ pc' = [pc EXCEPT ![t] = "idle"]
    /\ UNCHANGED <<cell, last, stores>>

(***************************************************************************)
(* js_atomics_notify, and the store before it.                             *)
(***************************************************************************)
Linked(c) == {t \in Threads : place[t] # 0 /\ ptr[t] = c}

\* W are the first waiters for c in the list: one of them or all.
Foremost(W, c, one) ==
    IF one THEN \/ Linked(c) = {} /\ W = {}
                \/ \E w \in Linked(c) : W = {w} /\ \A t \in Linked(c) : place[w] <= place[t]
    ELSE W = Linked(c)

Notified(W) ==
    /\ place' = [t \in Threads |-> IF t \in W THEN 0 ELSE place[t]]
    /\ signalled' = [t \in Threads |-> signalled[t] \/ t \in W]

\* Atomics.store, or another operation on the element.
Store(t, c, v) ==
    /\ pc[t] = "idle"
    /\ stores < MaxStores
    /\ cell' = [cell EXCEPT ![c] = v]
    /\ ptr' = [ptr EXCEPT ![t] = c]
    /\ pc' = [pc EXCEPT ![t] = "stored"]
    /\ stores' = stores + 1
    /\ UNCHANGED <<expected, timed, place, signalled, result, last>>

\* The notification that follows the store.
Notify(t) ==
    /\ pc[t] = "stored"
    /\ \E W \in SUBSET Threads : Foremost(W, ptr[t], FALSE) /\ Notified(W)
    /\ ptr' = [ptr EXCEPT ![t] = Unset]
    /\ pc' = [pc EXCEPT ![t] = "idle"]
    /\ UNCHANGED <<cell, expected, timed, result, last, stores>>

\* A notification of one waiter.
NotifyOne(t, c) ==
    /\ pc[t] = "idle"
    /\ stores < MaxStores
    /\ \E W \in SUBSET Threads : Foremost(W, c, TRUE) /\ Notified(W)
    /\ stores' = stores + 1
    /\ UNCHANGED <<cell, pc, ptr, expected, timed, result, last>>

AtomicsNext == \E t \in Threads :
    \/ \E c \in Cells, v \in Numbers, d \in BOOLEAN : Wait(t, c, v, d)
    \/ \E r \in {"ok", "timed-out"} : WakeUp(t, r)
    \/ Unlink(t)
    \/ \E c \in Cells, v \in Numbers : Store(t, c, v)
    \/ Notify(t)
    \/ \E c \in Cells : NotifyOne(t, c)

AtomicsSpec == AtomicsInit /\ [][AtomicsNext]_atomics

(***************************************************************************)
(* Properties.                                                             *)
(***************************************************************************)
\* Every component has its type.
AtomicsTypeOK ==
    /\ cell \in [Cells -> Numbers]
    /\ pc \in [Threads -> {"idle", "asleep", "awake", "stored"}]
    /\ ptr \in [Threads -> Cells \cup {Unset}]
    /\ expected \in [Threads -> Numbers \cup {Unset}]
    /\ timed \in [Threads -> BOOLEAN]
    /\ place \in [Threads -> Nat]
    /\ signalled \in [Threads -> BOOLEAN]
    /\ result \in [Threads -> {"ok", "timed-out"}]
    /\ last \in Nat /\ stores \in Nat

\* The list holds records of threads inside wait only (a record is on the
\* stack of its thread), each once, and a thread that sleeps without a record
\* in the list has been signalled.
ListExact ==
    /\ \A t \in Threads : place[t] # 0 => pc[t] \in {"asleep", "awake"} /\ place[t] <= last /\ ~signalled[t]
    /\ \A t, u \in Threads : place[t] # 0 /\ place[t] = place[u] => t = u
    /\ \A t \in Threads : signalled[t] => pc[t] \in {"asleep", "awake"}
    /\ \A t \in Threads : pc[t] = "asleep" /\ place[t] = 0 => signalled[t]

\* No wake-up is lost: while a thread sleeps in js_atomics_wait although its
\* element does not have the value any more, the js_atomics_notify of some
\* thread that stored is still to come.
NoLostWakeup ==
    \A t \in Threads :
        pc[t] = "asleep" /\ place[t] # 0 /\ cell[ptr[t]] # expected[t]
            => \E u \in Threads : pc[u] = "stored" /\ ptr[u] = ptr[t]
==============================================================================
