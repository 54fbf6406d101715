------------------------------- MODULE Workers -------------------------------
(***************************************************************************)
(* Workers, their message pipes and the shared buffers that travel in       *)
(* messages (src/api/turbojs-libc.c).  A worker has two pipes, each held by *)
(* a count: by the thread state of the worker, by the Worker objects at    *)
(* both ends and by the handlers set with onmessage.  A shared buffer is   *)
(* held by a count as well: by the SharedArrayBuffer objects of all        *)
(* threads and by the messages on their way.  Any thread may drop the last *)
(* hold.                                                                   *)
(***************************************************************************)
EXTENDS Integers, Sequences, FiniteSets, FiniteSetsExt, SequencesExt

CONSTANTS
    Main, Workers,
    Buffers,
    MaxQueue,     \* bound: messages in a pipe
    MaxObjects    \* bound: objects of one buffer in one thread

VARIABLES
    thread,       \* stage of the thread of each worker
    object,       \* the Worker object of the main thread: "none", "live", "dropped"
    handler,      \* handler[t][w]: thread t has an onmessage handler for worker w
    refs,         \* refs[w][d]: ref_count of the pipe of w in direction d
    queue,        \* queue[w][d]: its msg_queue, a message being its sab_tab: how often
                  \* each buffer is in it
    hand,         \* hand[t]: the message thread t has taken, and whether it is read
    objects,      \* objects[t][b]: SharedArrayBuffer objects for b in thread t
    count         \* count[b]: ref_count of a buffer, Freed once it is freed

vars == <<thread, object, handler, refs, queue, hand, objects, count>>

Everyone == {Main} \cup Workers
Freed == -1

\* The main thread sends down and receives from up; a worker the other way.
Sends(t) == IF t = Main THEN "down" ELSE "up"
Receives(t) == IF t = Main THEN "up" ELSE "down"

\* Thread t has a Worker object for worker w: Worker.parent in the worker.
Has(t, w) == IF t = Main THEN object[w] = "live" ELSE t = w /\ thread[w] = "running"

\* js_sab_free and js_sab_dup: n[b] holds of each buffer given up, or taken.
Minus(c, n) == [b \in Buffers |-> IF c[b] = Freed THEN Freed
                                  ELSE IF n[b] > 0 /\ c[b] = n[b] THEN Freed ELSE c[b] - n[b]]
Plus(c, n) == [b \in Buffers |-> IF c[b] = Freed THEN Freed ELSE c[b] + n[b]]
Nothing == [b \in Buffers |-> 0]
Once(b) == [Nothing EXCEPT ![b] = 1]
Sum2(f, g) == [b \in Buffers |-> f[b] + g[b]]
Held(q) == FoldSeq(Sum2, Nothing, q)

Empty == [taken |-> FALSE, message |-> Nothing, read |-> FALSE]

\* js_free_message_pipe, k[d] times for the pipe of w in direction d; the last
\* one frees the messages in it.
Lost(w, k, d) == IF k[d] > 0 /\ refs[w][d] = k[d] THEN Held(queue[w][d]) ELSE Nothing
Release(w, k, n) ==
    /\ refs' = [refs EXCEPT ![w] = [d \in {"down", "up"} |-> @[d] - k[d]]]
    /\ queue' = [queue EXCEPT ![w] = [d \in {"down", "up"} |->
                     IF k[d] > 0 /\ refs[w][d] = k[d] THEN <<>> ELSE @[d]]]
    /\ count' = Minus(count, Sum2(n, Sum2(Lost(w, k, "down"), Lost(w, k, "up"))))

(***************************************************************************)
(* Workers come and go.                                                    *)
(***************************************************************************)
\* js_worker_ctor: one hold on each pipe for the thread, one for the object.
\* When a step of it fails, all it made is freed again.
Create(w) ==
    /\ object[w] = "none"
    /\ object' = [object EXCEPT ![w] = "live"]
    /\ thread' = [thread EXCEPT ![w] = "started"]
    /\ refs' = [refs EXCEPT ![w] = [down |-> 2, up |-> 2]]
    /\ UNCHANGED <<handler, queue, hand, objects, count>>

\* js_os_init in the worker makes Worker.parent.
Import(w) ==
    /\ thread[w] = "started"
    /\ thread' = [thread EXCEPT ![w] = "running"]
    /\ refs' = [refs EXCEPT ![w] = [down |-> @.down + 1, up |-> @.up + 1]]
    /\ UNCHANGED <<object, handler, queue, hand, objects, count>>

Handler(t, w) == [d \in {"down", "up"} |-> IF handler[t][w] /\ d = Receives(t) THEN 1 ELSE 0]

\* js_worker_finalizer, when the main thread drops its Worker object or finds it
\* unreachable; a collection may also come while a message is being read.
DropWorker(w) ==
    /\ object[w] = "live"
    /\ object' = [object EXCEPT ![w] = "dropped"]
    /\ handler' = [handler EXCEPT ![Main][w] = FALSE]
    /\ Release(w, [d \in {"down", "up"} |-> 1 + Handler(Main, w)[d]], Nothing)
    /\ UNCHANGED <<thread, hand, objects>>

\* The loop of the worker ends: js_std_free_handlers gives up the pipes of its
\* thread state.
End(w) ==
    /\ thread[w] \in {"started", "running"} /\ ~hand[w].taken
    /\ thread' = [thread EXCEPT ![w] = IF @ = "running" THEN "ending" ELSE "gone"]
    /\ Release(w, [d \in {"down", "up"} |-> 1], Nothing)
    /\ UNCHANGED <<object, handler, hand, objects>>

\* Then JS_FreeRuntime finalizes Worker.parent and the buffers of the worker.
Finalize(w) ==
    /\ thread[w] = "ending"
    /\ thread' = [thread EXCEPT ![w] = "gone"]
    /\ handler' = [handler EXCEPT ![w][w] = FALSE]
    /\ objects' = [objects EXCEPT ![w] = Nothing]
    /\ Release(w, [d \in {"down", "up"} |-> 1 + Handler(w, w)[d]], objects[w])
    /\ UNCHANGED <<object, hand>>

\* js_worker_set_onmessage.
SetOnMessage(t, w, on) ==
    /\ Has(t, w) /\ ~hand[t].taken
    /\ handler[t][w] # on
    /\ handler' = [handler EXCEPT ![t][w] = on]
    /\ refs' = [refs EXCEPT ![w][Receives(t)] = IF on THEN @ + 1 ELSE @ - 1]
    /\ UNCHANGED <<thread, object, queue, hand, objects, count>>

(***************************************************************************)
(* Messages and buffers.                                                   *)
(***************************************************************************)
\* js_array_buffer_constructor3 with js_sab_alloc; a worker that never imports os
\* is left out.
Allocate(t, b) ==
    /\ count[b] = 0
    /\ t \in Workers => thread[t] = "running"
    /\ count' = [count EXCEPT ![b] = 1]
    /\ objects' = [objects EXCEPT ![t][b] = 1]
    /\ UNCHANGED <<thread, object, handler, refs, queue, hand>>

\* js_array_buffer_finalizer.
DropBuffer(t, b) ==
    /\ objects[t][b] > 0
    /\ objects' = [objects EXCEPT ![t][b] = @ - 1]
    /\ count' = Minus(count, Once(b))
    /\ UNCHANGED <<thread, object, handler, refs, queue, hand>>

\* Mutant of Post: the message does not hold its buffers.
PostUncounted(t, w, m) ==
    /\ Has(t, w) /\ ~hand[t].taken
    /\ \A b \in Buffers : m[b] <= objects[t][b]
    /\ Len(queue[w][Sends(t)]) < MaxQueue
    /\ queue' = [queue EXCEPT ![w][Sends(t)] = Append(@, m)]
    /\ UNCHANGED <<thread, object, handler, refs, hand, objects, count>>

\* js_worker_postMessage: the message holds a buffer once for each object of it
\* that was written.  It is one step: between the counting and the queue the
\* buffers have the objects of the sender to hold them.
Post(t, w, m) ==
    /\ Has(t, w) /\ ~hand[t].taken
    /\ \A b \in Buffers : m[b] <= objects[t][b]
    /\ Len(queue[w][Sends(t)]) < MaxQueue
    /\ queue' = [queue EXCEPT ![w][Sends(t)] = Append(@, m)]
    /\ count' = Plus(count, m)
    /\ UNCHANGED <<thread, object, handler, refs, hand, objects>>

\* handle_posted_message takes a message, under the mutex of the pipe.
Take(t, w) ==
    /\ handler[t][w] /\ ~hand[t].taken
    /\ queue[w][Receives(t)] # <<>>
    /\ hand' = [hand EXCEPT ![t] = [taken |-> TRUE, message |-> Head(queue[w][Receives(t)]), read |-> FALSE]]
    /\ queue' = [queue EXCEPT ![w][Receives(t)] = Tail(@)]
    /\ UNCHANGED <<thread, object, handler, refs, objects, count>>

\* JS_ReadObject makes objects, which hold the buffers too, or fails.
Read(t) ==
    /\ hand[t].taken /\ ~hand[t].read
    /\ \A b \in Buffers : objects[t][b] + hand[t].message[b] <= MaxObjects
    /\ \/ /\ objects' = [objects EXCEPT ![t] = Sum2(@, hand[t].message)]
          /\ count' = Plus(count, hand[t].message)
       \/ UNCHANGED <<objects, count>>
    /\ hand' = [hand EXCEPT ![t].read = TRUE]
    /\ UNCHANGED <<thread, object, handler, refs, queue>>

\* js_free_message, after it is read.
FreeMessage(t) ==
    /\ hand[t].taken /\ hand[t].read
    /\ hand' = [hand EXCEPT ![t] = Empty]
    /\ count' = Minus(count, hand[t].message)
    /\ UNCHANGED <<thread, object, handler, refs, queue, objects>>

Init ==
    /\ thread = [w \in Workers |-> "none"]
    /\ object = [w \in Workers |-> "none"]
    /\ handler = [t \in Everyone |-> [w \in Workers |-> FALSE]]
    /\ refs = [w \in Workers |-> [down |-> 0, up |-> 0]]
    /\ queue = [w \in Workers |-> [down |-> <<>>, up |-> <<>>]]
    /\ hand = [t \in Everyone |-> Empty]
    /\ objects = [t \in Everyone |-> Nothing]
    /\ count = [b \in Buffers |-> 0]

Next ==
    \/ \E w \in Workers : Create(w) \/ Import(w) \/ DropWorker(w) \/ End(w) \/ Finalize(w)
    \/ \E t \in Everyone, w \in Workers :
           \/ \E on \in BOOLEAN : SetOnMessage(t, w, on)
           \/ \E m \in [Buffers -> 0 .. MaxObjects] : Post(t, w, m)
           \/ Take(t, w)
    \/ \E t \in Everyone : Read(t) \/ FreeMessage(t) \/ \E b \in Buffers : Allocate(t, b) \/ DropBuffer(t, b)

Spec == Init /\ [][Next]_vars

(***************************************************************************)
(* Properties.                                                             *)
(***************************************************************************)
One(p) == IF p THEN 1 ELSE 0

\* The holders of the pipe of w in direction d.
Holders(w, d) ==
    LET t == IF d = "up" THEN Main ELSE w     \* the thread that receives
    IN One(thread[w] \in {"started", "running"}) + One(thread[w] \in {"running", "ending"})
       + One(object[w] = "live") + One(handler[t][w])

OnTheWay(b) ==
    MapThenSumSet(LAMBDA w : Held(queue[w].down)[b] + Held(queue[w].up)[b], Workers)
    + MapThenSumSet(LAMBDA t : hand[t].message[b], Everyone)

\* A pipe counts its holders, and one that is freed holds no message: what
\* js_free_message_pipe asserts.  A buffer counts the objects of all threads
\* and the messages on their way, and it is freed exactly when the last of
\* them is gone, whichever thread lets go last.
SharedExact ==
    /\ \A w \in Workers, d \in {"down", "up"} :
           refs[w][d] = Holders(w, d) /\ (queue[w][d] # <<>> => refs[w][d] > 0)
    /\ \A b \in Buffers :
           LET held == MapThenSumSet(LAMBDA t : objects[t][b], Everyone) + OnTheWay(b)
           IN IF count[b] = Freed THEN held = 0 ELSE count[b] = held
=============================================================================
