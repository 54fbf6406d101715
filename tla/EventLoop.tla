------------------------------ MODULE EventLoop ------------------------------
(***************************************************************************)
(* The event loop of the main thread (src/api/turbojs-libc.c): js_std_await *)
(* drives it until the promise of the main module is settled, js_std_loop  *)
(* from then on.  A turn runs pending jobs, looks at the rejections nobody *)
(* handled, and polls: signals, one expired timer, then the file handles   *)
(* and the ports of workers.                                               *)
(*                                                                         *)
(* The program is what it may do inside a call: operations of the os       *)
(* module in any order, then a return or an exception.  Time, file         *)
(* handles, signals and the workers at the other ends of the ports are the *)
(* environment.  A timer holds the time left instead of the time it ends.  *)
(* The program has imported os, so that can_js_os_poll is set.             *)
(***************************************************************************)
EXTENDS Integers, Sequences, FiniteSets, FiniteSetsExt, Functions

CONSTANTS
    Fds, Ports, Signals, Promises,
    Delays,       \* delays given to setTimeout and sleepAsync
    Intervals,    \* delays given to setInterval
    IntMax,       \* the largest int: a delay is an int64_t, min_delay an int
    MaxTimers,    \* bound: timers made
    MaxOps,       \* bound: operations of the program
    MaxPosts,     \* bound: messages posted by workers
    MaxRaised,    \* bound: signals raised
    MaxBusy       \* bound: milliseconds spent in one call

ASSUME LoopAssumption == IntMax \in Nat \ {0} /\ Delays \cup Intervals \subseteq Int

VARIABLES
    ts,           \* JSThreadState, with the job queue and the awaited promise
    driver,       \* who runs the loop: js_std_await or js_std_loop
    stage,        \* where the thread is
    caller,       \* in a call: who called the program
    left,         \* in a sleep: the time left, or Forever
    signals,      \* os_pending_signals
    ready,        \* <<file handle, direction>> that poll would report
    queue,        \* msg_queue of the pipe behind each port
    waker,        \* bytes in the pipe that wakes a poll of the port up
    done          \* what the bounds count

loop == <<ts, driver, stage, caller, left, signals, ready, queue, waker, done>>

Forever == -1
Directions == {"in", "out"}

Entries == [fd: Fds, dirs: SUBSET Directions]

\* A list is searched from its head: the first of the positions that match, 0 if
\* there is none.
First(S) == IF S = {} THEN 0 ELSE CHOOSE i \in S : \A j \in 1 .. i - 1 : j \notin S

\* Takes an entry out of a list.
Dropped(seq, i) == IF i = 0 THEN seq ELSE SubSeq(seq, 1, i - 1) \o SubSeq(seq, i + 1, Len(seq))

(***************************************************************************)
(* Operations of the program on the thread state.                          *)
(***************************************************************************)
\* js_os_setTimeout and setInterval, which wait for a millisecond at least, and
\* js_os_sleepAsync, whose timer has no identifier and may be due at once.
AtLeastOne(d) == IF d < 1 THEN 1 ELSE d

NewTimer(id, d, repeats) ==
    [ts EXCEPT !.timers = Append(@, [id |-> id, left |-> d, delay |-> d, repeats |-> repeats])]

\* js_os_clearTimeout: an identifier that is not found is ignored.
ClearTimer(id) == [ts EXCEPT !.timers = Dropped(@, First({i \in DOMAIN @ : @[i].id = id}))]

\* js_os_setReadHandler and setWriteHandler: the entry of a file handle holds
\* both functions, and goes when neither is left.
SetHandler(fd, dir, on) ==
    LET i == First({j \in DOMAIN ts.rw : ts.rw[j].fd = fd})
        old == IF i = 0 THEN {} ELSE ts.rw[i].dirs
        entry == [fd |-> fd, dirs |-> IF on THEN old \cup {dir} ELSE old \ {dir}]
    IN [ts EXCEPT !.rw = CASE entry.dirs = {} -> Dropped(ts.rw, i)
                           [] entry.dirs # {} /\ i = 0 -> Append(ts.rw, entry)
                           [] OTHER -> [ts.rw EXCEPT ![i] = entry]]

\* js_worker_set_onmessage.
SetOnMessage(p, on) ==
    LET i == First({j \in DOMAIN ts.ports : ts.ports[j] = p})
    IN [ts EXCEPT !.ports = IF ~on THEN Dropped(ts.ports, i)
                            ELSE IF i = 0 THEN Append(ts.ports, p) ELSE ts.ports]

\* js_os_signal.
SetSignal(s, on) ==
    LET i == First({j \in DOMAIN ts.handlers : ts.handlers[j] = s})
    IN [ts EXCEPT !.handlers = IF ~on THEN Dropped(ts.handlers, i)
                               ELSE IF i = 0 THEN Append(ts.handlers, s) ELSE ts.handlers]

\* js_std_promise_rejection_tracker.
Track(p, is_handled) == [ts EXCEPT !.rejected = IF is_handled THEN @ \ {p} ELSE @ \cup {p}]

Operate ==
    /\ stage = "call"
    /\ done.ops < MaxOps
    /\ \/ /\ done.timers < MaxTimers
          /\ \/ \E d \in Delays : ts' = NewTimer(done.timers + 1, AtLeastOne(d), FALSE)
             \/ \E d \in Intervals : ts' = NewTimer(done.timers + 1, AtLeastOne(d), TRUE)
             \/ \E d \in Delays : ts' = NewTimer(-1, d, FALSE)
          /\ done' = [done EXCEPT !.ops = @ + 1, !.timers = @ + 1]
       \/ /\ \/ \E id \in 1 .. MaxTimers : ts' = ClearTimer(id)
             \/ \E fd \in Fds, dir \in Directions, on \in BOOLEAN : ts' = SetHandler(fd, dir, on)
             \/ \E p \in Ports, on \in BOOLEAN : ts' = SetOnMessage(p, on)
             \/ \E s \in Signals, on \in BOOLEAN : ts' = SetSignal(s, on)
             \/ \E p \in Promises, is_handled \in BOOLEAN : ts' = Track(p, is_handled)
             \/ ts' = [ts EXCEPT !.jobs = @ + 1]
             \/ ts' = [ts EXCEPT !.settled = TRUE]
          /\ ts' # ts
          /\ done' = [done EXCEPT !.ops = @ + 1]
    /\ UNCHANGED <<driver, stage, caller, left, signals, ready, queue, waker>>

(***************************************************************************)
(* The turn of the loop.                                                   *)
(***************************************************************************)
Call(who) == stage' = "call" /\ caller' = who

\* js_os_poll gives up, or the program threw in a handler: js_std_loop ends,
\* js_std_await goes on.
Fail == stage' = IF driver = "loop" THEN "over" ELSE "turn"

\* One pending job, or the check of the rejections; js_std_await polls after
\* each job, js_std_loop once no job is left.
Turn ==
    /\ stage = "turn"
    /\ IF driver = "await" /\ ts.settled
       THEN driver' = "loop" /\ UNCHANGED <<stage, caller, ts>>
       ELSE /\ UNCHANGED driver
            /\ IF ts.jobs > 0
               THEN Call("job") /\ ts' = [ts EXCEPT !.jobs = @ - 1]
               ELSE /\ stage' = IF ts.rejected # {} THEN "exited" ELSE "poll"
                    /\ UNCHANGED <<caller, ts>>
    /\ UNCHANGED <<left, signals, ready, queue, waker, done>>

CallReturns ==
    /\ stage = "call"
    /\ stage' = IF caller = "job" /\ driver = "await" THEN "poll" ELSE "turn"
    /\ done' = [done EXCEPT !.busy = 0]
    /\ UNCHANGED <<ts, driver, caller, left, signals, ready, queue, waker>>

\* An exception in the main module rejects its promise; handle_posted_message
\* and js_std_await print it; a job or another handler ends js_std_loop.
CallThrows ==
    /\ stage = "call"
    /\ CASE caller = "script"  -> stage' = "turn" /\ ts' = [ts EXCEPT !.settled = TRUE]
         [] caller = "message" -> stage' = "turn" /\ UNCHANGED ts
         [] caller = "job"     -> stage' = (IF driver = "loop" THEN "over" ELSE "poll") /\ UNCHANGED ts
         [] OTHER              -> Fail /\ UNCHANGED ts
    /\ done' = [done EXCEPT !.busy = 0]
    /\ UNCHANGED <<driver, caller, left, signals, ready, queue, waker>>

(***************************************************************************)
(* js_os_poll_internal.                                                    *)
(***************************************************************************)
\* The conversion of a delay to int by the call of min_int.
ToInt(d) == ((d + IntMax + 1) % (2 * (IntMax + 1))) - (IntMax + 1)

\* Mutant of MinDelay: the last timer of the list decides.
MinDelayOfLast == IF ts.timers = <<>> THEN Forever ELSE ToInt(ts.timers[Len(ts.timers)].left)

\* *min_delay when js_os_run_timers finds no expired timer.
MinDelay ==
    IF ts.timers = <<>> THEN Forever
    ELSE Min({IntMax} \cup {ToInt(t.left) : t \in Range(ts.timers)})

PendingSignal == First({i \in DOMAIN ts.handlers : ts.handlers[i] \in signals})
ExpiredTimer == First({i \in DOMAIN ts.timers : ts.timers[i].left <= 0})

PollSignal ==
    /\ stage = "poll"
    /\ PendingSignal # 0
    /\ signals' = signals \ {ts.handlers[PendingSignal]}
    /\ Call("handler")
    /\ UNCHANGED <<ts, driver, left, ready, queue, waker, done>>

\* js_os_run_timers serves one expired timer, the first of the list.
PollTimer ==
    /\ stage = "poll"
    /\ PendingSignal = 0 /\ ExpiredTimer # 0
    /\ LET i == ExpiredTimer
           t == ts.timers[i]
       IN ts' = [ts EXCEPT !.timers = IF t.repeats THEN [@ EXCEPT ![i].left = t.delay] ELSE Dropped(@, i)]
    /\ Call("handler")
    /\ UNCHANGED <<driver, left, signals, ready, queue, waker, done>>

\* Nothing is due: the thread sleeps in poll, or in nanosleep when there is
\* nothing to poll.
PollSleep ==
    /\ stage = "poll"
    /\ PendingSignal = 0 /\ ExpiredTimer = 0
    /\ CASE MinDelay = 0 -> stage' = "turn" /\ UNCHANGED left
         [] MinDelay < 0 /\ ts.rw = <<>> /\ ts.ports = <<>> -> Fail /\ UNCHANGED left
         [] OTHER -> stage' = "asleep" /\ left' = (IF MinDelay < 0 THEN Forever ELSE MinDelay)
    /\ UNCHANGED <<ts, driver, caller, signals, ready, queue, waker, done>>

\* The array given to poll: the file handles, then the ports.
Polled == [i \in 1 .. Len(ts.rw) |-> <<"fd", ts.rw[i]>>] \o [i \in 1 .. Len(ts.ports) |-> <<"port", ts.ports[i]>>]

Hits(e) == {dir \in e.dirs : <<e.fd, dir>> \in ready}
Reported(x) == IF x[1] = "fd" THEN Hits(x[2]) # {} ELSE waker[x[2]] > 0
Reports == Cardinality({i \in DOMAIN Polled : Reported(Polled[i])})

\* A handler of the file that is ready, or of a port with a message.
CanCall(x) == IF x[1] = "fd" THEN Hits(x[2]) # {} ELSE queue[x[2]] # <<>>

\* poll returned: as many entries as it reported are looked at, from the first
\* one on, up to one whose handler can be called.
Served(n) == First({i \in 1 .. n : CanCall(Polled[i])})

Receive(p) ==
    /\ queue' = [queue EXCEPT ![p] = Tail(@)]
    /\ waker' = IF Len(queue[p]) = 1 THEN [waker EXCEPT ![p] = 0] ELSE waker
    /\ Call("message")

Wake ==
    /\ stage = "asleep"
    /\ Reports > 0
    /\ LET i == Served(Reports)
       IN CASE i = 0 -> stage' = "turn" /\ UNCHANGED <<caller, queue, waker>>
            [] i # 0 /\ Polled[i][1] = "fd" -> Call("handler") /\ UNCHANGED <<queue, waker>>
            [] i # 0 /\ Polled[i][1] = "port" -> Receive(Polled[i][2])
    /\ UNCHANGED <<ts, driver, left, signals, ready, done>>

TimeOut ==
    /\ stage = "asleep"
    /\ left = 0 /\ Reports = 0
    /\ stage' = "turn"
    /\ UNCHANGED <<ts, driver, caller, left, signals, ready, queue, waker, done>>

(***************************************************************************)
(* The environment.                                                        *)
(***************************************************************************)
\* js_worker_postMessage, in the thread of the worker.
Post(p) ==
    /\ done.posts < MaxPosts
    /\ waker' = IF queue[p] = <<>> THEN [waker EXCEPT ![p] = @ + 1] ELSE waker
    /\ queue' = [queue EXCEPT ![p] = Append(@, done.posts + 1)]
    /\ done' = [done EXCEPT !.posts = @ + 1]
    /\ UNCHANGED <<ts, driver, stage, caller, left, signals, ready>>

\* os_signal_handler.  A signal that comes before the thread is in the system
\* call does not end its sleep.
Raise(s) ==
    /\ done.raised < MaxRaised
    /\ s \in Range(ts.handlers)
    /\ signals' = signals \cup {s}
    /\ done' = [done EXCEPT !.raised = @ + 1]
    /\ \/ UNCHANGED stage
       \/ /\ stage = "asleep"
          /\ IF Polled = <<>> THEN s \notin signals /\ stage' = "turn" ELSE Fail
    /\ UNCHANGED <<ts, driver, caller, left, ready, queue, waker>>

ReadyChanges(fd, dir) ==
    /\ \E i \in DOMAIN ts.rw : ts.rw[i].fd = fd /\ dir \in ts.rw[i].dirs
    /\ ready' = IF <<fd, dir>> \in ready THEN ready \ {<<fd, dir>>} ELSE ready \cup {<<fd, dir>>}
    /\ UNCHANGED <<ts, driver, stage, caller, left, signals, queue, waker, done>>

Later(n) == IF n > 0 THEN n - 1 ELSE n
Aged(t) == [t EXCEPT !.left = Later(@)]

\* A millisecond passes, in a sleep or in a call.
Tick ==
    /\ \/ stage = "asleep" /\ left # 0 /\ UNCHANGED done
       \/ stage = "call" /\ done.busy < MaxBusy /\ done' = [done EXCEPT !.busy = @ + 1]
    /\ left' = IF stage = "asleep" THEN Later(left) ELSE left
    /\ ts' = [ts EXCEPT !.timers = [i \in DOMAIN @ |-> Aged(@[i])]]
    /\ UNCHANGED <<driver, stage, caller, signals, ready, queue, waker>>

LoopInit ==
    /\ ts = [timers |-> <<>>, rw |-> <<>>, ports |-> <<>>, handlers |-> <<>>,
             rejected |-> {}, jobs |-> 0, settled |-> FALSE]
    /\ driver = "await" /\ stage = "call" /\ caller = "script"
    /\ left = 0
    /\ signals = {} /\ ready = {}
    /\ queue = [p \in Ports |-> <<>>] /\ waker = [p \in Ports |-> 0]
    /\ done = [timers |-> 0, ops |-> 0, posts |-> 0, raised |-> 0, busy |-> 0]

Step == Turn \/ CallReturns \/ PollSignal \/ PollTimer \/ PollSleep \/ Wake \/ TimeOut
World ==
    \/ Tick
    \/ \E p \in Ports : Post(p)
    \/ \E s \in Signals : Raise(s)
    \/ \E fd \in Fds, dir \in Directions : ReadyChanges(fd, dir)
LoopNext == Operate \/ CallThrows \/ Step \/ World

LoopSpec == LoopInit /\ [][LoopNext]_loop

(***************************************************************************)
(* Properties.                                                             *)
(***************************************************************************)
\* Every component has its type.
LoopTypeOK ==
    /\ \A i \in DOMAIN ts.timers : /\ ts.timers[i].left \in 0 .. ts.timers[i].delay
                                   /\ ts.timers[i].id \in {-1} \cup 1 .. MaxTimers
    /\ \A i \in DOMAIN ts.rw : ts.rw[i].fd \in Fds /\ ts.rw[i].dirs \subseteq Directions
    /\ Range(ts.ports) \subseteq Ports /\ Range(ts.handlers) \subseteq Signals
    /\ ts.rejected \subseteq Promises /\ ts.jobs \in Nat /\ ts.settled \in BOOLEAN
    /\ driver \in {"await", "loop"} /\ caller \in {"script", "job", "handler", "message"}
    /\ stage \in {"turn", "call", "poll", "asleep", "over", "exited"}
    /\ left \in Nat \cup {Forever}
    /\ signals \subseteq Signals /\ ready \subseteq Fds \X Directions

\* A poll of a port wakes up exactly while a message waits for it: js_worker_postMessage
\* writes to the pipe when the queue was empty, handle_posted_message reads it
\* (and would block, with the mutex held, if it were empty) when it becomes so.
WakerExact == \A p \in Ports : waker[p] = IF queue[p] = <<>> THEN 0 ELSE 1

\* A sleep ends when the first timer is due, and has no end only if there is no
\* timer; js_std_loop does not sleep while a job is pending or a rejection is
\* neither handled nor reported.
SleepExact ==
    stage = "asleep" =>
        /\ IF left = Forever THEN ts.timers = <<>>
           ELSE \A i \in DOMAIN ts.timers : left <= ts.timers[i].left
        /\ driver = "loop" => ts.jobs = 0 /\ ts.rejected = {}

\* js_os_poll_internal sleeps through no timer and no message that is due.
NothingSleptThrough == WakerExact /\ SleepExact
=============================================================================
