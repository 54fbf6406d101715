------------------------------ MODULE Promises ------------------------------
(* The promises of a program: its calls of the constructor, of resolving    *)
(* functions, of then, catch and finally, of Promise.all, allSettled, any   *)
(* and race, its async functions, and the jobs of all of these.  A job runs *)
(* alone and the calls that a handler or the body of an async function      *)
(* makes before it returns, throws or awaits are calls of the program just  *)
(* before the job, so they need no actions of their own.  Allocation does   *)
(* not fail, nothing interrupts a job.                                      *)
EXTENDS PromiseOps, FiniteSets, SequencesExt

CONSTANTS Calls,      \* calls of combinators: the type, the items, whether the iterator then throws
          MaxCombs,   \* bound on the combinator calls made
          Arrays,     \* the array "values" of each of them, or the error made of it
          Functions,  \* activations of async functions
          Features    \* the calls the program may make: "then", "finally", "async"

VARIABLES heap,    \* see PromiseOps
          held,    \* pairs of resolving functions in the hands of the program
          comb,    \* the combinator calls made
          fn,      \* JSAsyncFunctionData of each activation
          finals   \* history: calls of finally, the promise and the one returned

vars == <<heap, held, comb, fn, finals>>

Args == Values \cup Made(heap)

User == [kind |-> "user"]

Init ==
  /\ heap = EmptyHeap
  /\ held = {} /\ comb = <<>> /\ finals = {}
  /\ fn = [k \in Functions |-> [state |-> "idle", cap |-> None]]

-----------------------------------------------------------------------------
(* Calls of the program *)

(* js_promise_constructor, js_promise_withResolvers: the executor keeps the functions *)
Construct ==
  /\ Room(heap, 1)
  /\ heap' = NewPromise(heap)
  /\ held' = held \cup {heap.nf + 1}
  /\ UNCHANGED <<comb, fn, finals>>

(* a call that changes nothing, the second one of a pair, is a stuttering step *)
CallHeld(f, value, rejected) ==
  /\ heap' = CallResolving(heap, f, value, rejected)
  /\ heap' # heap
  /\ UNCHANGED <<held, comb, fn, finals>>

(* js_promise_then, js_promise_catch *)
Then(p, onFulfilled, onRejected) ==
  /\ "then" \in Features
  /\ Room(heap, 1)
  /\ heap' = LET g == NewPromise(heap) IN PerformThen(g, p, onFulfilled, onRejected, g.nf)
  /\ UNCHANGED <<held, comb, fn, finals>>

(* js_promise_finally with a function *)
OnFinally(rejected) == [kind |-> "finally", rejected |-> rejected]

Finally(p) ==
  /\ "finally" \in Features
  /\ Room(heap, 1)
  /\ heap' = LET g == NewPromise(heap)
             IN  PerformThen(g, p, OnFinally(FALSE), OnFinally(TRUE), g.nf)
  /\ finals' = finals \cup {[of |-> p, result |-> heap.np + 1]}
  /\ UNCHANGED <<held, comb, fn>>

-----------------------------------------------------------------------------
(* Combinators *)

Element(c, i, rejected) ==
  [kind |-> "element", comb |-> c, index |-> i, rejected |-> rejected]

(* the handlers js_promise_all and js_promise_race give item i of call c, *)
(* whose result has the functions f                                       *)
Handlers(type, c, i, f) ==
  CASE type = "all"        -> <<Element(c, i, FALSE), Resolver(f, TRUE)>>
    [] type = "allSettled" -> <<Element(c, i, FALSE), Element(c, i, TRUE)>>
    [] type = "any"        -> <<Resolver(f, FALSE), Element(c, i, FALSE)>>
    [] type = "race"       -> <<Resolver(f, FALSE), Resolver(f, TRUE)>>

(* one turn of the loop of js_promise_all and js_promise_race: the items so *)
(* far are the promises s.of                                                *)
Subscribe(s, item, type, c, f) ==
  LET r == PromiseResolve(s.heap, item)
      on == Handlers(type, c, Len(s.of) + 1, f)
  IN  [heap |-> PerformThen(r.heap, r.promise, on[1], on[2], None),
       of |-> Append(s.of, r.promise)]

ItemsRoom(items) == Cardinality({i \in DOMAIN items : items[i] \notin Promises})

(* mutant: the count starts at 0 *)
RemainingFromZero(items, throws) == 0 + Len(items) - (IF throws THEN 0 ELSE 1)

(* remainingElementsCount starts at 1, for the loop itself, and each turn    *)
(* adds 1; the loop's share goes when it ends                                *)
Remaining(items, throws) == 1 + Len(items) - (IF throws THEN 0 ELSE 1)

(* js_promise_all, js_promise_race.  The iterator gives the items, and then   *)
(* ends or throws.  It calls no element function, so that none is called      *)
(* before the loop has ended.                                                 *)
Combine(call) ==
  /\ Len(comb) < MaxCombs
  /\ \A i \in DOMAIN call.items : call.items[i] \in Promises => call.items[i] \in Made(heap)
  /\ Room(heap, 1 + ItemsRoom(call.items))
  /\ LET g == NewPromise(heap)
         c == Len(comb) + 1
         all == FoldLeft(LAMBDA s, item : Subscribe(s, item, call.type, c, g.nf),
                         [heap |-> g, of |-> <<>>], call.items)
         remaining == Remaining(call.items, call.throws)
     IN  /\ comb' = Append(comb, [type |-> call.type, of |-> all.of, cap |-> g.nf,
                                  values |-> [i \in DOMAIN call.items |->
                                                IF call.type = "any" THEN Undefined ELSE None],
                                  remaining |-> remaining, called |-> {}])
         /\ heap' = IF call.throws THEN CallResolving(all.heap, g.nf, Error, TRUE)
                    ELSE IF remaining = 0 /\ call.type # "race"
                    THEN CallResolving(all.heap, g.nf, Arrays[c], call.type = "any")
                    ELSE all.heap
  /\ UNCHANGED <<held, fn, finals>>

-----------------------------------------------------------------------------
(* Async functions *)

Resume(k, rejected) == [kind |-> "resume", function |-> k, rejected |-> rejected]

(* js_async_function_resume: the body of activation k runs from heap g until *)
(* it returns, throws or awaits                                              *)
RunBody(g, k, cap) ==
  \E value \in Args :
    \/ /\ \E threw \in BOOLEAN : heap' = CallResolving(g, cap, value, threw)
       /\ fn' = [fn EXCEPT ![k] = [state |-> "done", cap |-> cap]]
    \/ /\ Room(g, ResolveRoom(value))
       /\ heap' = LET r == PromiseResolve(g, value)
                  IN  PerformThen(r.heap, r.promise, Resume(k, FALSE), Resume(k, TRUE), None)
       /\ fn' = [fn EXCEPT ![k] = [state |-> "awaiting", cap |-> cap]]

(* js_async_function_call *)
CallAsync(k) ==
  /\ "async" \in Features
  /\ fn[k].state = "idle"
  /\ Room(heap, 1)
  /\ RunBody(NewPromise(heap), k, heap.nf + 1)
  /\ UNCHANGED <<held, comb, finals>>

-----------------------------------------------------------------------------
(* Jobs: turbojs_internal_execute_pending_job takes the first one *)

Job == Head(heap.jobs)

Rest == [heap EXCEPT !.jobs = Tail(@)]

Handling(kind) ==
  /\ heap.jobs # <<>>
  /\ Job.type = "reaction"
  /\ Job.handler # None
  /\ Job.handler.kind = kind

(* a reaction without a handler passes the outcome on *)
PassOn ==
  /\ heap.jobs # <<>>
  /\ Job.type = "reaction"
  /\ Job.handler = None
  /\ heap' = FinishReaction(Rest, Job.cap, Job.arg, Job.rejected)
  /\ UNCHANGED <<held, comb, fn, finals>>

RunHandler ==
  /\ Handling("user")
  /\ \E value \in Args, threw \in BOOLEAN :
       heap' = FinishReaction(Rest, Job.cap, value, threw)
  /\ UNCHANGED <<held, comb, fn, finals>>

RunResolver ==
  /\ Handling("resolver")
  /\ heap' = FinishReaction(CallResolving(Rest, Job.handler.pair, Job.arg, Job.handler.rejected),
                            Job.cap, Undefined, FALSE)
  /\ UNCHANGED <<held, comb, fn, finals>>

(* mutant: only the thrower, so that a fulfilled promise of onFinally passes its own value on *)
ThunkOfThrower(value, rejected) ==
  IF rejected THEN [kind |-> "thunk", value |-> value, rejected |-> TRUE] ELSE None

(* js_promise_then_finally_func: the promise that the handler returns keeps  *)
(* the outcome of the first one for when the result of onFinally has settled *)
Thunk(value, rejected) == [kind |-> "thunk", value |-> value, rejected |-> rejected]

RunFinally ==
  /\ Handling("finally")
  /\ \E value \in Args :
       \/ heap' = FinishReaction(Rest, Job.cap, value, TRUE)
       \/ /\ Room(heap, 1 + ResolveRoom(value))
          /\ LET r == PromiseResolve(Rest, value)
                 g == NewPromise(r.heap)
                 w == PerformThen(g, r.promise, Thunk(Job.arg, Job.handler.rejected), None, g.nf)
             IN  heap' = FinishReaction(w, Job.cap, g.np, FALSE)
  /\ UNCHANGED <<held, comb, fn, finals>>

(* js_promise_finally_value_thunk, js_promise_finally_thrower *)
RunThunk ==
  /\ Handling("thunk")
  /\ heap' = FinishReaction(Rest, Job.cap, Job.handler.value, Job.handler.rejected)
  /\ UNCHANGED <<held, comb, fn, finals>>

(* js_promise_all_resolve_element *)
CallElement(c, i, rejected, value) ==
  LET s == comb[c]
      entry == IF s.type = "allSettled" THEN <<rejected, value>> ELSE value
  IN  IF <<i, rejected>> \in s.called THEN s
      ELSE [s EXCEPT !.called = @ \cup {<<i, rejected>>},
                     !.values = [@ EXCEPT ![i] = entry],
                     !.remaining = @ - 1]

RunElement ==
  /\ Handling("element")
  /\ LET c == Job.handler.comb
         s == CallElement(c, Job.handler.index, Job.handler.rejected, Job.arg)
         last == s # comb[c] /\ s.remaining = 0
         g == IF last THEN CallResolving(Rest, s.cap, Arrays[c], s.type = "any") ELSE Rest
     IN  /\ comb' = [comb EXCEPT ![c] = s]
         /\ heap' = FinishReaction(g, Job.cap, Undefined, FALSE)
  /\ UNCHANGED <<held, fn, finals>>

(* js_async_function_resolve_call *)
ResumeAsync ==
  /\ Handling("resume")
  /\ RunBody(Rest, Job.handler.function, fn[Job.handler.function].cap)
  /\ UNCHANGED <<held, comb, finals>>

(* js_promise_resolve_thenable_job *)
Adopt ==
  /\ heap.jobs # <<>>
  /\ Job.type = "thenable"
  /\ Job.thenable \in Promises
  /\ heap.nf < MaxPairs
  /\ heap' = AdoptPromise(Rest, Job.promise, Job.thenable)
  /\ UNCHANGED <<held, comb, fn, finals>>

(* ... whose "then" belongs to the program, which keeps the functions or throws *)
CallThen ==
  /\ heap.jobs # <<>>
  /\ Job.type = "thenable"
  /\ Job.thenable \notin Promises
  /\ heap.nf < MaxPairs
  /\ LET g == NewPair(Rest, Job.promise)
     IN  \/ /\ heap' = g
            /\ held' = held \cup {g.nf}
         \/ /\ heap' = CallResolving(g, g.nf, Error, TRUE)
            /\ UNCHANGED held
  /\ UNCHANGED <<comb, fn, finals>>

Next ==
  \/ Construct
  \/ \E f \in held, value \in Args, rejected \in BOOLEAN : CallHeld(f, value, rejected)
  \/ \E p \in Made(heap), onFulfilled, onRejected \in {None, User} :
       Then(p, onFulfilled, onRejected)
  \/ \E p \in Made(heap) : Finally(p)
  \/ \E call \in Calls : Combine(call)
  \/ \E k \in Functions : CallAsync(k)
  \/ PassOn \/ RunHandler \/ RunResolver \/ RunFinally \/ RunThunk \/ RunElement
  \/ ResumeAsync \/ Adopt \/ CallThen

Spec == Init /\ [][Next]_vars

-----------------------------------------------------------------------------
Pending(p) == heap.promise[p].state = "pending"

Unresolved(p) == {f \in 1..heap.nf : heap.pair[f].promise = p /\ ~heap.pair[f].resolved}

Adopting(p) == {i \in DOMAIN heap.jobs :
                  heap.jobs[i].type = "thenable" /\ heap.jobs[i].promise = p}

TypeOK ==
  /\ heap.np \in 0..MaxPromises /\ heap.nf \in 0..MaxPairs
  /\ \A p \in Promises : heap.promise[p].state \in
       IF p \in Made(heap) THEN {"pending", "fulfilled", "rejected"} ELSE {"none"}
  /\ \A f \in 1..heap.nf : heap.pair[f].promise \in Made(heap)
  /\ heap.reported \subseteq Made(heap) /\ held \subseteq 1..heap.nf
  /\ Len(comb) <= MaxCombs
  /\ \A k \in Functions : fn[k].state \in {"idle", "awaiting", "done"}

(* The job of a reaction carries the outcome of the promise it reacts to,    *)
(* and a settled promise keeps no reaction that could run a second time.     *)
JobsFaithful ==
  /\ \A i \in DOMAIN heap.jobs : heap.jobs[i].type = "reaction" =>
       LET s == heap.promise[heap.jobs[i].of]
       IN  /\ s.state = IF heap.jobs[i].rejected THEN "rejected" ELSE "fulfilled"
           /\ s.result = heap.jobs[i].arg
  /\ \A p \in Made(heap) : ~Pending(p) => heap.promise[p].reactions = <<>>

(* What js_std_promise_rejection_check finds in the list of the host, and    *)
(* ends the program for, is exactly the rejected promises that never had a   *)
(* handler: one handled after its rejection is taken off again.              *)
ReportedExact ==
  heap.reported = {p \in Made(heap) : heap.promise[p].state = "rejected" /\ ~heap.promise[p].handled}

(* the handlers of a reaction or a job that resume activation k *)
Continuations(k) ==
  LET resumes(handler) == handler # None /\ handler.kind = "resume" /\ handler.function = k
  IN  {<<0, i>> : i \in {j \in DOMAIN heap.jobs :
                          heap.jobs[j].type = "reaction" /\ resumes(heap.jobs[j].handler)}}
      \cup UNION {{<<p, i>> : i \in {j \in DOMAIN heap.promise[p].reactions :
                          resumes(heap.promise[p].reactions[j].onFulfilled)}} : p \in Made(heap)}

(* An async function that awaits has exactly one continuation, in the queue  *)
(* or on a pending promise, and one that has ended has none: its frame is    *)
(* gone, and js_async_function_resolve_call would write to it.               *)
OneContinuation ==
  \A k \in Functions :
    Cardinality(Continuations(k)) = IF fn[k].state = "awaiting" THEN 1 ELSE 0

(* Consistency of the heap of promises, from one job to the next *)
Consistent == TypeOK /\ JobsFaithful /\ ReportedExact

(* A pending promise can be settled from exactly one place, a pair of        *)
(* functions not called yet or the job that will adopt another promise, and  *)
(* a settled one from none.  So fulfill_or_reject_promise only ever finds    *)
(* the promise pending, whatever thenables do with the functions they get:   *)
(* the other case "should never happen".                                     *)
OneResolver ==
  \A p \in Made(heap) :
    Cardinality(Unresolved(p)) + Cardinality(Adopting(p)) = IF Pending(p) THEN 1 ELSE 0

(* the pairs of functions that a handler will call *)
Serves(handler) ==
  IF handler = None THEN {}
  ELSE CASE handler.kind = "resolver" -> {handler.pair}
         [] handler.kind = "element"  -> {comb[handler.comb].cap}
         [] handler.kind = "resume"   -> {fn[handler.function].cap}
         [] OTHER                     -> {}

(* No wake-up is lost: when the queue is empty, a promise is still pending   *)
(* only if the program holds the functions to settle it, or if it waits for  *)
(* another pending promise through a reaction, a combinator or an async      *)
(* function.                                                                 *)
NeverForgotten ==
  heap.jobs = <<>> =>
    \A p \in Made(heap) : Pending(p) =>
      \E f \in Unresolved(p) :
        \/ f \in held
        \/ \E q \in Made(heap) : \E i \in DOMAIN heap.promise[q].reactions :
             LET r == heap.promise[q].reactions[i]
             IN  f \in {r.cap} \cup Serves(r.onFulfilled) \cup Serves(r.onRejected)

(* Promise.all and allSettled deliver their array, and any its error, only   *)
(* when every item has come to the outcome it stands for, and each entry is  *)
(* the outcome of the item at that index.                                    *)
CombinatorExact ==
  \A c \in DOMAIN comb :
    LET s == comb[c]
        result == heap.promise[heap.pair[s.cap].promise]
        item(i) == heap.promise[s.of[i]]
    IN  result.state # "pending" /\ result.result = Arrays[c] =>
          \A i \in DOMAIN s.of :
            /\ item(i).state \in CASE s.type = "all" -> {"fulfilled"}
                                   [] s.type = "any" -> {"rejected"}
                                   [] OTHER -> {"fulfilled", "rejected"}
            /\ s.values[i] = IF s.type = "allSettled"
                             THEN <<item(i).state = "rejected", item(i).result>>
                             ELSE item(i).result

(* finally never makes up a fulfilment: its promise is fulfilled only when   *)
(* the first one is, and with the same value, whatever onFinally returns.    *)
FinallyTransparent ==
  \A x \in finals :
    heap.promise[x.result].state = "fulfilled" =>
      /\ heap.promise[x.of].state = "fulfilled"
      /\ heap.promise[x.of].result = heap.promise[x.result].result
=============================================================================
