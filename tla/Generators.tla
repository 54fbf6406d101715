----------------------------- MODULE Generators -----------------------------
(* Generators and async generators: their state, their frame, the queue of  *)
(* requests of an async generator, and the jobs that resume it.  A body is  *)
(* on the stack from the moment it is resumed until it yields, awaits,      *)
(* returns or throws.  While it runs, the program it calls may make any     *)
(* call, of this generator too; jobs run when the stack is empty.           *)
(* Allocation does not fail.                                                *)
EXTENDS PromiseOps, FiniteSets

CONSTANTS SyncGenerators,   \* objects of JS_CLASS_GENERATOR
          AsyncGenerators,  \* objects of JS_CLASS_ASYNC_GENERATOR
          IterResult,       \* the object { value, done } a request is resolved with
          MaxRequests       \* bound on the requests made of an async generator

VARIABLES heap,     \* see PromiseOps
          held,     \* pairs of resolving functions in the hands of the program
          gen,      \* JSGeneratorData and JSAsyncGeneratorData
          stack,    \* generators whose body is running, the innermost last
          requests  \* history: the capabilities of the requests made, in order

vars == <<heap, held, gen, stack, requests>>

Generators == SyncGenerators \cup AsyncGenerators

Completions == {"next", "return", "throw"}

(* the arguments and the outcomes of bodies: values, and promises the program made *)
Args == Values \cup {heap.pair[f].promise : f \in held}

(* room for the promise that a queued return request may have to make *)
ReturnRoom(queue) ==
  IF \E i \in DOMAIN queue : queue[i].completion = "return" /\ queue[i].value \notin Promises
  THEN 1 ELSE 0

(* js_call_generator_function, js_async_generator_function_call: the frame   *)
(* has run up to the initial yield                                           *)
Init ==
  /\ heap = EmptyHeap
  /\ held = {} /\ stack = <<>>
  /\ gen = [g \in Generators |-> [state |-> "start", frame |-> "live", queue |-> <<>>]]
  /\ requests = [g \in Generators |-> <<>>]

(* async_func_resume and async_func_free: a frame that runs or has been freed *)
(* can be neither resumed nor freed                                           *)
Resumed(s) ==
  [s EXCEPT !.state = "executing",
            !.frame = IF @ = "live" THEN "running" ELSE "corrupt"]

Freed(s) ==
  [s EXCEPT !.state = "completed",
            !.frame = IF @ = "live" THEN "freed" ELSE "corrupt"]

(* the body has given control back, so that its frame is known again *)
Suspended(s) == [s EXCEPT !.frame = IF @ = "running" THEN "live" ELSE "corrupt"]

Top == stack[Len(stack)]

Pop == SubSeq(stack, 1, Len(stack) - 1)

-----------------------------------------------------------------------------
(* Promises of the program, to be awaited and passed to the generators *)

Construct ==
  /\ Room(heap, 1)
  /\ heap' = NewPromise(heap)
  /\ held' = held \cup {heap.nf + 1}
  /\ UNCHANGED <<gen, stack, requests>>

CallHeld(f, value, rejected) ==
  /\ heap' = CallResolving(heap, f, value, rejected)
  /\ UNCHANGED <<held, gen, stack, requests>>

-----------------------------------------------------------------------------
(* Generators *)

(* free_generator_stack *)
FreeStack(s) == IF s.state = "completed" THEN s ELSE Freed(s)

(* mutant: a running generator may be resumed *)
GeneratorNextReentrant(g, completion) ==
  /\ \/ /\ \/ gen[g].state = "start" /\ completion = "next"
           \/ gen[g].state \in {"yield", "yield_star", "executing"}
        /\ gen' = [gen EXCEPT ![g] = Resumed(@)]
        /\ stack' = Append(stack, g)
     \/ /\ gen[g].state = "start" /\ completion # "next"
        /\ gen' = [gen EXCEPT ![g] = FreeStack(@)]
        /\ UNCHANGED stack
     \/ /\ gen[g].state = "completed"
        /\ UNCHANGED <<gen, stack>>
  /\ UNCHANGED <<heap, held, requests>>

(* js_generator_next: next, return or throw.  A generator that is executing  *)
(* raises a TypeError, one that is completed only gives the result back.     *)
GeneratorNext(g, completion) ==
  /\ \/ /\ \/ gen[g].state = "start" /\ completion = "next"
           \/ gen[g].state \in {"yield", "yield_star"}
        /\ gen' = [gen EXCEPT ![g] = Resumed(@)]
        /\ stack' = Append(stack, g)
     \/ /\ gen[g].state = "start" /\ completion # "next"
        /\ gen' = [gen EXCEPT ![g] = FreeStack(@)]
        /\ UNCHANGED stack
     \/ /\ gen[g].state \in {"executing", "completed"}
        /\ UNCHANGED <<gen, stack>>
  /\ UNCHANGED <<heap, held, requests>>

(* ... and what follows when the body yields, returns or throws *)
GeneratorBody(outcome) ==
  /\ stack # <<>> /\ Top \in SyncGenerators
  /\ gen' = [gen EXCEPT ![Top] =
               LET s == [Suspended(@) EXCEPT !.state = "yield"]
               IN  IF outcome \in {"return", "throw"} THEN FreeStack(s)
                   ELSE [s EXCEPT !.state = outcome]]
  /\ stack' = Pop
  /\ UNCHANGED <<heap, held, requests>>

-----------------------------------------------------------------------------
(* Async generators.  The operators take and return the heap and the data of *)
(* the generator, and whether its body is to run.                            *)

Continue(g, purpose, rejected) ==
  [kind |-> "generator", generator |-> g, purpose |-> purpose, rejected |-> rejected]

(* js_async_generator_await, js_async_generator_completed_return *)
Await(h, g, purpose, value) ==
  LET r == PromiseResolve(h, value)
  IN  PerformThen(r.heap, r.promise, Continue(g, purpose, FALSE), Continue(g, purpose, TRUE), None)

(* mutant: the request just made is answered *)
AnswerLast(h, s, value, rejected) ==
  [heap |-> CallResolving(h, s.queue[Len(s.queue)].cap, value, rejected),
   gen |-> [s EXCEPT !.queue = SubSeq(@, 1, Len(@) - 1)], run |-> FALSE]

(* js_async_generator_resolve_or_reject: the first request is answered *)
Answer(h, s, value, rejected) ==
  [heap |-> CallResolving(h, Head(s.queue).cap, value, rejected),
   gen |-> [s EXCEPT !.queue = Tail(@)], run |-> FALSE]

(* js_async_generator_complete *)
Complete(s) == IF s.state = "completed" THEN s ELSE Freed(s)

(* the case JS_ASYNC_GENERATOR_STATE_COMPLETED of js_async_generator_resume_next *)
AnswerCompleted(h, s, g) ==
  LET first == Head(s.queue)
  IN  CASE first.completion = "next"  -> Answer(h, s, IterResult, FALSE)
        [] first.completion = "throw" -> Answer(h, s, first.value, TRUE)
        [] OTHER -> [heap |-> Await(h, g, "return", first.value),
                     gen |-> [s EXCEPT !.state = "awaiting_return"], run |-> FALSE]

(* mutant: a request made while a return request is awaited resumes the body *)
ResumeNextAnyway(h, s, g) ==
  IF s.queue = <<>> THEN [heap |-> h, gen |-> s, run |-> FALSE]
  ELSE IF s.state = "completed" THEN AnswerCompleted(h, s, g)
  ELSE IF s.state = "start" /\ Head(s.queue).completion # "next"
       THEN AnswerCompleted(h, Complete(s), g)
  ELSE [heap |-> h, gen |-> Resumed(s), run |-> TRUE]

(* js_async_generator_resume_next, from the head of its loop up to the next  *)
(* time the body runs, or to its end                                         *)
ResumeNext(h, s, g) ==
  IF s.queue = <<>> \/ s.state = "awaiting_return" THEN [heap |-> h, gen |-> s, run |-> FALSE]
  ELSE IF s.state = "completed" THEN AnswerCompleted(h, s, g)
  ELSE IF s.state = "start" /\ Head(s.queue).completion # "next"
       THEN AnswerCompleted(h, Complete(s), g)
  ELSE [heap |-> h, gen |-> Resumed(s), run |-> TRUE]

(* the result r of the operators above becomes the state *)
Install(g, r, below) ==
  /\ heap' = r.heap
  /\ gen' = [gen EXCEPT ![g] = r.gen]
  /\ stack' = IF r.run THEN Append(below, g) ELSE below

(* js_async_generator_next *)
AsyncGeneratorNext(g, completion, value) ==
  /\ Len(requests[g]) < MaxRequests
  /\ Room(heap, 1)
  /\ LET h == NewPromise(heap)
         s == [gen[g] EXCEPT !.queue =
                 Append(@, [completion |-> completion, value |-> value, cap |-> h.nf])]
     IN  /\ Room(heap, 1 + ReturnRoom(s.queue))
         /\ Install(g, IF s.state = "executing" THEN [heap |-> h, gen |-> s, run |-> FALSE]
                          ELSE ResumeNext(h, s, g),
                    stack)
  /\ requests' = [requests EXCEPT ![g] = Append(@, heap.nf + 1)]
  /\ UNCHANGED held

(* the loop of js_async_generator_resume_next goes on after an answer *)
AndResumeNext(r, g) == ResumeNext(r.heap, r.gen, g)

(* ... and what follows when the body awaits, yields, returns or throws *)
AsyncGeneratorBody(outcome, value) ==
  /\ stack # <<>> /\ Top \in AsyncGenerators
  /\ Room(heap, IF outcome = "await" THEN ResolveRoom(value) ELSE ReturnRoom(gen[Top].queue))
  /\ LET s == Suspended(gen[Top])
     IN  Install(Top,
           CASE outcome = "await"  -> [heap |-> Await(heap, Top, "await", value),
                                       gen |-> s, run |-> FALSE]
             [] outcome = "throw"  -> AndResumeNext(Answer(heap, Complete(s), value, TRUE), Top)
             [] outcome = "return" -> AndResumeNext(Answer(heap, Complete(s), IterResult, FALSE), Top)
             [] OTHER -> AndResumeNext(Answer(heap, [s EXCEPT !.state = outcome], IterResult, FALSE),
                                       Top),
           Pop)
  /\ UNCHANGED <<held, requests>>

-----------------------------------------------------------------------------
(* Jobs *)

Job == Head(heap.jobs)

Rest == [heap EXCEPT !.jobs = Tail(@)]

Idle == stack = <<>>

Handling(kind) ==
  /\ Idle /\ heap.jobs # <<>>
  /\ Job.type = "reaction"
  /\ Job.handler # None
  /\ Job.handler.kind = kind

(* js_async_generator_resolve_function after an await of the body *)
ResumeAfterAwait ==
  /\ Handling("generator") /\ Job.handler.purpose = "await"
  /\ LET g == Job.handler.generator
     IN  Install(g, IF gen[g].state = "executing" THEN ResumeNext(Rest, gen[g], g)
                    ELSE [heap |-> Rest, gen |-> gen[g], run |-> FALSE],
                 stack)
  /\ UNCHANGED <<held, requests>>

(* ... and after the await of a return request: only that request is answered *)
AnswerReturn ==
  /\ Handling("generator") /\ Job.handler.purpose = "return"
  /\ LET g == Job.handler.generator
         s == [gen[g] EXCEPT !.state = "completed"]
     IN  Install(g, IF Job.handler.rejected THEN Answer(Rest, s, Job.arg, TRUE)
                    ELSE Answer(Rest, s, IterResult, FALSE),
                 stack)
  /\ UNCHANGED <<held, requests>>

(* the jobs that have a promise adopt another one *)
RunResolver ==
  /\ Handling("resolver")
  /\ heap' = CallResolving(Rest, Job.handler.pair, Job.arg, Job.handler.rejected)
  /\ UNCHANGED <<held, gen, stack, requests>>

Adopt ==
  /\ Idle /\ heap.jobs # <<>>
  /\ Job.type = "thenable"
  /\ heap.nf < MaxPairs
  /\ heap' = AdoptPromise(Rest, Job.promise, Job.thenable)
  /\ UNCHANGED <<held, gen, stack, requests>>

Next ==
  \/ Construct
  \/ \E f \in held, value \in Args, rejected \in BOOLEAN : CallHeld(f, value, rejected)
  \/ \E g \in SyncGenerators, completion \in Completions : GeneratorNext(g, completion)
  \/ \E outcome \in {"yield", "yield_star", "return", "throw"} : GeneratorBody(outcome)
  \/ \E g \in AsyncGenerators, completion \in Completions, value \in Args :
       AsyncGeneratorNext(g, completion, value)
  \/ \E outcome \in {"await", "yield", "yield_star", "return", "throw"}, value \in Args :
       AsyncGeneratorBody(outcome, value)
  \/ ResumeAfterAwait \/ AnswerReturn \/ RunResolver \/ Adopt

Spec == Init /\ [][Next]_vars

-----------------------------------------------------------------------------
TypeOK ==
  /\ heap.np <= MaxPromises /\ heap.nf <= MaxPairs /\ held \subseteq 1..heap.nf
  /\ \A g \in Generators :
       /\ gen[g].state \in {"start", "yield", "yield_star", "executing", "completed",
                            "awaiting_return"}
       /\ gen[g].frame \in {"live", "running", "freed"}

(* The frame of a generator is resumed and freed only while it is suspended, *)
(* it runs exactly while its body is on the stack, once, and it is freed     *)
(* exactly when the generator is completed: js_generator_next and            *)
(* js_async_generator_resume_next never touch the frame of a running body,   *)
(* whatever calls of the generator its body makes.                           *)
FrameSafe ==
  \A g \in Generators :
    /\ gen[g].frame # "corrupt"
    /\ gen[g].frame = "running" <=> \E i \in DOMAIN stack : stack[i] = g
    /\ gen[g].frame = "freed" <=> gen[g].state \in {"completed", "awaiting_return"}
    /\ Cardinality({i \in DOMAIN stack : stack[i] = g}) <= 1

(* Consistency of generators with their frames, at every step *)
Consistent == TypeOK /\ FrameSafe

(* The requests of an async generator are answered in the order in which     *)
(* they were made, each exactly once, and the queue holds the others:        *)
(* js_async_generator_resolve_or_reject takes the first one.                 *)
AnsweredInOrder ==
  \A g \in AsyncGenerators :
    LET done == Len(requests[g]) - Len(gen[g].queue)
    IN  \A i \in DOMAIN requests[g] :
          /\ heap.pair[requests[g][i]].resolved <=> i <= done
          /\ i > done => gen[g].queue[i - done].cap = requests[g][i]

(* the jobs and reactions that continue generator g *)
Continuations(g, purpose) ==
  LET continues(handler) ==
        handler # None /\ handler.kind = "generator" /\ handler.generator = g
          /\ handler.purpose = purpose
  IN  {<<0, i>> : i \in {j \in DOMAIN heap.jobs :
                          heap.jobs[j].type = "reaction" /\ continues(heap.jobs[j].handler)}}
      \cup UNION {{<<p, i>> : i \in {j \in DOMAIN heap.promise[p].reactions :
                          continues(heap.promise[p].reactions[j].onFulfilled)}} : p \in Made(heap)}

(* A generator whose body awaits, or that awaits the value of a return       *)
(* request, has exactly one continuation and the request it works for at the *)
(* head of its queue; one that is suspended at a yield has no request        *)
(* waiting.  So the assertion of js_async_generator_resolve_function holds,  *)
(* and an await can be resumed only once.                                    *)
OneContinuation ==
  \A g \in AsyncGenerators :
    LET s == gen[g]
        awaits == s.state = "executing" /\ s.frame = "live"
    IN  /\ Cardinality(Continuations(g, "await")) = IF awaits THEN 1 ELSE 0
        /\ Cardinality(Continuations(g, "return")) = IF s.state = "awaiting_return" THEN 1 ELSE 0
        /\ s.state = "executing" => s.queue # <<>>
        /\ s.state = "awaiting_return" => s.queue # <<>> /\ Head(s.queue).completion = "return"
        /\ s.state \in {"start", "yield", "yield_star"} => s.queue = <<>>

(* When nothing runs and no job is left, a request waits only for an await   *)
(* of the generator: the answer to a return request is followed by the next  *)
(* request, the "resume next case" that js_async_generator_resolve_function  *)
(* names.                                                                    *)
RequestsServed ==
  Idle /\ heap.jobs = <<>> =>
    \A g \in AsyncGenerators :
      gen[g].queue # <<>> => gen[g].state \in {"executing", "awaiting_return"}
=============================================================================
