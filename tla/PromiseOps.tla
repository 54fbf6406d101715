----------------------------- MODULE PromiseOps -----------------------------
(* Promises, their resolving functions and the job queue, as operators on a *)
(* record h that holds the part of the heap they live in:                   *)
(*   np, promise   the promises made so far and their JSPromiseData.  The   *)
(*                 lists promise_reactions[0] and [1] always grow and empty *)
(*                 together, so they are one sequence of pairs of handlers; *)
(*   nf, pair      the pairs of resolving functions made so far, which      *)
(*                 share a promise and an already_resolved flag;            *)
(*   jobs          rt->job_list, the queue of pending jobs;                 *)
(*   reported      ts->rejected_promise_list of the host, the rejections    *)
(*                 that the tracker has been told of and that nobody has    *)
(*                 handled since.                                           *)
(* A promise is a number, the values of the program are the elements of     *)
(* Values.  Promises are those of the intrinsic constructor: no subclass,   *)
(* no replaced "then" or "constructor".  A promise that the engine makes    *)
(* for a reaction whose result nobody can reach (the one that "then"        *)
(* returns to the engine itself) is left out: its capability is None.       *)
EXTENDS Naturals, Sequences

CONSTANTS Values,       \* values of the program that are not promises
          Thenables,    \* those that are objects with a "then" function
          Poisoned,     \* those whose property "then" throws when it is read
          Undefined,    \* the value undefined
          Error,        \* an error that the engine, or a getter, throws
          None,         \* no handler, no capability
          MaxPromises,  \* bound on the promises made
          MaxPairs      \* bound on the pairs of resolving functions made

Promises == 1..MaxPromises

Pairs == 1..MaxPairs

NoPromise == [state |-> "none", result |-> Undefined, handled |-> FALSE, reactions |-> <<>>]

NoPair == [promise |-> 0, resolved |-> TRUE]

EmptyHeap == [np |-> 0, promise |-> [p \in Promises |-> NoPromise],
              nf |-> 0, pair |-> [f \in Pairs |-> NoPair],
              jobs |-> <<>>, reported |-> {}]

Made(h) == 1..h.np

-----------------------------------------------------------------------------
(* turbojs_internal_enqueue_job: the queue is first in, first out *)
Enqueue(h, job) == [h EXCEPT !.jobs = Append(@, job)]

(* the arguments of promise_reaction_job; "of" only names the promise reacted to *)
ReactionJob(p, reaction, rejected, value) ==
  [type |-> "reaction", of |-> p, cap |-> reaction.cap,
   handler |-> IF rejected THEN reaction.onRejected ELSE reaction.onFulfilled,
   rejected |-> rejected, arg |-> value]

ThenableJob(p, value) == [type |-> "thenable", promise |-> p, thenable |-> value]

(* fulfill_or_reject_promise *)
SettlePromise(h, p, value, rejected) ==
  LET s == h.promise[p]
  IN  IF s.state # "pending" THEN h
      ELSE [h EXCEPT
              !.promise = [@ EXCEPT ![p] =
                             [state |-> IF rejected THEN "rejected" ELSE "fulfilled",
                              result |-> value, handled |-> s.handled,
                              reactions |-> <<>>]],
              !.reported = IF rejected /\ ~s.handled THEN @ \cup {p} ELSE @,
              !.jobs = @ \o [i \in DOMAIN s.reactions |->
                                ReactionJob(p, s.reactions[i], rejected, value)]]

(* js_create_resolving_functions *)
NewPair(h, p) ==
  [h EXCEPT !.nf = @ + 1,
            !.pair = [@ EXCEPT ![h.nf + 1] = [promise |-> p, resolved |-> FALSE]]]

(* js_promise_new: the new promise is np, its resolving functions are nf *)
NewPromise(h) ==
  NewPair([h EXCEPT !.np = @ + 1,
                    !.promise = [@ EXCEPT ![h.np + 1] = [NoPromise EXCEPT !.state = "pending"]]],
          h.np + 1)

(* there is room for n more promises with their functions, within the bounds *)
Room(h, n) == h.np + n <= MaxPromises /\ h.nf + n <= MaxPairs

(* mutant: already_resolved is not read *)
CallResolvingAgain(h, f, value, rejected) ==
  LET p == h.pair[f].promise
      g == [h EXCEPT !.pair = [@ EXCEPT ![f] = [promise |-> p, resolved |-> TRUE]]]
  IN  IF rejected THEN SettlePromise(g, p, value, TRUE)
      ELSE IF value = p \/ value \in Poisoned THEN SettlePromise(g, p, Error, TRUE)
      ELSE IF value \in Thenables \cup Promises THEN Enqueue(g, ThenableJob(p, value))
      ELSE SettlePromise(g, p, value, FALSE)

(* js_promise_resolve_function_call: a call of one of the functions of pair f *)
CallResolving(h, f, value, rejected) ==
  LET p == h.pair[f].promise
      g == [h EXCEPT !.pair = [@ EXCEPT ![f] = [promise |-> p, resolved |-> TRUE]]]
  IN  IF h.pair[f].resolved THEN h
      ELSE IF rejected THEN SettlePromise(g, p, value, TRUE)
      ELSE IF value = p \/ value \in Poisoned THEN SettlePromise(g, p, Error, TRUE)
      ELSE IF value \in Thenables \cup Promises THEN Enqueue(g, ThenableJob(p, value))
      ELSE SettlePromise(g, p, value, FALSE)

(* mutant: a second handler of a settled promise is lost *)
PerformThenOnce(h, p, onFulfilled, onRejected, cap) ==
  LET s == h.promise[p]
      reaction == [cap |-> cap, onFulfilled |-> onFulfilled, onRejected |-> onRejected]
      g == [h EXCEPT !.promise = [@ EXCEPT ![p] =
              [s EXCEPT !.handled = TRUE,
                        !.reactions = IF s.state = "pending" THEN Append(@, reaction) ELSE @]]]
  IN  IF s.state = "pending" \/ s.handled THEN g
      ELSE [Enqueue(g, ReactionJob(p, reaction, s.state = "rejected", s.result))
              EXCEPT !.reported = IF s.state = "rejected" THEN @ \ {p} ELSE @]

(* perform_promise_then *)
PerformThen(h, p, onFulfilled, onRejected, cap) ==
  LET s == h.promise[p]
      reaction == [cap |-> cap, onFulfilled |-> onFulfilled, onRejected |-> onRejected]
      g == [h EXCEPT !.promise = [@ EXCEPT ![p] =
              [s EXCEPT !.handled = TRUE,
                        !.reactions = IF s.state = "pending" THEN Append(@, reaction) ELSE @]]]
  IN  IF s.state = "pending" THEN g
      ELSE [Enqueue(g, ReactionJob(p, reaction, s.state = "rejected", s.result))
              EXCEPT !.reported = IF s.state = "rejected" /\ ~s.handled THEN @ \ {p} ELSE @]

(* js_promise_resolve of the intrinsic constructor, without rejection: the   *)
(* value itself when it is a promise, or a new promise resolved with it      *)
PromiseResolve(h, value) ==
  IF value \in Promises THEN [heap |-> h, promise |-> value]
  ELSE LET g == NewPromise(h)
       IN  [heap |-> CallResolving(g, g.nf, value, FALSE), promise |-> g.np]

ResolveRoom(value) == IF value \in Promises THEN 0 ELSE 1

(* the end of promise_reaction_job: the outcome of the handler goes to the   *)
(* capability of the reaction, if it has one                                 *)
FinishReaction(h, cap, value, threw) ==
  IF cap = None THEN h ELSE CallResolving(h, cap, value, threw)

(* the functions of a pair, as the handlers of a reaction *)
Resolver(f, rejected) == [kind |-> "resolver", pair |-> f, rejected |-> rejected]

(* js_promise_resolve_thenable_job for a promise: its "then" is              *)
(* js_promise_then, called with a new pair of functions of promise p         *)
AdoptPromise(h, p, thenable) ==
  LET g == NewPair(h, p)
  IN  PerformThen(g, thenable, Resolver(g.nf, FALSE), Resolver(g.nf, TRUE), None)
=============================================================================
