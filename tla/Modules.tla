------------------------------ MODULE Modules -------------------------------
(* Linking and evaluation of module graphs: dynamic import, the depth-first *)
(* searches of js_link_module and js_evaluate_module over graphs with       *)
(* cycles, and the asynchronous execution of modules that use top-level     *)
(* await and of those that depend on them.                                  *)
(*                                                                          *)
(* Modules are loaded and their requests resolved.  A recursive C call is a *)
(* frame of "dfs"; a step enters a module, looks at one of its requests, or *)
(* completes it, which is where its body may run.  Nothing else runs        *)
(* meanwhile: what a body does (await, import) it does as a step of the     *)
(* program afterwards.  An error is named by the module it comes from.      *)
EXTENDS Naturals, Sequences, FiniteSets, SequencesExt

CONSTANTS Modules,
          Graphs,      \* module graphs: requires, a sequence for each module;
                       \* tla, those that contain await; broken, those with an
                       \* import or export that does not resolve; imported, those
                       \* the program calls import() for
          None,
          MaxImports   \* bound on the calls of import()

VARIABLES graph,    \* the program's modules
          mod,      \* mod[m]: the JSModuleDef of m
          dfs,      \* the search in progress: its goal, its frames, the modules on
                    \* the list stack_top, the next index, the import it is for
          jobs,     \* rt->job_list
          imports,  \* the calls of import(): module, and the state of their promise;
                    \* late is history, see Left
          clock,    \* module_async_evaluation_next_timestamp
          body,     \* body[m]: what has become of the body of m
          failed    \* an assertion has failed

vars == <<graph, mod, dfs, jobs, imports, clock, body, failed>>

Idle == [goal |-> "none", frames |-> <<>>, stack |-> <<>>, next |-> 0, import |-> 0]

Unlinked ==
  [status |-> "unlinked", index |-> 0, ancestor |-> 0, parents |-> <<>>, pending |-> 0,
   async |-> FALSE, stamp |-> 0, root |-> None, promise |-> "none", waiters |-> <<>>,
   error |-> None]

Init ==
  /\ graph \in Graphs
  /\ mod = [m \in Modules |-> Unlinked]
  /\ dfs = Idle
  /\ jobs = <<>> /\ imports = <<>> /\ clock = 0
  /\ body = [m \in Modules |-> "none"]
  /\ failed = FALSE

(* The state as a record, for operators to transform *)
State == [mod |-> mod, dfs |-> dfs, jobs |-> jobs, imports |-> imports, clock |-> clock,
          body |-> body, failed |-> failed]

Commit(s) ==
  /\ mod' = s.mod /\ dfs' = s.dfs /\ jobs' = s.jobs /\ imports' = s.imports
  /\ clock' = s.clock /\ body' = s.body /\ failed' = s.failed
  /\ UNCHANGED graph

Checked(s, condition) == [s EXCEPT !.failed = @ \/ ~condition]

Enqueue(s, job) == [s EXCEPT !.jobs = Append(@, job)]

-----------------------------------------------------------------------------
(* Promises of modules, and the imports that wait for them *)

LoadedJob(i, error) == [type |-> "loaded", import |-> i, error |-> error]

(* a call of resolving_funcs of m; error is None for the first of them *)
SettlePromise(s, m, error) ==
  [s EXCEPT !.mod[m].promise = "settled",
            !.mod[m].waiters = <<>>,
            !.jobs = @ \o [k \in DOMAIN s.mod[m].waiters |->
                             LoadedJob(s.mod[m].waiters[k], error)]]

(* the end of JS_LoadModuleInternal: js_promise_then on the promise of m *)
AwaitPromise(s, m, i) ==
  LET t == [s EXCEPT !.dfs = Idle]
  IN  IF s.mod[m].promise = "pending" THEN [t EXCEPT !.mod[m].waiters = Append(@, i)]
      ELSE Enqueue(t, LoadedJob(i, s.mod[m].error))

(* js_set_module_evaluated *)
SetEvaluated(s, m) ==
  LET t == [s EXCEPT !.mod[m].status = "evaluated"]
  IN  IF s.mod[m].promise = "none" THEN t
      ELSE SettlePromise(Checked(t, s.mod[m].root = m), m, None)

-----------------------------------------------------------------------------
(* Bodies *)

Outcomes(m) == {"done", "failed"} \cup (IF m \in graph.tla THEN {"waiting"} ELSE {})

AsyncJob(m, outcome) == [type |-> outcome, module |-> m]

(* js_execute_async_module: the body runs up to its first await, or to its end *)
ExecuteAsync(s, m, outcome) ==
  LET t == [s EXCEPT !.body[m] = IF @ = "none" THEN outcome ELSE "again"]
  IN  IF outcome = "waiting" THEN t ELSE Enqueue(t, AsyncJob(m, outcome))

(* js_execute_sync_module *)
ExecuteSync(s, m, outcome) ==
  [s EXCEPT !.body[m] = IF @ = "none" THEN outcome ELSE "again"]

(* an await in the body of m ends, and so does the body *)
FinishBody(m) ==
  /\ dfs.goal = "none"
  /\ body[m] = "waiting"
  /\ \E outcome \in {"done", "failed"} :
       Commit(Enqueue([State EXCEPT !.body[m] = outcome], AsyncJob(m, outcome)))

-----------------------------------------------------------------------------
(* js_async_module_execution_rejected *)
RECURSIVE Rejected(_, _, _), RejectedAll(_, _, _)

Rejected(s, m, error) ==
  IF s.mod[m].status = "evaluated" THEN Checked(s, s.mod[m].error # None)
  ELSE LET known == s.mod[m].status = "evaluating_async" /\ s.mod[m].error = None
                      /\ s.mod[m].async
           t == [Checked(s, known) EXCEPT !.mod[m].error = error,
                                         !.mod[m].status = "evaluated"]
           u == RejectedAll(t, t.mod[m].parents, error)
       IN  IF u.mod[m].promise = "none" THEN u
           ELSE SettlePromise(Checked(u, u.mod[m].root = m), m, error)

RejectedAll(s, ms, error) ==
  IF ms = <<>> THEN s ELSE RejectedAll(Rejected(s, Head(ms), error), Tail(ms), error)

(* gather_available_ancestors, with the list of modules to execute *)
RECURSIVE Gather(_, _, _)

Gather(s, list, ms) ==
  IF ms = <<>> THEN [s |-> s, list |-> list]
  ELSE LET m == Head(ms)
           known == s.mod[m].status = "evaluating_async" /\ s.mod[m].error = None
                      /\ s.mod[m].async /\ s.mod[m].pending > 0
           t == [Checked(s, known) EXCEPT !.mod[m].pending = IF @ > 0 THEN @ - 1 ELSE @]
           deeper == Gather(t, Append(list, m), t.mod[m].parents)
       IN  IF m \in ToSet(list) \/ s.mod[s.mod[m].root].error # None
           THEN Gather(s, list, Tail(ms))
           ELSE IF t.mod[m].pending > 0 THEN Gather(t, list, Tail(ms))
           ELSE IF m \in graph.tla THEN Gather(t, Append(list, m), Tail(ms))
           ELSE Gather(deeper.s, deeper.list, Tail(ms))

(* one module of the list is executed *)
Execute(s, m, outcome) ==
  IF s.mod[m].status = "evaluated" THEN Checked(s, s.mod[m].error # None)
  ELSE IF m \in graph.tla THEN ExecuteAsync(s, m, outcome)
  ELSE LET t == ExecuteSync(s, m, outcome)
       IN  IF outcome = "failed" THEN Rejected(t, m, m) ELSE SetEvaluated(t, m)

(* js_async_module_execution_fulfilled *)
Fulfilled(s, m) ==
  IF s.mod[m].status = "evaluated" THEN {Checked(s, s.mod[m].error # None)}
  ELSE LET known == s.mod[m].status = "evaluating_async" /\ s.mod[m].error = None
                      /\ s.mod[m].async
           t == SetEvaluated([Checked(s, known) EXCEPT !.mod[m].async = FALSE], m)
           g == Gather(t, <<>>, t.mod[m].parents)
           list == SortSeq(g.list, LAMBDA a, b : g.s.mod[a].stamp < g.s.mod[b].stamp)
       IN  {FoldLeft(LAMBDA u, a : Execute(u, a, out[a]), g.s, list) :
              out \in {f \in [ToSet(list) -> {"done", "failed", "waiting"}] :
                         \A a \in ToSet(list) : f[a] \in Outcomes(a)}}

-----------------------------------------------------------------------------
(* The searches.  Frame [m, i] is a call for m that looks at its request i. *)

Top == dfs.frames[Len(dfs.frames)]
Below == SubSeq(dfs.frames, 1, Len(dfs.frames) - 1)
Required == graph.requires[Top.m][Top.i]
Looking == Top.i <= Len(graph.requires[Top.m])

(* the call for module m up to its loop: m gets an index and is pushed *)
Entered(s, m, status) ==
  [s EXCEPT !.mod[m].status = status,
            !.mod[m].index = s.dfs.next, !.mod[m].ancestor = s.dfs.next,
            !.dfs.next = @ + 1,
            !.dfs.stack = Append(@, m),
            !.dfs.frames = Append(@, [m |-> m, i |-> 1])]

(* on to the next request; the ancestor of a module on the stack is one of Top.m *)
Looked(s, onStack) ==
  LET t == [s EXCEPT !.dfs.frames = Append(Below, [m |-> Top.m, i |-> Top.i + 1])]
      a == s.mod[Required].ancestor
  IN  IF onStack THEN [t EXCEPT !.mod[Top.m].ancestor = IF a < @ THEN a ELSE @] ELSE t

(* the modules that are popped when Top.m is complete: its cycle, if it is the root *)
Cycle(s) ==
  LET from == CHOOSE k \in DOMAIN s.dfs.stack : s.dfs.stack[k] = Top.m
  IN  IF s.mod[Top.m].ancestor = s.mod[Top.m].index
      THEN SubSeq(s.dfs.stack, from, Len(s.dfs.stack))
      ELSE <<>>

Popped(s, ms) ==
  [s EXCEPT !.dfs.stack = SubSeq(@, 1, Len(@) - Len(ms)), !.dfs.frames = Below]

(* the end of a search for an import that fails before there is a promise *)
Refused(s, error) ==
  [s EXCEPT !.imports[s.dfs.import].state = "rejected",
            !.imports[s.dfs.import].error = error,
            !.dfs = Idle]

-----------------------------------------------------------------------------
(* js_evaluate_module, called for module m, up to its search *)
StartEvaluation(s, m) ==
  LET begun == s.mod[m].status \in {"evaluating_async", "evaluated"}
      c == IF begun THEN s.mod[m].root ELSE m
      t == [Checked(s, begun \/ s.mod[m].status = "linked") EXCEPT !.mod[c].promise = "pending"]
  IN  IF s.mod[c].promise # "none" THEN AwaitPromise(s, c, s.dfs.import)
      ELSE IF ~begun
      THEN Entered([t EXCEPT !.dfs.goal = "evaluate", !.dfs.next = 0,
                             !.mod[c].pending = 0], c, "evaluating")
      ELSE IF s.mod[c].error # None
      THEN AwaitPromise(SettlePromise(t, c, s.mod[c].error), c, s.dfs.import)
      ELSE IF s.mod[c].async THEN AwaitPromise(t, c, s.dfs.import)
      ELSE AwaitPromise(SettlePromise(t, c, None), c, s.dfs.import)

(* js_evaluate_module when its search has failed: the modules on the stack *)
(* get the error                                                           *)
FailEvaluation(s, error) ==
  LET c == s.dfs.frames[1].m
      t == [s EXCEPT !.mod = [m \in Modules |->
              IF m \in ToSet(s.dfs.stack)
              THEN [s.mod[m] EXCEPT !.status = "evaluated", !.error = error, !.root = c]
              ELSE s.mod[m]]]
      known == \A m \in ToSet(s.dfs.stack) : s.mod[m].status = "evaluating"
  IN  AwaitPromise(SettlePromise(Checked(t, known /\ t.mod[c].error # None), c, error),
                   c, s.dfs.import)

(* Mutant of EndEvaluation: the promise is settled although the module waits. *)
EndEvaluationAtOnce(s, c) == AwaitPromise(SettlePromise(s, c, None), c, s.dfs.import)

(* js_evaluate_module when its search has succeeded *)
EndEvaluation(s, c) ==
  LET t == Checked(s, s.mod[c].error = None /\ s.dfs.stack = <<>>)
  IN  AwaitPromise(IF s.mod[c].async THEN t ELSE SettlePromise(t, c, None), c, s.dfs.import)

(* js_inner_module_evaluation: the call for a request that is not evaluated *)
EnterEvaluation ==
  /\ dfs.goal = "evaluate" /\ Looking
  /\ mod[Required].status = "linked"
  /\ Commit(Entered([State EXCEPT !.mod[Required].pending = 0], Required, "evaluating"))

(* Mutant of LookEvaluation: the state of the request itself counts, not that of  *)
(* the root of its cycle.                                                         *)
LookEvaluationOwn ==
  /\ dfs.goal = "evaluate" /\ Looking
  /\ mod[Required].status # "linked"
  /\ LET onStack == mod[Required].status = "evaluating"
         r == Required
         s == Checked(State, mod[r].status \in {"evaluating", "evaluating_async", "evaluated"})
         t == Looked(s, onStack)
     IN  IF ~onStack /\ mod[Required].error # None
         THEN Commit(FailEvaluation(s, mod[Required].error))
         ELSE IF ~onStack /\ mod[r].error # None
         THEN Commit(FailEvaluation(s, mod[r].error))
         ELSE Commit(IF mod[r].async
                     THEN [t EXCEPT !.mod[Top.m].pending = @ + 1,
                                    !.mod[r].parents = Append(@, Top.m)]
                     ELSE t)

(* js_inner_module_evaluation: what is done with a request whose call returns *)
LookEvaluation ==
  /\ dfs.goal = "evaluate" /\ Looking
  /\ mod[Required].status # "linked"
  /\ LET onStack == mod[Required].status = "evaluating"
         r == IF onStack THEN Required ELSE mod[Required].root
         s == Checked(State, mod[r].status \in {"evaluating", "evaluating_async", "evaluated"})
         t == Looked(s, onStack)
     IN  IF ~onStack /\ mod[Required].error # None
         THEN Commit(FailEvaluation(s, mod[Required].error))
         ELSE IF ~onStack /\ mod[r].error # None
         THEN Commit(FailEvaluation(s, mod[r].error))
         ELSE Commit(IF mod[r].async
                     THEN [t EXCEPT !.mod[Top.m].pending = @ + 1,
                                    !.mod[r].parents = Append(@, Top.m)]
                     ELSE t)

(* js_inner_module_evaluation: its cycle is popped, once the module has been *)
(* executed, or waits for its requests                                       *)
LeaveEvaluation(s) ==
  LET ms == Cycle(s)
      t == [Popped(s, ms) EXCEPT !.mod = [m \in Modules |->
              IF m \in ToSet(ms)
              THEN [s.mod[m] EXCEPT !.status = IF s.mod[m].async THEN "evaluating_async"
                                               ELSE "evaluated",
                                    !.root = Top.m]
              ELSE s.mod[m]]]
  IN  IF Below = <<>> THEN EndEvaluation(t, Top.m) ELSE t

CompleteEvaluation ==
  /\ dfs.goal = "evaluate" /\ ~Looking
  /\ LET m == Top.m
         s == [Checked(State, ~mod[m].async) EXCEPT !.mod[m].async = TRUE,
                                                    !.mod[m].stamp = clock, !.clock = @ + 1]
     IN  IF mod[m].pending > 0 THEN Commit(LeaveEvaluation(s))
         ELSE \E outcome \in Outcomes(m) :
                IF m \in graph.tla THEN Commit(LeaveEvaluation(ExecuteAsync(s, m, outcome)))
                ELSE IF outcome = "failed"
                THEN Commit(FailEvaluation(ExecuteSync(State, m, outcome), m))
                ELSE Commit(LeaveEvaluation(ExecuteSync(State, m, outcome)))

-----------------------------------------------------------------------------
(* js_inner_module_linking: the call for a request that is not linked *)
EnterLinking ==
  /\ dfs.goal = "link" /\ Looking
  /\ mod[Required].status = "unlinked"
  /\ Commit(Entered(State, Required, "linking"))

LookLinking ==
  /\ dfs.goal = "link" /\ Looking
  /\ mod[Required].status # "unlinked"
  /\ Commit(Looked(Checked(State, mod[Required].status # "evaluating"),
                   mod[Required].status = "linking"))

(* js_link_module when its search has failed: the modules on the stack may be *)
(* linked again                                                               *)
FailLinking(s, error) ==
  Refused([s EXCEPT !.mod = [m \in Modules |->
             IF m \in ToSet(s.dfs.stack) THEN [s.mod[m] EXCEPT !.status = "unlinked"]
             ELSE s.mod[m]]], error)

(* js_inner_module_linking: the cycle is popped; js_evaluate_module follows      *)
(* js_link_module.  The resolution of exports and imports before it (lines 893   *)
(* to 1002) fails exactly for the modules of graph.broken.                       *)
CompleteLinking ==
  /\ dfs.goal = "link" /\ ~Looking
  /\ LET ms == Cycle(State)
         t == [Popped(State, ms) EXCEPT !.mod = [m \in Modules |->
                 IF m \in ToSet(ms) THEN [mod[m] EXCEPT !.status = "linked"] ELSE mod[m]]]
     IN  IF Top.m \in graph.broken THEN Commit(FailLinking(State, Top.m))
         ELSE IF Below = <<>>
         THEN Commit(StartEvaluation(Checked(t, t.dfs.stack = <<>>), Top.m))
         ELSE Commit(t)

-----------------------------------------------------------------------------
(* The program and its jobs *)

Requests(m) == ToSet(graph.requires[m])

Reach[m \in Modules] ==
  LET step(S) == S \cup UNION {Requests(r) : r \in S}
      steps[k \in 0 .. Cardinality(Modules)] == IF k = 0 THEN {m} ELSE step(steps[k - 1])
  IN  steps[Cardinality(Modules)]

(* js_async_module_execution_fulfilled leaves async_evaluation set for a      *)
(* module without an await of its own that it has executed: an import that    *)
(* comes later waits for it.                                                  *)
Left(m) == mod[m].status = "evaluated" /\ mod[m].async /\ mod[m].error = None

(* js_dynamic_import: the job.  A call with arguments that are refused (1293 to *)
(* 1350) has its promise rejected at once and reaches no module: left out.     *)
Import(m) ==
  /\ dfs.goal = "none"
  /\ Len(imports) < MaxImports
  /\ m \in graph.imported
  /\ Commit(Enqueue([State EXCEPT !.imports = Append(@, [module |-> m, state |-> "pending",
                                                         error |-> None, late |-> FALSE])],
                    [type |-> "import", import |-> Len(imports) + 1]))

Job == Head(jobs)
Rest == [State EXCEPT !.jobs = Tail(@)]
Running(type) == dfs.goal = "none" /\ jobs # <<>> /\ Job.type = type

(* js_dynamic_import_job: JS_LoadModuleInternal, up to the search of js_link_module *)
RunImport ==
  /\ Running("import")
  /\ LET m == imports[Job.import].module
         s == [Rest EXCEPT !.dfs = [Idle EXCEPT !.goal = "link", !.import = Job.import],
                           !.imports[Job.import].late = \E r \in Reach[m] : Left(r)]
         linked == mod[m].status \in {"linked", "evaluating_async", "evaluated"}
     IN  IF mod[m].status = "unlinked" THEN Commit(Entered(s, m, "linking"))
         ELSE Commit(StartEvaluation(Checked(s, linked), m))

(* js_load_module_fulfilled, js_load_module_rejected *)
RunLoaded ==
  /\ Running("loaded")
  /\ Commit([Rest EXCEPT !.imports[Job.import].state =
                           IF Job.error = None THEN "fulfilled" ELSE "rejected",
                         !.imports[Job.import].error = Job.error])

RunFulfilled == Running("done") /\ \E s \in Fulfilled(Rest, Job.module) : Commit(s)

RunRejected == Running("failed") /\ Commit(Rejected(Rest, Job.module, Job.module))

Next ==
  /\ ~failed
  /\ \/ EnterLinking \/ LookLinking \/ CompleteLinking
     \/ EnterEvaluation \/ LookEvaluation \/ CompleteEvaluation
     \/ RunImport \/ RunLoaded \/ RunFulfilled \/ RunRejected
     \/ \E m \in Modules : Import(m) \/ FinishBody(m)

Spec == Init /\ [][Next]_vars

-----------------------------------------------------------------------------
(* Properties *)

(* Every component has its type. *)
TypeOK ==
  /\ \A m \in Modules :
       /\ mod[m].status \in {"unlinked", "linking", "linked", "evaluating",
                             "evaluating_async", "evaluated"}
       /\ mod[m].root \in Modules \cup {None} /\ mod[m].error \in Modules \cup {None}
       /\ mod[m].promise \in {"none", "pending", "settled"}
       /\ ToSet(mod[m].parents) \subseteq Modules /\ mod[m].pending \in Nat
       /\ body[m] \in {"none", "waiting", "done", "failed"}
  /\ \A i \in DOMAIN imports : imports[i].state \in {"pending", "fulfilled", "rejected"}
  /\ dfs.goal = "none" => dfs = Idle

(* No assertion of the module code fails. *)
AssertionsHold == ~failed

(* A body runs once, after the modules it requires that are not in its cycle, *)
(* and all that those require, have completed without an error.               *)
DependenciesFirst ==
  \A m \in Modules : body[m] # "none" =>
    /\ body[m] # "again"
    /\ \A r \in Requests(m) : m \notin Reach[r] => \A x \in Reach[r] : body[x] = "done"

Quiet == dfs.goal = "none" /\ jobs = <<>> /\ \A m \in Modules : body[m] # "waiting"

(* When nothing is left to run, an import is not answered only if such a      *)
(* module was among those it requires when it began.                          *)
ImportsSettle ==
  Quiet => \A i \in DOMAIN imports : imports[i].state = "pending" => imports[i].late

(* import() is fulfilled when the module and all it requires have completed,  *)
(* is rejected with the error of one of them, and is forgotten only when the  *)
(* code had left async_evaluation set for one of them before.                 *)
OutcomeExact ==
  /\ \A i \in DOMAIN imports :
       LET x == imports[i]
       IN  /\ x.state = "fulfilled" => \A r \in Reach[x.module] : body[r] = "done"
           /\ x.state = "rejected" =>
                /\ x.error \in Reach[x.module]
                /\ body[x.error] = "failed" \/ x.error \in graph.broken
  /\ ImportsSettle
=============================================================================
