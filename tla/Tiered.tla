------------------------------- MODULE Tiered -------------------------------
(***************************************************************************)
(* Tiered execution of one IR function: TurboJS_TieredInvoke, with the     *)
(* type feedback that decides on promotion (jit/runtime/tiered_execution.c *)
(* and type_feedback.c).                                                   *)
(*                                                                         *)
(* A call is the sequence of the types of its arguments.  What the three   *)
(* engines and the two compilers answer is chosen freely from what they    *)
(* can answer; none of them returns TURBOJS_IR_EXCEPTION.                  *)
(***************************************************************************)
EXTENDS Integers, Sequences

CONSTANTS
  Types,                 \* the types TurboJS_FeedbackClassifyInteger tells apart
  Arity,                 \* argument_count of the IR function
  ArgumentCounts,        \* the numbers of arguments it is called with
  CompileThreshold,      \* compile_threshold
  OptimizationThreshold, \* optimization_threshold, and minimum_executions
  MaxBailouts,           \* maximum_bailouts
  MaxArguments,          \* TURBOJS_FEEDBACK_MAX_ARGUMENTS
  MaxCalls               \* bound on the calls of one function

ASSUME TieredAssumption ==
  /\ Arity \in Nat /\ ArgumentCounts \subseteq Nat /\ MaxCalls \in Nat
  /\ CompileThreshold \in Nat \ {0} /\ OptimizationThreshold \in Nat \ {0}
  /\ MaxBailouts \in Nat /\ MaxArguments \in Nat \ {0}

VARIABLES
  function,  \* the TurboJSTieredFunction
  cached,    \* the code cache holds baseline code for it
  history    \* what has happened to it: the calls, how many of them returned, the
             \* types of each argument and of the results, the bailouts

tierVars == <<function, cached, history>>

Calls == UNION {[1 .. n -> Types] : n \in ArgumentCounts}

\* TurboJS_FeedbackVectorInit
Vector(n) ==
  LET count == IF n > MaxArguments THEN MaxArguments ELSE n IN
  [arguments |-> [i \in 1 .. count |-> {}], result |-> {}, argument_count |-> count,
   executions |-> 0, bailouts |-> 0]

\* TurboJS_TieredFunctionInitAdvanced
NewFunction ==
  [call_count |-> 0, compilation_attempted |-> FALSE, optimization_attempted |-> FALSE,
   optimized |-> FALSE, feedback |-> Vector(0), interpreted_calls |-> 0,
   baseline_calls |-> 0, optimized_calls |-> 0, optimized_compilations |-> 0,
   optimized_invalidations |-> 0]

NoHistory ==
  [calls |-> 0, returned |-> 0, seen |-> [i \in 1 .. MaxArguments |-> {}],
   results |-> {}, bailouts |-> 0]

TierInit == function = NewFunction /\ cached = FALSE /\ history = NoHistory

-----------------------------------------------------------------------------
(* Type feedback *)

\* TurboJS_FeedbackObserveCall
ObserveCall(v, args) ==
  [v EXCEPT !.executions = @ + 1,
            !.arguments = [i \in DOMAIN @ |-> IF i \in DOMAIN args THEN @[i] \cup {args[i]}
                                              ELSE @[i]]]

\* TurboJS_FeedbackSlotIsStable
IsStable(slot) == \E type \in Types : slot = {type}

\* Mutant of Eligible: the bailouts are not looked at.
EligibleAnyway(v) ==
  /\ v.executions >= OptimizationThreshold
  /\ \A i \in DOMAIN v.arguments : IsStable(v.arguments[i])
  /\ IsStable(v.result)

\* TurboJS_EvaluateOptimization with the default policy.
Eligible(v) ==
  /\ v.executions >= OptimizationThreshold
  /\ v.bailouts <= MaxBailouts
  /\ \A i \in DOMAIN v.arguments : IsStable(v.arguments[i])
  /\ IsStable(v.result)

-----------------------------------------------------------------------------
(* The stages of a call.  A stage maps what it is given to [f, out, bailouts]:  *)
(* the function, what it returns ("next" when the following stage goes on), and *)
(* the bailouts of the call so far.                                             *)

Stage(f, out, bailouts) == [f |-> f, out |-> out, bailouts |-> bailouts]

\* Mutant of Entered: a call with more arguments than before starts over.
EnteredSized(f, args) ==
  LET v == IF f.feedback.argument_count < Len(args) THEN Vector(Len(args)) ELSE f.feedback IN
  [f EXCEPT !.call_count = @ + 1, !.feedback = ObserveCall(v, args)]

\* The call is counted and its arguments are observed.
Entered(f, args) ==
  LET v == IF f.feedback.argument_count = 0 THEN Vector(Len(args)) ELSE f.feedback IN
  [f EXCEPT !.call_count = @ + 1, !.feedback = ObserveCall(v, args)]

\* observe_success, and the counter of the tier.
Succeeded(f, tier, result) ==
  [f EXCEPT !.feedback.result = @ \cup {result}, ![tier] = @ + 1]

\* TurboJS_FeedbackObserveBailout
Bailed(f) == [f EXCEPT !.feedback.bailouts = @ + 1]

\* Mutant of Deoptimized: an attempt is allowed again.
DeoptimizedForgets(f) ==
  [f EXCEPT !.optimized = FALSE, !.optimized_invalidations = @ + 1,
            !.optimization_attempted = FALSE]

\* TurboJS_TieredFunctionInvalidateOptimized
Deoptimized(f) == [f EXCEPT !.optimized = FALSE, !.optimized_invalidations = @ + 1]

\* TurboJS_OptimizedInvoke; whatever goes wrong counts as a bailout.
RunOptimized(s, o) ==
  IF o.optimized = "ok"
  THEN Stage(Succeeded(s.f, "optimized_calls", o.result), "ok", s.bailouts)
  ELSE Stage(Deoptimized(Bailed(s.f)), "next", s.bailouts + 1)

\* Promotion: at most one attempt to compile optimized code.
Promote(s, o) ==
  IF s.out # "next" \/ s.f.optimization_attempted \/ ~Eligible(s.f.feedback) THEN s
  ELSE LET f == [s.f EXCEPT !.optimization_attempted = TRUE] IN
       CASE o.optimizing = "ok" ->
              RunOptimized(Stage([f EXCEPT !.optimized = TRUE,
                                           !.optimized_compilations = @ + 1],
                                 "next", s.bailouts), o)
         [] o.optimizing = "unsupported" -> Stage(f, "next", s.bailouts)
         [] OTHER -> Stage(f, "error", s.bailouts)

\* fallback_interpreter
Interpret(s, o) ==
  IF o.interpreted = "ok"
  THEN Stage(Succeeded(s.f, "interpreted_calls", o.result), "ok", s.bailouts)
  ELSE Stage(s.f, "error", s.bailouts)

\* Mutant of RunBaseline: a call that bails out counts as a baseline call, too.
RunBaselineTwice(s, o) ==
  CASE o.baseline = "ok" -> Stage(Succeeded(s.f, "baseline_calls", o.result), "ok", s.bailouts)
    [] o.baseline = "bailout" ->
         Interpret(Stage(Bailed([s.f EXCEPT !.baseline_calls = @ + 1]), "next", s.bailouts + 1), o)
    [] OTHER -> Stage(s.f, "error", s.bailouts)

\* TurboJS_NativeInvoke on baseline code; a bailout runs the call in the interpreter.
RunBaseline(s, o) ==
  CASE o.baseline = "ok" -> Stage(Succeeded(s.f, "baseline_calls", o.result), "ok", s.bailouts)
    [] o.baseline = "bailout" -> Interpret(Stage(Bailed(s.f), "next", s.bailouts + 1), o)
    [] OTHER -> Stage(s.f, "error", s.bailouts)

\* The rest of the call, from the lookup in the code cache: baseline code, one
\* attempt to compile it once the function is hot, or the interpreter.
Lower(s, o) ==
  LET f == [s.f EXCEPT !.compilation_attempted = TRUE] IN
  IF cached THEN RunBaseline(s, o)
  ELSE IF s.f.compilation_attempted \/ s.f.call_count < CompileThreshold THEN Interpret(s, o)
  ELSE CASE o.compiling = "ok" -> RunBaseline(Stage(f, s.out, s.bailouts), o)
         [] o.compiling = "unsupported" -> Interpret(Stage(f, s.out, s.bailouts), o)
         [] OTHER -> Stage(f, "error", s.bailouts)

Compiles(s, o) ==
  /\ ~cached /\ ~s.f.compilation_attempted /\ s.f.call_count >= CompileThreshold
  /\ o.compiling = "ok"

-----------------------------------------------------------------------------
(* Steps *)

\* What the engines and the compilers may answer: native code and the
\* interpreter refuse a call with too few arguments, and the interpreter has no
\* tier to bail out to.  A compiler, or optimized code, that this call cannot
\* reach is given one answer.
Answers(args) ==
  LET Native == IF Len(args) < Arity THEN {"error"} ELSE {"ok", "bailout"}
      Interpreter == IF Len(args) < Arity THEN {"error"} ELSE {"ok", "error"}
      Compiler(asked) == IF asked THEN {"ok", "unsupported", "error"} ELSE {"ok"}
      hot == function.call_count + 1 >= CompileThreshold /\ ~function.compilation_attempted
      hotter == /\ function.feedback.executions + 1 >= OptimizationThreshold
                /\ ~function.optimization_attempted
  IN  [optimized : IF function.optimized \/ hotter THEN Native ELSE {"error"},
       baseline : IF cached \/ hot THEN Native ELSE {"error"},
       interpreted : Interpreter, optimizing : Compiler(hotter), compiling : Compiler(hot),
       result : Types]

\* TurboJS_TieredInvoke
Invoke(args, o) ==
  LET entered == Stage(Entered(function, args), "next", 0)
      first == IF function.optimized THEN RunOptimized(entered, o) ELSE entered
      promoted == Promote(first, o)
      last == IF promoted.out = "next" THEN Lower(promoted, o) ELSE promoted
  IN  /\ function.call_count < MaxCalls
      /\ function' = last.f
      /\ cached' = (cached \/ (promoted.out = "next" /\ Compiles(promoted, o)))
      /\ history' =
           [calls |-> history.calls + 1,
            returned |-> history.returned + (IF last.out = "ok" THEN 1 ELSE 0),
            seen |-> [i \in 1 .. MaxArguments |->
                        IF i \in DOMAIN args THEN history.seen[i] \cup {args[i]}
                        ELSE history.seen[i]],
            results |-> history.results \cup (IF last.out = "ok" THEN {o.result} ELSE {}),
            bailouts |-> history.bailouts + last.bailouts]

\* The embedder drops the optimized code.
InvalidateOptimized ==
  /\ function.optimized
  /\ function' = Deoptimized(function)
  /\ UNCHANGED <<cached, history>>

\* The code cache evicts or clears the baseline code.
Evict ==
  /\ cached
  /\ cached' = FALSE
  /\ UNCHANGED <<function, history>>

\* TurboJS_TieredFunctionDestroy; the record is initialized again for a function
\* with the same cache key, whose baseline code may still be cached.
Destroy ==
  /\ function.call_count > 0
  /\ function' = NewFunction /\ history' = NoHistory
  /\ UNCHANGED cached

TierNext ==
  \/ \E args \in Calls : \E o \in Answers(args) : Invoke(args, o)
  \/ InvalidateOptimized \/ Evict \/ Destroy

TierSpec == TierInit /\ [][TierNext]_tierVars

-----------------------------------------------------------------------------
(* Properties *)

\* Every call that returns is counted for exactly one tier, however many tiers it
\* went through: a bailout neither loses a call nor completes it twice.
CallsAccounted ==
  function.interpreted_calls + function.baseline_calls + function.optimized_calls
    = history.returned

\* Optimized code is compiled at most once, and after it has been invalidated, by a
\* bailout or by the embedder, the function stays in the lower tiers.
NotReoptimized ==
  /\ function.optimized_compilations <= 1
  /\ function.optimized_invalidations > 0 => ~function.optimized

\* The feedback tells what has happened: the types of the arguments and of the
\* results, and the bailouts.
EvidenceExact ==
  /\ \A i \in DOMAIN function.feedback.arguments :
       function.feedback.arguments[i] = history.seen[i]
  /\ function.feedback.result = history.results
  /\ function.feedback.bailouts = history.bailouts

\* A function is promoted only if all its calls so far justify it: there were enough
\* of them, with one type for each observed argument and for the results, and few
\* enough bailouts.
PromotionJustified ==
  [][function'.optimized_compilations > function.optimized_compilations =>
       /\ history'.calls >= OptimizationThreshold
       /\ \A i \in 1 .. Arity : i <= MaxArguments => \E t \in Types : history'.seen[i] = {t}
       /\ \E t \in Types : history.results = {t}
       /\ history.bailouts <= MaxBailouts]_tierVars

=============================================================================
