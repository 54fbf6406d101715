---------------------------- MODULE TieredProofs ----------------------------
(***************************************************************************)
(* Proofs about Tiered: every call that returns is counted for one tier,   *)
(* and a function is optimized at most once.  The invariant is a property  *)
(* of the function record, Good, which each stage of a call preserves.     *)
(***************************************************************************)
EXTENDS Tiered, TLAPS

Fields ==
  {"call_count", "compilation_attempted", "optimization_attempted", "optimized", "feedback",
   "interpreted_calls", "baseline_calls", "optimized_calls", "optimized_compilations",
   "optimized_invalidations"}

\* f has its fields, its counters are natural numbers, n calls have been counted,
\* and optimized code belongs to the one attempt to compile it.
Good(f, n) ==
  /\ f = [x \in Fields |-> f[x]]
  /\ f.interpreted_calls \in Nat /\ f.baseline_calls \in Nat /\ f.optimized_calls \in Nat
  /\ f.optimized_compilations \in Nat /\ f.optimized_invalidations \in Nat
  /\ f.optimization_attempted \in BOOLEAN /\ f.optimized \in BOOLEAN
  /\ f.interpreted_calls + f.baseline_calls + f.optimized_calls = n
  /\ f.optimized_compilations <= 1
  /\ ~f.optimization_attempted =>
       ~f.optimized /\ f.optimized_compilations = 0 /\ f.optimized_invalidations = 0
  /\ f.optimized => f.optimized_invalidations = 0

\* A stage that has returned has counted the call.
StageGood(s, n) ==
  /\ s.out \in {"next", "ok", "error"}
  /\ s.out = "ok" => Good(s.f, n + 1)
  /\ s.out # "ok" => Good(s.f, n)

TieredInv == history.returned \in Nat /\ Good(function, history.returned)

-----------------------------------------------------------------------------
(* The parts of a call *)

\* What EXCEPT makes of a function with one component replaced.
LEMMA Replaced ==
  ASSUME NEW S, NEW f, f = [x \in S |-> f[x]], NEW a \in S, NEW v
  PROVE  [f EXCEPT ![a] = v] = [x \in S |-> IF x = a THEN v ELSE f[x]]
  OBVIOUS

\* The same, with two components replaced.
LEMMA ReplacedTwo ==
  ASSUME NEW S, NEW f, f = [x \in S |-> f[x]], NEW a \in S, NEW v, NEW b \in S, NEW w, a # b
  PROVE  [f EXCEPT ![a] = v, ![b] = w]
           = [x \in S |-> IF x = b THEN w ELSE IF x = a THEN v ELSE f[x]]
  OBVIOUS

\* A new function record is good.
LEMMA NewGood == Good(NewFunction, 0)
  BY DEF Good, NewFunction, Fields

\* Entering a call changes neither the counters of the tiers nor the optimized code.
LEMMA EnteredGood ==
  ASSUME NEW f, NEW args, NEW n \in Nat, Good(f, n)
  PROVE  Good(Entered(f, args), n) /\ Entered(f, args).optimized = f.optimized
<1> DEFINE v == ObserveCall(IF f.feedback.argument_count = 0 THEN Vector(Len(args))
                            ELSE f.feedback, args)
           c == f.call_count + 1
           g == [x \in Fields |-> IF x = "feedback" THEN v
                                  ELSE IF x = "call_count" THEN c ELSE f[x]]
<1>1. Entered(f, args) = [f EXCEPT !["call_count"] = c, !["feedback"] = v]
  BY Zenon DEF Entered
<1> HIDE DEF v, c
<1>2. Entered(f, args) = g
  BY <1>1, ReplacedTwo DEF Good, Fields
<1>3. Good(g, n) /\ g.optimized = f.optimized
  BY DEF Good, Fields
<1> QED BY <1>2, <1>3

\* Recording a bailout changes only the feedback.
LEMMA BailedGood ==
  ASSUME NEW f, NEW n \in Nat, Good(f, n)
  PROVE  /\ Good(Bailed(f), n) /\ Bailed(f).optimized = f.optimized
         /\ Bailed(f).optimization_attempted = f.optimization_attempted
<1> DEFINE v == [f.feedback EXCEPT !.bailouts = @ + 1]
           g == [x \in Fields |-> IF x = "feedback" THEN v ELSE f[x]]
<1>1. Bailed(f) = [f EXCEPT !["feedback"] = v]
  BY Zenon DEF Bailed, Good, Fields
<1> HIDE DEF v
<1>2. Bailed(f) = g
  BY <1>1, Replaced DEF Good, Fields
<1>3. /\ Good(g, n) /\ g.optimized = f.optimized
      /\ g.optimization_attempted = f.optimization_attempted
  BY DEF Good, Fields
<1> QED BY <1>2, <1>3

\* A call that succeeds is counted for its tier.
LEMMA SucceededGood ==
  ASSUME NEW f, NEW n \in Nat, NEW r, Good(f, n),
         NEW tier \in {"interpreted_calls", "baseline_calls", "optimized_calls"}
  PROVE  Good(Succeeded(f, tier, r), n + 1)
<1> DEFINE v == [f.feedback EXCEPT !.result = @ \cup {r}]
           c == f[tier] + 1
           g == [x \in Fields |-> IF x = tier THEN c ELSE IF x = "feedback" THEN v ELSE f[x]]
<1>1. Succeeded(f, tier, r) = [f EXCEPT !["feedback"] = v, ![tier] = c]
  BY ZenonT(60) DEF Succeeded, Good, Fields
<1> HIDE DEF v
<1>2. Succeeded(f, tier, r) = g
  BY <1>1, ReplacedTwo DEF Good, Fields
<1>3. CASE tier = "interpreted_calls"
  BY <1>2, <1>3 DEF Good, Fields
<1>4. CASE tier = "baseline_calls"
  BY <1>2, <1>4, SMTT(60) DEF Good, Fields
<1>5. CASE tier = "optimized_calls"
  BY <1>2, <1>5 DEF Good, Fields
<1> QED BY <1>3, <1>4, <1>5

\* Dropping optimized code keeps the record of the attempt.
LEMMA DeoptimizedGood ==
  ASSUME NEW f, NEW n \in Nat, Good(f, n), f.optimization_attempted
  PROVE  Good(Deoptimized(f), n)
<1> DEFINE c == f.optimized_invalidations + 1
           g == [x \in Fields |-> IF x = "optimized_invalidations" THEN c
                                  ELSE IF x = "optimized" THEN FALSE ELSE f[x]]
<1>1. Deoptimized(f) = [f EXCEPT !["optimized"] = FALSE, !["optimized_invalidations"] = c]
  BY Zenon DEF Deoptimized
<1>2. Deoptimized(f) = g
  BY <1>1, ReplacedTwo, Zenon DEF Good, Fields
<1>3. Good(g, n)
  BY DEF Good, Fields
<1> QED BY <1>2, <1>3

-----------------------------------------------------------------------------
(* The stages *)

\* Optimized code that bails out hands the call on and is dropped.
LEMMA RunOptimizedGood ==
  ASSUME NEW s, NEW o, NEW n \in Nat, Good(s.f, n), s.f.optimization_attempted
  PROVE  StageGood(RunOptimized(s, o), n)
<1>1. CASE o.optimized = "ok"
  BY <1>1, SucceededGood DEF RunOptimized, Stage, StageGood
<1>2. CASE o.optimized # "ok"
  <2>1. Good(Deoptimized(Bailed(s.f)), n)
    BY BailedGood, DeoptimizedGood
  <2> QED BY <1>2, <2>1 DEF RunOptimized, Stage, StageGood
<1> QED BY <1>1, <1>2

\* The function once optimized code has been compiled for it.
Promoted(s) ==
  [[s.f EXCEPT !.optimization_attempted = TRUE] EXCEPT !.optimized = TRUE,
                                                       !.optimized_compilations = @ + 1]

\* Compiling optimized code uses up the one attempt.
LEMMA PromotedGood ==
  ASSUME NEW s, NEW n \in Nat, Good(s.f, n), ~s.f.optimization_attempted
  PROVE  Good(Promoted(s), n) /\ Promoted(s).optimization_attempted
<1> DEFINE f == [s.f EXCEPT !.optimization_attempted = TRUE]
           g == [f EXCEPT !.optimized = TRUE, !.optimized_compilations = @ + 1]
<1>a. f = [x \in Fields |-> IF x = "optimization_attempted" THEN TRUE ELSE s.f[x]]
  BY Replaced, Zenon DEF Good, Fields
<1>b. Good(f, n) /\ f.optimization_attempted /\ f.optimized_compilations = 0
      /\ f.optimized_invalidations = 0
  BY <1>a, Zenon DEF Good, Fields
<1>c. Promoted(s) = g
  BY Zenon DEF Promoted
<1> HIDE DEF f
<1> DEFINE c == f.optimized_compilations + 1
           h == [x \in Fields |-> IF x = "optimized_compilations" THEN c
                                  ELSE IF x = "optimized" THEN TRUE ELSE f[x]]
<1>1. g = [f EXCEPT !["optimized"] = TRUE, !["optimized_compilations"] = c]
  BY Zenon
<1>2. g = h
  BY <1>b, <1>1, ReplacedTwo, Zenon DEF Good, Fields
<1>3. h = [x \in Fields |-> h[x]]
  OBVIOUS
<1>4. /\ h.interpreted_calls = f.interpreted_calls /\ h.baseline_calls = f.baseline_calls
      /\ h.optimized_calls = f.optimized_calls
      /\ h.optimized_invalidations = f.optimized_invalidations
      /\ h.optimization_attempted = f.optimization_attempted
  BY DEF Fields
<1>5. h.optimized = TRUE /\ h.optimized_compilations = c
  BY DEF Fields
<1>6. c = 1
  BY <1>b
<1> HIDE DEF h, c
<1>7. h.optimization_attempted \in BOOLEAN /\ h.optimized \in BOOLEAN /\ h.optimization_attempted
  BY <1>b, <1>4, <1>5, Zenon DEF Good
<1>8. /\ h.interpreted_calls \in Nat /\ h.baseline_calls \in Nat /\ h.optimized_calls \in Nat
      /\ h.interpreted_calls + h.baseline_calls + h.optimized_calls = n
      /\ h.optimized_compilations = 1 /\ h.optimized_invalidations = 0
  BY <1>b, <1>4, <1>5, <1>6 DEF Good
<1>9. Good(h, n) /\ h.optimization_attempted
  BY <1>3, <1>7, <1>8, SMTT(60) DEF Good
<1> QED BY <1>c, <1>2, <1>9, Zenon

\* Promotion uses up the one attempt.
LEMMA PromoteGood ==
  ASSUME NEW s, NEW o, NEW n \in Nat, StageGood(s, n)
  PROVE  StageGood(Promote(s, o), n)
<1>1. CASE s.out # "next" \/ s.f.optimization_attempted \/ ~Eligible(s.f.feedback)
  BY <1>1 DEF Promote
<1>2. CASE ~(s.out # "next" \/ s.f.optimization_attempted \/ ~Eligible(s.f.feedback))
  <2> DEFINE f == [s.f EXCEPT !.optimization_attempted = TRUE]
             g == [f EXCEPT !.optimized = TRUE, !.optimized_compilations = @ + 1]
             t == Stage(g, "next", s.bailouts)
  <2>1. Good(s.f, n) /\ ~s.f.optimization_attempted
    BY <1>2 DEF StageGood
  <2>2. f = [x \in Fields |-> IF x = "optimization_attempted" THEN TRUE ELSE s.f[x]]
    BY <2>1, Replaced, Zenon DEF Good, Fields
  <2>3. Good(f, n) /\ f.optimization_attempted /\ f.optimized_compilations = 0
        /\ f.optimized_invalidations = 0
    BY <2>1, <2>2, Zenon DEF Good, Fields
  <2>4. StageGood(Stage(f, "next", s.bailouts), n) /\ StageGood(Stage(f, "error", s.bailouts), n)
    BY <2>3 DEF StageGood, Stage
  <2> HIDE DEF f
  <2>5. Good(g, n) /\ g.optimization_attempted
    BY <2>1, PromotedGood, Zenon DEF Promoted, f
  <2> HIDE DEF g
  <2>6. t.f = g
    BY DEF Stage
  <2> HIDE DEF t
  <2>7. StageGood(RunOptimized(t, o), n)
    BY <2>5, <2>6, RunOptimizedGood
  <2>8. Promote(s, o) = CASE o.optimizing = "ok" -> RunOptimized(t, o)
                          [] o.optimizing = "unsupported" -> Stage(f, "next", s.bailouts)
                          [] OTHER -> Stage(f, "error", s.bailouts)
    BY <1>2 DEF Promote, f, g, t
  <2> QED BY <2>4, <2>7, <2>8
<1> QED BY <1>1, <1>2

\* The interpreter completes the call or fails it.
LEMMA InterpretGood ==
  ASSUME NEW s, NEW o, NEW n \in Nat, Good(s.f, n)
  PROVE  StageGood(Interpret(s, o), n)
  BY SucceededGood DEF Interpret, Stage, StageGood

\* Baseline code completes the call, fails it, or leaves it to the interpreter.
LEMMA RunBaselineGood ==
  ASSUME NEW s, NEW o, NEW n \in Nat, Good(s.f, n)
  PROVE  StageGood(RunBaseline(s, o), n)
<1>1. StageGood(Stage(Succeeded(s.f, "baseline_calls", o.result), "ok", s.bailouts), n)
  BY SucceededGood DEF Stage, StageGood
<1>2. StageGood(Interpret(Stage(Bailed(s.f), "next", s.bailouts + 1), o), n)
  <2> DEFINE t == Stage(Bailed(s.f), "next", s.bailouts + 1)
  <2>1. Good(t.f, n)
    BY BailedGood DEF Stage
  <2> HIDE DEF t
  <2>2. StageGood(Interpret(t, o), n)
    BY <2>1, InterpretGood
  <2> QED BY <2>2 DEF t
<1>3. StageGood(Stage(s.f, "error", s.bailouts), n)
  BY DEF Stage, StageGood
<1> QED BY <1>1, <1>2, <1>3 DEF RunBaseline

\* So does everything below the optimizing tier.
LEMMA LowerGood ==
  ASSUME NEW s, NEW o, NEW n \in Nat, Good(s.f, n)
  PROVE  StageGood(Lower(s, o), n)
<1> DEFINE f == [s.f EXCEPT !.compilation_attempted = TRUE]
           t == Stage(f, s.out, s.bailouts)
<1>1. Good(f, n)
  BY Zenon DEF Good, Fields
<1>2. t.f = f /\ StageGood(Stage(f, "error", s.bailouts), n)
  BY <1>1 DEF Stage, StageGood
<1> HIDE DEF f, t
<1>3. StageGood(RunBaseline(t, o), n) /\ StageGood(Interpret(t, o), n)
  BY <1>1, <1>2, RunBaselineGood, InterpretGood
<1>4. StageGood(RunBaseline(s, o), n) /\ StageGood(Interpret(s, o), n)
  BY RunBaselineGood, InterpretGood
<1> QED BY <1>2, <1>3, <1>4 DEF Lower, f, t

-----------------------------------------------------------------------------
(* The theorems *)

\* The stages of a call, in the order of TurboJS_TieredInvoke.
EnteredStage(args) == Stage(Entered(function, args), "next", 0)

FirstStage(args, o) ==
  IF function.optimized THEN RunOptimized(EnteredStage(args), o) ELSE EnteredStage(args)

PromotedStage(args, o) == Promote(FirstStage(args, o), o)

LastStage(args, o) ==
  IF PromotedStage(args, o).out = "next" THEN Lower(PromotedStage(args, o), o)
  ELSE PromotedStage(args, o)

\* Each stage of a call counts it at most once.
LEMMA StagesGood ==
  ASSUME TieredInv, NEW args, NEW o
  PROVE  /\ history.returned \in Nat
         /\ EnteredStage(args).f = Entered(function, args) /\ EnteredStage(args).out = "next"
         /\ EnteredStage(args).bailouts = 0
         /\ Good(EnteredStage(args).f, history.returned)
         /\ EnteredStage(args).f.optimized = function.optimized
         /\ function.optimized => EnteredStage(args).f.optimization_attempted
         /\ StageGood(FirstStage(args, o), history.returned)
         /\ StageGood(PromotedStage(args, o), history.returned)
         /\ StageGood(LastStage(args, o), history.returned)
<1> DEFINE n == history.returned
           entered == EnteredStage(args)
           first == FirstStage(args, o)
           promoted == PromotedStage(args, o)
<1>1. n \in Nat /\ Good(function, n)
  BY DEF TieredInv
<1>2. Good(Entered(function, args), n) /\ Entered(function, args).optimized = function.optimized
  BY <1>1, EnteredGood
<1>3. /\ entered.f = Entered(function, args) /\ entered.out = "next" /\ entered.bailouts = 0
      /\ StageGood(entered, n)
  BY <1>2 DEF EnteredStage, Stage, StageGood
<1>4. function.optimized => entered.f.optimization_attempted
  BY <1>2, <1>3, Zenon DEF Good
<1> HIDE DEF n, entered
<1>5. StageGood(first, n)
  BY <1>1, <1>2, <1>3, <1>4, RunOptimizedGood DEF FirstStage, entered
<1> HIDE DEF first
<1>6. StageGood(promoted, n)
  BY <1>1, <1>5, PromoteGood DEF PromotedStage, first
<1> HIDE DEF promoted
<1>7. StageGood(LastStage(args, o), n)
  <2>1. promoted.out = "next" => Good(promoted.f, n)
    BY <1>6 DEF StageGood
  <2> QED BY <1>1, <1>6, <2>1, LowerGood DEF LastStage, promoted
<1> QED BY <1>1, <1>2, <1>3, <1>4, <1>5, <1>6, <1>7, Zenon DEF n, entered, first, promoted

\* A call preserves the invariant.
LEMMA InvokeInv ==
  ASSUME TieredInv, NEW args, NEW o, Invoke(args, o)
  PROVE  TieredInv'
<1> DEFINE n == history.returned
           last == LastStage(args, o)
<1>1. function' = last.f
      /\ history'.returned = n + (IF last.out = "ok" THEN 1 ELSE 0)
  BY Zenon DEF Invoke, LastStage, PromotedStage, FirstStage, EnteredStage
<1>2. n \in Nat /\ StageGood(last, n)
  BY StagesGood
<1> HIDE DEF n, last
<1> QED BY <1>1, <1>2 DEF StageGood, TieredInv

\* The invariant of tiered execution holds in every state.
THEOREM TieredInvariant == TierSpec => []TieredInv
<1>1. TierInit => TieredInv
  BY NewGood DEF TierInit, NoHistory, TieredInv
<1>2. TieredInv /\ [TierNext]_tierVars => TieredInv'
  <2> SUFFICES ASSUME TieredInv, [TierNext]_tierVars PROVE TieredInv'
    OBVIOUS
  <2>1. CASE \E args \in Calls : \E o \in Answers(args) : Invoke(args, o)
    BY <2>1, InvokeInv
  <2>2. CASE InvalidateOptimized
    <3>1. function.optimization_attempted
      BY <2>2 DEF InvalidateOptimized, TieredInv, Good
    <3> QED BY <2>2, <3>1, DeoptimizedGood DEF InvalidateOptimized, TieredInv
  <2>3. CASE Evict
    BY <2>3 DEF Evict, TieredInv
  <2>4. CASE Destroy
    BY <2>4, NewGood DEF Destroy, NoHistory, TieredInv
  <2>5. CASE UNCHANGED tierVars
    BY <2>5 DEF tierVars, TieredInv
  <2> QED BY <2>1, <2>2, <2>3, <2>4, <2>5 DEF TierNext
<1> QED BY <1>1, <1>2, PTL DEF TierSpec

\* Every call that returns is counted for exactly one tier.
THEOREM TieredAccounts == TierSpec => []CallsAccounted
<1>1. TieredInv => CallsAccounted
  BY DEF TieredInv, Good, CallsAccounted
<1> QED BY <1>1, TieredInvariant, PTL

\* Optimized code is compiled at most once, and never used again once invalidated.
THEOREM TieredOptimizesOnce == TierSpec => []NotReoptimized
<1>1. TieredInv => NotReoptimized
  BY DEF TieredInv, Good, NotReoptimized
<1> QED BY <1>1, TieredInvariant, PTL

-----------------------------------------------------------------------------
(* The evidence.  w is the feedback vector once the arguments of a call have   *)
(* been observed; a stage adds the result and the bailouts of the call to it.  *)

VectorFields == {"arguments", "result", "argument_count", "executions", "bailouts"}

\* v is w with the results R and b bailouts added.
Told(v, w, R, b) ==
  /\ v = [x \in VectorFields |-> v[x]]
  /\ v.arguments = w.arguments /\ v.argument_count = w.argument_count
  /\ v.executions = w.executions
  /\ v.result = w.result \cup R /\ v.bailouts = w.bailouts + b

StageTold(s, w, o) ==
  /\ s.bailouts \in Nat
  /\ Told(s.f.feedback, w, IF s.out = "ok" THEN {o.result} ELSE {}, s.bailouts)

\* What a call of a good function does to the feedback, and what it leaves alone.
LEMMA SucceededFeedback ==
  ASSUME NEW f, NEW n \in Nat, NEW r, Good(f, n),
         NEW tier \in {"interpreted_calls", "baseline_calls", "optimized_calls"}
  PROVE  /\ Succeeded(f, tier, r).feedback = [f.feedback EXCEPT !.result = @ \cup {r}]
         /\ Succeeded(f, tier, r).optimized_compilations = f.optimized_compilations
<1> DEFINE v == [f.feedback EXCEPT !.result = @ \cup {r}]
           c == f[tier] + 1
<1>1. Succeeded(f, tier, r) = [f EXCEPT !["feedback"] = v, ![tier] = c]
  BY ZenonT(60) DEF Succeeded, Good, Fields
<1> HIDE DEF v, c
<1>2. Succeeded(f, tier, r) = [x \in Fields |-> IF x = tier THEN c
                                                ELSE IF x = "feedback" THEN v ELSE f[x]]
  BY <1>1, ReplacedTwo DEF Good, Fields
<1>3. /\ Succeeded(f, tier, r).feedback = v
      /\ Succeeded(f, tier, r).optimized_compilations = f.optimized_compilations
  BY <1>2 DEF Fields
<1> QED BY <1>3 DEF v

LEMMA BailedFeedback ==
  ASSUME NEW f, NEW n \in Nat, Good(f, n)
  PROVE  /\ Bailed(f).feedback = [f.feedback EXCEPT !.bailouts = @ + 1]
         /\ Bailed(f).optimized_compilations = f.optimized_compilations
<1> DEFINE v == [f.feedback EXCEPT !.bailouts = @ + 1]
<1>1. Bailed(f) = [f EXCEPT !["feedback"] = v]
  BY Zenon DEF Bailed, Good, Fields
<1> HIDE DEF v
<1>2. Bailed(f) = [x \in Fields |-> IF x = "feedback" THEN v ELSE f[x]]
  BY <1>1, Replaced DEF Good, Fields
<1>3. /\ Bailed(f).feedback = v
      /\ Bailed(f).optimized_compilations = f.optimized_compilations
  BY <1>2 DEF Fields
<1> QED BY <1>3 DEF v

LEMMA DeoptimizedFeedback ==
  ASSUME NEW f, NEW n \in Nat, Good(f, n)
  PROVE  /\ Deoptimized(f).feedback = f.feedback
         /\ Deoptimized(f).optimized_compilations = f.optimized_compilations
<1> DEFINE c == f.optimized_invalidations + 1
<1>1. Deoptimized(f) = [f EXCEPT !["optimized"] = FALSE, !["optimized_invalidations"] = c]
  BY Zenon DEF Deoptimized
<1> HIDE DEF c
<1>2. Deoptimized(f) = [x \in Fields |-> IF x = "optimized_invalidations" THEN c
                                  ELSE IF x = "optimized" THEN FALSE ELSE f[x]]
  BY <1>1, ReplacedTwo, Zenon DEF Good, Fields
<1> QED BY <1>2 DEF Fields

\* A stage tells what its function tells.
LEMMA MakeTold ==
  ASSUME NEW f, NEW out, NEW b \in Nat, NEW w, NEW o,
         Told(f.feedback, w, IF out = "ok" THEN {o.result} ELSE {}, b)
  PROVE  StageTold(Stage(f, out, b), w, o)
  BY Zenon DEF Stage, StageTold

\* A result is told once.
LEMMA SucceededTold ==
  ASSUME NEW s, NEW w, NEW o, NEW n \in Nat, Good(s.f, n), StageTold(s, w, o), s.out = "next",
         NEW tier \in {"interpreted_calls", "baseline_calls", "optimized_calls"}
  PROVE  StageTold(Stage(Succeeded(s.f, tier, o.result), "ok", s.bailouts), w, o)
<1> DEFINE g == Succeeded(s.f, tier, o.result)
<1>1. g.feedback = [s.f.feedback EXCEPT !.result = @ \cup {o.result}]
  BY SucceededFeedback
<1> HIDE DEF g
<1>2. Told(g.feedback, w, {o.result}, s.bailouts)
  BY <1>1 DEF StageTold, Told, VectorFields
<1> QED BY <1>2 DEF Stage, StageTold, g

\* A bailout is told once.
LEMMA BailedTold ==
  ASSUME NEW s, NEW w, NEW o, NEW n \in Nat, Good(s.f, n), StageTold(s, w, o), s.out = "next",
         w.bailouts \in Nat
  PROVE  Told(Bailed(s.f).feedback, w, {}, s.bailouts + 1) /\ s.bailouts + 1 \in Nat
<1>1. Bailed(s.f).feedback = [s.f.feedback EXCEPT !.bailouts = @ + 1]
  BY BailedFeedback
<1>2. Told(s.f.feedback, w, {}, s.bailouts) /\ s.bailouts \in Nat
  BY DEF StageTold
<1> QED BY <1>1, <1>2 DEF Told, VectorFields

\* The interpreter tells what it returns.
LEMMA InterpretTold ==
  ASSUME NEW s, NEW w, NEW o, NEW n \in Nat, Good(s.f, n), StageTold(s, w, o), s.out = "next"
  PROVE  StageTold(Interpret(s, o), w, o)
<1>1. StageTold(Stage(s.f, "error", s.bailouts), w, o)
  BY DEF StageTold, Stage
<1> QED BY <1>1, SucceededTold DEF Interpret

\* So does baseline code, which may bail out first.
LEMMA RunBaselineTold ==
  ASSUME NEW s, NEW w, NEW o, NEW n \in Nat, Good(s.f, n), StageTold(s, w, o), s.out = "next",
         w.bailouts \in Nat
  PROVE  StageTold(RunBaseline(s, o), w, o)
<1> DEFINE t == Stage(Bailed(s.f), "next", s.bailouts + 1)
<1>1. t.f = Bailed(s.f) /\ t.out = "next" /\ t.bailouts = s.bailouts + 1
  BY DEF Stage
<1>2. Good(t.f, n) /\ StageTold(t, w, o)
  <2>1. Told(Bailed(s.f).feedback, w, {}, s.bailouts + 1) /\ s.bailouts + 1 \in Nat
    BY BailedTold, Zenon
  <2>2. Good(Bailed(s.f), n)
    BY BailedGood
  <2> QED BY <1>1, <2>1, <2>2, MakeTold, Zenon
<1> HIDE DEF t
<1>3. StageTold(Interpret(t, o), w, o)
  BY <1>1, <1>2, InterpretTold
<1>4. StageTold(Stage(s.f, "error", s.bailouts), w, o)
  BY DEF StageTold, Stage
<1> QED BY <1>3, <1>4, SucceededTold DEF RunBaseline, t

\* And optimized code, whose bailout hands the call on.
LEMMA RunOptimizedTold ==
  ASSUME NEW s, NEW w, NEW o, NEW n \in Nat, Good(s.f, n), StageTold(s, w, o), s.out = "next",
         w.bailouts \in Nat
  PROVE  StageTold(RunOptimized(s, o), w, o)
<1> DEFINE d == Deoptimized(Bailed(s.f))
<1>1. d.feedback = Bailed(s.f).feedback
  BY BailedGood, DeoptimizedFeedback
<1> HIDE DEF d
<1>2. StageTold(Stage(d, "next", s.bailouts + 1), w, o)
  <2>1. Told(Bailed(s.f).feedback, w, {}, s.bailouts + 1) /\ s.bailouts + 1 \in Nat
    BY BailedTold, Zenon
  <2> QED BY <1>1, <2>1, MakeTold, Zenon
<1> QED BY <1>2, SucceededTold DEF RunOptimized, d

\* A promotion that changes anything follows from the evidence, and adds nothing
\* to it but what the call does.
LEMMA PromoteTold ==
  ASSUME NEW s, NEW w, NEW o, NEW n \in Nat, StageGood(s, n), StageTold(s, w, o),
         w.bailouts \in Nat
  PROVE  /\ StageTold(Promote(s, o), w, o)
         /\ Promote(s, o) # s =>
              s.out = "next" /\ ~s.f.optimization_attempted /\ Eligible(s.f.feedback)
<1>1. CASE s.out # "next" \/ s.f.optimization_attempted \/ ~Eligible(s.f.feedback)
  BY <1>1 DEF Promote
<1>2. CASE ~(s.out # "next" \/ s.f.optimization_attempted \/ ~Eligible(s.f.feedback))
  <2> DEFINE f == [s.f EXCEPT !.optimization_attempted = TRUE]
             g == [f EXCEPT !.optimized = TRUE, !.optimized_compilations = @ + 1]
             t == Stage(g, "next", s.bailouts)
  <2>1. Good(s.f, n) /\ s.out = "next" /\ ~s.f.optimization_attempted
    BY <1>2 DEF StageGood
  <2>2. f = [x \in Fields |-> IF x = "optimization_attempted" THEN TRUE ELSE s.f[x]]
    BY <2>1, Replaced, Zenon DEF Good, Fields
  <2>3. f.feedback = s.f.feedback
    BY <2>2 DEF Fields
  <2>4. /\ StageTold(Stage(f, "next", s.bailouts), w, o)
        /\ StageTold(Stage(f, "error", s.bailouts), w, o)
    BY <2>1, <2>3, Zenon DEF StageTold, Stage
  <2>5. Good(g, n)
    BY <2>1, PromotedGood, Zenon DEF Promoted
  <2>6. g.feedback = f.feedback
    <3> DEFINE c == f.optimized_compilations + 1
    <3>1. g = [f EXCEPT !["optimized"] = TRUE, !["optimized_compilations"] = c]
      BY Zenon
    <3>2. f = [x \in Fields |-> f[x]]
      BY <2>2, Zenon
    <3> HIDE DEF c, f
    <3>3. g = [x \in Fields |-> IF x = "optimized_compilations" THEN c
                                ELSE IF x = "optimized" THEN TRUE ELSE f[x]]
      BY <3>1, <3>2, ReplacedTwo, Zenon DEF Fields
    <3> QED BY <3>3 DEF Fields
  <2> HIDE DEF g
  <2>7. t.f = g /\ t.out = "next" /\ StageTold(t, w, o)
    BY <2>1, <2>3, <2>6 DEF StageTold, Stage
  <2> HIDE DEF t, f
  <2>8. StageTold(RunOptimized(t, o), w, o)
    BY <2>5, <2>7, RunOptimizedTold
  <2>9. Promote(s, o) = CASE o.optimizing = "ok" -> RunOptimized(t, o)
                          [] o.optimizing = "unsupported" -> Stage(f, "next", s.bailouts)
                          [] OTHER -> Stage(f, "error", s.bailouts)
    BY <1>2 DEF Promote, f, g, t
  <2> QED BY <1>2, <2>4, <2>8, <2>9
<1> QED BY <1>1, <1>2

\* What is below the optimizing tier tells what it does.
LEMMA LowerTold ==
  ASSUME NEW s, NEW w, NEW o, NEW n \in Nat, Good(s.f, n), StageTold(s, w, o), s.out = "next",
         w.bailouts \in Nat
  PROVE  StageTold(Lower(s, o), w, o)
<1> DEFINE f == [s.f EXCEPT !.compilation_attempted = TRUE]
           t == Stage(f, s.out, s.bailouts)
<1>1. Good(f, n)
  BY Zenon DEF Good, Fields
<1>2. f = [x \in Fields |-> IF x = "compilation_attempted" THEN TRUE ELSE s.f[x]]
  BY Replaced, Zenon DEF Good, Fields
<1>3. f.feedback = s.f.feedback
  BY <1>2 DEF Fields
<1>4. /\ t.f = f /\ t.out = "next" /\ StageTold(t, w, o)
      /\ StageTold(Stage(f, "error", s.bailouts), w, o)
  BY <1>3, Zenon DEF StageTold, Stage
<1> HIDE DEF f, t
<1>5. StageTold(RunBaseline(t, o), w, o) /\ StageTold(Interpret(t, o), w, o)
  BY <1>1, <1>4, RunBaselineTold, InterpretTold
<1>6. StageTold(RunBaseline(s, o), w, o) /\ StageTold(Interpret(s, o), w, o)
  BY RunBaselineTold, InterpretTold
<1> QED BY <1>4, <1>5, <1>6 DEF Lower, f, t

-----------------------------------------------------------------------------
(* The evidence of all calls *)

\* The feedback vector v tells the history h: the results, the bailouts and, as
\* far as it has slots for them, the types of the arguments.
Tells(v, h) ==
  /\ v = [x \in VectorFields |-> v[x]]
  /\ v.argument_count \in 0 .. MaxArguments
  /\ v.arguments = [i \in 1 .. v.argument_count |-> h.seen[i]]
  /\ v.result = h.results /\ v.bailouts = h.bailouts /\ v.bailouts \in Nat
  /\ v.executions \in Nat /\ h.calls \in Nat /\ v.executions <= h.calls

\* A vector without slots is initialized again by every call; until then nothing
\* has been passed or returned, and nothing has bailed out.
Nothing(h) ==
  /\ h.results = {} /\ h.bailouts = 0
  /\ \A i \in 1 .. MaxArguments : h.seen[i] = {}

EvidenceInv ==
  /\ Tells(function.feedback, history)
  /\ function.feedback.argument_count = 0 => Nothing(history) /\ ~function.optimized

\* The history once the arguments of a call have been recorded.
Seen(h, args) ==
  [calls |-> h.calls + 1,
   seen |-> [i \in 1 .. MaxArguments |->
               IF i \in DOMAIN args THEN h.seen[i] \cup {args[i]} ELSE h.seen[i]],
   results |-> h.results, bailouts |-> h.bailouts]

\* A new vector tells that nothing has happened.
LEMMA VectorTells ==
  ASSUME NEW n \in Nat, NEW h, Nothing(h), h.calls \in Nat
  PROVE  Tells(Vector(n), h) /\ (Vector(n).argument_count = 0 <=> n = 0)
<1> DEFINE c == IF n > MaxArguments THEN MaxArguments ELSE n
<1>1. c \in 0 .. MaxArguments /\ (c = 0 <=> n = 0)
  BY TieredAssumption
<1>2. [i \in 1 .. c |-> {}] = [i \in 1 .. c |-> h.seen[i]]
  BY <1>1, TieredAssumption DEF Nothing
<1> HIDE DEF c
<1>3. Vector(n) = [arguments |-> [i \in 1 .. c |-> {}], result |-> {}, argument_count |-> c,
                   executions |-> 0, bailouts |-> 0]
  BY DEF Vector, c
<1> DEFINE v == Vector(n)
<1>4. v = [x \in VectorFields |-> v[x]]
  BY <1>3, Zenon DEF VectorFields
<1>5. /\ v.arguments = [i \in 1 .. c |-> h.seen[i]] /\ v.result = {} /\ v.argument_count = c
      /\ v.executions = 0 /\ v.bailouts = 0
  BY <1>2, <1>3
<1> HIDE DEF v
<1>6. v.arguments = [i \in 1 .. v.argument_count |-> h.seen[i]]
  BY <1>5, Zenon
<1>7. v.bailouts \in Nat /\ v.executions \in Nat /\ v.executions <= h.calls
  BY <1>5
<1>8. Tells(v, h) /\ (v.argument_count = 0 <=> n = 0)
  BY <1>1, <1>4, <1>5, <1>6, <1>7, Zenon DEF Tells, Nothing
<1> QED BY <1>8 DEF v

\* Observing the arguments of a call keeps a vector true to the history.
LEMMA ObserveTells ==
  ASSUME NEW v, NEW h, NEW args, Tells(v, h)
  PROVE  /\ Tells(ObserveCall(v, args), Seen(h, args))
         /\ ObserveCall(v, args).argument_count = v.argument_count
<1> DEFINE a == [i \in DOMAIN v.arguments |->
                   IF i \in DOMAIN args THEN v.arguments[i] \cup {args[i]} ELSE v.arguments[i]]
           w == [x \in VectorFields |-> IF x = "arguments" THEN a
                                        ELSE IF x = "executions" THEN v.executions + 1 ELSE v[x]]
<1>1. ObserveCall(v, args) = w
  BY Zenon DEF ObserveCall, Tells, VectorFields
<1>2. a = [i \in 1 .. v.argument_count |-> Seen(h, args).seen[i]]
  <2>1. DOMAIN v.arguments = 1 .. v.argument_count
    BY Zenon DEF Tells
  <2>2. \A i \in 1 .. v.argument_count : i \in 1 .. MaxArguments /\ v.arguments[i] = h.seen[i]
    <3>1. v.arguments = [i \in 1 .. v.argument_count |-> h.seen[i]]
      BY Zenon DEF Tells
    <3>2. v.argument_count \in 0 .. MaxArguments
      BY Zenon DEF Tells
    <3> QED BY <3>1, <3>2, TieredAssumption
  <2> QED BY <2>1, <2>2, Zenon DEF Seen
<1> HIDE DEF a
<1>3. /\ w = [x \in VectorFields |-> w[x]] /\ w.arguments = a
      /\ w.argument_count = v.argument_count /\ w.executions = v.executions + 1
      /\ w.result = v.result /\ w.bailouts = v.bailouts
  BY DEF VectorFields
<1> HIDE DEF w
<1>4. /\ Seen(h, args).calls = h.calls + 1 /\ Seen(h, args).results = h.results
      /\ Seen(h, args).bailouts = h.bailouts
  BY DEF Seen
<1>5. /\ v.argument_count \in 0 .. MaxArguments /\ v.result = h.results
      /\ v.bailouts = h.bailouts /\ v.bailouts \in Nat
      /\ v.executions \in Nat /\ h.calls \in Nat /\ v.executions <= h.calls
  BY Zenon DEF Tells
<1>6. v.executions + 1 \in Nat /\ h.calls + 1 \in Nat /\ v.executions + 1 <= h.calls + 1
  BY <1>5
<1>7. Tells(w, Seen(h, args)) /\ w.argument_count = v.argument_count
  BY <1>2, <1>3, <1>4, <1>5, <1>6, Zenon DEF Tells
<1> QED BY <1>1, <1>7

\* What the stages of a call tell keeps a vector true to the history.
LEMMA ToldTells ==
  ASSUME NEW v, NEW w, NEW R, NEW b \in Nat, NEW h, NEW g, Tells(w, h), Told(v, w, R, b),
         g.calls = h.calls, g.seen = h.seen, g.results = h.results \cup R,
         g.bailouts = h.bailouts + b
  PROVE  Tells(v, g) /\ v.argument_count = w.argument_count
<1>1. w.bailouts \in Nat /\ h.bailouts = w.bailouts
  BY Zenon DEF Tells
<1>2. w.bailouts + b \in Nat
  BY <1>1
<1> QED BY <1>1, <1>2, Zenon DEF Tells, Told

\* A call that passes arguments to a function without slots, or any call of a
\* function with slots, is entered with a vector that tells the calls so far.
LEMMA EnteredTells ==
  ASSUME TieredInv, EvidenceInv, NEW args \in Calls
  PROVE  /\ Tells(Entered(function, args).feedback, Seen(history, args))
         /\ Entered(function, args).feedback.argument_count = 0 =>
              args = <<>> /\ Nothing(history) /\ ~function.optimized
         /\ Len(args) \in Nat
<1> DEFINE v == IF function.feedback.argument_count = 0 THEN Vector(Len(args))
                ELSE function.feedback
<1>1. PICK n \in ArgumentCounts : args \in [1 .. n -> Types]
  BY DEF Calls
<1>2. n \in Nat /\ Len(args) = n /\ (n = 0 => args = <<>>)
  BY <1>1, TieredAssumption
<1>3. Tells(v, history) /\ (v.argument_count = 0 => n = 0 /\ Nothing(history) /\ ~function.optimized)
  <2>1. CASE function.feedback.argument_count = 0
    BY <1>2, <2>1, VectorTells DEF EvidenceInv, Tells
  <2>2. CASE function.feedback.argument_count # 0
    BY <2>2 DEF EvidenceInv
  <2> QED BY <2>1, <2>2
<1> HIDE DEF v
<1>4. Entered(function, args).feedback = ObserveCall(v, args)
  <2> DEFINE c == function.call_count + 1
             u == ObserveCall(v, args)
  <2>1. Entered(function, args) = [function EXCEPT !["call_count"] = c, !["feedback"] = u]
    BY Zenon DEF Entered, v
  <2> HIDE DEF u, c
  <2>2. Entered(function, args) = [x \in Fields |-> IF x = "feedback" THEN u
                                     ELSE IF x = "call_count" THEN c ELSE function[x]]
    BY <2>1, ReplacedTwo DEF TieredInv, Good, Fields
  <2>3. Entered(function, args).feedback = u
    BY <2>2 DEF Fields
  <2> QED BY <2>3 DEF u
<1> QED BY <1>2, <1>3, <1>4, ObserveTells

\* Nothing but a promotion compiles optimized code.
LEMMA PartsKeep ==
  ASSUME NEW f, NEW n \in Nat, Good(f, n), NEW r,
         NEW tier \in {"interpreted_calls", "baseline_calls", "optimized_calls"}
  PROVE  /\ Succeeded(f, tier, r).optimized_compilations = f.optimized_compilations
         /\ Bailed(f).optimized_compilations = f.optimized_compilations
         /\ Deoptimized(f).optimized_compilations = f.optimized_compilations
<1>1. Succeeded(f, tier, r).optimized_compilations = f.optimized_compilations
  BY SucceededFeedback, ZenonT(60)
<1>2. Bailed(f).optimized_compilations = f.optimized_compilations
  BY BailedFeedback, Zenon
<1>3. Deoptimized(f).optimized_compilations = f.optimized_compilations
  BY DeoptimizedFeedback, Zenon
<1> QED BY <1>1, <1>2, <1>3

LEMMA RunOptimizedKeeps ==
  ASSUME NEW s, NEW o, NEW n \in Nat, Good(s.f, n)
  PROVE  RunOptimized(s, o).f.optimized_compilations = s.f.optimized_compilations
<1>1. Good(Bailed(s.f), n)
  BY BailedGood
<1>2. Deoptimized(Bailed(s.f)).optimized_compilations = s.f.optimized_compilations
  BY <1>1, BailedFeedback, DeoptimizedFeedback, Zenon
<1>3. Succeeded(s.f, "optimized_calls", o.result).optimized_compilations
        = s.f.optimized_compilations
  BY PartsKeep
<1> QED BY <1>2, <1>3, Zenon DEF RunOptimized, Stage

LEMMA InterpretKeeps ==
  ASSUME NEW s, NEW o, NEW n \in Nat, Good(s.f, n)
  PROVE  Interpret(s, o).f.optimized_compilations = s.f.optimized_compilations
<1>1. Succeeded(s.f, "interpreted_calls", o.result).optimized_compilations
        = s.f.optimized_compilations
  BY PartsKeep
<1> QED BY <1>1, Zenon DEF Interpret, Stage

LEMMA RunBaselineKeeps ==
  ASSUME NEW s, NEW o, NEW n \in Nat, Good(s.f, n)
  PROVE  RunBaseline(s, o).f.optimized_compilations = s.f.optimized_compilations
<1> DEFINE t == Stage(Bailed(s.f), "next", s.bailouts + 1)
           u == Stage(s.f, "error", s.bailouts)
           w == Stage(Succeeded(s.f, "baseline_calls", o.result), "ok", s.bailouts)
<1>1. Good(t.f, n) /\ t.f.optimized_compilations = s.f.optimized_compilations
  BY BailedGood, PartsKeep DEF Stage
<1>2. u.f.optimized_compilations = s.f.optimized_compilations
  BY DEF Stage
<1>3. w.f.optimized_compilations = s.f.optimized_compilations
  BY PartsKeep DEF Stage
<1> HIDE DEF t, u, w
<1>4. Interpret(t, o).f.optimized_compilations = s.f.optimized_compilations
  BY <1>1, InterpretKeeps
<1>5. RunBaseline(s, o) \in {w, u, Interpret(t, o)}
  BY DEF RunBaseline, t, u, w
<1> QED BY <1>2, <1>3, <1>4, <1>5

LEMMA LowerKeeps ==
  ASSUME NEW s, NEW o, NEW n \in Nat, Good(s.f, n)
  PROVE  Lower(s, o).f.optimized_compilations = s.f.optimized_compilations
<1> DEFINE f == [s.f EXCEPT !.compilation_attempted = TRUE]
           t == Stage(f, s.out, s.bailouts)
           u == Stage(f, "error", s.bailouts)
<1>1. Good(f, n)
  BY Zenon DEF Good, Fields
<1>2. f = [x \in Fields |-> IF x = "compilation_attempted" THEN TRUE ELSE s.f[x]]
  BY Replaced, Zenon DEF Good, Fields
<1>3. f.optimized_compilations = s.f.optimized_compilations
  BY <1>2 DEF Fields
<1> HIDE DEF f
<1>4. t.f = f /\ u.f = f
  BY DEF Stage
<1> HIDE DEF t, u
<1>5. /\ RunBaseline(t, o).f.optimized_compilations = s.f.optimized_compilations
      /\ Interpret(t, o).f.optimized_compilations = s.f.optimized_compilations
      /\ RunBaseline(s, o).f.optimized_compilations = s.f.optimized_compilations
      /\ Interpret(s, o).f.optimized_compilations = s.f.optimized_compilations
  BY <1>1, <1>3, <1>4, RunBaselineKeeps, InterpretKeeps
<1>6. Lower(s, o) \in {RunBaseline(t, o), Interpret(t, o), RunBaseline(s, o), Interpret(s, o), u}
  BY DEF Lower, f, t, u
<1> QED BY <1>3, <1>4, <1>5, <1>6

\* A call without arguments of a function that has some fails in the lower tiers,
\* and tells nothing.
LEMMA LowerRefuses ==
  ASSUME NEW s, NEW o, NEW n \in Nat, Good(s.f, n), o.interpreted = "error", o.baseline = "error"
  PROVE  /\ Lower(s, o).out = "error" /\ Lower(s, o).bailouts = s.bailouts
         /\ Lower(s, o).f.feedback = s.f.feedback /\ Lower(s, o).f.optimized = s.f.optimized
<1> DEFINE f == [s.f EXCEPT !.compilation_attempted = TRUE]
           t == Stage(f, s.out, s.bailouts)
<1>1. f = [x \in Fields |-> IF x = "compilation_attempted" THEN TRUE ELSE s.f[x]]
  BY Replaced, Zenon DEF Good, Fields
<1>2. f.feedback = s.f.feedback /\ f.optimized = s.f.optimized
  BY <1>1 DEF Fields
<1> HIDE DEF f
<1>3. t.f = f /\ t.bailouts = s.bailouts
  BY DEF Stage
<1> HIDE DEF t
<1>4. /\ RunBaseline(t, o) = Stage(t.f, "error", t.bailouts)
      /\ Interpret(t, o) = Stage(t.f, "error", t.bailouts)
      /\ RunBaseline(s, o) = Stage(s.f, "error", s.bailouts)
      /\ Interpret(s, o) = Stage(s.f, "error", s.bailouts)
  BY DEF RunBaseline, Interpret
<1>5. \/ Lower(s, o) = Stage(s.f, "error", s.bailouts)
      \/ Lower(s, o) = Stage(f, "error", s.bailouts)
  BY <1>3, <1>4, Zenon DEF Lower, f, t
<1> QED BY <1>2, <1>5 DEF Stage

\* The stages of a call tell what it does.
LEMMA StagesTold ==
  ASSUME TieredInv, EvidenceInv, NEW args \in Calls, NEW o
  PROVE  LET w == Entered(function, args).feedback
         IN  /\ StageTold(EnteredStage(args), w, o) /\ StageTold(FirstStage(args, o), w, o)
             /\ StageTold(PromotedStage(args, o), w, o) /\ StageTold(LastStage(args, o), w, o)
<1> DEFINE n == history.returned
           w == Entered(function, args).feedback
           entered == EnteredStage(args)
           first == FirstStage(args, o)
           promoted == PromotedStage(args, o)
<1>1. /\ n \in Nat /\ entered.f = Entered(function, args) /\ entered.out = "next"
      /\ entered.bailouts = 0 /\ Good(entered.f, n)
      /\ StageGood(first, n) /\ StageGood(promoted, n)
  BY StagesGood
<1>2. Tells(w, Seen(history, args))
  BY EnteredTells
<1>3. w.bailouts \in Nat
  BY <1>2, Zenon DEF Tells
<1>4. StageTold(entered, w, o)
  <2>1. w.bailouts + 0 = w.bailouts /\ 0 \in Nat
    BY <1>3
  <2>2. w.result \cup {} = w.result
    OBVIOUS
  <2>3. w = [x \in VectorFields |-> w[x]]
    BY <1>2, Zenon DEF Tells
  <2>4. Told(w, w, {}, 0)
    BY <2>1, <2>2, <2>3, Zenon DEF Told
  <2> QED BY <1>1, <2>1, <2>4, Zenon DEF StageTold, w
<1> HIDE DEF n, w, entered
<1>5. StageTold(first, w, o)
  <2>1. StageTold(RunOptimized(entered, o), w, o)
    BY <1>1, <1>3, <1>4, RunOptimizedTold
  <2> QED BY <1>4, <2>1 DEF FirstStage, entered
<1> HIDE DEF first
<1>6. StageTold(promoted, w, o)
  BY <1>1, <1>3, <1>5, PromoteTold DEF PromotedStage, first
<1> HIDE DEF promoted
<1>7. StageTold(LastStage(args, o), w, o)
  <2>1. promoted.out = "next" => Good(promoted.f, n)
    BY <1>1, Zenon DEF StageGood
  <2>2. promoted.out = "next" => StageTold(Lower(promoted, o), w, o)
    BY <1>1, <1>3, <1>6, <2>1, LowerTold
  <2> QED BY <1>6, <2>2 DEF LastStage, promoted
<1> QED BY <1>4, <1>5, <1>6, <1>7, Zenon DEF w, entered, first, promoted

\* What a call does to the function and to the history.
LEMMA InvokeEffect ==
  ASSUME NEW args, NEW o, Invoke(args, o)
  PROVE  LET last == LastStage(args, o) IN
         /\ function' = last.f
         /\ history'.calls = Seen(history, args).calls /\ history'.seen = Seen(history, args).seen
         /\ history'.results = history.results \cup (IF last.out = "ok" THEN {o.result} ELSE {})
         /\ history'.bailouts = history.bailouts + last.bailouts
  BY Zenon DEF Invoke, Seen, LastStage, PromotedStage, FirstStage, EnteredStage

\* A call of a function that has arguments keeps the evidence exact.
LEMMA InvokeEvidence ==
  ASSUME Arity # 0, TieredInv, EvidenceInv, NEW args \in Calls, NEW o \in Answers(args),
         Invoke(args, o)
  PROVE  EvidenceInv'
<1> DEFINE n == history.returned
           w == Entered(function, args).feedback
           entered == EnteredStage(args)
           last == LastStage(args, o)
           h == Seen(history, args)
           R == IF last.out = "ok" THEN {o.result} ELSE {}
<1>1. Tells(w, h) /\ (w.argument_count = 0 => args = <<>> /\ Nothing(history) /\ ~function.optimized)
  BY EnteredTells
<1>2. StageTold(last, w, o)
  BY StagesTold
<1>3. Told(last.f.feedback, w, R, last.bailouts) /\ last.bailouts \in Nat
  BY <1>2, Zenon DEF StageTold
<1>4. /\ function' = last.f /\ history'.calls = h.calls /\ history'.seen = h.seen
      /\ history'.results = history.results \cup R
      /\ history'.bailouts = history.bailouts + last.bailouts
  BY InvokeEffect
<1>5. h.results = history.results /\ h.bailouts = history.bailouts
  BY DEF Seen
<1> HIDE DEF w, h, R
<1>6. Tells(function'.feedback, history') /\ function'.feedback.argument_count = w.argument_count
  BY <1>1, <1>3, <1>4, <1>5, ToldTells
<1>7. ASSUME w.argument_count = 0
      PROVE  Nothing(history') /\ ~function'.optimized
  <2>1. /\ n \in Nat /\ entered.f = Entered(function, args) /\ entered.out = "next"
        /\ entered.bailouts = 0 /\ Good(entered.f, n)
        /\ entered.f.optimized = function.optimized
    BY StagesGood
  <2>2. args = <<>> /\ Nothing(history) /\ ~function.optimized
    BY <1>1, <1>7
  <2>3. FirstStage(args, o) = entered
    BY <2>2 DEF FirstStage
  <2>4. ~Eligible(entered.f.feedback)
    <3>1. entered.f.feedback.result = {}
      BY <1>1, <1>5, <2>1, <2>2, Zenon DEF Tells, Nothing, w
    <3>2. \A t \in Types : {} # {t}
      OBVIOUS
    <3> QED BY <3>1, <3>2, Zenon DEF Eligible, IsStable
  <2>5. PromotedStage(args, o) = entered
    BY <2>3, <2>4, Zenon DEF PromotedStage, Promote
  <2>6. last = Lower(entered, o)
    BY <2>1, <2>5, Zenon DEF LastStage
  <2>7. o.interpreted = "error" /\ o.baseline = "error"
    <3>1. Len(args) < Arity
      BY <2>2, TieredAssumption
    <3> QED BY <3>1 DEF Answers
  <2> HIDE DEF last
  <2>8. last.out = "error" /\ last.bailouts = 0 /\ last.f.optimized = FALSE
    BY <2>1, <2>2, <2>6, <2>7, LowerRefuses
  <2>9. history'.results = {} /\ history'.bailouts = 0
    BY <1>4, <2>2, <2>8 DEF Nothing, R
  <2>10. \A i \in 1 .. MaxArguments : history'.seen[i] = {}
    BY <1>4, <2>2 DEF Seen, Nothing, h
  <2> QED BY <1>4, <2>8, <2>9, <2>10 DEF Nothing
<1> QED BY <1>6, <1>7, Zenon DEF EvidenceInv

\* The evidence is exact: for a function that has arguments, the feedback vector
\* tells the types of all arguments it has slots for and of all results, and the
\* bailouts.
LEMMA EvidenceInvariant ==
  ASSUME Arity # 0
  PROVE  TierSpec => []EvidenceInv
<1>1. TierInit => EvidenceInv
  <2> SUFFICES ASSUME TierInit PROVE EvidenceInv
    OBVIOUS
  <2>1. Nothing(history) /\ history.calls \in Nat
    BY DEF TierInit, NoHistory, Nothing
  <2>2. Tells(Vector(0), history)
    BY <2>1, VectorTells
  <2>3. function.feedback = Vector(0) /\ function.optimized = FALSE
    BY DEF TierInit, NewFunction
  <2> QED BY <2>1, <2>2, <2>3 DEF EvidenceInv
<1>2. TieredInv /\ EvidenceInv /\ [TierNext]_tierVars => EvidenceInv'
  <2> SUFFICES ASSUME TieredInv, EvidenceInv, [TierNext]_tierVars PROVE EvidenceInv'
    OBVIOUS
  <2>1. CASE \E args \in Calls : \E o \in Answers(args) : Invoke(args, o)
    BY <2>1, InvokeEvidence
  <2>2. CASE InvalidateOptimized
    <3>1. function' = Deoptimized(function) /\ history' = history /\ function.optimized
      BY <2>2 DEF InvalidateOptimized
    <3>2. Deoptimized(function).feedback = function.feedback
      BY DeoptimizedFeedback DEF TieredInv
    <3> QED BY <3>1, <3>2, Zenon DEF EvidenceInv
  <2>3. CASE Evict
    BY <2>3 DEF Evict, EvidenceInv
  <2>4. CASE Destroy
    <3>1. function' = NewFunction /\ history' = NoHistory
      BY <2>4 DEF Destroy
    <3>2. Nothing(NoHistory) /\ NoHistory.calls \in Nat
      BY DEF NoHistory, Nothing
    <3>3. Tells(Vector(0), NoHistory)
      BY <3>2, VectorTells
    <3>4. NewFunction.feedback = Vector(0) /\ NewFunction.optimized = FALSE
      BY DEF NewFunction
    <3> QED BY <3>1, <3>2, <3>3, <3>4, Zenon DEF EvidenceInv
  <2>5. CASE UNCHANGED tierVars
    BY <2>5, Zenon DEF tierVars, EvidenceInv
  <2> QED BY <2>1, <2>2, <2>3, <2>4, <2>5 DEF TierNext
<1> QED BY <1>1, <1>2, TieredInvariant, PTL DEF TierSpec

\* TurboJS_FeedbackObserveCall, observe_success and TurboJS_FeedbackObserveBailout
\* keep the evidence exact, for every function that has arguments.
THEOREM TieredEvidence ==
  ASSUME Arity # 0
  PROVE  TierSpec => []EvidenceExact
<1>1. EvidenceInv => EvidenceExact
  <2> SUFFICES ASSUME EvidenceInv PROVE EvidenceExact
    OBVIOUS
  <2> DEFINE v == function.feedback
  <2>1. /\ v.arguments = [i \in 1 .. v.argument_count |-> history.seen[i]]
        /\ v.result = history.results /\ v.bailouts = history.bailouts
    BY Zenon DEF EvidenceInv, Tells
  <2> HIDE DEF v
  <2>2. \A i \in DOMAIN v.arguments : v.arguments[i] = history.seen[i]
    BY <2>1
  <2> QED BY <2>1, <2>2 DEF EvidenceExact, v
<1> QED BY <1>1, EvidenceInvariant, PTL

-----------------------------------------------------------------------------
(* Promotion.  The first call that passes arguments sizes the vector, so that    *)
(* calls that pass some, but not all of the declared arguments are left out.     *)

AllOrNone == \A n \in ArgumentCounts : n = 0 \/ n >= Arity \/ n >= MaxArguments

\* A vector with slots has one for every declared argument that can be observed.
Sized(v) == v.argument_count = 0 \/ \A i \in 1 .. Arity : i <= MaxArguments => i <= v.argument_count

\* Entering a call leaves the number of slots, or chooses a sufficient one.
LEMMA EnteredKeepsSized ==
  ASSUME AllOrNone, TieredInv, EvidenceInv, Sized(function.feedback), NEW args \in Calls
  PROVE  /\ Sized(Entered(function, args).feedback)
         /\ Entered(function, args).optimized_compilations = function.optimized_compilations
<1> DEFINE v == IF function.feedback.argument_count = 0 THEN Vector(Len(args))
                ELSE function.feedback
           c == function.call_count + 1
           u == ObserveCall(v, args)
<1>1. PICK n \in ArgumentCounts : args \in [1 .. n -> Types]
  BY DEF Calls
<1>2. n \in Nat /\ Len(args) = n /\ (n = 0 \/ n >= Arity \/ n >= MaxArguments)
  BY <1>1, TieredAssumption DEF AllOrNone
<1>3. Vector(n).argument_count = IF n > MaxArguments THEN MaxArguments ELSE n
  BY DEF Vector
<1>4. Sized(Vector(n))
  BY <1>2, <1>3, TieredAssumption DEF Sized
<1>5. Sized(v) /\ Tells(v, history)
  <2>1. CASE function.feedback.argument_count = 0
    BY <1>2, <1>4, <2>1, VectorTells DEF EvidenceInv, Tells
  <2>2. CASE function.feedback.argument_count # 0
    BY <2>2 DEF EvidenceInv
  <2> QED BY <2>1, <2>2
<1>6. Entered(function, args) = [function EXCEPT !["call_count"] = c, !["feedback"] = u]
  BY Zenon DEF Entered
<1> HIDE DEF u, c, v
<1>7. Entered(function, args) = [x \in Fields |-> IF x = "feedback" THEN u
                                   ELSE IF x = "call_count" THEN c ELSE function[x]]
  BY <1>6, ReplacedTwo DEF TieredInv, Good, Fields
<1>8. /\ Entered(function, args).feedback = u
      /\ Entered(function, args).optimized_compilations = function.optimized_compilations
  BY <1>7 DEF Fields
<1>9. u.argument_count = v.argument_count
  BY <1>5, ObserveTells DEF u
<1> QED BY <1>5, <1>8, <1>9, Zenon DEF Sized

\* A call keeps a sufficient number of slots.
LEMMA InvokeSized ==
  ASSUME AllOrNone, TieredInv, EvidenceInv, Sized(function.feedback), NEW args \in Calls, NEW o,
         Invoke(args, o)
  PROVE  Sized(function'.feedback)
<1> DEFINE w == Entered(function, args).feedback
           last == LastStage(args, o)
<1>1. StageTold(last, w, o)
  BY StagesTold
<1>2. function' = last.f
  BY InvokeEffect
<1>3. Sized(w)
  BY EnteredKeepsSized
<1> HIDE DEF w, last
<1>4. function'.feedback.argument_count = w.argument_count
  BY <1>1, <1>2, Zenon DEF StageTold, Told
<1> QED BY <1>3, <1>4, Zenon DEF Sized

\* A bailout does not give a second attempt.
LEMMA DeoptimizedAttempted ==
  ASSUME NEW f, NEW n \in Nat, Good(f, n)
  PROVE  Deoptimized(f).optimization_attempted = f.optimization_attempted
<1> DEFINE c == f.optimized_invalidations + 1
<1>1. Deoptimized(f) = [f EXCEPT !["optimized"] = FALSE, !["optimized_invalidations"] = c]
  BY Zenon DEF Deoptimized
<1> HIDE DEF c
<1>2. Deoptimized(f) = [x \in Fields |-> IF x = "optimized_invalidations" THEN c
                                  ELSE IF x = "optimized" THEN FALSE ELSE f[x]]
  BY <1>1, ReplacedTwo, Zenon DEF Good, Fields
<1> QED BY <1>2, SMTT(60) DEF Fields

\* A call that compiles optimized code has been found eligible on entry.
LEMMA InvokeEligible ==
  ASSUME AllOrNone, TieredInv, EvidenceInv, Sized(function.feedback), NEW args \in Calls, NEW o,
         Invoke(args, o), function'.optimized_compilations # function.optimized_compilations
  PROVE  Eligible(Entered(function, args).feedback)
<1> DEFINE n == history.returned
           entered == EnteredStage(args)
           first == FirstStage(args, o)
           promoted == PromotedStage(args, o)
           last == LastStage(args, o)
<1>1. /\ n \in Nat /\ entered.f = Entered(function, args) /\ Good(entered.f, n)
      /\ entered.out = "next"
      /\ function.optimized => entered.f.optimization_attempted
      /\ StageGood(first, n) /\ StageGood(promoted, n)
  BY StagesGood
<1>2. function' = last.f
  BY InvokeEffect
<1>3. entered.f.optimized_compilations = function.optimized_compilations
  BY <1>1, EnteredKeepsSized
<1>4. first.f.optimized_compilations = function.optimized_compilations
  BY <1>1, <1>3, RunOptimizedKeeps DEF FirstStage
<1>5. last.f.optimized_compilations = promoted.f.optimized_compilations
  <2>1. promoted.out = "next" => Good(promoted.f, n)
    BY <1>1, Zenon DEF StageGood
  <2> HIDE DEF promoted
  <2>2. promoted.out = "next" =>
          Lower(promoted, o).f.optimized_compilations = promoted.f.optimized_compilations
    BY <1>1, <2>1, LowerKeeps
  <2> QED BY <2>2 DEF LastStage, promoted
<1>6. promoted # first
  BY <1>2, <1>4, <1>5
<1>7. StageTold(first, Entered(function, args).feedback, o)
  BY StagesTold
<1>8. Entered(function, args).feedback.bailouts \in Nat
  <2>1. Tells(Entered(function, args).feedback, Seen(history, args))
    BY EnteredTells, SMTT(60)
  <2> QED BY <2>1, Zenon DEF Tells
<1>9. first.out = "next" /\ ~first.f.optimization_attempted /\ Eligible(first.f.feedback)
  <2> HIDE DEF first
  <2>1. Promote(first, o) # first
    BY <1>6 DEF PromotedStage, first
  <2> QED BY <1>1, <1>7, <1>8, <2>1, PromoteTold
<1>10. ~function.optimized
  <2> SUFFICES ASSUME function.optimized PROVE FALSE
    OBVIOUS
  <2>1. first = RunOptimized(entered, o)
    BY DEF FirstStage
  <2> HIDE DEF first, entered
  <2>2. first = Stage(Deoptimized(Bailed(entered.f)), "next", entered.bailouts + 1)
    BY <1>9, <2>1 DEF RunOptimized, Stage
  <2>3. first.f = Deoptimized(Bailed(entered.f))
    BY <2>2 DEF Stage
  <2>4. /\ Good(Bailed(entered.f), n)
        /\ Bailed(entered.f).optimization_attempted = entered.f.optimization_attempted
    BY <1>1, BailedGood, SMTT(60)
  <2>5. first.f.optimization_attempted = entered.f.optimization_attempted
    BY <1>1, <2>3, <2>4, DeoptimizedAttempted
  <2> QED BY <1>1, <1>9, <2>5
<1>11. first = entered
  BY <1>10 DEF FirstStage
<1> QED BY <1>1, <1>9, <1>11, SMTT(60)

\* A call promotes the function only if the calls so far justify it.
LEMMA InvokePromotes ==
  ASSUME AllOrNone, TieredInv, EvidenceInv, Sized(function.feedback), NEW args \in Calls, NEW o,
         Invoke(args, o), function'.optimized_compilations # function.optimized_compilations
  PROVE  /\ history'.calls >= OptimizationThreshold
         /\ \A i \in 1 .. Arity : i <= MaxArguments => \E t \in Types : history'.seen[i] = {t}
         /\ \E t \in Types : history.results = {t}
         /\ history.bailouts <= MaxBailouts
<1> DEFINE w == Entered(function, args).feedback
           h == Seen(history, args)
<1>1. Eligible(w)
  BY InvokeEligible
<1>2. Tells(w, h) /\ (w.argument_count = 0 => Nothing(history))
  BY EnteredTells
<1>3. Sized(w)
  BY EnteredKeepsSized
<1>4. history'.calls = h.calls /\ history'.seen = h.seen
  BY InvokeEffect
<1>5. h.results = history.results /\ h.bailouts = history.bailouts
  BY DEF Seen
<1> HIDE DEF w, h
<1>6. /\ w.arguments = [i \in 1 .. w.argument_count |-> h.seen[i]]
      /\ w.result = h.results /\ w.bailouts = h.bailouts
      /\ w.executions \in Nat /\ h.calls \in Nat /\ w.executions <= h.calls
      /\ w.argument_count \in 0 .. MaxArguments
  BY <1>2, Zenon DEF Tells
<1>7. /\ w.executions >= OptimizationThreshold /\ w.bailouts <= MaxBailouts
      /\ \A i \in DOMAIN w.arguments : \E t \in Types : w.arguments[i] = {t}
      /\ \E t \in Types : w.result = {t}
  BY <1>1, Zenon DEF Eligible, IsStable
<1>8. history'.calls >= OptimizationThreshold
  BY <1>4, <1>6, <1>7, TieredAssumption
<1>9. w.argument_count # 0
  <2>1. \A t \in Types : {} # {t}
    OBVIOUS
  <2> QED BY <1>2, <1>5, <1>6, <1>7, <2>1, Zenon DEF Nothing
<1>10. ASSUME NEW i \in 1 .. Arity, i <= MaxArguments
       PROVE  \E t \in Types : history'.seen[i] = {t}
  <2>1. i \in 1 .. w.argument_count
    BY <1>3, <1>6, <1>9, <1>10, TieredAssumption DEF Sized
  <2> QED BY <1>4, <1>6, <1>7, <2>1, ZenonT(60)
<1> QED BY <1>5, <1>6, <1>7, <1>8, <1>10

\* TurboJS_EvaluateOptimization promotes a function only if all its calls so far
\* justify it, when every call passes all declared arguments or none.
THEOREM TieredPromotes ==
  ASSUME Arity # 0, AllOrNone
  PROVE  TierSpec => PromotionJustified
<1> DEFINE P == Sized(function.feedback)
           A == function'.optimized_compilations > function.optimized_compilations =>
                  /\ history'.calls >= OptimizationThreshold
                  /\ \A i \in 1 .. Arity : i <= MaxArguments => \E t \in Types : history'.seen[i] = {t}
                  /\ \E t \in Types : history.results = {t}
                  /\ history.bailouts <= MaxBailouts
<1>0. Sized(NewFunction.feedback)
  BY TieredAssumption DEF NewFunction, Vector, Sized
<1>1. TierInit => P
  BY <1>0 DEF TierInit
<1>2. TieredInv /\ EvidenceInv /\ P /\ [TierNext]_tierVars => P' /\ [A]_tierVars
  <2> SUFFICES ASSUME TieredInv, EvidenceInv, P, [TierNext]_tierVars
               PROVE  P' /\ [A]_tierVars
    OBVIOUS
  <2>1. function.optimized_compilations \in Nat
    BY DEF TieredInv, Good
  <2>2. CASE \E args \in Calls : \E o \in Answers(args) : Invoke(args, o)
    <3>0. PICK args \in Calls : \E o \in Answers(args) : Invoke(args, o)
      BY <2>2
    <3>1. PICK o \in Answers(args) : Invoke(args, o)
      BY <3>0
    <3>2. P'
      BY <3>1, InvokeSized
    <3>3. function'.optimized_compilations = function.optimized_compilations => A
      BY <2>1
    <3>4. function'.optimized_compilations # function.optimized_compilations => A
      BY <3>1, InvokePromotes
    <3> QED BY <3>2, <3>3, <3>4
  <2>3. CASE InvalidateOptimized
    <3>1. function' = Deoptimized(function)
      BY <2>3 DEF InvalidateOptimized
    <3>2. /\ Deoptimized(function).feedback = function.feedback
          /\ Deoptimized(function).optimized_compilations = function.optimized_compilations
      BY DeoptimizedFeedback DEF TieredInv
    <3>3. P'
      BY <3>1, <3>2
    <3>4. A
      BY <2>1, <3>1, <3>2
    <3> QED BY <3>3, <3>4
  <2>4. CASE Evict
    <3>1. function' = function
      BY <2>4 DEF Evict
    <3> QED BY <2>1, <3>1
  <2>5. CASE Destroy
    <3>1. function' = NewFunction
      BY <2>5 DEF Destroy
    <3>2. NewFunction.optimized_compilations = 0
      BY DEF NewFunction
    <3>3. A
      BY <2>1, <3>1, <3>2
    <3> QED BY <1>0, <3>1, <3>3
  <2>6. CASE UNCHANGED tierVars
    BY <2>6 DEF tierVars
  <2> QED BY <2>2, <2>3, <2>4, <2>5, <2>6 DEF TierNext
<1> HIDE DEF P
<1> QED BY <1>1, <1>2, TieredInvariant, EvidenceInvariant, PTL DEF TierSpec, PromotionJustified
=============================================================================
