------------------------------- MODULE MCJobs -------------------------------
(* Programs that use promises and async functions, programs that call       *)
(* finally, and programs that use generators and async generators, for TLC: *)
(* a behaviour is of one of the three kinds.                                *)
EXTENDS Naturals, Sequences, TLC

CONSTANTS Values, Thenables, Poisoned, Undefined, Error, None, MaxPromises, MaxPairs,
          Calls, MaxCombs, Arrays, Functions,
          SyncGenerators, AsyncGenerators, IterResult, MaxRequests,
          Programs,  \* the kinds of program: "promises", "finally", "generators"
          v, v2,     \* two values
          array      \* the array of a combinator

VARIABLES program, heap, held, comb, fn, finals, gen, stack, requests

ofPromises == <<comb, fn, finals>>
ofGenerators == <<gen, stack, requests>>
vars == <<program, heap, held, ofPromises, ofGenerators>>

P == INSTANCE Promises WITH Features <- {"then", "async"}
F == INSTANCE Promises WITH
       Features <- {"finally"}, Values <- {v, v2}, Thenables <- {}, Poisoned <- {},
       Calls <- {}, Functions <- {}, MaxPromises <- MaxPromises + 1, MaxPairs <- MaxPairs + 1
G == INSTANCE Generators WITH Values <- {v}, Thenables <- {}, Poisoned <- {}

Call(type, items, throws) == [type |-> type, items |-> items, throws |-> throws]

(* combinators of two promises of the program, of one and a value, of nothing, *)
(* and of one with an iterator that throws                                     *)
SmallCalls ==
  {Call(y, <<1, 2>>, FALSE) : y \in {"all", "allSettled", "any", "race"}}
    \cup {Call("all", <<>>, FALSE), Call("all", <<v, 1>>, FALSE), Call("any", <<1>>, TRUE)}

OneArray == <<array>>

Init ==
  /\ program \in Programs
  /\ CASE program = "promises"   -> P!Init /\ gen = <<>> /\ stack = <<>> /\ requests = <<>>
       [] program = "finally"    -> F!Init /\ gen = <<>> /\ stack = <<>> /\ requests = <<>>
       [] program = "generators" -> G!Init /\ comb = <<>> /\ fn = <<>> /\ finals = {}

Next ==
  /\ UNCHANGED program
  /\ \/ program = "promises" /\ P!Next /\ UNCHANGED ofGenerators
     \/ program = "finally" /\ F!Next /\ UNCHANGED ofGenerators
     \/ program = "generators" /\ G!Next /\ UNCHANGED ofPromises

Spec == Init /\ [][Next]_vars

-----------------------------------------------------------------------------
(* The properties of Promises and Generators, under names of their own. *)

(* Promises!Consistent and Generators!Consistent: jobs carry the outcome of the *)
(* promise they react to, the host is told of exactly the rejections nobody     *)
(* handles, and no frame of a generator is resumed or freed while it runs       *)
Consistent ==
  CASE program = "promises"   -> P!Consistent
    [] program = "finally"    -> F!Consistent
    [] program = "generators" -> G!Consistent

(* Promises!OneResolver: a pending promise can be settled from exactly one      *)
(* place, a settled one from none                                               *)
OneResolver ==
  CASE program = "promises" -> P!OneResolver
    [] program = "finally"  -> F!OneResolver
    [] OTHER                -> TRUE

(* Promises!NeverForgotten: when no job is left, whatever is pending waits for  *)
(* the program or for another pending promise                                   *)
NeverForgotten ==
  CASE program = "promises" -> P!NeverForgotten
    [] program = "finally"  -> F!NeverForgotten
    [] OTHER                -> TRUE

(* Promises!CombinatorExact: js_promise_all delivers its array when all items   *)
(* have settled, with the outcome of each at its index                          *)
CombinatorExact == program = "promises" => P!CombinatorExact

(* Promises!FinallyTransparent: finally passes a fulfilment on, and makes none  *)
(* up                                                                           *)
FinallyTransparent == program = "finally" => F!FinallyTransparent

(* Generators!AnsweredInOrder: requests of an async generator are answered once *)
(* each, in the order they were made                                            *)
AnsweredInOrder == program = "generators" => G!AnsweredInOrder

(* Promises!OneContinuation and Generators!OneContinuation: an await has exactly *)
(* one continuation, and what has ended has none                                 *)
OneContinuation ==
  /\ program = "promises" => P!OneContinuation
  /\ program = "generators" => G!OneContinuation

(* Generators!RequestsServed: when nothing runs and no job is left, a request   *)
(* waits only for an await of the generator                                     *)
RequestsServed == program = "generators" => G!RequestsServed
=============================================================================
