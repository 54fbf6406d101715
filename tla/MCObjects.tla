------------------------------ MODULE MCObjects -----------------------------
(* Programs that change layouts, and programs whose property instructions   *)
(* have inline caches, for TLC: a behaviour is of one of the two kinds.     *)
EXTENDS Naturals, Sequences, TLC

CONSTANTS
  Null, Objects, Addresses, Protos, ObjectProto, Atoms, Ways, InitialSize, CompactAt,
  x, get, put  \* a name, and two sites that access it through one entry

VARIABLES program, sh, obj, slots, trans, ic, failed

SameAtom == get :> x @@ put :> x
TwoKinds == get :> "get" @@ put :> "put"
SharedEntry == get :> "entry" @@ put :> "entry"

Layouts == INSTANCE Shapes WITH
  Kinds <- {"data", "getset"},
  Sites <- {}, SiteAtom <- <<>>, SiteKind <- <<>>, SiteEntry <- <<>>,
  Transitions <- FALSE, CacheIndex <- <<>>,
  Operations <- {"alloc", "redefine", "delete", "setproto"}

Caching == INSTANCE Shapes WITH
  Protos <- {ObjectProto},
  Kinds <- {"data", "readonly"},
  Sites <- {get, put},
  SiteAtom <- SameAtom, SiteKind <- TwoKinds, SiteEntry <- SharedEntry,
  Transitions <- FALSE, CacheIndex <- <<>>,
  Operations <- {"from"}

Init ==
  \/ program = "layouts" /\ Layouts!Init
  \/ program = "caching" /\ Caching!Init

Next ==
  /\ UNCHANGED program
  /\ \/ program = "layouts" /\ Layouts!Next
     \/ program = "caching" /\ Caching!Next

Spec == Init /\ [][Next]_<<program, sh, obj, slots, trans, ic, failed>>

Symmetry == Permutations(Objects) \cup Permutations(Addresses)

-----------------------------------------------------------------------------
(* The properties of Shapes, of programs of both kinds. *)

(* Shapes!Consistent, in programs without inline caches: shapes are counted     *)
(* exactly, a layout is in the table once and the assertion of add_property     *)
(* holds.  Of programs with inline caches, all of whose shapes stay in the      *)
(* table, only the exact counts are claimed: JS_NewObjectFrom may put a layout  *)
(* in again and its assertion may fail.  A program that caches shapes outside   *)
(* the table is neither: there the assertion of add_property fails.             *)
Consistent ==
  IF program = "layouts" THEN Layouts!Consistent ELSE Caching!TypeOK /\ Caching!RefsExact

(* Shapes!IcSound: the index that turbojs_vm_property_ic_lookup yields is the   *)
(* one of the property that the site names                                      *)
IcSound == program = "caching" => Caching!IcSound

Properties == {[atom |-> a, kind |-> k] : a \in Atoms, k \in {"data", "readonly", "getset"}}

Obj == INSTANCE Objects WITH
         own <- [o \in Objects |->
                   IF program = "layouts" THEN Layouts!Own(o) ELSE Caching!Own(o)],
         Props <- Properties,
         NoObject <- Null

(* Shapes!ImplementsObjects: objects that share, clone and move shapes behave   *)
(* as ordered property maps of their own                                        *)
ImplementsObjects == Obj!Spec
=============================================================================
