----------------------------- MODULE KernelObject -----------------------------
(***************************************************************************)
(* The Kernel methods of src/kernel.c that read or change an object's    *)
(* header and instance variables: freeze, frozen?, remove_instance_      *)
(* variable, respond_to?, initialize_copy, instance_of? and kind_of?.    *)
(*                                                                         *)
(* The frozen bit is RBasic's (object.h).  An object may have a          *)
(* singleton class (o->c of type MRB_TT_SCLASS) with its own frozen bit, *)
(* which guards the definition of singleton methods.  The instance-      *)
(* variable store (variable.c), singleton-class creation and method      *)
(* definition (class.c) are not part of the sources; they follow spec    *)
(* 4.1 and 3 and are marked as such below.                               *)
(***************************************************************************)
EXTENDS Naturals

CONSTANTS
  Heap,           \* heap objects (RBasic)
  Imms,           \* immediate values: no header, no instance variables
  IvNames,        \* valid instance-variable names (@x)
  BadNames,       \* symbols that are not (x, @@x)
  Vals,           \* values an instance variable can hold
  SMids,          \* names a singleton method can be defined with
  KernelPublic,   \* public methods every object's class defines
  KernelPrivate,  \* private ones (mrb_define_private_method_id)
  RtmResults,     \* what a respond_to_missing? of the program can return
  Classes,        \* real classes
  ClassOf,        \* ClassOf[v]: mrb_obj_class(v)
  Ancestors,      \* Ancestors[c]: c, its superclasses and included modules
  NIL, UNDEF

VARIABLES
  frozen,  \* frozen[o]: RBasic frozen bit
  sc,      \* sc[o]: "none", or the singleton class's state "open" / "frozen"
  smeths,  \* smeths[o]: names defined in o's singleton class
  ivars,   \* ivars[o][n]: the instance variable, UNDEF when not defined
  last,    \* the last method called: its name and symbol arguments
  ret      \* what it returned, or the error it raised

vars == <<frozen, sc, smeths, ivars, last, ret>>

Values == Heap \cup Imms

Init ==
  /\ frozen = [o \in Heap |-> FALSE]
  /\ sc = [o \in Heap |-> "none"]
  /\ smeths = [o \in Heap |-> {}]
  /\ ivars = [o \in Heap |-> [n \in IvNames |-> UNDEF]]
  /\ last = [op |-> "none"]
  /\ ret = NIL

RValue(b) == IF b THEN "true" ELSE "false"

(* mrb_frozen_p, with immediates counted frozen as mrb_obj_frozen does.   *)
FrozenP(v) == v \in Imms \/ frozen[v]

(* Mutant of mrb_obj_freeze that leaves the singleton class open.        *)
FreezeKeepSingleton(v) ==
  /\ IF v \in Imms \/ frozen[v] THEN UNCHANGED frozen
     ELSE frozen' = [frozen EXCEPT ![v] = TRUE]
  /\ last' = [op |-> "freeze"] /\ ret' = v
  /\ UNCHANGED <<sc, smeths, ivars>>

(* mrb_obj_freeze: a heap object not yet frozen gets its frozen bit, and *)
(* its singleton class too when it has one; self is returned.            *)
Freeze(v) ==
  /\ IF v \in Imms \/ frozen[v] THEN UNCHANGED <<frozen, sc>>
     ELSE /\ frozen' = [frozen EXCEPT ![v] = TRUE]
          /\ sc' = IF sc[v] = "none" THEN sc ELSE [sc EXCEPT ![v] = "frozen"]
  /\ last' = [op |-> "freeze"] /\ ret' = v
  /\ UNCHANGED <<smeths, ivars>>

(* mrb_obj_frozen.                                                        *)
Frozen(v) ==
  /\ last' = [op |-> "frozen?"] /\ ret' = RValue(FrozenP(v))
  /\ UNCHANGED <<frozen, sc, smeths, ivars>>

(* class.c prepare_singleton_class: a new singleton class takes the       *)
(* object's frozen bit.                                                   *)
NewSingleton(o) == IF frozen[o] THEN "frozen" ELSE "open"

(* Object#singleton_class on an object without one.                       *)
SingletonClass(o) ==
  /\ sc[o] = "none"
  /\ sc' = [sc EXCEPT ![o] = NewSingleton(o)]
  /\ last' = [op |-> "singleton_class"] /\ ret' = o
  /\ UNCHANGED <<frozen, smeths, ivars>>

(* def o.m: the singleton class is made if need be, and the method is     *)
(* added unless that class is frozen (mrb_define_method_raw checks it).  *)
DefineSingletonMethod(o, m) ==
  LET s == IF sc[o] = "none" THEN NewSingleton(o) ELSE sc[o] IN
  /\ sc' = [sc EXCEPT ![o] = s]
  /\ IF s = "frozen"
     THEN ret' = "FrozenError" /\ UNCHANGED smeths
     ELSE ret' = m /\ smeths' = [smeths EXCEPT ![o] = @ \cup {m}]
  /\ last' = [op |-> "def", mid |-> m]
  /\ UNCHANGED <<frozen, ivars>>

(* instance_variable_set / mrb_iv_set (spec 4.1): fails on a frozen      *)
(* object.                                                                *)
IvSet(o, n, x) ==
  /\ IF frozen[o]
     THEN ret' = "FrozenError" /\ UNCHANGED ivars
     ELSE ret' = x /\ ivars' = [ivars EXCEPT ![o][n] = x]
  /\ last' = [op |-> "iv_set", name |-> n]
  /\ UNCHANGED <<frozen, sc, smeths>>

(* mrb_iv_remove (spec 4.1): nothing to remove from an immediate; a      *)
(* frozen object refuses; otherwise the value, or UNDEF when undefined.  *)
IvRemove(v, n) ==
  CASE v \in Imms                -> [out |-> UNDEF, tbl |-> NIL]
    [] frozen[v]                 -> [out |-> "FrozenError", tbl |-> ivars[v]]
    [] OTHER                     -> [out |-> ivars[v][n],
                                     tbl |-> [ivars[v] EXCEPT ![n] = UNDEF]]

(* mrb_obj_remove_instance_variable: mrb_iv_name_sym_check raises         *)
(* NameError for a symbol that is not an instance-variable name; UNDEF   *)
(* from mrb_iv_remove raises NameError too.                              *)
RemoveInstanceVariable(v, n) ==
  /\ last' = [op |-> "remove_instance_variable", name |-> n]
  /\ IF n \in BadNames
     THEN ret' = "NameError" /\ UNCHANGED ivars
     ELSE LET r == IvRemove(v, n) IN
          /\ ret' = IF r.out = UNDEF THEN "NameError" ELSE r.out
          /\ IF v \in Heap THEN ivars' = [ivars EXCEPT ![v] = r.tbl] ELSE UNCHANGED ivars
  /\ UNCHANGED <<frozen, sc, smeths>>

(* mrb_respond_to (class.c): method search from the object's class,      *)
(* which finds private methods as well as public ones (spec 4.2).        *)
MrbRespondTo(v, m) ==
  m \in KernelPublic \cup KernelPrivate \/ (v \in Heap /\ m \in smeths[v])

(* obj_respond_to: when the search fails and respond_to_missing? is not  *)
(* Kernel's (which answers false), its truthiness is the answer; priv is *)
(* passed to respond_to_missing? and nowhere else.                       *)
RespondTo(v, m, priv, rtm) ==
  /\ last' = [op |-> "respond_to?", mid |-> m, priv |-> priv]
  /\ ret' = IF ~MrbRespondTo(v, m) /\ rtm # "basic"
            THEN RValue(rtm \notin {"false", "nil"})
            ELSE RValue(MrbRespondTo(v, m))
  /\ UNCHANGED <<frozen, sc, smeths, ivars>>

(* mrb_type: what an immediate or a heap object is tagged with.          *)
TypeOf(v) == IF v \in Imms THEN "fixnum" ELSE "object"

(* mrb_obj_init_copy: copying an object onto itself does nothing; the    *)
(* original must have the same type and class.                           *)
InitCopy(v, orig) ==
  /\ last' = [op |-> "initialize_copy"]
  /\ ret' = IF v = orig THEN v
            ELSE IF TypeOf(v) # TypeOf(orig) \/ ClassOf[v] # ClassOf[orig]
                 THEN "TypeError" ELSE v
  /\ UNCHANGED <<frozen, sc, smeths, ivars>>

(* obj_is_instance_of: the real class, past any singleton class, is c.   *)
InstanceOf(v, c) ==
  /\ last' = [op |-> "instance_of?"]
  /\ ret' = RValue(ClassOf[v] = c)
  /\ UNCHANGED <<frozen, sc, smeths, ivars>>

(* mrb_obj_is_kind_of_m over mrb_obj_is_kind_of (class.c).               *)
KindOf(v, c) ==
  /\ last' = [op |-> "kind_of?"]
  /\ ret' = RValue(c \in Ancestors[ClassOf[v]])
  /\ UNCHANGED <<frozen, sc, smeths, ivars>>

Next ==
  \/ \E v \in Values : Freeze(v) \/ Frozen(v)
  \/ \E o \in Heap : SingletonClass(o)
  \/ \E o \in Heap, m \in SMids : DefineSingletonMethod(o, m)
  \/ \E o \in Heap, n \in IvNames, x \in Vals : IvSet(o, n, x)
  \/ \E v \in Values, n \in IvNames \cup BadNames : RemoveInstanceVariable(v, n)
  \/ \E v \in Values, m \in SMids \cup KernelPublic \cup KernelPrivate,
        priv \in BOOLEAN, rtm \in RtmResults : RespondTo(v, m, priv, rtm)
  \/ \E v, orig \in Values : InitCopy(v, orig)
  \/ \E v \in Values, c \in Classes : InstanceOf(v, c) \/ KindOf(v, c)

Spec == Init /\ [][Next]_vars

-----------------------------------------------------------------------------
TypeOK ==
  /\ frozen \in [Heap -> BOOLEAN]
  /\ sc \in [Heap -> {"none", "open", "frozen"}]
  /\ smeths \in [Heap -> SUBSET SMids]
  /\ ivars \in [Heap -> [IvNames -> Vals \cup {UNDEF}]]
  /\ ret \in Values \cup Vals \cup SMids \cup {NIL, "true", "false", "FrozenError",
                                           "NameError", "TypeError"}

(* A frozen object stays frozen and nothing changes it: no instance      *)
(* variable is set or removed and no singleton method is added, whether *)
(* its singleton class was made before mrb_obj_freeze or after (spec 3: *)
(* attempts to mutate a frozen object must fail).                        *)
FrozenStaysFrozen ==
  \A o \in Heap : frozen[o] =>
     frozen'[o] /\ ivars'[o] = ivars[o] /\ smeths'[o] = smeths[o]
FrozenObjectImmutable == [][FrozenStaysFrozen]_vars

(* respond_to?(m) leaves private methods out unless include_private is   *)
(* true (the comment of obj_respond_to, kernel.c:568-570).               *)
RespondToAsDocumented ==
  last.op = "respond_to?" /\ last.mid \in KernelPrivate /\ ~last.priv
    => ret = "false"
=============================================================================
