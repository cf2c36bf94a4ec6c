-------------------------------- MODULE Kernel --------------------------------
(***************************************************************************)
(* The Kernel methods of src/kernel.c: Kernel#inspect (KernelInspect)   *)
(* and Kernel#__case_eqq (KernelCaseEqq), which call back into methods   *)
(* of the objects they are given (inspect, ===), and the methods on an   *)
(* object's header and instance variables (KernelObject), which a        *)
(* program calls in any order, and Kernel#<=> (KernelCmp), which calls   *)
(* the objects' == and may be called back from it.  call says which of  *)
(* the four a program run exercises; the others' state stays at rest.    *)
(***************************************************************************)
EXTENDS Naturals, Sequences

CONSTANTS Objs, Imms, IvTables, SuperInspect, CustomToS, Names, MaxDepth,
          Elems, Arrays, MaxLen, NIL,
          Heap, IvNames, BadNames, Vals, SMids, KernelPublic, KernelPrivate,
          RtmResults, Classes, ClassOf, Ancestors, UNDEF,
          CObjs, MaxCDepth

VARIABLES call, iv, ci, root, result, kind, ary, len, i, tested, pc, cresult,
          frozen, sc, smeths, ivars, last, ret,
          eqOf, cmpSup, croot, cstack, cres

inspectVars == <<iv, ci, root, result>>
ceqqVars == <<kind, ary, len, i, tested, pc, cresult>>
objectVars == <<frozen, sc, smeths, ivars, last, ret>>
cmpVars == <<eqOf, cmpSup, croot, cstack, cres>>
vars == <<call, inspectVars, ceqqVars, objectVars, cmpVars>>

I == INSTANCE KernelInspect
C == INSTANCE KernelCaseEqq WITH result <- cresult
O == INSTANCE KernelObject
Cm == INSTANCE KernelCmp

(* Kernel#inspect not called: a fixed initial state of its model.        *)
InspectIdle ==
  /\ iv = CHOOSE t \in IvTables : TRUE
  /\ root = CHOOSE o \in Objs : TRUE
  /\ ci = <<I!Frame("main", NIL, FALSE), I!InspectFrame(root)>>
  /\ result = NIL

(* __case_eqq not called.                                                 *)
CeqqIdle ==
  /\ kind = "nil" /\ ary = <<>> /\ len = 0 /\ i = 1 /\ tested = {}
  /\ pc = "start" /\ cresult = NIL

(* Kernel#<=> not called.                                                 *)
CmpIdle ==
  LET x == CHOOSE o \in CObjs : TRUE IN
  /\ eqOf = [o \in CObjs |-> "identity"] /\ cmpSup = {} /\ croot = <<"cmp", x, x>>
  /\ cstack = <<Cm!Frame("main", NIL, NIL, "main"), Cm!Frame("cmp", x, x, "kernel")>>
  /\ cres = Cm!Running

Init ==
  \/ call = "inspect" /\ I!Init /\ CeqqIdle /\ O!Init /\ CmpIdle
  \/ call = "ceqq" /\ C!Init /\ InspectIdle /\ O!Init /\ CmpIdle
  \/ call = "object" /\ O!Init /\ InspectIdle /\ CeqqIdle /\ CmpIdle
  \/ call = "cmp" /\ Cm!Init /\ InspectIdle /\ CeqqIdle /\ O!Init

Next ==
  \/ call = "inspect" /\ I!Next /\ UNCHANGED <<call, ceqqVars, objectVars, cmpVars>>
  \/ call = "ceqq" /\ C!Next /\ UNCHANGED <<call, inspectVars, objectVars, cmpVars>>
  \/ call = "object" /\ O!Next /\ UNCHANGED <<call, inspectVars, ceqqVars, cmpVars>>
  \/ call = "cmp" /\ Cm!Next /\ UNCHANGED <<call, inspectVars, ceqqVars, objectVars>>

(* The VM runs the C functions and the Ruby methods they call without    *)
(* waiting on anything (KernelInspect, KernelCaseEqq).                   *)
Spec == Init /\ [][Next]_vars /\ WF_vars(Next)

-----------------------------------------------------------------------------
TypeOK ==
  /\ call \in {"inspect", "ceqq", "object", "cmp"}
  /\ I!TypeOK /\ C!TypeOK /\ O!TypeOK /\ Cm!TypeOK

(* No object ever has more than two Kernel#inspect frames on the stack   *)
(* (KernelInspect!GuardCutsRecursion).                                    *)
GuardCutsRecursion == I!GuardCutsRecursion

(* x == x is true when x's == is guarded by __method_recursive? and its  *)
(* <=> is Kernel's (KernelCmp!EqGuardReflexive).                         *)
EqGuardReflexive == call = "cmp" => Cm!EqGuardReflexive

(* Whichever is called returns to its caller: inspect on a cyclic object *)
(* graph, __case_eqq whatever === does to the list, x <=> y whatever ==  *)
(* and <=> the classes define.                                           *)
Termination ==
  /\ call = "inspect" => I!Termination
  /\ call = "ceqq" => C!Termination
  /\ call = "cmp" => Cm!CmpTerminates

(* Nothing changes a frozen object: its instance variables and singleton *)
(* methods stay as they were (KernelObject!FrozenObjectImmutable).       *)
FrozenObjectImmutable == O!FrozenObjectImmutable

(* What Ruby documents of these methods: x.inspect is the promised text  *)
(* (KernelInspect!InspectAsExpected), __case_eqq calls === only on       *)
(* elements the list holds (KernelCaseEqq!CeqqReadsWithinLength), and   *)
(* respond_to? leaves private methods out unless asked to include them  *)
(* (KernelObject!RespondToAsDocumented), and x <=> x is 0               *)
(* (KernelCmp!CmpAsExpected).                                             *)
KernelAsDocumented ==
  [][/\ I!InspectAsExpected' /\ C!ReadInBounds /\ O!RespondToAsDocumented'
     /\ Cm!CmpAsExpected']_vars
=============================================================================
