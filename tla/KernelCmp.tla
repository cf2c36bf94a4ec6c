------------------------------- MODULE KernelCmp -------------------------------
(***************************************************************************)
(* Kernel#<=> (mrb_cmp_m, src/kernel.c:135-153) on the call-info stack.  *)
(*                                                                         *)
(* x <=> y answers 0 when x and y are the same object or x == y, and nil  *)
(* otherwise.  x == y is mrb_equal (object.c, outside the sources): true *)
(* for the same object, else the truthiness of x.==(y), which is Ruby    *)
(* code of the program and may itself compare with <=>.  To cut that     *)
(* recursion mrb_cmp_m first scans the frames from ci[-1] down for a     *)
(* call of <=> with the same self and the same argument, and answers nil *)
(* if it finds one.                                                       *)
(*                                                                         *)
(* Each object's class defines == as Kernel's (identity), as             *)
(* "(self <=> o) == 0" or as "(o <=> self) == 0", or guards the first    *)
(* form with Kernel#__method_recursive? (mrb_obj_method_recursive_p,     *)
(* kernel.c:180-198): "return false if __method_recursive?(:==, o)", or  *)
(* its unary form __method_recursive?(:==); and it may override <=>     *)
(* with "def <=>(o); super; end".  The program calls x <=> y or x == y.  A frame records the method id, self,  *)
(* the first argument (stack[1]), which body runs, and whether it waits  *)
(* for a call it made and what that call returned.                       *)
(***************************************************************************)
EXTENDS Naturals, Sequences, SequencesExt

CONSTANTS
  CObjs,       \* the objects compared
  MaxCDepth,   \* bound on the stack's height
  NIL

VARIABLES
  eqOf,    \* eqOf[o]: how o's class defines ==: "identity", "cmp", "swap"
  cmpSup,  \* the objects whose class overrides <=> with super
  croot,   \* <<m, x, y>>: the program calls x <=> y ("cmp") or x == y ("eq")
  cstack,  \* the call-info stack; cstack[1] is the caller of x <=> y
  cres     \* what that call returned to the program, or "running"

vars == <<eqOf, cmpSup, croot, cstack, cres>>

(* Ruby values are kept as strings: "0", "true", "false"; nil is NIL.    *)
Running == "running"
RBool(b) == IF b THEN "true" ELSE "false"

Frame(mid, s, a, body) ==
  [mid |-> mid, self |-> s, arg |-> a, body |-> body, st |-> "start", got |-> NIL]

(* The frame a call pushes: Ruby code of the receiver's class, or the C   *)
(* function of Kernel.                                                   *)
CmpFrame(s, a) == Frame("cmp", s, a, IF s \in cmpSup THEN "super" ELSE "kernel")
EqFrame(s, a) == Frame("eq", s, a, eqOf[s])

Top == Last(cstack)

EqBodies == {"identity", "cmp", "swap", "guard", "guard1"}

Init ==
  /\ eqOf \in [CObjs -> EqBodies]
  /\ cmpSup \in SUBSET CObjs
  /\ croot \in {"cmp", "eq"} \X CObjs \X CObjs
  /\ cstack = <<Frame("main", NIL, NIL, "main"),
                IF croot[1] = "cmp" THEN CmpFrame(croot[2], croot[3])
                                    ELSE EqFrame(croot[2], croot[3])>>
  /\ cres = Running

(* Push the frame of a call made by the top frame, which then waits.     *)
Call(f) ==
  /\ Len(cstack) < MaxCDepth
  /\ cstack' = Append([cstack EXCEPT ![Len(cstack)].st = "wait"], f)
  /\ UNCHANGED <<eqOf, cmpSup, croot, cres>>

(* Pop the top frame and hand v to the frame below, or to the caller of  *)
(* x <=> y.                                                              *)
Return(v) ==
  LET below == Len(cstack) - 1 IN
  /\ cstack' = [SubSeq(cstack, 1, below) EXCEPT ![below].st = "resume",
                                                 ![below].got = v]
  /\ cres' = IF below = 1 THEN v ELSE cres
  /\ UNCHANGED <<eqOf, cmpSup, croot>>

(* The recursion check of mrb_cmp_m: a frame from ci[-1] down to cibase *)
(* calls <=> with the same self (stack[0]) and argument (stack[1]).      *)
CmpRecursive ==
  \E k \in 1..Len(cstack) - 1 :
     cstack[k].mid = "cmp" /\ cstack[k].self = Top.self /\ cstack[k].arg = Top.arg

(* mrb_cmp_m up to mrb_equal: nil when the check finds a frame, 0 for    *)
(* the same object, else x.==(y) is called.                              *)
KernelCmpStart ==
  /\ Top.body = "kernel" /\ Top.st = "start" /\ cres = Running
  /\ IF CmpRecursive THEN Return(NIL)
     ELSE IF Top.self = Top.arg THEN Return("0")
     ELSE Call(EqFrame(Top.self, Top.arg))

(* mrb_cmp_m after x.==(y): 0 when it answered true, else nil.           *)
KernelCmpResume ==
  /\ Top.body = "kernel" /\ Top.st = "resume"
  /\ Return(IF Top.got = "true" THEN "0" ELSE NIL)

(* def <=>(o); super; end: the super call keeps mid, self and argument.  *)
SuperCmpStart ==
  /\ Top.body = "super" /\ Top.st = "start"
  /\ Call(Frame("cmp", Top.self, Top.arg, "kernel"))

SuperCmpResume ==
  /\ Top.body = "super" /\ Top.st = "resume"
  /\ Return(Top.got)

(* Kernel#== (mrb_obj_equal_m): identity.                                *)
EqIdentity ==
  /\ Top.body = "identity"
  /\ Return(RBool(Top.self = Top.arg))

(* def ==(o); (self <=> o) == 0; end, and its swapped form.              *)
EqCmpStart ==
  /\ Top.body \in {"cmp", "swap"} /\ Top.st = "start"
  /\ Call(IF Top.body = "cmp" THEN CmpFrame(Top.self, Top.arg)
                              ELSE CmpFrame(Top.arg, Top.self))

(* Mutant: the scan starts at the asking method's own frame, ci[-1].    *)
MethodRecursivePFromTop(mid, obj, arg2) ==
  \E k \in 1..Len(cstack) :
     cstack[k].mid = mid /\ cstack[k].self = obj /\ (arg2 = NIL \/ cstack[k].arg = arg2)

(* mrb_obj_method_recursive_p called from the top frame: its own frame   *)
(* is ci[0] and the caller's ci[-1], so the scan from ci[-2] down is the *)
(* frames below Top.  A nil arg2, or none, checks self alone.            *)

MethodRecursiveP(mid, obj, arg2) ==
  \E k \in 1..Len(cstack) - 1 :
     cstack[k].mid = mid /\ cstack[k].self = obj /\ (arg2 = NIL \/ cstack[k].arg = arg2)

(* def ==(o); return false if __method_recursive?(:==, o);              *)
(*   (self <=> o) == 0; end, and the form __method_recursive?(:==).      *)
EqGuardStart ==
  /\ Top.body \in {"guard", "guard1"} /\ Top.st = "start"
  /\ IF MethodRecursiveP("eq", Top.self, IF Top.body = "guard" THEN Top.arg ELSE NIL)
     THEN Return("false")
     ELSE Call(CmpFrame(Top.self, Top.arg))

EqCmpResume ==
  /\ Top.body \in {"cmp", "swap", "guard", "guard1"} /\ Top.st = "resume"
  /\ Return(RBool(Top.got = "0"))

Next ==
  \/ KernelCmpStart \/ KernelCmpResume
  \/ SuperCmpStart \/ SuperCmpResume
  \/ EqIdentity \/ EqCmpStart \/ EqGuardStart \/ EqCmpResume

(* Every step is a C function or a method body of one thread; none waits. *)
Spec == Init /\ [][Next]_vars /\ WF_vars(Next)

-----------------------------------------------------------------------------
Bodies == {"main", "kernel", "super"} \cup EqBodies

TypeOK ==
  /\ eqOf \in [CObjs -> EqBodies]
  /\ cmpSup \subseteq CObjs
  /\ croot \in {"cmp", "eq"} \X CObjs \X CObjs
  /\ cstack \in Seq([mid : {"main", "cmp", "eq"}, self : CObjs \cup {NIL},
                     arg : CObjs \cup {NIL}, body : Bodies,
                     st : {"start", "wait", "resume"}, got : {NIL, "0", "true", "false"}])
  /\ Len(cstack) <= MaxCDepth
  /\ cres \in {Running, NIL, "0", "true", "false"}

(* x <=> y or x == y returns to its caller whatever == and <=> the      *)
(* classes define.                                                       *)
CmpTerminates == <>(cres # Running)

(* Ruby's Object#<=>: 0 when x and y are the same object, and nil when   *)
(* they are different and x's == is identity.                            *)
CmpAsExpected ==
  croot[1] = "cmp" /\ cres # Running =>
    LET x == croot[2]  y == croot[3] IN
    /\ x = y => cres = "0"
    /\ x # y /\ eqOf[x] = "identity" => cres = NIL

(* x == x answers true when x's == is guarded by __method_recursive?     *)
(* (either form) and x's class does not override <=>: the guard looks    *)
(* only at the frames of the callers of ==, never at the == frame that   *)
(* asks (kernel.c:188-196), so it does not fire on the first call.  An   *)
(* override calling super is left out: Kernel#<=> then takes the         *)
(* override's frame for recursion (the kernel_doc finding).              *)
EqGuardReflexive ==
  croot[1] = "eq" /\ croot[2] = croot[3] /\ eqOf[croot[2]] \in {"guard", "guard1"}
  /\ croot[2] \notin cmpSup /\ cres # Running
    => cres = "true"
=============================================================================
