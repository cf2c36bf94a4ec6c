---------------------------- MODULE KernelInspect ----------------------------
(***************************************************************************)
(* Kernel#inspect and its recursion guard (src/kernel.c:24-168).          *)
(*                                                                         *)
(* One call x.inspect is run to completion on the VM's call-info stack    *)
(* ci.  mrb_obj_inspect iterates the receiver's instance variables with   *)
(* mrb_iv_foreach; inspect_i appends "name=" and the mrb_inspect of the   *)
(* value, which calls the value's inspect method on a new frame.  Before  *)
(* the first variable, inspect_i asks mrb_recursive_method_p whether an   *)
(* inspect frame of the same object is below the current one, and if so  *)
(* prints " ..." and stops.  An object's class may override inspect with *)
(* "def inspect; super; end" (a Ruby frame that calls Kernel#inspect) or  *)
(* override to_s (then Kernel#inspect falls back to mrb_any_to_s).       *)
(*                                                                         *)
(* A text is a sequence of tokens: the characters the code writes, an    *)
(* object standing for "ClassName:0xADDR", an ivar name, an immediate     *)
(* value standing for its own inspect text.                              *)
(***************************************************************************)
EXTENDS Naturals, Sequences, SequencesExt, FiniteSets

CONSTANTS
  Objs,        \* heap objects (MRB_TT_OBJECT) reachable from the receiver
  Imms,        \* immediate values; their inspect text is themselves
  IvTables,    \* the instance-variable tables the program may have built
  SuperInspect,\* objects whose class defines "def inspect; super; end"
  CustomToS,   \* objects whose class overrides to_s
  Names,       \* instance variable names
  MaxDepth,    \* bound on the length of the call-info stack
  NIL          \* a nil mrb_value (a->str before the first variable)

ASSUME SuperInspect \subseteq Objs /\ CustomToS \subseteq Objs

VARIABLES
  iv,     \* iv[o]: o's instance variables, <<name, value>>, in the order
          \* mrb_iv_foreach visits them
  ci,     \* the call-info stack; ci[1] is the caller of x.inspect
  root,   \* the receiver x of the call
  result  \* what x.inspect returned to its caller, or NIL while it runs

vars == <<iv, ci, root, result>>

(* A frame: the method id, self (stack[0]), whether it is the C function *)
(* Kernel#inspect, and that function's locals: the inspect_i struct's    *)
(* str, the index of the next instance variable, and whether it waits    *)
(* for the inspect of a value.                                            *)
Frame(mid, self, cfunc) ==
  [mid |-> mid, self |-> self, cfunc |-> cfunc, str |-> NIL, i |-> 1, wait |-> FALSE]

(* The frame a call of v.inspect pushes: the Ruby override, which will   *)
(* call super, or Kernel#inspect itself.                                  *)
InspectFrame(v) == Frame("inspect", v, v \notin SuperInspect)

Top == Last(ci)

(* mrb_any_to_s: "#<ClassName:0xADDR>".                                  *)
AnyToS(o) == <<"#", "<", o, ">">>

(* mrb_obj_basic_to_s_p (kernel.c:24-43): to_s is still mrb_any_to_s.    *)
BasicToS(o) == o \notin CustomToS

(* Mutant: the check is dropped and no frame is ever found.              *)
RecursiveMethodPNone(mid, obj) == FALSE

(* Mutant: the scan starts at ci[-2], as mrb_obj_method_recursive_p's.  *)
RecursiveMethodPSkip(mid, obj) ==
  \E k \in 1..Len(ci) - 2 : ci[k].mid = mid /\ ci[k].self = obj

(* mrb_recursive_method_p (kernel.c:156-168) for a unary method: a frame *)
(* from ci[-1] down to cibase runs mid with the same self.               *)
RecursiveMethodP(mid, obj) ==
  \E k \in 1..Len(ci) - 1 : ci[k].mid = mid /\ ci[k].self = obj

Init ==
  /\ iv \in IvTables
  /\ root \in Objs
  /\ ci = <<Frame("main", NIL, FALSE), InspectFrame(root)>>
  /\ result = NIL

(* Mutant: the resumed inspect_i is left marked as waiting.              *)
ReturnKeepWait(val) ==
  LET below == ci[Len(ci) - 1] IN
  IF Len(ci) = 2 THEN ci' = Front(ci) /\ result' = val
  ELSE /\ ci' = [Front(ci) EXCEPT ![Len(ci) - 1] =
                   IF below.cfunc
                   THEN [below EXCEPT !.str = @ \o val, !.i = @ + 1]
                   ELSE [below EXCEPT !.str = val]]
       /\ UNCHANGED result

(* Hand the value returned by the top frame to the frame below: a waiting *)
(* inspect_i appends it and mrb_iv_foreach moves on; a Ruby override     *)
(* returns what super returned; the caller of x.inspect receives it.     *)
Return(val) ==
  LET below == ci[Len(ci) - 1] IN
  IF Len(ci) = 2 THEN ci' = Front(ci) /\ result' = val
  ELSE /\ ci' = [Front(ci) EXCEPT ![Len(ci) - 1] =
                   IF below.cfunc
                   THEN [below EXCEPT !.str = @ \o val, !.i = @ + 1, !.wait = FALSE]
                   ELSE [below EXCEPT !.str = val]]
       /\ UNCHANGED result

(* The override's body: super pushes the Kernel#inspect frame.           *)
CallSuper ==
  /\ ~Top.cfunc /\ Top.mid = "inspect" /\ Top.str = NIL
  /\ Len(ci) < MaxDepth
  /\ ci' = Append(ci, Frame("inspect", Top.self, TRUE))
  /\ UNCHANGED <<iv, root, result>>

(* The override returns super's text.                                    *)
ReturnSuper ==
  /\ ~Top.cfunc /\ Top.mid = "inspect" /\ Top.str # NIL
  /\ Return(Top.str)
  /\ UNCHANGED <<iv, root>>

(* inspect_i (kernel.c:50-89) on the next instance variable.  The first  *)
(* call builds "-<ClassName:0xADDR" and checks for recursion; the '-'   *)
(* marks the first element and becomes '#' when a variable is printed.  *)
(* An immediate value's inspect is appended at once; an object's inspect *)
(* runs on a new frame and inspect_i resumes in Return.                  *)
InspectI ==
  /\ Top.cfunc /\ ~Top.wait /\ BasicToS(Top.self)
  /\ Top.i <= Len(iv[Top.self])
  /\ LET o    == Top.self
         name == iv[o][Top.i][1]
         v    == iv[o][Top.i][2]
         s0   == IF Top.str = NIL THEN <<"-", "<", o>> ELSE Top.str
         stop == Top.str = NIL /\ RecursiveMethodP("inspect", o)
         s1   == IF s0[1] = "-" THEN <<"#">> \o Tail(s0) \o <<" ">> ELSE s0 \o <<", ">>
         s2   == s1 \o <<name, "=">>
     IN  IF stop
         THEN /\ ci' = [ci EXCEPT ![Len(ci)] = [Top EXCEPT !.str = s0 \o <<" ...">>,
                                                           !.i = Len(iv[o]) + 1]]
         ELSE IF v \in Imms
         THEN ci' = [ci EXCEPT ![Len(ci)] = [Top EXCEPT !.str = s2 \o <<v>>, !.i = @ + 1]]
         ELSE /\ Len(ci) < MaxDepth
              /\ ci' = Append([ci EXCEPT ![Len(ci)] = [Top EXCEPT !.str = s2, !.wait = TRUE]],
                              InspectFrame(v))
  /\ UNCHANGED <<iv, root, result>>

(* mrb_obj_inspect (kernel.c:104-116) after mrb_iv_foreach: close the    *)
(* text with '>', or, with no variable printed or to_s overridden, fall *)
(* back to mrb_any_to_s.                                                 *)
FinishInspect ==
  /\ Top.cfunc /\ ~Top.wait
  /\ ~BasicToS(Top.self) \/ Top.i > Len(iv[Top.self])
  /\ Return(IF BasicToS(Top.self) /\ Top.str # NIL THEN Top.str \o <<">">>
            ELSE AnyToS(Top.self))
  /\ UNCHANGED <<iv, root>>

Next ==
  \/ CallSuper
  \/ ReturnSuper
  \/ InspectI
  \/ FinishInspect

(* The VM runs the C code and the Ruby override without waiting on       *)
(* anything, so a step that is enabled is eventually taken.              *)
Spec == Init /\ [][Next]_vars /\ WF_vars(Next)

-----------------------------------------------------------------------------
FrameRec == [mid : {"main", "inspect"}, self : Objs \cup {NIL}, cfunc : BOOLEAN,
             str : Seq(STRING \cup Objs \cup Imms \cup Names) \cup {NIL},
             i : Nat, wait : BOOLEAN]

TypeOK ==
  /\ iv \in [Objs -> Seq(Names \X (Objs \cup Imms))]
  /\ ci \in Seq(FrameRec) /\ 1 <= Len(ci) /\ Len(ci) <= MaxDepth
  /\ root \in Objs
  /\ \A k \in DOMAIN ci : ci[k].wait => k < Len(ci)

(* The text Ruby's inspect promises: an object with printable variables *)
(* is "#<C:0xADDR @a=..., @b=...>", and one already being inspected      *)
(* further up the same traversal is "#<C:0xADDR ...>" (spec 9: recursion *)
(* detection is a lookup in the set of objects currently being           *)
(* inspected).  path is that set.                                         *)
RECURSIVE Expected(_, _)
Expected(v, path) ==
  IF v \in Imms THEN <<v>>
  ELSE IF ~BasicToS(v) \/ iv[v] = <<>> THEN AnyToS(v)
  ELSE IF v \in path THEN <<"#", "<", v, " ...", ">">>
  ELSE <<"#", "<", v>>
       \o FlattenSeq([k \in DOMAIN iv[v] |->
             <<IF k = 1 THEN " " ELSE ", ", iv[v][k][1], "=">>
             \o Expected(iv[v][k][2], path \cup {v})])
       \o <<">">>

(* Kernel#inspect terminates on every object graph, cyclic ones included: *)
(* the call of x.inspect eventually returns to its caller.  This is what *)
(* the recursion check in inspect_i is for; without it a cycle of        *)
(* instance variables recurses until the stack is exhausted.             *)
Termination == <>(result # NIL)

(* The recursion check stops the traversal at the first repetition: no   *)
(* object ever has more than two Kernel#inspect frames on the stack, the *)
(* one that prints it and the one that prints " ...".  The scan of       *)
(* mrb_recursive_method_p must start at ci[-1], just below the running   *)
(* frame, for this to hold.                                              *)
GuardCutsRecursion ==
  \A o \in Objs : Cardinality({k \in DOMAIN ci : ci[k].cfunc /\ ci[k].self = o}) <= 2

(* x.inspect returns the text Ruby promises for x.                       *)
InspectAsExpected == result # NIL => result = Expected(root, {})
=============================================================================
