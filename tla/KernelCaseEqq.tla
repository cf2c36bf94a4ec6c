---------------------------- MODULE KernelCaseEqq ----------------------------
(***************************************************************************)
(* Kernel#__case_eqq (mrb_obj_ceqq, src/kernel.c:598-632): the helper   *)
(* behind "when *list", which answers whether some element of the list  *)
(* matches v with ===.  The receiver is an Array, nil, an object without  *)
(* to_a (then self === v decides), or an object whose to_a returns an     *)
(* Array, nil (then self === v decides) or something else (TypeError).    *)
(*                                                                         *)
(* The loop reads RARRAY_LEN once into len and then calls                 *)
(* RARRAY_PTR(ary)[i] === v for i < len.  Each === is Ruby code of the    *)
(* element's class and may change the array: pop, clear or push.  The     *)
(* array's own operations are outside src/ and are modelled by what they  *)
(* do to the sequence.                                                    *)
(***************************************************************************)
EXTENDS Naturals, Sequences

CONSTANTS
  Elems,    \* the objects an array can hold
  Arrays,   \* the arrays a receiver, or the to_a of one, can be
  MaxLen,   \* bound on the length an === can grow the array to
  NIL

VARIABLES
  kind,    \* the receiver: "array", "nil", "noToA" or "toA"
  ary,     \* the array the loop runs over (RArray contents)
  len,     \* the local len, RARRAY_LEN(ary) read before the loop
  i,       \* the loop index, 1-based
  tested,  \* the indices whose element === has been called on
  pc,      \* "start", "loop" or "done"
  result   \* "true", "false", "TypeError" or "SEGV" once the call is over

vars == <<kind, ary, len, i, tested, pc, result>>

(* What the element's === does to the array besides answering.          *)
Effects == {"none", "pop", "clear", "push"}

Apply(eff, a) ==
  CASE eff = "none"  -> {a}
    [] eff = "pop"   -> {IF a = <<>> THEN a ELSE SubSeq(a, 1, Len(a) - 1)}
    [] eff = "clear" -> {<<>>}
    [] eff = "push"  -> IF Len(a) < MaxLen THEN {Append(a, e) : e \in Elems} ELSE {a}

Init ==
  /\ kind \in {"array", "nil", "noToA", "toA"}
  /\ ary \in IF kind = "array" THEN Arrays ELSE {<<>>}
  /\ len = 0 /\ i = 1 /\ tested = {}
  /\ pc = "start" /\ result = NIL

Finish(r) == pc' = "done" /\ result' = r

(* The Ruby value mrb_true_value / mrb_false_value, or mrb_test of one.  *)
RValue(b) == IF b THEN "true" ELSE "false"

(* self is an Array: it is the list; len = RARRAY_LEN(ary).             *)
CeqqSelfArray ==
  /\ pc = "start" /\ kind = "array"
  /\ len' = Len(ary) /\ pc' = "loop"
  /\ UNCHANGED <<kind, ary, i, tested, result>>

(* self is nil: false without calling anything.                         *)
CeqqNil ==
  /\ pc = "start" /\ kind = "nil"
  /\ Finish("false")
  /\ UNCHANGED <<kind, ary, len, i, tested>>

(* self does not respond to to_a: the answer is self === v.             *)
CeqqNoToA ==
  /\ pc = "start" /\ kind = "noToA"
  /\ \E b \in BOOLEAN : Finish(RValue(b))
  /\ UNCHANGED <<kind, ary, len, i, tested>>

(* self.to_a: nil falls back to self === v (returned as it is; the case *)
(* statement tests its truthiness), an Array becomes the list, anything *)
(* else fails mrb_ensure_array_type.                                     *)
CeqqToA ==
  /\ pc = "start" /\ kind = "toA"
  /\ \/ \E b \in BOOLEAN : Finish(RValue(b)) /\ UNCHANGED <<ary, len>>
     \/ Finish("TypeError") /\ UNCHANGED <<ary, len>>
     \/ \E a \in Arrays : ary' = a /\ len' = Len(a) /\ pc' = "loop" /\ UNCHANGED result
  /\ UNCHANGED <<kind, i, tested>>

(* One iteration: RARRAY_PTR(ary)[i] === v.  Past the array's current   *)
(* length the slot is stale or freed memory; the call then reaches a    *)
(* leftover object or crashes the process.                              *)
CeqqCall ==
  /\ pc = "loop" /\ i <= len
  /\ tested' = tested \cup {i}
  /\ \/ \E eff \in Effects, b \in BOOLEAN :
          /\ ary' \in Apply(eff, ary)
          /\ IF b THEN Finish("true") /\ UNCHANGED i
                  ELSE i' = i + 1 /\ UNCHANGED <<pc, result>>
     \/ i > Len(ary) /\ Finish("SEGV") /\ UNCHANGED <<ary, i>>
  /\ UNCHANGED <<kind, len>>

(* The loop ends with no match.                                          *)
CeqqNoMatch ==
  /\ pc = "loop" /\ i > len
  /\ Finish("false")
  /\ UNCHANGED <<kind, ary, len, i, tested>>

Next ==
  \/ CeqqSelfArray \/ CeqqNil \/ CeqqNoToA \/ CeqqToA
  \/ CeqqCall \/ CeqqNoMatch

(* Each === is a Ruby call that returns; the C loop itself never waits. *)
Spec == Init /\ [][Next]_vars /\ WF_vars(Next)

-----------------------------------------------------------------------------
TypeOK ==
  /\ kind \in {"array", "nil", "noToA", "toA"}
  /\ ary \in Seq(Elems) /\ Len(ary) <= MaxLen
  /\ len \in 0..MaxLen /\ i \in 1..len + 1 /\ tested \subseteq 1..len
  /\ pc \in {"start", "loop", "done"}
  /\ result \in {NIL, "true", "false", "TypeError", "SEGV"}

(* __case_eqq returns to the case statement whatever the elements' ===  *)
(* do to the array.                                                      *)
Termination == <>(pc = "done")

(* Every === the loop calls is on an element the array holds at that    *)
(* moment: RARRAY_PTR(ary)[i] is read only for i < RARRAY_LEN(ary).      *)
ReadInBounds == i \notin tested /\ i \in tested' => i <= Len(ary)

(* The loop of mrb_obj_ceqq never reads past the array's current length, *)
(* whatever the elements' === do to it.                                   *)
CeqqReadsWithinLength == [][ReadInBounds]_vars
=============================================================================
