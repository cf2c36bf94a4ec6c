------------------------------- MODULE MC_Kernel -------------------------------
(***************************************************************************)
(* Kernel#inspect on objects of this Ruby program, with every way of      *)
(* linking them through up to two instance variables each:               *)
(*   class A; end                           # a, b: plain Kernel#inspect  *)
(*   class S; def inspect; super; end; end  # s                           *)
(*   class T; def to_s; "t"; end; end       # t                           *)
(* The value 1 stands for an immediate (its inspect text is "1").  t's   *)
(* variables are never printed (it falls back to mrb_any_to_s), so it     *)
(* gets one fixed table.                                                  *)
(*                                                                         *)
(* Or "case v when *list" where list holds up to two of the objects e1,  *)
(* e2, whose === may pop, clear or push onto list, up to three elements. *)
(*                                                                         *)
(* Or any sequence of freeze, frozen?, singleton_class, def o.m,          *)
(* instance_variable_set, remove_instance_variable, respond_to?,          *)
(* initialize_copy, instance_of? and kind_of? on two objects of class A   *)
(* and the integer 1, with respond_to_missing? left as Kernel's or        *)
(* answering nil or an object.                                            *)
(*                                                                         *)
(* Or x <=> y or x == y on two objects p, q whose classes define == in   *)
(* each of KernelCmp's five ways and may override <=> with super.        *)
(***************************************************************************)
EXTENDS Kernel, SequencesExt

MCNames == <<"@x", "@y">>
(* a may have two instance variables (a separator, a shared value, a    *)
(* cycle through the second); b and s have at most one.                  *)
MCMaxIvars == [o \in {"a", "b", "s"} |-> IF o = "a" THEN 2 ELSE 1]
MCValues == {"a", "b", "s", "t", "1"}

MCTable(vals) == [k \in DOMAIN vals |-> <<MCNames[k], vals[k]>>]

MCTables(o) == {MCTable(vals) : vals \in BoundedSeq(MCValues, MCMaxIvars[o])}

MCIvTables ==
  {[o \in Objs |-> CASE o = "a" -> ta [] o = "b" -> tb [] o = "s" -> ts
                      [] o = "t" -> <<<<"@x", "a">>>>] :
     ta \in MCTables("a"), tb \in MCTables("b"), ts \in MCTables("s")}

MCClassOf == [v \in {"a", "b", "1"} |-> IF v = "1" THEN "Integer" ELSE "A"]
MCAncestors == [c \in {"A", "Integer"} |-> {c, "Object"}]

MCArrays == UNION {[1..n -> Elems] : n \in 0..2}
=============================================================================
