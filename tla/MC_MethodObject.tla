--------------------------- MODULE MC_MethodObject ---------------------------
(***************************************************************************)
(* The class graph built by this Ruby program on top of the core classes *)
(* (Object includes Kernel, BasicObject defines method_missing, Kernel   *)
(* defines respond_to_missing? to answer false):                         *)
(*                                                                         *)
(*   module M; def m; end; end                                             *)
(*   module N; include M; def m0; end; alias m m0; end                     *)
(*   module P; include N; end                                              *)
(*   class A; def m; end; end                                              *)
(*   class B < A; include M; def m; end; end                               *)
(*   class C < A; include M; end                                           *)
(*   class D < A; undef_method :m; undef_method :method_missing            *)
(*     def respond_to_missing?(n, p) = true; end                           *)
(*   class D2 < D; def method_missing(name) end; end                        *)
(*   a2 = A.new; def a2.m; end                                             *)
(*   b1 = B.new; c1 = C.new; d1 = D.new; d2 = D2.new                       *)
(*   e1 = Object.new; e1.extend(M)                                         *)
(***************************************************************************)
EXTENDS MethodObject, TLC

MCNames == {"m", "method_missing", "respond_to_missing?", "q"}

MCNodes == {"BasicObject", "Kernel", "iObject_Kernel", "Object", "M", "N", "iN_M",
            "P", "iP_N", "iP_M", "A", "B", "iB_M", "C", "iC_M", "D", "D2",
            "S_a2", "S_e1", "iS_e1_M"}

MCTt ==
  [n \in MCNodes |->
     CASE n \in {"Kernel", "M", "N", "P"}              -> "MODULE"
       [] n \in {"S_a2", "S_e1"}                       -> "SCLASS"
       [] n \in {"iObject_Kernel", "iN_M", "iP_N", "iP_M", "iB_M", "iC_M", "iS_e1_M"}
                                                       -> "ICLASS"
       [] OTHER                                        -> "CLASS"]

MCSuper ==
  [n \in MCNodes |->
     CASE n = "Object"         -> "iObject_Kernel"
       [] n = "iObject_Kernel" -> "BasicObject"
       [] n = "N"              -> "iN_M"
       [] n = "P"              -> "iP_N"
       [] n = "iP_N"           -> "iP_M"
       [] n \in {"A", "iS_e1_M"} -> "Object"
       [] n = "B"              -> "iB_M"
       [] n = "C"              -> "iC_M"
       [] n \in {"iB_M", "iC_M", "S_a2", "D"} -> "A"
       [] n = "D2"             -> "D"
       [] n = "S_e1"           -> "iS_e1_M"
       [] OTHER                -> NIL]

MCIncOf ==
  [n \in MCNodes |->
     CASE n = "iObject_Kernel" -> "Kernel"
       [] n = "iP_N"           -> "N"
       [] n \in {"iN_M", "iP_M", "iB_M", "iC_M", "iS_e1_M"} -> "M"
       [] OTHER                -> NIL]

(* Entries of the method tables; every other (node, name) is NONE.       *)
Defs ==
  { <<"BasicObject", "method_missing", "BasicObject#method_missing">>,
    <<"Kernel", "respond_to_missing?", "Kernel#respond_to_missing?">>,
    <<"M", "m", "M#m">>, <<"N", "m", "N#m">>,
    <<"A", "m", "A#m">>, <<"B", "m", "B#m">>,
    <<"D", "m", UNDEF>>, <<"D", "method_missing", UNDEF>>,
    <<"D", "respond_to_missing?", "D#respond_to_missing?">>,
    <<"D2", "method_missing", "D2#method_missing">>,
    <<"S_a2", "m", "a2.m">> }

MCMT ==
  [n \in MCNodes |-> [x \in MCNames |->
     IF \E d \in Defs : d[1] = n /\ d[2] = x
     THEN (CHOOSE d \in Defs : d[1] = n /\ d[2] = x)[3] ELSE NONE]]

MCBodies == {d[3] : d \in {e \in Defs : e[3] # UNDEF}}

(* The alias proc of N#m: its mid is m0 and its upper the body of m0.    *)
(* Alias procs are made by alias_method in class.c, outside the sources; *)
(* only this one level, an alias of a def, is taken as given.  m0 is     *)
(* never queried; only its proc is on N#m's upper chain.                 *)
MCAliasOf ==
  [b \in MCBodies \cup {"N#m0"} |->
     IF b = "N#m" THEN [mid |-> "m0", upper |-> "N#m0"] ELSE NONE]

(* method_missing and respond_to_missing? of BasicObject and Kernel are  *)
(* C functions; every Ruby body has a position but M#m (compiled without *)
(* debug information).                                                    *)
MCCBodies == {"BasicObject#method_missing", "Kernel#respond_to_missing?"}

MCDebugIreps == (MCBodies \cup {"N#m0"}) \ (MCCBodies \cup {"M#m", "N#m"})

MCObjects == {"a2", "b1", "c1", "d1", "d2", "e1"}

MCObjClass ==
  [o \in MCObjects |->
     CASE o = "a2" -> "S_a2" [] o = "b1" -> "B"  [] o = "c1" -> "C"
       [] o = "d1" -> "D"    [] o = "d2" -> "D2" [] o = "e1" -> "S_e1"]

MCRTMTrue == {"D#respond_to_missing?"}

MCSlots == {1, 2}

(* m reaches every kind of definition; method_missing reaches the        *)
(* fallback's own name.                                                   *)
MCQueried == {"m", "method_missing"}
=============================================================================
