----------------------------- MODULE ClassModel -----------------------------
(***************************************************************************)
(* The class graph the method gem works over: classes, modules, singleton *)
(* classes and the include-clone nodes ("iclass") that splice a module   *)
(* into an ancestry chain, each node with its method table, and the heap *)
(* objects whose class pointer enters that graph.                        *)
(*                                                                         *)
(* The operators here are the runtime's class.c services that the gem     *)
(* calls (mrb_method_search_vm, mrb_class_real, mrb_obj_is_kind_of,       *)
(* mrb_respond_to); class.c is not part of this repository's sources, so  *)
(* they follow the spec (sections 3 and 4.2).                             *)
(***************************************************************************)
EXTENDS Naturals, Sequences

CONSTANTS
  Nodes,     \* class-like heap objects (struct RClass)
  Tt,        \* Tt[n] \in {"CLASS","MODULE","SCLASS","ICLASS"}  (RBasic tt)
  Super,     \* Super[n]: the super link, or NIL at the root of a chain
  IncOf,     \* IncOf[n]: for an iclass, the module it clones (iclass->c)
  MT,        \* MT[n][name]: a method body, UNDEF (undef_method) or NONE
  Names,     \* method names (symbols)
  Bodies,    \* method bodies (the irep or C function behind an RProc)
  Objects,   \* ordinary heap objects usable as receivers
  ObjClass,  \* ObjClass[o]: mrb_class(o), the singleton class if o has one
  RTMTrue,   \* bodies of respond_to_missing? that answer true
  NIL, UNDEF, NONE

ASSUME NIL \notin Nodes \cup Objects \cup Bodies \cup Names
ASSUME \A n \in Nodes : Tt[n] \in {"CLASS", "MODULE", "SCLASS", "ICLASS"}
ASSUME \A n \in Nodes : Super[n] \in Nodes \cup {NIL}
ASSUME \A o \in Objects : ObjClass[o] \in Nodes

(* An iclass shares the method table of the module it clones.             *)
MtOf(n) == IF Tt[n] = "ICLASS" THEN MT[IncOf[n]] ELSE MT[n]

(* The ancestry chain from n, following super links (linearised).         *)
RECURSIVE Chain(_)
Chain(n) == IF n = NIL THEN <<>> ELSE <<n>> \o Chain(Super[n])

ChainSet(n) == {Chain(n)[i] : i \in 1..Len(Chain(n))}

(* mrb_method_search_vm(mrb, &c, mid): the first node of the chain from c *)
(* whose table has an entry for mid.  An UNDEF entry stops the search     *)
(* and reports "undefined".  `at` is the value left in *cp: the node      *)
(* where the entry was met, or c itself when none was.                    *)
MethodSearch(c, mid) ==
  LET ch   == Chain(c)
      hits == {i \in 1..Len(ch) : MtOf(ch[i])[mid] # NONE}
  IN  IF hits = {} THEN [proc |-> NIL, at |-> c]
      ELSE LET i == CHOOSE j \in hits : \A k \in hits : j <= k
               e == MtOf(ch[i])[mid]
           IN  [proc |-> IF e = UNDEF THEN NIL ELSE e, at |-> ch[i]]

(* mrb_class_real: skip singleton classes and iclasses upwards; NULL when *)
(* the chain ends first.                                                  *)
RECURSIVE ClassReal(_)
ClassReal(c) ==
  IF c = NIL THEN NIL
  ELSE IF Tt[c] \in {"SCLASS", "ICLASS"} THEN ClassReal(Super[c]) ELSE c

(* mrb_obj_class: the real class of an object.                            *)
ObjRealClass(o) == ClassReal(ObjClass[o])

(* mrb_obj_is_kind_of(o, c): c, or the module c clones, is on o's chain.  *)
KindOf(o, c) ==
  \E n \in ChainSet(ObjClass[o]) :
     n = c \/ (Tt[n] = "ICLASS" /\ IncOf[n] = c)

(* mrb_respond_to(o, mid): resolution of mid from o's class succeeds.     *)
RespondTo(o, mid) == MethodSearch(ObjClass[o], mid).proc # NIL

(* The node whose own table defines a body (bodies are defined once).     *)
DefinedIn(b) == CHOOSE n \in Nodes : Tt[n] # "ICLASS" /\ \E x \in Names : MT[n][x] = b

IsModule(c) == c # NIL /\ Tt[c] = "MODULE"
=============================================================================
