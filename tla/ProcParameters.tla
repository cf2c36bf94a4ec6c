---------------------------- MODULE ProcParameters ----------------------------
(***************************************************************************)
(* Proc#parameters (mrb_proc_parameters, proc.c:95-171) and               *)
(* Method#parameters / UnboundMethod#parameters (method_parameters,      *)
(* method.c:543-554).                                                     *)
(*                                                                         *)
(* A proc's parameters are read from two places of its irep: the aspec   *)
(* operand of OP_ENTER (how many parameters of each kind) and the local  *)
(* variable table lv (their names).  The code walks seven kinds in the   *)
(* order req, opt, rest, post, keyrest, block, key with one index i into *)
(* lv, and skips one lv slot when there is no block parameter: the block *)
(* slot is reserved whether or not the parameter exists.  The compiler    *)
(* that lays out lv is outside src/; LvOf writes that layout down in the  *)
(* order the code reads it.                                               *)
(***************************************************************************)
EXTENDS Naturals, Sequences, SequencesExt

CONSTANTS
  Shapes,   \* declared parameter lists: for each kind the names, in order
  NOSYM,    \* a 0 entry of lv (no name)
  GARBAGE,  \* a symbol read from memory past the end of lv
  NIL

VARIABLES
  self,  \* the receiver: a Proc or a Method and its _proc
  out    \* what parameters returned, NIL before the call

vars == <<self, out>>

(* The irep's lv: the parameters' names in the compiler's order, the     *)
(* block slot reserved, then the body's own local variables.             *)
LvOf(sh) ==
  sh.m1 \o sh.opt \o sh.rest \o sh.m2 \o sh.kwrest
  \o (IF sh.blk = <<>> THEN <<NOSYM>> ELSE sh.blk) \o sh.keys \o sh.locals

(* The aspec operand of OP_ENTER: REQ, OPT, REST, POST, KDICT, BLOCK, KEY. *)
Aspec(sh) ==
  [req |-> Len(sh.m1), opt |-> Len(sh.opt), rest |-> Len(sh.rest), post |-> Len(sh.m2),
   kdict |-> Len(sh.kwrest), block |-> Len(sh.blk), key |-> Len(sh.keys)]

(* An irep with no parameter does not begin with OP_ENTER.               *)
HasEnter(sh) ==
  \E f \in {"m1", "opt", "rest", "m2", "kwrest", "blk", "keys"} : sh[f] # <<>>

(* Mutant: a proc's post-required parameters keep the name req.         *)
ParamListFirstOnly(strict, a) ==
  << [name |-> IF strict THEN "req" ELSE "opt", size |-> a.req],
     [name |-> "opt", size |-> a.opt], [name |-> "rest", size |-> a.rest],
     [name |-> "req", size |-> a.post], [name |-> "keyrest", size |-> a.kdict],
     [name |-> "block", size |-> a.block], [name |-> "key", size |-> a.key] >>

(* parameters_list after the aspec is decoded; a proc that is not a      *)
(* lambda reports its required parameters as opt.                        *)
ParamList(strict, a) ==
  LET reqName == IF strict THEN "req" ELSE "opt" IN
  << [name |-> reqName, size |-> a.req], [name |-> "opt", size |-> a.opt],
     [name |-> "rest", size |-> a.rest], [name |-> reqName, size |-> a.post],
     [name |-> "keyrest", size |-> a.kdict], [name |-> "block", size |-> a.block],
     [name |-> "key", size |-> a.key] >>

(* The value of i when the walk reaches list entry k: the sizes before   *)
(* it, plus one for a skipped empty block slot.                          *)
RECURSIVE IndexAt(_, _)
IndexAt(pl, k) ==
  IF k = 1 THEN 0
  ELSE IndexAt(pl, k - 1) + pl[k - 1].size
       + (IF pl[k - 1].name = "block" /\ pl[k - 1].size = 0 THEN 1 ELSE 0)

(* irep->lv[idx] (idx 0-based); past the table's end, whatever is there. *)
LvAt(lv, idx, beyond) == IF idx < Len(lv) THEN lv[idx + 1] ELSE beyond

(* The entries of list entry k: [name, lv[i]] when i < max and lv[i] is  *)
(* set; a block entry also takes lv[i+1] when that is set.               *)
Entries(pl, k, lv, max, beyond) ==
  [j \in 1..pl[k].size |->
     LET idx == IndexAt(pl, k) + j - 1
         nm  == pl[k].name
     IN  <<nm>>
         \o (IF idx < max /\ LvAt(lv, idx, beyond) # NOSYM
             THEN <<LvAt(lv, idx, beyond)>> ELSE <<>>)
         \o (IF nm = "block" /\ LvAt(lv, idx + 1, beyond) # NOSYM
             THEN <<LvAt(lv, idx + 1, beyond)>> ELSE <<>>)]

(* Mutant: the keyrest entry is pushed even when it is still nil.       *)
ParametersPushNil(proc, beyond) ==
  IF proc.cfunc \/ ~HasEnter(proc.sh) THEN <<>>
  ELSE
    LET pl  == ParamList(proc.strict, Aspec(proc.sh))
        lv  == LvOf(proc.sh)
        max == FoldSeq(LAMBDA e, acc : e.size + acc, 0, pl)
        E(k) == Entries(pl, k, lv, max, beyond)
    IN  E(1) \o E(2) \o E(3) \o E(4) \o E(7)
        \o (IF E(5) = <<>> THEN <<NIL>> ELSE E(5)) \o E(6)

(* mrb_proc_parameters: a C function, or an irep without lv or OP_ENTER, *)
(* has []; otherwise every entry but keyrest and block is pushed as it   *)
(* is made, and the keyrest and block entries are pushed at the end.     *)
Parameters(proc, beyond) ==
  IF proc.cfunc \/ ~HasEnter(proc.sh) THEN <<>>
  ELSE
    LET pl  == ParamList(proc.strict, Aspec(proc.sh))
        lv  == LvOf(proc.sh)
        max == FoldSeq(LAMBDA e, acc : e.size + acc, 0, pl)
        E(k) == Entries(pl, k, lv, max, beyond)
    IN  E(1) \o E(2) \o E(3) \o E(4) \o E(7) \o E(5) \o E(6)

(* method_parameters: no _proc (a method answered by                    *)
(* respond_to_missing?) has [[:rest]]; otherwise the proc's parameters.  *)
MethodParameters(proc, beyond) ==
  IF proc = NIL THEN <<<<"rest">>>> ELSE Parameters(proc, beyond)

CFunc == [cfunc |-> TRUE, strict |-> TRUE, sh |-> NIL]

(* A Proc is a block, a lambda or a C function; a Method's _proc is the  *)
(* body of a def (a lambda), a C function wrapped by method_search_vm,   *)
(* or nil.                                                                *)
Receivers ==
  [cls : {"Proc"}, proc : {[cfunc |-> FALSE, strict |-> s, sh |-> sh] :
                            s \in BOOLEAN, sh \in Shapes} \cup {CFunc}]
  \cup
  [cls : {"Method"}, proc : {[cfunc |-> FALSE, strict |-> TRUE, sh |-> sh] : sh \in Shapes}
                            \cup {CFunc, NIL}]

Init == self \in Receivers /\ out = NIL

ProcParametersCall ==
  /\ self.cls = "Proc" /\ out = NIL
  /\ \E beyond \in {NOSYM, GARBAGE} : out' = Parameters(self.proc, beyond)
  /\ UNCHANGED self

MethodParametersCall ==
  /\ self.cls = "Method" /\ out = NIL
  /\ \E beyond \in {NOSYM, GARBAGE} : out' = MethodParameters(self.proc, beyond)
  /\ UNCHANGED self

Next == ProcParametersCall \/ MethodParametersCall

Spec == Init /\ [][Next]_vars

-----------------------------------------------------------------------------
Kinds == {"req", "opt", "rest", "keyrest", "block", "key", "keyreq"}

TypeOK ==
  /\ self \in Receivers
  /\ out = NIL \/ out \in Seq(Seq(Kinds \cup STRING \cup {GARBAGE}))

(* What Ruby documents for parameters (spec 4.4): one [kind, name] per   *)
(* declared parameter, the name left out when there is none, in the      *)
(* order req, opt, rest, post, key, keyrest, block; a proc that is not   *)
(* a lambda says opt for its required parameters; a callable without    *)
(* bytecode has [[:rest]]; a keyword without a default is keyreq        *)
(* (method.c:539 shows [:keyreq, :qux]).                                 *)
KeyTags(sh) ==
  [j \in DOMAIN sh.keys |->
     <<IF sh.keys[j] \in sh.keyreq THEN "keyreq" ELSE "key", sh.keys[j]>>]

Documented(proc) ==
  IF proc = NIL \/ proc.cfunc THEN <<<<"rest">>>>
  ELSE
    LET sh == proc.sh
        reqName == IF proc.strict THEN "req" ELSE "opt"
        Tag(k, names) == [j \in DOMAIN names |-> <<k, names[j]>>]
    IN  Tag(reqName, sh.m1) \o Tag("opt", sh.opt) \o Tag("rest", sh.rest)
        \o Tag(reqName, sh.m2) \o KeyTags(sh) \o Tag("keyrest", sh.kwrest)
        \o Tag("block", sh.blk)

KindsOf(s) == [k \in DOMAIN s |-> s[k][1]]

(* aspec counts required and optional keywords together in KEY, so the  *)
(* code can only say key for both; the doc run reports the keyreq that   *)
(* is lost.  Apart from that, the entries of a proc with bytecode come   *)
(* in Ruby's order, one per declared parameter, with Ruby's kinds: the   *)
(* deferred keyrest and block entries land after the keywords, and a     *)
(* block's required parameters, before and after the rest, both read opt.*)
AsKey(k) == IF k = "keyreq" THEN "key" ELSE k

KindsAsDocumentedButKeyreq ==
  out # NIL /\ self.proc # NIL /\ ~self.proc.cfunc
    => KindsOf(out) = [k \in DOMAIN Documented(self.proc) |->
                         AsKey(Documented(self.proc)[k][1])]

(* parameters returns exactly what Ruby documents, names included.       *)
ParametersAsDocumented == out # NIL => out = Documented(self.proc)
=============================================================================
