---------------------------- MODULE MethodObject ----------------------------
(***************************************************************************)
(* The Method / UnboundMethod objects of mrbgems/mruby-method/src/method.c *)
(*                                                                         *)
(* A method object is an RObject carrying five instance variables:       *)
(* _owner, _recv, _name, _proc and _klass.  Here it is a record with     *)
(* those fields plus its class (Method or UnboundMethod).  A script       *)
(* holds method objects in a few local variables (Slots); every          *)
(* operation reads its self (and argument) from slots and, on success,   *)
(* stores its result in a slot.  Calling a method object is recorded as *)
(* the invocation it hands to mrb_exec_irep (lastCall).                 *)
(***************************************************************************)
EXTENDS ClassModel

CONSTANTS
  Slots,     \* the script's local variables that hold method objects
  Queried,   \* the method names the script asks for (a subset of Names)
  AliasOf,   \* AliasOf[b]: for the proc alias_method made, the aliased
             \* name and proc (p->body.mid, p->upper); NONE otherwise
  CBodies,   \* the bodies that are C functions (MRB_PROC_CFUNC_P)
  DebugIreps \* the ireps with a position for pc 0 (mrb_debug_get_position)

ASSUME Queried \subseteq Names

VARIABLES
  held,      \* held[s]: the method object in local variable s, or NIL
  lastCall,  \* the invocation made by the last call/bind_call, or NIL
  lastOp,    \* history for the properties: the last super_method or
             \* singleton_method step and its slots, "raise" after an
             \* error, "other" after any other operation
  shown      \* the slot and the value returned by the last to_s or
             \* source_location, NIL after any other operation

vars == <<held, lastCall, lastOp, shown>>

Kinds == {"Method", "UnboundMethod"}
MM  == "method_missing"
RTM == "respond_to_missing?"

MethodRec == [kind : Kinds, owner : Nodes \cup {NIL}, recv : Objects \cup {NIL},
              name : Names, proc : Bodies \cup {NIL}, klass : Nodes \cup {NIL}]

(* A record whose owner is a NULL class pointer cannot be operated on.   *)
Usable(r) == r # NIL /\ r.owner # NIL /\ r.klass # NIL

(* A raised error, as the outcome of an operation.                       *)
Err(kind) == [err |-> kind]
IsErr(v) == v # NIL /\ "err" \in DOMAIN v

(* search_method_owner (method.c:628-647).                                *)
SearchMethodOwner(c, obj, name, unbound) ==
  LET s == MethodSearch(c, name) IN
  IF s.proc # NIL THEN [ok |-> TRUE, owner |-> s.at, proc |-> s.proc]
  ELSE IF unbound \/ ~RespondTo(obj, RTM)
            \/ MethodSearch(ObjClass[obj], RTM).proc \notin RTMTrue
       THEN [ok |-> FALSE]
       ELSE [ok |-> TRUE, owner |-> c, proc |-> NIL]

(* method_alloc (method.c:655-683): a method object, or "NameError".     *)
MethodAlloc(c, obj, name, unbound, singleton) ==
  LET r == SearchMethodOwner(c, obj, name, unbound) IN
  IF ~r.ok THEN Err("NameError")
  ELSE IF singleton /\ Tt[r.owner] \notin {"SCLASS", "ICLASS"} THEN Err("NameError")
  ELSE [kind  |-> IF unbound THEN "UnboundMethod" ELSE "Method",
        owner |-> IF Tt[r.owner] = "ICLASS" THEN IncOf[r.owner] ELSE r.owner,
        recv  |-> IF unbound THEN NIL ELSE obj,
        name  |-> name, proc |-> r.proc, klass |-> c]

(* Mutant of bind_check: the kind_of test made against the owner's real  *)
(* class, which lets a singleton method bind to any instance of its      *)
(* attached object's class.                                              *)
BindCheckRealOwner(recv, owner) ==
  IsModule(owner) \/ owner = ObjRealClass(recv) \/ KindOf(recv, ClassReal(owner))

(* bind_check (method.c:150-163): TRUE when the receiver may be bound.   *)
BindCheck(recv, owner) ==
  IsModule(owner) \/ owner = ObjRealClass(recv) \/ KindOf(recv, owner)

(* The history entry of an operation; only super_method and             *)
(* singleton_method are told apart, the properties read no other.        *)
Hist(op, s, d) ==
  IF op \in {"super_method", "singleton_method"} THEN [op |-> op, src |-> s, dst |-> d]
  ELSE [op |-> "other", src |-> NIL, dst |-> NIL]
Raised == [op |-> "raise", src |-> NIL, dst |-> NIL]

(* Store the outcome v of an allocating operation in slot d; a raised    *)
(* error leaves the script's variables as they were.                      *)
Store(d, v, op) ==
  /\ held' = IF IsErr(v) THEN held ELSE [held EXCEPT ![d] = v]
  /\ lastCall' = NIL
  /\ lastOp' = IF IsErr(v) THEN Raised ELSE op
  /\ shown' = NIL

(* Kernel#method (method.c:713-720).                                      *)
KernelMethod(d, obj, name) ==
  Store(d, MethodAlloc(ObjClass[obj], obj, name, FALSE, FALSE),
        Hist("method", d, d))

(* Kernel#singleton_method (method.c:746-755).                            *)
KernelSingletonMethod(d, obj, name) ==
  Store(d, MethodAlloc(ObjClass[obj], obj, name, FALSE, TRUE),
        Hist("singleton_method", d, d))

(* Module#instance_method (method.c:780-787); self is the module, which  *)
(* is never consulted because an unbound search skips respond_to_missing?. *)
ModuleInstanceMethod(d, mod, name) ==
  /\ Tt[mod] # "ICLASS"
  /\ Store(d, MethodAlloc(mod, CHOOSE o \in Objects : TRUE, name, TRUE, FALSE),
           Hist("instance_method", d, d))

(* UnboundMethod#bind (method.c:192-211).                                 *)
Bind(d, s, obj) ==
  LET u == held[s] IN
  /\ Usable(u) /\ u.kind = "UnboundMethod"
  /\ Store(d, IF BindCheck(obj, u.owner) THEN [u EXCEPT !.kind = "Method", !.recv = obj]
              ELSE Err("TypeError"),
           Hist("bind", s, d))

(* Method#unbind (method.c:369-385).                                      *)
Unbind(d, s) ==
  LET m == held[s] IN
  /\ Usable(m) /\ m.kind = "Method"
  /\ Store(d, [m EXCEPT !.kind = "UnboundMethod", !.recv = NIL],
           Hist("unbind", s, d))

(* Mutant of the start of super_method: the lookup begins at the owner    *)
(* itself rather than at owner->super.                                   *)
SuperStartAtOwner(m) ==
  IF Tt[m.owner] = "MODULE"
  THEN LET ch   == Chain(Super[m.klass])
           hits == {i \in 1..Len(ch) : Tt[ch[i]] = "ICLASS" /\ IncOf[ch[i]] = m.owner}
       IN  IF hits = {} THEN [found |-> FALSE]
           ELSE [found |-> TRUE,
                 super |-> Super[ch[CHOOSE i \in hits : \A j \in hits : i <= j]]]
  ELSE [found |-> TRUE, super |-> m.owner]

(* method_super_method (method.c:425-461).  For a module owner the walk  *)
(* looks for the module's iclass on the chain above _klass.              *)
SuperStart(m) ==
  IF Tt[m.owner] = "MODULE"
  THEN LET ch   == Chain(Super[m.klass])
           hits == {i \in 1..Len(ch) : Tt[ch[i]] = "ICLASS" /\ IncOf[ch[i]] = m.owner}
       IN  IF hits = {} THEN [found |-> FALSE]
           ELSE [found |-> TRUE,
                 super |-> Super[ch[CHOOSE i \in hits : \A j \in hits : i <= j]]]
  ELSE [found |-> TRUE, super |-> Super[m.owner]]

SuperMethodOf(m) ==
  LET st == SuperStart(m) IN
  IF ~st.found THEN NIL
  ELSE LET s == MethodSearch(st.super, m.name) IN
       IF s.proc = NIL \/ s.at = NIL THEN NIL
       ELSE [kind |-> m.kind, owner |-> ClassReal(s.at), recv |-> m.recv,
             name |-> m.name, proc |-> s.proc, klass |-> ClassReal(s.at)]

SuperMethod(d, s) ==
  /\ Usable(held[s])
  /\ Store(d, SuperMethodOf(held[s]),
           Hist("super_method", s, d))

(* method_eql (method.c:244-269), for Method#== and UnboundMethod#==.   *)
MethodEql(a, b) ==
  /\ b # NIL /\ a.kind = b.kind
  /\ a.owner = b.owner
  /\ a.recv = b.recv
  /\ IF a.proc = NIL /\ b.proc = NIL THEN a.name = b.name
     ELSE a.proc # NIL /\ b.proc # NIL /\ a.proc = b.proc

Eql(a, b) ==
  /\ Usable(held[a])
  /\ lastCall' = NIL
  /\ lastOp' = Hist(IF MethodEql(held[a], held[b]) THEN "==" ELSE "!=", a, b)
  /\ shown' = NIL
  /\ UNCHANGED held

(* method_missing_prepare (method.c:66-100): the callable and the        *)
(* target class the call is redirected to, with the original name       *)
(* prepended to the arguments, or "NoMethodError".                       *)
MethodMissingPrepare(mid, recv) ==
  LET s == MethodSearch(ObjClass[recv], MM) IN
  IF mid = MM \/ s.proc = NIL THEN Err("NoMethodError")
  ELSE [self |-> recv, body |-> s.proc, mid |-> MM, tc |-> s.at, arg1 |-> mid]

(* Mutant of mcall that forgets to fetch _recv when called without a     *)
(* receiver (Method#call).                                                *)
MCallKeepUndef(m, recv) ==
  IF recv # NIL /\ ~BindCheck(recv, m.owner) THEN Err("TypeError")
  ELSE IF m.proc # NIL
       THEN [self |-> recv, body |-> m.proc, mid |-> m.name, tc |-> m.owner, arg1 |-> NIL]
       ELSE MethodMissingPrepare(m.name, recv)

(* mcall (method.c:273-294): recv = NIL stands for mrb_undef_value().    *)
MCall(m, recv) ==
  LET r == IF recv = NIL THEN m.recv ELSE recv IN
  IF recv # NIL /\ ~BindCheck(recv, m.owner) THEN Err("TypeError")
  ELSE IF m.proc # NIL
       THEN [self |-> r, body |-> m.proc, mid |-> m.name, tc |-> m.owner, arg1 |-> NIL]
       ELSE MethodMissingPrepare(m.name, r)

Invoke(v, op) ==
  /\ lastCall' = IF IsErr(v) THEN NIL ELSE v
  /\ lastOp' = IF IsErr(v) THEN Raised ELSE op
  /\ shown' = NIL
  /\ UNCHANGED held

(* Method#call / Method#[] (method.c:309-313).                            *)
Call(s) ==
  /\ Usable(held[s]) /\ held[s].kind = "Method"
  /\ Invoke(MCall(held[s], NIL), Hist("call", s, s))

(* UnboundMethod#bind_call (method.c:338-344): args_shift takes the      *)
(* receiver off the arguments, or raises ArgumentError when there is none. *)
BindCall(s, obj) ==
  /\ Usable(held[s]) /\ held[s].kind = "UnboundMethod"
  /\ Invoke(MCall(held[s], obj), Hist("bind_call", s, s))

BindCallNoArgs(s) ==
  /\ Usable(held[s]) /\ held[s].kind = "UnboundMethod"
  /\ Invoke(Err("ArgumentError"), Hist("bind_call", s, s))

(* The name the alias loop of method_to_s stops at: the mid of the last  *)
(* alias proc on the upper chain, the name the chain started from.       *)
RECURSIVE AliasRoot(_)
AliasRoot(b) ==
  IF AliasOf[AliasOf[b].upper] = NONE THEN AliasOf[b].mid
  ELSE AliasRoot(AliasOf[b].upper)

SEGV == "SEGV"

(* mrb_proc_source_location (proc.c:17-36): nil for a C function; an     *)
(* alias proc is replaced by its upper once; then the position of pc 0   *)
(* of p->body.irep, as [file, line] (the irep stands for it here), or   *)
(* nil.  When the upper is an alias proc too, body.irep is read from a   *)
(* body that holds a symbol, and the process crashes.                    *)
ProcSourceLocation(b) ==
  LET q == IF AliasOf[b] # NONE THEN AliasOf[b].upper ELSE b IN
  IF b \in CBodies THEN NIL
  ELSE IF AliasOf[q] # NONE THEN SEGV
  ELSE IF q \in DebugIreps THEN q ELSE NIL

(* method_source_location (method.c:516-524): nil without _proc.         *)
MethodSourceLocation(m) ==
  IF m.proc = NIL THEN NIL ELSE ProcSourceLocation(m.proc)

(* method_to_s (method.c:566-627), the string as its parts: the class of *)
(* self; "recv.name" for a singleton owner with a receiver, else         *)
(* "Owner#name" when _owner is _klass or its real class, else            *)
(* "Klass(Owner)#name" with Klass the real class of _klass; then         *)
(* "(orig)" for an alias proc, and " file:line" when                    *)
(* method_source_location returns a pair; a loc of SEGV stands for the   *)
(* crash in method_source_location, before any string is returned.       *)
MethodToS(m) ==
  LET rk   == m.klass
      head == IF Tt[m.owner] = "SCLASS" /\ m.recv # NIL
              THEN [form |-> "dot", left |-> m.recv, owner |-> NIL]
              ELSE IF m.owner = rk \/ m.owner = ClassReal(rk)
              THEN [form |-> "hash", left |-> NIL, owner |-> m.owner]
              ELSE [form |-> "pair", left |-> ClassReal(rk), owner |-> m.owner]
  IN  [cls |-> m.kind, form |-> head.form, left |-> head.left, owner |-> head.owner,
       name |-> m.name,
       orig |-> IF m.proc # NIL /\ AliasOf[m.proc] # NONE THEN AliasRoot(m.proc) ELSE NIL,
       loc  |-> MethodSourceLocation(m)]

(* Method#to_s, Method#inspect and their UnboundMethod twins.             *)
ToS(s) ==
  /\ Usable(held[s])
  /\ shown' = [slot |-> s, op |-> "to_s", val |-> MethodToS(held[s])]
  /\ lastCall' = NIL
  /\ lastOp' = Hist("to_s", s, s)
  /\ UNCHANGED held

(* Method#source_location and UnboundMethod#source_location.             *)
SourceLocation(s) ==
  /\ Usable(held[s])
  /\ shown' = [slot |-> s, op |-> "source_location", val |-> MethodSourceLocation(held[s])]
  /\ lastCall' = NIL
  /\ lastOp' = Hist("source_location", s, s)
  /\ UNCHANGED held

Init ==
  /\ held = [s \in Slots |-> NIL]
  /\ lastCall = NIL
  /\ lastOp = Hist("none", NIL, NIL)
  /\ shown = NIL

Next ==
  \/ \E d \in Slots, o \in Objects, n \in Queried :
        KernelMethod(d, o, n) \/ KernelSingletonMethod(d, o, n)
  \/ \E d \in Slots, c \in Nodes, n \in Queried : ModuleInstanceMethod(d, c, n)
  \/ \E d, s \in Slots, o \in Objects : Bind(d, s, o)
  \/ \E d, s \in Slots : Unbind(d, s) \/ SuperMethod(d, s) \/ Eql(d, s)
  \/ \E s \in Slots : Call(s) \/ BindCallNoArgs(s) \/ ToS(s) \/ SourceLocation(s)
  \/ \E s \in Slots, o \in Objects : BindCall(s, o)

Spec == Init /\ [][Next]_vars

-----------------------------------------------------------------------------
AliasNames == {AliasOf[b].mid : b \in {x \in DOMAIN AliasOf : AliasOf[x] # NONE}}

(* What source_location returns: an irep's position, nil, or a crash.   *)
Locations == DebugIreps \cup {NIL, SEGV}

Invocation == [self : Objects, body : Bodies, mid : Names,
               tc : Nodes \cup {NIL}, arg1 : Names \cup {NIL}]

TypeOK ==
  /\ held \in [Slots -> MethodRec \cup {NIL}]
  /\ lastCall \in Invocation \cup {NIL}
  /\ lastOp \in [op : {"super_method", "singleton_method", "raise", "other"},
                src : Slots \cup {NIL}, dst : Slots \cup {NIL}]
  /\ shown # NIL =>
       /\ shown.slot \in Slots /\ shown.op \in {"to_s", "source_location"}
       /\ IF shown.op = "source_location" THEN shown.val \in Locations
          ELSE shown.val \in [cls : Kinds, form : {"dot", "hash", "pair"},
                              left : Objects \cup Nodes \cup {NIL},
                              owner : Nodes \cup {NIL}, name : Names,
                              orig : AliasNames \cup {NIL}, loc : Locations]

(* A Method whose owner is a singleton class is bound only to an object  *)
(* whose own class chain holds that singleton class: bind_check's        *)
(* "singleton method called for a different object" guard, which must   *)
(* survive unbind/bind and super_method sequences.                       *)
SingletonOwnerBinding ==
  \A s \in Slots :
    Usable(held[s]) /\ held[s].kind = "Method" /\ Tt[held[s].owner] = "SCLASS"
      => held[s].owner \in ChainSet(ObjClass[held[s].recv])

(* Each super_method step starts its lookup strictly closer to the root  *)
(* than the method it came from, so a chain of super_method calls ends   *)
(* in nil (spec section 8, super_method chain termination).              *)
SuperMethodAscends ==
  [][ lastOp'.op = "super_method" /\ held'[lastOp'.dst] \in MethodRec
      /\ held'[lastOp'.dst].klass # NIL
        => Len(Chain(held'[lastOp'.dst].klass)) < Len(Chain(held[lastOp'.src].klass)) ]_vars

(* Method#owner names the class or module that defines the method the    *)
(* object carries (spec 4.4: owner is the class/module that defines it): *)
(* it is never NULL, and its own table holds the object's body.         *)
OwnerDefinesProc ==
  \A s \in Slots :
    held[s] # NIL =>
      /\ held[s].owner # NIL
      /\ Usable(held[s]) /\ held[s].proc # NIL => MtOf(held[s].owner)[held[s].name] = held[s].proc

(* A body defined in a class only ever runs with a receiver that is an   *)
(* instance of that class (bind's TypeError, spec 4.4).                  *)
ClassMethodRunsOnInstance ==
  lastCall # NIL /\ ~IsModule(DefinedIn(lastCall.body))
    => KindOf(lastCall.self, DefinedIn(lastCall.body))

(* The part of an object's chain below its real class: its singleton     *)
(* class and the iclasses of modules it was extended with.               *)
SingletonPart(o) ==
  LET ch == Chain(ObjClass[o]) IN
  {ch[i] : i \in {j \in 1..Len(ch) : \A k \in 1..j : ch[k] # ObjRealClass(o)}}

(* Kernel#singleton_method only returns a method found in the receiver's *)
(* singleton class or a module extended into it (doc, method.c:722-744). *)
SingletonMethodIsSingleton ==
  lastOp.op = "singleton_method" /\ held[lastOp.dst].proc # NIL
    => \E n \in SingletonPart(held[lastOp.dst].recv) :
          MtOf(n)[held[lastOp.dst].name] = held[lastOp.dst].proc

(* The irep of the def a body comes from, past every alias.             *)
RECURSIVE DefIrep(_)
DefIrep(b) == IF AliasOf[b] = NONE THEN b ELSE DefIrep(AliasOf[b].upper)

(* The source_location method.c documents: where the method was defined  *)
(* in Ruby, nil for a method not defined in Ruby.                         *)
DocumentedLoc(m) ==
  IF m.proc = NIL \/ m.proc \in CBodies \/ DefIrep(m.proc) \notin DebugIreps THEN NIL
  ELSE DefIrep(m.proc)

(* The string spec 4.4 gives Method#to_s: "Owner#name" when the owner   *)
(* is the actual class of the bound object, else "Actual(Owner)#name",   *)
(* then "(orig)" with the root name of an alias chain and " file:line"   *)
(* when the position is known.                                            *)
DocumentedToS(m) ==
  LET ac == ObjRealClass(m.recv) IN
  [cls |-> m.kind, form |-> IF m.owner = ac THEN "hash" ELSE "pair",
   left |-> IF m.owner = ac THEN NIL ELSE ac, owner |-> m.owner, name |-> m.name,
   orig |-> IF m.proc # NIL /\ AliasOf[m.proc] # NONE THEN AliasRoot(m.proc) ELSE NIL,
   loc  |-> DocumentedLoc(m)]

(* Method#inspect of a method not owned by a singleton class names the   *)
(* receiver's actual class, after any sequence of unbind, bind and       *)
(* super_method that produced it (spec 4.4, to_s/inspect).               *)
ToSAsDocumented ==
  shown # NIL /\ shown.op = "to_s" /\ held[shown.slot].kind = "Method"
  /\ Tt[held[shown.slot].owner] # "SCLASS"
    => shown.val = DocumentedToS(held[shown.slot])

(* What the documentation of Method, UnboundMethod and singleton_method  *)
(* promises, together: the owner defines the body, a class's body runs   *)
(* on instances of the class only, and singleton_method returns          *)
(* singleton methods only, and to_s names the receiver's actual class.   *)
(* Each conjunct is stated and commented above.                          *)
MethodObjectsAsDocumented ==
  /\ OwnerDefinesProc
  /\ ClassMethodRunsOnInstance
  /\ SingletonMethodIsSingleton
  /\ ToSAsDocumented
=============================================================================
