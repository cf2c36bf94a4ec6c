\* Kernel#inspect on every object of the programs of MC_Kernel.tla, or
\* Kernel#__case_eqq on every list of them, or x <=> y for every way the
\* classes of x and y define == and <=>.  The program stops when the
\* call returns, so a final state is expected.
CONSTANTS
  Objs = {"a", "b", "s", "t"}
  Imms = {"1"}
  IvTables <- MCIvTables
  Names = {"@x", "@y"}
  SuperInspect = {"s"}
  CustomToS = {"t"}
  MaxDepth = 10
  Elems = {e1, e2}
  Arrays <- MCArrays
  MaxLen = 3
  NIL = NIL
  Heap = {"a", "b"}
  IvNames = {"@x"}
  BadNames = {"x"}
  Vals = {"b", "1"}
  SMids = {"m"}
  KernelPublic = {"to_s"}
  KernelPrivate = {"raise"}
  RtmResults = {"basic", "nil", "obj"}
  Classes = {"A", "Object"}
  ClassOf <- MCClassOf
  Ancestors <- MCAncestors
  UNDEF = UNDEF
  CObjs = {p, q}
  MaxCDepth = 12

SPECIFICATION Spec
CHECK_DEADLOCK FALSE

INVARIANT TypeOK GuardCutsRecursion EqGuardReflexive
PROPERTY Termination FrozenObjectImmutable
