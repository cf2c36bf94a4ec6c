\* Proc#parameters and Method#parameters on every receiver of
\* MC_ProcParameters.tla.  One call is made and the program stops, so a
\* final state is expected.
CONSTANTS
  Shapes <- MCShapes
  NOSYM = NOSYM
  GARBAGE = GARBAGE
  NIL = NIL

SPECIFICATION Spec
CHECK_DEADLOCK FALSE

INVARIANT ParametersAsDocumented
