\* Every sequence of method operations, against what the documentation promises.
CONSTANTS
  NIL = NIL
  UNDEF = UNDEF
  NONE = NONE
  Names <- MCNames
  Nodes <- MCNodes
  Tt <- MCTt
  Super <- MCSuper
  IncOf <- MCIncOf
  MT <- MCMT
  Bodies <- MCBodies
  Objects <- MCObjects
  ObjClass <- MCObjClass
  RTMTrue <- MCRTMTrue
  Slots <- MCSlots
  Queried <- MCQueried
  AliasOf <- MCAliasOf
  CBodies <- MCCBodies
  DebugIreps <- MCDebugIreps

SPECIFICATION Spec

INVARIANT MethodObjectsAsDocumented
