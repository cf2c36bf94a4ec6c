\* Every format of up to four pieces against each argument list.
CONSTANTS
  Fmts <- MCFmts
  ArgLists <- MCArgLists
  Garbage = {"NUL"}
  IntVal <- MCIntVal
  IntFits = {"I3", "In2", "I40000"}
  Hashes <- MCHashes
  NUL <- MCNUL
  NONE <- MCNONE

SPECIFICATION Spec
\* sprintf returns or raises; either ends the scan.
CHECK_DEADLOCK FALSE

INVARIANT TypeOK
INVARIANT ModesExclusive
INVARIANT ArgsInOrder
