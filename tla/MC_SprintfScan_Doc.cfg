\* Every format of up to four pieces; the byte after the NUL holds a conversion character.
CONSTANTS
  Fmts <- MCFmts
  ArgLists <- MCArgLists
  Garbage = {"d"}
  IntVal <- MCIntVal
  IntFits = {"I3", "In2", "I40000"}
  Hashes <- MCHashes
  NUL <- MCNUL
  NONE <- MCNONE

SPECIFICATION Spec
\* sprintf returns or raises; either ends the scan.
CHECK_DEADLOCK FALSE

PROPERTY ScanAsDocumented
