\* Every conversion, flag set, width and precision, against what the documentation promises.
CONSTANTS
  Convs = {"d", "i", "u", "o", "x", "X", "b", "B", "f", "s", "p", "c"}
  Ints <- MCInts
  Bodies <- MCBodies
  Negs = {TRUE, FALSE}
  Widths <- MCWidths
  Precs <- MCPrecs
  FlagNames = {"FSHARP", "FMINUS", "FPLUS", "FZERO", "FSPACE"}
  Strs <- MCStrs
  CCodes <- MCCodes
  CodeChar <- MCCodeChar
  ContBytes <- MCContBytes

SPECIFICATION Spec
\* A format call ends after its conversion; the final state has no successor.
CHECK_DEADLOCK FALSE

INVARIANT ConvAsDocumented
