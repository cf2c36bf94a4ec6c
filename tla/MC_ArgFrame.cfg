CONSTANTS
  CALL_MAXARGS = 15
  MaxAry <- MCMaxAry
  Pushed = {Sym}
  Kw = Kw
  Blk = Blk
  NilBlk = NilBlk
  Junk = Junk
  Ary = Ary
  NoKw = NoKw
  NoOut = NoOut
  ArgErr = ArgErr

SPECIFICATION Spec

INVARIANT TypeOK
PROPERTY ArgsRefinement WritesStayInFrame
