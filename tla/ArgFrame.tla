------------------------------ MODULE ArgFrame ------------------------------
(***************************************************************************)
(* args_shift and args_unshift (method.c:14-64) on the current call      *)
(* frame.  argv = ci->stack + 1 holds either the packed form, n < 15     *)
(* arguments inline followed by the keyword hash (when nk = 15) and the  *)
(* block, or the spread form, n = 15, where argv[0] is one array of all  *)
(* arguments, then the keyword hash (when nk = 15) and the block.        *)
(***************************************************************************)
EXTENDS Naturals, Sequences

CONSTANTS
  CALL_MAXARGS,  \* 15: the n value that marks the spread form
  MaxAry,        \* bound on the length of the spread array
  Pushed,        \* the values args_unshift is asked to prepend
  Kw, Blk,       \* the keyword hash and the block of the call
  NilBlk,        \* nil in the block slot: the call has no block
  Junk,          \* what the stack holds past the frame
  Ary,           \* argv[0] in the spread form: the argument array
  NoKw, NoOut, ArgErr

(* The argv slots the frame can use: CALL_MAXARGS - 1 packed arguments,  *)
(* the keyword hash and the block.                                       *)
Slots == 0..CALL_MAXARGS + 1

VARIABLES
  n,      \* ci->n
  nk,     \* ci->nk: 0, or CALL_MAXARGS when keywords are one hash
  stack,  \* argv[i] for i \in Slots
  ary,    \* the elements of the array argv[0] (spread form)
  out     \* what the last args_shift returned, or ArgErr

vars == <<n, nk, stack, ary, out>>

KwSlot == IF nk = 0 THEN 0 ELSE 1

(* A frame as a call builds it: k arguments, numbered 1..k, packed when *)
(* k < CALL_MAXARGS and spread otherwise.                                *)
PackedFrame(k, kn, b) ==
  [i \in Slots |-> CASE i < k                    -> i + 1
                     [] kn # 0 /\ i = k          -> Kw
                     [] i = k + (IF kn = 0 THEN 0 ELSE 1) -> b
                     [] OTHER                    -> Junk]
SpreadFrame(kn, b) ==
  [i \in Slots |-> CASE i = 0                    -> Ary
                     [] kn # 0 /\ i = 1          -> Kw
                     [] i = 1 + (IF kn = 0 THEN 0 ELSE 1) -> b
                     [] OTHER                    -> Junk]

Init ==
  /\ nk \in {0, CALL_MAXARGS}
  /\ out = NoOut
  /\ \E b \in {Blk, NilBlk} :
     \/ /\ n \in 0..CALL_MAXARGS - 1
        /\ stack = PackedFrame(n, nk, b)
        /\ ary = <<>>
     \/ /\ n = CALL_MAXARGS
        /\ stack = SpreadFrame(nk, b)
        /\ ary \in {[i \in 1..k |-> i] : k \in 0..MaxAry}

(* Mutant of args_shift whose memmove count leaves out the block slot.   *)
ArgsShiftPackedNoBlock ==
  /\ n < CALL_MAXARGS /\ n # 0
  /\ LET count == n + KwSlot - 1 IN
       stack' = [i \in Slots |-> IF i < count THEN stack[i + 1] ELSE stack[i]]
  /\ n' = n - 1
  /\ out' = stack[0]
  /\ UNCHANGED <<nk, ary>>

(* Mutant of args_shift whose memmove count takes one slot too many.    *)
ArgsShiftPackedCountPlus ==
  /\ n < CALL_MAXARGS /\ n # 0
  /\ LET count == n + KwSlot + 1 IN
       stack' = [i \in Slots |-> IF i < count THEN stack[i + 1] ELSE stack[i]]
  /\ n' = n - 1
  /\ out' = stack[0]
  /\ UNCHANGED <<nk, ary>>

(* args_shift, packed form: argv[0] is returned and memmove moves the    *)
(* remaining arguments, the keyword hash and the block one slot down.    *)
ArgsShiftPacked ==
  /\ n < CALL_MAXARGS /\ n # 0
  /\ LET count == n + KwSlot + 1 - 1 IN
       stack' = [i \in Slots |-> IF i < count THEN stack[i + 1] ELSE stack[i]]
  /\ n' = n - 1
  /\ out' = stack[0]
  /\ UNCHANGED <<nk, ary>>

(* args_shift, spread form: mrb_ary_shift on the argument array.         *)
ArgsShiftSpread ==
  /\ n = CALL_MAXARGS /\ ary # <<>>
  /\ out' = Head(ary)
  /\ ary' = Tail(ary)
  /\ UNCHANGED <<n, nk, stack>>

(* args_shift with no argument: mrb_argnum_error raises ArgumentError.   *)
ArgsShiftError ==
  /\ \/ n = 0
     \/ n = CALL_MAXARGS /\ ary = <<>>
  /\ out' = ArgErr
  /\ UNCHANGED <<n, nk, stack, ary>>

(* Mutant of args_unshift that promotes the frame but leaves ci->n.      *)
ArgsUnshiftKeepN(obj) ==
  /\ IF n < CALL_MAXARGS
     THEN /\ n + 1 <= MaxAry
          /\ ary' = <<obj>> \o [i \in 1..n |-> stack[i - 1]]
          /\ stack' = [stack EXCEPT ![0] = Ary, ![1] = stack[n],
                                    ![2] = IF nk = 0 THEN stack[2] ELSE stack[n + 1]]
          /\ n' = n
     ELSE /\ Len(ary) + 1 <= MaxAry
          /\ ary' = <<obj>> \o ary
          /\ UNCHANGED <<n, stack>>
  /\ UNCHANGED <<nk, out>>

(* args_unshift: a packed frame is first promoted to the spread form     *)
(* (argv[0] = the array of its arguments, then keyword hash and block),  *)
(* then obj is prepended to the array.                                   *)
ArgsUnshift(obj) ==
  /\ IF n < CALL_MAXARGS
     THEN /\ n + 1 <= MaxAry
          /\ ary' = <<obj>> \o [i \in 1..n |-> stack[i - 1]]
          /\ stack' = [stack EXCEPT ![0] = Ary, ![1] = stack[n],
                                    ![2] = IF nk = 0 THEN stack[2] ELSE stack[n + 1]]
          /\ n' = CALL_MAXARGS
     ELSE /\ Len(ary) + 1 <= MaxAry
          /\ ary' = <<obj>> \o ary
          /\ UNCHANGED <<n, stack>>
  /\ UNCHANGED <<nk, out>>

Next ==
  \/ ArgsShiftPacked
  \/ ArgsShiftSpread
  \/ ArgsShiftError
  \/ \E v \in Pushed : ArgsUnshift(v)

Spec == Init /\ [][Next]_vars

-----------------------------------------------------------------------------
(* The frame read as the abstract argument list.                         *)
KwAt == IF n < CALL_MAXARGS THEN n ELSE 1

AbsArgs == IF n < CALL_MAXARGS THEN [i \in 1..n |-> stack[i - 1]] ELSE ary
AbsKw   == IF nk = 0 THEN NoKw ELSE stack[KwAt]
(* block_given? on a frame without an env (kernel.c:310-318): n is 1    *)
(* for the spread form, k is 1 for one keyword hash and 2 per keyword    *)
(* otherwise, and the block is ci->stack[n + k + 1], argv[n + k].        *)
BlockGivenP ==
  LET nn == IF n = CALL_MAXARGS THEN 1 ELSE n
      k  == IF nk = CALL_MAXARGS THEN 1 ELSE nk * 2
  IN  stack[nn + k] # NilBlk

(* The block as block_given? finds it (kernel.c), by slot arithmetic of *)
(* its own: the refinement checks it against the slots args_shift and    *)
(* args_unshift (method.c) move.                                         *)
AbsBlk  == IF BlockGivenP THEN Blk ELSE NilBlk

Abs == INSTANCE Args WITH Values <- 1..MaxAry \cup Pushed, KwHashes <- {Kw},
                          Blocks <- {Blk, NilBlk}, args <- AbsArgs, kw <- AbsKw,
                          blk <- AbsBlk, out <- out

(* The argv index of the block slot: after the arguments (one array in  *)
(* the spread form) and the keyword hash.                                 *)
FrameEnd == KwAt + KwSlot

(* The frame has one of its two forms: packed with n < 15 arguments       *)
(* inline, or spread with n = 15 and the argument array in argv[0].       *)
TypeOK ==
  /\ nk \in {0, CALL_MAXARGS}
  /\ n \in 0..CALL_MAXARGS
  /\ (n = CALL_MAXARGS) = (stack[0] = Ary)
  /\ Len(ary) <= MaxAry
  /\ out \in 1..MaxAry \cup Pushed \cup {NoOut, ArgErr}

(* Every args_shift / args_unshift, over both frame forms and across the  *)
(* packed-to-spread promotion, removes the head of the argument list or  *)
(* prepends to it, and keeps the keyword hash and the block where the    *)
(* callee finds them (spec 4.3: the encoding is an optimisation behind   *)
(* one argument sequence).                                               *)
ArgsRefinement == Abs!Spec

(* args_shift's memmove and args_unshift's promotion write no argv slot *)
(* past the block slot of the frame they leave, and the frame grows only *)
(* when args_unshift promotes a packed frame with no argument, by one    *)
(* slot: the one write (argv[1], or argv[2] with a keyword hash) that   *)
(* needs stack space the caller did not fill.                            *)
FrameWrite ==
  /\ \A s \in Slots : stack'[s] # stack[s] => s <= FrameEnd'
  /\ FrameEnd' > FrameEnd => n = 0 /\ FrameEnd' = FrameEnd + 1
WritesStayInFrame == [][FrameWrite]_vars
=============================================================================
