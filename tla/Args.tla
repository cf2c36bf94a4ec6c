-------------------------------- MODULE Args --------------------------------
(***************************************************************************)
(* What the argument-frame helpers of method.c promise (spec 4.3, 9):     *)
(* a call's arguments are one sequence, beside which sit the keyword hash *)
(* and the block.  bind_call removes the head of the sequence (the        *)
(* receiver); method_missing prepends the missing name.  Neither touches *)
(* the keyword hash or the block.                                         *)
(***************************************************************************)
EXTENDS Sequences

CONSTANTS
  Values,    \* argument values
  KwHashes,  \* keyword hashes a call may carry
  Blocks,    \* block values (nil included)
  NoKw,      \* "no keyword hash"
  NoOut,     \* "nothing shifted yet"
  ArgErr     \* the ArgumentError raised by a shift of no arguments

VARIABLES args, kw, blk, out

avars == <<args, kw, blk, out>>

Init ==
  /\ args \in Seq(Values)
  /\ kw \in KwHashes \cup {NoKw}
  /\ blk \in Blocks
  /\ out = NoOut

(* Take the first argument off.                                           *)
Shift ==
  /\ args # <<>>
  /\ out' = Head(args)
  /\ args' = Tail(args)
  /\ UNCHANGED <<kw, blk>>

(* A shift with no argument raises and leaves the arguments alone.       *)
ShiftNone ==
  /\ args = <<>>
  /\ out' = ArgErr
  /\ UNCHANGED <<args, kw, blk>>

(* Put v in front of the arguments.                                       *)
Unshift(v) ==
  /\ args' = <<v>> \o args
  /\ UNCHANGED <<kw, blk, out>>

Next == Shift \/ ShiftNone \/ \E v \in Values : Unshift(v)

Spec == Init /\ [][Next]_avars
=============================================================================
