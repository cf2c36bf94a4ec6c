----------------------------- MODULE SprintfScan -----------------------------
(***************************************************************************)
(* The directive scanner of mrb_str_format (sprintf.c:258-437) and its   *)
(* argument fetching (check_next_arg, check_pos_arg, check_name_arg,      *)
(* GETNEXTARG, GETPOSARG, GETNTHARG, GETASTER, get_num and get_hash,      *)
(* sprintf.c:157-256).  The format is a sequence of one-character strings; *)
(* p indexes it from 1, position Len(fmt)+1 holds the terminating NUL and *)
(* position Len(fmt)+2 the byte after it (junk).  A conversion is          *)
(* abstracted to the token it pushes: its character, its value and the    *)
(* flags, width and precision the scanner collected; the text it prints   *)
(* is modelled in SprintfConv.                                            *)
(***************************************************************************)
EXTENDS Integers, Sequences, SequencesExt

CONSTANTS
  Fmts,       \* format strings
  ArgLists,   \* argument lists (argv after the format)
  Garbage,    \* what the byte after the terminating NUL may hold
  IntVal,     \* IntVal[v]: (int)mrb_as_int(v) of an Integer argument v
  IntFits,    \* the Integer arguments whose value fits in a C int, so
              \* that IntVal[v] is the value itself
  Hashes,     \* Hash arguments: Hashes[h] maps key names to values
  NUL, NONE   \* the NUL byte; "no value" (mrb_undef_value)

VARIABLES
  fmt, args, junk,          \* the inputs
  p, pc,                    \* scan position; "lit", "retry", "done" or an error class
  flags, width, prec,       \* the directive being scanned
  nextarg, posarg,          \* the argument-numbering mode
  nextvalue, id, hash,      \* a value fetched by N$ or <name>; the hash argument
  out,                      \* pushed literal characters and conversion tokens
  used                      \* history: every argument fetch, with its mode

vars == <<fmt, args, junk, p, pc, flags, width, prec, nextarg, posarg,
          nextvalue, id, hash, out, used>>

DigitChars == {"0", "1", "2", "3", "4", "5", "6", "7", "8", "9"}
FlagOf == [c \in {" ", "#", "+", "-", "0"} |->
             CASE c = " " -> "FSPACE" [] c = "#" -> "FSHARP" [] c = "+" -> "FPLUS"
               [] c = "-" -> "FMINUS" [] c = "0" -> "FZERO"]
ConvChars == {"c", "s", "p", "d", "i", "o", "x", "X", "b", "B", "u", "f", "g", "G", "e", "E"}
INT16_MAX == 32767
INT16_MIN == -32768

(* *p: the format, its terminating NUL, then the byte after it (read at  *)
(* most once: whatever follows it is taken to be NUL).                  *)
CharAt(i) ==
  IF i <= Len(fmt) THEN fmt[i] ELSE IF i = Len(fmt) + 2 THEN junk ELSE NUL

(* get_num: mrb_read_int reads the digits at i (none reads 0); the scan  *)
(* ends at NumEnd(i).                                                     *)
RECURSIVE NumEnd(_)
NumEnd(i) == IF CharAt(i) \in DigitChars THEN NumEnd(i + 1) ELSE i
NumVal(i) ==
  FoldLeft(LAMBDA a, c : 10 * a + (CHOOSE d \in 0..9 : ToString(d) = c), 0,
           [k \in 1..NumEnd(i) - i |-> CharAt(i + k - 1)])

(* The result of fetching an argument: ok, the value, the mode fields    *)
(* after the fetch, and the entries it adds to the history.             *)
Failed(e) == [ok |-> FALSE, err |-> e]

(* GETNTHARG: argc counts the format too, so nth >= argc is too few.     *)
NthArg(nth, pa, na, mode) ==
  IF nth >= Len(args) + 1 THEN Failed("ArgumentError")
  ELSE [ok |-> TRUE, val |-> args[nth], posarg |-> pa, nextarg |-> na,
        fetch |-> <<[mode |-> mode, idx |-> nth]>>]

(* Mutant: check_next_arg without its "mixed with named" case.           *)
NextArgNoNamedCheck ==
  IF posarg = -1 THEN Failed("ArgumentError")
  ELSE NthArg(nextarg, nextarg, nextarg + 1, "next")

(* Mutant: posarg = nextarg, without the ++.                              *)
NextArgNoIncrement ==
  IF posarg \in {-1, -2} THEN Failed("ArgumentError")
  ELSE NthArg(nextarg, nextarg, nextarg, "next")

(* GETNEXTARG: check_next_arg, then posarg = nextarg++.                   *)
NextArg ==
  IF posarg \in {-1, -2} THEN Failed("ArgumentError")
  ELSE NthArg(nextarg, nextarg, nextarg + 1, "next")

(* GETPOSARG(n): check_pos_arg, then posarg = -1.                        *)
PosArg(n) ==
  IF posarg > 0 \/ posarg = -2 \/ n < 1 THEN Failed("ArgumentError")
  ELSE NthArg(n, -1, nextarg, "pos")

(* GETARG: the value of N$ or <name> if one was given.                   *)
GetArg ==
  IF nextvalue # NONE
  THEN [ok |-> TRUE, val |-> nextvalue, posarg |-> posarg, nextarg |-> nextarg, fetch |-> <<>>]
  ELSE NextArg

(* GETASTER at the '*' in position t: the argument N$ if digits and '$'  *)
(* follow, else the next one; the result carries the position the scan  *)
(* continues from (before the p++ that follows every use) and the value  *)
(* as (int)mrb_as_int.                                                    *)
Aster(t) ==
  LET q == NumEnd(t + 1)
      r == IF CharAt(q) = "$" THEN PosArg(NumVal(t + 1)) ELSE NextArg
  IN  IF ~r.ok THEN r
      ELSE IF r.val \notin DOMAIN IntVal THEN Failed("TypeError")
      ELSE [r EXCEPT !.val = IntVal[r.val]] @@ [at |-> IF CharAt(q) = "$" THEN q ELSE t]

(* Record a successful fetch.                                             *)
Take(r) ==
  /\ posarg' = r.posarg /\ nextarg' = r.nextarg
  /\ used' = used \o r.fetch

(* A raise: the scan stops with the error class.                         *)
Raise(e) ==
  /\ pc' = e
  /\ UNCHANGED <<fmt, args, junk, p, flags, width, prec, nextarg, posarg,
                 nextvalue, id, hash, out, used>>

(* The conversion token a directive pushes.                               *)
Token(c, v) == [conv |-> c, val |-> v, flags |-> flags, width |-> width, prec |-> prec]

(* The top of the for loop: stop at the end of the format; else push the *)
(* literal run up to the next '%' ("% at the bottom" raises) and start a *)
(* directive with fresh flags, width, precision, nextvalue and id.       *)
ScanLiteral ==
  /\ pc = "lit"
  /\ IF p > Len(fmt)
     THEN pc' = "done" /\ UNCHANGED <<fmt, args, junk, p, flags, width, prec,
                                       nextarg, posarg, nextvalue, id, hash, out, used>>
     ELSE LET t == IF \E i \in p..Len(fmt) : fmt[i] = "%"
                   THEN Min({i \in p..Len(fmt) : fmt[i] = "%"}) ELSE Len(fmt) + 1
          IN  IF t = Len(fmt) THEN Raise("ArgumentError")
              ELSE /\ out' = out \o SubSeq(fmt, p, t - 1)
                   /\ IF t > Len(fmt)
                      THEN pc' = "done" /\ UNCHANGED <<p, flags, width, prec, nextvalue, id>>
                      ELSE /\ p' = t + 1 /\ pc' = "retry"
                           /\ flags' = {} /\ width' = -1 /\ prec' = -1
                           /\ nextvalue' = NONE /\ id' = FALSE
                   /\ UNCHANGED <<fmt, args, junk, nextarg, posarg, hash, used>>

(* case ' ', '#', '+', '-', '0': CHECK_FOR_FLAGS, then the flag.          *)
ScanFlag ==
  /\ pc = "retry" /\ CharAt(p) \in DOMAIN FlagOf
  /\ IF flags \cap {"FWIDTH", "FPREC0"} # {} THEN Raise("ArgumentError")
     ELSE /\ flags' = flags \cup {FlagOf[CharAt(p)]} /\ p' = p + 1
          /\ UNCHANGED <<fmt, args, junk, pc, width, prec, nextarg, posarg,
                         nextvalue, id, hash, out, used>>

(* case '1'..'9': N$ fetches argument N as the directive's value ("value *)
(* given twice" if it has one); otherwise N is the width.                 *)
ScanDigits ==
  /\ pc = "retry" /\ CharAt(p) \in DigitChars \ {"0"}
  /\ LET q == NumEnd(p)
         n == NumVal(p)
     IN  IF CharAt(q) = "$"
         THEN IF nextvalue # NONE THEN Raise("ArgumentError")
              ELSE LET r == PosArg(n) IN
                   IF ~r.ok THEN Raise(r.err)
                   ELSE /\ nextvalue' = r.val /\ p' = q + 1 /\ Take(r)
                        /\ UNCHANGED <<fmt, args, junk, pc, flags, width, prec, id, hash, out>>
         ELSE IF flags \cap {"FWIDTH", "FPREC0"} # {} THEN Raise("ArgumentError")
         ELSE /\ width' = n /\ flags' = flags \cup {"FWIDTH"} /\ p' = q
              /\ UNCHANGED <<fmt, args, junk, pc, prec, nextarg, posarg, nextvalue,
                             id, hash, out, used>>

(* The scan for the closing '>' or '}': it stops at the end of the       *)
(* format, or at once when p is already past it.                          *)
RECURSIVE ScanTo(_, _)
ScanTo(i, term) == IF i > Len(fmt) \/ CharAt(i) = term THEN i ELSE ScanTo(i + 1, term)

(* check_name_arg: a name after an unnumbered or a numbered reference.   *)
NameArgOK == ~(posarg > 0 \/ posarg = -1)

(* get_hash: the hash argument, once: exactly one argument, a Hash.      *)
GetHash ==
  IF hash # NONE THEN [ok |-> TRUE, h |-> hash]
  ELSE IF Len(args) # 1 \/ args[1] \notin DOMAIN Hashes THEN Failed("ArgumentError")
  ELSE [ok |-> TRUE, h |-> args[1]]

(* case '<', '{': the named value from the one hash argument.  %{name}  *)
(* is converted with to_s at once (goto format_s); <name> goes on        *)
(* scanning after the closing '>', p++ past where the scan stopped.      *)
ScanName ==
  /\ pc = "retry" /\ CharAt(p) \in {"<", "{"}
  /\ LET term == IF CharAt(p) = "<" THEN ">" ELSE "}"
         q    == ScanTo(p, term)
         name == SubSeq(fmt, p + 1, q - 1)
         g    == GetHash
     IN  IF id \/ ~NameArgOK THEN Raise("ArgumentError")
         ELSE IF ~g.ok THEN Raise(g.err)
         ELSE IF name \notin DOMAIN Hashes[g.h] THEN Raise("KeyError")
         ELSE /\ posarg' = -2 /\ hash' = g.h /\ id' = TRUE
              /\ nextvalue' = Hashes[g.h][name]
              /\ used' = Append(used, [mode |-> "name", idx |-> 0])
              /\ IF term = "}"
                 THEN /\ out' = Append(out, Token("s", Hashes[g.h][name]))
                      /\ p' = q + 1 /\ pc' = "lit"
                 ELSE /\ p' = q + 1 /\ UNCHANGED <<pc, out>>
              /\ UNCHANGED <<fmt, args, junk, flags, width, prec, nextarg>>

(* Mutant: a negative '*' width kept as it is.                            *)
AbsWidthKeep(v) == v

(* A negative '*' width is '-' and its absolute value.                    *)
AbsWidth(v) == IF v < 0 THEN -v ELSE v

(* case '*': CHECK_FOR_WIDTH, FWIDTH, GETASTER(width); a width outside   *)
(* int16 raises, a negative one sets '-'; then p++.                       *)
ScanAsterWidth ==
  /\ pc = "retry" /\ CharAt(p) = "*"
  /\ IF flags \cap {"FWIDTH", "FPREC0"} # {} THEN Raise("ArgumentError")
     ELSE LET r == Aster(p) IN
          IF ~r.ok THEN Raise(r.err)
          ELSE IF r.val > INT16_MAX \/ INT16_MIN > r.val THEN Raise("ArgumentError")
          ELSE /\ width' = AbsWidth(r.val)
               /\ flags' = flags \cup {"FWIDTH"} \cup (IF r.val < 0 THEN {"FMINUS"} ELSE {})
               /\ p' = r.at + 1 /\ Take(r)
               /\ UNCHANGED <<fmt, args, junk, pc, prec, nextvalue, id, hash, out>>

(* case '.': "precision given twice", FPREC|FPREC0, then either          *)
(* GETASTER(prec) (a negative one clears FPREC) and p++, or get_num.      *)
ScanPrecision ==
  /\ pc = "retry" /\ CharAt(p) = "."
  /\ IF "FPREC0" \in flags THEN Raise("ArgumentError")
     ELSE IF CharAt(p + 1) = "*"
     THEN LET r == Aster(p + 1) IN
          IF ~r.ok THEN Raise(r.err)
          ELSE /\ prec' = r.val
               /\ flags' = (flags \cup {"FPREC", "FPREC0"}) \ (IF r.val < 0 THEN {"FPREC"} ELSE {})
               /\ p' = r.at + 1 /\ Take(r)
               /\ UNCHANGED <<fmt, args, junk, pc, width, nextvalue, id, hash, out>>
     ELSE /\ prec' = NumVal(p + 1) /\ flags' = flags \cup {"FPREC", "FPREC0"}
          /\ p' = NumEnd(p + 1)
          /\ UNCHANGED <<fmt, args, junk, pc, width, nextarg, posarg, nextvalue,
                         id, hash, out, used>>

(* case '%', and '\n' or NUL (p-- first): a '%' with no flags; then the *)
(* loop's p++.                                                             *)
ScanPercent ==
  /\ pc = "retry" /\ CharAt(p) \in {"%", "\n", NUL}
  /\ IF flags # {} THEN Raise("ArgumentError")
     ELSE /\ out' = Append(out, "%")
          /\ p' = (IF CharAt(p) = "%" THEN p ELSE p - 1) + 1
          /\ pc' = "lit"
          /\ UNCHANGED <<fmt, args, junk, flags, width, prec, nextarg, posarg,
                         nextvalue, id, hash, used>>

(* A conversion character: GETARG, push the conversion's text, p++.      *)
ScanConversion ==
  /\ pc = "retry" /\ CharAt(p) \in ConvChars
  /\ LET r == GetArg IN
     IF ~r.ok THEN Raise(r.err)
     ELSE /\ out' = Append(out, Token(CharAt(p), r.val))
          /\ p' = p + 1 /\ pc' = "lit" /\ Take(r)
          /\ UNCHANGED <<fmt, args, junk, flags, width, prec, nextvalue, id, hash>>

(* default: "malformed format string".                                    *)
ScanMalformed ==
  /\ pc = "retry"
  /\ CharAt(p) \notin DOMAIN FlagOf \cup DigitChars \cup {"<", "{", "*", ".", "%", "\n", NUL}
                      \cup ConvChars
  /\ Raise("ArgumentError")

Init ==
  /\ fmt \in Fmts /\ args \in ArgLists /\ junk \in Garbage
  /\ p = 1 /\ pc = "lit"
  /\ flags = {} /\ width = -1 /\ prec = -1
  /\ nextarg = 1 /\ posarg = 0
  /\ nextvalue = NONE /\ id = FALSE /\ hash = NONE
  /\ out = <<>> /\ used = <<>>

Next ==
  \/ ScanLiteral \/ ScanFlag \/ ScanDigits \/ ScanName \/ ScanAsterWidth
  \/ ScanPrecision \/ ScanPercent \/ ScanConversion \/ ScanMalformed

Spec == Init /\ [][Next]_vars

-----------------------------------------------------------------------------
Errors == {"ArgumentError", "KeyError", "TypeError"}

TypeOK ==
  /\ pc \in {"lit", "retry", "done"} \cup Errors
  /\ p \in 1..Len(fmt) + 3
  /\ width = -1 \/ width \in 0..INT16_MAX
  /\ nextarg \in 1..Len(args) + 1
  /\ posarg \in -2..Len(args)
  /\ used \in Seq([mode : {"next", "pos", "name"}, idx : 0..Len(args)])

(* Unnumbered (%s), numbered (%1$s) and named (%<a>s) references never   *)
(* mix in one format, over all its directives and their '*' widths and   *)
(* precisions (check_next_arg, check_pos_arg, check_name_arg and the     *)
(* posarg they keep).                                                     *)
ModesExclusive ==
  \A i, j \in DOMAIN used : used[i].mode = used[j].mode

(* Unnumbered references take the arguments in order, each once, and    *)
(* numbered ones name an argument that was passed (nextarg++ and         *)
(* GETNTHARG's bound).                                                    *)
ArgsInOrder ==
  \A i \in DOMAIN used :
    /\ used[i].mode = "next" => used[i].idx = i
    /\ used[i].mode # "name" => used[i].idx \in 1..Len(args)

(* The step is a '*' width or precision read from the argument list.     *)
AsterFromArg == CharAt(p) = "*" \/ (CharAt(p) = "." /\ CharAt(p + 1) = "*")

(* A '*' width or precision is the value of its argument: an Integer    *)
(* that does not fit in a C int is rejected like any width beyond int16  *)
(* ("width too big"), never truncated to its low bits and used.  This is  *)
(* the (int) cast GETASTER applies before ScanAsterWidth's range check.   *)
AsterFits ==
  pc = "retry" /\ AsterFromArg /\ pc' = "retry" => args[Last(used').idx] \in IntFits

(* The scanner never reads past the format's terminating NUL.            *)
ScanInBounds == p <= Len(fmt) + 1

(* What sprintf's documentation promises of the scan, together: it stays *)
(* within the format, and a '*' width or precision is its argument's     *)
(* value.  Each conjunct is stated and commented above.                  *)
ScanAsDocumented == [][ScanInBounds' /\ AsterFits]_vars
=============================================================================
