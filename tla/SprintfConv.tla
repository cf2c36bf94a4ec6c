----------------------------- MODULE SprintfConv -----------------------------
(***************************************************************************)
(* The conversions of sprintf, from the conversion switch of             *)
(* mrb_str_format (sprintf.c:546-842) and its helpers: the integer        *)
(* conversions %d %i %u %o %x %X %b %B with mrb_uint_to_cstr and          *)
(* remove_sign_bits (sprintf.c:22-77) for a 64-bit mrb_int, and the float *)
(* conversions (%f and its siblings, which differ only in the digits):   *)
(* the non-finite branch and the padding fmt_float (sprintf.c:89-131)    *)
(* puts around the text of mrb_format_float.  mrb_format_float is        *)
(* outside the sources: it writes the sign ('-' for a negative number,   *)
(* else the sign character it is given) and then the digits, which are   *)
(* abstracted to a few texts differing in their first digit and length.  *)
(* The text conversions %s, %p and %c (sprintf.c:447-525) cut and pad    *)
(* the argument's text; %c takes a one-character string or an integer   *)
(* code, which the MRB_UTF8_STRING build option turns into a character   *)
(* in two ways.  A string is a sequence of bytes; with MRB_UTF8_STRING   *)
(* the continuation bytes ContBytes belong to the character before them. *)
(* A string is a sequence of one-character strings.  Flags are the set   *)
(* of flag names the scanner collected (FSHARP .. FPREC); width and prec *)
(* are -1 when absent.                                                    *)
(***************************************************************************)
EXTENDS Integers, Sequences, SequencesExt

CONSTANTS
  Convs,      \* conversion characters to try ("f" for the float family)
  Ints,       \* integer arguments (64-bit mrb_int, small magnitude)
  Bodies,     \* digit texts mrb_format_float may produce, e.g. "9.5"
  Negs,       \* whether a float argument may be negative
  Widths,     \* field widths as the scanner leaves them (-1: none)
  Precs,      \* precisions as the scanner leaves them (-1: none)
  FlagNames,  \* flag characters that may precede the conversion
  Strs,       \* string arguments of %s, %p and %c
  CCodes,     \* integer arguments of %c
  CodeChar,   \* CodeChar[k]: the one-character string of byte k
  ContBytes   \* the UTF-8 continuation bytes among the strings' bytes

VARIABLES dconv, dflags, dwidth, dprec, arg, out, err, utf8, done

vars == <<dconv, dflags, dwidth, dprec, arg, out, err, utf8, done>>

IntConvs == {"d", "i", "u", "o", "x", "X", "b", "B"}

(* A float argument: finite (with the text of its digits), NaN or Inf.  *)
Floats == [kind : {"finite", "nan", "inf"}, neg : Negs, body : Bodies]

(* A %c argument: a String, an Integer, or an object that is neither.    *)
CArgs == [kind : {"str"}, s : Strs] \cup [kind : {"int"}, n : CCodes] \cup [kind : {"obj"}]

TextConvs == {"s", "p", "c"}

DigitMap == <<"0","1","2","3","4","5","6","7","8","9","a","b","c","d","e","f">>
UpperOf  == [c \in {"a","b","c","d","e","f"} |->
               CASE c = "a" -> "A" [] c = "b" -> "B" [] c = "c" -> "C"
                 [] c = "d" -> "D" [] c = "e" -> "E" [] c = "f" -> "F"]

(* n copies of character c (FILL); nothing when n <= 0.                  *)
Fill(c, n) == [i \in 1..n |-> c]

RECURSIVE Pow(_, _)
Pow(b, k) == IF k = 0 THEN 1 ELSE b * Pow(b, k - 1)

(* The base-b digits of u >= 0, most significant first ("0" for 0).     *)
RECURSIVE Digits(_, _)
Digits(u, b) ==
  IF u < b THEN <<DigitMap[u + 1]>> ELSE Digits(u \div b, b) \o <<DigitMap[(u % b) + 1]>>

(* The sign digit of the complement notation: radix-1.                   *)
SignDigit(b) == DigitMap[b]

(* Drop the leading run of character c.                                  *)
RECURSIVE DropLead(_, _)
DropLead(s, c) == IF s # <<>> /\ Head(s) = c THEN DropLead(Tail(s), c) ELSE s

(* mrb_uint_to_cstr (sprintf.c:48-77) with remove_sign_bits (22-46).     *)
(* A negative num is printed as the 64-bit unsigned (uint64_t)num; above *)
(* the digits of base^k + num (k one more than num needs) every digit of  *)
(* the 64-bit word is the sign digit, and remove_sign_bits drops that    *)
(* whole run (for base 8 after EXTENDSIGN turns the top digit '1' into   *)
(* '7').  So the result is the k digits of base^k + num without their    *)
(* leading sign digits; it is empty for -1.                              *)
UintToCstr(num, b) ==
  IF num >= 0 THEN Digits(num, b)
  ELSE LET k == CHOOSE j \in 1..64 : Pow(b, j - 1) >= -num /\ (j = 1 \/ Pow(b, j - 2) < -num)
       IN  DropLead(Digits(Pow(b, k) + num, b), SignDigit(b))

(* Mutant: the '-' mrb_int_to_cstr writes is not skipped.                *)
IntToCstrKeepMinus(n) == IF n < 0 THEN <<"-">> \o Digits(-n, 10) ELSE Digits(n, 10)

(* mrb_int_to_cstr, then s++ past its '-': the decimal digits of |n|.     *)
IntToCstrAbs(n) == Digits(IF n < 0 THEN -n ELSE n, 10)

Base(c) ==
  CASE c = "o" -> 8 [] c \in {"x", "X"} -> 16 [] c \in {"b", "B"} -> 2 [] OTHER -> 10

PrefixOf(c) ==
  CASE c = "o" -> <<"0">> [] c = "x" -> <<"0","x">> [] c = "X" -> <<"0","X">>
    [] c = "b" -> <<"0","b">> [] c = "B" -> <<"0","B">> [] OTHER -> <<>>

(* The sign character: only %d %i %u have one.                            *)
SignChar(c, fl, n) ==
  IF c \notin {"d", "i", "u"} THEN <<>>
  ELSE IF n < 0 THEN <<"-">>
  ELSE IF "FPLUS" \in fl THEN <<"+">>
  ELSE IF "FSPACE" \in fl THEN <<" ">> ELSE <<>>

(* Mutant: %X left in lower case.                                          *)
UpcaseNever(c, t) == t

(* %X: toupper over the digits.                                           *)
Upcase(c, t) ==
  IF c = "X" THEN [i \in DOMAIN t |-> IF t[i] \in DOMAIN UpperOf THEN UpperOf[t[i]] ELSE t[i]]
  ELSE t

(* Mutant: the spaces are put in front even for '-'.                      *)
LeadSpacesAlways(fl, w) == IF w > 0 THEN w ELSE 0

(* The leading FILL(' ') of a right-justified field.                      *)
LeadSpaces(fl, w) == IF "FMINUS" \notin fl /\ w > 0 THEN w ELSE 0

(* Mutant: one zero short of the precision.                               *)
ZeroFillShort(fl, p, len, n, fc) ==
  IF p <= len + 1 THEN <<>>
  ELSE IF fl \cap {"FMINUS", "FPREC"} # {"FMINUS"} THEN Fill("0", p - len)
  ELSE IF n < 0 THEN Fill(fc, p - len) ELSE <<>>

(* The digits that bring the number up to the precision: '0' unless the  *)
(* field is left-justified without a precision.                          *)
ZeroFill(fl, p, len, n, fc) ==
  IF p <= len THEN <<>>
  ELSE IF fl \cap {"FMINUS", "FPREC"} # {"FMINUS"} THEN Fill("0", p - len)
  ELSE IF n < 0 THEN Fill(fc, p - len) ELSE <<>>

(* The %d .. %B branch of mrb_str_format for an integer n: the text it   *)
(* pushes.  Each LET step is one statement group of the C code, in order. *)
FmtInt(c, fl, width0, prec0, n) ==
  LET base    == Base(c)
      prefix0 == IF "FSHARP" \in fl THEN PrefixOf(c) ELSE <<>>
      sc      == SignChar(c, fl, n)
      width1  == width0 - Len(sc)
      dots    == c \notin {"d", "i", "u"} /\ n < 0
      s0      == IF c \in {"d", "i", "u"} THEN IntToCstrAbs(n) ELSE UintToCstr(n, base)
      fc0     == IF base = 10 THEN "" ELSE SignDigit(base)
      \* if (dots) { skip an octal '1' or '3'; skip sign digits }
      s1      == IF dots /\ base = 8 /\ s0 # <<>> /\ Head(s0) \in {"1", "3"} THEN Tail(s0) ELSE s0
      s       == Upcase(c, IF dots THEN DropLead(s1, fc0) ELSE s1)
      fc      == IF c = "X" THEN "F" ELSE fc0
      isZero  == Len(s) = 1 /\ s[1] = "0"
      \* the octal prefix and the zero special cases
      octal   == prefix0 = <<"0">>
      prefix  == IF octal
                 THEN IF dots \/ (~isZero /\ "FPREC" \in fl /\ prec0 > Len(s)) THEN <<>>
                      ELSE prefix0
                 ELSE IF isZero THEN <<>> ELSE prefix0
      len1    == IF octal /\ ~dots /\ isZero THEN 0 ELSE Len(s)
      prec1   == IF octal /\ ~dots /\ isZero /\ "FPREC" \in fl THEN prec0 - 1 ELSE prec0
      width2  == width1 - Len(prefix)
      \* '0' without '-' and precision: the zeros fill the width
      zeroPad == fl \cap {"FZERO", "FMINUS", "FPREC"} = {"FZERO"}
      len     == IF ~zeroPad /\ prec1 < len1 /\ prefix = <<>> /\ prec1 = 0 /\ len1 = 1
                    /\ s[1] = "0" THEN 0 ELSE len1
      prec2   == IF zeroPad THEN width2 ELSE IF prec1 < len1 THEN len ELSE prec1
      width3  == IF zeroPad THEN 0 ELSE width2 - prec2
      lead    == LeadSpaces(fl, width3)
      \* ".." and one sign digit unless the digits already start with it
      extra   == dots /\ (s = <<>> \/ s[1] # fc)
      dotsTxt == IF ~dots THEN <<>> ELSE <<".", ".">> \o (IF extra THEN <<fc>> ELSE <<>>)
      taken   == IF ~dots THEN 0 ELSE 2 + (IF extra THEN 1 ELSE 0)
  IN  Fill(" ", lead) \o sc \o prefix \o dotsTxt
        \o ZeroFill(fl, prec2 - taken, len, n, fc) \o SubSeq(s, 1, len)
        \o Fill(" ", width3 - lead - taken)

(* The ASCII order the code's character comparisons use.                 *)
Ord(c) == CASE c = " " -> 32 [] c = "+" -> 43 [] c = "-" -> 45 [] c = "." -> 46
             [] c = "0" -> 48 [] c = "1" -> 49 [] c = "2" -> 50 [] c = "5" -> 53
             [] c = "9" -> 57 [] c = "e" -> 101 [] OTHER -> 0

(* fmt_float's sign character: '+' for FPLUS, then ' ' for FSPACE.       *)
SignArg(fl) ==
  IF "FSPACE" \in fl THEN <<" ">> ELSE IF "FPLUS" \in fl THEN <<"+">> ELSE <<>>

(* What mrb_format_float writes for a finite number.                     *)
FormatFloatText(isneg, fl, b) == (IF isneg THEN <<"-">> ELSE SignArg(fl)) \o b

(* fmt_float: the characters it leaves at the start of its buffer and   *)
(* the count n it returns; mrb_str_format keeps the first n of them.     *)
(* When it skips the sign for zero padding, buf, width and len move one *)
(* place, and the count is taken from the moved buf.                     *)
FmtFloat(fl, width0, text) ==
  LET zero0 == "FZERO" \in fl
      skip  == Len(text) >= 2 /\ Ord(text[1]) < Ord("0") /\ Ord(text[2]) <= Ord("9") /\ zero0
      off   == IF skip THEN 1 ELSE 0
      b     == SubSeq(text, 1 + off, Len(text))
      width == width0 - off
      len   == Len(text) - off
      zero  == zero0 /\ ~(Ord(b[1]) < Ord("0") \/ Ord(b[1]) >= Ord("9"))
      kept  == SubSeq(text, 1, off)
  IN  IF len >= width THEN [n |-> len, buf |-> text]
      ELSE IF "FMINUS" \in fl THEN [n |-> width, buf |-> text \o Fill(" ", width - len)]
      ELSE [n |-> width, buf |-> kept \o Fill(IF zero THEN "0" ELSE " ", width - len) \o b]

(* The pushed text of a finite float: blen += n.                         *)
FiniteText(fl, width0, text) ==
  LET r == FmtFloat(fl, width0, text) IN SubSeq(r.buf, 1, r.n)

(* Mutant: the left-justified sign is written without need--, so the     *)
(* expression overwrites it.                                              *)
NonFiniteTextNoDec(k, isneg, fl, width0) ==
  LET expr == IF k = "nan" THEN <<"N","a","N">> ELSE <<"I","n","f">>
      sign == IF k = "inf" /\ isneg THEN <<"-">>
              ELSE IF "FPLUS" \in fl THEN <<"+">>
              ELSE IF "FSPACE" \in fl THEN <<" ">> ELSE <<>>
      need0 == 3 + Len(sign)
      need  == IF "FWIDTH" \in fl /\ need0 < width0 THEN width0 ELSE need0
  IN  IF "FMINUS" \in fl /\ sign # <<>> THEN expr \o Fill(" ", need - 3)
      ELSE IF "FMINUS" \in fl THEN expr \o Fill(" ", need - need0)
      ELSE Fill(" ", need - need0) \o sign \o expr

(* The non-finite branch: "NaN" or "Inf", a sign ('-' for -Inf, else     *)
(* from '+' or ' '), right- or left-justified in a field of spaces.     *)
NonFiniteText(k, isneg, fl, width0) ==
  LET expr == IF k = "nan" THEN <<"N","a","N">> ELSE <<"I","n","f">>
      sign == IF k = "inf" /\ isneg THEN <<"-">>
              ELSE IF fl \cap {"FPLUS", "FSPACE"} # {}
                   THEN IF "FPLUS" \in fl THEN <<"+">> ELSE <<" ">>
              ELSE <<>>
      need0 == 3 + Len(sign)
      need  == IF "FWIDTH" \in fl /\ need0 < width0 THEN width0 ELSE need0
  IN  IF "FMINUS" \in fl THEN sign \o expr \o Fill(" ", need - need0)
      ELSE Fill(" ", need - need0) \o sign \o expr

(* String#inspect of a string without special characters (string.c,    *)
(* outside the sources).                                                  *)
Inspect(str) == <<"\"">> \o str \o <<"\"">>

(* Mutant: the padding is counted from the whole string, not the cut.    *)
FmtStrUncut(fl, width, prec, str) ==
  LET t == IF "FPREC" \in fl /\ prec < Len(str) THEN SubSeq(str, 1, prec) ELSE str
  IN  IF "FWIDTH" \in fl /\ width > Len(str)
      THEN IF "FMINUS" \in fl THEN t \o Fill(" ", width - Len(str))
           ELSE Fill(" ", width - Len(str)) \o t
      ELSE t

(* case 's' / 'p' after mrb_obj_as_string: with a precision below slen  *)
(* only prec bytes are kept; a width above the kept length is filled    *)
(* with spaces before or, for '-', after them.                           *)
FmtStr(fl, width, prec, str) ==
  LET slen == IF "FPREC" \in fl /\ prec < Len(str) THEN prec ELSE Len(str)
      t    == SubSeq(str, 1, slen)
  IN  IF "FWIDTH" \in fl /\ width > slen
      THEN IF "FMINUS" \in fl THEN t \o Fill(" ", width - slen)
           ELSE Fill(" ", width - slen) \o t
      ELSE t

(* Integer#chr with no encoding (string-ext, outside the sources): the   *)
(* byte k, or RangeError outside 0..255.                                  *)
IntChr(k) == IF k < 0 \/ k > 255 THEN [err |-> "RangeError"] ELSE [err |-> "none", t |-> <<CodeChar[k]>>]

(* case 'c' up to tmp: a String must be one byte long; an Integer below *)
(* 0x80, or any Integer without MRB_UTF8_STRING, is the byte (char)n;    *)
(* with it (u8), a larger one goes through chr.                         *)
CharArg(a, u8) ==
  CASE a.kind = "str" -> IF Len(a.s) # 1 THEN [err |-> "ArgumentError"]
                         ELSE [err |-> "none", t |-> a.s]
    [] a.kind = "int" -> IF ~u8 \/ a.n < 128
                         THEN [err |-> "none", t |-> <<CodeChar[a.n % 256]>>]
                         ELSE IntChr(a.n)
    [] OTHER          -> [err |-> "ArgumentError"]

(* case 'c' after tmp: no width, or width - 1 spaces after ('-') or      *)
(* before the character.                                                  *)
FmtChar(fl, width, t) ==
  LET pad == Fill(" ", IF width > 0 THEN width - 1 ELSE 0) IN
  IF "FWIDTH" \notin fl THEN t
  ELSE IF "FMINUS" \in fl THEN t \o pad ELSE pad \o t

(* One directive %[flags][width][.prec]conv applied to arg: the scanner  *)
(* has collected the flags (FWIDTH and FPREC are set exactly when a      *)
(* width or a precision was given); the conversion pushes its text.      *)
Init ==
  /\ dconv \in Convs /\ dwidth \in Widths /\ dprec \in Precs
  /\ arg \in CASE dconv = "f" -> Floats [] dconv \in {"s", "p"} -> Strs
               [] dconv = "c" -> CArgs [] OTHER -> Ints
  /\ \E fl \in SUBSET FlagNames :
       dflags = fl \cup (IF dwidth >= 0 THEN {"FWIDTH"} ELSE {})
                  \cup (IF dprec >= 0 THEN {"FPREC"} ELSE {})
  /\ out = <<>> /\ err = "none"
  /\ utf8 \in IF dconv \in TextConvs THEN BOOLEAN ELSE {FALSE}
  /\ done = FALSE

(* case 'd' .. case 'u': the integer branch.                              *)
FormatInt ==
  /\ ~done /\ dconv \in IntConvs
  /\ out' = FmtInt(dconv, dflags, dwidth, dprec, arg)
  /\ done' = TRUE
  /\ UNCHANGED <<dconv, dflags, dwidth, dprec, arg, err, utf8>>

(* case 'f' .. case 'E' for a finite value: fmt_float, then blen += n.    *)
FormatFinite ==
  /\ ~done /\ dconv = "f" /\ arg.kind = "finite"
  /\ out' = FiniteText(dflags, dwidth, FormatFloatText(arg.neg, dflags, arg.body))
  /\ done' = TRUE
  /\ UNCHANGED <<dconv, dflags, dwidth, dprec, arg, err, utf8>>

(* case 'f' .. case 'E' for NaN and Inf.                                  *)
FormatNonFinite ==
  /\ ~done /\ dconv = "f" /\ arg.kind # "finite"
  /\ out' = NonFiniteText(arg.kind, arg.neg, dflags, dwidth)
  /\ done' = TRUE
  /\ UNCHANGED <<dconv, dflags, dwidth, dprec, arg, err, utf8>>

(* case 's', case 'p': p's argument is inspected first.                  *)
FormatStr ==
  /\ ~done /\ dconv \in {"s", "p"}
  /\ out' = FmtStr(dflags, dwidth, dprec, IF dconv = "p" THEN Inspect(arg) ELSE arg)
  /\ done' = TRUE
  /\ UNCHANGED <<dconv, dflags, dwidth, dprec, arg, err, utf8>>

(* case 'c': an argument that gives no character raises, and nothing is *)
(* pushed.  utf8 is the build's MRB_UTF8_STRING.                          *)
FormatChar ==
  /\ ~done /\ dconv = "c"
  /\ LET r == CharArg(arg, utf8) IN
     IF r.err # "none" THEN err' = r.err /\ out' = out
     ELSE err' = "none" /\ out' = FmtChar(dflags, dwidth, r.t)
  /\ done' = TRUE
  /\ UNCHANGED <<dconv, dflags, dwidth, dprec, arg, utf8>>

Next == FormatInt \/ FormatFinite \/ FormatNonFinite \/ FormatStr \/ FormatChar

Spec == Init /\ [][Next]_vars

-----------------------------------------------------------------------------
(* Reading the text back.                                                 *)

DigitVal(c) == CHOOSE d \in 0..15 : DigitMap[d + 1] = c \/ (d >= 10 /\ UpperOf[DigitMap[d + 1]] = c)
IsDigit(c, b) == \E d \in 0..b - 1 : DigitMap[d + 1] = c \/ (d >= 10 /\ UpperOf[DigitMap[d + 1]] = c)

Num(w, b) == FoldLeft(LAMBDA acc, c : acc * b + DigitVal(c), 0, w)

RECURSIVE DropTrail(_, _)
DropTrail(t, c) == IF t # <<>> /\ Last(t) = c THEN DropTrail(Front(t), c) ELSE t
Trim(t) == DropTrail(DropLead(t, " "), " ")

(* The number a text shows in base b: an optional sign, the 0x/0b       *)
(* prefix, then digits; NONE when it is not of that form.                *)
Shown(t, b) ==
  LET u  == Trim(t)
      neg == u # <<>> /\ Head(u) = "-"
      u1 == IF u # <<>> /\ Head(u) \in {"+", "-"} THEN Tail(u) ELSE u
      u2 == IF b # 10 /\ b # 8 /\ Len(u1) >= 2 /\ u1[1] = "0" /\ u1[2] \in {"x", "X", "b", "B"}
            THEN SubSeq(u1, 3, Len(u1)) ELSE u1
  IN  IF \A i \in DOMAIN u2 : IsDigit(u2[i], b)
      THEN [ok |-> TRUE, val |-> IF neg THEN -Num(u2, b) ELSE Num(u2, b), digits |-> Len(u2)]
      ELSE [ok |-> FALSE]

IsDots == dconv \in IntConvs /\ Base(dconv) # 10 /\ arg < 0

(* The characters conversion c can print: signs, padding, "..", its      *)
(* base's digits in its case, and its prefix.                             *)
CharsOf(c) ==
  IF c \in TextConvs THEN {" ", "\""} \cup Range(CodeChar) \cup UNION {Range(t) : t \in Strs}
  ELSE IF c = "f" THEN {" ", "+", "-", "."} \cup {"0", "1", "2", "5", "9", "N", "a", "I", "n", "f"}
  ELSE {" ", "+", "-", "."} \cup Range(PrefixOf(c))
         \cup {Upcase(c, <<DigitMap[d + 1]>>)[1] : d \in 0..Base(c) - 1}

TypeOK ==
  /\ out \in Seq(CharsOf(dconv))
  /\ err \in {"none", "ArgumentError", "RangeError"}
  /\ utf8 \in BOOLEAN
  /\ done \in BOOLEAN

(* Every conversion that is not in the ".." complement notation prints   *)
(* a number that reads back as the argument, whatever the flags, width,   *)
(* and precision (sign handling, prefix and zero-fill of mrb_str_format). *)
ReadsBack ==
  done /\ dconv \in IntConvs /\ ~IsDots => Shown(out, Base(dconv)).ok /\ Shown(out, Base(dconv)).val = arg

(* The field of every conversion is at least width characters long (doc: "the width        *)
(* specifies the minimum number of characters that will be written").   *)
FieldWidth ==
  done /\ err = "none" /\ "FWIDTH" \in dflags => Len(out) >= dwidth

(* Padding spaces of an integer go on the right when '-' is given and on the left      *)
(* otherwise, and no space falls between the characters of the number   *)
(* (the ' ' flag's sign is the one space that may lead a left-justified  *)
(* field).                                                                *)
PaddingPlacement ==
  done /\ dconv \in IntConvs =>
    /\ \A i, j \in DOMAIN out : i < j /\ out[i] # " " /\ out[j] # " " =>
          \A k \in i..j : out[k] # " "
    /\ "FMINUS" \notin dflags => \A i, j \in DOMAIN out : i < j /\ out[i] # " " => out[j] # " "
    /\ "FMINUS" \in dflags => \A i, j \in DOMAIN out :
          i < j /\ out[j] # " " => out[i] # " " \/ (i = 1 /\ "FSPACE" \in dflags)

(* The precision is the minimum number of digits printed (the octal '#'  *)
(* prefix "0" counts, the 0x/0b prefixes do not).                        *)
PrecisionDigits ==
  done /\ dconv \in IntConvs /\ ~IsDots /\ "FPREC" \in dflags =>
    Shown(out, Base(dconv)).ok /\ Shown(out, Base(dconv)).digits >= dprec

(* w, the digits after "..", stands for the number whose base-b digits   *)
(* are w preceded by infinitely many copies of its first digit, which    *)
(* must be the sign digit: Num(w) - b^Len(w).  Leading sign digits do not *)
(* change the value; once |x| < b^(MaxDen(b)-1) a longer rest cannot    *)
(* denote x, which keeps the arithmetic within TLC's integers.            *)
MaxDen(b) == CASE b = 16 -> 7 [] b = 8 -> 9 [] OTHER -> 26
Denotes(w, b, x) ==
  /\ w # <<>> /\ \A i \in DOMAIN w : IsDigit(w[i], b)
  /\ DigitVal(Head(w)) = b - 1
  /\ LET u == DropLead(SelectSeq(w, LAMBDA c : TRUE), Head(w)) IN
       Len(u) <= MaxDen(b) /\ Num(u, b) - Pow(b, Len(u)) = x

(* A negative number in base 8, 16 or 2 without '+' or ' ' is printed as *)
(* ".." and digits that denote it in the unbounded complement notation   *)
(* (doc: "..f85" for %x of -123), with any '#' prefix before it and     *)
(* whatever width, precision and '0' flag pad it to.                      *)
DotsDenoteValue ==
  done /\ IsDots /\ dflags \cap {"FPLUS", "FSPACE"} = {} =>
    LET t == Trim(out)
        k == {i \in 1..Len(t) - 1 : t[i] = "." /\ t[i + 1] = "."}
    IN  k # {} /\ Denotes(SubSeq(t, Min(k) + 2, Len(t)), Base(dconv), arg)

(* With the '+' flag every integer conversion prints a sign: '+' before  *)
(* a non-negative number, '-' before the absolute value of a negative   *)
(* one (doc: "%+x" of -123 is "-7b", "%+o" of -123 is "-173").          *)
SignFlagHonoured ==
  done /\ dconv \in IntConvs /\ "FPLUS" \in dflags =>
    /\ Trim(out) # <<>>
    /\ Head(Trim(out)) = IF arg >= 0 THEN "+" ELSE "-"
    /\ Shown(out, Base(dconv)).ok /\ Shown(out, Base(dconv)).val = arg

-----------------------------------------------------------------------------
(* Reading a float back.  What Ruby's format promises: the sign, then    *)
(* the digits or NaN/Inf, justified in the field.                        *)
FloatExpected ==
  IF arg.kind = "finite" THEN FormatFloatText(arg.neg, dflags, arg.body)
  ELSE (IF arg.kind = "inf" /\ arg.neg THEN <<"-">>
        ELSE IF "FPLUS" \in dflags THEN <<"+">>
        ELSE IF "FSPACE" \in dflags THEN <<" ">> ELSE <<>>)
       \o (IF arg.kind = "nan" THEN <<"N","a","N">> ELSE <<"I","n","f">>)

(* t in a field of w, padded with spaces on the right for '-', else on   *)
(* the left.                                                              *)
Justify(t, w, left) ==
  LET pad == Fill(" ", IF w > Len(t) THEN w - Len(t) ELSE 0)
  IN  IF left THEN t \o pad ELSE pad \o t

(* A float without the 0 flag, and NaN or Inf with any flags, is printed *)
(* as its sign and its digits or NaN/Inf, space-padded to the width on   *)
(* the side '-' selects (fmt_float's count and padding, the FILL/memcpy   *)
(* placement of the non-finite branch).                                  *)
FloatJustified ==
  done /\ dconv = "f" /\ ~(arg.kind = "finite" /\ "FZERO" \in dflags)
    => out = Justify(FloatExpected, dwidth, "FMINUS" \in dflags)

(* With the 0 flag and no '-', a finite float is its sign, then as many  *)
(* '0's as the width asks for, then all its digits (fmt_float's sign     *)
(* skip and zero_pad).                                                    *)
FloatZeroPadded ==
  done /\ dconv = "f" /\ arg.kind = "finite" /\ "FZERO" \in dflags /\ "FMINUS" \notin dflags
    => LET sl == Len(FloatExpected) - Len(arg.body)
       IN  out = SubSeq(FloatExpected, 1, sl)
                   \o Fill("0", dwidth - Len(FloatExpected)) \o arg.body

(* The text %s, %p or %c prints: the string (inspected for %p) cut to   *)
(* the precision, or the character; for %c the one of an Integer's code *)
(* modulo 256.                                                            *)
TextOf ==
  CASE dconv = "s" -> IF dprec >= 0 THEN SubSeq(arg, 1, Min({dprec, Len(arg)})) ELSE arg
    [] dconv = "p" -> LET t == Inspect(arg) IN
                      IF dprec >= 0 THEN SubSeq(t, 1, Min({dprec, Len(t)})) ELSE t
    [] OTHER       -> IF arg.kind = "str" THEN arg.s ELSE <<CodeChar[arg.n % 256]>>

(* A text conversion that raises nothing prints its text justified in    *)
(* the field: the width counts only what is printed after the cut, and  *)
(* the spaces go on the side '-' selects (the slen bookkeeping of case   *)
(* 's' and the width - 1 fill of case 'c').                              *)
TextJustified ==
  done /\ dconv \in TextConvs /\ err = "none"
    => out = Justify(TextOf, dwidth, "FMINUS" \in dflags)

(* The characters of a byte string: with MRB_UTF8_STRING a continuation *)
(* byte is part of the character before it.                              *)
CharCount(t) == IF utf8 THEN Len(SelectSeq(t, LAMBDA b : b \notin ContBytes)) ELSE Len(t)

(* The longest prefix of t that ends on a character boundary and has at  *)
(* most n characters.                                                     *)
FirstChars(t, n) ==
  LET ends == {j \in 0..Len(t) : /\ CharCount(SubSeq(t, 1, j)) <= n
                                /\ (j = Len(t) \/ ~utf8 \/ t[j + 1] \notin ContBytes)}
  IN  SubSeq(t, 1, Max(ends))

(* sprintf's documentation of %s and %c (sprintf.c:913-920, 1043-1047):  *)
(* the precision of %s is the most characters copied, so %10.10s is     *)
(* always ten characters; the width is a number of characters; %c takes *)
(* a single-character string.                                            *)
TextAsDocumented ==
  done /\ dconv \in {"s", "c"}
  /\ (dconv = "c" => arg.kind = "str" /\ CharCount(arg.s) = 1)
    => LET t   == IF dconv = "c" THEN arg.s
                  ELSE IF dprec >= 0 THEN FirstChars(arg, dprec) ELSE arg
           pad == Fill(" ", dwidth - CharCount(t))
       IN  /\ err = "none"
           /\ out = IF "FMINUS" \in dflags THEN t \o pad ELSE pad \o t

(* What sprintf's documentation promises of one conversion, together:    *)
(* the '+' flag's sign, the "..f" text of a negative number, the field   *)
(* width, the zero padding of a float, and the characters of %s and %c.  Each conjunct is stated and  *)
(* commented above.                                                       *)
ConvAsDocumented ==
  /\ SignFlagHonoured
  /\ DotsDenoteValue
  /\ FieldWidth
  /\ FloatZeroPadded
  /\ TextAsDocumented
=============================================================================
