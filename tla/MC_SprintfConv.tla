---------------------------- MODULE MC_SprintfConv ----------------------------
EXTENDS SprintfConv

(* Values on both sides of every digit-count boundary the code tests:    *)
(* 0 and 1 (the '0' special cases), -1 (empty digits after the sign     *)
(* digits are removed), -5 and -37 (octal digits starting with 3), -11  *)
(* (binary), 123 and -123 (the doc's examples).                          *)
MCInts == {-123, -37, -11, -5, -1, 0, 1, 123}

(* Float texts whose first digit is below, and equal to, the '9' the     *)
(* code compares with, of two lengths.                                    *)
MCBodies == {<<"1", ".", "5">>, <<"9", ".", "5">>, <<"1", "2", ".", "5">>}

(* No width, zero, narrower than, between and wider than the digits, and *)
(* the doc's 20.                                                          *)
MCWidths == {-1, 0, 3, 5, 8, 20}
MCPrecs  == {-1, 0, 2, 8}

(* The empty string, one character, and three (cut by precision 2 and    *)
(* equal to width 3); "E1" "E2" is one two-byte UTF-8 character, alone  *)
(* and after "a", so that precision 2 cuts it when counted in bytes.   *)
(* %c codes: 65, the same byte from below (-191) and above (321, which   *)
(* chr refuses), and 200, a byte chr accepts.                            *)
MCStrs == {<<>>, <<"a">>, <<"a", "b", "c">>, <<"E1", "E2">>, <<"a", "E1", "E2">>}
MCContBytes == {"E2"}
MCCodes == {-191, 65, 200, 321}
MCCodeChar == (65 :> "A") @@ (200 :> "e")

(* For the runs that fix one input.                                       *)
MCNeg    == {-123, -37, -11, -5, -1}
MCSigned == {-123, 123}
=============================================================================
