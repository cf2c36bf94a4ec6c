---------------------------- MODULE MC_SprintfScan ----------------------------
(***************************************************************************)
(* Every format of up to four pieces: each piece a character the switch  *)
(* of mrb_str_format treats differently, or a name reference, closed or  *)
(* not.  Argument lists for each mode and each '*' outcome.               *)
(***************************************************************************)
EXTENDS SprintfScan

MCNUL  == "NUL"
MCNONE == "NONE"

MCPieces == {<<"%">>, <<"d">>, <<"%", "d">>, <<"1", "$">>, <<"1">>, <<"$">>, <<"*">>, <<"-">>, <<".">>,
             <<"<", "a", ">">>, <<"<", "a">>, <<"{", "a", "}">>, <<"x">>}
MCMaxPieces == 4

MCFmts ==
  { FoldLeft(LAMBDA a, t : a \o t, <<>>, s) :
      s \in UNION {[1..k -> MCPieces] : k \in 0..MCMaxPieces} }

(* I3 and In2 are small Integers, I40000 one beyond int16, Big one whose *)
(* low 32 bits are 3 (2**32 + 3), S a String, H the Hash {a: 3}.         *)
MCIntVal == [v \in {"I3", "In2", "I40000", "Big"} |->
               CASE v = "I3" -> 3 [] v = "In2" -> -2 [] v = "I40000" -> 40000 [] v = "Big" -> 3]
MCHashes == [h \in {"H"} |-> <<"a">> :> "I3"]
MCArgLists == {<<>>, <<"H">>, <<"In2", "I3">>, <<"I40000", "S">>, <<"Big">>}
=============================================================================
