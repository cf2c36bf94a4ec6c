----------------------------- MODULE MC_ArgFrame -----------------------------
EXTENDS ArgFrame

(* Long enough for a full packed frame (14 arguments) to be promoted and  *)
(* then grow by two.                                                      *)
MCMaxAry == 16
=============================================================================
