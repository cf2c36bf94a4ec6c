------------------------------ MODULE MC_ProcParameters ------------------------------
(***************************************************************************)
(* Every parameter list with up to two required parameters, one optional,*)
(* a *rest, one post-required (after a rest or an optional), **opts,      *)
(* &block and up to two keywords, each required or with a default, each  *)
(* named after its kind, and a body                                      *)
(* with or without a local variable x.                                   *)
(***************************************************************************)
EXTENDS ProcParameters

MCShapes ==
  {sh \in [m1 : {<<>>, <<"a">>, <<"a", "b">>}, opt : {<<>>, <<"o">>},
           rest : {<<>>, <<"r">>}, m2 : {<<>>, <<"p">>}, kwrest : {<<>>, <<"kr">>},
           blk : {<<>>, <<"bk">>}, keys : {<<>>, <<"k1">>, <<"k1", "k2">>},
           keyreq : SUBSET {"k1", "k2"}, locals : {<<>>, <<"x">>}] :
     /\ sh.m2 # <<>> => sh.rest # <<>> \/ sh.opt # <<>>
     /\ \A k \in sh.keyreq : \E j \in DOMAIN sh.keys : sh.keys[j] = k}
==========================================================================================
