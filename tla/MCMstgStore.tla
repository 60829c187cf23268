----------------------------- MODULE MCMstgStore -----------------------------
(* Two indexes of different shapes for MstgStore.                              *)
EXTENDS MstgStore
CONSTANTS v1, v2
MCSizes == (v1 :> <<1, 2>>) @@ (v2 :> <<2>>)
=============================================================================
