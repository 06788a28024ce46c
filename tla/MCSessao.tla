------------------------------ MODULE MCSessao ------------------------------
(* Model checking of Sessao; the bounds are in the configurations.         *)
EXTENDS Sessao
=============================================================================
