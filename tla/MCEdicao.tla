------------------------------ MODULE MCEdicao ------------------------------
(* Model checking of Edicao: model values for tipos and cars, bounds in    *)
(* the configurations.                                                     *)
EXTENDS Edicao, TLC

Simetria == Permutations(Tipos) \cup Permutations(Objetos)
=============================================================================
