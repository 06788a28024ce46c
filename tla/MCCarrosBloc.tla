---------------------------- MODULE MCCarrosBloc ----------------------------
(* Model checking of CarrosBloc: model values for the tipos, bounds in the *)
(* configurations.                                                         *)
EXTENDS CarrosBloc, TLC

Simetria == Permutations(Tipos)
=============================================================================
