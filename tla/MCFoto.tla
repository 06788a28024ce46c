------------------------------- MODULE MCFoto -------------------------------
(* Model checking of Foto; cars and photos are model values, symmetric in  *)
(* the safety runs.                                                        *)
EXTENDS Foto, TLC

Simetria == Permutations(Fotos) \cup Permutations(Objetos)
=============================================================================
