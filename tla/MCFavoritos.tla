---------------------------- MODULE MCFavoritos -----------------------------
(* Model checking of Favoritos; cars are symmetric model values.           *)
EXTENDS Favoritos, TLC

Simetria == Permutations(Carros)
=============================================================================
