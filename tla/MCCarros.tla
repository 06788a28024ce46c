------------------------------ MODULE MCCarros ------------------------------
(* Model checking of Carros: model values for tipos and cars, bounds in    *)
(* the configurations.                                                     *)
EXTENDS Carros, TLC

Simetria == Permutations(Tipos)

(* Only saves of a car of the list, which overtake each other: no new      *)
(* cars, no deletes, and no way round by the sheet.                        *)
SoEdicoes == /\ \A o \in ops : o.acao = "salva"
             /\ ~E!NoTopo("folha")
             /\ E!NoTopo("form") => E!Topo.carro # Nulo

SpecDasEdicoes == Init /\ [][Next /\ SoEdicoes']_vars

LiveSpecDasEdicoes == SpecDasEdicoes /\ \A i \in B!Ids : Justica(i)
=============================================================================
