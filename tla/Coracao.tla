------------------------------ MODULE Coracao -------------------------------
(***************************************************************************)
(* What the heart of a CarroPage promises: one favourite of the user, put  *)
(* in or taken out by each tap in one step, and a heart that is repainted  *)
(* by the taps of its own page only, as the favourite then is.  Others may *)
(* change the favourite at any time without the heart knowing: handlers    *)
(* the page left behind when it closed, other devices, refusals of the     *)
(* server.                                                                 *)
(*                                                                         *)
(* A tap may do the wrong thing only while it is disputed, and it becomes  *)
(* disputed only by a change of the favourite.                             *)
(***************************************************************************)
CONSTANTS Carros, Nenhum

VARIABLES marcado,     \* the favourite the device sees
          pagina,      \* the car on screen
          coracao,     \* whether its heart is red
          disputa      \* a tap of the page has seen a favourite now changed

vars == <<marcado, pagina, coracao, disputa>>

Valores == Carros \cup {Nenhum}

Init == /\ marcado \in Valores
        /\ pagina = Nenhum
        /\ coracao = FALSE
        /\ disputa = FALSE

Abre == /\ pagina = Nenhum
        /\ pagina' \in Carros
        /\ UNCHANGED <<marcado, coracao, disputa>>

Fecha == /\ pagina # Nenhum
         /\ pagina' = Nenhum
         /\ coracao' = FALSE
         /\ disputa' = FALSE
         /\ UNCHANGED marcado

(* The heart turns red if the favourite is now the car, and grey if there  *)
(* is none.                                                                *)
Toque == /\ pagina # Nenhum
         /\ marcado' \in {pagina, Nenhum}
         /\ disputa \/ (marcado' = Nenhum) # (marcado = Nenhum)
         /\ coracao' = (marcado' = pagina)
         /\ disputa' \in BOOLEAN
         /\ UNCHANGED pagina

Fora == /\ marcado' \in Valores
        /\ disputa' \in BOOLEAN
        /\ disputa' => disputa \/ (marcado' = Nenhum) # (marcado = Nenhum)
        /\ UNCHANGED <<pagina, coracao>>

Next == Abre \/ Fecha \/ Toque \/ Fora

Spec == Init /\ [][Next]_vars
=============================================================================
