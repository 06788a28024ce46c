------------------------------ MODULE Registro ------------------------------
(***************************************************************************)
(* What a key of Prefs promises to those who store in it: the value read   *)
(* is the last one written, and a crash leaves it, or one of the values    *)
(* written since the last one known to be safe.  A value that was replaced *)
(* before the safe one never comes back.                                   *)
(***************************************************************************)
CONSTANT Valores

VARIABLES valor,       \* what a read returns
          possiveis    \* what a read may return after a crash

vars == <<valor, possiveis>>

Init == /\ valor \in Valores
        /\ possiveis = {valor}

Escreve == \E v \in Valores : /\ valor' = v
                              /\ possiveis' = possiveis \cup {v}

(* Some of the older values are out of the way for good.                   *)
Assenta == /\ possiveis' \in SUBSET possiveis
           /\ valor \in possiveis'
           /\ UNCHANGED valor

Queda == /\ valor' \in possiveis
         /\ possiveis' = {valor'}

Next == Escreve \/ Assenta \/ Queda

Spec == Init /\ [][Next]_vars
=============================================================================
