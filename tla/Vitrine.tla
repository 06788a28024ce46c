------------------------------ MODULE Vitrine ------------------------------
(***************************************************************************)
(* What the pages of the list of cars promise, whatever happens inside     *)
(* their fetches: a page asks as often as it likes, and each time it owes  *)
(* a list at least as new as the server's was when it asked.  What a page  *)
(* shows is always such a list, or one of the two ways of giving up; the   *)
(* first spinner stays only as long as something is owed, and what was     *)
(* asked by a page that is closed is owed to nobody.                       *)
(*                                                                         *)
(* Nothing here tells in which order the debts are paid.                   *)
(***************************************************************************)
EXTENDS Integers

CONSTANTS Tipos,       \* one page for each
          MaxVersao    \* bound: changes of each list on the server

VARIABLES servidor,    \* version of each list on the server
          aberta,      \* whether the page of a tipo is open
          mostra,      \* what it shows
          versao,      \* the version of the last list it showed
          devidas      \* the versions of the server's list when it asked

vars == <<servidor, aberta, mostra, versao, devidas>>

Init == /\ servidor = [t \in Tipos |-> 0]
        /\ aberta = [t \in Tipos |-> FALSE]
        /\ mostra = [t \in Tipos |-> "espera"]
        /\ versao = [t \in Tipos |-> 0]
        /\ devidas = [t \in Tipos |-> {}]

Muda(t) == /\ servidor[t] < MaxVersao
           /\ servidor' = [servidor EXCEPT ![t] = @ + 1]
           /\ UNCHANGED <<aberta, mostra, versao, devidas>>

Abre(t) == /\ ~aberta[t]
           /\ aberta' = [aberta EXCEPT ![t] = TRUE]
           /\ devidas' = [devidas EXCEPT ![t] = {servidor[t]}]
           /\ UNCHANGED <<servidor, mostra, versao>>

Pede(t) == /\ aberta[t]
           /\ devidas' = [devidas EXCEPT ![t] = @ \cup {servidor[t]}]
           /\ UNCHANGED <<servidor, aberta, mostra, versao>>

(* Another demand made at the same version may still be open.              *)
Paga(t, n) == /\ n \in devidas[t]
              /\ \/ UNCHANGED devidas
                 \/ devidas' = [devidas EXCEPT ![t] = @ \ {n}]
              /\ UNCHANGED <<servidor, aberta>>

MostraLista(t, n) == /\ Paga(t, n)
                     /\ mostra' = [mostra EXCEPT ![t] = "lista"]
                     /\ \E v \in n .. servidor[t] : versao' = [versao EXCEPT ![t] = v]

Desiste(t, n) == /\ Paga(t, n)
                 /\ \E tela \in {"erro", "vazia"} : mostra' = [mostra EXCEPT ![t] = tela]
                 /\ UNCHANGED versao

Fecha == /\ aberta' = [t \in Tipos |-> FALSE]
         /\ mostra' = [t \in Tipos |-> "espera"]
         /\ versao' = [t \in Tipos |-> 0]
         /\ devidas' = [t \in Tipos |-> {}]
         /\ UNCHANGED servidor

Next == \/ \E t \in Tipos : \/ Muda(t) \/ Abre(t) \/ Pede(t)
                            \/ \E n \in devidas[t] : MostraLista(t, n) \/ Desiste(t, n)
        \/ Fecha

Spec == Init /\ [][Next]_vars
=============================================================================
