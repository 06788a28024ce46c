------------------------------- MODULE Carros -------------------------------
(***************************************************************************)
(* The list of cars and the editing of its cars together: CarrosBloc and   *)
(* Edicao on one server, one Navigator and one EventBus                    *)
(* (lib/pages/carros/home_page.dart, carros_page.dart, carros_listview.dart*)
(* carro_page.dart, carro-form-page.dart, lib/utils/event_bus.dart).       *)
(*                                                                         *)
(* Each leaves something open that the other decides.  A save or a delete  *)
(* the server carries out changes a list of CarrosBloc; a CarroEvent that  *)
(* Edicao sends reaches the page of its tipo in the same step, the bus     *)
(* delivering before anything else runs; the pages of CarrosBloc are used  *)
(* while Home is on top, and disposed once Home has left the stack.  The   *)
(* cars that are opened are on a list of CarrosBloc or on the tab of the   *)
(* favorites, which needs none.                                            *)
(***************************************************************************)
EXTENDS Integers, Sequences, FiniteSets

CONSTANTS Tipos, Nulo, Nenhum, Objetos,          \* as in Edicao
          MaxPilha, MaxRotas, MaxOps,            \* bounds, as in Edicao
          MaxPedidos, MaxVersao                  \* bounds, as in CarrosBloc

VARIABLES pilha, saindo, memoria, ops, evento,                     \* of Edicao
          servidor, tabela, viva, snapshot, versao, pedidos,       \* of CarrosBloc
          pendente

E == INSTANCE Edicao
B == INSTANCE CarrosBloc

ASSUME ConstantesOK == E!ConstantesOK /\ B!ConstantesOK

daEdicao == <<pilha, saindo, memoria, ops, evento>>
daLista  == <<servidor, tabela, viva, snapshot, versao, pedidos>>
vars     == <<daEdicao, daLista, pendente>>

(***************************************************************************)
(* pendente[t]: the user was told that a save to list t succeeded when the *)
(* server's list had this version, and the page of t has neither shown it  *)
(* nor given up since (0: nothing).  Every save that is reported counts,   *)
(* second saves of one form or Carro included, but one: a Carro saved      *)
(* again with another tipo before the answer, whose event goes to the list *)
(* of that other tipo (see EventoDoTipoGravado).  No state of the code.    *)
(***************************************************************************)
Init == /\ E!Init
        /\ B!Init
        /\ pendente = [t \in Tipos |-> 0]

(* A fetch of the page of t ends in this step.                             *)
Entrega(t) == \E p \in pedidos : /\ p.tipo = t /\ p.montado
                                 /\ \A q \in pedidos' : q.id # p.id

(* What is left of a promise n after the step.                             *)
Resta(t, n) == IF \/ ~viva'[t] \/ versao'[t] >= n
                  \/ snapshot'[t] # "lista" /\ Entrega(t)
               THEN 0 ELSE n

Cobra == pendente' = [t \in Tipos |-> Resta(t, pendente[t])]

(* Telling the user of a save to list t makes a promise.                   *)
Promete(t) ==
    pendente' = [u \in Tipos |-> Resta(u, IF u = t THEN servidor[u] ELSE pendente[u])]

(* Mutant: the page does not listen while another page covers it.          *)
EntregaEventoSeVisivel ==
    IF evento' \in Tipos /\ viva[evento'] /\ E!NoTopo("home")
    THEN B!Evento(evento')
    ELSE UNCHANGED daLista

(* Mutant: dispose forgets the subscription of the page.                   *)
EntregaEventoSempre ==
    IF evento' \in Tipos
    THEN /\ B!HaVaga /\ B!Fetch(evento', FALSE)
         /\ UNCHANGED <<servidor, tabela, viva, snapshot, versao>>
    ELSE UNCHANGED daLista

(* The page of the tipo of the event, if it is mounted, fetches again.     *)
EntregaEvento == IF evento' \in Tipos /\ viva[evento']
                 THEN B!Evento(evento')
                 ELSE UNCHANGED daLista

Toque == E!Toque /\ EntregaEvento /\ Cobra

(* A save changes the list of the tipo it carries.  The id of a delete is  *)
(* null and names no car of a list; should the server have removed one     *)
(* nevertheless, that is a step of Outro.                                  *)
Grava(o) == /\ E!Grava(o)
            /\ IF o.acao = "salva" THEN B!Muda(o.corpo) ELSE UNCHANGED daLista
            /\ Cobra

Salvou(o) == /\ E!Salvou(o)
             /\ EntregaEvento
             /\ IF o.dono # 0 /\ (o.trocado => evento' = o.corpo)
                THEN Promete(o.corpo) ELSE Cobra

Segue(o) == /\ E!Envia(o) \/ E!Deletou(o) \/ E!Recusa(o)
            /\ UNCHANGED daLista
            /\ Cobra

Descarta(d) == /\ E!Descarta(d)
               /\ UNCHANGED daLista
               /\ Cobra

(* The tabs of Home: a tab is mounted when it is first chosen, and its     *)
(* list pulled, while Home is on top.                                      *)
Aba(t) == /\ E!NoTopo("home")
          /\ B!Monta(t) \/ B!OnRefresh(t)
          /\ UNCHANGED daEdicao
          /\ Cobra

Andamento(p) == B!Andamento(p) /\ UNCHANGED daEdicao /\ Cobra

(* Somebody else changes a list.                                           *)
Outro(t) == B!Muda(t) /\ UNCHANGED daEdicao /\ Cobra

(* The transition of a Home that was popped ends.                          *)
Desmonta == /\ \A i \in E!Indices : pilha[i].pagina # "home"
            /\ B!Desmonta
            /\ UNCHANGED daEdicao
            /\ Cobra

Next == \/ Toque
        \/ \E o \in ops : Grava(o) \/ Salvou(o) \/ Segue(o)
        \/ \E d \in saindo : Descarta(d)
        \/ \E t \in Tipos : Aba(t) \/ Outro(t)
        \/ \E p \in pedidos : Andamento(p)
        \/ Desmonta

Spec == Init /\ [][Next]_vars

(* As in CarrosBloc: a plugin, a query or a connection answers or fails.   *)
AndamentoDe(i) == \E p \in pedidos : p.id = i /\ Andamento(p)

Justica(i) == WF_vars(AndamentoDe(i))

LiveSpec == Spec /\ \A i \in B!Ids : Justica(i)

-----------------------------------------------------------------------------
(* Properties.                                                             *)

(* A save the user was told of is not forgotten: until the page of its     *)
(* tipo shows it or gives up in sight of the user, a fetch that began      *)
(* after the save is in flight (carro-form-page.dart:234,                  *)
(* carros_page.dart:70-76), whatever saves, alerts, older fetches and      *)
(* closings come between.  Second saves are promised, too, but for the     *)
(* first of two whose event took the tipo of the second.                   *)
NadaEsquecido ==
    \A t \in Tipos : pendente[t] > 0 =>
        \E p \in pedidos : p.tipo = t /\ p.montado /\ p.emissao >= pendente[t]

(* A fetch can always go on in the whole, too: neither the Navigator nor   *)
(* the forms hold it up.  That holds by the shape of the guards;           *)
(* SalvoSempreAparece needs it.                                            *)
NuncaPreso == \A i \in B!Ids : B!EmVoo(i) => ENABLED <<AndamentoDe(i)>>_vars

(* In the end each save the user was told of is shown, second saves as in  *)
(* NadaEsquecido, or its page gave up or is gone.                          *)
SalvoAparece ==
    \A t \in Tipos : \A n \in 1 .. MaxVersao :
        pendente[t] = n ~> versao[t] >= n \/ pendente[t] = 0

-----------------------------------------------------------------------------
(* The inductive invariant behind NadaEsquecido.                           *)

(* What a save sends, and what its event reads, is a tipo.                 *)
TipoSalvo ==
    \A o \in ops : o.acao = "salva" => /\ E!TipoDe(o) \in Tipos
                                       /\ o.fase # "preparo" => o.corpo \in Tipos

IInv == /\ E!IInv
        /\ B!IInv
        /\ pendente \in [Tipos -> 0 .. MaxVersao]
        /\ TipoSalvo
        /\ NadaEsquecido
=============================================================================
