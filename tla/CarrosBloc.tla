----------------------------- MODULE CarrosBloc -----------------------------
(***************************************************************************)
(* The list of cars of one tipo: the fetch of CarrosBloc, the CarrosPage   *)
(* that owns the bloc, and the EventBus subscription that reloads the page *)
(* after a save (lib/pages/carros/carros_bloc.dart, carros_page.dart,      *)
(* carros_api.dart, carro_dao.dart, lib/utils/network.dart).               *)
(*                                                                         *)
(* Several fetches of one page may be in flight at once: the one initState *)
(* starts, one per CarroEvent and the one of the pull to refresh.  Each    *)
(* awaits the connectivity plugin, then the server or the local database,  *)
(* and adds what it got to the stream of the bloc; nothing orders them.    *)
(*                                                                         *)
(* A list is abstracted to the version of the server's list it is a copy   *)
(* of, and the rows of the table "carro" to the tipo column they carry.    *)
(***************************************************************************)
EXTENDS Integers, FiniteSets

CONSTANTS Tipos,       \* the values of TipoCarro, one CarrosPage each
          Nulo,        \* the Dart null, as the tipo of a row
          MaxPedidos,  \* bound: fetches in flight at once
          MaxVersao    \* bound: changes of each list on the server

ASSUME ConstantesOK == /\ Nulo \notin Tipos
                       /\ MaxPedidos \in Nat \ {0}
                       /\ MaxVersao \in Nat

VARIABLES servidor,    \* version of each list on the server
          tabela,      \* tipo columns of the rows of the table "carro"
          viva,        \* whether the CarrosPage of a tipo is mounted
          snapshot,    \* what its StreamBuilder last received, "espera" at first
          versao,      \* newest delivery of the server's list to the page
          pedidos      \* the calls of fetch that have not finished

vars == <<servidor, tabela, viva, snapshot, versao, pedidos>>

Ids     == 1 .. MaxPedidos
Versoes == 0 .. MaxVersao
Redes   == {"wifi", "movel", "nenhuma"}

(***************************************************************************)
(* "espera" and "erro" both render as the spinner (hasData is tested       *)
(* first); "lista" is a list from the server, "vazia" and "local" are what *)
(* the database returned offline, without and with rows.                   *)
(***************************************************************************)
Telas == {"espera", "erro", "lista", "vazia", "local"}
Fases == {"rede", "banco", "http", "resposta"}

(***************************************************************************)
(* A call of fetch.  emissao is the server's version when it began and     *)
(* sobreposto tells that another call has delivered a list to the same     *)
(* page since then: the code keeps neither, only properties read them.     *)
(* puxa: the RefreshIndicator on screen waits for this call.  montado: the *)
(* page that made the call is still mounted, its stream still open.        *)
(***************************************************************************)
Pedido == [id : Ids, tipo : Tipos, fase : Fases, emissao : Versoes, v : Versoes,
           puxa : BOOLEAN, montado : BOOLEAN, sobreposto : BOOLEAN]

TypeOK == /\ servidor \in [Tipos -> Versoes]
          /\ tabela \subseteq Tipos \cup {Nulo}
          /\ viva \in [Tipos -> BOOLEAN]
          /\ snapshot \in [Tipos -> Telas]
          /\ versao \in [Tipos -> Versoes]
          /\ pedidos \subseteq Pedido

Init == /\ servidor = [t \in Tipos |-> 0]
        /\ tabela = {}
        /\ viva = [t \in Tipos |-> FALSE]
        /\ snapshot = [t \in Tipos |-> "espera"]
        /\ versao = [t \in Tipos |-> 0]
        /\ pedidos = {}

-----------------------------------------------------------------------------
(* Starting a fetch.                                                       *)

HaVaga == \E i \in Ids : \A p \in pedidos : p.id # i

IdLivre == CHOOSE i \in Ids : \A p \in pedidos : p.id # i

Fetch(t, puxa) ==
    pedidos' = pedidos \cup
        {[id |-> IdLivre, tipo |-> t, fase |-> "rede", emissao |-> servidor[t],
          v |-> 0, puxa |-> puxa, montado |-> TRUE, sobreposto |-> FALSE]}

(* initState: a new page, a new bloc, the first fetch, the subscription.   *)
Monta(t) ==
    /\ ~viva[t]
    /\ HaVaga
    /\ viva' = [viva EXCEPT ![t] = TRUE]
    /\ Fetch(t, FALSE)
    /\ UNCHANGED <<servidor, tabela, snapshot, versao>>

(* Mutant: the dispose of CarrosPage forgets the bloc, its stream stays open. *)
DesmontaSemDispose ==
    /\ \E t \in Tipos : viva[t]
    /\ viva' = [t \in Tipos |-> FALSE]
    /\ snapshot' = [t \in Tipos |-> "espera"]
    /\ versao' = [t \in Tipos |-> 0]
    /\ UNCHANGED <<servidor, tabela, pedidos>>

(* dispose of every tab: HomePage left the stack.  The streams are closed  *)
(* and the subscriptions cancelled; the calls in flight run on.            *)
Desmonta ==
    /\ \E t \in Tipos : viva[t]
    /\ viva' = [t \in Tipos |-> FALSE]
    /\ snapshot' = [t \in Tipos |-> "espera"]
    /\ versao' = [t \in Tipos |-> 0]
    /\ pedidos' = {[p EXCEPT !.montado = FALSE, !.puxa = FALSE] : p \in pedidos}
    /\ UNCHANGED <<servidor, tabela>>

(* Pull to refresh: the indicator exists only around a list, and does not  *)
(* start again before the call it waits for has finished.                  *)
OnRefresh(t) ==
    /\ viva[t]
    /\ snapshot[t] \in {"lista", "vazia", "local"}
    /\ \A p \in pedidos : p.tipo = t => ~p.puxa
    /\ HaVaga
    /\ Fetch(t, TRUE)
    /\ UNCHANGED <<servidor, tabela, viva, snapshot, versao>>

(* A CarroEvent of this tipo reaches the bus: the page fetches again if it *)
(* is mounted, the pages of other tipos ignore it.  Who sends it, and when,*)
(* is left open.                                                           *)
Evento(t) ==
    /\ viva[t]
    /\ HaVaga
    /\ Fetch(t, FALSE)
    /\ UNCHANGED <<servidor, tabela, viva, snapshot, versao>>

-----------------------------------------------------------------------------
(* Finishing one.  A call whose page is gone writes to a closed stream:    *)
(* add throws into the catch, whose addError throws again.                 *)

Encerra(p) == pedidos' = pedidos \ {p}

(* Mutant: every call writes to the page on screen (one stream for all).   *)
EntregaListaSempre(p) ==
    /\ snapshot' = [snapshot EXCEPT ![p.tipo] = "lista"]
    /\ versao' = [versao EXCEPT ![p.tipo] = p.v]
    /\ pedidos' = {IF q.tipo = p.tipo /\ q.montado
                   THEN [q EXCEPT !.sobreposto = TRUE] ELSE q : q \in pedidos \ {p}}

(* _streamController.add of a list of the server.                          *)
EntregaLista(p) ==
    IF p.montado
    THEN /\ snapshot' = [snapshot EXCEPT ![p.tipo] = "lista"]
         /\ versao' = [versao EXCEPT ![p.tipo] = p.v]
         /\ pedidos' = {IF q.tipo = p.tipo /\ q.montado
                        THEN [q EXCEPT !.sobreposto = TRUE] ELSE q : q \in pedidos \ {p}}
    ELSE Encerra(p) /\ UNCHANGED <<snapshot, versao>>

(* Mutant: the offline branch returns its rows without adding them.        *)
EntregaLocalEsquecida(p, tela) == Encerra(p) /\ UNCHANGED <<snapshot, versao>>

(* _streamController.add of rows of the database.                          *)
EntregaLocal(p, tela) ==
    /\ snapshot' = IF p.montado THEN [snapshot EXCEPT ![p.tipo] = tela] ELSE snapshot
    /\ Encerra(p)
    /\ UNCHANGED versao

(* Mutant: the catch swallows the error.                                   *)
EntregaErroEngolido(p) == Encerra(p) /\ UNCHANGED <<snapshot, versao>>

(* addError: the snapshot loses its data, the list and its RefreshIndicator*)
(* leave the screen.                                                       *)
EntregaErro(p) ==
    /\ IF p.montado
       THEN /\ snapshot' = [snapshot EXCEPT ![p.tipo] = "erro"]
            /\ pedidos' = {IF q.tipo = p.tipo THEN [q EXCEPT !.puxa = FALSE] ELSE q
                             : q \in pedidos \ {p}}
       ELSE Encerra(p) /\ UNCHANGED snapshot
    /\ UNCHANGED versao

Passa(p, fase) == pedidos' = (pedidos \ {p}) \cup {[p EXCEPT !.fase = fase]}

(* isNetworkOn answers: wifi goes to the server, provided _headers finds a *)
(* user; mobile data counts as offline; without any network the result is  *)
(* null, and negating it throws.  The network and the session may be       *)
(* different at every call.                                                *)
Conectividade(p, rede, usuario) ==
    /\ p.fase = "rede"
    /\ \/ /\ rede = "wifi" /\ usuario
          /\ Passa(p, "http")
          /\ UNCHANGED <<snapshot, versao>>
       \/ /\ rede = "movel"
          /\ Passa(p, "banco")
          /\ UNCHANGED <<snapshot, versao>>
       \/ /\ rede = "nenhuma" \/ (rede = "wifi" /\ ~usuario)
          /\ EntregaErro(p)
    /\ UNCHANGED <<servidor, tabela, viva>>

(* CarroDAO.findAllByTipo answers: select ... where tipo = t.              *)
BancoResponde(p) ==
    /\ p.fase = "banco"
    /\ EntregaLocal(p, IF p.tipo \in tabela THEN "local" ELSE "vazia")
    /\ UNCHANGED <<servidor, tabela, viva>>

(* The server answers the GET with its list of the moment.                 *)
Atende(p) ==
    /\ p.fase = "http"
    /\ pedidos' = (pedidos \ {p}) \cup {[p EXCEPT !.fase = "resposta", !.v = servidor[p.tipo]]}
    /\ UNCHANGED <<servidor, tabela, viva, snapshot, versao>>

(* The database, the connection or the decoding of the body fails.         *)
Falha(p) ==
    /\ p.fase \in {"banco", "http", "resposta"}
    /\ EntregaErro(p)
    /\ UNCHANGED <<servidor, tabela, viva>>

(* The answer arrives: a list that is not empty (version 0 is) is handed   *)
(* to CarroDAO.save, car by car and unawaited, so an insert that fails is  *)
(* noticed by nobody.  Carro.fromJson left the tipo of the cars null.      *)
TipoLido(t) == t        \* mutant: fromJson reads it

TipoDoCarro(t) == Nulo

Chega(p) ==
    /\ p.fase = "resposta"
    /\ tabela' \in IF p.v > 0 THEN {tabela, tabela \cup {TipoDoCarro(p.tipo)}} ELSE {tabela}
    /\ EntregaLista(p)
    /\ UNCHANGED <<servidor, viva>>

-----------------------------------------------------------------------------
(* The surroundings of the list.                                           *)

(* A save or a delete, of this device or of another, changes the list.     *)
Muda(t) ==
    /\ servidor[t] < MaxVersao
    /\ servidor' = [servidor EXCEPT ![t] = @ + 1]
    /\ UNCHANGED <<tabela, viva, snapshot, versao, pedidos>>

Pagina(t) == Monta(t) \/ OnRefresh(t) \/ Evento(t)

Andamento(p) == \/ \E rede \in Redes, usuario \in BOOLEAN : Conectividade(p, rede, usuario)
                \/ BancoResponde(p) \/ Atende(p) \/ Falha(p) \/ Chega(p)

Next == \/ \E t \in Tipos : Pagina(t) \/ Muda(t)
        \/ \E p \in pedidos : Andamento(p)
        \/ Desmonta

Spec == Init /\ [][Next]_vars

(***************************************************************************)
(* The plugin, the database and the connection answer or fail in the end;  *)
(* nothing is assumed of the user, of the server's clients or of whoever   *)
(* sends the events.                                                       *)
(***************************************************************************)
AndamentoDe(i) == \E p \in pedidos : p.id = i /\ Andamento(p)

Justica(i) == WF_vars(AndamentoDe(i))

LiveSpec == Spec /\ \A i \in Ids : Justica(i)

-----------------------------------------------------------------------------
(* Properties.                                                             *)

(* A page shows the spinner of its first load (carros_page.dart:151) only  *)
(* while one of its own fetches is in flight: no interleaving of fetches,  *)
(* errors and closings leaves it waiting for a delivery nobody will make.  *)
EsperaHonesta ==
    \A t \in Tipos : viva[t] /\ snapshot[t] = "espera" =>
        \E p \in pedidos : p.tipo = t /\ p.montado

(* The list on a page goes back to an older version only by one route: the *)
(* fetch that delivers it was overtaken by another one of the same page,   *)
(* carros_bloc.dart:57 having no guard for answers out of order.  A fetch  *)
(* of a page already disposed never writes over its successor's list.      *)
RegressoSoComSobreposicao ==
    [][\A t \in Tipos : viva[t] /\ viva'[t] /\ versao'[t] < versao[t] =>
          \E p \in pedidos \ pedidos' : p.tipo = t /\ p.montado /\ p.sobreposto]_vars

(* Offline nothing is ever listed: the rows carros_bloc.dart:54 stores     *)
(* carry no tipo, because Carro.fromJson (carro.dart:55-66) does not read  *)
(* it, and the query of carro_dao.dart asks for one.                       *)
SemListaLocal == \A t \in Tipos : snapshot[t] # "local"

(* Whatever else is in flight, a fetch can always go on: none waits for a  *)
(* page, for another fetch or for a row that may never come.  That holds   *)
(* by the shape of the guards; NovidadeSempreAparece needs it.             *)
EmVoo(i) == \E p \in pedidos : p.id = i

NuncaPreso == \A i \in Ids : EmVoo(i) => ENABLED <<AndamentoDe(i)>>_vars

(* A fetch begun once the server had version n, as the one a CarroEvent    *)
(* begins after a save, ends with the page showing version n or a later    *)
(* one, an error or the offline answer, unless the page is gone: the page  *)
(* cannot miss a save it was told of while older fetches are in flight.    *)
Buscada(t, n) == \E p \in pedidos : p.tipo = t /\ p.montado /\ p.emissao >= n

Atendida(t, n) == ~viva[t] \/ versao[t] >= n \/ snapshot[t] \in {"erro", "vazia"}

NovidadeAparece == \A t \in Tipos : \A n \in Versoes : Buscada(t, n) ~> Atendida(t, n)

(* The refinement mapping: a page owes what its own fetches in flight asked *)
(* for.                                                                    *)
Devidas == [t \in Tipos |-> {p.emissao : p \in {q \in pedidos : q.tipo = t /\ q.montado}}]

V == INSTANCE Vitrine WITH aberta <- viva, mostra <- snapshot, devidas <- Devidas

(* Every list a page shows answers a demand of that very page and is at    *)
(* least as new as the server's list was when the page asked; it shows     *)
(* nothing else but an error or the empty offline answer, and owes nothing *)
(* to the fetches of a page disposed: the fetches implement Vitrine.       *)
ImplementaVitrine == V!Spec

-----------------------------------------------------------------------------
(* The inductive invariant behind RegressoSoComSobreposicao.               *)

IdsDistintos == \A p, q \in pedidos : p.id = q.id => p = q

VersaoPossivel == \A t \in Tipos : versao[t] <= servidor[t]

RespostaDoPeriodo ==
    \A p \in pedidos : /\ p.emissao <= servidor[p.tipo]
                       /\ p.fase = "resposta" => /\ p.emissao <= p.v
                                                 /\ p.v <= servidor[p.tipo]

MontadoVivo == \A p \in pedidos : p.montado => viva[p.tipo]

SemSobreposicao ==
    \A p \in pedidos : p.montado /\ ~p.sobreposto => versao[p.tipo] <= p.emissao

SemTipoGuardado == tabela \subseteq {Nulo}

IInv == /\ TypeOK
        /\ IdsDistintos
        /\ VersaoPossivel
        /\ RespostaDoPeriodo
        /\ MontadoVivo
        /\ SemSobreposicao
        /\ SemTipoGuardado
        /\ SemListaLocal
        /\ EsperaHonesta
=============================================================================
