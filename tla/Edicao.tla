------------------------------- MODULE Edicao -------------------------------
(***************************************************************************)
(* Editing the cars: CarroPage and its menu, CarroFormPage, the requests   *)
(* of CarrosApi.save and delete, the alerts that report them and the       *)
(* CarroEvent that follows (lib/pages/carros/carro_page.dart,              *)
(* carro-form-page.dart, carros_api.dart, upload_api.dart,                 *)
(* lib/utils/alert_dialog.dart, event_bus.dart).                           *)
(*                                                                         *)
(* A tap starts a handler that awaits the upload, the session and the      *)
(* server, while the page stays usable: the same form may save twice, the  *)
(* user may go back or open the form of a car being deleted.  The handler  *)
(* shares the Carro with the page, the form and the list it came from, and *)
(* finds the stack of the Navigator as the user left it.                   *)
(***************************************************************************)
EXTENDS Integers, Sequences

CONSTANTS Tipos,     \* the values of TipoCarro
          Nulo,      \* the Dart null: a car without tipo, a form without car
          Nenhum,    \* no event
          Objetos,   \* the Carro objects of the lists on screen
          MaxPilha,  \* bound: routes on the stack
          MaxRotas,  \* bound: car and form pages not yet disposed
          MaxOps     \* bound: requests awaiting their answer

ASSUME ConstantesOK == /\ Nulo \notin Tipos \cup Objetos
                       /\ Nenhum \notin Tipos \cup {Nulo}
                       /\ MaxPilha \in Nat \ {0}
                       /\ MaxRotas \in Nat \ {0}
                       /\ MaxOps \in Nat \ {0}

VARIABLES pilha,     \* the routes of the Navigator, the visible one last
          saindo,    \* popped pages still in their transition
          memoria,   \* the field tipo of each Carro
          ops,       \* handlers awaiting the answer to their request
          evento     \* the tipo of the CarroEvent the last step sent

vars == <<pilha, saindo, memoria, ops, evento>>

Rotas   == 0 .. MaxRotas
ComNulo == Tipos \cup {Nulo}

(***************************************************************************)
(* A route.  "folha" is the bottom sheet of a long press on a list, "menu" *)
(* the popup menu of a CarroPage: both are routes, which the back key or a *)
(* tap beside them closes.  carro: the Carro a page works on, Nulo for the *)
(* form of a new one.  An alert pops with the context of dono, the page    *)
(* that opened it (0 once that page is disposed); aoOk is its callback,    *)
(* "fecha" to pop the form, "avisaEFecha" to send the event of a deletion  *)
(* first.  naSaida tells that dono was leaving already when it opened the  *)
(* alert: no state of the code, only properties read it.                   *)
(***************************************************************************)
Rota == [pagina : {"home", "folha", "carro", "menu", "form", "alerta"}, id : Rotas,
         carro : Objetos \cup {Nulo}, dono : Rotas,
         aoOk : {"nada", "fecha", "avisaEFecha"}, naSaida : BOOLEAN]

(***************************************************************************)
(* A handler.  novo: the tipo of the Carro a save without car has made for *)
(* itself.  corpo: the tipo in the JSON that was sent.  fase: "preparo" is *)
(* the upload and the reading of the session, "gravado" a request the      *)
(* server has carried out.  trocado tells that Salvar was tapped again for *)
(* the same Carro meanwhile (only properties read it).                     *)
(***************************************************************************)
Op == [id : 1 .. MaxOps, acao : {"salva", "deleta"}, carro : Objetos \cup {Nulo},
       novo : ComNulo, corpo : ComNulo, fase : {"preparo", "enviado", "gravado"},
       dono : Rotas, trocado : BOOLEAN]

TypeOK == /\ pilha \in Seq(Rota) /\ Len(pilha) <= MaxPilha
          /\ saindo \subseteq 1 .. MaxRotas
          /\ memoria \in [Objetos -> ComNulo]
          /\ ops \subseteq Op
          /\ evento \in ComNulo \cup {Nenhum}

-----------------------------------------------------------------------------
(* The Navigator.                                                          *)

Pagina(pagina, id, carro) ==
    [pagina |-> pagina, id |-> id, carro |-> carro, dono |-> 0,
     aoOk |-> "nada", naSaida |-> FALSE]

Alerta(d, carro, aoOk) ==
    [pagina |-> "alerta", id |-> 0, carro |-> carro, dono |-> d,
     aoOk |-> aoOk, naSaida |-> d \in saindo]

Indices == 1 .. Len(pilha)

Topo == pilha[Len(pilha)]

NoTopo(pagina) == pilha # <<>> /\ Topo.pagina = pagina

IdsVivos == {pilha[i].id : i \in Indices} \cup saindo

HaRota == \E i \in 1 .. MaxRotas : i \notin IdsVivos

IdNovo == CHOOSE i \in 1 .. MaxRotas : i \notin IdsVivos

Push(rota) == /\ Len(pilha) < MaxPilha
              /\ pilha' = Append(pilha, rota)
              /\ UNCHANGED saindo

(* The n top routes leave the stack (pop knows no last route); their pages *)
(* stay mounted until the end of the transition, which matters only while  *)
(* one of their handlers awaits.                                           *)
Pop(n) ==
    LET resto == SubSeq(pilha, 1, Len(pilha) - n)
        fora  == {pilha[i].id : i \in {j \in Indices : j > Len(pilha) - n}}
    IN  /\ pilha' = resto
        /\ saindo' = saindo \cup ((fora \cap {o.dono : o \in ops}) \ {0})

(* Mutant: the handlers keep the context of the disposed page.             *)
DescartaComContexto(d) ==
    /\ d \in saindo
    /\ saindo' = saindo \ {d}
    /\ evento' = Nenhum
    /\ UNCHANGED <<pilha, memoria, ops>>

(* The transition ends and the page is disposed: its handlers find no      *)
(* context any more, and an alert it opened pops with a dead one.          *)
Descarta(d) ==
    /\ d \in saindo
    /\ saindo' = saindo \ {d}
    /\ ops' = {IF o.dono = d THEN [o EXCEPT !.dono = 0] ELSE o : o \in ops}
    /\ pilha' = [i \in Indices |->
                   IF pilha[i].dono = d THEN [pilha[i] EXCEPT !.dono = 0] ELSE pilha[i]]
    /\ evento' = Nenhum
    /\ UNCHANGED memoria

-----------------------------------------------------------------------------
(* The user's taps.                                                        *)

(* Home is on screen; Carro.fromJson gave its cars no tipo.                *)
Init == /\ pilha = <<Pagina("home", 0, Nulo)>>
        /\ saindo = {}
        /\ memoria = [c \in Objetos |-> Nulo]
        /\ ops = {}
        /\ evento = Nenhum

Navega(rota) == Push(rota) /\ evento' = Nenhum /\ UNCHANGED <<memoria, ops>>

(* An item of a sheet or a menu closes it, and goes on at once.            *)
Abaixo == SubSeq(pilha, 1, Len(pilha) - 1)

Troca(rota) == /\ pilha' = Append(Abaixo, rota)
               /\ evento' = Nenhum
               /\ UNCHANGED <<saindo, memoria, ops>>

AbreFolha(c) == NoTopo("home") /\ Navega(Pagina("folha", 0, c))

Detalhes == NoTopo("folha") /\ HaRota /\ Troca(Pagina("carro", IdNovo, Topo.carro))

AbreCarro(c) == NoTopo("home") /\ HaRota /\ Navega(Pagina("carro", IdNovo, c))

AdicionarCarro == NoTopo("home") /\ HaRota /\ Navega(Pagina("form", IdNovo, Nulo))

AbreMenu == NoTopo("carro") /\ Navega(Pagina("menu", 0, Topo.carro))

Editar == NoTopo("menu") /\ HaRota /\ Troca(Pagina("form", IdNovo, Topo.carro))

(* Carro.fromJson reads neither place nor video: both icons only alert.    *)
MapaOuVideo == NoTopo("carro") /\ Navega(Alerta(Topo.id, Nulo, "nada"))

Voltar ==
    /\ pilha # <<>> /\ Topo.pagina \notin {"home", "alerta"}
    /\ Pop(1)
    /\ evento' = Nenhum
    /\ UNCHANGED <<memoria, ops>>

HaVaga == \E i \in 1 .. MaxOps : \A o \in ops : o.id # i

IdLivre == CHOOSE i \in 1 .. MaxOps : \A o \in ops : o.id # i

NovaOp(acao, dono, t) ==
    [id |-> IdLivre, acao |-> acao, carro |-> Topo.carro, novo |-> t, corpo |-> Nulo,
     fase |-> "preparo", dono |-> dono, trocado |-> FALSE]

(* Salvar of a valid form: the fields are written into the Carro of the    *)
(* page before anything is sent, or into a new one.                        *)
Salvar(t) ==
    /\ NoTopo("form") /\ HaVaga
    /\ memoria' = [c \in Objetos |-> IF c = Topo.carro THEN t ELSE memoria[c]]
    /\ ops' = {IF o.carro # Nulo /\ o.carro = Topo.carro
               THEN [o EXCEPT !.trocado = TRUE] ELSE o : o \in ops}
              \cup {NovaOp("salva", Topo.id, t)}
    /\ evento' = Nenhum
    /\ UNCHANGED <<pilha, saindo>>

(* The item of the menu.  Carro.fromJson reads no id, so that the request  *)
(* names the car "null" (carros_api.dart:189): what the server makes of it *)
(* is left open.                                                           *)
Deletar ==
    /\ NoTopo("menu") /\ HaVaga
    /\ pilha' = Abaixo
    /\ ops' = ops \cup {NovaOp("deleta", pilha[Len(pilha) - 1].id, Nulo)}
    /\ evento' = Nenhum
    /\ UNCHANGED <<saindo, memoria>>

(* Mutant: the pop of the alert's own context (alert_dialog.dart:19) is     *)
(* back, and the one of the page's context stayed.                         *)
OkDuplo ==
    /\ NoTopo("alerta") /\ Topo.dono # 0
    /\ Pop(IF Topo.aoOk = "nada" THEN 2 ELSE 3)
    /\ evento' = IF Topo.aoOk = "avisaEFecha" THEN memoria[Topo.carro] ELSE Nenhum
    /\ UNCHANGED <<memoria, ops>>

(* The Ok of an alert pops the route on top with the context of dono, a    *)
(* dead one throws; the callback pops whatever is on top then.             *)
OkDoAlerta ==
    /\ NoTopo("alerta") /\ Topo.dono # 0
    /\ Pop(IF Topo.aoOk = "nada" THEN 1 ELSE 2)
    /\ evento' = IF Topo.aoOk = "avisaEFecha" THEN memoria[Topo.carro] ELSE Nenhum
    /\ UNCHANGED <<memoria, ops>>

-----------------------------------------------------------------------------
(* The requests.                                                           *)

(* The field tipo of the Carro a handler holds, read when it is asked for. *)
TipoDe(o) == IF o.carro = Nulo THEN o.novo ELSE memoria[o.carro]

(* The upload is over, well or not (its error is ignored), a user is       *)
(* stored, and the request leaves with the JSON of this moment.            *)
Envia(o) ==
    /\ o.fase = "preparo"
    /\ ops' = (ops \ {o}) \cup {[o EXCEPT !.fase = "enviado", !.corpo = TipoDe(o)]}
    /\ evento' = Nenhum
    /\ UNCHANGED <<pilha, saindo, memoria>>

(* The server carries the request out; of a delete: it accepts the id.     *)
Grava(o) ==
    /\ o.fase = "enviado"
    /\ ops' = (ops \ {o}) \cup {[o EXCEPT !.fase = "gravado"]}
    /\ evento' = Nenhum
    /\ UNCHANGED <<pilha, saindo, memoria>>

(* Mutant: the event reads the car of the page, not the one it saved.       *)
EventoDaPagina(o) == IF o.carro = Nulo THEN Nulo ELSE memoria[o.carro]

(* The CarroEvent of a save takes the tipo of the Carro, again.            *)
EventoDe(o) == TipoDe(o)

(* The answer of a save is 200 or 201: the alert, and the event at once.   *)
Salvou(o) ==
    /\ o.acao = "salva" /\ o.fase = "gravado"
    /\ ops' = ops \ {o}
    /\ IF o.dono # 0
       THEN Push(Alerta(o.dono, Nulo, "fecha")) /\ evento' = EventoDe(o)
       ELSE evento' = Nenhum /\ UNCHANGED <<pilha, saindo>>
    /\ UNCHANGED memoria

(* The answer of a delete is 200: the alert, the event waits for its Ok.   *)
Deletou(o) ==
    /\ o.acao = "deleta" /\ o.fase = "gravado"
    /\ ops' = ops \ {o}
    /\ IF o.dono # 0
       THEN Push(Alerta(o.dono, o.carro, "avisaEFecha"))
       ELSE UNCHANGED <<pilha, saindo>>
    /\ evento' = Nenhum
    /\ UNCHANGED memoria

(* Mutant: the alert opens though its page is disposed.                     *)
RecusaSemPagina(o) ==
    /\ ops' = ops \ {o}
    /\ Push(Alerta(o.dono, Nulo, "nada"))
    /\ evento' = Nenhum
    /\ UNCHANGED memoria

(* No user is stored, the server refuses, or its answer (even to a request *)
(* it carried out) is lost or cannot be decoded.                           *)
Recusa(o) ==
    /\ ops' = ops \ {o}
    /\ IF o.dono # 0
       THEN Push(Alerta(o.dono, Nulo, "nada"))
       ELSE UNCHANGED <<pilha, saindo>>
    /\ evento' = Nenhum
    /\ UNCHANGED memoria

-----------------------------------------------------------------------------
Toque == \/ \E c \in Objetos : AbreCarro(c) \/ AbreFolha(c)
         \/ \E t \in Tipos : Salvar(t)
         \/ Detalhes \/ AdicionarCarro \/ AbreMenu \/ Editar \/ MapaOuVideo
         \/ Voltar \/ Deletar \/ OkDoAlerta

Andamento(o) == Envia(o) \/ Grava(o) \/ Salvou(o) \/ Deletou(o) \/ Recusa(o)

Next == \/ Toque
        \/ \E o \in ops : Andamento(o)
        \/ \E d \in saindo : Descarta(d)

Spec == Init /\ [][Next]_vars

-----------------------------------------------------------------------------
(* Properties.                                                             *)

(* The event of a save names the tipo the server was sent, whatever else   *)
(* ran between, unless Salvar was tapped again for the same Carro while it *)
(* was in flight: carro-form-page.dart:234 reads c.tipo after the await.   *)
EventoDoTipoGravado ==
    [][\A o \in ops \ ops' :
          o.acao = "salva" /\ evento' # Nenhum => evento' = o.corpo \/ o.trocado]_vars

(* The Ok of an alert never closes Home (a black screen is left) unless    *)
(* the page that opened the alert was leaving the screen by then: however  *)
(* alerts pile up, two pops stay above the page that asked.                *)
HomeSoCaiNaSaida ==
    [][pilha # <<>> /\ pilha' = <<>> => Topo.naSaida]_vars

(* Unless it was leaving already, the page that opened an alert is mounted *)
(* under it, and nothing lies between the two but other alerts and, on a   *)
(* CarroPage that waits for its delete, the one menu or form the user has  *)
(* opened there meanwhile: these are what the second pop of the callback   *)
(* (carro_page.dart:249, carro-form-page.dart:232) may take instead of the *)
(* page.                                                                   *)
EntreElas(j, k) ==
    \/ pilha[k].pagina = "alerta"
    \/ pilha[j].pagina = "carro" /\ k = j + 1 /\ pilha[k].pagina \in {"menu", "form"}

OkFechaQuemPediu ==
    \A i \in Indices : pilha[i].pagina = "alerta" /\ ~pilha[i].naSaida =>
        \E j \in 1 .. i - 1 : /\ pilha[j].id = pilha[i].dono /\ pilha[i].dono # 0
                             /\ \A k \in j + 1 .. i - 1 : EntreElas(j, k)

(* The comment on CarroEvent.tipo (carro.dart:12) lists its values:        *)
(* "classicos, esportivos, luxos".                                         *)
EventoComTipo == evento \in Tipos \cup {Nenhum}

-----------------------------------------------------------------------------
(* The inductive invariant behind the safety properties.                   *)

(* Home, then a CarroPage, then its menu or a form; sheets, menus and      *)
(* alerts have nothing but alerts above them.                              *)
Empilhamento ==
    /\ \A i \in Indices : /\ pilha[i].pagina = "home" => i = 1
                          /\ pilha[i].pagina \in {"carro", "folha"} => i = 2
                          /\ pilha[i].pagina = "form" => i \in {2, 3}
                          /\ pilha[i].pagina = "menu" => i = 3
                          /\ pilha[i].pagina \in {"menu", "form"} /\ i = 3
                                => pilha[2].pagina = "carro"
    /\ \A i, j \in Indices : i < j /\ pilha[i].pagina \in {"folha", "menu", "alerta"}
                                 => pilha[j].pagina = "alerta"

(* A page is found by its id: no two pages have the same, and a page       *)
(* leaving the screen is not on the stack.                                 *)
IdsDistintos ==
    /\ \A i \in Indices : /\ pilha[i].id # 0 <=> pilha[i].pagina \in {"carro", "form"}
                          /\ pilha[i].id \notin saindo
    /\ \A i, j \in Indices : pilha[i].id = pilha[j].id /\ pilha[i].id # 0 => i = j

DonoAlcancavel == \A o \in ops : o.dono = 0 \/ o.dono \in IdsVivos

CarroDaPagina ==
    /\ \A i \in Indices :
          pilha[i].pagina \in {"carro", "folha", "menu"} \/ pilha[i].aoOk = "avisaEFecha"
             => pilha[i].carro \in Objetos
    /\ \A o \in ops : o.acao = "deleta" => o.carro \in Objetos

(* What was sent is what the Carro still holds, but for a later Salvar.    *)
CorpoAtual ==
    \A o \in ops : o.acao = "salva" /\ o.fase # "preparo" /\ ~o.trocado => o.corpo = TipoDe(o)

IInv == /\ TypeOK
        /\ Empilhamento
        /\ IdsDistintos
        /\ DonoAlcancavel
        /\ CarroDaPagina
        /\ OkFechaQuemPediu
        /\ CorpoAtual
=============================================================================
