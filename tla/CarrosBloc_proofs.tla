------------------------- MODULE CarrosBloc_proofs -------------------------
(* Proofs about CarrosBloc, for every set of tipos and every bound.        *)
EXTENDS CarrosBloc, TLAPS

USE ConstantesOK

(* A free slot has a number of its own. *)
LEMMA VagaTemNumero == HaVaga => IdLivre \in Ids /\ \A p \in pedidos : p.id # IdLivre
BY DEF HaVaga, IdLivre

(* What a new call of fetch adds. *)
LEMMA FetchOK ==
    ASSUME IInv, NEW t \in Tipos, NEW x \in BOOLEAN, HaVaga, Fetch(t, x)
    PROVE  \E n \in Pedido :
             /\ pedidos' = pedidos \cup {n}
             /\ n.tipo = t /\ n.montado /\ n.emissao = servidor[t] /\ n.fase = "rede"
             /\ \A p \in pedidos : p.id # n.id
<1> DEFINE n == [id |-> IdLivre, tipo |-> t, fase |-> "rede", emissao |-> servidor[t],
                 v |-> 0, puxa |-> x, montado |-> TRUE, sobreposto |-> FALSE]
<1>1. n \in Pedido
  BY VagaTemNumero DEF IInv, TypeOK, Pedido, Fases, Versoes
<1>2. pedidos' = pedidos \cup {n}
  BY DEF Fetch
<1>3. \A p \in pedidos : p.id # n.id
  BY VagaTemNumero
<1> QED BY <1>1, <1>2, <1>3

(* Rewriting every call without touching its number keeps the numbers apart. *)
LEMMA ReescritaMantemIds ==
    ASSUME NEW S, NEW g, \A r \in S : g[r].id = r.id,
           \A p, q \in S : p.id = q.id => p = q
    PROVE  \A p, q \in {g[r] : r \in S} : p.id = q.id => p = q
OBVIOUS

(* The initial states satisfy the invariant. *)
LEMMA Inicio == Init => IInv
BY DEF Init, IInv, IdsDistintos, TypeOK, VersaoPossivel, RespostaDoPeriodo, MontadoVivo,
       SemSobreposicao, SemTipoGuardado, SemListaLocal, EsperaHonesta, Versoes, Telas

(* The steps that begin a call of fetch keep the invariant. *)
LEMMA PaginaPreserva ==
    ASSUME IInv, NEW t \in Tipos, Pagina(t)
    PROVE  IInv'
<1> USE DEF IInv
<1>1. CASE Monta(t)
  <2>1. PICK n \in Pedido :
          /\ pedidos' = pedidos \cup {n}
          /\ n.tipo = t /\ n.montado /\ n.emissao = servidor[t] /\ n.fase = "rede"
          /\ \A p \in pedidos : p.id # n.id
    BY <1>1, FetchOK DEF Monta
  <2>2. TypeOK'
    BY <1>1, <2>1 DEF Monta, TypeOK
  <2>8. IdsDistintos'
    BY <1>1, <2>1 DEF Monta, IdsDistintos
  <2>3. VersaoPossivel' /\ SemTipoGuardado' /\ SemListaLocal'
    BY <1>1 DEF Monta, VersaoPossivel, SemTipoGuardado, SemListaLocal
  <2>4. RespostaDoPeriodo'
    BY <1>1, <2>1 DEF Monta, RespostaDoPeriodo, TypeOK, Versoes
  <2>5. MontadoVivo'
    BY <1>1, <2>1 DEF Monta, MontadoVivo, TypeOK, Pedido
  <2>6. SemSobreposicao'
    BY <1>1, <2>1 DEF Monta, SemSobreposicao, VersaoPossivel, TypeOK
  <2>7. EsperaHonesta'
    BY <1>1, <2>1 DEF Monta, EsperaHonesta, TypeOK
  <2> QED BY <2>2, <2>3, <2>4, <2>5, <2>6, <2>7, <2>8
<1>2. CASE OnRefresh(t)
  <2>1. PICK n \in Pedido :
          /\ pedidos' = pedidos \cup {n}
          /\ n.tipo = t /\ n.montado /\ n.emissao = servidor[t] /\ n.fase = "rede"
          /\ \A p \in pedidos : p.id # n.id
    BY <1>2, FetchOK DEF OnRefresh
  <2>2. TypeOK'
    BY <1>2, <2>1 DEF OnRefresh, TypeOK
  <2>8. IdsDistintos'
    BY <1>2, <2>1 DEF OnRefresh, IdsDistintos
  <2>3. VersaoPossivel' /\ SemTipoGuardado' /\ SemListaLocal'
    BY <1>2 DEF OnRefresh, VersaoPossivel, SemTipoGuardado, SemListaLocal
  <2>4. RespostaDoPeriodo'
    BY <1>2, <2>1 DEF OnRefresh, RespostaDoPeriodo, TypeOK, Versoes
  <2>5. MontadoVivo' /\ SemSobreposicao' /\ EsperaHonesta'
    BY <1>2, <2>1 DEF OnRefresh, MontadoVivo, SemSobreposicao, VersaoPossivel, EsperaHonesta
  <2> QED BY <2>2, <2>3, <2>4, <2>5, <2>8
<1>3. CASE Evento(t)
  <2>1. PICK n \in Pedido :
          /\ pedidos' = pedidos \cup {n}
          /\ n.tipo = t /\ n.montado /\ n.emissao = servidor[t] /\ n.fase = "rede"
          /\ \A p \in pedidos : p.id # n.id
    BY <1>3, FetchOK DEF Evento
  <2>2. TypeOK'
    BY <1>3, <2>1 DEF Evento, TypeOK, Versoes
  <2>8. IdsDistintos'
    BY <1>3, <2>1 DEF Evento, IdsDistintos
  <2>3. VersaoPossivel' /\ SemTipoGuardado' /\ SemListaLocal'
    BY <1>3 DEF Evento, VersaoPossivel, SemTipoGuardado, SemListaLocal,
                TypeOK, Versoes
  <2>4. RespostaDoPeriodo'
    BY <1>3, <2>1 DEF Evento, RespostaDoPeriodo, TypeOK, Versoes
  <2>5. MontadoVivo' /\ SemSobreposicao' /\ EsperaHonesta'
    BY <1>3, <2>1 DEF Evento, MontadoVivo, SemSobreposicao, VersaoPossivel, EsperaHonesta
  <2> QED BY <2>2, <2>3, <2>4, <2>5, <2>8
<1> QED BY <1>1, <1>2, <1>3 DEF Pagina

(* dispose keeps the invariant: it leaves no call with a mounted page. *)
LEMMA DesmontaPreserva == IInv /\ Desmonta => IInv'
<1> SUFFICES ASSUME IInv, Desmonta PROVE IInv'
  OBVIOUS
<1> USE DEF IInv
<1>0. /\ viva' = [t \in Tipos |-> FALSE]
      /\ snapshot' = [t \in Tipos |-> "espera"]
      /\ versao' = [t \in Tipos |-> 0]
      /\ UNCHANGED <<servidor, tabela>>
  BY Zenon DEF Desmonta
<1>1. \A q \in pedidos' : \E p \in pedidos :
         q = [p EXCEPT !.montado = FALSE, !.puxa = FALSE]
  BY DEF Desmonta
<1>2. \A q \in pedidos' :
         /\ q \in Pedido /\ ~q.montado
         /\ \E p \in pedidos : /\ p.tipo = q.tipo /\ p.emissao = q.emissao
                               /\ p.v = q.v /\ p.fase = q.fase
  <2> TAKE q \in pedidos'
  <2>1. PICK p \in pedidos : q = [p EXCEPT !.montado = FALSE, !.puxa = FALSE]
    BY <1>1
  <2>2. p \in Pedido
    BY DEF TypeOK
  <2> QED BY <2>1, <2>2 DEF Pedido
<1>3. TypeOK'
  BY <1>0, <1>2 DEF TypeOK, Telas, Versoes
<1>4. VersaoPossivel' /\ SemTipoGuardado' /\ SemListaLocal'
  BY <1>0 DEF VersaoPossivel, SemTipoGuardado, SemListaLocal, TypeOK, Versoes
<1>5. RespostaDoPeriodo'
  BY <1>0, <1>2 DEF RespostaDoPeriodo
<1>6. MontadoVivo' /\ SemSobreposicao' /\ EsperaHonesta'
  BY <1>0, <1>2 DEF MontadoVivo, SemSobreposicao, EsperaHonesta
<1>7. IdsDistintos'
  <2> DEFINE g == [r \in pedidos |-> [r EXCEPT !.montado = FALSE, !.puxa = FALSE]]
  <2>1. pedidos' = {g[r] : r \in pedidos}
    BY Zenon DEF Desmonta
  <2>2. \A r \in pedidos : g[r].id = r.id
    BY DEF TypeOK, Pedido
  <2> HIDE DEF g
  <2> QED BY <2>1, <2>2, ReescritaMantemIds DEF IdsDistintos
<1> QED BY <1>3, <1>4, <1>5, <1>6, <1>7

(* A change of the list keeps the invariant: versions only grow. *)
LEMMA MudaPreserva ==
    ASSUME IInv, NEW t \in Tipos, Muda(t)
    PROVE  IInv'
<1> USE DEF IInv
<1>1. UNCHANGED <<tabela, viva, snapshot, versao, pedidos>>
  BY DEF Muda
<1>2. \A u \in Tipos : servidor[u] <= servidor'[u]
  BY DEF Muda, TypeOK, Versoes
<1>3. TypeOK'
  BY <1>1 DEF Muda, TypeOK, Versoes
<1>4. VersaoPossivel'
  BY <1>1, <1>2, <1>3 DEF VersaoPossivel, TypeOK, Versoes
<1>5. RespostaDoPeriodo'
  BY <1>1, <1>2, <1>3 DEF RespostaDoPeriodo, TypeOK, Versoes, Pedido
<1>6. /\ IdsDistintos' /\ MontadoVivo' /\ SemSobreposicao' /\ SemTipoGuardado'
      /\ SemListaLocal' /\ EsperaHonesta'
  BY <1>1 DEF IdsDistintos, MontadoVivo, SemSobreposicao, SemTipoGuardado, SemListaLocal, EsperaHonesta
<1> QED BY <1>3, <1>4, <1>5, <1>6

(* Delivering an error keeps the invariant: the page leaves "espera". *)
LEMMA ErroPreserva ==
    ASSUME IInv, NEW p \in pedidos, EntregaErro(p), UNCHANGED <<servidor, tabela, viva>>
    PROVE  IInv'
<1> USE DEF IInv
<1>1. p \in Pedido /\ p.tipo \in Tipos
  BY DEF TypeOK, Pedido
<1>2. /\ snapshot' = IF p.montado THEN [snapshot EXCEPT ![p.tipo] = "erro"] ELSE snapshot
      /\ UNCHANGED versao
  BY DEF EntregaErro
<1>3. \A q \in pedidos' :
         /\ q \in Pedido
         /\ \E r \in pedidos : /\ r.tipo = q.tipo /\ r.emissao = q.emissao /\ r.v = q.v
                               /\ r.fase = q.fase /\ r.montado = q.montado
                              /\ r.sobreposto = q.sobreposto
  <2> TAKE q \in pedidos'
  <2>1. \E r \in pedidos : q = r \/ q = [r EXCEPT !.puxa = FALSE]
    BY DEF EntregaErro, Encerra
  <2>2. PICK r \in pedidos : q = r \/ q = [r EXCEPT !.puxa = FALSE]
    BY <2>1
  <2>3. r \in Pedido
    BY DEF TypeOK
  <2> QED BY <2>2, <2>3 DEF Pedido
<1>4. TypeOK'
  BY <1>1, <1>2, <1>3 DEF TypeOK, Telas
<1>5. VersaoPossivel' /\ SemTipoGuardado' /\ SemListaLocal'
  BY <1>1, <1>2 DEF VersaoPossivel, SemTipoGuardado, SemListaLocal, TypeOK
<1>6. RespostaDoPeriodo' /\ MontadoVivo' /\ SemSobreposicao'
  BY <1>2, <1>3 DEF RespostaDoPeriodo, MontadoVivo, SemSobreposicao
<1>7. EsperaHonesta'
  <2> SUFFICES ASSUME NEW t \in Tipos, viva'[t], snapshot'[t] = "espera"
               PROVE  \E q \in pedidos' : q.tipo = t /\ q.montado
    BY DEF EsperaHonesta
  <2>1. snapshot[t] = "espera" /\ (p.montado => p.tipo # t)
    BY <1>1, <1>2 DEF TypeOK
  <2>2. PICK q \in pedidos : q.tipo = t /\ q.montado
    BY <2>1 DEF EsperaHonesta
  <2>3. q # p
    BY <2>1, <2>2
  <2>4. q \in pedidos'
    BY <2>1, <2>2, <2>3 DEF EntregaErro, Encerra
  <2> QED BY <2>2, <2>4
<1>8. IdsDistintos'
  <2>1. CASE p.montado
    <3> DEFINE g == [r \in pedidos \ {p} |-> IF r.tipo = p.tipo
                                           THEN [r EXCEPT !.puxa = FALSE] ELSE r]
    <3>1. pedidos' = {g[r] : r \in pedidos \ {p}}
      BY <2>1, Zenon DEF EntregaErro
    <3>2. \A r \in pedidos \ {p} : g[r].id = r.id
      BY DEF TypeOK, Pedido
    <3> HIDE DEF g
    <3> QED BY <3>1, <3>2, ReescritaMantemIds DEF IdsDistintos
  <2>2. CASE ~p.montado
    BY <2>2 DEF EntregaErro, Encerra, IdsDistintos
  <2> QED BY <2>1, <2>2
<1> QED BY <1>4, <1>5, <1>6, <1>7, <1>8

(* Delivering the rows of the database keeps the invariant. *)
LEMMA LocalPreserva == ASSUME IInv, NEW p \in pedidos, BancoResponde(p) PROVE IInv'
<1> USE DEF IInv
<1>1. p \in Pedido /\ p.tipo \in Tipos
  BY DEF TypeOK, Pedido
<1>2. p.tipo \notin tabela
  BY <1>1 DEF SemTipoGuardado
<1>3. /\ snapshot' = IF p.montado THEN [snapshot EXCEPT ![p.tipo] = "vazia"] ELSE snapshot
      /\ pedidos' = pedidos \ {p}
      /\ UNCHANGED <<servidor, tabela, viva, versao>>
  BY <1>2 DEF BancoResponde, EntregaLocal, Encerra
<1>4. TypeOK'
  BY <1>1, <1>3 DEF TypeOK, Telas
<1>5. VersaoPossivel' /\ SemTipoGuardado' /\ SemListaLocal'
  BY <1>1, <1>3 DEF VersaoPossivel, SemTipoGuardado, SemListaLocal, TypeOK
<1>6. IdsDistintos' /\ RespostaDoPeriodo' /\ MontadoVivo' /\ SemSobreposicao'
  BY <1>3 DEF IdsDistintos, RespostaDoPeriodo, MontadoVivo, SemSobreposicao
<1>7. EsperaHonesta'
  BY <1>1, <1>3 DEF EsperaHonesta, TypeOK
<1> QED BY <1>4, <1>5, <1>6, <1>7

(* Delivering a list keeps the invariant: the calls it overtook are marked. *)
LEMMA ListaPreserva == ASSUME IInv, NEW p \in pedidos, Chega(p) PROVE IInv'
<1> USE DEF IInv
<1>1. p \in Pedido /\ p.tipo \in Tipos /\ p.v <= servidor[p.tipo]
  BY DEF TypeOK, Pedido, Chega, RespostaDoPeriodo
<1>2. tabela' \subseteq tabela \cup {Nulo} /\ UNCHANGED <<servidor, viva>>
  BY DEF Chega, TipoDoCarro
<1>3. /\ snapshot' = IF p.montado THEN [snapshot EXCEPT ![p.tipo] = "lista"] ELSE snapshot
      /\ versao' = IF p.montado THEN [versao EXCEPT ![p.tipo] = p.v] ELSE versao
  BY DEF Chega, EntregaLista
<1>4. \A q \in pedidos' : \E r \in pedidos :
         \/ q = r /\ ~(p.montado /\ r.montado /\ r.tipo = p.tipo)
         \/ q = [r EXCEPT !.sobreposto = TRUE]
  BY DEF Chega, EntregaLista, Encerra
<1>5. \A q \in pedidos' :
         /\ q \in Pedido
         /\ \E r \in pedidos : /\ r.tipo = q.tipo /\ r.emissao = q.emissao /\ r.v = q.v
                               /\ r.fase = q.fase /\ r.montado = q.montado
  <2> TAKE q \in pedidos'
  <2>1. PICK r \in pedidos : q = r \/ q = [r EXCEPT !.sobreposto = TRUE]
    BY <1>4
  <2>2. r \in Pedido
    BY DEF TypeOK
  <2> QED BY <2>1, <2>2 DEF Pedido
<1>6. \A q \in pedidos' :
         q.montado /\ ~q.sobreposto => q \in pedidos /\ ~(p.montado /\ q.tipo = p.tipo)
  BY <1>4 DEF TypeOK, Pedido
<1>7. TypeOK'
  BY <1>1, <1>2, <1>3, <1>5 DEF TypeOK, Telas, Pedido
<1>8. VersaoPossivel' /\ SemTipoGuardado' /\ SemListaLocal'
  BY <1>1, <1>2, <1>3 DEF VersaoPossivel, SemTipoGuardado, SemListaLocal, TypeOK
<1>9. RespostaDoPeriodo' /\ MontadoVivo'
  BY <1>2, <1>5 DEF RespostaDoPeriodo, MontadoVivo
<1>10. SemSobreposicao'
  BY <1>1, <1>3, <1>5, <1>6 DEF SemSobreposicao, TypeOK, Pedido
<1>11. EsperaHonesta'
  <2> SUFFICES ASSUME NEW t \in Tipos, viva'[t], snapshot'[t] = "espera"
               PROVE  \E q \in pedidos' : q.tipo = t /\ q.montado
    BY DEF EsperaHonesta
  <2>1. snapshot[t] = "espera" /\ viva[t] /\ (p.montado => p.tipo # t)
    BY <1>1, <1>2, <1>3 DEF TypeOK
  <2>2. PICK q \in pedidos : q.tipo = t /\ q.montado
    BY <2>1 DEF EsperaHonesta
  <2>3. q # p
    BY <2>1, <2>2
  <2>4. q \in pedidos'
    BY <2>1, <2>2, <2>3 DEF Chega, EntregaLista, Encerra
  <2> QED BY <2>2, <2>4
<1>12. IdsDistintos'
  <2>1. CASE p.montado
    <3> DEFINE g == [r \in pedidos \ {p} |-> IF r.tipo = p.tipo /\ r.montado
                                           THEN [r EXCEPT !.sobreposto = TRUE] ELSE r]
    <3>1. pedidos' = {g[r] : r \in pedidos \ {p}}
      BY <2>1, Zenon DEF Chega, EntregaLista
    <3>2. \A r \in pedidos \ {p} : g[r].id = r.id
      BY DEF TypeOK, Pedido
    <3> HIDE DEF g
    <3> QED BY <3>1, <3>2, ReescritaMantemIds DEF IdsDistintos
  <2>2. CASE ~p.montado
    BY <2>2 DEF Chega, EntregaLista, Encerra, IdsDistintos
  <2> QED BY <2>1, <2>2
<1> QED BY <1>7, <1>8, <1>9, <1>10, <1>11, <1>12

(* Every step of a call in flight keeps the invariant. *)
LEMMA AndamentoPreserva == ASSUME IInv, NEW p \in pedidos, Andamento(p) PROVE IInv'
<1> USE DEF IInv
<1>1. p \in Pedido /\ p.tipo \in Tipos
  BY DEF TypeOK, Pedido
<1>2. ASSUME NEW f \in {"http", "banco"}, Passa(p, f),
             UNCHANGED <<servidor, tabela, viva, snapshot, versao>>
      PROVE  IInv'
  <2> DEFINE n == [p EXCEPT !.fase = f]
  <2>1. /\ n \in Pedido /\ n.fase = f /\ n.tipo = p.tipo /\ n.emissao = p.emissao
        /\ n.montado = p.montado /\ n.sobreposto = p.sobreposto /\ n.id = p.id
    BY <1>1 DEF Pedido, Fases
  <2>2. pedidos' = (pedidos \ {p}) \cup {n}
    BY <1>2 DEF Passa
  <2> HIDE DEF n
  <2>3. TypeOK' /\ VersaoPossivel' /\ SemTipoGuardado' /\ SemListaLocal'
    BY <1>2, <2>1, <2>2 DEF TypeOK, VersaoPossivel, SemTipoGuardado,
                            SemListaLocal
  <2>4. RespostaDoPeriodo'
    BY <1>2, <2>1, <2>2 DEF RespostaDoPeriodo
  <2>5. MontadoVivo' /\ SemSobreposicao'
    BY <1>2, <2>1, <2>2 DEF MontadoVivo, SemSobreposicao
  <2>6. EsperaHonesta'
    BY <1>2, <2>1, <2>2 DEF EsperaHonesta
  <2>7. IdsDistintos'
    BY <2>1, <2>2 DEF IdsDistintos
  <2> QED BY <2>3, <2>4, <2>5, <2>6, <2>7
<1>3. ASSUME NEW rede \in Redes, NEW usuario \in BOOLEAN, Conectividade(p, rede, usuario)
      PROVE  IInv'
  BY <1>2, <1>3, ErroPreserva DEF Conectividade
<1>4. CASE BancoResponde(p)
  BY <1>4, LocalPreserva
<1>5. CASE Atende(p)
  <2> DEFINE n == [p EXCEPT !.fase = "resposta", !.v = servidor[p.tipo]]
  <2>1. /\ n \in Pedido /\ n.fase = "resposta" /\ n.v = servidor[p.tipo]
        /\ n.tipo = p.tipo /\ n.emissao = p.emissao
        /\ n.montado = p.montado /\ n.sobreposto = p.sobreposto /\ n.id = p.id
    BY <1>1 DEF Pedido, Fases, TypeOK
  <2>2. /\ pedidos' = (pedidos \ {p}) \cup {n}
        /\ UNCHANGED <<servidor, tabela, viva, snapshot, versao>>
    BY <1>5 DEF Atende
  <2> HIDE DEF n
  <2>3. TypeOK' /\ VersaoPossivel' /\ SemTipoGuardado' /\ SemListaLocal'
    BY <2>1, <2>2 DEF TypeOK, VersaoPossivel, SemTipoGuardado, SemListaLocal
  <2>4. RespostaDoPeriodo'
    BY <1>1, <2>1, <2>2 DEF RespostaDoPeriodo, TypeOK, Versoes
  <2>5. MontadoVivo' /\ SemSobreposicao'
    BY <2>1, <2>2 DEF MontadoVivo, SemSobreposicao
  <2>6. EsperaHonesta'
    BY <2>1, <2>2 DEF EsperaHonesta
  <2>7. IdsDistintos'
    BY <2>1, <2>2 DEF IdsDistintos
  <2> QED BY <2>3, <2>4, <2>5, <2>6, <2>7
<1>6. CASE Falha(p)
  BY <1>6, ErroPreserva DEF Falha
<1>7. CASE Chega(p)
  BY <1>7, ListaPreserva
<1> QED BY <1>3, <1>4, <1>5, <1>6, <1>7 DEF Andamento

(* The invariant is inductive. *)
LEMMA PassoPreserva == IInv /\ [Next]_vars => IInv'
<1> SUFFICES ASSUME IInv, [Next]_vars PROVE IInv'
  OBVIOUS
<1>1. CASE \E t \in Tipos : Pagina(t) \/ Muda(t)
  BY <1>1, PaginaPreserva, MudaPreserva
<1>2. CASE \E p \in pedidos : Andamento(p)
  BY <1>2, AndamentoPreserva
<1>3. CASE Desmonta
  BY <1>3, DesmontaPreserva
<1>4. CASE UNCHANGED vars
  BY <1>4 DEF vars, IInv, TypeOK, IdsDistintos, VersaoPossivel, RespostaDoPeriodo,
              MontadoVivo, SemSobreposicao, SemTipoGuardado, SemListaLocal, EsperaHonesta
<1> QED BY <1>1, <1>2, <1>3, <1>4 DEF Next

(* The strengthened invariant holds in every reachable state.              *)
THEOREM Invariancia == Spec => []IInv
BY Inicio, PassoPreserva, PTL DEF Spec

(* Every reachable state is well typed (the bounds included).              *)
THEOREM TipoCorreto == Spec => []TypeOK
<1>1. IInv => TypeOK
  BY DEF IInv
<1> QED BY <1>1, Invariancia, PTL

(* A mounted page that shows the first spinner has a fetch of its own in   *)
(* flight (carros_page.dart:151), for every number of pages and fetches.   *)
THEOREM EsperaSempreHonesta == Spec => []EsperaHonesta
<1>1. IInv => EsperaHonesta
  BY DEF IInv
<1> QED BY <1>1, Invariancia, PTL

(* Nothing is ever listed offline (carros_bloc.dart:37).                   *)
THEOREM NuncaListaLocal == Spec => []SemListaLocal
<1>1. IInv => SemListaLocal
  BY DEF IInv
<1> QED BY <1>1, Invariancia, PTL

(* A page goes back to an older list only through a fetch that another one *)
(* of the same page overtook (carros_bloc.dart:57).                        *)
THEOREM RegressoSoPorSobreposicao == Spec => RegressoSoComSobreposicao
<1> DEFINE Regresso ==
      \A t \in Tipos : viva[t] /\ viva'[t] /\ versao'[t] < versao[t] =>
          \E p \in pedidos \ pedidos' : p.tipo = t /\ p.montado /\ p.sobreposto
<1>1. ASSUME IInv, [Next]_vars
      PROVE  [Regresso]_vars
  <2> SUFFICES ASSUME NEW t \in Tipos, viva[t], viva'[t], versao'[t] < versao[t]
               PROVE  \E p \in pedidos \ pedidos' : p.tipo = t /\ p.montado /\ p.sobreposto
    BY DEF Regresso
  <2>1. versao \in [Tipos -> Versoes] /\ viva \in [Tipos -> BOOLEAN]
    BY <1>1 DEF IInv, TypeOK
  <2>2. ~ UNCHANGED versao
    BY <2>1 DEF Versoes
  <2>3. ~ Desmonta
    BY Zenon DEF Desmonta
  <2>4. \A u \in Tipos : ~ Pagina(u) /\ ~ Muda(u)
    BY <2>2 DEF Pagina, Monta, OnRefresh, Evento, Muda
  <2>5. PICK p \in pedidos : Andamento(p)
    BY <1>1, <2>2, <2>3, <2>4 DEF Next, vars
  <2>6. Chega(p)
    BY <2>2, <2>5 DEF Andamento, Conectividade, BancoResponde, Atende, Falha, EntregaLocal,
                      EntregaErro
  <2>7. p.montado /\ versao' = [versao EXCEPT ![p.tipo] = p.v] /\ p.fase = "resposta"
    BY <2>2, <2>6 DEF Chega, EntregaLista
  <2>8. p \in Pedido /\ p.tipo = t /\ versao'[t] = p.v /\ p.emissao <= p.v
    BY <1>1, <2>1, <2>2, <2>7 DEF IInv, TypeOK, Pedido, RespostaDoPeriodo, Versoes
  <2>9. p.sobreposto
    BY <1>1, <2>1, <2>7, <2>8 DEF IInv, SemSobreposicao, Pedido, Versoes
  <2>10. p \notin pedidos'
    <3> SUFFICES ASSUME p \in pedidos' PROVE FALSE
      OBVIOUS
    <3>1. PICK q \in pedidos \ {p} :
             p = IF q.tipo = p.tipo /\ q.montado THEN [q EXCEPT !.sobreposto = TRUE] ELSE q
      BY <2>6, <2>7 DEF Chega, EntregaLista
    <3>2. p \in Pedido /\ q \in Pedido /\ q \in pedidos
      BY <1>1 DEF IInv, TypeOK
    <3>3. p.id = q.id
      BY <3>1, <3>2 DEF Pedido
    <3> QED BY <1>1, <3>1, <3>2, <3>3 DEF IInv, IdsDistintos
  <2> QED BY <2>7, <2>8, <2>9, <2>10
<1> QED BY <1>1, Invariancia, PTL DEF Spec, RegressoSoComSobreposicao, Regresso

-----------------------------------------------------------------------------
(* The fetches implement Vitrine.                                          *)

(* What the fetches of S owe to the page of t.                             *)
Dev(S, t) == {p.emissao : p \in {q \in S : q.tipo = t /\ q.montado}}

(* Two fetches that owe the same to the same page.                         *)
Iguais(q, r) == q.tipo = r.tipo /\ q.emissao = r.emissao /\ q.montado = r.montado

LEMMA DevidasDe == /\ Devidas = [t \in Tipos |-> Dev(pedidos, t)]
                   /\ Devidas' = [t \in Tipos |-> Dev(pedidos', t)]
BY DEF Devidas, Dev

LEMMA DevIgual ==
    ASSUME NEW S, NEW R, NEW t,
           \A q \in S : \E r \in R : Iguais(q, r),
           \A r \in R : \E q \in S : Iguais(q, r)
    PROVE  Dev(S, t) = Dev(R, t)
<1>1. ASSUME NEW n \in Dev(S, t) PROVE n \in Dev(R, t)
  <2>1. PICK q \in S : q.tipo = t /\ q.montado /\ n = q.emissao
    BY <1>1 DEF Dev
  <2>2. PICK r \in R : Iguais(q, r)
    OBVIOUS
  <2> QED BY <2>1, <2>2 DEF Dev, Iguais
<1>2. ASSUME NEW n \in Dev(R, t) PROVE n \in Dev(S, t)
  <2>1. PICK r \in R : r.tipo = t /\ r.montado /\ n = r.emissao
    BY <1>2 DEF Dev
  <2>2. PICK q \in S : Iguais(q, r)
    OBVIOUS
  <2> QED BY <2>1, <2>2 DEF Dev, Iguais
<1> QED BY <1>1, <1>2

(* Taking a fetch away pays at most the debt of that fetch.                *)
LEMMA DevMenos ==
    ASSUME NEW S, NEW p \in S, NEW t
    PROVE  /\ Dev(S \ {p}, t) = Dev(S, t) \/ Dev(S \ {p}, t) = Dev(S, t) \ {p.emissao}
           /\ p.tipo # t \/ ~p.montado => Dev(S \ {p}, t) = Dev(S, t)
           /\ p.tipo = t /\ p.montado => p.emissao \in Dev(S, t)
<1>1. Dev(S \ {p}, t) \subseteq Dev(S, t)
  BY DEF Dev
<1>2. \A n \in Dev(S, t) : n \in Dev(S \ {p}, t) \/ n = p.emissao
  BY DEF Dev
<1>3. p.tipo # t \/ ~p.montado => \A n \in Dev(S, t) : n \in Dev(S \ {p}, t)
  BY DEF Dev
<1>4. p.tipo = t /\ p.montado => p.emissao \in Dev(S, t)
  BY DEF Dev
<1> QED BY <1>1, <1>2, <1>3, <1>4

LEMMA DevAlheia ==
    ASSUME NEW S, NEW p \in S, NEW t
    PROVE  p.tipo # t \/ ~p.montado => Dev(S \ {p}, t) = Dev(S, t)
BY DevMenos

LEMMA InicioVitrine == Init => V!Init
BY DEF Init, V!Init, Devidas

(* A fetch that begins is a demand of its page.                            *)
LEMMA FetchPede ==
    ASSUME IInv, NEW t \in Tipos, NEW x \in BOOLEAN, HaVaga, Fetch(t, x)
    PROVE  Devidas' = [Devidas EXCEPT ![t] = @ \cup {servidor[t]}]
<1>1. PICK n \in Pedido : /\ pedidos' = pedidos \cup {n}
                          /\ n.tipo = t /\ n.montado /\ n.emissao = servidor[t]
  BY FetchOK
<1>2. \A u \in Tipos : Dev(pedidos', u) = IF u = t THEN Dev(pedidos, u) \cup {servidor[t]}
                                                  ELSE Dev(pedidos, u)
  <2> TAKE u \in Tipos
  <2>1. \A m \in Dev(pedidos, u) : m \in Dev(pedidos', u)
    BY <1>1 DEF Dev
  <2>2. \A m \in Dev(pedidos', u) : m \in Dev(pedidos, u) \/ (u = t /\ m = servidor[t])
    BY <1>1 DEF Dev
  <2>3. u = t => servidor[t] \in Dev(pedidos', u)
    BY <1>1 DEF Dev
  <2> QED BY <2>1, <2>2, <2>3
<1> QED BY <1>2, DevidasDe

(* A fetch that ends pays its own debt, if its page is still there.        *)
LEMMA FimPaga ==
    ASSUME IInv, NEW p \in pedidos,
           \A q \in pedidos' : \E r \in pedidos \ {p} : Iguais(q, r),
           \A r \in pedidos \ {p} : \E q \in pedidos' : Iguais(q, r)
    PROVE  /\ ~p.montado => Devidas' = Devidas
           /\ p.montado => /\ p.emissao \in Devidas[p.tipo]
                           /\ \/ Devidas' = Devidas
                              \/ Devidas' = [Devidas EXCEPT ![p.tipo] = @ \ {p.emissao}]
<1>1. \A t \in Tipos : Dev(pedidos', t) = Dev(pedidos \ {p}, t)
  BY DevIgual
<1>2. p.tipo \in Tipos
  BY DEF IInv, TypeOK, Pedido
<1>3. \A t \in Tipos : t # p.tipo \/ ~p.montado => Dev(pedidos', t) = Dev(pedidos, t)
  <2> TAKE t \in Tipos
  <2>1. p.tipo # t \/ ~p.montado => Dev(pedidos \ {p}, t) = Dev(pedidos, t)
    BY DevAlheia
  <2> QED BY <1>1, <2>1
<1>4. \/ Dev(pedidos', p.tipo) = Dev(pedidos, p.tipo)
      \/ Dev(pedidos', p.tipo) = Dev(pedidos, p.tipo) \ {p.emissao}
  BY <1>1, <1>2, DevMenos
<1>5. p.montado => p.emissao \in Dev(pedidos, p.tipo)
  BY DevMenos
<1>6. Devidas[p.tipo] = Dev(pedidos, p.tipo)
  BY <1>2, DevidasDe
<1>7. ~p.montado => Devidas' = Devidas
  BY <1>3, DevidasDe
<1>8. ASSUME Dev(pedidos', p.tipo) = Dev(pedidos, p.tipo), p.montado
      PROVE  Devidas' = Devidas
  BY <1>3, <1>8, DevidasDe
<1>9. ASSUME Dev(pedidos', p.tipo) = Dev(pedidos, p.tipo) \ {p.emissao}, p.montado
      PROVE  Devidas' = [Devidas EXCEPT ![p.tipo] = @ \ {p.emissao}]
  BY <1>2, <1>3, <1>9, DevidasDe
<1> QED BY <1>4, <1>5, <1>6, <1>7, <1>8, <1>9

(* A fetch that only goes on pays nothing.                                 *)
LEMMA SegueNaoPaga ==
    ASSUME NEW p \in pedidos, NEW n, Iguais(n, p), pedidos' = (pedidos \ {p}) \cup {n}
    PROVE  Devidas' = Devidas
<1>1. \A q \in pedidos' : \E r \in pedidos : Iguais(q, r)
  BY DEF Iguais
<1>2. \A r \in pedidos : \E q \in pedidos' : Iguais(q, r)
  <2> TAKE r \in pedidos
  <2>1. CASE r = p
    BY <2>1
  <2>2. CASE r # p
    BY <2>2 DEF Iguais
  <2> QED BY <2>1, <2>2
<1>3. ASSUME NEW t \in Tipos
      PROVE  Dev(pedidos', t) = Dev(pedidos, t)
  BY ONLY <1>1, <1>2, DevIgual
<1> QED BY <1>3, DevidasDe

(* Delivering an error.                                                    *)
LEMMA ErroVitrine ==
    ASSUME IInv, NEW p \in pedidos, EntregaErro(p), UNCHANGED <<servidor, tabela, viva>>
    PROVE  [V!Next]_(V!vars)
<1>0. p \in Pedido /\ p.tipo \in Tipos
  BY DEF IInv, TypeOK, Pedido
<1>1. \A q \in pedidos' : \E r \in pedidos \ {p} : Iguais(q, r)
  <2> TAKE q \in pedidos'
  <2>1. PICK r \in pedidos \ {p} : q = r \/ q = [r EXCEPT !.puxa = FALSE]
    BY DEF EntregaErro, Encerra
  <2>2. r \in Pedido
    BY DEF IInv, TypeOK
  <2> QED BY <2>1, <2>2 DEF Pedido, Iguais
<1>2. \A r \in pedidos \ {p} : \E q \in pedidos' : Iguais(q, r)
  <2> TAKE r \in pedidos \ {p}
  <2>1. r \in pedidos' \/ [r EXCEPT !.puxa = FALSE] \in pedidos'
    BY DEF EntregaErro, Encerra
  <2>2. r \in Pedido
    BY DEF IInv, TypeOK
  <2> QED BY <2>1, <2>2 DEF Pedido, Iguais
<1>3. CASE p.montado
  <2>1. /\ p.emissao \in Devidas[p.tipo]
        /\ \/ Devidas' = Devidas
           \/ Devidas' = [Devidas EXCEPT ![p.tipo] = @ \ {p.emissao}]
    BY <1>1, <1>2, <1>3, FimPaga
  <2>2. V!Desiste(p.tipo, p.emissao)
    BY <1>3, <2>1 DEF EntregaErro, V!Desiste, V!Paga
  <2> QED BY <1>0, <2>1, <2>2 DEF V!Next
<1>4. CASE ~p.montado
  <2>1. Devidas' = Devidas
    BY <1>1, <1>2, <1>4, FimPaga
  <2> QED BY <1>4, <2>1 DEF EntregaErro, V!vars
<1> QED BY <1>3, <1>4

(* Delivering the rows of the database, of which none is found.            *)
LEMMA LocalVitrine ==
    ASSUME IInv, NEW p \in pedidos, BancoResponde(p)
    PROVE  [V!Next]_(V!vars)
<1>0. p \in Pedido /\ p.tipo \in Tipos /\ p.tipo \notin tabela
  BY DEF IInv, TypeOK, Pedido, SemTipoGuardado
<1>1. /\ snapshot' = IF p.montado THEN [snapshot EXCEPT ![p.tipo] = "vazia"] ELSE snapshot
      /\ pedidos' = pedidos \ {p}
      /\ UNCHANGED <<servidor, viva, versao>>
  BY <1>0 DEF BancoResponde, EntregaLocal, Encerra
<1>2. /\ \A q \in pedidos' : \E r \in pedidos \ {p} : Iguais(q, r)
      /\ \A r \in pedidos \ {p} : \E q \in pedidos' : Iguais(q, r)
  BY <1>1 DEF Iguais
<1>3. CASE p.montado
  <2>1. /\ p.emissao \in Devidas[p.tipo]
        /\ \/ Devidas' = Devidas
           \/ Devidas' = [Devidas EXCEPT ![p.tipo] = @ \ {p.emissao}]
    BY <1>2, <1>3, FimPaga
  <2>2. V!Desiste(p.tipo, p.emissao)
    BY <1>1, <1>3, <2>1 DEF V!Desiste, V!Paga
  <2> QED BY <1>0, <2>1, <2>2 DEF V!Next
<1>4. CASE ~p.montado
  <2>1. Devidas' = Devidas
    BY <1>2, <1>4, FimPaga
  <2> QED BY <1>1, <1>4, <2>1 DEF V!vars
<1> QED BY <1>3, <1>4

(* Delivering a list: it is not older than the demand it answers.          *)
LEMMA ListaVitrine ==
    ASSUME IInv, NEW p \in pedidos, Chega(p)
    PROVE  [V!Next]_(V!vars)
<1>0. p \in Pedido /\ p.tipo \in Tipos
  BY DEF IInv, TypeOK, Pedido
<1>1. p.v \in p.emissao .. servidor[p.tipo]
  BY <1>0 DEF IInv, TypeOK, Pedido, Versoes, RespostaDoPeriodo, Chega
<1>2. /\ snapshot' = IF p.montado THEN [snapshot EXCEPT ![p.tipo] = "lista"] ELSE snapshot
      /\ versao' = IF p.montado THEN [versao EXCEPT ![p.tipo] = p.v] ELSE versao
      /\ UNCHANGED <<servidor, viva>>
  BY DEF Chega, EntregaLista
<1>3. \A q \in pedidos' : \E r \in pedidos \ {p} : Iguais(q, r)
  <2> TAKE q \in pedidos'
  <2>1. PICK r \in pedidos \ {p} : q = r \/ q = [r EXCEPT !.sobreposto = TRUE]
    BY DEF Chega, EntregaLista, Encerra
  <2>2. r \in Pedido
    BY DEF IInv, TypeOK
  <2> QED BY <2>1, <2>2 DEF Pedido, Iguais
<1>4. \A r \in pedidos \ {p} : \E q \in pedidos' : Iguais(q, r)
  <2> TAKE r \in pedidos \ {p}
  <2>1. r \in pedidos' \/ [r EXCEPT !.sobreposto = TRUE] \in pedidos'
    BY DEF Chega, EntregaLista, Encerra
  <2>2. r \in Pedido
    BY DEF IInv, TypeOK
  <2> QED BY <2>1, <2>2 DEF Pedido, Iguais
<1>5. CASE p.montado
  <2>1. /\ p.emissao \in Devidas[p.tipo]
        /\ \/ Devidas' = Devidas
           \/ Devidas' = [Devidas EXCEPT ![p.tipo] = @ \ {p.emissao}]
    BY <1>3, <1>4, <1>5, FimPaga
  <2>2. V!MostraLista(p.tipo, p.emissao)
    BY <1>1, <1>2, <1>5, <2>1 DEF V!MostraLista, V!Paga
  <2> QED BY <1>0, <2>1, <2>2 DEF V!Next
<1>6. CASE ~p.montado
  <2>1. Devidas' = Devidas
    BY <1>3, <1>4, <1>6, FimPaga
  <2> QED BY <1>2, <1>6, <2>1 DEF V!vars
<1> QED BY <1>5, <1>6

LEMMA AndamentoVitrine ==
    ASSUME IInv, NEW p \in pedidos, Andamento(p)
    PROVE  [V!Next]_(V!vars)
<1>0. p \in Pedido
  BY DEF IInv, TypeOK
<1>1. ASSUME NEW f \in {"http", "banco"}, Passa(p, f), UNCHANGED <<servidor, viva, snapshot, versao>>
      PROVE  UNCHANGED V!vars
  <2>1. Iguais([p EXCEPT !.fase = f], p)
    BY <1>0 DEF Pedido, Iguais
  <2> QED BY <1>1, <2>1, SegueNaoPaga DEF Passa, V!vars
<1>2. ASSUME NEW rede \in Redes, NEW usuario \in BOOLEAN, Conectividade(p, rede, usuario)
      PROVE  [V!Next]_(V!vars)
  BY <1>1, <1>2, ErroVitrine DEF Conectividade
<1>3. CASE Atende(p)
  <2>1. Iguais([p EXCEPT !.fase = "resposta", !.v = servidor[p.tipo]], p)
    BY <1>0 DEF Pedido, Iguais
  <2>2. Devidas' = Devidas
    BY <1>3, <2>1, SegueNaoPaga DEF Atende
  <2> QED BY <1>3, <2>2 DEF Atende, V!vars
<1>4. CASE Falha(p)
  BY <1>4, ErroVitrine DEF Falha
<1> QED BY <1>2, <1>3, <1>4, LocalVitrine, ListaVitrine DEF Andamento

(* Every step of the list of cars is one of Vitrine, or changes nothing of *)
(* what Vitrine speaks of.                                                 *)
LEMMA PassoVitrine == IInv /\ [Next]_vars => [V!Next]_(V!vars)
<1> SUFFICES ASSUME IInv, [Next]_vars PROVE [V!Next]_(V!vars)
  OBVIOUS
<1>1. ASSUME NEW t \in Tipos, Monta(t)
      PROVE  V!Abre(t)
  <2>1. Devidas' = [Devidas EXCEPT ![t] = @ \cup {servidor[t]}]
    BY <1>1, FetchPede DEF Monta
  <2>2. Devidas[t] = {}
    BY <1>1 DEF Monta, Devidas, IInv, MontadoVivo
  <2>3. Devidas' = [Devidas EXCEPT ![t] = {servidor[t]}]
    BY <2>1, <2>2
  <2> QED BY <1>1, <2>3 DEF Monta, V!Abre
<1>2. ASSUME NEW t \in Tipos, OnRefresh(t) \/ Evento(t)
      PROVE  V!Pede(t)
  <2>1. Devidas' = [Devidas EXCEPT ![t] = @ \cup {servidor[t]}]
    BY <1>2, FetchPede DEF OnRefresh, Evento
  <2> QED BY <1>2, <2>1 DEF OnRefresh, Evento, V!Pede
<1>3. ASSUME NEW t \in Tipos, Muda(t)
      PROVE  V!Muda(t)
  <2>1. Devidas' = Devidas
    BY <1>3 DEF Muda, Devidas
  <2> QED BY <1>3, <2>1 DEF Muda, V!Muda
<1>4. CASE Desmonta
  <2>1. \A q \in pedidos' : ~q.montado
    <3> TAKE q \in pedidos'
    <3>1. PICK p \in pedidos : q = [p EXCEPT !.montado = FALSE, !.puxa = FALSE]
      BY <1>4 DEF Desmonta
    <3> QED BY <3>1 DEF IInv, TypeOK, Pedido
  <2>2. Devidas' = [t \in Tipos |-> {}]
    BY <2>1 DEF Devidas
  <2>3. /\ viva' = [t \in Tipos |-> FALSE]
        /\ snapshot' = [t \in Tipos |-> "espera"]
        /\ versao' = [t \in Tipos |-> 0]
        /\ UNCHANGED servidor
    BY <1>4, Zenon DEF Desmonta
  <2>4. V!Fecha
    BY <2>2, <2>3, Zenon DEF V!Fecha
  <2> QED BY <2>4 DEF V!Next
<1>5. CASE UNCHANGED vars
  BY <1>5 DEF vars, V!vars, Devidas
<1> QED BY <1>1, <1>2, <1>3, <1>4, <1>5, AndamentoVitrine DEF Next, Pagina, V!Next

(* A fetch of a page that stays mounted waits while others run, goes on to *)
(* its next phase, or ends: in a list that is not older than its demand,   *)
(* or in an error or the empty answer.                                     *)
Fim(p) == \/ versao'[p.tipo] >= p.emissao
          \/ snapshot'[p.tipo] \in {"erro", "vazia"} /\ \A q \in pedidos' : q.id # p.id

Continua(q, p) == Iguais(q, p) /\ q.id = p.id

Avanca(q, p) == /\ Continua(q, p)
                /\ \/ p.fase = "rede" /\ q.fase \in {"banco", "http"}
                   \/ p.fase = "http" /\ q.fase = "resposta"

LEMMA ErroEncerra ==
    ASSUME IInv, NEW p \in pedidos, p.montado, EntregaErro(p) PROVE Fim(p)
<1>0. p \in Pedido /\ p.tipo \in Tipos /\ \A q \in pedidos \ {p} : q.id # p.id
  BY DEF IInv, TypeOK, Pedido, IdsDistintos
<1>1. snapshot' = [snapshot EXCEPT ![p.tipo] = "erro"]
  BY DEF EntregaErro
<1>2. \A q \in pedidos' : \E r \in pedidos \ {p} : q = r \/ q = [r EXCEPT !.puxa = FALSE]
  BY DEF EntregaErro
<1>3. \A q \in pedidos' : \E r \in pedidos \ {p} : q.id = r.id
  BY <1>2 DEF IInv, TypeOK, Pedido
<1> QED BY <1>0, <1>1, <1>3 DEF Fim, IInv, TypeOK

(* Its own step always gets it further.                                    *)
LEMMA ProprioPasso ==
    ASSUME IInv, NEW p \in pedidos, p.montado, Andamento(p)
    PROVE  (\E q \in pedidos' : Avanca(q, p)) \/ Fim(p)
<1>0. p \in Pedido /\ p.tipo \in Tipos
  BY DEF IInv, TypeOK, Pedido
<1>1. ASSUME NEW f \in {"banco", "http"}, Passa(p, f), p.fase = "rede"
      PROVE  \E q \in pedidos' : Avanca(q, p)
  <2>1. Avanca([p EXCEPT !.fase = f], p)
    BY <1>0, <1>1 DEF Pedido, Iguais, Continua, Avanca
  <2> QED BY <1>1, <2>1 DEF Passa
<1>2. CASE Atende(p)
  <2>1. Avanca([p EXCEPT !.fase = "resposta", !.v = servidor[p.tipo]], p)
    BY <1>0, <1>2 DEF Pedido, Iguais, Continua, Avanca, Atende
  <2> QED BY <1>2, <2>1 DEF Atende
<1>3. CASE BancoResponde(p)
  <2>1. snapshot'[p.tipo] = "vazia" /\ pedidos' = pedidos \ {p}
    BY <1>0, <1>3 DEF BancoResponde, EntregaLocal, Encerra, IInv, TypeOK, SemTipoGuardado
  <2> QED BY <2>1 DEF IInv, IdsDistintos, Fim
<1>4. CASE Chega(p)
  <2>1. versao' = [versao EXCEPT ![p.tipo] = p.v] /\ p.emissao <= p.v
    BY <1>4 DEF Chega, EntregaLista, IInv, RespostaDoPeriodo
  <2> QED BY <1>0, <2>1 DEF Fim, IInv, TypeOK, Pedido, Versoes
<1> QED BY <1>1, <1>2, <1>3, <1>4, ErroEncerra DEF Andamento, Conectividade, Falha

(* The steps of others leave it where it is.                               *)
LEMMA PassoAlheio ==
    ASSUME IInv, [Next]_vars, NEW p \in pedidos, p.montado, viva'[p.tipo], ~Andamento(p)
    PROVE  \E q \in pedidos' : Continua(q, p) /\ q.fase = p.fase
<1>0. p \in Pedido /\ p.tipo \in Tipos
  BY DEF IInv, TypeOK, Pedido
<1>1. ASSUME p \in pedidos' PROVE \E q \in pedidos' : Continua(q, p) /\ q.fase = p.fase
  BY <1>1 DEF Iguais, Continua
<1>2. ASSUME NEW t \in Tipos, Monta(t) \/ OnRefresh(t) \/ Evento(t) \/ Muda(t)
      PROVE  p \in pedidos'
  BY <1>2 DEF Monta, OnRefresh, Evento, Muda, Fetch
<1>3. ~ Desmonta
  BY <1>0, Zenon DEF Desmonta
<1>4. ASSUME NEW r \in pedidos, Andamento(r), r # p
      PROVE  \E q \in pedidos' : Continua(q, p) /\ q.fase = p.fase
  <2>1. CASE Chega(r)
    <3>1. p \in pedidos' \/ [p EXCEPT !.sobreposto = TRUE] \in pedidos'
      BY <1>4, <2>1 DEF Chega, EntregaLista, Encerra
    <3> QED BY <1>0, <3>1 DEF Pedido, Iguais, Continua
  <2>2. CASE EntregaErro(r)
    <3>1. p \in pedidos' \/ [p EXCEPT !.puxa = FALSE] \in pedidos'
      BY <1>4, <2>2 DEF EntregaErro, Encerra
    <3> QED BY <1>0, <3>1 DEF Pedido, Iguais, Continua
  <2>3. CASE ~Chega(r) /\ ~EntregaErro(r)
    <3>1. p \in pedidos'
      BY <1>4, <2>3 DEF Andamento, Conectividade, BancoResponde, Atende, Falha, Passa,
                        EntregaLocal, Encerra
    <3> QED BY <1>1, <3>1
  <2> QED BY <2>1, <2>2, <2>3
<1>5. CASE UNCHANGED vars
  BY <1>1, <1>5 DEF vars
<1> QED BY <1>1, <1>2, <1>3, <1>4, <1>5 DEF Next, Pagina

(* So it is not lost.                                                      *)
LEMMA FetchNaoSePerde ==
    ASSUME IInv, [Next]_vars, NEW p \in pedidos, p.montado, viva'[p.tipo]
    PROVE  \/ \E q \in pedidos' : Iguais(q, p)
           \/ versao'[p.tipo] >= p.emissao
           \/ snapshot'[p.tipo] # "lista" /\ \A q \in pedidos' : q.id # p.id
<1>1. CASE Andamento(p)
  BY <1>1, ProprioPasso DEF Avanca, Continua, Fim
<1>2. CASE ~Andamento(p)
  BY <1>2, PassoAlheio DEF Continua
<1> QED BY <1>1, <1>2

(* The fetches of a page implement what Vitrine promises.                  *)
THEOREM Implementa == Spec => ImplementaVitrine
BY Invariancia, InicioVitrine, PassoVitrine, PTL DEF Spec, ImplementaVitrine, V!Spec

-----------------------------------------------------------------------------
(* A page shows what it asked for, in the end.  The prover knows nothing   *)
(* of ENABLED: that a fetch in flight is enabled (NuncaPreso), which holds *)
(* by the shape of the guards, is a hypothesis; the rest is proved.        *)

(* The fetch i, asked for by the page of t at version n or later.          *)
Traz(i, t, n, fases) ==
    \E p \in pedidos : /\ p.id = i /\ p.tipo = t /\ p.montado /\ p.emissao >= n
                       /\ p.fase \in fases

LEMMA BuscadaPorAlguem ==
    ASSUME TypeOK, NEW t \in Tipos, NEW n \in Versoes
    PROVE  Buscada(t, n) <=> \E i \in Ids : Traz(i, t, n, Fases)
BY DEF Buscada, Traz, TypeOK, Pedido

(* A step brings it to a later phase, to its end, or leaves it in its own. *)
LEMMA PassoTraz ==
    ASSUME IInv, [Next]_vars, NEW i \in Ids, NEW t \in Tipos, NEW n \in Versoes,
           NEW f \in Fases, Traz(i, t, n, {f})
    PROVE  \/ Atendida(t, n)'
           \/ Traz(i, t, n, {f})' /\ ~AndamentoDe(i)
           \/ f = "rede" /\ Traz(i, t, n, {"banco", "http"})'
           \/ f = "http" /\ Traz(i, t, n, {"resposta"})'
<1>1. PICK p \in pedidos : /\ p.id = i /\ p.tipo = t /\ p.montado /\ p.emissao >= n
                           /\ p.fase = f
  BY DEF Traz
<1>2. p \in Pedido /\ \A r \in pedidos : r.id = i => r = p
  BY <1>1 DEF IInv, TypeOK, IdsDistintos
<1>3. SUFFICES ASSUME viva'[t]
               PROVE  \/ Atendida(t, n)'
                      \/ Traz(i, t, n, {f})' /\ ~AndamentoDe(i)
                      \/ f = "rede" /\ Traz(i, t, n, {"banco", "http"})'
                      \/ f = "http" /\ Traz(i, t, n, {"resposta"})'
  BY DEF Atendida
<1>4. CASE Andamento(p)
  <2>1. CASE Fim(p)
    <3>1. versao'[t] \in Int /\ p.emissao \in Int /\ n \in Int
      BY <1>2, PassoPreserva DEF IInv, TypeOK, Versoes, Pedido
    <3> QED BY <1>1, <2>1, <3>1 DEF Fim, Atendida
  <2>2. ASSUME NEW q \in pedidos', Avanca(q, p)
        PROVE  \/ f = "rede" /\ Traz(i, t, n, {"banco", "http"})'
               \/ f = "http" /\ Traz(i, t, n, {"resposta"})'
    BY <1>1, <2>2 DEF Avanca, Continua, Iguais, Traz
  <2> QED BY <1>1, <1>4, <2>1, <2>2, ProprioPasso
<1>5. CASE ~Andamento(p)
  <2>1. ~AndamentoDe(i)
    BY <1>2, <1>5 DEF AndamentoDe
  <2>2. PICK q \in pedidos' : Continua(q, p) /\ q.fase = p.fase
    BY <1>1, <1>3, <1>5, PassoAlheio
  <2>3. Traz(i, t, n, {f})'
    BY <1>1, <2>2 DEF Continua, Iguais, Traz
  <2> QED BY <2>1, <2>3
<1> QED BY <1>4, <1>5

(* Four phases, each left by the fetch's own step.                         *)
LEMMA TrazAtende ==
    ASSUME NEW i \in Ids, NEW t \in Tipos, NEW n \in Versoes
    PROVE  /\ Spec /\ Justica(i)
           /\ [](EmVoo(i) => ENABLED <<AndamentoDe(i)>>_vars)
           => (Traz(i, t, n, Fases) ~> Atendida(t, n))
<1> DEFINE P(f) == Traz(i, t, n, {f})
           Q    == Atendida(t, n)
<1>1. \A f \in Fases : P(f) => EmVoo(i)
  BY DEF Traz, EmVoo
<1>2. Traz(i, t, n, Fases) <=> P("rede") \/ P("banco") \/ P("http") \/ P("resposta")
  BY DEF Traz, Fases
<1>3. IInv /\ [Next]_vars /\ P("rede") =>
          Q' \/ (P("rede")' /\ ~AndamentoDe(i)) \/ P("banco")' \/ P("http")'
  <2> SUFFICES ASSUME IInv, [Next]_vars, P("rede")
               PROVE  Q' \/ (P("rede")' /\ ~AndamentoDe(i)) \/ P("banco")' \/ P("http")'
    OBVIOUS
  <2>1. Traz(i, t, n, {"banco", "http"})' => P("banco")' \/ P("http")'
    BY DEF Traz
  <2> QED BY <2>1, PassoTraz DEF Fases
<1>4. IInv /\ [Next]_vars /\ P("banco") => Q' \/ (P("banco")' /\ ~AndamentoDe(i))
  BY PassoTraz DEF Fases
<1>5. IInv /\ [Next]_vars /\ P("http") =>
          Q' \/ (P("http")' /\ ~AndamentoDe(i)) \/ P("resposta")'
  BY PassoTraz DEF Fases
<1>6. IInv /\ [Next]_vars /\ P("resposta") => Q' \/ (P("resposta")' /\ ~AndamentoDe(i))
  BY PassoTraz DEF Fases
<1>7. P("rede") \/ P("banco") \/ P("http") \/ P("resposta") => EmVoo(i)
  BY <1>1 DEF Fases
<1> HIDE DEF P, Q
<1>8. /\ Spec /\ Justica(i) /\ [](EmVoo(i) => ENABLED <<AndamentoDe(i)>>_vars)
      => (P("rede") \/ P("banco") \/ P("http") \/ P("resposta") ~> Q)
  BY <1>3, <1>4, <1>5, <1>6, <1>7, Invariancia, PTL DEF Spec, Justica
<1> QED BY <1>2, <1>8, PTL DEF Q

(* Whoever of the fetches brings it.                                       *)
LEMMA AlgumTraz ==
    ASSUME NEW t \in Tipos, NEW n \in Versoes
    PROVE  Spec /\ (\A i \in Ids : (Traz(i, t, n, Fases) ~> Atendida(t, n)))
               => (Buscada(t, n) ~> Atendida(t, n))
<1>1. ASSUME NEW i \in Ids
      PROVE  (Traz(i, t, n, Fases) ~> Atendida(t, n))
                => [](Traz(i, t, n, Fases) => <>Atendida(t, n))
  BY PTL
<1>2. (\A i \in Ids : (Traz(i, t, n, Fases) ~> Atendida(t, n)))
         => \A i \in Ids : [](Traz(i, t, n, Fases) => <>Atendida(t, n))
  BY <1>1
<1>3. (\A i \in Ids : [](Traz(i, t, n, Fases) => <>Atendida(t, n)))
         => [](\A i \in Ids : Traz(i, t, n, Fases) => <>Atendida(t, n))
  OBVIOUS
<1>4. (\A i \in Ids : Traz(i, t, n, Fases) => <>Atendida(t, n))
         => ((\E i \in Ids : Traz(i, t, n, Fases)) => <>Atendida(t, n))
  OBVIOUS
<1>5. TypeOK => (Buscada(t, n) <=> \E i \in Ids : Traz(i, t, n, Fases))
  BY BuscadaPorAlguem
<1> QED BY <1>2, <1>3, <1>4, <1>5, TipoCorreto, PTL

(* Every save a page was told of, and every other change it asked for, is  *)
(* on screen in the end, unless the page gives up or is gone: for every    *)
(* number of pages, fetches and changes, if a fetch in flight is enabled.  *)
THEOREM NovidadeSempreAparece == LiveSpec /\ []NuncaPreso => NovidadeAparece
<1>1. \A t \in Tipos : \A n \in Versoes : \A i \in Ids :
         /\ Spec /\ Justica(i) /\ [](EmVoo(i) => ENABLED <<AndamentoDe(i)>>_vars)
         => (Traz(i, t, n, Fases) ~> Atendida(t, n))
  <2>1. ASSUME NEW t \in Tipos, NEW n \in Versoes, NEW i \in Ids
        PROVE  /\ Spec /\ Justica(i) /\ [](EmVoo(i) => ENABLED <<AndamentoDe(i)>>_vars)
               => (Traz(i, t, n, Fases) ~> Atendida(t, n))
    BY TrazAtende, PTL
  <2> QED BY <2>1
<1>2. []NuncaPreso => \A i \in Ids : [](EmVoo(i) => ENABLED <<AndamentoDe(i)>>_vars)
  BY DEF NuncaPreso
<1>3. LiveSpec => Spec /\ \A i \in Ids : Justica(i)
  BY DEF LiveSpec
<1>4. LiveSpec /\ []NuncaPreso =>
         \A t \in Tipos : \A n \in Versoes : \A i \in Ids :
             (Traz(i, t, n, Fases) ~> Atendida(t, n))
  BY <1>1, <1>2, <1>3
<1>5. \A t \in Tipos : \A n \in Versoes :
         Spec /\ (\A i \in Ids : (Traz(i, t, n, Fases) ~> Atendida(t, n)))
             => (Buscada(t, n) ~> Atendida(t, n))
  BY AlgumTraz
<1> QED BY <1>3, <1>4, <1>5 DEF NovidadeAparece
=============================================================================
