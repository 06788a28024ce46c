--------------------------- MODULE Carros_proofs ---------------------------
(* Proofs about Carros, for every value of the constants: the invariants   *)
(* of its parts hold in the whole, and a save the user was told of is not  *)
(* forgotten.                                                              *)
EXTENDS Carros, SequenceTheorems, TLAPS

EP == INSTANCE Edicao_proofs
BP == INSTANCE CarrosBloc_proofs

USE ConstantesOK

LEMMA DasPartes == EP!ConstantesOK /\ BP!ConstantesOK
BY DEF ConstantesOK, E!ConstantesOK, B!ConstantesOK, EP!ConstantesOK, BP!ConstantesOK

-----------------------------------------------------------------------------
(* The parts, and the parts their proofs speak of, are the same.           *)

LEMMA MesmaLista ==
    /\ B!Init <=> BP!Init
    /\ B!IInv <=> BP!IInv
    /\ B!vars = BP!vars
BY DEF B!Init, BP!Init, B!IInv, BP!IInv, B!vars, BP!vars, B!TypeOK, BP!TypeOK,
       B!IdsDistintos, BP!IdsDistintos, B!VersaoPossivel, BP!VersaoPossivel,
       B!RespostaDoPeriodo, BP!RespostaDoPeriodo, B!MontadoVivo, BP!MontadoVivo,
       B!SemSobreposicao, BP!SemSobreposicao, B!SemTipoGuardado, BP!SemTipoGuardado,
       B!SemListaLocal, BP!SemListaLocal, B!EsperaHonesta, BP!EsperaHonesta,
       B!Versoes, BP!Versoes, B!Telas, BP!Telas, B!Pedido, BP!Pedido, B!Ids, BP!Ids,
       B!Fases, BP!Fases

LEMMA MesmosPassosDaLista == B!Next <=> BP!Next
BY DEF B!Next, BP!Next, B!Pagina, BP!Pagina, B!Muda, BP!Muda, B!Andamento, BP!Andamento,
       B!Desmonta, BP!Desmonta, B!Monta, BP!Monta, B!OnRefresh, BP!OnRefresh, B!Evento,
       BP!Evento, B!Fetch, BP!Fetch, B!HaVaga, BP!HaVaga, B!IdLivre, BP!IdLivre,
       B!Conectividade, BP!Conectividade, B!BancoResponde, BP!BancoResponde, B!Atende,
       BP!Atende, B!Falha, BP!Falha, B!Chega, BP!Chega, B!EntregaLista, BP!EntregaLista,
       B!EntregaLocal, BP!EntregaLocal, B!EntregaErro, BP!EntregaErro, B!Encerra, BP!Encerra,
       B!Passa, BP!Passa, B!TipoDoCarro, BP!TipoDoCarro, B!Redes, BP!Redes, B!Ids, BP!Ids

LEMMA MesmaEdicao ==
    /\ E!Init <=> EP!Init
    /\ E!IInv <=> EP!IInv
    /\ E!vars = EP!vars
BY DEF E!Init, EP!Init, E!IInv, EP!IInv, E!vars, EP!vars, E!TypeOK, EP!TypeOK,
       E!Empilhamento, EP!Empilhamento, E!IdsDistintos, EP!IdsDistintos,
       E!DonoAlcancavel, EP!DonoAlcancavel, E!CarroDaPagina, EP!CarroDaPagina,
       E!EntreElas, EP!EntreElas, E!OkFechaQuemPediu, EP!OkFechaQuemPediu,
       E!CorpoAtual, EP!CorpoAtual, E!Pagina, EP!Pagina, E!Indices, EP!Indices,
       E!IdsVivos, EP!IdsVivos, E!TipoDe, EP!TipoDe, E!Rota, EP!Rota, E!Op, EP!Op,
       E!Rotas, EP!Rotas, E!ComNulo, EP!ComNulo

LEMMA MesmosPassosDaEdicao == E!Next <=> EP!Next
BY DEF E!Next, EP!Next, E!Toque, EP!Toque, E!Andamento, EP!Andamento, E!Descarta, EP!Descarta,
       E!AbreCarro, EP!AbreCarro, E!AbreFolha, EP!AbreFolha, E!Detalhes, EP!Detalhes,
       E!AbreMenu, EP!AbreMenu, E!Troca, EP!Troca, E!Abaixo, EP!Abaixo, E!Salvar, EP!Salvar, E!AdicionarCarro, EP!AdicionarCarro,
       E!Editar, EP!Editar, E!MapaOuVideo, EP!MapaOuVideo, E!Voltar, EP!Voltar, E!Deletar,
       EP!Deletar, E!OkDoAlerta, EP!OkDoAlerta, E!Envia, EP!Envia, E!Grava, EP!Grava,
       E!Salvou, EP!Salvou, E!Deletou, EP!Deletou, E!Recusa, EP!Recusa, E!Navega, EP!Navega,
       E!Push, EP!Push, E!Pop, EP!Pop, E!NovaOp, EP!NovaOp, E!Pagina, EP!Pagina,
       E!Alerta, EP!Alerta, E!NoTopo, EP!NoTopo, E!Topo, EP!Topo, E!Indices, EP!Indices,
       E!IdsVivos, EP!IdsVivos, E!HaRota, EP!HaRota, E!IdNovo, EP!IdNovo, E!HaVaga,
       EP!HaVaga, E!IdLivre, EP!IdLivre, E!TipoDe, EP!TipoDe, E!EventoDe, EP!EventoDe

-----------------------------------------------------------------------------
(* Every step of the whole is a step of each part, or leaves it alone.     *)

LEMMA EventoDaLista == EntregaEvento => [B!Next]_(B!vars)
BY DEF EntregaEvento, B!Next, B!Pagina, B!vars, daLista

LEMMA PassoLista == TipoSalvo /\ [Next]_vars => [B!Next]_(B!vars)
<1> SUFFICES ASSUME TipoSalvo, [Next]_vars PROVE [B!Next]_(B!vars)
  OBVIOUS
<1>1. CASE Toque
  BY <1>1, EventoDaLista DEF Toque
<1>2. ASSUME NEW o \in ops, Grava(o)
      PROVE  [B!Next]_(B!vars)
  <2>1. CASE o.acao = "salva"
    <3>1. o.corpo \in Tipos
      BY <1>2, <2>1 DEF Grava, E!Grava, TipoSalvo
    <3> QED BY <1>2, <2>1, <3>1 DEF Grava, B!Next
  <2>2. CASE o.acao # "salva"
    BY <1>2, <2>2 DEF Grava, daLista, B!vars
  <2> QED BY <2>1, <2>2
<1>3. ASSUME NEW o \in ops, Salvou(o)
      PROVE  [B!Next]_(B!vars)
  BY <1>3, EventoDaLista DEF Salvou
<1>4. ASSUME NEW o \in ops, Segue(o)
      PROVE  UNCHANGED B!vars
  BY <1>4 DEF Segue, daLista, B!vars
<1>5. ASSUME NEW d \in saindo, Descarta(d)
      PROVE  UNCHANGED B!vars
  BY <1>5 DEF Descarta, daLista, B!vars
<1>6. ASSUME NEW t \in Tipos, Aba(t) \/ Outro(t)
      PROVE  B!Next
  BY <1>6 DEF Aba, Outro, B!Next, B!Pagina
<1>7. ASSUME NEW p \in pedidos, Andamento(p)
      PROVE  B!Next
  BY <1>7 DEF Andamento, B!Next
<1>8. CASE Desmonta
  BY <1>8 DEF Desmonta, B!Next
<1>9. CASE UNCHANGED vars
  BY <1>9 DEF vars, daLista, B!vars
<1> QED BY <1>1, <1>2, <1>3, <1>4, <1>5, <1>6, <1>7, <1>8, <1>9 DEF Next

LEMMA PassoEdicao == [Next]_vars => [E!Next]_(E!vars)
<1> SUFFICES ASSUME [Next]_vars PROVE [E!Next]_(E!vars)
  OBVIOUS
<1>1. CASE Toque
  BY <1>1 DEF Toque, E!Toque, E!Next
<1>2. ASSUME NEW o \in ops, Grava(o) \/ Salvou(o) \/ Segue(o)
      PROVE  E!Next
  BY <1>2 DEF Grava, Salvou, Segue, E!Andamento, E!Next
<1>3. ASSUME NEW d \in saindo, Descarta(d)
      PROVE  E!Next
  BY <1>3 DEF Descarta, E!Next
<1>4. ASSUME NEW t \in Tipos, Aba(t) \/ Outro(t)
      PROVE  UNCHANGED E!vars
  BY <1>4 DEF Aba, Outro, daEdicao, E!vars
<1>5. ASSUME NEW p \in pedidos, Andamento(p)
      PROVE  UNCHANGED E!vars
  BY <1>5 DEF Andamento, daEdicao, E!vars
<1>6. CASE Desmonta
  BY <1>6 DEF Desmonta, daEdicao, E!vars
<1>7. CASE UNCHANGED vars
  BY <1>7 DEF vars, daEdicao, E!vars
<1> QED BY <1>1, <1>2, <1>3, <1>4, <1>5, <1>6, <1>7 DEF Next

(* So that the invariants of the parts are invariants of the whole.        *)
LEMMA PartesMantidas == IInv /\ [Next]_vars => E!IInv' /\ B!IInv'
<1> SUFFICES ASSUME IInv, [Next]_vars PROVE E!IInv' /\ B!IInv'
  OBVIOUS
<1>1. EP!IInv /\ BP!IInv
  BY MesmaLista, MesmaEdicao DEF IInv
<1>2. [EP!Next]_(EP!vars) /\ [BP!Next]_(BP!vars)
  BY PassoLista, PassoEdicao, MesmosPassosDaLista, MesmosPassosDaEdicao
     DEF IInv, E!vars, EP!vars, B!vars, BP!vars
<1>3. EP!IInv' /\ BP!IInv'
  BY <1>1, <1>2, DasPartes, EP!PassoMantem, BP!PassoPreserva
<1> QED BY <1>3, MesmaLista, MesmaEdicao, PTL

-----------------------------------------------------------------------------
(* What a save sends is a tipo.                                            *)

LEMMA TiposMantidos ==
    ASSUME TipoSalvo, UNCHANGED memoria,
           \A q \in ops' : \E o \in ops :
               /\ q.acao = o.acao /\ q.carro = o.carro /\ q.novo = o.novo
               /\ \/ q.fase = o.fase /\ q.corpo = o.corpo
                  \/ o.fase # "preparo" /\ q.corpo = o.corpo
                  \/ q.corpo = E!TipoDe(o)
    PROVE  TipoSalvo'
<1> SUFFICES ASSUME NEW q \in ops', q.acao = "salva"
             PROVE  /\ (IF q.carro = Nulo THEN q.novo ELSE memoria[q.carro]) \in Tipos
                    /\ q.fase # "preparo" => q.corpo \in Tipos
  BY DEF TipoSalvo, E!TipoDe
<1>1. PICK o \in ops :
          /\ q.acao = o.acao /\ q.carro = o.carro /\ q.novo = o.novo
          /\ \/ q.fase = o.fase /\ q.corpo = o.corpo
             \/ o.fase # "preparo" /\ q.corpo = o.corpo
             \/ q.corpo = E!TipoDe(o)
  OBVIOUS
<1>2. E!TipoDe(o) \in Tipos /\ (o.fase # "preparo" => o.corpo \in Tipos)
  BY <1>1 DEF TipoSalvo
<1> QED BY <1>1, <1>2 DEF E!TipoDe

(* Salvar writes a tipo into the Carro, for the saves under way, too.      *)
LEMMA SalvarTipos ==
    ASSUME IInv, NEW t \in Tipos, E!Salvar(t)
    PROVE  TipoSalvo'
<1> DEFINE n == E!NovaOp("salva", E!Topo.id, t)
<1>0. /\ memoria \in [Objetos -> Tipos \cup {Nulo}]
      /\ \A o \in ops : o \in E!Op
  BY DEF IInv, E!IInv, E!TypeOK, E!ComNulo
<1>1. memoria' = [c \in Objetos |-> IF c = E!Topo.carro THEN t ELSE memoria[c]]
  BY DEF E!Salvar
<1>2. \A c \in Objetos : memoria[c] \in Tipos => memoria'[c] \in Tipos
  BY <1>1
<1>3. ASSUME NEW q \in ops', q # n
      PROVE  \E o \in ops : /\ q.acao = o.acao /\ q.carro = o.carro /\ q.novo = o.novo
                            /\ q.fase = o.fase /\ q.corpo = o.corpo
  <2>1. PICK o \in ops : q = o \/ q = [o EXCEPT !.trocado = TRUE]
    BY <1>3 DEF E!Salvar
  <2> QED BY <1>0, <2>1 DEF E!Op
<1>4. /\ n.acao = "salva" /\ n.novo = t /\ n.fase = "preparo"
      /\ n.carro = E!Topo.carro
  BY DEF E!NovaOp
<1>5. E!Topo.carro \in Objetos \cup {Nulo}
  <2>1. pilha \in Seq(E!Rota) /\ pilha # <<>>
    BY DEF IInv, E!IInv, E!TypeOK, E!Salvar, E!NoTopo
  <2>2. Len(pilha) \in 1 .. Len(pilha)
    BY <2>1, EmptySeq
  <2>3. pilha[Len(pilha)] \in E!Rota
    BY <2>1, <2>2, ElementOfSeq
  <2> QED BY <2>3 DEF E!Topo, E!Rota
<1> HIDE DEF n
<1> SUFFICES ASSUME NEW q \in ops', q.acao = "salva"
             PROVE  /\ (IF q.carro = Nulo THEN q.novo ELSE memoria'[q.carro]) \in Tipos
                    /\ q.fase # "preparo" => q.corpo \in Tipos
  BY DEF TipoSalvo, E!TipoDe
<1>6. CASE q = n
  BY <1>1, <1>4, <1>5, <1>6
<1>7. CASE q # n
  <2>1. PICK o \in ops : /\ q.acao = o.acao /\ q.carro = o.carro /\ q.novo = o.novo
                         /\ q.fase = o.fase /\ q.corpo = o.corpo
    BY <1>3, <1>7
  <2>2. /\ (IF o.carro = Nulo THEN o.novo ELSE memoria[o.carro]) \in Tipos
        /\ o.fase # "preparo" => o.corpo \in Tipos
        /\ o.carro \in Objetos \cup {Nulo}
    BY <1>0, <2>1 DEF IInv, TipoSalvo, E!TipoDe, E!Op
  <2> QED BY <1>2, <2>1, <2>2
<1> QED BY <1>6, <1>7

LEMMA TiposPasso == IInv /\ [Next]_vars => TipoSalvo'
<1> SUFFICES ASSUME IInv, [Next]_vars PROVE TipoSalvo'
  OBVIOUS
<1>0. TipoSalvo /\ \A o \in ops : o \in E!Op
  BY DEF IInv, E!IInv, E!TypeOK
<1>1. CASE UNCHANGED E!vars
  BY <1>0, <1>1, TiposMantidos DEF E!vars
<1>2. ASSUME NEW t \in Tipos, E!Salvar(t)
      PROVE  TipoSalvo'
  BY <1>2, SalvarTipos
<1>3. CASE \/ \E c \in Objetos : E!AbreCarro(c) \/ E!AbreFolha(c)
           \/ E!Detalhes \/ E!AdicionarCarro \/ E!AbreMenu \/ E!Editar
           \/ E!MapaOuVideo \/ E!Voltar \/ E!OkDoAlerta
  <2>1. UNCHANGED <<memoria, ops>>
    BY <1>3 DEF E!AbreCarro, E!AbreFolha, E!Detalhes, E!AdicionarCarro, E!AbreMenu,
                E!Editar, E!MapaOuVideo, E!Navega, E!Troca, E!Voltar, E!OkDoAlerta
  <2> QED BY <1>0, <2>1, TiposMantidos
<1>4. CASE E!Deletar
  <2> DEFINE n == E!NovaOp("deleta", pilha[Len(pilha) - 1].id, Nulo)
  <2>1. ops' = ops \cup {n} /\ UNCHANGED memoria
    BY <1>4 DEF E!Deletar
  <2>2. n.acao = "deleta"
    BY DEF E!NovaOp
  <2> HIDE DEF n
  <2> SUFFICES ASSUME NEW q \in ops', q.acao = "salva"
               PROVE  /\ (IF q.carro = Nulo THEN q.novo ELSE memoria[q.carro]) \in Tipos
                      /\ q.fase # "preparo" => q.corpo \in Tipos
    BY <2>1 DEF TipoSalvo, E!TipoDe
  <2>3. q \in ops
    BY <2>1, <2>2
  <2> QED BY <1>0, <2>3 DEF TipoSalvo, E!TipoDe
<1>5. ASSUME NEW o \in ops, E!Andamento(o)
      PROVE  TipoSalvo'
  <2>1. UNCHANGED memoria
    BY <1>5 DEF E!Andamento, E!Envia, E!Grava, E!Salvou, E!Deletou, E!Recusa
  <2>2. CASE E!Envia(o)
    <3> DEFINE r == [o EXCEPT !.fase = "enviado", !.corpo = E!TipoDe(o)]
    <3>1. /\ r.acao = o.acao /\ r.carro = o.carro /\ r.novo = o.novo
          /\ r.corpo = E!TipoDe(o)
      BY <1>0 DEF E!Op
    <3>2. ops' = (ops \ {o}) \cup {r}
      BY <2>2 DEF E!Envia
    <3> HIDE DEF r
    <3> QED BY <1>0, <2>1, <3>1, <3>2, TiposMantidos
  <2>3. CASE E!Grava(o)
    <3> DEFINE r == [o EXCEPT !.fase = "gravado"]
    <3>1. /\ r.acao = o.acao /\ r.carro = o.carro /\ r.novo = o.novo
          /\ r.corpo = o.corpo /\ o.fase # "preparo"
      BY <1>0, <2>3 DEF E!Op, E!Grava
    <3>2. ops' = (ops \ {o}) \cup {r}
      BY <2>3 DEF E!Grava
    <3> HIDE DEF r
    <3> QED BY <1>0, <2>1, <3>1, <3>2, TiposMantidos
  <2>4. CASE E!Salvou(o) \/ E!Deletou(o) \/ E!Recusa(o)
    <3>1. ops' = ops \ {o}
      BY <2>4 DEF E!Salvou, E!Deletou, E!Recusa
    <3> QED BY <1>0, <2>1, <3>1, TiposMantidos
  <2> QED BY <1>5, <2>2, <2>3, <2>4 DEF E!Andamento
<1>6. ASSUME NEW d \in saindo, E!Descarta(d)
      PROVE  TipoSalvo'
  <2>1. \A q \in ops' : \E o \in ops : q = o \/ q = [o EXCEPT !.dono = 0]
    BY <1>6 DEF E!Descarta
  <2>2. \A q \in ops' : \E o \in ops : /\ q.acao = o.acao /\ q.carro = o.carro
                                       /\ q.novo = o.novo
                                       /\ q.fase = o.fase /\ q.corpo = o.corpo
    BY <1>0, <2>1 DEF E!Op
  <2>3. UNCHANGED memoria
    BY <1>6 DEF E!Descarta
  <2> QED BY <1>0, <2>2, <2>3, TiposMantidos
<1> QED BY <1>1, <1>2, <1>3, <1>4, <1>5, <1>6, PassoEdicao DEF E!Next, E!Toque

-----------------------------------------------------------------------------
(* A save the user was told of is not forgotten.                           *)

(* The fetch that will show a promise goes on, or the promise is kept.     *)
LEMMA CobrancaMantem ==
    ASSUME IInv, [Next]_vars, NEW t \in Tipos, NEW n \in 1 .. MaxVersao,
           NEW p \in pedidos, p.tipo = t, p.montado, p.emissao >= n, Resta(t, n) > 0
    PROVE  \E q \in pedidos' : q.tipo = t /\ q.montado /\ q.emissao >= n
<1>1. BP!IInv /\ [BP!Next]_(BP!vars)
  BY PassoLista, MesmaLista, MesmosPassosDaLista DEF IInv, B!vars, BP!vars
<1>2. Resta(t, n) = n /\ viva'[t] /\ ~(versao'[t] >= n)
      /\ ~(snapshot'[t] # "lista" /\ Entrega(t))
  BY DEF Resta
<1>3. \/ \E q \in pedidos' : BP!Iguais(q, p)
      \/ versao'[p.tipo] >= p.emissao
      \/ snapshot'[p.tipo] # "lista" /\ \A q \in pedidos' : q.id # p.id
  BY <1>1, <1>2, DasPartes, BP!FetchNaoSePerde
<1>4. B!IInv' /\ p \in B!Pedido
  BY PartesMantidas DEF IInv, B!IInv, B!TypeOK
<1>5. versao'[t] \in Int /\ p.emissao \in Int
  BY <1>4 DEF B!IInv, B!TypeOK, B!Versoes, B!Pedido
<1>6. ~(versao'[p.tipo] >= p.emissao)
  BY <1>2, <1>5
<1>7. ~(snapshot'[p.tipo] # "lista" /\ \A q \in pedidos' : q.id # p.id)
  BY <1>2 DEF Entrega
<1> QED BY <1>3, <1>6, <1>7 DEF BP!Iguais

LEMMA NadaPasso ==
    IInv /\ [Next]_vars => NadaEsquecido' /\ pendente' \in [Tipos -> 0 .. MaxVersao]
<1> SUFFICES ASSUME IInv, [Next]_vars
             PROVE  NadaEsquecido' /\ pendente' \in [Tipos -> 0 .. MaxVersao]
  OBVIOUS
<1>0. /\ MaxVersao \in Nat
      /\ pendente \in [Tipos -> 0 .. MaxVersao]
      /\ servidor \in [Tipos -> 0 .. MaxVersao]
  BY DEF ConstantesOK, B!ConstantesOK, IInv, B!IInv, B!TypeOK, B!Versoes
<1>1. CASE Cobra
  <2>1. \A t \in Tipos : pendente'[t] = Resta(t, pendente[t])
    BY <1>1 DEF Cobra
  <2>2. pendente' \in [Tipos -> 0 .. MaxVersao]
    BY <1>0, <1>1 DEF Cobra, Resta
  <2>3. ASSUME NEW t \in Tipos, pendente'[t] > 0
        PROVE  \E q \in pedidos' : q.tipo = t /\ q.montado /\ q.emissao >= pendente'[t]
    <3>1. pendente'[t] = pendente[t] /\ pendente[t] \in 1 .. MaxVersao
      BY <1>0, <2>1, <2>3 DEF Resta
    <3>2. PICK p \in pedidos : p.tipo = t /\ p.montado /\ p.emissao >= pendente[t]
      BY <1>0, <3>1 DEF IInv, NadaEsquecido
    <3>3. Resta(t, pendente[t]) > 0
      BY <2>1, <2>3
    <3> QED BY <3>1, <3>2, <3>3, CobrancaMantem
  <2> QED BY <2>2, <2>3 DEF NadaEsquecido
<1>2. ASSUME NEW o \in ops, Salvou(o), o.dono # 0, o.trocado => evento' = o.corpo
      PROVE  NadaEsquecido' /\ pendente' \in [Tipos -> 0 .. MaxVersao]
  <2>1. /\ o.acao = "salva" /\ o.fase = "gravado" /\ evento' = E!TipoDe(o)
    BY <1>2 DEF Salvou, E!Salvou, E!EventoDe
  <2>2. o.corpo \in Tipos /\ evento' = o.corpo
    BY <1>2, <2>1 DEF IInv, TipoSalvo, E!IInv, E!CorpoAtual
  <2>3. pendente' = [u \in Tipos |-> Resta(u, IF u = o.corpo THEN servidor[u]
                                              ELSE pendente[u])]
    BY <1>2 DEF Salvou, Promete
  <2>4. pendente' \in [Tipos -> 0 .. MaxVersao]
    BY <1>0, <2>3 DEF Resta
  <2>5. ASSUME NEW t \in Tipos, pendente'[t] > 0, t # o.corpo
        PROVE  \E q \in pedidos' : q.tipo = t /\ q.montado /\ q.emissao >= pendente'[t]
    <3>1. pendente'[t] = Resta(t, pendente[t])
      BY <2>3, <2>5
    <3>2. pendente'[t] = pendente[t] /\ pendente[t] \in 1 .. MaxVersao
      BY <1>0, <2>5, <3>1 DEF Resta
    <3>3. PICK p \in pedidos : p.tipo = t /\ p.montado /\ p.emissao >= pendente[t]
      BY <1>0, <3>2 DEF IInv, NadaEsquecido
    <3>4. Resta(t, pendente[t]) > 0
      BY <2>5, <3>1
    <3> QED BY <3>2, <3>3, <3>4, CobrancaMantem
  <2>6. ASSUME NEW t \in Tipos, pendente'[t] > 0, t = o.corpo
        PROVE  \E q \in pedidos' : q.tipo = t /\ q.montado /\ q.emissao >= pendente'[t]
    <3>1. pendente'[t] = Resta(t, servidor[t])
      BY <2>3, <2>6
    <3>2. viva'[t] /\ pendente'[t] = servidor[t]
      BY <2>6, <3>1 DEF Resta
    <3>3. EntregaEvento
      BY <1>2 DEF Salvou
    <3>4. viva[t]
      BY <2>2, <2>6, <3>2, <3>3 DEF EntregaEvento, daLista
    <3>5. B!Evento(t)
      BY <2>2, <2>6, <3>3, <3>4 DEF EntregaEvento
    <3>6. PICK q \in pedidos' : q.tipo = t /\ q.montado /\ q.emissao = servidor[t]
      <4> DEFINE f == [id |-> B!IdLivre, tipo |-> t, fase |-> "rede",
                       emissao |-> servidor[t], v |-> 0, puxa |-> FALSE,
                       montado |-> TRUE, sobreposto |-> FALSE]
      <4>1. f \in pedidos'
        BY <3>5 DEF B!Evento, B!Fetch
      <4>2. f.tipo = t /\ f.montado /\ f.emissao = servidor[t]
        OBVIOUS
      <4> HIDE DEF f
      <4> QED BY <4>1, <4>2
    <3> QED BY <1>0, <3>2, <3>6
  <2> QED BY <2>4, <2>5, <2>6 DEF NadaEsquecido
<1>3. CASE UNCHANGED vars
  BY <1>3 DEF vars, daLista, IInv, NadaEsquecido
<1> QED BY <1>1, <1>2, <1>3 DEF Next, Toque, Grava, Salvou, Segue, Descarta, Aba, Outro,
                                Andamento, Desmonta

-----------------------------------------------------------------------------
LEMMA Inicio == Init => IInv
<1> SUFFICES ASSUME Init PROVE IInv
  OBVIOUS
<1>1. EP!IInv /\ BP!IInv
  BY DasPartes, MesmaLista, MesmaEdicao, EP!Inicio, BP!Inicio DEF Init
<1>2. E!IInv /\ B!IInv
  BY <1>1, MesmaLista, MesmaEdicao
<1>3. pendente \in [Tipos -> 0 .. MaxVersao] /\ NadaEsquecido
  BY DEF Init, NadaEsquecido, ConstantesOK, B!ConstantesOK
<1>4. TipoSalvo
  BY DEF Init, E!Init, TipoSalvo
<1> QED BY <1>2, <1>3, <1>4 DEF IInv

LEMMA Passo == IInv /\ [Next]_vars => IInv'
BY PartesMantidas, TiposPasso, NadaPasso DEF IInv

(* The inductive invariant holds in every reachable state: the ones of the *)
(* two parts, and what ties them together.                                 *)
THEOREM Invariancia == Spec => []IInv
BY Inicio, Passo, PTL DEF Spec

(* Until a save the user was told of is on screen, or the page gave up, a  *)
(* fetch that will bring it is in flight (carros_page.dart:70-76): for     *)
(* every save that is reported, second saves of a form or of a Carro       *)
(* included, but one whose event took the tipo of a later save of the same *)
(* Carro (carro-form-page.dart:234).                                       *)
THEOREM NadaSeEsquece == Spec => []NadaEsquecido
<1>1. IInv => NadaEsquecido
  BY DEF IInv
<1> QED BY <1>1, Invariancia, PTL

(* The theorems about the parts speak of BP and EP.                        *)
LEMMA ComoNasProvas ==
    Spec => BP!Spec /\ EP!Spec
<1>1. IInv /\ [Next]_vars => [BP!Next]_(BP!vars) /\ [EP!Next]_(EP!vars)
  BY PassoLista, PassoEdicao, MesmosPassosDaLista, MesmosPassosDaEdicao
     DEF IInv, E!vars, EP!vars, B!vars, BP!vars
<1>2. Init => BP!Init /\ EP!Init
  BY MesmaLista, MesmaEdicao DEF Init
<1> QED BY <1>1, <1>2, Invariancia, PTL DEF Spec, BP!Spec, EP!Spec

RegressoNoPasso ==
    \A t \in Tipos : viva[t] /\ viva'[t] /\ versao'[t] < versao[t] =>
        \E p \in pedidos \ pedidos' : p.tipo = t /\ p.montado /\ p.sobreposto

(* Whatever covers the pages, and whoever sends the events: a list goes    *)
(* back to an older version only by a fetch another one overtook           *)
(* (carros_bloc.dart:57).                                                  *)
THEOREM RegressoNoTodo == Spec => B!RegressoSoComSobreposicao
<1>1. BP!Spec => [][RegressoNoPasso]_(BP!vars)
  BY DasPartes, BP!RegressoSoPorSobreposicao DEF BP!RegressoSoComSobreposicao, RegressoNoPasso
<1>2. [RegressoNoPasso]_(BP!vars) => [RegressoNoPasso]_(B!vars)
  BY DEF B!vars, BP!vars
<1>3. Spec => [][RegressoNoPasso]_(B!vars)
  BY <1>1, <1>2, ComoNasProvas, PTL
<1> QED BY <1>3 DEF B!RegressoSoComSobreposicao, RegressoNoPasso

LEMMA MesmaVitrine == /\ BP!V!Init => B!V!Init
                      /\ [BP!V!Next]_(BP!V!vars) => [B!V!Next]_(B!V!vars)
<1>1. BP!Devidas = B!Devidas
  BY DEF BP!Devidas, B!Devidas
<1>2. (BP!Devidas = B!Devidas)'
  BY DEF BP!Devidas, B!Devidas
<1> QED
  BY <1>1, <1>2 DEF B!V!Init, BP!V!Init, B!V!Next, BP!V!Next, B!V!vars, BP!V!vars,
     B!V!Muda, BP!V!Muda, B!V!Abre, BP!V!Abre, B!V!Pede, BP!V!Pede, B!V!Paga, BP!V!Paga,
     B!V!MostraLista, BP!V!MostraLista, B!V!Desiste, BP!V!Desiste, B!V!Fecha, BP!V!Fecha

(* The pages of the whole keep the promise of Vitrine: what they show      *)
(* answers a demand of theirs and is as new as the list was at the demand, *)
(* saves, alerts and closings of Home included.                            *)
THEOREM VitrineNoTodo == Spec => B!ImplementaVitrine
<1>1. BP!Spec => BP!V!Spec
  BY DasPartes, BP!Implementa DEF BP!ImplementaVitrine
<1>2. BP!V!Spec => B!V!Spec
  BY MesmaVitrine, PTL DEF BP!V!Spec, B!V!Spec
<1> QED BY <1>1, <1>2, ComoNasProvas, PTL DEF B!ImplementaVitrine

EventoNoPasso ==
    \A o \in ops \ ops' :
        o.acao = "salva" /\ evento' # Nenhum => evento' = o.corpo \/ o.trocado

(* The event that reaches a list of the whole carries the tipo the server  *)
(* was sent, or the Carro was saved again meanwhile                        *)
(* (carro-form-page.dart:234).                                             *)
THEOREM EventoNoTodo == Spec => E!EventoDoTipoGravado
<1>1. EP!Spec => [][EventoNoPasso]_(EP!vars)
  BY DasPartes, EP!EventoFiel DEF EP!EventoDoTipoGravado, EventoNoPasso
<1>2. [EventoNoPasso]_(EP!vars) => [EventoNoPasso]_(E!vars)
  BY DEF E!vars, EP!vars
<1>3. Spec => [][EventoNoPasso]_(E!vars)
  BY <1>1, <1>2, ComoNasProvas, PTL
<1> QED BY <1>3 DEF E!EventoDoTipoGravado, EventoNoPasso

HomeNoPasso == pilha # <<>> /\ pilha' = <<>> => pilha[Len(pilha)].naSaida

(* The answers and alerts of saves and deletes never pop the Home whose    *)
(* lists are being fetched, unless the page that asked was leaving         *)
(* (alert_dialog.dart:20-22): only then do its fetches lose their pages    *)
(* without the user having left Home.                                      *)
THEOREM HomeNoTodo == Spec => E!HomeSoCaiNaSaida
<1>1. EP!Spec => [][HomeNoPasso]_(EP!vars)
  BY DasPartes, EP!HomeFica DEF EP!HomeSoCaiNaSaida, EP!Topo, HomeNoPasso
<1>2. [HomeNoPasso]_(EP!vars) => [HomeNoPasso]_(E!vars)
  BY DEF E!vars, EP!vars
<1>3. Spec => [][HomeNoPasso]_(E!vars)
  BY <1>1, <1>2, ComoNasProvas, PTL
<1> QED BY <1>3 DEF E!HomeSoCaiNaSaida, E!Topo, HomeNoPasso

-----------------------------------------------------------------------------
(* A save the user was told of is shown, in the end.  ENABLED is out of    *)
(* the provers' reach: that a fetch in flight is enabled (NuncaPreso),     *)
(* which holds by the shape of the guards, is a hypothesis.                *)

Paga(t, n) == versao[t] >= n \/ pendente[t] = 0

(* A promise falls with its page, or with a fetch that brought no list.    *)
LEMMA Quitada ==
    ASSUME IInv, [Next]_vars, NEW p \in pedidos, p.montado,
           \/ ~viva'[p.tipo]
           \/ snapshot'[p.tipo] # "lista" /\ \A q \in pedidos' : q.id # p.id
    PROVE  pendente'[p.tipo] = 0
<1>1. p.tipo \in Tipos /\ viva[p.tipo]
  BY DEF IInv, B!IInv, B!TypeOK, B!Pedido, B!MontadoVivo
<1>2. ~ UNCHANGED vars
  BY <1>1 DEF vars, daLista
<1>3. \A m : Resta(p.tipo, m) = 0
  BY DEF Resta, Entrega
<1>4. CASE Cobra
  BY <1>1, <1>3, <1>4 DEF Cobra
<1>5. ASSUME NEW o \in ops, Promete(o.corpo) PROVE pendente'[p.tipo] = 0
  BY <1>1, <1>3, <1>5 DEF Promete
<1> QED BY <1>2, <1>4, <1>5 DEF Next, Toque, Grava, Salvou, Segue, Descarta, Aba, Outro,
                                Andamento, Desmonta

(* The fetch that will show a promise goes on, or the promise is kept.     *)
LEMMA PassoTraz ==
    ASSUME IInv, [Next]_vars, NEW i \in B!Ids, NEW t \in Tipos, NEW n \in 1 .. MaxVersao,
           NEW f \in B!Fases, BP!Traz(i, t, n, {f})
    PROVE  \/ Paga(t, n)'
           \/ BP!Traz(i, t, n, {f})' /\ ~AndamentoDe(i)
           \/ f = "rede" /\ BP!Traz(i, t, n, {"banco", "http"})'
           \/ f = "http" /\ BP!Traz(i, t, n, {"resposta"})'
<1>1. PICK p \in pedidos : /\ p.id = i /\ p.tipo = t /\ p.montado /\ p.emissao >= n
                           /\ p.fase = f
  BY DEF BP!Traz
<1>2. p \in B!Pedido /\ \A r \in pedidos : r.id = i => r = p
  BY <1>1 DEF IInv, B!IInv, B!TypeOK, B!IdsDistintos
<1>3. BP!IInv /\ [BP!Next]_(BP!vars)
  BY PassoLista, MesmaLista, MesmosPassosDaLista DEF IInv, B!vars, BP!vars
<1>4. CASE ~viva'[t]
  BY <1>1, <1>4, Quitada DEF Paga
<1>5. CASE BP!Andamento(p)
  <2>1. CASE BP!Fim(p)
    <3>1. versao'[t] \in Int /\ p.emissao \in Int /\ n \in Int
      <4>1. B!IInv'
        BY PartesMantidas
      <4> QED BY <1>2, <4>1 DEF B!IInv, B!TypeOK, B!Versoes, B!Pedido
    <3>2. CASE versao'[p.tipo] >= p.emissao
      BY <1>1, <3>1, <3>2 DEF Paga
    <3>3. CASE snapshot'[p.tipo] \in {"erro", "vazia"} /\ \A q \in pedidos' : q.id # p.id
      BY <1>1, <3>3, Quitada DEF Paga
    <3> QED BY <2>1, <3>2, <3>3 DEF BP!Fim
  <2>2. ASSUME NEW q \in pedidos', BP!Avanca(q, p)
        PROVE  \/ f = "rede" /\ BP!Traz(i, t, n, {"banco", "http"})'
               \/ f = "http" /\ BP!Traz(i, t, n, {"resposta"})'
    BY <1>1, <2>2 DEF BP!Avanca, BP!Continua, BP!Iguais, BP!Traz
  <2> QED BY <1>1, <1>3, <1>5, <2>1, <2>2, DasPartes, BP!ProprioPasso
<1>6. CASE viva'[t] /\ ~BP!Andamento(p)
  <2>1. ~B!Andamento(p)
    BY <1>6 DEF B!Andamento, BP!Andamento, B!Conectividade, BP!Conectividade,
       B!BancoResponde, BP!BancoResponde, B!Atende, BP!Atende, B!Falha, BP!Falha,
       B!Chega, BP!Chega, B!EntregaLista, BP!EntregaLista, B!EntregaLocal,
       BP!EntregaLocal, B!EntregaErro, BP!EntregaErro, B!Encerra, BP!Encerra,
       B!Passa, BP!Passa, B!TipoDoCarro, BP!TipoDoCarro, B!Redes, BP!Redes
  <2>2. ~AndamentoDe(i)
    BY <1>2, <2>1 DEF AndamentoDe, Andamento
  <2>3. PICK q \in pedidos' : BP!Continua(q, p) /\ q.fase = p.fase
    BY <1>1, <1>3, <1>6, DasPartes, BP!PassoAlheio
  <2>4. BP!Traz(i, t, n, {f})'
    BY <1>1, <2>3 DEF BP!Continua, BP!Iguais, BP!Traz
  <2> QED BY <2>2, <2>4
<1> QED BY <1>4, <1>5, <1>6

(* Four phases, each left by the fetch's own step.                         *)
LEMMA TrazPaga ==
    ASSUME NEW i \in B!Ids, NEW t \in Tipos, NEW n \in 1 .. MaxVersao
    PROVE  /\ Spec /\ Justica(i)
           /\ [](B!EmVoo(i) => ENABLED <<AndamentoDe(i)>>_vars)
           => (BP!Traz(i, t, n, B!Fases) ~> Paga(t, n))
<1> DEFINE P(f) == BP!Traz(i, t, n, {f})
           Q    == Paga(t, n)
<1>1. \A f \in B!Fases : P(f) => B!EmVoo(i)
  BY DEF BP!Traz, B!EmVoo
<1>2. BP!Traz(i, t, n, B!Fases) <=> P("rede") \/ P("banco") \/ P("http") \/ P("resposta")
  BY DEF BP!Traz, B!Fases
<1>3. IInv /\ [Next]_vars /\ P("rede") =>
          Q' \/ (P("rede")' /\ ~AndamentoDe(i)) \/ P("banco")' \/ P("http")'
  <2> SUFFICES ASSUME IInv, [Next]_vars, P("rede")
               PROVE  Q' \/ (P("rede")' /\ ~AndamentoDe(i)) \/ P("banco")' \/ P("http")'
    OBVIOUS
  <2>1. BP!Traz(i, t, n, {"banco", "http"})' => P("banco")' \/ P("http")'
    BY DEF BP!Traz
  <2> QED BY <2>1, PassoTraz DEF B!Fases
<1>4. IInv /\ [Next]_vars /\ P("banco") => Q' \/ (P("banco")' /\ ~AndamentoDe(i))
  BY PassoTraz DEF B!Fases
<1>5. IInv /\ [Next]_vars /\ P("http") =>
          Q' \/ (P("http")' /\ ~AndamentoDe(i)) \/ P("resposta")'
  BY PassoTraz DEF B!Fases
<1>6. IInv /\ [Next]_vars /\ P("resposta") => Q' \/ (P("resposta")' /\ ~AndamentoDe(i))
  BY PassoTraz DEF B!Fases
<1>7. P("rede") \/ P("banco") \/ P("http") \/ P("resposta") => B!EmVoo(i)
  BY <1>1 DEF B!Fases
<1> HIDE DEF P, Q
<1>8. /\ Spec /\ Justica(i) /\ [](B!EmVoo(i) => ENABLED <<AndamentoDe(i)>>_vars)
      => (P("rede") \/ P("banco") \/ P("http") \/ P("resposta") ~> Q)
  BY <1>3, <1>4, <1>5, <1>6, <1>7, Invariancia, PTL DEF Spec, Justica
<1> QED BY <1>2, <1>8, PTL DEF Q

(* Whoever of the fetches brings it: NadaEsquecido says that one does.     *)
LEMMA AlgumPaga ==
    ASSUME NEW t \in Tipos, NEW n \in 1 .. MaxVersao
    PROVE  Spec /\ (\A i \in B!Ids : (BP!Traz(i, t, n, B!Fases) ~> Paga(t, n)))
               => (pendente[t] = n ~> Paga(t, n))
<1>1. ASSUME NEW i \in B!Ids
      PROVE  (BP!Traz(i, t, n, B!Fases) ~> Paga(t, n))
                => [](BP!Traz(i, t, n, B!Fases) => <>Paga(t, n))
  BY PTL
<1>2. (\A i \in B!Ids : (BP!Traz(i, t, n, B!Fases) ~> Paga(t, n)))
         => \A i \in B!Ids : [](BP!Traz(i, t, n, B!Fases) => <>Paga(t, n))
  BY <1>1
<1>3. (\A i \in B!Ids : [](BP!Traz(i, t, n, B!Fases) => <>Paga(t, n)))
         => [](\A i \in B!Ids : BP!Traz(i, t, n, B!Fases) => <>Paga(t, n))
  OBVIOUS
<1>4. (\A i \in B!Ids : BP!Traz(i, t, n, B!Fases) => <>Paga(t, n))
         => ((\E i \in B!Ids : BP!Traz(i, t, n, B!Fases)) => <>Paga(t, n))
  OBVIOUS
<1>5. IInv /\ pendente[t] = n => \E i \in B!Ids : BP!Traz(i, t, n, B!Fases)
  BY DEF IInv, NadaEsquecido, BP!Traz, B!IInv, B!TypeOK, B!Pedido
<1> QED BY <1>2, <1>3, <1>4, <1>5, Invariancia, PTL

(* Every save the user was told of, but the one NadaSeEsquece leaves out,  *)
(* is shown in the end, or its page gave up in sight of the user or is     *)
(* gone (carro-form-page.dart:234, carros_page.dart:70-76): for every      *)
(* number of pages, requests and fetches, if a fetch in flight is enabled. *)
THEOREM SalvoSempreAparece == LiveSpec /\ []NuncaPreso => SalvoAparece
<1>1. \A t \in Tipos : \A n \in 1 .. MaxVersao : \A i \in B!Ids :
         /\ Spec /\ Justica(i) /\ [](B!EmVoo(i) => ENABLED <<AndamentoDe(i)>>_vars)
         => (BP!Traz(i, t, n, B!Fases) ~> Paga(t, n))
  <2>1. ASSUME NEW t \in Tipos, NEW n \in 1 .. MaxVersao, NEW i \in B!Ids
        PROVE  /\ Spec /\ Justica(i) /\ [](B!EmVoo(i) => ENABLED <<AndamentoDe(i)>>_vars)
               => (BP!Traz(i, t, n, B!Fases) ~> Paga(t, n))
    BY TrazPaga, PTL
  <2> QED BY <2>1
<1>2. []NuncaPreso => \A i \in B!Ids : [](B!EmVoo(i) => ENABLED <<AndamentoDe(i)>>_vars)
  BY DEF NuncaPreso
<1>3. LiveSpec => Spec /\ \A i \in B!Ids : Justica(i)
  BY DEF LiveSpec
<1>4. LiveSpec /\ []NuncaPreso =>
         \A t \in Tipos : \A n \in 1 .. MaxVersao : \A i \in B!Ids :
             (BP!Traz(i, t, n, B!Fases) ~> Paga(t, n))
  BY <1>1, <1>2, <1>3
<1>5. \A t \in Tipos : \A n \in 1 .. MaxVersao :
         Spec /\ (\A i \in B!Ids : (BP!Traz(i, t, n, B!Fases) ~> Paga(t, n)))
             => (pendente[t] = n ~> Paga(t, n))
  BY AlgumPaga
<1> QED BY <1>3, <1>4, <1>5 DEF SalvoAparece, Paga
=============================================================================
