-------------------------- MODULE Favoritos_proofs --------------------------
(* Proofs about Favoritos, for all bounds and all sets of cars.            *)
EXTENDS Favoritos, SequenceTheorems, TLAPS

USE ConstantesOK

(* What is left of a queue without its oldest element.                     *)
LEMMA Cauda ==
    ASSUME NEW S, NEW s \in Seq(S), s # <<>>
    PROVE  /\ Len(s) \in Nat \ {0} /\ Head(s) \in S /\ Head(s) = s[1]
           /\ Tail(s) \in Seq(S) /\ Len(Tail(s)) = Len(s) - 1
           /\ \A i \in 1 .. Len(s) - 1 : Tail(s)[i] = s[i + 1]
<1>1. Len(s) \in Nat \ {0} /\ Tail(s) \in Seq(S) /\ Len(Tail(s)) = Len(s) - 1
  BY HeadTailProperties, EmptySeq
<1>2. Head(s) \in S /\ Head(s) = s[1]
  BY HeadTailProperties
<1>3. \A i \in 1 .. Len(s) - 1 : Tail(s)[i] = s[i + 1]
  BY HeadTailProperties
<1> QED BY <1>1, <1>2, <1>3

(* With one name for all documents the device's view is the last write in  *)
(* the queue, or what the device knows.                                    *)
UltimoValor == IF fila = <<>> THEN cache[Nulo] ELSE fila[Len(fila)].valor

LEMMA VistaDe ==
    TypeOK /\ SoChaveNula => /\ Vista(Nulo) = UltimoValor
                             /\ \A k \in Carros : Vista(k) = Nenhum
<1> SUFFICES ASSUME TypeOK, SoChaveNula
             PROVE  /\ Vista(Nulo) = UltimoValor
                    /\ \A k \in Carros : Vista(k) = Nenhum
  OBVIOUS
<1> DEFINE n == Len(fila)
<1>1. n \in Nat /\ (fila = <<>> <=> n = 0)
  BY DEF TypeOK
<1>2. Escritas(Nulo) = 1 .. n
  BY DEF Escritas, SoChaveNula
<1>3. Vista(Nulo) = UltimoValor
  <2>1. CASE fila = <<>>
    <3>1. 1 .. n = {}
      BY <1>1, <2>1
    <3> QED BY <2>1, <3>1, <1>2 DEF Vista, UltimoValor
  <2>2. CASE fila # <<>>
    <3> DEFINE maior == CHOOSE i \in Escritas(Nulo) : \A j \in Escritas(Nulo) : j <= i
    <3>1. n \in Escritas(Nulo) /\ \A j \in Escritas(Nulo) : j <= n
      BY <1>1, <1>2, <2>2
    <3>2. maior \in Escritas(Nulo) /\ \A j \in Escritas(Nulo) : j <= maior
      BY <3>1
    <3>3. maior = n
      <4> HIDE DEF maior
      <4> QED BY <3>1, <3>2, <1>1, <1>2
    <3> QED BY <3>1, <3>3, <2>2 DEF Vista, UltimoValor
  <2> QED BY <2>1, <2>2
<1>4. ASSUME NEW k \in Carros
      PROVE  Vista(k) = Nenhum
  <2>1. Escritas(k) = {}
    BY <1>4 DEF Escritas, SoChaveNula
  <2> QED BY <2>1 DEF Vista, SoChaveNula
<1> QED BY <1>3, <1>4

-----------------------------------------------------------------------------
(* Type correctness and the names of the documents.                        *)

LEMMA NovaOp ==
    ASSUME TypeOK, HaVaga, NEW tipo \in {"pergunta", "toque"}, NEW c \in Carros
    PROVE  /\ Pede(tipo, c) \in Op /\ ~Pede(tipo, c).lido
           /\ Pede(tipo, c).carro = c
           /\ \A o \in ops : o.id # Pede(tipo, c).id
<1> DEFINE i == CHOOSE j \in 1 .. MaxOps : \A o \in ops : o.id # j
<1>1. i \in 1 .. MaxOps /\ \A o \in ops : o.id # i
  BY DEF HaVaga
<1>2. Pede(tipo, c) = [id |-> i, tipo |-> tipo, carro |-> c, lido |-> FALSE,
                       existe |-> FALSE, daPagina |-> TRUE, superado |-> FALSE]
  BY DEF Pede
<1> QED
  <2> HIDE DEF i
  <2> QED BY <1>1, <1>2 DEF Op

(* What marking a read as overtaken keeps.                                 *)
LEMMA SuperadoTipo ==
    \A o \in Op : LET s == [o EXCEPT !.superado = TRUE]
                 IN  /\ s \in Op /\ s.superado
                     /\ s.id = o.id /\ s.tipo = o.tipo /\ s.carro = o.carro
                     /\ (s.lido <=> o.lido) /\ (s.existe <=> o.existe)
                     /\ (s.daPagina <=> o.daPagina)
BY DEF Op

(* And what losing its page keeps.                                         *)
LEMMA SoltoTipo ==
    \A o \in Op : LET s == [o EXCEPT !.daPagina = FALSE]
                 IN  /\ s \in Op /\ ~s.daPagina
                     /\ s.id = o.id /\ s.existe = o.existe
                     /\ (s.lido <=> o.lido) /\ (s.superado <=> o.superado)
BY DEF Op

LEMMA SuperaTipo ==
    ASSUME TypeOK, NEW resto, resto \subseteq ops, Supera(resto)
    PROVE  ops' \subseteq Op
<1>1. \A o \in resto : o \in Op
  BY DEF TypeOK
<1> QED BY <1>1, SuperadoTipo DEF Supera

LEMMA PassoTipo ==
    ASSUME TypeOK, SoChaveNula, [Next]_vars
    PROVE  TypeOK' /\ SoChaveNula'
<1> USE DEF TypeOK, SoChaveNula, Docs, Escrita, Chaves, docs, quadro
<1>1. ASSUME NEW c \in Carros, Abre(c)
      PROVE  TypeOK' /\ SoChaveNula'
  BY <1>1, NovaOp DEF Abre
<1>2. ASSUME NEW c \in Carros, Outro(c)
      PROVE  TypeOK' /\ SoChaveNula'
  BY <1>2 DEF Outro, Chave
<1>3. CASE Fecha
  <2>1. \A o \in ops : [o EXCEPT !.daPagina = FALSE] \in Op
    BY SoltoTipo
  <2>2. ops' \subseteq Op
    BY <1>3, <2>1 DEF Fecha
  <2>3. UNCHANGED docs /\ pagina' = Nenhum
        /\ cor' = FALSE /\ tela' = FALSE /\ tocada' = FALSE /\ alheio' = FALSE
    BY <1>3 DEF Fecha
  <2> QED BY <2>2, <2>3
<1>4. CASE Toca
  <2>1. pagina \in Carros
    BY <1>4 DEF Toca
  <2> QED BY <1>4, <2>1, NovaOp DEF Toca
<1>5. CASE Confirma
  <2>1. fila \in Seq(Escrita) /\ fila # <<>> /\ fila' = Tail(fila)
    BY <1>5 DEF Confirma
  <2>2. /\ Head(fila) \in Escrita /\ Head(fila) = fila[1] /\ Len(fila) \in Nat \ {0}
        /\ Tail(fila) \in Seq(Escrita) /\ Len(Tail(fila)) = Len(fila) - 1
        /\ \A i \in 1 .. Len(fila) - 1 : Tail(fila)[i] = fila[i + 1]
    BY <2>1, Cauda
  <2>3. Head(fila).chave = Nulo /\ Head(fila).valor \in Carros \cup {Nenhum}
    BY <2>2
  <2>4. \A i \in 1 .. Len(fila') : fila'[i].chave = Nulo
    BY <2>1, <2>2
  <2> QED BY <1>5, <2>1, <2>2, <2>3, <2>4 DEF Confirma
<1>6. CASE RecusaEscrita
  <2>1. fila' \in Seq(Escrita)
    BY <1>6, Cauda DEF RecusaEscrita
  <2>2. \A i \in 1 .. Len(fila') : fila'[i].chave = Nulo
    <3>1. /\ fila' = Tail(fila) /\ Len(fila) \in Nat \ {0} /\ Len(Tail(fila)) = Len(fila) - 1
          /\ \A i \in 1 .. Len(fila) - 1 : Tail(fila)[i] = fila[i + 1]
      BY <1>6, Cauda DEF RecusaEscrita
    <3> QED BY <3>1
  <2>3. ops' \subseteq Op
    BY <1>6, SuperaTipo DEF RecusaEscrita
  <2>4. alheio' \in BOOLEAN
    BY <1>6 DEF RecusaEscrita, Alheia
  <2> QED BY <1>6, <2>1, <2>2, <2>3, <2>4 DEF RecusaEscrita
<1>7. CASE Sincroniza
  <2>1. ops' \subseteq Op
    BY <1>7, SuperaTipo DEF Sincroniza
  <2>2. alheio' \in BOOLEAN
    BY <1>7 DEF Sincroniza, Alheia
  <2> QED BY <1>7, <2>1, <2>2 DEF Sincroniza
<1>8. ASSUME NEW o \in ops, Andamento(o)
      PROVE  TypeOK' /\ SoChaveNula'
  <2>1. CASE Le(o)
    <3>1. [o EXCEPT !.lido = TRUE, !.existe = Existe(Chave(o.carro))] \in Op
      BY DEF Op, Existe
    <3> QED BY <2>1, <3>1 DEF Le
  <2>2. CASE FalhaLeitura(o)
    BY <2>2 DEF FalhaLeitura
  <2>3. CASE RespondePergunta(o)
    BY <2>3 DEF RespondePergunta, Op
  <2>4. CASE RespondeToque(o)
    <3>1. o.existe \in BOOLEAN /\ o.carro \in Carros
      BY DEF Op
    <3> DEFINE e == [chave |-> Nulo, valor |-> IF o.existe THEN Nenhum ELSE o.carro]
    <3>2. e \in Escrita /\ e.chave = Nulo
      BY <3>1
    <3>3. fila' = Append(fila, e) /\ UNCHANGED <<nuvem, cache, pagina>>
      BY <2>4 DEF RespondeToque, Escreve, Chave
    <3>4. /\ fila' \in Seq(Escrita)
          /\ \A i \in 1 .. Len(fila') : fila'[i].chave = Nulo
      <4> HIDE DEF e
      <4>1. Len(fila') = Len(fila) + 1 /\ Len(fila) \in Nat
        BY <3>2, <3>3
      <4>2. \A i \in 1 .. Len(fila') : fila'[i] = IF i <= Len(fila) THEN fila[i] ELSE e
        BY <3>2, <3>3, <4>1
      <4> QED BY <3>2, <3>3, <4>1, <4>2
    <3>5. ops' \subseteq Op
      BY <2>4, SuperaTipo DEF RespondeToque
    <3>6. cor' \in BOOLEAN /\ tela' \in BOOLEAN /\ tocada' \in BOOLEAN /\ alheio' \in BOOLEAN
      BY <2>4, <3>1 DEF RespondeToque, Alheia
    <3> QED BY <3>3, <3>4, <3>5, <3>6
  <2> QED BY <1>8, <2>1, <2>2, <2>3, <2>4 DEF Andamento
<1>9. CASE UNCHANGED vars
  BY <1>9 DEF vars
<1> QED BY <1>1, <1>2, <1>3, <1>4, <1>5, <1>6, <1>7, <1>8, <1>9 DEF Next

-----------------------------------------------------------------------------
(* How the steps change what the device sees.                              *)

NomesOK == TypeOK /\ SoChaveNula
VistaCerta == Vista(Nulo) = UltimoValor

LEMMA VistaDepois == NomesOK' => Vista(Nulo)' = UltimoValor'
<1>1. NomesOK => VistaCerta
  BY VistaDe DEF NomesOK, VistaCerta
<1>2. NomesOK' => VistaCerta'
  BY <1>1, PTL
<1> QED BY <1>2 DEF VistaCerta

(* Steps that leave the last value alone leave the view alone.             *)
LEMMA VistaParada ==
    ASSUME NomesOK, NomesOK', UltimoValor' = UltimoValor
    PROVE  Vista(Nulo)' = Vista(Nulo) /\ Existe(Nulo)' = Existe(Nulo)
<1>1. Vista(Nulo)' = Vista(Nulo)
  BY VistaDe, VistaDepois DEF NomesOK
<1> QED BY <1>1 DEF Existe

(* An acknowledgement is one of them, since the device believed the write. *)
LEMMA ConfirmaParada ==
    ASSUME NomesOK, Confirma
    PROVE  UltimoValor' = UltimoValor
<1>1. /\ fila' = Tail(fila) /\ fila # <<>> /\ Head(fila) = fila[1]
      /\ cache' = [cache EXCEPT ![Head(fila).chave] = Head(fila).valor]
      /\ Len(fila) \in Nat \ {0} /\ Len(Tail(fila)) = Len(fila) - 1
      /\ \A i \in 1 .. Len(fila) - 1 : Tail(fila)[i] = fila[i + 1]
  BY Cauda DEF NomesOK, TypeOK, Confirma
<1>2. CASE Len(fila) = 1
  <2>1. fila' = <<>>
    <3>1. Len(fila') = 0 /\ fila' \in Seq(Escrita)
      BY <1>1, <1>2, Cauda DEF NomesOK, TypeOK
    <3> QED BY <3>1, EmptySeq
  <2>2. Head(fila).chave = Nulo /\ Nulo \in DOMAIN cache
    BY <1>1, <1>2 DEF NomesOK, TypeOK, SoChaveNula, Docs, Chaves
  <2>3. cache'[Nulo] = fila[1].valor
    BY <1>1, <2>2
  <2> QED BY <1>1, <1>2, <2>1, <2>3 DEF UltimoValor
<1>3. CASE Len(fila) # 1
  <2>1. /\ Len(fila') \in Nat \ {0} /\ Len(fila') = Len(fila) - 1
        /\ Len(fila') \in 1 .. Len(fila) - 1 /\ Len(fila') + 1 = Len(fila)
    BY <1>1, <1>3
  <2>2. fila' # <<>>
    BY <2>1
  <2>3. fila'[Len(fila')] = fila[Len(fila)]
    BY <1>1, <2>1
  <2> QED BY <1>1, <2>2, <2>3 DEF UltimoValor
<1> QED BY <1>2, <1>3

(* A tap that is answered makes the device see its car if it read nothing, *)
(* and nothing if it read something.                                       *)
LEMMA ToqueInverte ==
    ASSUME NomesOK, NomesOK', NEW o \in ops, RespondeToque(o)
    PROVE  /\ Vista(Nulo)' = IF o.existe THEN Nenhum ELSE o.carro
           /\ Existe(Nulo)' <=> ~o.existe
<1>1. o.existe \in BOOLEAN /\ o.carro \in Carros
  BY DEF NomesOK, TypeOK, Op
<1> DEFINE e == [chave |-> Nulo, valor |-> IF o.existe THEN Nenhum ELSE o.carro]
<1>2. e \in Escrita /\ e.valor = IF o.existe THEN Nenhum ELSE o.carro
  BY <1>1 DEF Escrita, Chaves
<1>3. fila' = Append(fila, e) /\ fila \in Seq(Escrita)
  BY DEF RespondeToque, Escreve, Chave, NomesOK, TypeOK
<1>4. fila' # <<>> /\ fila'[Len(fila')] = e
  <2> HIDE DEF e
  <2> QED BY <1>2, <1>3
<1>5. UltimoValor' = e.valor
  <2> HIDE DEF e
  <2> QED BY <1>4 DEF UltimoValor
<1>6. Vista(Nulo)' = IF o.existe THEN Nenhum ELSE o.carro
  BY <1>2, <1>5, VistaDepois
<1> QED BY <1>1, <1>6 DEF Existe

-----------------------------------------------------------------------------
(* The inductive invariant.                                                *)

OpsOK == IdsDistintos /\ PaginaDasOps /\ LeituraAtual

LEMMA Partes == IInv <=> NomesOK /\ OpsOK /\ TocadaNaPagina /\ CoracaoFiel
BY DEF IInv, NomesOK, OpsOK

(* Marking the reads a step overtakes keeps what is known of the others.   *)
LEMMA SuperaMantem ==
    ASSUME IInv, NEW resto, resto \subseteq ops, Supera(resto), pagina' = pagina
    PROVE  OpsOK'
<1>1. \A o \in resto : o \in ops /\ o \in Op
  BY DEF IInv, TypeOK
<1>2. \A p \in ops' : \E o \in resto :
          /\ p.id = o.id /\ p.carro = o.carro /\ (p.daPagina <=> o.daPagina)
          /\ p = IF o.lido /\ Mudou(o.carro) THEN [o EXCEPT !.superado = TRUE] ELSE o
  <2> SUFFICES ASSUME NEW p \in ops'
               PROVE  \E o \in resto :
                        /\ p.id = o.id /\ p.carro = o.carro /\ (p.daPagina <=> o.daPagina)
                        /\ p = IF o.lido /\ Mudou(o.carro) THEN [o EXCEPT !.superado = TRUE] ELSE o
    OBVIOUS
  <2>1. PICK o \in resto :
           p = IF o.lido /\ Mudou(o.carro) THEN [o EXCEPT !.superado = TRUE] ELSE o
    BY DEF Supera
  <2>2. p.id = o.id /\ p.carro = o.carro /\ (p.daPagina <=> o.daPagina)
    BY <1>1, <2>1, SuperadoTipo
  <2> QED BY <2>1, <2>2
<1>3. IdsDistintos'
  <2> SUFFICES ASSUME NEW p \in ops', NEW q \in ops', p.id = q.id
               PROVE  p = q
    BY DEF IdsDistintos
  <2>1. PICK o \in resto : p.id = o.id
             /\ p = IF o.lido /\ Mudou(o.carro) THEN [o EXCEPT !.superado = TRUE] ELSE o
    BY <1>2
  <2>2. PICK r \in resto : q.id = r.id
             /\ q = IF r.lido /\ Mudou(r.carro) THEN [r EXCEPT !.superado = TRUE] ELSE r
    BY <1>2
  <2>3. o = r
    BY <1>1, <2>1, <2>2 DEF IInv, IdsDistintos
  <2> QED BY <2>1, <2>2, <2>3
<1>4. PaginaDasOps'
  BY <1>1, <1>2 DEF IInv, PaginaDasOps
<1>5. ASSUME NEW p \in ops', p.lido, ~p.superado
      PROVE  p.existe = Existe(Nulo)'
  <2>1. PICK o \in resto :
           p = IF o.lido /\ Mudou(o.carro) THEN [o EXCEPT !.superado = TRUE] ELSE o
    BY <1>2, <1>5
  <2>2. p = o /\ ~Mudou(o.carro)
    BY <1>1, <1>5, <2>1, SuperadoTipo
  <2>3. o.existe = Existe(Nulo)
    BY <1>1, <1>5, <2>2 DEF IInv, LeituraAtual, Chave
  <2> QED BY <2>2, <2>3 DEF Mudou, Chave
<1>6. LeituraAtual'
  BY <1>5 DEF LeituraAtual, Chave
<1> QED BY <1>3, <1>4, <1>6 DEF OpsOK

(* What holds of the heart is kept by steps nobody on the page took.       *)
LEMMA AlheiaMantem ==
    ASSUME IInv, Alheia, UNCHANGED <<pagina, tela, tocada>>
    PROVE  CoracaoFiel'
<1> SUFFICES ASSUME pagina # Nenhum, tocada, ~alheio'
             PROVE  tela = Existe(Nulo)'
  BY DEF CoracaoFiel, Chave
<1>1. pagina \in Carros /\ ~alheio /\ ~Mudou(pagina)
  BY DEF Alheia, IInv, TypeOK
<1> QED BY <1>1 DEF IInv, CoracaoFiel, Mudou, Chave

(* A new read, or a smaller set of them, on a view that stays.             *)
LEMMA NovaMantem ==
    ASSUME IInv, HaVaga, NEW tipo \in {"pergunta", "toque"}, NEW c \in Carros,
           ops' = ops \cup {Pede(tipo, c)}, pagina' = c, pagina \in {Nenhum, c},
           Existe(Nulo)' = Existe(Nulo)
    PROVE  OpsOK'
<1>1. /\ Pede(tipo, c) \in Op /\ ~Pede(tipo, c).lido /\ Pede(tipo, c).carro = c
      /\ \A o \in ops : o.id # Pede(tipo, c).id
  BY NovaOp DEF IInv
<1> DEFINE n == Pede(tipo, c)
<1> HIDE DEF n
<1>2. IdsDistintos'
  BY <1>1 DEF IInv, IdsDistintos, n
<1>3. PaginaDasOps'
  BY <1>1 DEF IInv, PaginaDasOps, TypeOK, Op
<1>4. \A o \in ops' : o.lido /\ ~o.superado => o.existe = Existe(Nulo)'
  <2>1. \A o \in ops : o.lido /\ ~o.superado => o.existe = Existe(Nulo)
    BY DEF IInv, LeituraAtual, Chave
  <2> QED BY <1>1, <2>1
<1> QED BY <1>2, <1>3, <1>4 DEF OpsOK, LeituraAtual, Chave

LEMMA MenosMantem ==
    ASSUME IInv, ops' \subseteq ops, pagina' = pagina, Existe(Nulo)' = Existe(Nulo)
    PROVE  OpsOK'
<1>1. IdsDistintos' /\ PaginaDasOps'
  BY DEF IInv, IdsDistintos, PaginaDasOps
<1>2. \A o \in ops' : o.lido /\ ~o.superado => o.existe = Existe(Nulo)'
  <2>1. \A o \in ops : o.lido /\ ~o.superado => o.existe = Existe(Nulo)
    BY DEF IInv, LeituraAtual, Chave
  <2> QED BY <2>1
<1> QED BY <1>1, <1>2 DEF OpsOK, LeituraAtual, Chave

LEMMA Inicio == Init => IInv
<1> SUFFICES ASSUME Init PROVE IInv
  OBVIOUS
<1>1. PICK v \in Carros \cup {Nenhum} :
         nuvem = [k \in Chaves |-> IF \E c \in Carros : v = c /\ k = Chave(c) THEN v ELSE Nenhum]
  BY DEF Init
<1>2. nuvem \in Docs /\ \A k \in Carros : nuvem[k] = Nenhum
  BY <1>1 DEF Docs, Chaves, Chave
<1>3. fila = <<>> /\ fila \in Seq(Escrita) /\ Len(fila) = 0
  BY EmptySeq DEF Init
<1>4. TypeOK
  BY <1>2, <1>3 DEF Init, TypeOK
<1>5. SoChaveNula
  <2>1. 1 .. Len(fila) = {}
    BY <1>3
  <2> QED BY <1>2, <2>1 DEF Init, SoChaveNula
<1> QED BY <1>4, <1>5 DEF Init, IInv, IdsDistintos, PaginaDasOps, LeituraAtual, TocadaNaPagina, CoracaoFiel

(* The steps of a read or of a tap keep the invariant.                     *)
LEMMA AndamentoMantem ==
    ASSUME IInv, NomesOK', NEW o \in ops, Andamento(o)
    PROVE  OpsOK' /\ TocadaNaPagina' /\ CoracaoFiel'
<1>1. NomesOK /\ o \in Op
  BY DEF IInv, NomesOK, TypeOK
<1>2. CASE Le(o) \/ FalhaLeitura(o) \/ RespondePergunta(o)
  <2>1. UltimoValor' = UltimoValor /\ pagina' = pagina
    BY <1>2 DEF Le, FalhaLeitura, RespondePergunta, UltimoValor, docs, quadro
  <2>2. Existe(Nulo)' = Existe(Nulo)
    BY <1>1, <2>1, VistaParada
  <2>3. TocadaNaPagina' /\ CoracaoFiel'
    BY <1>2, <2>2 DEF Le, FalhaLeitura, RespondePergunta, IInv, TocadaNaPagina, CoracaoFiel,
                      quadro, Chave
  <2>4. CASE FalhaLeitura(o) \/ RespondePergunta(o)
    <3>1. ops' \subseteq ops
      BY <2>4 DEF FalhaLeitura, RespondePergunta
    <3> QED BY <2>1, <2>2, <2>3, <3>1, MenosMantem
  <2>5. CASE Le(o)
    <3> DEFINE n == [o EXCEPT !.lido = TRUE, !.existe = Existe(Nulo)]
    <3>1. n.id = o.id /\ n.carro = o.carro /\ n.daPagina = o.daPagina
      BY <1>1 DEF Op
    <3>2. n.existe = Existe(Nulo)
      BY <1>1 DEF Op
    <3>3. ops' = (ops \ {o}) \cup {n}
      BY <2>5 DEF Le, Chave
    <3> HIDE DEF n
    <3>4. IdsDistintos' /\ PaginaDasOps'
      BY <2>1, <3>1, <3>3 DEF IInv, IdsDistintos, PaginaDasOps
    <3>5. \A q \in ops' : q.lido /\ ~q.superado => q.existe = Existe(Nulo)
      BY <3>2, <3>3 DEF IInv, LeituraAtual, Chave
    <3>6. LeituraAtual'
      BY <2>2, <3>5 DEF LeituraAtual, Chave
    <3> QED BY <2>3, <3>4, <3>6 DEF OpsOK
  <2> QED BY <1>2, <2>4, <2>5
<1>3. CASE RespondeToque(o)
  <2>1. OpsOK'
    BY <1>3, SuperaMantem DEF RespondeToque
  <2>2. Existe(Nulo)' <=> ~o.existe
    BY <1>1, <1>3, ToqueInverte
  <2>3. CASE o.daPagina
    <3>1. pagina = o.carro /\ pagina # Nenhum
      BY <1>1, <2>3 DEF IInv, PaginaDasOps, Op
    <3>2. pagina' = pagina /\ (tela' <=> ~o.existe)
      BY <1>3, <2>3 DEF RespondeToque
    <3> QED BY <1>1, <2>1, <2>2, <3>1, <3>2 DEF TocadaNaPagina, CoracaoFiel, Chave, NomesOK, TypeOK, Existe
  <2>4. CASE ~o.daPagina
    <3>1. Alheia /\ UNCHANGED <<pagina, tela, tocada>>
      BY <1>3, <2>4 DEF RespondeToque
    <3> QED BY <2>1, <3>1, AlheiaMantem DEF IInv, TocadaNaPagina
  <2> QED BY <2>3, <2>4
<1> QED BY <1>2, <1>3 DEF Andamento

LEMMA Passo == IInv /\ [Next]_vars => IInv'
<1> SUFFICES ASSUME IInv, [Next]_vars PROVE IInv'
  OBVIOUS
<1>1. NomesOK /\ NomesOK'
  BY PassoTipo DEF IInv, NomesOK
<1> SUFFICES OpsOK' /\ TocadaNaPagina' /\ CoracaoFiel'
  BY <1>1, Partes, PTL
<1>2. ASSUME NEW c \in Carros, Abre(c)
      PROVE  OpsOK' /\ TocadaNaPagina' /\ CoracaoFiel'
  <2>1. UltimoValor' = UltimoValor
    BY <1>2 DEF Abre, UltimoValor, docs
  <2>2. OpsOK'
    BY <1>1, <1>2, <2>1, VistaParada, NovaMantem DEF Abre
  <2>3. ~tocada'
    BY <1>2 DEF Abre, IInv, TocadaNaPagina
  <2> QED BY <2>2, <2>3 DEF TocadaNaPagina, CoracaoFiel
<1>3. ASSUME NEW c \in Carros, Outro(c)
      PROVE  OpsOK' /\ TocadaNaPagina' /\ CoracaoFiel'
  <2>1. UltimoValor' = UltimoValor /\ ops' = ops /\ UNCHANGED <<quadro, alheio>>
    BY <1>3 DEF Outro, UltimoValor
  <2>2. Existe(Nulo)' = Existe(Nulo)
    BY <1>1, <2>1, VistaParada
  <2>3. OpsOK'
    BY <2>1, <2>2, MenosMantem DEF quadro
  <2> QED BY <2>1, <2>2, <2>3 DEF IInv, TocadaNaPagina, CoracaoFiel, Chave, quadro
<1>4. CASE Fecha
  <2>1. UltimoValor' = UltimoValor
    BY <1>4 DEF Fecha, UltimoValor, docs
  <2>2. Existe(Nulo)' = Existe(Nulo)
    BY <1>1, <2>1, VistaParada
  <2>3. \A p \in ops' : \E o \in ops : /\ p = [o EXCEPT !.daPagina = FALSE]
                                      /\ p.id = o.id /\ ~p.daPagina /\ (p.lido <=> o.lido)
                                      /\ (p.superado <=> o.superado) /\ p.existe = o.existe
    <3> TAKE p \in ops'
    <3>1. PICK o \in ops : p = [o EXCEPT !.daPagina = FALSE]
      BY <1>4 DEF Fecha
    <3>2. o \in Op
      BY <1>1 DEF NomesOK, TypeOK
    <3> QED BY <3>1, <3>2, SoltoTipo
  <2>4. IdsDistintos'
    <3> SUFFICES ASSUME NEW p \in ops', NEW q \in ops', p.id = q.id
                 PROVE  p = q
      BY DEF IdsDistintos
    <3>1. PICK o \in ops : p = [o EXCEPT !.daPagina = FALSE] /\ p.id = o.id
      BY <2>3
    <3>2. PICK r \in ops : q = [r EXCEPT !.daPagina = FALSE] /\ q.id = r.id
      BY <2>3
    <3>3. o = r
      BY <3>1, <3>2 DEF IInv, IdsDistintos
    <3> QED BY <3>1, <3>2, <3>3
  <2>7. PaginaDasOps'
    BY <2>3 DEF PaginaDasOps
  <2>5. \A p \in ops' : p.lido /\ ~p.superado => p.existe = Existe(Nulo)
    BY <2>3 DEF IInv, LeituraAtual, Chave
  <2>6. LeituraAtual'
    BY <2>2, <2>5 DEF LeituraAtual, Chave
  <2> QED BY <1>4, <2>4, <2>6, <2>7 DEF Fecha, OpsOK, TocadaNaPagina, CoracaoFiel
<1>5. CASE Toca
  <2>1. UltimoValor' = UltimoValor /\ pagina \in Carros /\ UNCHANGED <<quadro, alheio>>
    BY <1>1, <1>5 DEF Toca, UltimoValor, docs, NomesOK, TypeOK
  <2>2. Existe(Nulo)' = Existe(Nulo)
    BY <1>1, <2>1, VistaParada
  <2>3. OpsOK'
    BY <1>5, <2>1, <2>2, NovaMantem DEF Toca, quadro
  <2> QED BY <2>1, <2>2, <2>3 DEF IInv, TocadaNaPagina, CoracaoFiel, Chave, quadro
<1>6. CASE Confirma
  <2>1. UltimoValor' = UltimoValor /\ ops' = ops /\ UNCHANGED <<quadro, alheio>>
    BY <1>1, <1>6, ConfirmaParada DEF Confirma
  <2>2. Existe(Nulo)' = Existe(Nulo)
    BY <1>1, <2>1, VistaParada
  <2>3. OpsOK'
    BY <2>1, <2>2, MenosMantem DEF quadro
  <2> QED BY <2>1, <2>2, <2>3 DEF IInv, TocadaNaPagina, CoracaoFiel, Chave, quadro
<1>7. CASE RecusaEscrita \/ Sincroniza
  <2>1. Supera(ops) /\ Alheia /\ UNCHANGED <<pagina, tela, tocada>>
    BY <1>7 DEF RecusaEscrita, Sincroniza, quadro
  <2>2. OpsOK' /\ CoracaoFiel'
    BY <2>1, SuperaMantem, AlheiaMantem
  <2> QED BY <2>1, <2>2 DEF IInv, TocadaNaPagina
<1>8. ASSUME NEW o \in ops, Andamento(o)
      PROVE  OpsOK' /\ TocadaNaPagina' /\ CoracaoFiel'
  BY <1>1, <1>8, AndamentoMantem
<1>9. CASE UNCHANGED vars
  <2>1. UltimoValor' = UltimoValor /\ ops' = ops /\ UNCHANGED <<quadro, alheio>>
    BY <1>9 DEF vars, UltimoValor, docs
  <2>2. Existe(Nulo)' = Existe(Nulo)
    BY <1>1, <2>1, VistaParada
  <2>3. OpsOK'
    BY <2>1, <2>2, MenosMantem DEF quadro
  <2> QED BY <2>1, <2>2, <2>3 DEF IInv, TocadaNaPagina, CoracaoFiel, Chave, quadro
<1> QED BY <1>2, <1>3, <1>4, <1>5, <1>6, <1>7, <1>8, <1>9 DEF Next

(* The invariant holds in every reachable state.                           *)
THEOREM Invariancia == Spec => []IInv
BY Inicio, Passo, PTL DEF Spec

(* Type correctness of the heart, the document and the reads.              *)
THEOREM TipoCorreto == Spec => []TypeOK
<1>1. IInv => TypeOK
  BY DEF IInv
<1> QED BY <1>1, Invariancia, PTL

(* The list of the tab never has two cars, whatever the devices toggle.    *)
THEOREM SempreUmFavoritoSo == Spec => []UmFavoritoSo
<1>1. IInv => UmFavoritoSo
  BY VistaDe DEF IInv, UmFavoritoSo, Lista, Chaves
<1> QED BY <1>1, Invariancia, PTL

(* After a tap was answered the heart shows what the device sees, unless   *)
(* somebody else changed it.                                               *)
THEOREM CoracaoSempreFiel == Spec => []CoracaoFiel
<1>1. IInv => CoracaoFiel
  BY DEF IInv
<1> QED BY <1>1, Invariancia, PTL

-----------------------------------------------------------------------------
(* Taps.                                                                   *)

AlternaPasso ==
    \A o \in ops : o.tipo = "toque" /\ o.lido /\ ~o.superado
                       /\ (\A q \in ops' : q.id # o.id) => Mudou(o.carro)

(* A read only goes away when it fails or is answered.                     *)
LEMMA SoRespondidaSome ==
    ASSUME IInv, [Next]_vars, NEW o \in ops, \A q \in ops' : q.id # o.id
    PROVE  FalhaLeitura(o) \/ RespondePergunta(o) \/ RespondeToque(o)
<1>1. \A p \in ops : p \in Op
  BY DEF IInv, TypeOK
<1>2. o \notin ops'
  OBVIOUS
<1>3. ~(\E c \in Carros : Abre(c) \/ Outro(c)) /\ ~Toca /\ ~Confirma /\ ~UNCHANGED vars
  BY <1>2 DEF Abre, Outro, Toca, Confirma, vars
<1>4. ~Fecha
  <2>1. [o EXCEPT !.daPagina = FALSE].id = o.id
    BY <1>1 DEF Op
  <2> QED BY <2>1 DEF Fecha
<1>5. \A resto : o \in resto => ~Supera(resto)
  <2> SUFFICES ASSUME NEW resto, o \in resto, Supera(resto)
               PROVE  FALSE
    OBVIOUS
  <2>1. (IF o.lido /\ Mudou(o.carro) THEN [o EXCEPT !.superado = TRUE] ELSE o) \in ops'
    BY DEF Supera
  <2>2. [o EXCEPT !.superado = TRUE].id = o.id
    BY <1>1, SuperadoTipo
  <2> QED BY <2>1, <2>2
<1>6. ~RecusaEscrita /\ ~Sincroniza
  BY <1>5 DEF RecusaEscrita, Sincroniza
<1>7. PICK p \in ops : Andamento(p)
  BY <1>3, <1>4, <1>6 DEF Next
<1>8. ~Le(p)
  <2>1. [p EXCEPT !.lido = TRUE, !.existe = Existe(Chave(p.carro))].id = p.id
    BY <1>1 DEF Op
  <2> QED BY <1>2, <2>1 DEF Le
<1>9. p = o
  <2>1. p # o /\ (FalhaLeitura(p) \/ RespondePergunta(p)) => o \in ops'
    BY DEF FalhaLeitura, RespondePergunta
  <2>2. p # o => ~RespondeToque(p)
    BY <1>5 DEF RespondeToque
  <2> QED BY <1>2, <1>7, <1>8, <2>1, <2>2 DEF Andamento
<1> QED BY <1>7, <1>8, <1>9 DEF Andamento

(* A tap whose read is still true when it is answered changes the          *)
(* favourite (favorito_service.dart:23-33).                                *)
THEOREM ToqueAlterna == Spec => AlternaSalvoSuperado
<1>1. IInv /\ IInv' /\ [Next]_vars => [AlternaPasso]_vars
  <2> SUFFICES ASSUME IInv, IInv', [Next]_vars, NEW o \in ops,
                      o.tipo = "toque", o.lido, ~o.superado, \A q \in ops' : q.id # o.id
               PROVE  Mudou(o.carro)
    BY DEF AlternaPasso
  <2>1. RespondeToque(o)
    BY SoRespondidaSome DEF FalhaLeitura, RespondePergunta
  <2>2. NomesOK /\ NomesOK'
    BY DEF IInv, NomesOK
  <2>3. Existe(Nulo)' <=> ~o.existe
    BY <2>1, <2>2, ToqueInverte
  <2>4. o.existe = Existe(Nulo)
    BY DEF IInv, LeituraAtual, Chave
  <2> QED BY <2>3, <2>4 DEF Mudou, Chave, Existe
<1> QED BY <1>1, Invariancia, PTL DEF Spec, AlternaSalvoSuperado, AlternaPasso

-----------------------------------------------------------------------------
(* The refinement of Coracao.                                              *)

LEMMA VistaDoTipo ==
    /\ NomesOK  => Vista(Nulo) \in Carros \cup {Nenhum}
    /\ NomesOK' => Vista(Nulo)' \in Carros \cup {Nenhum}
<1> DEFINE DoTipo == Vista(Nulo) \in Carros \cup {Nenhum}
<1>1. NomesOK => DoTipo
  <2>1. ASSUME NomesOK, fila # <<>>
        PROVE  fila[Len(fila)].valor \in Carros \cup {Nenhum}
    <3>1. fila \in Seq(Escrita) /\ Len(fila) \in 1 .. Len(fila)
      BY <2>1, EmptySeq DEF NomesOK, TypeOK
    <3>2. fila[Len(fila)] \in Escrita
      BY <3>1
    <3> QED BY <3>2 DEF Escrita
  <2>2. ASSUME NomesOK
        PROVE  cache[Nulo] \in Carros \cup {Nenhum}
    BY <2>2 DEF NomesOK, TypeOK, Docs, Chaves
  <2> QED BY <2>1, <2>2, VistaDe DEF NomesOK, UltimoValor
<1>2. NomesOK' => DoTipo'
  BY <1>1, PTL
<1> QED BY <1>1, <1>2

(* A tap only becomes disputed by a change of the favourite.               *)
LEMMA SuperaDisputa ==
    ASSUME TypeOK, NEW resto, resto \subseteq ops, Supera(resto)
    PROVE  Disputa' => Disputa \/ (Vista(Nulo)' = Nenhum) # (Vista(Nulo) = Nenhum)
<1> SUFFICES ASSUME Disputa', (Vista(Nulo)' = Nenhum) = (Vista(Nulo) = Nenhum)
             PROVE  Disputa
  OBVIOUS
<1>1. \A o \in ops : ~Mudou(o.carro)
  BY DEF Mudou, Existe, Chave
<1>2. ops' \subseteq ops
  BY <1>1 DEF Supera
<1> QED BY <1>2 DEF Disputa

(* A new read is disputed by nobody.                                       *)
LEMMA NovaDisputa ==
    ASSUME NEW tipo, NEW c, ops' = ops \cup {Pede(tipo, c)}
    PROVE  Disputa' = Disputa
<1>1. ~Pede(tipo, c).superado
  BY DEF Pede
<1> QED BY <1>1 DEF Disputa

(* An answered tap of the page is one toggle of the favourite and of the   *)
(* heart; the answer of a page that is gone is a change from outside.      *)
LEMMA ToqueCoracao ==
    ASSUME IInv, IInv', NEW o \in ops, RespondeToque(o)
    PROVE  C!Toque \/ C!Fora
<1>1. NomesOK /\ NomesOK' /\ o \in Op
  BY DEF IInv, NomesOK, TypeOK
<1>2. o.existe \in BOOLEAN /\ o.carro \in Carros /\ Disputa' \in BOOLEAN
  BY <1>1 DEF Op, Disputa
<1>3. Vista(Nulo)' = IF o.existe THEN Nenhum ELSE o.carro
  BY <1>1, ToqueInverte
<1>4. CASE o.daPagina
  <2>1. pagina = o.carro /\ pagina # Nenhum
    BY <1>2, <1>4 DEF IInv, PaginaDasOps
  <2>2. pagina' = pagina /\ (tela' <=> ~o.existe) /\ tela' \in BOOLEAN
    BY <1>1, <1>4 DEF RespondeToque, NomesOK, TypeOK
  <2>3. Disputa \/ (Vista(Nulo)' = Nenhum) # (Vista(Nulo) = Nenhum)
    <3>1. CASE o.superado
      BY <1>4, <3>1 DEF RespondeToque, Disputa
    <3>2. CASE ~o.superado
      <4>1. o.existe = (Vista(Nulo) # Nenhum)
        BY <3>2 DEF IInv, LeituraAtual, RespondeToque, Chave, Existe
      <4> QED BY <1>2, <1>3, <4>1
    <3> QED BY <3>1, <3>2
  <2>4. tela' = (Vista(Nulo)' = pagina)
    BY <1>2, <1>3, <2>1, <2>2
  <2> QED BY <1>2, <1>3, <2>1, <2>2, <2>3, <2>4 DEF C!Toque
<1>5. CASE ~o.daPagina
  <2>1. UNCHANGED <<pagina, tela>> /\ Supera(ops \ {o})
    BY <1>5 DEF RespondeToque
  <2>2. Disputa' => Disputa \/ (Vista(Nulo)' = Nenhum) # (Vista(Nulo) = Nenhum)
    BY <2>1, SuperaDisputa DEF IInv
  <2>3. Vista(Nulo)' \in Carros \cup {Nenhum}
    BY <1>2, <1>3
  <2> QED BY <1>2, <2>1, <2>2, <2>3 DEF C!Fora, C!Valores
<1> QED BY <1>4, <1>5

(* Every step is one of Coracao, or changes nothing the heart promises.    *)
LEMMA PassoCoracao == IInv /\ IInv' /\ [Next]_vars => [C!Next]_(C!vars)
<1> SUFFICES ASSUME IInv, IInv', [Next]_vars PROVE [C!Next]_(C!vars)
  OBVIOUS
<1>1. NomesOK /\ NomesOK'
  BY DEF IInv, NomesOK
<1>2. ASSUME UltimoValor' = UltimoValor
      PROVE  Vista(Nulo)' = Vista(Nulo)
  BY <1>1, <1>2, VistaParada
<1>3. ASSUME NEW c \in Carros, Abre(c)
      PROVE  C!Abre
  <2>1. UltimoValor' = UltimoValor
    BY <1>3 DEF Abre, UltimoValor, docs
  <2>2. Disputa' = Disputa
    BY <1>3, NovaDisputa DEF Abre, IInv
  <2> QED BY <1>2, <1>3, <2>1, <2>2 DEF Abre, C!Abre
<1>4. ASSUME NEW c \in Carros, Outro(c)
      PROVE  UNCHANGED C!vars
  BY <1>2, <1>4 DEF Outro, UltimoValor, quadro, Disputa, C!vars
<1>5. CASE Fecha
  <2>1. UltimoValor' = UltimoValor
    BY <1>5 DEF Fecha, UltimoValor, docs
  <2>2. Disputa' = FALSE
    BY <1>1, <1>5 DEF Fecha, Disputa, NomesOK, TypeOK, Op
  <2>3. Vista(Nulo)' = Vista(Nulo) /\ pagina # Nenhum /\ pagina' = Nenhum /\ tela' = FALSE
    BY <1>2, <1>5, <2>1 DEF Fecha
  <2>4. C!Fecha
    BY <2>2, <2>3, Zenon DEF C!Fecha
  <2> QED BY <2>4 DEF C!Next
<1>6. CASE Toca
  <2>1. UltimoValor' = UltimoValor /\ UNCHANGED quadro /\ pagina \in Carros
    BY <1>1, <1>6 DEF Toca, UltimoValor, docs, NomesOK, TypeOK
  <2>2. Disputa' = Disputa
    BY <1>6, <2>1, NovaDisputa DEF Toca, IInv
  <2> QED BY <1>2, <2>1, <2>2 DEF quadro, C!vars
<1>7. CASE Confirma
  <2>1. UltimoValor' = UltimoValor
    BY <1>1, <1>7, ConfirmaParada
  <2> QED BY <1>2, <1>7, <2>1 DEF Confirma, quadro, Disputa, C!vars
<1>8. CASE RecusaEscrita \/ Sincroniza
  <2>1. Supera(ops) /\ UNCHANGED quadro
    BY <1>8 DEF RecusaEscrita, Sincroniza
  <2>2. Disputa' => Disputa \/ (Vista(Nulo)' = Nenhum) # (Vista(Nulo) = Nenhum)
    BY <2>1, SuperaDisputa DEF IInv
  <2>3. Vista(Nulo)' \in Carros \cup {Nenhum}
    BY <1>1, VistaDoTipo
  <2> QED BY <2>1, <2>2, <2>3 DEF quadro, Disputa, C!Fora, C!Valores, C!Next
<1>9. ASSUME NEW o \in ops, Andamento(o)
      PROVE  [C!Next]_(C!vars)
  <2>1. CASE Le(o) \/ RespondePergunta(o)
    <3>1. UltimoValor' = UltimoValor /\ pagina' = pagina /\ tela' = tela
      BY <2>1 DEF Le, RespondePergunta, UltimoValor, docs, quadro
    <3>2. Disputa' = Disputa
      <4>1. CASE Le(o)
        <5> DEFINE n == [o EXCEPT !.lido = TRUE, !.existe = Existe(Chave(o.carro))]
        <5>1. n.tipo = o.tipo /\ n.daPagina = o.daPagina /\ n.superado = o.superado
          BY <1>1 DEF NomesOK, TypeOK, Op
        <5>2. ops' = (ops \ {o}) \cup {n}
          BY <4>1 DEF Le
        <5> HIDE DEF n
        <5> QED BY <5>1, <5>2 DEF Disputa
      <4>2. CASE RespondePergunta(o)
        BY <4>2 DEF RespondePergunta, Disputa
      <4> QED BY <2>1, <4>1, <4>2
    <3> QED BY <1>2, <3>1, <3>2 DEF C!vars
  <2>2. CASE FalhaLeitura(o)
    <3>1. UltimoValor' = UltimoValor /\ UNCHANGED quadro
      BY <2>2 DEF FalhaLeitura, UltimoValor, docs
    <3>2. Disputa' => Disputa
      BY <2>2 DEF FalhaLeitura, Disputa
    <3>3. Vista(Nulo)' \in Carros \cup {Nenhum} /\ Disputa' \in BOOLEAN
      BY <1>1, VistaDoTipo DEF Disputa
    <3> QED BY <3>1, <3>2, <3>3 DEF quadro, C!Fora, C!Valores, C!Next
  <2>3. CASE RespondeToque(o)
    BY <2>3, ToqueCoracao DEF C!Next
  <2> QED BY <1>9, <2>1, <2>2, <2>3 DEF Andamento
<1>10. CASE UNCHANGED vars
  BY <1>2, <1>10 DEF vars, docs, quadro, UltimoValor, Disputa, C!vars
<1> QED BY <1>3, <1>4, <1>5, <1>6, <1>7, <1>8, <1>9, <1>10 DEF Next, C!Next

(* Handlers, writes and listener implement a heart toggled in one step,    *)
(* but for the disputed taps.                                              *)
THEOREM Implementa == Spec => ImplementaCoracao
<1>1. Init => C!Init
  <2> SUFFICES ASSUME Init PROVE C!Init
    OBVIOUS
  <2>1. Vista(Nulo) \in Carros \cup {Nenhum}
    BY Inicio, VistaDoTipo DEF IInv, NomesOK
  <2> QED BY <2>1 DEF Init, C!Init, C!Valores, Disputa
<1>2. IInv /\ IInv' /\ [Next]_vars => [C!Next]_(C!vars)
  BY PassoCoracao
<1> QED BY <1>1, <1>2, Invariancia, PTL DEF Spec, ImplementaCoracao, C!Spec
=============================================================================
