---------------------------- MODULE Foto_proofs ----------------------------
(* Proofs about Foto, for all cars, photos and bounds.                     *)
EXTENDS Foto, SequenceTheorems, TLAPS

USE ConstantesOK

-----------------------------------------------------------------------------
(* What one step makes of the record of a handler.                         *)

Solto(o)     == [o EXCEPT !.daForm = FALSE]
ComTroca(o)  == [o EXCEPT !.trocado = TRUE]
NoServidor(o) == [o EXCEPT !.guardado = TRUE]
NaSessao(o)  == [o EXCEPT !.fase = "sessao"]
Enviado(o)   == [o EXCEPT !.fase = "enviado", !.corpo = FotoDe(o)]
Gravado(o)   == [o EXCEPT !.fase = "gravado"]
EmPausa(o)   == [o EXCEPT !.fase = "pausa", !.arquivo = Nulo, !.guardado = FALSE,
                          !.novo = Nulo, !.corpo = Nulo, !.esperada = Nulo,
                          !.trocado = FALSE]
Escrito(o, f) == [o EXCEPT !.fase = "sessao", !.esperada = f, !.trocado = FALSE,
                           !.novo = IF o.carro = Nulo THEN f ELSE @]

(* The handler a tap on Salvar starts.                                     *)
Novo(i) == [id |-> i, carro |-> form.carro, arquivo |-> form.arquivo,
            fase |-> IF form.arquivo = Nulo THEN "sessao" ELSE "upload",
            guardado |-> FALSE, novo |-> Nulo, corpo |-> Nulo, daForm |-> TRUE,
            trocado |-> FALSE,
            esperada |-> IF form.carro = Nulo THEN Nulo ELSE memoria[form.carro]]

LEMMA SoltoDe ==
    \A o \in Op : /\ Solto(o) \in Op /\ Solto(o).id = o.id /\ Solto(o).carro = o.carro
                  /\ Solto(o).arquivo = o.arquivo /\ Solto(o).fase = o.fase
                  /\ Solto(o).guardado = o.guardado /\ Solto(o).novo = o.novo
                  /\ Solto(o).corpo = o.corpo /\ Solto(o).daForm = FALSE
                  /\ Solto(o).esperada = o.esperada /\ Solto(o).trocado = o.trocado
BY DEF Op, Solto

LEMMA ComTrocaDe ==
    \A o \in Op : /\ ComTroca(o) \in Op /\ ComTroca(o).id = o.id
                  /\ ComTroca(o).carro = o.carro
                  /\ ComTroca(o).arquivo = o.arquivo /\ ComTroca(o).fase = o.fase
                  /\ ComTroca(o).guardado = o.guardado /\ ComTroca(o).novo = o.novo
                  /\ ComTroca(o).corpo = o.corpo /\ ComTroca(o).daForm = o.daForm
                  /\ ComTroca(o).esperada = o.esperada /\ ComTroca(o).trocado = TRUE
BY DEF Op, ComTroca

LEMMA NoServidorDe ==
    \A o \in Op : LET p == NoServidor(o)
                  IN  /\ p \in Op /\ p.id = o.id /\ p.carro = o.carro
                      /\ p.arquivo = o.arquivo /\ p.fase = o.fase /\ p.guardado = TRUE
                      /\ p.novo = o.novo /\ p.corpo = o.corpo /\ p.daForm = o.daForm
                      /\ p.esperada = o.esperada /\ p.trocado = o.trocado
BY DEF Op, NoServidor

LEMMA NaSessaoDe ==
    \A o \in Op : LET p == NaSessao(o)
                  IN  /\ p \in Op /\ p.id = o.id /\ p.carro = o.carro
                      /\ p.arquivo = o.arquivo /\ p.fase = "sessao"
                      /\ p.guardado = o.guardado
                      /\ p.novo = o.novo /\ p.corpo = o.corpo /\ p.daForm = o.daForm
                      /\ p.esperada = o.esperada /\ p.trocado = o.trocado
BY DEF Op, NaSessao

LEMMA GravadoDe ==
    \A o \in Op : LET p == Gravado(o)
                  IN  /\ p \in Op /\ p.id = o.id /\ p.carro = o.carro
                      /\ p.arquivo = o.arquivo /\ p.fase = "gravado"
                      /\ p.guardado = o.guardado
                      /\ p.novo = o.novo /\ p.corpo = o.corpo /\ p.daForm = o.daForm
                      /\ p.esperada = o.esperada /\ p.trocado = o.trocado
BY DEF Op, Gravado

LEMMA EmPausaDe ==
    \A o \in Op : LET p == EmPausa(o)
                  IN  /\ p \in Op /\ p.id = o.id /\ p.carro = o.carro
                      /\ p.arquivo = Nulo /\ p.fase = "pausa" /\ p.guardado = FALSE
                      /\ p.novo = Nulo /\ p.corpo = Nulo /\ p.daForm = o.daForm
                      /\ p.esperada = Nulo /\ p.trocado = FALSE
<1> TAKE o \in Op
<1>1. EmPausa(o) \in Op
  BY DEF Op, EmPausa, ComNulo
<1> QED BY <1>1 DEF Op, EmPausa

LEMMA EscritoDe ==
    \A o \in Op : \A f \in ComNulo :
        LET p == Escrito(o, f)
        IN  /\ p \in Op /\ p.id = o.id /\ p.carro = o.carro
            /\ p.arquivo = o.arquivo /\ p.fase = "sessao" /\ p.guardado = o.guardado
            /\ p.novo = (IF o.carro = Nulo THEN f ELSE o.novo)
            /\ p.corpo = o.corpo /\ p.daForm = o.daForm
            /\ p.esperada = f /\ p.trocado = FALSE
<1> TAKE o \in Op
<1> TAKE f \in ComNulo
<1> DEFINE v == IF o.carro = Nulo THEN f ELSE o.novo
<1>1. v \in ComNulo
  BY DEF Op
<1>2. Escrito(o, f) = [o EXCEPT !.fase = "sessao", !.esperada = f, !.trocado = FALSE,
                                !.novo = v]
  BY DEF Escrito, Op
<1> HIDE DEF v
<1>3. Escrito(o, f) \in Op
  BY <1>1, <1>2 DEF Op
<1>4. /\ Escrito(o, f).id = o.id /\ Escrito(o, f).carro = o.carro
      /\ Escrito(o, f).arquivo = o.arquivo /\ Escrito(o, f).fase = "sessao"
      /\ Escrito(o, f).guardado = o.guardado /\ Escrito(o, f).novo = v
      /\ Escrito(o, f).corpo = o.corpo /\ Escrito(o, f).daForm = o.daForm
      /\ Escrito(o, f).esperada = f /\ Escrito(o, f).trocado = FALSE
  BY ONLY <1>2, o \in Op DEF Op
<1> QED BY <1>3, <1>4 DEF v

LEMMA FotoTipo == TypeOK => \A o \in ops : FotoDe(o) \in ComNulo
BY DEF TypeOK, Op, FotoDe

LEMMA EnviadoDe ==
    TypeOK =>
      \A o \in ops : LET p == Enviado(o)
                     IN  /\ p \in Op /\ p.id = o.id /\ p.carro = o.carro
                         /\ p.arquivo = o.arquivo /\ p.fase = "enviado"
                         /\ p.guardado = o.guardado
                         /\ p.novo = o.novo /\ p.corpo = FotoDe(o) /\ p.daForm = o.daForm
                         /\ p.esperada = o.esperada /\ p.trocado = o.trocado
<1> SUFFICES ASSUME TypeOK, NEW o \in ops
             PROVE  LET p == Enviado(o)
                     IN  /\ p \in Op /\ p.id = o.id /\ p.carro = o.carro
                         /\ p.arquivo = o.arquivo /\ p.fase = "enviado"
                         /\ p.guardado = o.guardado
                         /\ p.novo = o.novo /\ p.corpo = FotoDe(o) /\ p.daForm = o.daForm
                         /\ p.esperada = o.esperada /\ p.trocado = o.trocado
  OBVIOUS
<1>1. o \in Op /\ FotoDe(o) \in ComNulo
  BY FotoTipo DEF TypeOK
<1> QED BY <1>1 DEF Op, Enviado

LEMMA SalvarDe ==
    TypeOK /\ Salvar =>
      \E i \in 1 .. MaxOps :
        /\ \A o \in ops : o.id # i
        /\ ops' = ops \cup {Novo(i)}
        /\ Novo(i) \in Op
<1> SUFFICES ASSUME TypeOK, Salvar
             PROVE  \E i \in 1 .. MaxOps : /\ \A o \in ops : o.id # i
                                           /\ ops' = ops \cup {Novo(i)}
                                           /\ Novo(i) \in Op
  OBVIOUS
<1>1. IdLivre \in 1 .. MaxOps /\ \A o \in ops : o.id # IdLivre
  BY DEF Salvar, HaVaga, IdLivre
<1>2. ops' = ops \cup {Novo(IdLivre)}
  BY DEF Salvar, Novo
<1>3. Novo(IdLivre) \in Op
  <2>1. /\ form.carro \in Objetos \cup {Nulo} /\ form.arquivo \in ComNulo
        /\ form.carro # Nulo => memoria[form.carro] \in ComNulo
    BY DEF TypeOK, Form
  <2> QED BY <1>1, <2>1 DEF Novo, Op, ComNulo
<1> QED BY <1>1, <1>2, <1>3

(* The handlers after c.urlFoto was written: the one that wrote, and the   *)
(* others, some of them marked.                                            *)
LEMMA EscreveDe ==
    ASSUME TypeOK, NEW o \in ops, NEW f \in ComNulo, EscreveFoto(o, f)
    PROVE  /\ Escrito(o, f) \in ops' /\ Escrito(o, f) \in Op
           /\ \A p \in ops' :
                \/ p = Escrito(o, f)
                \/ p \in ops \ {o} /\ ~(p.carro = o.carro /\ o.carro # Nulo /\ AntesDoJson(p))
                \/ \E q \in ops \ {o} : p = ComTroca(q) /\ q.carro = o.carro /\ o.carro # Nulo
           /\ \A q \in ops \ {o} : q \in ops' \/ ComTroca(q) \in ops'
           /\ memoria' = [c \in Objetos |-> IF c = o.carro THEN f ELSE memoria[c]]
           /\ ops' \subseteq Op
<1>1. ops' = {IF q.carro = o.carro /\ o.carro # Nulo /\ AntesDoJson(q)
              THEN ComTroca(q) ELSE q : q \in ops \ {o}} \cup {Escrito(o, f)}
  BY DEF EscreveFoto, Escrito, ComTroca
<1>2. o \in Op /\ \A q \in ops : q \in Op /\ ComTroca(q) \in Op
  BY ComTrocaDe DEF TypeOK
<1>3. Escrito(o, f) \in Op
  BY <1>2, EscritoDe
<1> QED BY <1>1, <1>2, <1>3 DEF EscreveFoto

(* A step of one handler that touches nothing but its own record.          *)
LEMMA FechaDe ==
    ASSUME TypeOK, Fecha
    PROVE  /\ \A p \in ops' : \E q \in ops : p = Solto(q)
           /\ ops' \subseteq Op /\ form' = SemForm /\ alertas' = <<>>
<1>1. ops' = {Solto(q) : q \in ops}
  BY DEF Fecha, Solto
<1>2. \A q \in ops : Solto(q) \in Op
  BY SoltoDe DEF TypeOK
<1> QED BY <1>1, <1>2 DEF Fecha

(* An alert says that a save went well.                                    *)
TemSucesso == \E i \in 1 .. Len(alertas) : alertas[i] = "sucesso"

(* What a step leaves as it is of a form that stays, but for its history.  *)
MesmoForm == /\ form' \in Form /\ form'.aberto = form.aberto
             /\ form'.progresso = form.progresso
             /\ form'.linhas = form.linhas /\ form'.repete = form.repete
             /\ form'.junto = form.junto

(* The Ok closes the form, or takes one or two alerts away, and a success  *)
(* among them only if the form is marked.                                  *)
LEMMA OkDe ==
    ASSUME TypeOK, OkDoAlerta
    PROVE  /\ UNCHANGED <<memoria, guardadas, tardios>>
           /\ \/ Fecha
              \/ /\ ops' = ops /\ MesmoForm
                 /\ form.desviado => form'.desviado
                 /\ alertas # <<>> /\ alertas' \in Seq(Alertas)
                 /\ ~form'.desviado => (TemSucesso => TemSucesso')
<1> DEFINE n == Len(alertas)
           pops == IF alertas[n] = "sucesso" THEN 2 ELSE 1
<1>1. /\ alertas \in Seq(Alertas) /\ alertas # <<>> /\ n \in Nat \ {0}
      /\ pops \in {1, 2}
  <2>1. alertas # <<>> /\ alertas \in Seq(Alertas)
    BY DEF OkDoAlerta, TypeOK
  <2> QED BY <2>1, EmptySeq
<1>2. CASE pops > n
  BY <1>2 DEF OkDoAlerta
<1>3. CASE ~(pops > n)
  <2> DEFINE k == n - pops
  <2>1. k \in Nat /\ k <= n /\ k - 1 + 1 = k /\ (pops = 1 => k = n - 1)
    BY <1>1, <1>3
  <2>2. /\ alertas' = SubSeq(alertas, 1, k) /\ ops' = ops
        /\ form' = [form EXCEPT !.desviado = @ \/ pops = 2]
    BY <1>3 DEF OkDoAlerta
  <2>3. pops # 2 => alertas[n] # "sucesso"
    OBVIOUS
  <2>4. form' = [form EXCEPT !.desviado = form.desviado \/ pops = 2]
    BY <2>2 DEF TypeOK, Form
  <2> HIDE DEF k, pops
  <2>5. MesmoForm /\ form'.desviado = (form.desviado \/ pops = 2)
    <3> DEFINE b == form.desviado \/ pops = 2
    <3>1. b \in BOOLEAN /\ form \in Form
      BY DEF TypeOK, Form
    <3>2. form' = [form EXCEPT !.desviado = b]
      BY <2>4
    <3> HIDE DEF b
    <3>3. form' \in Form /\ form'.desviado = b
      BY <3>1, <3>2 DEF Form
    <3>4. MesmoForm
      BY <3>1, <3>2, <3>3 DEF Form, MesmoForm
    <3> QED BY <3>3, <3>4 DEF b
  <2>6. /\ alertas' \in Seq(Alertas) /\ Len(alertas') = k
        /\ \A i \in 1 .. k : alertas'[i] = alertas[i]
    <3>1. \A i \in 1 .. k : alertas[i] \in Alertas
      BY <1>1, <2>1
    <3> QED BY <1>1, <2>1, <2>2, <3>1, SubSeqProperties
  <2>7. ASSUME ~form'.desviado, TemSucesso
        PROVE  TemSucesso'
    <3>1. PICK i \in 1 .. n : alertas[i] = "sucesso"
      BY <2>7 DEF TemSucesso
    <3>2. pops = 1 /\ i # n
      BY <1>1, <2>3, <2>5, <2>7, <3>1
    <3>3. i \in 1 .. k
      BY <1>1, <2>1, <3>2
    <3> QED BY <2>6, <3>1, <3>3 DEF TemSucesso
  <2> QED BY <1>1, <2>2, <2>5, <2>6, <2>7 DEF OkDoAlerta
<1> QED BY <1>2, <1>3

(* An alert of another page.                                               *)
LEMMA AlheioDe ==
    ASSUME TypeOK, NEW a \in Alertas, Alheio(a)
    PROVE  /\ UNCHANGED <<memoria, ops, guardadas, tardios>>
           /\ form.aberto /\ MesmoForm /\ form'.desviado = form.desviado
           /\ alertas' \in Seq(Alertas)
           /\ TemSucesso => TemSucesso'
<1>1. /\ alertas \in Seq(Alertas) /\ alertas' = Append(alertas, a)
      /\ form' = [form EXCEPT !.alheios = form.alheios + 1]
      /\ form.alheios \in 0 .. MaxAlheios /\ form.alheios < MaxAlheios
  BY DEF Alheio, TypeOK, Form
<1>2. form.alheios + 1 \in 0 .. MaxAlheios
  BY <1>1
<1>3. MesmoForm /\ form'.desviado = form.desviado
  BY <1>1, <1>2 DEF MesmoForm, TypeOK, Form
<1>4. alertas' \in Seq(Alertas) /\ Len(alertas') = Len(alertas) + 1 /\ Len(alertas) \in Nat
      /\ \A i \in 1 .. Len(alertas) : alertas'[i] = alertas[i]
  BY <1>1
<1>5. TemSucesso => TemSucesso'
  BY <1>4 DEF TemSucesso
<1> QED BY <1>3, <1>4, <1>5 DEF Alheio

-----------------------------------------------------------------------------
(* The steps of a handler whose effect on its record is one of the above.  *)

LEMMA PassosDe ==
    ASSUME TypeOK, NEW o \in ops
    PROVE  /\ o \in Op
           /\ GuardaFoto(o) => ops' = (ops \ {o}) \cup {NoServidor(o)}
           /\ UploadFalha(o) => ops' = (ops \ {o}) \cup {NaSessao(o)}
           /\ UploadExpira(o) => ops' = (ops \ {o}) \cup {NaSessao(o)}
           /\ Envia(o) => ops' = (ops \ {o}) \cup {Enviado(o)}
           /\ Grava(o) => ops' = (ops \ {o}) \cup {Gravado(o)}
           /\ \A a \in {"erro", "sucesso"} : Mostra(o, a) =>
                 IF o.daForm
                 THEN ops' = (ops \ {o}) \cup {EmPausa(o)} /\ alertas' = Append(alertas, a)
                 ELSE ops' = ops \ {o} /\ alertas' = alertas
           /\ UploadResponde(o) => o.arquivo \in ComNulo /\ EscreveFoto(o, o.arquivo)
           /\ UploadSemUrl(o) => EscreveFoto(o, Nulo)
<1>1. o \in Op /\ o.arquivo \in ComNulo
  BY DEF TypeOK, Op
<1> QED
  BY <1>1 DEF GuardaFoto, UploadFalha, UploadExpira, Envia, Grava, Mostra, Segue,
     UploadResponde, UploadSemUrl, NoServidor, NaSessao, Enviado, Gravado, EmPausa

LEMMA PassoTipo ==
    ASSUME TypeOK, UploadCorrente, [Next]_vars
    PROVE  TypeOK'
<1>0. \A o \in ops : /\ o \in Op /\ o.arquivo \in ComNulo
                     /\ o.fase = "upload" => o.arquivo \in Fotos
  BY DEF TypeOK, Op, UploadCorrente, ComNulo
<1>1. ASSUME NEW c \in Objetos \cup {Nulo}, AbreForm(c)
      PROVE  TypeOK'
  <2>1. form' = [aberto |-> TRUE, carro |-> c, arquivo |-> Nulo, progresso |-> FALSE,
                 linhas |-> 0, repete |-> FALSE, desviado |-> FALSE, junto |-> FALSE,
                 alheios |-> 0]
    BY <1>1 DEF AbreForm, SemForm
  <2>2. form' \in Form
    BY <2>1 DEF Form, ComNulo
  <2> QED BY <1>1, <2>2 DEF AbreForm, TypeOK
<1>2. ASSUME NEW f \in Fotos, EscolheFoto(f)
      PROVE  TypeOK'
  BY <1>2 DEF EscolheFoto, TypeOK, Form, ComNulo
<1>3. ASSUME Fecha, UNCHANGED <<memoria, guardadas, tardios>>
      PROVE  TypeOK'
  <2>1. ops' \subseteq Op /\ form' = SemForm /\ alertas' = <<>>
    BY <1>3, FechaDe
  <2>2. form' \in Form /\ alertas' \in Seq(Alertas)
    BY <2>1 DEF SemForm, Form, ComNulo
  <2> QED BY <1>3, <2>1, <2>2 DEF TypeOK
<1>4. CASE Voltar
  BY <1>3, <1>4 DEF Voltar
<1>5. CASE Salvar
  <2>1. ops' \subseteq Op
    BY <1>5, SalvarDe DEF TypeOK
  <2> QED BY <1>5, <2>1 DEF Salvar, TypeOK, Form
<1>6. CASE OkDoAlerta
  <2>1. CASE Fecha
    BY <1>3, <1>6, <2>1, OkDe
  <2>2. CASE ~Fecha
    BY <1>6, <2>2, OkDe DEF TypeOK, MesmoForm
  <2> QED BY <2>1, <2>2
<1>7. ASSUME NEW o \in ops, GuardaFoto(o)
      PROVE  TypeOK'
  <2>1. ops' \subseteq Op
    BY <1>7, PassosDe, NoServidorDe DEF TypeOK
  <2>2. o.arquivo \in Fotos
    BY <1>7, <1>0 DEF GuardaFoto
  <2> QED BY <1>7, <2>1, <2>2 DEF GuardaFoto, TypeOK
<1>8. ASSUME NEW o \in ops, UploadResponde(o) \/ UploadSemUrl(o)
      PROVE  TypeOK'
  <2>1. PICK f \in ComNulo : EscreveFoto(o, f)
    BY <1>8, PassosDe DEF ComNulo
  <2>2. ops' \subseteq Op /\ memoria' \in [Objetos -> ComNulo]
    BY <2>1, EscreveDe DEF TypeOK
  <2> QED BY <1>8, <2>2 DEF UploadResponde, UploadSemUrl, TypeOK
<1>9. ASSUME NEW o \in ops, UploadFalha(o) \/ UploadExpira(o)
      PROVE  TypeOK'
  <2>1. ops' \subseteq Op
    BY <1>9, PassosDe, NaSessaoDe DEF TypeOK
  <2> QED BY <1>9, <2>1, <1>0 DEF UploadFalha, UploadExpira, TypeOK
<1>10. ASSUME NEW f \in tardios, UploadTardio(f)
       PROVE  TypeOK'
  BY <1>10 DEF UploadTardio, TypeOK
<1>11. ASSUME NEW o \in ops, Envia(o)
       PROVE  TypeOK'
  <2>1. ops' \subseteq Op
    BY <1>11, PassosDe, EnviadoDe DEF TypeOK
  <2> QED BY <1>11, <2>1 DEF Envia, TypeOK
<1>12. ASSUME NEW o \in ops, Grava(o)
       PROVE  TypeOK'
  <2>1. ops' \subseteq Op
    BY <1>12, PassosDe, GravadoDe DEF TypeOK
  <2> QED BY <1>12, <2>1 DEF Grava, TypeOK, Form
<1>13. ASSUME NEW o \in ops, Salvou(o) \/ Recusa(o)
       PROVE  TypeOK'
  <2>1. PICK a \in {"erro", "sucesso"} : Mostra(o, a)
    BY <1>13 DEF Salvou, Recusa
  <2>2. ops' \subseteq Op /\ alertas' \in Seq(Alertas)
    <3>1. EmPausa(o) \in Op /\ ops \subseteq Op /\ alertas \in Seq(Alertas)
      BY <1>0, EmPausaDe DEF TypeOK
    <3>2. CASE o.daForm
      <4>1. ops' = (ops \ {o}) \cup {EmPausa(o)} /\ alertas' = Append(alertas, a)
        BY <2>1, <3>2, PassosDe
      <4> QED BY <3>1, <4>1 DEF Alertas
    <3>3. CASE ~o.daForm
      <4>1. ops' = ops \ {o} /\ alertas' = alertas
        BY <2>1, <3>3, PassosDe
      <4> QED BY <3>1, <4>1
    <3> QED BY <3>2, <3>3
  <2>3. form' \in Form
    BY <1>13, <1>0 DEF Salvou, Recusa, TypeOK, Form, Op
  <2> QED BY <1>13, <2>2, <2>3 DEF Salvou, Recusa, TypeOK
<1>14. ASSUME NEW o \in ops, FimDaPausa(o)
       PROVE  TypeOK'
  BY <1>14 DEF FimDaPausa, TypeOK, Form, Op
<1>15. CASE UNCHANGED vars
  BY <1>15 DEF vars, TypeOK
<1>16. ASSUME NEW a \in Alertas, Alheio(a)
       PROVE  TypeOK'
  BY <1>16, AlheioDe DEF MesmoForm, TypeOK
<1> QED
  BY <1>1, <1>2, <1>4, <1>5, <1>6, <1>7, <1>8, <1>9, <1>10, <1>11, <1>12, <1>13, <1>14,
     <1>15, <1>16 DEF Next, Toque, Upload, Andamento

(* No two handlers have the same id.                                       *)
LEMMA PassoIds ==
    ASSUME TypeOK, IdsDistintos, [Next]_vars
    PROVE  IdsDistintos'
<1>0. \A o \in ops : o \in Op
  BY DEF TypeOK
<1>1. ASSUME NEW o \in ops, NEW p, p.id = o.id, ops' = (ops \ {o}) \cup {p}
      PROVE  IdsDistintos'
  BY <1>1 DEF IdsDistintos
<1>2. ASSUME NEW o \in ops, ops' = ops \ {o}
      PROVE  IdsDistintos'
  BY <1>2 DEF IdsDistintos
<1>3. ASSUME Fecha
      PROVE  IdsDistintos'
  BY <1>0, <1>3, FechaDe, SoltoDe DEF IdsDistintos
<1>4. CASE ops' = ops
  BY <1>4 DEF IdsDistintos
<1>5. CASE Salvar
  <2>1. PICK i \in 1 .. MaxOps : (\A o \in ops : o.id # i) /\ ops' = ops \cup {Novo(i)}
    BY <1>5, SalvarDe
  <2>2. Novo(i).id = i
    BY DEF Novo
  <2> QED BY <2>1, <2>2 DEF IdsDistintos
<1>6. ASSUME NEW o \in ops, UploadResponde(o) \/ UploadSemUrl(o)
      PROVE  IdsDistintos'
  <2>1. PICK f \in ComNulo : EscreveFoto(o, f)
    BY <1>6, PassosDe DEF ComNulo
  <2>2. \A p \in ops' : \/ p = Escrito(o, f)
                        \/ p \in ops \ {o}  /\ ~(p.carro = o.carro /\ o.carro # Nulo /\ AntesDoJson(p))
                        \/ \E q \in ops \ {o} : p = ComTroca(q) /\ q.carro = o.carro /\ o.carro # Nulo
    BY <2>1, EscreveDe
  <2>3. Escrito(o, f).id = o.id /\ \A q \in ops : ComTroca(q).id = q.id
    BY <1>0, EscritoDe, ComTrocaDe
  <2>4. ops' = {IF q.carro = o.carro /\ o.carro # Nulo /\ AntesDoJson(q)
                THEN ComTroca(q) ELSE q : q \in ops \ {o}} \cup {Escrito(o, f)}
    BY <2>1 DEF EscreveFoto, Escrito, ComTroca
  <2> QED BY <2>3, <2>4 DEF IdsDistintos
<1>7. ASSUME NEW o \in ops, GuardaFoto(o)
      PROVE  IdsDistintos'
  BY <1>0, <1>1, <1>7, PassosDe, NoServidorDe
<1>8. ASSUME NEW o \in ops, UploadFalha(o) \/ UploadExpira(o)
      PROVE  IdsDistintos'
  BY <1>0, <1>1, <1>8, PassosDe, NaSessaoDe
<1>9. ASSUME NEW o \in ops, Envia(o)
      PROVE  IdsDistintos'
  BY <1>1, <1>9, PassosDe, EnviadoDe
<1>10. ASSUME NEW o \in ops, Grava(o)
       PROVE  IdsDistintos'
  BY <1>0, <1>1, <1>10, PassosDe, GravadoDe
<1>11. ASSUME NEW o \in ops, Salvou(o) \/ Recusa(o)
       PROVE  IdsDistintos'
  <2>1. PICK a \in {"erro", "sucesso"} : Mostra(o, a)
    BY <1>11 DEF Salvou, Recusa
  <2> QED BY <1>0, <1>1, <1>2, <2>1, PassosDe, EmPausaDe
<1>12. CASE OkDoAlerta
  BY <1>3, <1>4, <1>12, OkDe
<1> QED
  BY <1>2, <1>3, <1>4, <1>5, <1>6, <1>7, <1>8, <1>9, <1>10, <1>11, <1>12
  DEF Next, Toque, Upload, Andamento, AbreForm, EscolheFoto, Voltar, UploadTardio,
      Alheio, FimDaPausa, vars

-----------------------------------------------------------------------------
(* The form and its handlers: a handler of a step belongs to the page on   *)
(* screen only if one did before, or was started by the tap.               *)

LEMMA DaFormDe ==
    ASSUME TypeOK, Next, ~Salvar, NEW p \in ops', p.daForm
    PROVE  \E q \in ops : /\ q.daForm /\ q.id = p.id
                         /\ (EmVoo(p) => EmVoo(q))
<1>0. \A o \in ops : o \in Op
  BY DEF TypeOK
<1>1. CASE p \in ops
  BY <1>1
<1>2. CASE Fecha
  BY <1>0, <1>2, FechaDe, SoltoDe
<1>3. ASSUME NEW o \in ops, NEW f \in ComNulo, EscreveFoto(o, f), o.fase = "upload"
      PROVE  \E q \in ops : /\ q.daForm /\ q.id = p.id /\ (EmVoo(p) => EmVoo(q))
  <2>1. CASE p = Escrito(o, f)
    <3>0. o \in Op
      BY <1>0
    <3>1. p.daForm = o.daForm /\ p.id = o.id /\ p.fase = "sessao"
      BY <2>1, <3>0, EscritoDe
    <3> QED BY <1>3, <3>1 DEF EmVoo
  <2>2. CASE \E q \in ops \ {o} : p = ComTroca(q)
    BY <1>0, <2>2, ComTrocaDe DEF EmVoo
  <2>3. CASE p \in ops
    BY <2>3
  <2> QED BY <1>3, <2>1, <2>2, <2>3, EscreveDe
<1>4. ASSUME NEW o \in ops, Upload(o)
      PROVE  \E q \in ops : /\ q.daForm /\ q.id = p.id /\ (EmVoo(p) => EmVoo(q))
  <2>1. CASE GuardaFoto(o)
    <3>1. p \in ops \/ p = NoServidor(o)
      BY <2>1, PassosDe
    <3> QED BY <1>0, <1>1, <3>1, NoServidorDe DEF EmVoo
  <2>2. CASE UploadFalha(o) \/ UploadExpira(o)
    <3>1. p \in ops \/ p = NaSessao(o)
      BY <2>2, PassosDe
    <3>2. o.fase = "upload"
      BY <2>2 DEF UploadFalha, UploadExpira
    <3> QED BY <1>0, <1>1, <3>1, <3>2, NaSessaoDe DEF EmVoo
  <2>3. CASE UploadResponde(o) \/ UploadSemUrl(o)
    <3>1. PICK f \in ComNulo : EscreveFoto(o, f)
      BY <2>3, PassosDe DEF ComNulo
    <3>2. o.fase = "upload"
      BY <2>3 DEF UploadResponde, UploadSemUrl
    <3> QED BY <1>3, <3>1, <3>2
  <2> QED BY <1>4, <2>1, <2>2, <2>3 DEF Upload
<1>5. ASSUME NEW o \in ops, Andamento(o)
      PROVE  \E q \in ops : /\ q.daForm /\ q.id = p.id /\ (EmVoo(p) => EmVoo(q))
  <2>1. CASE Envia(o)
    <3>1. p \in ops \/ p = Enviado(o)
      BY <2>1, PassosDe
    <3>2. o.fase = "sessao"
      BY <2>1 DEF Envia
    <3> QED BY <1>1, <3>1, <3>2, EnviadoDe DEF EmVoo
  <2>2. CASE Grava(o)
    <3>1. p \in ops \/ p = Gravado(o)
      BY <2>2, PassosDe
    <3>2. o.fase = "enviado"
      BY <2>2 DEF Grava
    <3> QED BY <1>0, <1>1, <2>2, <3>1, <3>2, GravadoDe DEF EmVoo
  <2>3. CASE Salvou(o) \/ Recusa(o)
    <3>1. PICK a \in {"erro", "sucesso"} : Mostra(o, a)
      BY <2>3 DEF Salvou, Recusa
    <3>2. p \in ops \/ p = EmPausa(o)
      BY <3>1, PassosDe
    <3>3. EmPausa(o).fase = "pausa" /\ EmPausa(o).daForm = o.daForm /\ EmPausa(o).id = o.id
      BY <1>0, EmPausaDe
    <3> QED BY <1>1, <3>2, <3>3 DEF EmVoo
  <2>4. CASE FimDaPausa(o)
    BY <1>1, <2>4 DEF FimDaPausa
  <2> QED BY <1>5, <2>1, <2>2, <2>3, <2>4 DEF Andamento
<1>6. CASE OkDoAlerta
  BY <1>1, <1>2, <1>6, OkDe
<1> QED
  BY <1>1, <1>2, <1>4, <1>5, <1>6
  DEF Next, Toque, AbreForm, EscolheFoto, Voltar, UploadTardio, Alheio

(* A closed form has nothing left on screen.                               *)
LEMMA PassoForm ==
    ASSUME TypeOK, FormFechado, [Next]_vars
    PROVE  FormFechado'
<1>0. \A o \in ops : o \in Op
  BY DEF TypeOK
<1>1. CASE UNCHANGED vars
  BY <1>1 DEF vars, FormFechado
<1>2. CASE Fecha
  <2>1. \A p \in ops' : ~p.daForm
    BY <1>0, <1>2, FechaDe, SoltoDe
  <2> QED BY <2>1, <1>2 DEF Fecha, FormFechado
<1>3. CASE Salvar
  <2>1. form.aberto /\ form'.aberto = form.aberto
    BY <1>3 DEF Salvar, NaForm, TypeOK, Form
  <2> QED BY <2>1 DEF FormFechado
<1>4. ASSUME NEW c \in Objetos \cup {Nulo}, AbreForm(c)
      PROVE  FormFechado'
  BY <1>4 DEF AbreForm, SemForm, FormFechado
<1>5. ASSUME NEW f \in Fotos, EscolheFoto(f)
      PROVE  FormFechado'
  BY <1>5 DEF EscolheFoto, FormFechado, TypeOK, Form
<1>6. CASE OkDoAlerta /\ ~Fecha
  <2>1. form'.aberto = form.aberto /\ alertas # <<>>
    BY <1>6, OkDe DEF MesmoForm
  <2> QED BY <2>1 DEF FormFechado
<1>7. ASSUME NEW o \in ops, Upload(o) \/ Andamento(o), ~Salvar, Next
      PROVE  FormFechado'
  <2>1. form'.aberto = form.aberto
    BY <1>7 DEF Upload, Andamento, GuardaFoto, UploadResponde, UploadSemUrl, UploadFalha,
       UploadExpira, Envia, Grava, Salvou, Recusa, FimDaPausa, TypeOK, Form
  <2>2. CASE ~form.aberto
    <3>1. form = SemForm /\ alertas = <<>> /\ (\A q \in ops : ~q.daForm)
      BY <2>2 DEF FormFechado
    <3>2. \A p \in ops' : ~p.daForm
      <4> SUFFICES ASSUME NEW p \in ops', p.daForm
                   PROVE  FALSE
        OBVIOUS
      <4>1. \E q \in ops : q.daForm
        <5>1. TypeOK /\ Next /\ ~Salvar
          BY <1>7
        <5> QED BY <5>1, DaFormDe
      <4> QED BY <4>1, <3>1
    <3>3. alertas' = alertas
      BY <1>7, <3>1 DEF Upload, Andamento, GuardaFoto, UploadResponde, UploadSemUrl,
         UploadFalha, UploadExpira, Envia, Grava, Salvou, Recusa, Mostra, FimDaPausa
    <3>4. form' = form
      BY <1>7, <3>1 DEF Upload, Andamento, GuardaFoto, UploadResponde, UploadSemUrl,
         UploadFalha, UploadExpira, Envia, Grava, Salvou, Recusa, FimDaPausa, SemForm
    <3> QED BY <3>1, <3>2, <3>3, <3>4 DEF FormFechado
  <2> QED BY <2>1, <2>2 DEF FormFechado
<1>8. ASSUME NEW f \in tardios, UploadTardio(f)
      PROVE  FormFechado'
  BY <1>8 DEF UploadTardio, FormFechado
<1>9. ASSUME NEW a \in Alertas, Alheio(a)
      PROVE  FormFechado'
  BY <1>9, AlheioDe DEF MesmoForm, FormFechado
<1> QED
  BY <1>1, <1>2, <1>3, <1>4, <1>5, <1>6, <1>7, <1>8, <1>9 DEF Next, Toque, Voltar

-----------------------------------------------------------------------------
(* The photos: what the invariants say of one handler, and of the Carros.  *)

OpBoa(o) == /\ o.fase = "upload" => o.arquivo # Nulo
            /\ o.guardado => o.arquivo \in guardadas
            /\ AntesDoJson(o) /\ ~o.trocado => FotoDe(o) = o.esperada
            /\ o.fase \in {"enviado", "gravado"} /\ ~o.trocado => o.corpo = o.esperada
            /\ {o.esperada, o.novo, o.corpo} \subseteq guardadas \cup {Nulo}

CarrosBons == \A c \in Objetos : memoria[c] \in guardadas \cup {Nulo}

Fotografias == UploadCorrente /\ CampoAtual /\ FotoEnviada /\ FotoGuardada

LEMMA Uma == Fotografias = (CarrosBons /\ \A o \in ops : OpBoa(o))
BY DEF Fotografias, UploadCorrente, CampoAtual, FotoEnviada, FotoGuardada, OpBoa, CarrosBons

(* A handler that did not move stays good while nobody writes its Carro.   *)
LEMMA Mantida ==
    ASSUME guardadas \subseteq guardadas', NEW o, OpBoa(o),
           o.carro # Nulo => memoria'[o.carro] = memoria[o.carro]
    PROVE  OpBoa(o)'
BY DEF OpBoa, FotoDe, AntesDoJson

LEMMA PassoFotos ==
    ASSUME TypeOK, Fotografias, [Next]_vars
    PROVE  Fotografias'
<1>0. /\ \A o \in ops : o \in Op
      /\ CarrosBons /\ \A o \in ops : OpBoa(o)
  BY Uma DEF TypeOK
<1> SUFFICES CarrosBons' /\ \A p \in ops' : OpBoa(p)'
  <2>1. Fotografias' = (CarrosBons' /\ \A p \in ops' : OpBoa(p)')
    BY DEF Fotografias, UploadCorrente, CampoAtual, FotoEnviada, FotoGuardada, OpBoa,
           CarrosBons, FotoDe, AntesDoJson
  <2> QED BY <2>1
<1>1. ASSUME UNCHANGED memoria, guardadas \subseteq guardadas'
      PROVE  CarrosBons' /\ \A p \in ops : OpBoa(p)'
  BY <1>0, <1>1, Mantida DEF CarrosBons
<1>2. CASE Fecha /\ UNCHANGED <<memoria, guardadas>>
  <2>1. ASSUME NEW p \in ops'
        PROVE  OpBoa(p)'
    <3>1. PICK q \in ops : p = Solto(q)
      BY <1>2, <2>1, FechaDe
    <3>2. OpBoa(q)'
      BY <1>1, <1>2
    <3> QED BY <1>0, <3>1, <3>2, SoltoDe DEF OpBoa, FotoDe, AntesDoJson
  <2> QED BY <2>1, <1>1, <1>2
<1>3. CASE Salvar
  <2>1. PICK n : /\ ops' = ops \cup {n}
                 /\ n.carro = form.carro /\ n.arquivo = form.arquivo
                 /\ n.fase = (IF form.arquivo = Nulo THEN "sessao" ELSE "upload")
                 /\ n.guardado = FALSE /\ n.novo = Nulo /\ n.corpo = Nulo
                 /\ n.esperada = (IF form.carro = Nulo THEN Nulo ELSE memoria[form.carro])
    <3>1. PICK i \in 1 .. MaxOps : ops' = ops \cup {Novo(i)}
      BY <1>3, SalvarDe
    <3>2. /\ Novo(i).carro = form.carro /\ Novo(i).arquivo = form.arquivo
          /\ Novo(i).fase = (IF form.arquivo = Nulo THEN "sessao" ELSE "upload")
          /\ Novo(i).guardado = FALSE /\ Novo(i).novo = Nulo /\ Novo(i).corpo = Nulo
          /\ Novo(i).esperada = (IF form.carro = Nulo THEN Nulo ELSE memoria[form.carro])
      BY DEF Novo
    <3> QED BY <3>1, <3>2
  <2>2. /\ form.carro \in Objetos \cup {Nulo} /\ form.arquivo \in ComNulo
        /\ UNCHANGED <<memoria, guardadas>>
    BY <1>3 DEF Salvar, TypeOK, Form
  <2>3. n.esperada \in guardadas \cup {Nulo}
    BY <1>0, <2>1, <2>2 DEF CarrosBons
  <2>4. OpBoa(n)'
    BY <2>1, <2>2, <2>3 DEF OpBoa, FotoDe, AntesDoJson
  <2> QED BY <1>1, <2>1, <2>2, <2>4
<1>4. ASSUME NEW o \in ops, GuardaFoto(o)
      PROVE  CarrosBons' /\ \A p \in ops' : OpBoa(p)'
  <2>1. /\ ops' = (ops \ {o}) \cup {NoServidor(o)}
        /\ guardadas' = guardadas \cup {o.arquivo} /\ UNCHANGED memoria
    BY <1>4, PassosDe DEF GuardaFoto
  <2>2. OpBoa(o)' /\ CarrosBons' /\ \A p \in ops : OpBoa(p)'
    BY <1>1, <2>1
  <2>3. OpBoa(NoServidor(o))'
    BY <1>0, <2>1, <2>2, NoServidorDe DEF OpBoa, FotoDe, AntesDoJson
  <2> QED BY <2>1, <2>2, <2>3
<1>5. ASSUME NEW o \in ops, NEW f \in ComNulo, EscreveFoto(o, f), o.fase = "upload",
             f \in guardadas \cup {Nulo}, UNCHANGED <<guardadas>>
      PROVE  CarrosBons' /\ \A p \in ops' : OpBoa(p)'
  <2>1. memoria' = [c \in Objetos |-> IF c = o.carro THEN f ELSE memoria[c]]
    BY <1>5, EscreveDe
  <2>2. CarrosBons'
    BY <1>0, <1>5, <2>1 DEF CarrosBons, TypeOK
  <2>3. OpBoa(Escrito(o, f))'
    <3> DEFINE p == Escrito(o, f)
    <3>1. /\ p.carro = o.carro /\ p.arquivo = o.arquivo /\ p.fase = "sessao"
          /\ p.guardado = o.guardado /\ p.corpo = o.corpo /\ p.esperada = f
          /\ p.novo = (IF o.carro = Nulo THEN f ELSE o.novo)
      BY <1>0, EscritoDe
    <3>2. o.carro \in Objetos \cup {Nulo}
      BY <1>0 DEF Op
    <3> HIDE DEF p
    <3>3. OpBoa(p)'
      BY <1>0, <1>5, <2>1, <3>1, <3>2 DEF OpBoa, FotoDe, AntesDoJson
    <3> QED BY <3>3 DEF p
  <2>4. ASSUME NEW p \in ops \ {o},
               ~(p.carro = o.carro /\ o.carro # Nulo /\ AntesDoJson(p))
        PROVE  OpBoa(p)'
    <3>1. CASE p.carro = o.carro /\ o.carro # Nulo
      BY <1>0, <1>5, <2>4, <3>1 DEF OpBoa, AntesDoJson
    <3>2. CASE ~(p.carro = o.carro /\ o.carro # Nulo)
      <4>1. p.carro \in Objetos \cup {Nulo}
        BY <1>0 DEF Op
      <4>2. p.carro # Nulo => memoria'[p.carro] = memoria[p.carro]
        BY <2>1, <3>2, <4>1
      <4> QED BY <1>0, <1>5, <4>2, Mantida
    <3> QED BY <3>1, <3>2
  <2>5. ASSUME NEW q \in ops \ {o}
        PROVE  OpBoa(ComTroca(q))'
    <3>1. OpBoa(q) /\ q \in Op
      BY <1>0
    <3> QED BY <1>5, <3>1, ComTrocaDe DEF OpBoa, AntesDoJson
  <2>6. \A p \in ops' : \/ p = Escrito(o, f)
                        \/ p \in ops \ {o} /\ ~(p.carro = o.carro /\ o.carro # Nulo /\ AntesDoJson(p))
                        \/ \E q \in ops \ {o} : p = ComTroca(q)
    BY <1>5, EscreveDe
  <2> QED BY <2>2, <2>3, <2>4, <2>5, <2>6
<1>6. ASSUME NEW o \in ops, UploadResponde(o) \/ UploadSemUrl(o)
      PROVE  CarrosBons' /\ \A p \in ops' : OpBoa(p)'
  <2>1. PICK f \in ComNulo : EscreveFoto(o, f) /\ f \in guardadas \cup {Nulo}
    BY <1>0, <1>6, PassosDe DEF ComNulo, UploadResponde, OpBoa
  <2> QED BY <1>5, <1>6, <2>1 DEF UploadResponde, UploadSemUrl
<1>7. ASSUME NEW o \in ops, UploadFalha(o) \/ UploadExpira(o)
      PROVE  CarrosBons' /\ \A p \in ops' : OpBoa(p)'
  <2>1. /\ ops' = (ops \ {o}) \cup {NaSessao(o)} /\ o.fase = "upload"
        /\ UNCHANGED <<memoria, guardadas>>
    BY <1>7, PassosDe DEF UploadFalha, UploadExpira
  <2>2. OpBoa(o)' /\ CarrosBons' /\ \A p \in ops : OpBoa(p)'
    BY <1>1, <2>1
  <2>3. OpBoa(NaSessao(o))'
    BY <1>0, <2>1, <2>2, NaSessaoDe DEF OpBoa, FotoDe, AntesDoJson
  <2> QED BY <2>1, <2>2, <2>3
<1>8. ASSUME NEW o \in ops, Envia(o)
      PROVE  CarrosBons' /\ \A p \in ops' : OpBoa(p)'
  <2>1. /\ ops' = (ops \ {o}) \cup {Enviado(o)} /\ o.fase = "sessao"
        /\ UNCHANGED <<memoria, guardadas>>
    BY <1>8, PassosDe DEF Envia
  <2>2. OpBoa(o) /\ OpBoa(o)' /\ CarrosBons' /\ \A p \in ops : OpBoa(p)'
    BY <1>0, <1>1, <2>1
  <2>3. FotoDe(o) \in guardadas \cup {Nulo}
    <3>1. o.carro \in Objetos \cup {Nulo}
      BY <1>0 DEF Op
    <3> QED BY <1>0, <2>2, <3>1 DEF FotoDe, OpBoa, CarrosBons
  <2>4. PICK p : p = Enviado(o)
    OBVIOUS
  <2>5. /\ p.arquivo = o.arquivo /\ p.fase = "enviado" /\ p.guardado = o.guardado
        /\ p.novo = o.novo /\ p.corpo = FotoDe(o)
        /\ p.esperada = o.esperada /\ p.trocado = o.trocado
    BY <2>4, EnviadoDe
  <2>6. OpBoa(p)'
    BY <2>1, <2>2, <2>3, <2>5 DEF OpBoa, AntesDoJson
  <2> QED BY <2>1, <2>2, <2>4, <2>6
<1>9. ASSUME NEW o \in ops, Grava(o)
      PROVE  CarrosBons' /\ \A p \in ops' : OpBoa(p)'
  <2>1. /\ ops' = (ops \ {o}) \cup {Gravado(o)} /\ o.fase = "enviado"
        /\ UNCHANGED <<memoria, guardadas>>
    BY <1>9, PassosDe DEF Grava
  <2>2. OpBoa(o)' /\ CarrosBons' /\ \A p \in ops : OpBoa(p)'
    BY <1>1, <2>1
  <2>3. OpBoa(Gravado(o))'
    BY <1>0, <2>1, <2>2, GravadoDe DEF OpBoa, FotoDe, AntesDoJson
  <2> QED BY <2>1, <2>2, <2>3
<1>10. ASSUME NEW o \in ops, Salvou(o) \/ Recusa(o)
       PROVE  CarrosBons' /\ \A p \in ops' : OpBoa(p)'
  <2>1. PICK a \in {"erro", "sucesso"} : Mostra(o, a)
    BY <1>10 DEF Salvou, Recusa
  <2>2. UNCHANGED <<memoria, guardadas>>
    BY <1>10 DEF Salvou, Recusa
  <2>3. OpBoa(EmPausa(o))'
    BY <1>0, EmPausaDe DEF OpBoa, AntesDoJson
  <2>4. \A p \in ops' : p \in ops \/ p = EmPausa(o)
    BY <2>1, PassosDe
  <2> QED BY <1>1, <2>2, <2>3, <2>4
<1>11. ASSUME ops' \subseteq ops, UNCHANGED memoria,
              guardadas \subseteq guardadas'
       PROVE  CarrosBons' /\ \A p \in ops' : OpBoa(p)'
  BY <1>1, <1>11
<1>12. CASE OkDoAlerta
  BY <1>2, <1>11, <1>12, OkDe
<1>13. CASE Voltar
  BY <1>2, <1>13 DEF Voltar
<1>14. ASSUME NEW f \in tardios, UploadTardio(f)
       PROVE  CarrosBons' /\ \A p \in ops' : OpBoa(p)'
  BY <1>11, <1>14 DEF UploadTardio
<1>15. ASSUME NEW o \in ops, FimDaPausa(o)
       PROVE  CarrosBons' /\ \A p \in ops' : OpBoa(p)'
  BY <1>11, <1>15 DEF FimDaPausa
<1>16. ASSUME NEW c \in Objetos \cup {Nulo}, AbreForm(c)
       PROVE  CarrosBons' /\ \A p \in ops' : OpBoa(p)'
  BY <1>11, <1>16 DEF AbreForm
<1>17. ASSUME NEW f \in Fotos, EscolheFoto(f)
       PROVE  CarrosBons' /\ \A p \in ops' : OpBoa(p)'
  BY <1>11, <1>17 DEF EscolheFoto
<1>18. CASE UNCHANGED vars
  BY <1>11, <1>18 DEF vars
<1>19. ASSUME NEW a \in Alertas, Alheio(a)
       PROVE  CarrosBons' /\ \A p \in ops' : OpBoa(p)'
  BY <1>11, <1>19 DEF Alheio
<1> QED
  BY <1>3, <1>4, <1>6, <1>7, <1>8, <1>9, <1>10, <1>12, <1>13, <1>14, <1>15, <1>16, <1>17,
     <1>18, <1>19 DEF Next, Toque, Upload, Andamento

-----------------------------------------------------------------------------
(* The progress: the page has a handler as long as nobody took it back.    *)

LEMMA PassoProgresso ==
    ASSUME TypeOK, FormFechado, ProgressoFiel, [Next]_vars
    PROVE  ProgressoFiel'
<1>0. \A o \in ops : o \in Op
  BY DEF TypeOK
<1>1. CASE UNCHANGED vars
  BY <1>1 DEF vars, ProgressoFiel
<1>2. CASE Fecha
  BY <1>2 DEF Fecha, SemForm, ProgressoFiel
<1>3. CASE Salvar
  <2>1. PICK i \in 1 .. MaxOps : ops' = ops \cup {Novo(i)}
    BY <1>3, SalvarDe
  <2>2. Novo(i).daForm
    BY DEF Novo
  <2> QED BY <2>1, <2>2 DEF ProgressoFiel
<1>4. ASSUME NEW o \in ops, NEW p, ops' = (ops \ {o}) \cup {p}, p.daForm = o.daForm,
             form'.progresso = form.progresso
      PROVE  ProgressoFiel'
  BY <1>4 DEF ProgressoFiel
<1>5. ASSUME form'.progresso = form.progresso, ops' = ops
      PROVE  ProgressoFiel'
  BY <1>5 DEF ProgressoFiel
<1>6. ASSUME NEW o \in ops, Upload(o)
      PROVE  ProgressoFiel'
  <2>1. form' = form
    BY <1>6 DEF Upload, GuardaFoto, UploadResponde, UploadSemUrl, UploadFalha, UploadExpira
  <2>2. CASE GuardaFoto(o)
    BY <1>0, <1>4, <2>1, <2>2, PassosDe, NoServidorDe
  <2>3. CASE UploadFalha(o) \/ UploadExpira(o)
    BY <1>0, <1>4, <2>1, <2>3, PassosDe, NaSessaoDe
  <2>4. CASE UploadResponde(o) \/ UploadSemUrl(o)
    <3>1. PICK f \in ComNulo : EscreveFoto(o, f)
      BY <2>4, PassosDe DEF ComNulo
    <3>2. Escrito(o, f) \in ops' /\ \A q \in ops \ {o} : q \in ops' \/ ComTroca(q) \in ops'
      BY <3>1, EscreveDe
    <3>3. Escrito(o, f).daForm = o.daForm /\ \A q \in ops : ComTroca(q).daForm = q.daForm
      BY <1>0, EscritoDe, ComTrocaDe
    <3> QED BY <2>1, <3>2, <3>3 DEF ProgressoFiel
  <2> QED BY <1>6, <2>2, <2>3, <2>4 DEF Upload
<1>7. ASSUME NEW o \in ops, Envia(o)
      PROVE  ProgressoFiel'
  <2>1. ops' = (ops \ {o}) \cup {Enviado(o)} /\ form' = form
    BY <1>7, PassosDe DEF Envia
  <2>2. PICK p : p = Enviado(o)
    OBVIOUS
  <2>3. p.daForm = o.daForm
    BY <1>0, <2>2, EnviadoDe
  <2>4. ops' = (ops \ {o}) \cup {p}
    BY <2>1, <2>2
  <2> QED BY <2>1, <2>3, <2>4 DEF ProgressoFiel
<1>8. ASSUME NEW o \in ops, Grava(o)
      PROVE  ProgressoFiel'
  <2>1. form'.progresso = form.progresso
    BY <1>8 DEF Grava, TypeOK, Form
  <2> QED BY <1>0, <1>4, <1>8, <2>1, PassosDe, GravadoDe
<1>9. ASSUME NEW o \in ops, Salvou(o) \/ Recusa(o)
      PROVE  ProgressoFiel'
  <2>1. PICK a \in {"erro", "sucesso"} : Mostra(o, a)
    BY <1>9 DEF Salvou, Recusa
  <2>2. form'.progresso = form.progresso
    BY <1>9 DEF Salvou, Recusa, TypeOK, Form
  <2>3. CASE o.daForm
    BY <1>0, <1>4, <2>1, <2>2, <2>3, PassosDe, EmPausaDe
  <2>4. CASE ~o.daForm
    <3>1. ops' = ops \ {o}
      BY <2>1, <2>4, PassosDe
    <3> QED BY <2>2, <2>4, <3>1 DEF ProgressoFiel
  <2> QED BY <2>3, <2>4
<1>10. ASSUME NEW o \in ops, FimDaPausa(o)
       PROVE  ProgressoFiel'
  <2>1. form'.progresso = (form.progresso /\ ~o.daForm) /\ ops' = ops \ {o}
    BY <1>10 DEF FimDaPausa, TypeOK, Form
  <2> QED BY <2>1 DEF ProgressoFiel
<1>11. ASSUME NEW c \in Objetos \cup {Nulo}, AbreForm(c)
       PROVE  ProgressoFiel'
  BY <1>11 DEF AbreForm, SemForm, ProgressoFiel
<1>12. ASSUME NEW f \in Fotos, EscolheFoto(f)
       PROVE  ProgressoFiel'
  <2>1. form'.progresso = form.progresso /\ ops' = ops
    BY <1>12 DEF EscolheFoto, TypeOK, Form
  <2> QED BY <2>1 DEF ProgressoFiel
<1>13. CASE OkDoAlerta
  BY <1>2, <1>5, <1>13, OkDe DEF MesmoForm
<1>14. ASSUME NEW a \in Alertas, Alheio(a)
       PROVE  ProgressoFiel'
  BY <1>5, <1>14, AlheioDe DEF MesmoForm
<1> QED
  BY <1>1, <1>2, <1>3, <1>5, <1>6, <1>7, <1>8, <1>9, <1>10, <1>11, <1>12, <1>13, <1>14
  DEF Next, Toque, Andamento, Voltar, UploadTardio

-----------------------------------------------------------------------------
(* The handlers of the form on screen: one unless junto, and its progress. *)

Juntos == UmDoForm /\ ProgressoDura

LEMMA PassoJuntos ==
    ASSUME TypeOK, IdsDistintos', FormFechado, Juntos, [Next]_vars
    PROVE  Juntos'
<1>0. \A o \in ops : o \in Op
  BY DEF TypeOK
<1>1. CASE UNCHANGED vars
  BY <1>1 DEF vars, Juntos, UmDoForm, ProgressoDura, EmVoo
<1>2. CASE Salvar
  <2>1. PICK i \in 1 .. MaxOps : ops' = ops \cup {Novo(i)}
    BY <1>2, SalvarDe
  <2>2. /\ form'.progresso
        /\ ~form'.junto => \A o \in ops : ~o.daForm
    BY <1>2 DEF Salvar, TypeOK, Form
  <2> QED BY <2>1, <2>2 DEF Juntos, UmDoForm, ProgressoDura
<1>3. CASE Fecha
  <2>1. \A p \in ops' : ~p.daForm
    BY <1>0, <1>3, FechaDe, SoltoDe
  <2> QED BY <2>1 DEF Juntos, UmDoForm, ProgressoDura, EmVoo
<1>4. CASE \E c \in Objetos \cup {Nulo} : AbreForm(c)
  <2>1. ops' = ops /\ \A o \in ops : ~o.daForm
    BY <1>4 DEF AbreForm, FormFechado
  <2> QED BY <2>1 DEF Juntos, UmDoForm, ProgressoDura, EmVoo
<1>5. ASSUME Next, ~Salvar, form'.junto = form.junto,
             \/ form'.progresso = form.progresso
             \/ \E o \in ops : o.daForm /\ ops' = ops \ {o}
      PROVE  Juntos'
  <2>1. ASSUME NEW p \in ops', p.daForm
        PROVE  \E q \in ops : q.daForm /\ q.id = p.id /\ (EmVoo(p) => EmVoo(q))
    BY <1>5, <2>1, DaFormDe
  <2>2. UmDoForm'
    <3> SUFFICES ASSUME ~form.junto, NEW p \in ops', NEW r \in ops', p.daForm, r.daForm
                 PROVE  p = r
      BY <1>5 DEF UmDoForm
    <3>1. PICK a \in ops : a.daForm /\ a.id = p.id
      BY <2>1
    <3>2. PICK b \in ops : b.daForm /\ b.id = r.id
      BY <2>1
    <3>3. a = b
      BY <3>1, <3>2 DEF Juntos, UmDoForm
    <3> QED BY <3>1, <3>2, <3>3 DEF IdsDistintos
  <2>3. ProgressoDura'
    <3> SUFFICES ASSUME ~form.junto, NEW p \in ops', EmVoo(p)
                 PROVE  form'.progresso
      BY <1>5 DEF ProgressoDura, EmVoo
    <3>1. p.daForm
      BY DEF EmVoo
    <3>2. form.progresso
      BY <2>1, <3>1 DEF Juntos, ProgressoDura
    <3>3. ASSUME NEW o \in ops, o.daForm, ops' = ops \ {o}
          PROVE  FALSE
      BY <3>1, <3>3 DEF Juntos, UmDoForm
    <3> QED BY <1>5, <3>2, <3>3
  <2> QED BY <2>2, <2>3 DEF Juntos
<1>6. ASSUME NEW o \in ops, FimDaPausa(o), Next, ~Salvar
      PROVE  Juntos'
  <2>1. /\ form'.junto = form.junto /\ ops' = ops \ {o}
        /\ form'.progresso = (form.progresso /\ ~o.daForm)
    BY <1>6 DEF FimDaPausa, TypeOK, Form
  <2>2. o.daForm \in BOOLEAN /\ form.progresso \in BOOLEAN
    BY <1>0 DEF Op, TypeOK, Form
  <2> QED BY <1>5, <1>6, <2>1, <2>2
<1>7. ASSUME NEW o \in ops, Next, ~Salvar,
             Upload(o) \/ Envia(o) \/ Grava(o) \/ Salvou(o) \/ Recusa(o)
      PROVE  Juntos'
  <2>1. form'.junto = form.junto /\ form'.progresso = form.progresso
    BY <1>7 DEF Upload, GuardaFoto, UploadResponde, UploadSemUrl, UploadFalha, UploadExpira,
       Envia, Grava, Salvou, Recusa, TypeOK, Form
  <2> QED BY <1>5, <1>7, <2>1
<1>8. ASSUME NEW f \in Fotos, EscolheFoto(f), Next, ~Salvar
      PROVE  Juntos'
  BY <1>5, <1>8 DEF EscolheFoto, TypeOK, Form
<1>9. ASSUME NEW f \in tardios, UploadTardio(f), Next, ~Salvar
      PROVE  Juntos'
  BY <1>5, <1>9 DEF UploadTardio
<1>10. ASSUME NEW a \in Alertas, Alheio(a), Next, ~Salvar
       PROVE  Juntos'
  BY <1>5, <1>10, AlheioDe DEF MesmoForm
<1>11. CASE OkDoAlerta /\ ~Fecha /\ Next /\ ~Salvar
  BY <1>5, <1>11, OkDe DEF MesmoForm
<1> QED
  BY <1>1, <1>2, <1>3, <1>4, <1>6, <1>7, <1>8, <1>9, <1>10, <1>11
  DEF Next, Toque, Andamento, Voltar

-----------------------------------------------------------------------------
(* One save at a time: no form creates two cars unless it repeats, or      *)
(* stays on screen after a success.                                        *)

Sozinho == UmPorVez /\ DuplicataTemMotivo

Livre == ~form.repete /\ ~form.desviado

LEMMA SozinhoDe ==
    Sozinho <=>
      /\ Livre => /\ \A o, p \in ops : EmVoo(o) /\ EmVoo(p) => o = p
                  /\ form.linhas = 1 => \/ \E o \in ops : EmVoo(o) /\ o.fase = "gravado"
                                        \/ TemSucesso /\ \A o \in ops : ~EmVoo(o)
                  /\ form.linhas # 2
BY DEF Sozinho, UmPorVez, DuplicataTemMotivo, Livre, TemSucesso

(* The same handlers in flight, no success taken away, the same count.     *)
LEMMA Igual ==
    ASSUME Sozinho, Livre' => Livre, form'.linhas = form.linhas,
           Livre' => (TemSucesso => TemSucesso'),
           \A p, q \in ops' : EmVoo(p) /\ EmVoo(q) /\ Livre => p = q,
           \A p \in ops' : EmVoo(p) => \E q \in ops : EmVoo(q),
           \A q \in ops : EmVoo(q) /\ q.fase = "gravado" =>
                \E p \in ops' : EmVoo(p) /\ p.fase = "gravado"
    PROVE  Sozinho'
<1>1. Livre' => /\ \A o, p \in ops' : EmVoo(o) /\ EmVoo(p) => o = p
                /\ form'.linhas = 1 => \/ \E o \in ops' : EmVoo(o) /\ o.fase = "gravado"
                                       \/ TemSucesso' /\ \A o \in ops' : ~EmVoo(o)
                /\ form'.linhas # 2
  BY SozinhoDe
<1> QED BY <1>1 DEF Sozinho, UmPorVez, DuplicataTemMotivo, Livre, TemSucesso, EmVoo

LEMMA PassoSozinho ==
    ASSUME TypeOK, IdsDistintos', FormFechado, Sozinho, [Next]_vars
    PROVE  Sozinho'
<1>0. /\ \A o \in ops : o \in Op
      /\ form.linhas \in 0 .. 2 /\ alertas \in Seq(Alertas)
  BY DEF TypeOK, Form
<1> DEFINE S == /\ \A o, p \in ops' : EmVoo(o) /\ EmVoo(p) => o = p
                /\ form'.linhas = 1 => \/ \E o \in ops' : EmVoo(o) /\ o.fase = "gravado"
                                       \/ TemSucesso' /\ \A o \in ops' : ~EmVoo(o)
                /\ form'.linhas # 2
<1>01. (Livre' => S) => Sozinho'
  BY DEF Sozinho, UmPorVez, DuplicataTemMotivo, Livre, TemSucesso, EmVoo
<1> HIDE DEF S
<1>1. CASE UNCHANGED vars
  BY <1>1 DEF vars, Sozinho, UmPorVez, DuplicataTemMotivo, EmVoo
<1>2. CASE Fecha
  <2>1. \A p \in ops' : ~EmVoo(p)
    BY <1>0, <1>2, FechaDe, SoltoDe DEF EmVoo
  <2>2. form'.linhas = 0
    BY <1>2 DEF Fecha, SemForm
  <2> QED BY <1>01, <2>1, <2>2 DEF S
<1>3. CASE Salvar
  <2> SUFFICES ASSUME Livre' PROVE S
    BY <1>01
  <2>1. PICK i \in 1 .. MaxOps : ops' = ops \cup {Novo(i)}
    BY <1>3, SalvarDe
  <2>2. /\ alertas = <<>> /\ form'.linhas = form.linhas
        /\ Livre /\ \A o \in ops : ~EmVoo(o)
    BY <1>3 DEF Salvar, NaForm, Livre, TypeOK, Form
  <2>3. ~TemSucesso
    BY <2>2 DEF TemSucesso
  <2>4. form'.linhas = 0
    BY <1>0, <2>2, <2>3, SozinhoDe
  <2>5. \A p, q \in ops' : EmVoo(p) /\ EmVoo(q) => p = q
    BY <2>1, <2>2
  <2> QED BY <2>4, <2>5 DEF S
<1>5. ASSUME Next, ~Salvar,
             Livre' => Livre, form'.linhas = form.linhas, Livre' => (TemSucesso => TemSucesso'),
             \A q \in ops : EmVoo(q) /\ q.fase = "gravado" =>
                  \E p \in ops' : EmVoo(p) /\ p.fase = "gravado"
      PROVE  Sozinho'
  <2>1. ASSUME NEW p \in ops', EmVoo(p)
        PROVE  \E q \in ops : EmVoo(q) /\ q.id = p.id
    <3>1. p.daForm
      BY <2>1 DEF EmVoo
    <3> QED BY <1>5, <2>1, <3>1, DaFormDe
  <2>2. ASSUME NEW p \in ops', NEW q \in ops', EmVoo(p), EmVoo(q), Livre
        PROVE  p = q
    <3>1. PICK a \in ops : EmVoo(a) /\ a.id = p.id
      BY <2>1, <2>2
    <3>2. PICK b \in ops : EmVoo(b) /\ b.id = q.id
      BY <2>1, <2>2
    <3>3. a = b
      BY <2>2, <3>1, <3>2, SozinhoDe
    <3> QED BY <3>1, <3>2, <3>3 DEF IdsDistintos
  <2> QED BY <1>5, <2>1, <2>2, Igual
<1>4. CASE OkDoAlerta /\ ~Fecha /\ Next /\ ~Salvar
  <2>1. /\ ops' = ops /\ form'.linhas = form.linhas
        /\ Livre' => Livre
        /\ Livre' => (TemSucesso => TemSucesso')
    BY <1>4, OkDe DEF MesmoForm, Livre
  <2> QED BY <1>4, <1>5, <2>1
<1>6. ASSUME NEW o \in ops, Next, ~Salvar, Upload(o) \/ Envia(o) \/ FimDaPausa(o)
      PROVE  Sozinho'
  <2>1. /\ form'.repete = form.repete /\ form'.desviado = form.desviado
        /\ form'.linhas = form.linhas /\ alertas' = alertas
    BY <1>6 DEF Upload, GuardaFoto, UploadResponde, UploadSemUrl, UploadFalha, UploadExpira,
       Envia, FimDaPausa, TypeOK, Form
  <2>2. o.fase # "gravado"
    BY <1>6 DEF Upload, GuardaFoto, UploadResponde, UploadSemUrl, UploadFalha, UploadExpira,
       Envia, FimDaPausa
  <2>3. \A q \in ops \ {o} : q \in ops' \/ ComTroca(q) \in ops'
    <3>1. CASE UploadResponde(o) \/ UploadSemUrl(o)
      <4>1. PICK f \in ComNulo : EscreveFoto(o, f)
        BY <3>1, PassosDe DEF ComNulo
      <4> QED BY <4>1, EscreveDe
    <3>2. CASE ~(UploadResponde(o) \/ UploadSemUrl(o))
      BY <1>6, <3>2, PassosDe DEF Upload, FimDaPausa
    <3> QED BY <3>1, <3>2
  <2>4. \A q \in ops : ComTroca(q).daForm = q.daForm /\ ComTroca(q).fase = q.fase
    BY <1>0, ComTrocaDe
  <2>5. \A q \in ops : EmVoo(q) /\ q.fase = "gravado" =>
            \E p \in ops' : EmVoo(p) /\ p.fase = "gravado"
    BY <2>2, <2>3, <2>4 DEF EmVoo
  <2>6. (Livre' => Livre) /\ (TemSucesso => TemSucesso')
    BY <2>1 DEF Livre, TemSucesso
  <2> QED BY <1>5, <1>6, <2>1, <2>5, <2>6
<1>7. ASSUME NEW o \in ops, Next, ~Salvar, Grava(o)
      PROVE  Sozinho'
  <2>1. /\ ops' = (ops \ {o}) \cup {Gravado(o)} /\ o.fase = "enviado" /\ alertas' = alertas
        /\ form' = IF o.daForm
                   THEN [form EXCEPT !.linhas = IF @ = 0 THEN 1 ELSE 2] ELSE form
    BY <1>7, PassosDe DEF Grava
  <2>2. Gravado(o).daForm = o.daForm /\ Gravado(o).fase = "gravado" /\ Gravado(o).id = o.id
    BY <1>0, GravadoDe
  <2>3. CASE ~o.daForm
    <3>1. \A q \in ops : EmVoo(q) /\ q.fase = "gravado" =>
              \E p \in ops' : EmVoo(p) /\ p.fase = "gravado"
      BY <2>1, <2>3 DEF EmVoo
    <3>2. form' = form /\ (Livre' => Livre) /\ (TemSucesso => TemSucesso')
      BY <2>1, <2>3 DEF Livre, TemSucesso
    <3> QED BY <1>5, <1>7, <3>1, <3>2
  <2>4. CASE o.daForm
    <3> SUFFICES ASSUME Livre' PROVE S
      BY <1>01
    <3>1. Livre /\ form'.linhas = (IF form.linhas = 0 THEN 1 ELSE 2)
      BY <2>1, <2>4 DEF Livre, TypeOK, Form
    <3>2. EmVoo(o) /\ EmVoo(Gravado(o))
      BY <2>1, <2>2, <2>4 DEF EmVoo
    <3>3. \A p \in ops : EmVoo(p) => p = o
      BY <3>1, <3>2, SozinhoDe
    <3>4. form.linhas # 1 /\ form.linhas # 2
      BY <2>1, <3>1, <3>2, <3>3, SozinhoDe
    <3>5. form'.linhas = 1
      BY <1>0, <3>1, <3>4
    <3>6. \A p, q \in ops' : EmVoo(p) /\ EmVoo(q) => p = q
      BY <2>1, <3>3
    <3>7. \E p \in ops' : EmVoo(p) /\ p.fase = "gravado"
      BY <2>1, <2>2, <3>2
    <3> QED BY <3>5, <3>6, <3>7 DEF S
  <2> QED BY <2>3, <2>4
<1>8. ASSUME NEW o \in ops, Next, ~Salvar, Salvou(o) \/ Recusa(o)
      PROVE  Sozinho'
  <2>1. PICK a \in {"erro", "sucesso"} :
             Mostra(o, a) /\ (a = "sucesso" => Salvou(o)) /\ (a = "erro" => Recusa(o))
    BY <1>8 DEF Salvou, Recusa
  <2>2. /\ form'.linhas = form.linhas /\ o.fase # "pausa"
        /\ Livre' => Livre
        /\ a = "erro" /\ o.daForm /\ o.fase = "gravado" => form'.repete
    BY <2>1 DEF Salvou, Recusa, Livre, TypeOK, Form
  <2>3. CASE ~o.daForm
    <3>1. ops' = ops \ {o} /\ alertas' = alertas
      BY <2>1, <2>3, PassosDe
    <3>2. \A q \in ops : EmVoo(q) /\ q.fase = "gravado" =>
              \E p \in ops' : EmVoo(p) /\ p.fase = "gravado"
      BY <2>3, <3>1 DEF EmVoo
    <3>3. TemSucesso => TemSucesso'
      BY <3>1 DEF TemSucesso
    <3> QED BY <1>5, <1>8, <2>2, <3>2, <3>3
  <2>4. CASE o.daForm
    <3> SUFFICES ASSUME Livre' PROVE S
      BY <1>01
    <3>1. ops' = (ops \ {o}) \cup {EmPausa(o)} /\ alertas' = Append(alertas, a)
      BY <2>1, <2>4, PassosDe
    <3>2. EmVoo(o) /\ Livre /\ ~EmVoo(EmPausa(o))
      BY <1>0, <2>2, <2>4, EmPausaDe DEF EmVoo
    <3>3. \A p \in ops : EmVoo(p) => p = o
      BY <3>2, SozinhoDe
    <3>4. \A p \in ops' : ~EmVoo(p)
      BY <3>1, <3>2, <3>3
    <3>5. form'.linhas # 2
      BY <2>2, <3>2, SozinhoDe
    <3>6. form'.linhas = 1 => TemSucesso'
      <4> SUFFICES ASSUME form.linhas = 1 PROVE TemSucesso'
        BY <2>2
      <4>1. o.fase = "gravado"
        BY <3>2, <3>3, SozinhoDe
      <4>2. a = "sucesso"
        BY <2>2, <2>4, <4>1 DEF Livre
      <4>3. Len(alertas) + 1 \in 1 .. Len(alertas') /\ alertas'[Len(alertas) + 1] = a
        BY <1>0, <3>1, <4>2 DEF Alertas
      <4> QED BY <4>2, <4>3 DEF TemSucesso
    <3> QED BY <3>4, <3>5, <3>6 DEF S
  <2> QED BY <2>3, <2>4
<1>9. ASSUME NEW c \in Objetos \cup {Nulo}, AbreForm(c)
      PROVE  Sozinho'
  <2>1. ops' = ops /\ form'.linhas = 0 /\ \A o \in ops : ~EmVoo(o)
    BY <1>9 DEF AbreForm, SemForm, FormFechado, EmVoo
  <2> QED BY <1>01, <2>1 DEF S
<1>10. ASSUME Next, ~Salvar, ops' = ops, MesmoForm, form'.desviado = form.desviado,
              TemSucesso => TemSucesso'
       PROVE  Sozinho'
  BY <1>5, <1>10 DEF MesmoForm, Livre
<1>11. ASSUME NEW f \in Fotos, EscolheFoto(f), Next, ~Salvar
       PROVE  Sozinho'
  <2>1. /\ ops' = ops /\ MesmoForm /\ form'.desviado = form.desviado /\ alertas' = alertas
    BY <1>11 DEF EscolheFoto, MesmoForm, TypeOK, Form, ComNulo
  <2>2. TemSucesso => TemSucesso'
    BY <2>1 DEF TemSucesso
  <2> QED BY <1>10, <1>11, <2>1, <2>2
<1>12. ASSUME NEW f \in tardios, UploadTardio(f)
       PROVE  Sozinho'
  BY <1>12 DEF UploadTardio, Sozinho, UmPorVez, DuplicataTemMotivo, EmVoo
<1>13. ASSUME NEW a \in Alertas, Alheio(a), Next, ~Salvar
       PROVE  Sozinho'
  BY <1>10, <1>13, AlheioDe
<1>14. CASE ~Salvar
  BY <1>1, <1>2, <1>4, <1>6, <1>7, <1>8, <1>9, <1>11, <1>12, <1>13, <1>14
  DEF Next, Toque, Andamento, Voltar
<1> QED BY <1>3, <1>14

-----------------------------------------------------------------------------
(* The results.                                                            *)

LEMMA Inicio == Init => IInv
<1> SUFFICES ASSUME Init
             PROVE  IInv
  OBVIOUS
<1>1. memoria \in [Objetos -> ComNulo] /\ guardadas = {memoria[c] : c \in Objetos} \ {Nulo}
  BY DEF Init
<1>2. TypeOK
  <2>1. form \in Form
    BY DEF Init, SemForm, Form, ComNulo
  <2>2. guardadas \subseteq Fotos
    BY <1>1 DEF ComNulo
  <2> QED BY <2>1, <2>2 DEF Init, TypeOK
<1>3. FotoGuardada
  BY <1>1 DEF Init, FotoGuardada
<1>4. ops = {} /\ form = SemForm /\ alertas = <<>> /\ Len(alertas) = 0
  BY DEF Init
<1> QED
  BY <1>2, <1>3, <1>4 DEF IInv, IdsDistintos, FormFechado, UploadCorrente, CampoAtual,
     FotoEnviada, ProgressoFiel, UmDoForm, ProgressoDura, UmPorVez, DuplicataTemMotivo,
     SemForm

LEMMA Passo == IInv /\ [Next]_vars => IInv'
<1> SUFFICES ASSUME IInv, [Next]_vars
             PROVE  IInv'
  OBVIOUS
<1>1. /\ TypeOK /\ IdsDistintos /\ FormFechado /\ UploadCorrente /\ ProgressoFiel
      /\ Fotografias /\ Juntos /\ Sozinho
  BY DEF IInv, Fotografias, Juntos, Sozinho
<1>2. TypeOK' /\ IdsDistintos'
  BY <1>1, PassoTipo, PassoIds
<1>3. FormFechado' /\ ProgressoFiel'
  BY <1>1, PassoForm, PassoProgresso
<1>4. Fotografias'
  BY <1>1, PassoFotos
<1>5. Sozinho' /\ Juntos'
  BY <1>1, <1>2, PassoSozinho, PassoJuntos
<1> QED BY <1>2, <1>3, <1>4, <1>5 DEF IInv, Fotografias, Juntos, Sozinho

(* The inductive invariant holds in every reachable state.                 *)
THEOREM Invariancia == Spec => []IInv
BY Inicio, Passo, PTL DEF Spec

(* Type correctness.                                                       *)
THEOREM TipoCorreto == Spec => []TypeOK
<1>1. IInv => TypeOK
  BY DEF IInv
<1> QED BY <1>1, Invariancia, PTL

(* The JSON of a save carries the photo its own upload left, or the one    *)
(* the Carro had at the tap, unless another save of the Carro wrote it.    *)
THEOREM EnviaAFotoCerta == Spec => []FotoEnviada
<1>1. IInv => FotoEnviada
  BY DEF IInv
<1> QED BY <1>1, Invariancia, PTL

(* Whoever refers to a photo refers to one the server stores.              *)
THEOREM FotoSempreGuardada == Spec => []FotoGuardada
<1>1. IInv => FotoGuardada
  BY DEF IInv
<1> QED BY <1>1, Invariancia, PTL

(* Progress is shown only while a handler of the form will take it back.   *)
THEOREM ProgressoSempreFiel == Spec => []ProgressoFiel
<1>1. IInv => ProgressoFiel
  BY DEF IInv
<1> QED BY <1>1, Invariancia, PTL

(* A save of the form on screen shows its progress until it is through,    *)
(* unless Salvar was tapped before an earlier handler was.                 *)
THEOREM ProgressoSempreDura == Spec => []ProgressoDura
<1>1. IInv => ProgressoDura
  BY DEF IInv
<1> QED BY <1>1, Invariancia, PTL

(* Two cars of one form need an impatient tap, an error that was none, or  *)
(* an Ok whose second pop took another alert than its own page, whichever  *)
(* page that alert is of.                                                  *)
THEOREM DuplicataTemCausa == Spec => []DuplicataTemMotivo
<1>1. IInv => DuplicataTemMotivo
  BY DEF IInv
<1> QED BY <1>1, Invariancia, PTL

-----------------------------------------------------------------------------
(* The progress ends.  The prover knows nothing of ENABLED: that a timer   *)
(* or an answer can always come (NuncaPreso), which holds by the shape of  *)
(* the guards, is a hypothesis; the rest is proved.                        *)

(* What takes the handler o to another phase, and what leads it there.     *)
Muda(o) == \/ UploadResponde(o) \/ UploadSemUrl(o) \/ UploadFalha(o) \/ UploadExpira(o)
           \/ Envia(o) \/ Grava(o) \/ Salvou(o) \/ Recusa(o)

Depois == [upload |-> {"sessao"}, sessao |-> {"enviado", "pausa"},
           enviado |-> {"gravado", "pausa"}, gravado |-> {"pausa"}, pausa |-> {}]

(* Its own step, while its page is there, takes it to a later phase.       *)
LEMMA MudaDeFase ==
    ASSUME TypeOK, NEW o \in ops, o.daForm, Muda(o)
    PROVE  \E q \in ops' : q.id = o.id /\ q.daForm /\ q.fase \in Depois[o.fase]
<1>0. o \in Op
  BY DEF TypeOK
<1>1. CASE UploadResponde(o) \/ UploadSemUrl(o)
  <2>1. PICK f \in ComNulo : EscreveFoto(o, f)
    BY <1>1, PassosDe DEF ComNulo
  <2>2. Escrito(o, f) \in ops'
    BY <2>1, EscreveDe
  <2>3. /\ Escrito(o, f).id = o.id /\ Escrito(o, f).daForm = o.daForm
        /\ Escrito(o, f).fase = "sessao" /\ o.fase = "upload"
    BY <1>0, <1>1, EscritoDe DEF UploadResponde, UploadSemUrl
  <2>4. Escrito(o, f).fase \in Depois[o.fase]
    BY <2>3 DEF Depois
  <2> QED BY <2>2, <2>3, <2>4
<1>2. CASE UploadFalha(o) \/ UploadExpira(o)
  <2>1. NaSessao(o) \in ops' /\ o.fase = "upload"
    BY <1>2, PassosDe DEF UploadFalha, UploadExpira
  <2> QED BY <1>0, <2>1, NaSessaoDe DEF Depois
<1>3. CASE Envia(o)
  <2>1. ops' = (ops \ {o}) \cup {Enviado(o)}
    BY <1>3, PassosDe
  <2>2. o.fase = "sessao"
    BY <1>3 DEF Envia
  <2> QED BY <2>1, <2>2, EnviadoDe DEF Depois
<1>4. CASE Grava(o)
  <2>1. Gravado(o) \in ops' /\ o.fase = "enviado"
    BY <1>4, PassosDe DEF Grava
  <2> QED BY <1>0, <2>1, GravadoDe DEF Depois
<1>5. CASE Salvou(o) \/ Recusa(o)
  <2>1. PICK a \in {"erro", "sucesso"} : Mostra(o, a)
    BY <1>5 DEF Salvou, Recusa
  <2>2. EmPausa(o) \in ops' /\ o.fase \in {"sessao", "enviado", "gravado"}
    BY <1>5, <2>1, PassosDe DEF Salvou, Recusa
  <2> QED BY <1>0, <2>2, EmPausaDe DEF Depois
<1> QED BY <1>1, <1>2, <1>3, <1>4, <1>5 DEF Muda

(* While the progress shows, no other step takes it from its phase.        *)
LEMMA FicaNaFase ==
    ASSUME TypeOK, [Next]_vars, NEW o \in ops, o.daForm, form'.progresso, ~Muda(o)
    PROVE  /\ \E q \in ops' : q.id = o.id /\ q.daForm /\ q.fase = o.fase
           /\ ~FimDaPausa(o)
<1>0. \A q \in ops : q \in Op
  BY DEF TypeOK
<1>1. ~FimDaPausa(o)
  BY DEF FimDaPausa, TypeOK, Form
<1>2. ~Fecha
  BY DEF Fecha, SemForm
<1> SUFFICES \E q \in ops' : q.id = o.id /\ q.daForm /\ q.fase = o.fase
  BY <1>1
<1>3. CASE o \in ops'
  BY <1>3
<1>4. CASE Toque \/ UNCHANGED vars
  <2>1. ops \subseteq ops'
    BY <1>2, <1>4, OkDe DEF Toque, AbreForm, EscolheFoto, Voltar, Salvar, vars
  <2> QED BY <1>3, <2>1
<1>5. ASSUME NEW r \in ops, Upload(r) \/ Andamento(r)
      PROVE  \E q \in ops' : q.id = o.id /\ q.daForm /\ q.fase = o.fase
  <2>1. CASE r = o
    <3>1. GuardaFoto(o)
      BY <1>1, <1>5, <2>1 DEF Upload, Andamento, Muda
    <3>2. NoServidor(o) \in ops'
      BY <3>1, PassosDe
    <3> QED BY <1>0, <3>2, NoServidorDe
  <2>2. CASE r # o /\ (UploadResponde(r) \/ UploadSemUrl(r))
    <3>1. PICK f \in ComNulo : EscreveFoto(r, f)
      BY <2>2, PassosDe DEF ComNulo
    <3>2. o \in ops' \/ ComTroca(o) \in ops'
      BY <2>2, <3>1, EscreveDe
    <3> QED BY <1>0, <1>3, <3>2, ComTrocaDe
  <2>3. CASE r # o /\ ~(UploadResponde(r) \/ UploadSemUrl(r))
    <3>1. o \in ops'
      BY <1>5, <2>3 DEF Upload, Andamento, GuardaFoto, UploadFalha, UploadExpira, Envia,
         Grava, Salvou, Recusa, Mostra, Segue, FimDaPausa
    <3> QED BY <1>3, <3>1
  <2> QED BY <2>1, <2>2, <2>3
<1>6. ASSUME NEW f \in tardios, UploadTardio(f)
      PROVE  o \in ops'
  BY <1>6 DEF UploadTardio
<1>7. ASSUME NEW a \in Alertas, Alheio(a)
      PROVE  o \in ops'
  BY <1>7 DEF Alheio
<1> QED BY <1>3, <1>4, <1>5, <1>6, <1>7 DEF Next

(* The handler i, of the form on screen, in the phase f.                   *)
DoForm(i, f) == \E o \in ops : o.id = i /\ o.daForm /\ o.fase = f

LEMMA PassoDoForm ==
    ASSUME IInv, [Next]_vars, NEW i \in 1 .. MaxOps, NEW f, DoForm(i, f)
    PROVE  \/ ~form'.progresso
           \/ DoForm(i, f)' /\ ~Prazo(i) /\ ~Resposta(i)
           \/ \E g \in Depois[f] : DoForm(i, g)'
<1>1. PICK o \in ops : o.id = i /\ o.daForm /\ o.fase = f
  BY DEF DoForm
<1>2. TypeOK /\ \A q \in ops : q.id = i => q = o
  BY <1>1 DEF IInv, IdsDistintos
<1>3. CASE Muda(o)
  <2>1. PICK q \in ops' : q.id = o.id /\ q.daForm /\ q.fase \in Depois[o.fase]
    BY <1>1, <1>2, <1>3, MudaDeFase
  <2>2. DoForm(i, q.fase)'
    BY <1>1, <2>1 DEF DoForm
  <2> QED BY <1>1, <2>1, <2>2
<1>4. CASE form'.progresso /\ ~Muda(o)
  <2>1. PICK q \in ops' : q.id = o.id /\ q.daForm /\ q.fase = o.fase
    BY <1>1, <1>2, <1>4, FicaNaFase
  <2>2. ~Prazo(i) /\ ~Resposta(i)
    BY <1>1, <1>2, <1>4, FicaNaFase DEF Prazo, Resposta, Muda
  <2> QED BY <1>1, <2>1, <2>2 DEF DoForm
<1> QED BY <1>3, <1>4

(* Five phases, each left by a timer or by an answer.                      *)
LEMMA DoFormTermina ==
    ASSUME NEW i \in 1 .. MaxOps
    PROVE  /\ Spec /\ JusticaPrazo(i) /\ JusticaResposta(i)
           /\ [](/\ NaFase(i, {"upload", "pausa"}) => ENABLED <<Prazo(i)>>_vars
                 /\ NaFase(i, {"sessao", "enviado", "gravado"})
                       => ENABLED <<Resposta(i)>>_vars)
           => ((\E o \in ops : o.id = i /\ o.daForm) ~> ~form.progresso)
<1> DEFINE P(f) == DoForm(i, f)
           Q    == ~form.progresso
           EP   == NaFase(i, {"upload", "pausa"})
           ER   == NaFase(i, {"sessao", "enviado", "gravado"})
<1>1. /\ P("upload") \/ P("pausa") => EP
      /\ P("sessao") \/ P("enviado") \/ P("gravado") => ER
  BY DEF DoForm, NaFase
<1>2. IInv /\ (\E o \in ops : o.id = i /\ o.daForm) =>
         P("upload") \/ P("sessao") \/ P("enviado") \/ P("gravado") \/ P("pausa")
  BY DEF IInv, TypeOK, Op, DoForm
<1>3. IInv /\ [Next]_vars /\ P("upload") =>
         Q' \/ (P("upload")' /\ ~Prazo(i)) \/ P("sessao")'
  BY PassoDoForm DEF Depois
<1>4. IInv /\ [Next]_vars /\ P("sessao") =>
         Q' \/ (P("sessao")' /\ ~Resposta(i)) \/ P("enviado")' \/ P("pausa")'
  BY PassoDoForm DEF Depois
<1>5. IInv /\ [Next]_vars /\ P("enviado") =>
         Q' \/ (P("enviado")' /\ ~Resposta(i)) \/ P("gravado")' \/ P("pausa")'
  BY PassoDoForm DEF Depois
<1>6. IInv /\ [Next]_vars /\ P("gravado") =>
         Q' \/ (P("gravado")' /\ ~Resposta(i)) \/ P("pausa")'
  BY PassoDoForm DEF Depois
<1>7. IInv /\ [Next]_vars /\ P("pausa") => Q' \/ (P("pausa")' /\ ~Prazo(i))
  BY PassoDoForm DEF Depois
<1> HIDE DEF P, Q, EP, ER
<1>8. /\ Spec /\ JusticaPrazo(i) /\ JusticaResposta(i)
      /\ []((EP => ENABLED <<Prazo(i)>>_vars) /\ (ER => ENABLED <<Resposta(i)>>_vars))
      => ((P("upload") \/ P("sessao") \/ P("enviado") \/ P("gravado") \/ P("pausa")) ~> Q)
  BY <1>1, <1>3, <1>4, <1>5, <1>6, <1>7, Invariancia, PTL
     DEF Spec, JusticaPrazo, JusticaResposta
<1> QED BY <1>2, <1>8, Invariancia, PTL DEF Q, EP, ER

(* The button stops showing progress whatever the server of the uploads,   *)
(* the alerts and the other handlers do (upload_api.dart:31,               *)
(* carro-form-page.dart:239-243): for every number of handlers, cars and   *)
(* photos, if a timer or an answer can always come.                        *)
THEOREM ProgressoSempreTermina == LiveSpec /\ []NuncaPreso => ProgressoTermina
<1> DEFINE N(i) == \E o \in ops : o.id = i /\ o.daForm
           H(i) == /\ NaFase(i, {"upload", "pausa"}) => ENABLED <<Prazo(i)>>_vars
                   /\ NaFase(i, {"sessao", "enviado", "gravado"})
                         => ENABLED <<Resposta(i)>>_vars
<1>1. \A i \in 1 .. MaxOps :
         /\ Spec /\ JusticaPrazo(i) /\ JusticaResposta(i) /\ []H(i)
         => [](N(i) => <>(~form.progresso))
  <2>1. ASSUME NEW i \in 1 .. MaxOps
        PROVE  /\ Spec /\ JusticaPrazo(i) /\ JusticaResposta(i) /\ []H(i)
               => [](N(i) => <>(~form.progresso))
    BY DoFormTermina, PTL
  <2> QED BY <2>1
<1>2. []NuncaPreso => \A i \in 1 .. MaxOps : []H(i)
  BY DEF NuncaPreso
<1>3. LiveSpec => Spec /\ \A i \in 1 .. MaxOps : JusticaPrazo(i) /\ JusticaResposta(i)
  BY DEF LiveSpec
<1>4. LiveSpec /\ []NuncaPreso => \A i \in 1 .. MaxOps : [](N(i) => <>(~form.progresso))
  BY <1>1, <1>2, <1>3
<1>5. (\A i \in 1 .. MaxOps : [](N(i) => <>(~form.progresso)))
         => [](\A i \in 1 .. MaxOps : N(i) => <>(~form.progresso))
  OBVIOUS
<1>6. (\A i \in 1 .. MaxOps : N(i) => <>(~form.progresso))
         => ((\E i \in 1 .. MaxOps : N(i)) => <>(~form.progresso))
  OBVIOUS
<1>7. IInv /\ form.progresso => \E i \in 1 .. MaxOps : N(i)
  BY DEF IInv, ProgressoFiel, TypeOK, Op
<1> QED BY <1>3, <1>4, <1>5, <1>6, <1>7, Invariancia, PTL DEF ProgressoTermina
=============================================================================
