-------------------------------- MODULE Foto --------------------------------
(***************************************************************************)
(* The photo of a car and the save that sends it: the form that picks a    *)
(* file, the upload with its timeout, the save that goes on whatever the   *)
(* upload did, and the rows the server ends up with                        *)
(* (lib/pages/carros/carro-form-page.dart, upload_api.dart,                *)
(* carros_api.dart, carro.dart, lib/utils/alert_dialog.dart).              *)
(*                                                                         *)
(* Salvar is never disabled.  A handler takes the file of the form with    *)
(* it, but writes the url it gets into the Carro, which other handlers of  *)
(* this form, or of an earlier form of the same car, write and read, too.  *)
(*                                                                         *)
(* A url stands for the photo it shows.  Of the stack of the Navigator     *)
(* there is the form and the alerts above it, its own and those of other   *)
(* pages; Edicao has the rest, and the transitions.  The photo of the      *)
(* camera, which _onClickFoto asks for after the one of the gallery, goes  *)
(* to the Firebase storage and nowhere else: it has no part here.          *)
(***************************************************************************)
EXTENDS Integers, Sequences, FiniteSets

CONSTANTS Objetos,   \* the Carro objects of the lists on screen
          Fotos,     \* the photos there are
          Nulo,      \* the Dart null: no file, no url, no id, no car
          MaxOps,    \* bound: handlers of Salvar that have not finished
          MaxAlheios \* bound: alerts of other pages over one form

ASSUME ConstantesOK == /\ Nulo \notin Objetos \cup Fotos
                       /\ MaxOps \in Nat \ {0}
                       /\ MaxAlheios \in Nat

VARIABLES form,        \* the form on screen
          alertas,     \* the alerts above it, the visible one last
          memoria,     \* the field urlFoto of each Carro
          ops,         \* the handlers of Salvar that have not finished
          guardadas,   \* the photos the server stores
          tardios      \* uploads nobody waits for any more

vars == <<form, alertas, memoria, ops, guardadas, tardios>>

ComNulo == Fotos \cup {Nulo}

(***************************************************************************)
(* The state of CarroFormPage, and its history, which only properties      *)
(* read.  linhas: the cars its saves created (2 is two or more).  repete:  *)
(* the user tapped Salvar while a save of this form was in flight, or was  *)
(* told that a save failed which the server had carried out.  desviado:    *)
(* the second pop of a success took another alert.  junto: Salvar was      *)
(* tapped before an earlier handler of this form had finished, its pause   *)
(* included.  alheios: the alerts of other pages so far.                   *)
(***************************************************************************)
Form == [aberto : BOOLEAN, carro : Objetos \cup {Nulo}, arquivo : ComNulo,
         progresso : BOOLEAN, linhas : 0 .. 2, repete : BOOLEAN,
         desviado : BOOLEAN, junto : BOOLEAN, alheios : 0 .. MaxAlheios]

(***************************************************************************)
(* A handler.  novo: the urlFoto of the Carro a save without car made for  *)
(* itself.  corpo: the urlFoto in the JSON.  guardado: the server stored   *)
(* the file already.  "pausa": the answer was shown, the 3 s before the    *)
(* progress is taken back run.  daForm: the page of the handler is mounted.*)
(* Properties only read esperada, the field at the tap or what the own     *)
(* upload wrote into it, and trocado, another handler wrote it since.      *)
(***************************************************************************)
Op == [id : 1 .. MaxOps, carro : Objetos \cup {Nulo}, arquivo : ComNulo,
       fase : {"upload", "sessao", "enviado", "gravado", "pausa"},
       guardado : BOOLEAN, novo : ComNulo, corpo : ComNulo, daForm : BOOLEAN,
       esperada : ComNulo, trocado : BOOLEAN]

(* A "presa" is an alert of a page that is disposed before anybody taps    *)
(* Ok: the pop with its context throws.                                    *)
Alertas == {"erro", "sucesso", "presa"}

TypeOK == /\ form \in Form
          /\ alertas \in Seq(Alertas)
          /\ memoria \in [Objetos -> ComNulo]
          /\ ops \subseteq Op
          /\ guardadas \subseteq Fotos
          /\ tardios \subseteq Fotos

SemForm == [aberto |-> FALSE, carro |-> Nulo, arquivo |-> Nulo, progresso |-> FALSE,
            linhas |-> 0, repete |-> FALSE, desviado |-> FALSE, junto |-> FALSE,
            alheios |-> 0]

(* The cars of the list were read from the server, with their urlFoto.     *)
Init == /\ form = SemForm
        /\ alertas = <<>>
        /\ memoria \in [Objetos -> ComNulo]
        /\ ops = {}
        /\ guardadas = {memoria[c] : c \in Objetos} \ {Nulo}
        /\ tardios = {}

-----------------------------------------------------------------------------
(* The form.                                                               *)

NaForm == form.aberto /\ alertas = <<>>

AbreForm(c) ==
    /\ ~form.aberto
    /\ form' = [SemForm EXCEPT !.aberto = TRUE, !.carro = c]
    /\ UNCHANGED <<alertas, memoria, ops, guardadas, tardios>>

(* Mutant: the handlers keep the context of the disposed page.             *)
FechaSemSoltar == form' = SemForm /\ alertas' = <<>> /\ UNCHANGED ops

(* The page is disposed; its handlers run on, and show nothing any more.   *)
Fecha == /\ form' = SemForm
         /\ alertas' = <<>>
         /\ ops' = {[o EXCEPT !.daForm = FALSE] : o \in ops}

Voltar == /\ NaForm
          /\ Fecha
          /\ UNCHANGED <<memoria, guardadas, tardios>>

(* _onClickFoto, up to the file of the gallery; alerts may have come while *)
(* the gallery was open.                                                   *)
EscolheFoto(f) ==
    /\ form.aberto
    /\ form' = [form EXCEPT !.arquivo = f]
    /\ UNCHANGED <<alertas, memoria, ops, guardadas, tardios>>

HaVaga == \E i \in 1 .. MaxOps : \A o \in ops : o.id # i

IdLivre == CHOOSE i \in 1 .. MaxOps : \A o \in ops : o.id # i

EmVoo(o) == o.daForm /\ o.fase # "pausa"

(* Salvar of a valid form; save starts with the upload of the file, if     *)
(* there is one.                                                           *)
Salvar ==
    /\ NaForm /\ HaVaga
    /\ form' = [form EXCEPT !.progresso = TRUE, !.repete = @ \/ \E o \in ops : EmVoo(o),
                            !.junto = @ \/ \E o \in ops : o.daForm]
    /\ ops' = ops \cup
        {[id |-> IdLivre, carro |-> form.carro, arquivo |-> form.arquivo,
          fase |-> IF form.arquivo = Nulo THEN "sessao" ELSE "upload",
          guardado |-> FALSE, novo |-> Nulo, corpo |-> Nulo, daForm |-> TRUE,
          trocado |-> FALSE,
          esperada |-> IF form.carro = Nulo THEN Nulo ELSE memoria[form.carro]]}
    /\ UNCHANGED <<alertas, memoria, guardadas, tardios>>

(* Mutant: the callback of the success closes the alert only.              *)
OkSemFechar ==
    /\ alertas # <<>>
    /\ alertas' = SubSeq(alertas, 1, Len(alertas) - 1)
    /\ UNCHANGED <<form, ops, memoria, guardadas, tardios>>

(* The Ok of the visible alert pops it; the callback of a success pops     *)
(* what is on top then, the form or another alert.                         *)
OkDoAlerta ==
    /\ alertas # <<>> /\ alertas[Len(alertas)] # "presa"
    /\ LET n    == Len(alertas)
           pops == IF alertas[n] = "sucesso" THEN 2 ELSE 1
       IN  IF pops > n
           THEN Fecha
           ELSE /\ alertas' = SubSeq(alertas, 1, n - pops)
                /\ form' = [form EXCEPT !.desviado = @ \/ pops = 2]
                /\ UNCHANGED ops
    /\ UNCHANGED <<memoria, guardadas, tardios>>

(* Another page opens an alert over the form: the CarroPage underneath     *)
(* when its delete is answered, or a form still in its transition.         *)
Alheio(alerta) ==
    /\ form.aberto /\ form.alheios < MaxAlheios
    /\ alertas' = Append(alertas, alerta)
    /\ form' = [form EXCEPT !.alheios = @ + 1]
    /\ UNCHANGED <<memoria, ops, guardadas, tardios>>

-----------------------------------------------------------------------------
(* The upload.                                                             *)

Segue(o, resto) == ops' = (ops \ {o}) \cup {resto}

(* The server stores the file; its answer is still on the way.             *)
GuardaFoto(o) ==
    /\ o.fase = "upload" /\ ~o.guardado
    /\ guardadas' = guardadas \cup {o.arquivo}
    /\ Segue(o, [o EXCEPT !.guardado = TRUE])
    /\ UNCHANGED <<form, alertas, memoria, tardios>>

AntesDoJson(o) == o.fase \in {"upload", "sessao"}

(* c.urlFoto = response.result: o goes on, and the field changed for the   *)
(* handlers of the same Carro that have not made their JSON.               *)
EscreveFoto(o, f) ==
    LET p == [o EXCEPT !.fase = "sessao", !.esperada = f, !.trocado = FALSE,
                       !.novo = IF o.carro = Nulo THEN f ELSE @]
    IN  /\ memoria' = [c \in Objetos |-> IF c = o.carro THEN f ELSE memoria[c]]
        /\ ops' = {IF q.carro = o.carro /\ o.carro # Nulo /\ AntesDoJson(q)
                   THEN [q EXCEPT !.trocado = TRUE] ELSE q : q \in ops \ {o}} \cup {p}

(* The body of the answer has the url.                                     *)
UploadResponde(o) ==
    /\ o.fase = "upload" /\ o.guardado
    /\ EscreveFoto(o, o.arquivo)
    /\ UNCHANGED <<form, alertas, guardadas, tardios>>

(* The body is JSON without url, as of an error: the status is not tested, *)
(* and null is a result like any other.                                    *)
UploadSemUrl(o) ==
    /\ o.fase = "upload"
    /\ EscreveFoto(o, Nulo)
    /\ UNCHANGED <<form, alertas, guardadas, tardios>>

(* Mutant: the url is known before the server has the file.                *)
UploadFalhaComUrl(o) ==
    /\ o.fase = "upload"
    /\ EscreveFoto(o, o.arquivo)
    /\ UNCHANGED <<form, alertas, guardadas, tardios>>

(* Mutant: the result of the upload is assigned without testing ok.        *)
UploadFalhaLimpa(o) ==
    /\ o.fase = "upload"
    /\ memoria' = [c \in Objetos |-> IF c = o.carro THEN Nulo ELSE memoria[c]]
    /\ Segue(o, [o EXCEPT !.fase = "sessao"])
    /\ UNCHANGED <<form, alertas, guardadas, tardios>>

(* The file cannot be read, the connection fails or the body is not JSON;  *)
(* save does not look at the error.                                        *)
UploadFalha(o) ==
    /\ o.fase = "upload"
    /\ Segue(o, [o EXCEPT !.fase = "sessao"])
    /\ UNCHANGED <<form, alertas, memoria, guardadas, tardios>>

(* Mutant: the upload is awaited without a timeout.                        *)
UploadSemPrazo(o) == UploadFalha(o) /\ o.guardado

(* 120 s are over: the handler goes on without the photo, the POST goes on *)
(* without the handler.                                                    *)
UploadExpira(o) ==
    /\ o.fase = "upload"
    /\ Segue(o, [o EXCEPT !.fase = "sessao"])
    /\ tardios' = IF o.guardado THEN tardios ELSE tardios \cup {o.arquivo}
    /\ UNCHANGED <<form, alertas, memoria, guardadas>>

(* The server stores, or never gets, a file nobody waits for.              *)
UploadTardio(f) ==
    /\ f \in tardios
    /\ tardios' = tardios \ {f}
    /\ guardadas' \in {guardadas, guardadas \cup {f}}
    /\ UNCHANGED <<form, alertas, memoria, ops>>

-----------------------------------------------------------------------------
(* The save.                                                               *)

(* The field urlFoto of the Carro of a handler.                            *)
FotoDe(o) == IF o.carro = Nulo THEN o.novo ELSE memoria[o.carro]

(* A user is stored: the JSON is made, and sent.                           *)
Envia(o) ==
    /\ o.fase = "sessao"
    /\ Segue(o, [o EXCEPT !.fase = "enviado", !.corpo = FotoDe(o)])
    /\ UNCHANGED <<form, alertas, memoria, guardadas, tardios>>

(* The server carries the request out.  fromJson reads no id and the one   *)
(* of the answer of a POST is printed and thrown away: every save is a     *)
(* POST, and creates a car.                                                *)
Grava(o) ==
    /\ o.fase = "enviado"
    /\ Segue(o, [o EXCEPT !.fase = "gravado"])
    /\ form' = IF o.daForm THEN [form EXCEPT !.linhas = IF @ = 0 THEN 1 ELSE 2] ELSE form
    /\ UNCHANGED <<alertas, memoria, guardadas, tardios>>

(* save is over, with all it held, and the handler shows an alert and      *)
(* waits 3 s; without its page showDialog throws, and the handler is over. *)
Mostra(o, alerta) ==
    IF o.daForm
    THEN /\ alertas' = Append(alertas, alerta)
         /\ Segue(o, [o EXCEPT !.fase = "pausa", !.arquivo = Nulo, !.guardado = FALSE,
                               !.novo = Nulo, !.corpo = Nulo, !.esperada = Nulo,
                               !.trocado = FALSE])
    ELSE /\ ops' = ops \ {o}
         /\ UNCHANGED alertas

(* 200 or 201, with a body that can be decoded.                            *)
Salvou(o) ==
    /\ o.fase = "gravado"
    /\ Mostra(o, "sucesso")
    /\ UNCHANGED <<form, memoria, guardadas, tardios>>

(* No user is stored, the request is refused or lost, or the answer to one *)
(* that was carried out is lost or cannot be decoded.                      *)
Recusa(o) ==
    /\ o.fase \in {"sessao", "enviado", "gravado"}
    /\ Mostra(o, "erro")
    /\ form' = [form EXCEPT !.repete = @ \/ (o.daForm /\ o.fase = "gravado")]
    /\ UNCHANGED <<memoria, guardadas, tardios>>

(* Mutant: the 3 s of a form that is gone end the progress of the next.    *)
FimDaPausaAlheia(o) ==
    /\ o.fase = "pausa"
    /\ ops' = ops \ {o}
    /\ form' = [form EXCEPT !.progresso = FALSE]
    /\ UNCHANGED <<alertas, memoria, guardadas, tardios>>

(* Mutant: the progress is taken back only while no alert covers the form. *)
FimDaPausaCoberta(o) ==
    /\ o.fase = "pausa"
    /\ ops' = ops \ {o}
    /\ form' = [form EXCEPT !.progresso = @ /\ ~(o.daForm /\ alertas = <<>>)]
    /\ UNCHANGED <<alertas, memoria, guardadas, tardios>>

(* The 3 s are over; setState throws once the page is disposed.            *)
FimDaPausa(o) ==
    /\ o.fase = "pausa"
    /\ ops' = ops \ {o}
    /\ form' = [form EXCEPT !.progresso = @ /\ ~o.daForm]
    /\ UNCHANGED <<alertas, memoria, guardadas, tardios>>

-----------------------------------------------------------------------------
Toque == \/ \E c \in Objetos \cup {Nulo} : AbreForm(c)
         \/ \E f \in Fotos : EscolheFoto(f)
         \/ Voltar \/ Salvar \/ OkDoAlerta

Upload(o) == \/ GuardaFoto(o) \/ UploadResponde(o) \/ UploadSemUrl(o)
             \/ UploadFalha(o) \/ UploadExpira(o)

Andamento(o) == Envia(o) \/ Grava(o) \/ Salvou(o) \/ Recusa(o) \/ FimDaPausa(o)

Next == \/ Toque
        \/ \E o \in ops : Upload(o) \/ Andamento(o)
        \/ \E f \in tardios : UploadTardio(f)
        \/ \E a \in Alertas : Alheio(a)

Spec == Init /\ [][Next]_vars

(***************************************************************************)
(* Timers go off: the one of the upload and the 3 s of the pause.  Nothing *)
(* is assumed of the server of the uploads, which may never answer; the    *)
(* session is read and a request is answered or given up in the end.       *)
(***************************************************************************)
Prazo(i) == \E o \in ops : o.id = i /\ (UploadExpira(o) \/ FimDaPausa(o))

Resposta(i) == \E o \in ops : o.id = i /\ (Envia(o) \/ Salvou(o) \/ Recusa(o))

JusticaPrazo(i) == WF_vars(Prazo(i))

JusticaResposta(i) == WF_vars(Resposta(i))

LiveSpec == Spec /\ \A i \in 1 .. MaxOps : JusticaPrazo(i) /\ JusticaResposta(i)

-----------------------------------------------------------------------------
(* Properties.                                                             *)

(* The JSON of a save carries what its own upload has left in the Carro,   *)
(* the photo chosen at the tap or the null of an answer without url        *)
(* (carros_api.dart:126), and the photo the Carro had at the tap if the    *)
(* upload gave no answer or timed out, unless another save of the same     *)
(* Carro wrote the field between: a late answer, a later choice, another   *)
(* form or a page left behind have no say.                                 *)
FotoEnviada ==
    \A o \in ops : o.fase \in {"enviado", "gravado"} /\ ~o.trocado => o.corpo = o.esperada

(* Whatever times out, fails or arrives late, a photo that a Carro or a    *)
(* request that creates a car refers to is stored on the server            *)
(* (upload_api.dart:31-45), which keeps what it stored.                    *)
FotoGuardada ==
    /\ \A c \in Objetos : memoria[c] \in guardadas \cup {Nulo}
    /\ \A o \in ops : {o.esperada, o.novo, o.corpo} \subseteq guardadas \cup {Nulo}

(* The button shows progress only while a handler of the form on screen    *)
(* will take it back (carro-form-page.dart:239-243), however taps, errors  *)
(* and closings interleave.                                                *)
ProgressoFiel == form.progresso => \E o \in ops : o.daForm

(* While a save of the form on screen runs, its button shows it, unless    *)
(* Salvar was tapped before an earlier handler of this form was through:   *)
(* the end of the pause of that one takes the progress away, the fields    *)
(* being shared (carro-form-page.dart:239-243).                            *)
ProgressoDura == (\E o \in ops : EmVoo(o)) /\ ~form.junto => form.progresso

(* A form creates a second car only if the user tapped Salvar again during *)
(* a save, was told that a save had failed which the server had carried    *)
(* out (carros_api.dart:158-176), or was left on the form after a success  *)
(* because the second pop of an Ok took another alert, one of the          *)
(* CarroPage underneath (carro_page.dart:245-253) among them.              *)
DuplicataTemMotivo == form.linhas = 2 => form.repete \/ form.desviado

(* A handler never waits for the server of the uploads, for an alert or    *)
(* for another handler: in each phase its timer or its answer can come.    *)
(* That holds by the shape of the guards; ProgressoSempreTermina needs it. *)
NaFase(i, fases) == \E o \in ops : o.id = i /\ o.fase \in fases

NuncaPreso ==
    \A i \in 1 .. MaxOps :
        /\ NaFase(i, {"upload", "pausa"}) => ENABLED <<Prazo(i)>>_vars
        /\ NaFase(i, {"sessao", "enviado", "gravado"}) => ENABLED <<Resposta(i)>>_vars

(* The progress ends even if the server of the uploads never answers       *)
(* (upload_api.dart:31) and nobody closes the alerts.                      *)
ProgressoTermina == form.progresso ~> ~form.progresso

-----------------------------------------------------------------------------
(* The inductive invariant behind the safety properties.                   *)

IdsDistintos == \A o, p \in ops : o.id = p.id => o = p

FormFechado == ~form.aberto => /\ form = SemForm
                               /\ alertas = <<>>
                               /\ \A o \in ops : ~o.daForm

(* Nobody else wrote the field: it is what it was at the tap, or what the  *)
(* upload left.                                                            *)
CampoAtual == \A o \in ops : AntesDoJson(o) /\ ~o.trocado => FotoDe(o) = o.esperada

UploadCorrente == \A o \in ops : /\ o.fase = "upload" => o.arquivo # Nulo
                                 /\ o.guardado => o.arquivo \in guardadas

(* The handlers of the form on screen, one at a time unless junto.         *)
UmDoForm == ~form.junto => \A o, p \in ops : o.daForm /\ p.daForm => o = p

(* Without haste, error or stray pop there is one save at a time, and the  *)
(* car it created is about to be reported, or a success is still shown     *)
(* whose Ok will close the form.                                           *)
UmPorVez ==
    ~form.repete /\ ~form.desviado =>
        /\ \A o, p \in ops : EmVoo(o) /\ EmVoo(p) => o = p
        /\ form.linhas = 1 =>
              \/ \E o \in ops : EmVoo(o) /\ o.fase = "gravado"
              \/ /\ \E i \in 1 .. Len(alertas) : alertas[i] = "sucesso"
                 /\ \A o \in ops : ~EmVoo(o)

IInv == /\ TypeOK
        /\ IdsDistintos
        /\ FormFechado
        /\ UploadCorrente
        /\ CampoAtual
        /\ FotoEnviada
        /\ FotoGuardada
        /\ ProgressoFiel
        /\ UmDoForm
        /\ ProgressoDura
        /\ UmPorVez
        /\ DuplicataTemMotivo
=============================================================================
