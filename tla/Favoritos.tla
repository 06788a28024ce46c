----------------------------- MODULE Favoritos ------------------------------
(***************************************************************************)
(* The favourites kept on Firestore: the heart of CarroPage, which asks    *)
(* whether its car is a favourite and toggles it, and the list of the tab  *)
(* Favoritos (lib/pages/favoritos/favorito_service.dart,                   *)
(* favoritos_page.dart, lib/pages/carros/carro_page.dart).                 *)
(*                                                                         *)
(* A toggle awaits the document and then writes the opposite of what it    *)
(* read; the page stays usable meanwhile, and reads are answered in any    *)
(* order.  Firestore applies a write to the device's view at once and      *)
(* sends it later; the server may refuse it, and other devices write, too. *)
(***************************************************************************)
EXTENDS Integers, Sequences

CONSTANTS Carros,      \* the cars
          Nulo,        \* the Dart null, as the id of a Carro
          Nenhum,      \* no document; no page
          MaxOps,      \* bound: reads awaiting their answer
          MaxEscritas  \* bound: writes not acknowledged by the server

ASSUME ConstantesOK == /\ Nulo \notin Carros
                       /\ Nenhum \notin Carros \cup {Nulo}
                       /\ MaxOps \in Nat \ {0}
                       /\ MaxEscritas \in Nat \ {0}

VARIABLES nuvem,   \* the documents of the collection "carros" on the server
          cache,   \* what the device knows of them
          fila,    \* its writes not yet acknowledged, oldest first
          pagina,  \* the Carro of the CarroPage on screen
          cor,     \* the field color of the page: whether it is red
          tela,    \* whether the heart was painted red
          ops,     \* reads awaiting their answer
          tocada,  \* the page has answered a tap (only properties read it)
          alheio   \* since then its document came or went otherwise (idem)

docs   == <<nuvem, cache, fila>>
quadro == <<pagina, cor, tela, tocada>>
vars   == <<docs, quadro, ops, alheio>>

ChaveLida(c) == c      \* mutant: Carro.fromJson reads the id

(* The name of the document, "${carro.id}": Carro.fromJson reads no id.    *)
Chave(c) == Nulo

Chaves == Carros \cup {Nulo}
Docs   == [Chaves -> Carros \cup {Nenhum}]
Escrita == [chave : Chaves, valor : Carros \cup {Nenhum}]

(* lido: the document was read, existe tells what was found.  daPagina:    *)
(* the page that asked is still on screen.  superado: the document came or *)
(* went after it was read (only properties look at it).                    *)
Op == [id : 1 .. MaxOps, tipo : {"pergunta", "toque"}, carro : Carros, lido : BOOLEAN,
       existe : BOOLEAN, daPagina : BOOLEAN, superado : BOOLEAN]

TypeOK == /\ nuvem \in Docs /\ cache \in Docs
          /\ fila \in Seq(Escrita)
          /\ pagina \in Carros \cup {Nenhum}
          /\ cor \in BOOLEAN /\ tela \in BOOLEAN
          /\ ops \subseteq Op
          /\ tocada \in BOOLEAN /\ alheio \in BOOLEAN

(* The device's view of a document: its own last write, or what it knows.  *)
Escritas(k) == {i \in 1 .. Len(fila) : fila[i].chave = k}

Vista(k) == IF Escritas(k) = {} THEN cache[k]
            ELSE fila[CHOOSE i \in Escritas(k) : \A j \in Escritas(k) : j <= i].valor

Existe(k) == Vista(k) # Nenhum

(* The cars the tab Favoritos lists.                                       *)
Lista == {Vista(k) : k \in Chaves} \ {Nenhum}

(* The favourites of an earlier use of the app are there, and known.       *)
Init == /\ \E v \in Carros \cup {Nenhum} :
               nuvem = [k \in Chaves |-> IF \E c \in Carros : v = c /\ k = Chave(c)
                                         THEN v ELSE Nenhum]
        /\ cache = nuvem /\ fila = <<>>
        /\ pagina = Nenhum /\ cor = FALSE /\ tela = FALSE
        /\ ops = {} /\ tocada = FALSE /\ alheio = FALSE

-----------------------------------------------------------------------------
HaVaga == \E i \in 1 .. MaxOps : \A o \in ops : o.id # i

Pede(tipo, c) ==
    [id |-> CHOOSE i \in 1 .. MaxOps : \A o \in ops : o.id # i, tipo |-> tipo, carro |-> c,
     lido |-> FALSE, existe |-> FALSE, daPagina |-> TRUE, superado |-> FALSE]

(* initState: the heart is grey, and isFavorito2 asks.                     *)
Abre(c) ==
    /\ pagina = Nenhum /\ HaVaga
    /\ pagina' = c
    /\ ops' = ops \cup {Pede("pergunta", c)}
    /\ UNCHANGED <<docs, cor, tela, tocada, alheio>>

(* Mutant: answers go to whichever page is on screen.                      *)
FechaSemSoltar ==
    /\ pagina # Nenhum
    /\ pagina' = Nenhum
    /\ cor' = FALSE /\ tela' = FALSE /\ tocada' = FALSE /\ alheio' = FALSE
    /\ UNCHANGED <<docs, ops>>

(* dispose: the reads of the page go on without it.                        *)
Fecha ==
    /\ pagina # Nenhum
    /\ pagina' = Nenhum
    /\ cor' = FALSE /\ tela' = FALSE /\ tocada' = FALSE /\ alheio' = FALSE
    /\ ops' = {[o EXCEPT !.daPagina = FALSE] : o \in ops}
    /\ UNCHANGED docs

(* The heart is tapped: favoritar2 reads the document first.               *)
Toca ==
    /\ pagina # Nenhum /\ HaVaga
    /\ ops' = ops \cup {Pede("toque", pagina)}
    /\ UNCHANGED <<docs, quadro, alheio>>

Le(o) ==
    /\ ~o.lido
    /\ ops' = (ops \ {o}) \cup {[o EXCEPT !.lido = TRUE, !.existe = Existe(Chave(o.carro))]}
    /\ UNCHANGED <<docs, quadro, alheio>>

(* The read fails: the handler ends, and nobody is told.                   *)
FalhaLeitura(o) ==
    /\ ~o.lido
    /\ ops' = ops \ {o}
    /\ UNCHANGED <<docs, quadro, alheio>>

-----------------------------------------------------------------------------
(* Steps that change the device's view.                                    *)

Mudou(c) == Existe(Chave(c))' # Existe(Chave(c))

Supera(resto) ==
    ops' = {IF o.lido /\ Mudou(o.carro) THEN [o EXCEPT !.superado = TRUE] ELSE o : o \in resto}

Alheia == alheio' = (alheio \/ \E c \in Carros : c = pagina /\ Mudou(c))

(* Mutant: the answer paints the heart (the part 1 of initState).          *)
RespondePerguntaPinta(o) ==
    /\ o.lido /\ o.tipo = "pergunta"
    /\ ops' = ops \ {o}
    /\ cor' = IF o.daPagina THEN o.existe ELSE cor
    /\ tela' = IF o.daPagina THEN o.existe ELSE tela
    /\ UNCHANGED <<docs, pagina, tocada, alheio>>

(* isFavorito2 answers: the color is set without setState, and nothing     *)
(* repaints the heart until the next tap is answered.                      *)
RespondePergunta(o) ==
    /\ o.lido /\ o.tipo = "pergunta"
    /\ ops' = ops \ {o}
    /\ cor' = IF o.daPagina THEN o.existe ELSE cor
    /\ UNCHANGED <<docs, pagina, tela, tocada, alheio>>

Escreve(c, valor) == /\ Len(fila) < MaxEscritas
                     /\ fila' = Append(fila, [chave |-> Chave(c), valor |-> valor])
                     /\ UNCHANGED <<nuvem, cache>>

(* Mutant: the tap toggles the color of the page, not what it read.        *)
RespondeToquePelaCor(o) ==
    /\ o.lido /\ o.tipo = "toque"
    /\ Escreve(o.carro, IF cor THEN Nenhum ELSE o.carro)
    /\ Supera(ops \ {o})
    /\ IF o.daPagina THEN cor' = ~cor /\ tela' = ~cor /\ tocada' = TRUE /\ alheio' = FALSE
                     ELSE Alheia /\ UNCHANGED <<cor, tela, tocada>>
    /\ UNCHANGED pagina

(* favoritar2 goes on: setData or delete, unawaited, then setState.        *)
RespondeToque(o) ==
    /\ o.lido /\ o.tipo = "toque"
    /\ Escreve(o.carro, IF o.existe THEN Nenhum ELSE o.carro)
    /\ Supera(ops \ {o})
    /\ IF o.daPagina THEN cor' = ~o.existe /\ tela' = ~o.existe /\ tocada' = TRUE /\ alheio' = FALSE
                     ELSE Alheia /\ UNCHANGED <<cor, tela, tocada>>
    /\ UNCHANGED pagina

(* The server acknowledges the oldest write, or refuses it.                *)
Confirma ==
    /\ fila # <<>>
    /\ LET e == Head(fila)
       IN  /\ nuvem' = [nuvem EXCEPT ![e.chave] = e.valor]
           /\ cache' = [cache EXCEPT ![e.chave] = e.valor]
    /\ fila' = Tail(fila)
    /\ UNCHANGED <<quadro, ops, alheio>>

RecusaEscrita ==
    /\ fila # <<>>
    /\ fila' = Tail(fila)
    /\ UNCHANGED <<nuvem, cache>>
    /\ Supera(ops) /\ Alheia
    /\ UNCHANGED quadro

(* The listener of snapshots() or a read brings the server's documents.    *)
Sincroniza ==
    /\ cache' = nuvem
    /\ UNCHANGED <<nuvem, fila>>
    /\ Supera(ops) /\ Alheia
    /\ UNCHANGED quadro

(* Another device toggles a car.                                           *)
Outro(c) ==
    /\ nuvem' = [nuvem EXCEPT ![Chave(c)] = IF @ = Nenhum THEN c ELSE Nenhum]
    /\ UNCHANGED <<cache, fila, quadro, ops, alheio>>

Andamento(o) == Le(o) \/ FalhaLeitura(o) \/ RespondePergunta(o) \/ RespondeToque(o)

Next == \/ \E c \in Carros : Abre(c) \/ Outro(c)
        \/ Fecha \/ Toca \/ Confirma \/ RecusaEscrita \/ Sincroniza
        \/ \E o \in ops : Andamento(o)

Spec == Init /\ [][Next]_vars

-----------------------------------------------------------------------------
(* Properties.                                                             *)

(* The tab Favoritos never lists two cars: every car toggles the document  *)
(* "null" (favorito_service.dart:22), whatever order the writes of the     *)
(* devices, their refusals and the listener take.                          *)
UmFavoritoSo == \A c, d \in Lista : c = d

(* Once a tap of the page was answered, the heart shows what the device    *)
(* sees, until another page, another device or a refusal changes it: late  *)
(* answers of isFavorito2 and taps that overlap never paint it wrong.      *)
CoracaoFiel == pagina # Nenhum /\ tocada /\ ~alheio => tela = Existe(Chave(pagina))

(* A tap that is answered puts the favourite in if it was out and out if   *)
(* it was in, unless the document came or went between its read and its    *)
(* write (favorito_service.dart:23-33 has no transaction).                 *)
AlternaSalvoSuperado ==
    [][\A o \in ops : o.tipo = "toque" /\ o.lido /\ ~o.superado
                          /\ (\A q \in ops' : q.id # o.id) => Mudou(o.carro)]_vars

(* The refinement mapping: all cars have one document, and a tap of the    *)
(* page is disputed when the document came or went after it was read.      *)
Disputa == \E o \in ops : o.tipo = "toque" /\ o.daPagina /\ o.superado

C == INSTANCE Coracao WITH marcado <- Vista(Nulo), coracao <- tela, disputa <- Disputa

(* Read, unawaited write and repaint, in whatever order the reads of the   *)
(* taps and of isFavorito2 are answered (favorito_service.dart:16-40,      *)
(* carro_page.dart:46), are together one step in which the favourite and   *)
(* the heart are toggled, but for the disputed taps; nothing else paints   *)
(* the heart.                                                              *)
ImplementaCoracao == C!Spec

-----------------------------------------------------------------------------
(* The inductive invariant behind them.                                    *)

IdsDistintos == \A o, q \in ops : o.id = q.id => o = q

PaginaDasOps == \A o \in ops : o.daPagina => pagina = o.carro

LeituraAtual ==
    \A o \in ops : o.lido /\ ~o.superado => o.existe = Existe(Chave(o.carro))

TocadaNaPagina == tocada => pagina # Nenhum

SoChaveNula ==
    /\ \A k \in Carros : nuvem[k] = Nenhum /\ cache[k] = Nenhum
    /\ \A i \in 1 .. Len(fila) : fila[i].chave = Nulo

IInv == /\ TypeOK
        /\ IdsDistintos
        /\ PaginaDasOps
        /\ TocadaNaPagina
        /\ LeituraAtual
        /\ SoChaveNula
        /\ CoracaoFiel
=============================================================================
