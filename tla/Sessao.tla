------------------------------- MODULE Sessao -------------------------------
(***************************************************************************)
(* The session of the user and the pages that open and close it: the       *)
(* splash page, LoginPage, CadastroPage, the logout of the drawer, the     *)
(* user kept by Prefs under "user.prefs", and the stack of the Navigator   *)
(* (lib/splash_page.dart, lib/drawer_list.dart, lib/pages/login/*.dart,    *)
(* lib/utils/prefs.dart, navigator.dart, alert_dialog.dart,                *)
(* finger_print.dart).                                                     *)
(*                                                                         *)
(* A login is a handler that awaits an answer; its button stays enabled,   *)
(* and the user moves on meanwhile, so answers arrive in any order and to  *)
(* pages that are covered, leaving the screen or gone.  push(replace:      *)
(* true) replaces the route on top, whichever page calls it.               *)
(*                                                                         *)
(* Reinicia is the process killed at any moment and started again.         *)
(***************************************************************************)
EXTENDS Integers, Sequences, FiniteSets

CONSTANTS MaxPilha,    \* bound: routes on the stack
          MaxRotas,    \* bound: login and cadastro routes not yet disposed
          MaxOps,      \* bound: logins awaiting their answer
          MaxEscritas  \* bound: writes of Prefs not yet on disk

ASSUME LimitesOK == /\ MaxPilha \in Nat \ {0}
                    /\ MaxRotas \in Nat \ {0}
                    /\ MaxOps \in Nat \ {0}
                    /\ MaxEscritas \in Nat \ {0}

VARIABLES pilha,       \* the routes of the Navigator, the visible one last
          saindo,      \* replaced or popped pages still in their transition
          ops,         \* logins awaiting their answer
          memo,        \* "user.prefs" in the memory of the plugin
          escritas,    \* its writes on their way to disk, oldest first
          disco,       \* "user.prefs" on disk
          fuser,       \* whether FirebaseAuth keeps a signed-in user
          splash,      \* the futures SplashPage waits for
          tardia       \* an answer opened a Home for a page not on top

vars == <<pilha, saindo, ops, memo, escritas, disco, fuser, splash, tardia>>

armazem == <<memo, escritas, disco>>

(***************************************************************************)
(* A stored user: "completo" as the carros API and the sign-up store it,   *)
(* "semRoles" as both Firebase logins do, who leave out the roles (and the *)
(* token) that Usuario.fromJson calls cast on: reading it back throws.     *)
(***************************************************************************)
Usuarios == {"vazio", "completo", "semRoles"}
Legivel(u) == u = "completo"

Paginas == {"splash", "login", "cadastro", "home", "outra", "alerta"}

(***************************************************************************)
(* A route.  id names login and cadastro pages, whose handlers outlive a   *)
(* step; dono is the page whose context the alert pops with, 0 once that   *)
(* page is disposed; naSaida tells that the page was leaving already when  *)
(* it opened the alert (no state of the code: a property reads it).        *)
(***************************************************************************)
Rotas == 0 .. MaxRotas
Rota  == [pagina : Paginas, id : Rotas, dono : Rotas, naSaida : BOOLEAN]

(***************************************************************************)
(* A login: dono is the page whose handler awaits, 0 once it is disposed.  *)
(* "feito": Firebase signed the user in, the app does not know it yet.     *)
(***************************************************************************)
Op == [id : 1 .. MaxOps, tipo : {"api", "fire", "digital", "cadastro"},
       fase : {"pedido", "feito"}, dono : Rotas]

Splash == [prefs : {"espera", "nulo", "usuario", "erro"},
           banco : {"espera", "ok", "erro"}, user2 : BOOLEAN]

TypeOK == /\ pilha \in Seq(Rota) /\ Len(pilha) \in 1 .. MaxPilha
          /\ saindo \subseteq 1 .. MaxRotas
          /\ ops \subseteq Op
          /\ memo \in Usuarios
          /\ escritas \in Seq(Usuarios) /\ Len(escritas) <= MaxEscritas
          /\ disco \in Usuarios
          /\ fuser \in BOOLEAN
          /\ splash \in Splash
          /\ tardia \in BOOLEAN

-----------------------------------------------------------------------------
(* The Navigator.                                                          *)

Simples(pagina) == [pagina |-> pagina, id |-> 0, dono |-> 0, naSaida |-> FALSE]

Alerta(d) == [pagina |-> "alerta", id |-> 0, dono |-> d, naSaida |-> d \in saindo]

IdsVivos == {pilha[i].id : i \in 1 .. Len(pilha)} \cup saindo

HaRota == \E i \in 1 .. MaxRotas : i \notin IdsVivos

IdNovo == CHOOSE i \in 1 .. MaxRotas : i \notin IdsVivos

ComHandlers(pagina) == [Simples(pagina) EXCEPT !.id = IdNovo]

Topo == pilha[Len(pilha)]

Abaixo == SubSeq(pilha, 1, Len(pilha) - 1)

(* The top route leaves the stack; its page stays mounted until the end of *)
(* the transition, which matters only while one of its handlers awaits.    *)
TiraTopoJa(resto) == UNCHANGED saindo   \* mutant: disposed, its context kept

TiraTopo(resto) == saindo' = (saindo \cup ({Topo.id} \cap {o.dono : o \in resto})) \ {0}

PushReplacement(rota, resto) == pilha' = Append(Abaixo, rota) /\ TiraTopo(resto)

Push(rota) == /\ Len(pilha) < MaxPilha
              /\ pilha' = Append(pilha, rota)
              /\ UNCHANGED saindo

Pop == pilha' = Abaixo /\ TiraTopo(ops)

(* The transition ends and the page is disposed: its handlers find no      *)
(* context any more, and an alert it opened pops with a dead one.          *)
Descarta(d) ==
    /\ d \in saindo
    /\ saindo' = saindo \ {d}
    /\ ops' = {IF o.dono = d THEN [o EXCEPT !.dono = 0] ELSE o : o \in ops}
    /\ pilha' = [i \in 1 .. Len(pilha) |->
                   IF pilha[i].dono = d THEN [pilha[i] EXCEPT !.dono = 0] ELSE pilha[i]]
    /\ UNCHANGED <<armazem, fuser, splash, tardia>>

(* Mutant: the LoginPage tests the future instead of the user.             *)
LoginOuHomeSempre == Simples("home")

(* A new LoginPage looks for a stored user at once and, if there is one    *)
(* that can be read, replaces itself with Home.                            *)
LoginOuHome == IF Legivel(memo) THEN Simples("home") ELSE ComHandlers("login")

-----------------------------------------------------------------------------
(* Prefs: the memory changes at once, the disk in the order of the calls.  *)

(* Mutant: the value is never handed to the disk.                          *)
SetStringSemEscrever(u) == /\ Len(escritas) < MaxEscritas
                           /\ memo' = u
                           /\ UNCHANGED <<escritas, disco>>

SetString(u) == /\ Len(escritas) < MaxEscritas
                /\ memo' = u
                /\ escritas' = Append(escritas, u)
                /\ UNCHANGED disco

Persiste ==
    /\ escritas # <<>>
    /\ disco' = Head(escritas)
    /\ escritas' = Tail(escritas)
    /\ UNCHANGED <<pilha, saindo, ops, memo, fuser, splash, tardia>>

-----------------------------------------------------------------------------
(* SplashPage.                                                             *)

Partida(d, f) ==
    /\ pilha = <<Simples("splash")>>
    /\ saindo = {} /\ ops = {}
    /\ memo = "vazio" /\ escritas = <<>> /\ disco = d
    /\ fuser = FALSE
    /\ splash = [prefs |-> "espera", banco |-> "espera", user2 |-> f]
    /\ tardia = FALSE

(* The app is installed anew, or was left with any user on disk.           *)
Init == \E d \in Usuarios, f \in BOOLEAN : Partida(d, f)

(* The process dies, pending writes are lost, and initState runs again: it *)
(* asks Firebase for the user before signing it out.                       *)
Reinicia ==
    /\ pilha' = <<Simples("splash")>>
    /\ saindo' = {} /\ ops' = {}
    /\ memo' = "vazio" /\ escritas' = <<>>
    /\ fuser' = FALSE
    /\ splash' = [prefs |-> "espera", banco |-> "espera", user2 |-> fuser]
    /\ tardia' = FALSE
    /\ UNCHANGED disco

(* Mutant: the start does not empty the store.                             *)
PrefsCarregaSemLimpar ==
    /\ splash.prefs = "espera"
    /\ splash' = [splash EXCEPT !.prefs = IF disco = "vazio" THEN "nulo"
                                          ELSE IF Legivel(disco) THEN "usuario" ELSE "erro"]
    /\ memo' = disco
    /\ UNCHANGED <<pilha, saindo, ops, fuser, tardia, escritas, disco>>

(* Mutant: the store is emptied only when the user could be read.          *)
PrefsCarregaLimpaSeLeu ==
    /\ splash.prefs = "espera"
    /\ splash' = [splash EXCEPT !.prefs = IF disco = "vazio" THEN "nulo"
                                          ELSE IF Legivel(disco) THEN "usuario" ELSE "erro"]
    /\ IF Legivel(disco) THEN SetString("vazio") ELSE memo' = disco /\ UNCHANGED <<escritas, disco>>
    /\ UNCHANGED <<pilha, saindo, ops, fuser, tardia>>

(* Prefs loads the file; Usuario.get() was asked first and reads what was  *)
(* stored, Usuario.clear() follows and empties it.                         *)
PrefsCarrega ==
    /\ splash.prefs = "espera"
    /\ splash' = [splash EXCEPT !.prefs = IF disco = "vazio" THEN "nulo"
                                          ELSE IF Legivel(disco) THEN "usuario" ELSE "erro"]
    /\ SetString("vazio")
    /\ UNCHANGED <<pilha, saindo, ops, fuser, tardia>>

(* The database, the delay of 3 s and currentUser() are done, or failed.   *)
BancoAbre ==
    /\ splash.banco = "espera"
    /\ \E r \in {"ok", "erro"} : splash' = [splash EXCEPT !.banco = r]
    /\ UNCHANGED <<pilha, saindo, ops, armazem, fuser, tardia>>

(* Mutant: the splash page has no branch for a missing user.               *)
SplashSegueSoUsuario ==
    /\ Topo.pagina = "splash"
    /\ splash.prefs = "usuario" /\ splash.banco = "ok"
    /\ PushReplacement(Simples("home"), ops)
    /\ splash' = [splash EXCEPT !.prefs = "nulo", !.user2 = FALSE]
    /\ UNCHANGED <<ops, armazem, fuser, tardia>>

(* Future.wait completes with values only if no future failed; the values  *)
(* are of no use afterwards.                                               *)
SplashSegue ==
    /\ Topo.pagina = "splash"
    /\ splash.prefs \in {"nulo", "usuario"} /\ splash.banco = "ok"
    /\ PushReplacement(IF splash.prefs = "usuario" \/ splash.user2
                       THEN Simples("home") ELSE LoginOuHome, ops)
    /\ splash' = [splash EXCEPT !.prefs = "nulo", !.user2 = FALSE]
    /\ UNCHANGED <<ops, armazem, fuser, tardia>>

-----------------------------------------------------------------------------
(* The user's taps.                                                        *)

HaVaga == \E i \in 1 .. MaxOps : \A o \in ops : o.id # i

IdLivre == CHOOSE i \in 1 .. MaxOps : \A o \in ops : o.id # i

(* Login, Login Google, Google, the fingerprint icon and the sign-up: each *)
(* tap starts a handler of the page, no button is ever disabled.           *)
Toca(tipo) ==
    /\ Topo.pagina = IF tipo = "cadastro" THEN "cadastro" ELSE "login"
    /\ HaVaga
    /\ ops' = ops \cup {[id |-> IdLivre, tipo |-> tipo, fase |-> "pedido", dono |-> Topo.id]}
    /\ UNCHANGED <<pilha, saindo, armazem, fuser, splash, tardia>>

CadastreSe ==
    /\ Topo.pagina = "login" /\ HaRota
    /\ PushReplacement(ComHandlers("cadastro"), ops)
    /\ UNCHANGED <<ops, armazem, fuser, splash, tardia>>

Cancelar ==
    /\ Topo.pagina = "cadastro" /\ HaRota
    /\ PushReplacement(LoginOuHome, ops)
    /\ UNCHANGED <<ops, armazem, fuser, splash, tardia>>

(* Mutant: the logout pushes the LoginPage over Home.                      *)
LogoutPorCima ==
    /\ Topo.pagina = "home" /\ HaRota
    /\ SetString("vazio")
    /\ fuser' = FALSE
    /\ Push(ComHandlers("login"))
    /\ UNCHANGED <<ops, splash, tardia>>

(* The drawer of Home: clear, sign out, close the drawer, LoginPage.       *)
Logout ==
    /\ Topo.pagina = "home" /\ HaRota
    /\ SetString("vazio")
    /\ fuser' = FALSE
    /\ PushReplacement(ComHandlers("login"), ops)
    /\ UNCHANGED <<ops, splash, tardia>>

(* Any of the pages Home leads to.                                         *)
AbreOutra ==
    /\ Topo.pagina = "home"
    /\ Push(Simples("outra"))
    /\ UNCHANGED <<ops, armazem, fuser, splash, tardia>>

Voltar ==
    /\ Topo.pagina \notin {"splash", "alerta"} /\ Len(pilha) > 1
    /\ Pop
    /\ UNCHANGED <<ops, armazem, fuser, splash, tardia>>

(* The Ok of an alert, which pops with the context of the page that opened *)
(* it: if that page is disposed the pop throws and the alert stays.        *)
OkDoAlerta ==
    /\ Topo.pagina = "alerta" /\ Topo.dono # 0
    /\ Pop
    /\ UNCHANGED <<ops, armazem, fuser, splash, tardia>>

-----------------------------------------------------------------------------
(* The answers.  A handler whose page is disposed changes the session but  *)
(* reaches no screen: its context is null.                                 *)

Tarde(o) == tardia' = (tardia \/ o.dono # Topo.id)

HomeNoLugar(o) ==
    IF o.dono # 0 THEN PushReplacement(Simples("home"), ops \ {o}) /\ Tarde(o)
                  ELSE UNCHANGED <<pilha, saindo, tardia>>

HomePorCima(o) ==
    IF o.dono # 0 THEN Push(Simples("home")) /\ Tarde(o)
                  ELSE UNCHANGED <<pilha, saindo, tardia>>

(* LoginApi.login answers 200: the user is saved, Home replaces.           *)
EntraApi(o) ==
    /\ o.tipo = "api"
    /\ ops' = ops \ {o}
    /\ SetString("completo")
    /\ HomeNoLugar(o)
    /\ UNCHANGED <<fuser, splash>>

(* Firebase signs the user in; the app learns of it later.                 *)
Autentica(o) ==
    /\ o.tipo \in {"fire", "cadastro"} /\ o.fase = "pedido"
    /\ ops' = (ops \ {o}) \cup {[o EXCEPT !.fase = "feito"]}
    /\ fuser' = TRUE
    /\ UNCHANGED <<pilha, saindo, armazem, splash, tardia>>

(* FirebaseService.login, loginGoogle or cadastrar returns: the user is    *)
(* saved, Home is pushed over the page.                                    *)
EntraFirebase(o) ==
    /\ o.fase = "feito"
    /\ ops' = ops \ {o}
    /\ SetString(IF o.tipo = "cadastro" THEN "completo" ELSE "semRoles")
    /\ HomePorCima(o)
    /\ UNCHANGED <<fuser, splash>>

(* The finger is recognised: Home replaces, whoever is logged in.          *)
DigitalOk(o) ==
    /\ o.tipo = "digital"
    /\ ops' = ops \ {o}
    /\ HomeNoLugar(o)
    /\ UNCHANGED <<armazem, fuser, splash>>

(* Mutant: the alert opens though its page is disposed.                    *)
RecusaSemPagina(o) ==
    /\ o.fase = "pedido"
    /\ ops' = ops \ {o}
    /\ IF o.tipo # "digital"
       THEN Push(Alerta(o.dono))
       ELSE UNCHANGED <<pilha, saindo>>
    /\ UNCHANGED <<armazem, fuser, splash, tardia>>

(* The login fails: an alert, except for the fingerprint.                  *)
Recusa(o) ==
    /\ o.fase = "pedido"
    /\ ops' = ops \ {o}
    /\ IF o.dono # 0 /\ o.tipo # "digital"
       THEN Push(Alerta(o.dono))
       ELSE UNCHANGED <<pilha, saindo>>
    /\ UNCHANGED <<armazem, fuser, splash, tardia>>

Resposta(o) == \/ EntraApi(o) \/ Autentica(o) \/ EntraFirebase(o)
               \/ DigitalOk(o) \/ Recusa(o)

-----------------------------------------------------------------------------
Inicializa == PrefsCarrega \/ BancoAbre \/ SplashSegue

Usuario == \/ \E tipo \in {"api", "fire", "digital", "cadastro"} : Toca(tipo)
           \/ CadastreSe \/ Cancelar \/ Logout \/ AbreOutra \/ Voltar \/ OkDoAlerta

Next == \/ Inicializa \/ Usuario \/ Persiste \/ Reinicia
        \/ \E o \in ops : Resposta(o)
        \/ \E d \in saindo : Descarta(d)

Spec == Init /\ [][Next]_vars

(***************************************************************************)
(* The platform answers the start-up's calls, writes what Prefs hands it   *)
(* and runs transitions to their end.  Nothing is assumed of the user, of  *)
(* the servers, nor of how often the process is killed.                    *)
(***************************************************************************)
LiveSpec == /\ Spec
            /\ WF_vars(PrefsCarrega) /\ WF_vars(BancoAbre) /\ WF_vars(SplashSegue)
            /\ WF_vars(Persiste)

-----------------------------------------------------------------------------
(* Properties.                                                             *)

Carregado == splash.prefs # "espera"

UltimaEscrita == IF escritas = <<>> THEN disco ELSE escritas[Len(escritas)]

(* Once Prefs is loaded, what is on its way to disk ends with what the     *)
(* memory holds: however logins, the clear of the splash page and logouts  *)
(* interleave, the session a restart finds is the last one this run had.   *)
PersistenciaEmOrdem == Carregado => UltimaEscrita = memo

(* To its users the key "user.prefs" is a register that a crash can set    *)
(* back to one of the writes not yet on disk, never further (prefs.dart:39)*)
(* - be it read, emptied and written by a start, late logins and a logout  *)
(* at once.                                                                *)
R == INSTANCE Registro WITH
       Valores   <- Usuarios,
       valor     <- IF Carregado THEN memo ELSE disco,
       possiveis <- {disco} \cup {escritas[i] : i \in 1 .. Len(escritas)}

ImplementaRegistro == R!Spec

(* Every request needs the token of a stored user (http_helper.dart:29).   *)
(* One comes only from an API login or a sign-up of this run: the session  *)
(* a start finds opens Home, but is emptied with the same start            *)
(* (splash_page.dart:27), and neither Firebase nor a finger gives one.     *)
TokenSoDeLogin ==
    [][Legivel(memo') /\ ~Legivel(memo) =>
          \E o \in ops \ ops' : o.tipo \in {"api", "cadastro"}]_vars

(* A start that fails because the stored user cannot be read (a Firebase   *)
(* login stored it, usuario.dart:30) never leaves the splash page, but it  *)
(* has emptied the store: the next start is not stuck again.               *)
TravaCurada ==
    splash.prefs = "erro" => /\ Len(pilha) = 1 /\ Topo.pagina = "splash"
                             /\ escritas = <<>> => disco = "vazio"

(* An alert can be left waiting for an Ok that does nothing only if its    *)
(* page was already leaving the screen when it opened it: no alert opened  *)
(* by a page on the stack outlives the page (alert_dialog.dart:20).        *)
AlertaPresoSoNaSaida ==
    \A i \in 1 .. Len(pilha) :
        pilha[i].pagina = "alerta" /\ pilha[i].dono = 0 => pilha[i].naSaida

(* As long as no answer has opened a Home for a page not on top, there is  *)
(* at most one Home, and nothing but its own pages above it: after a       *)
(* logout (drawer_list.dart:113) the back key cannot bring a Home back.    *)
HomeUnica ==
    ~tardia => \A i, j \in 1 .. Len(pilha) :
        i < j /\ pilha[i].pagina = "home" => pilha[j].pagina \in {"outra", "alerta"}

Homes(p) == {i \in 1 .. Len(p) : p[i].pagina = "home"}

(* A Home is added to the stack only on evidence of a user: one stored     *)
(* just now or before, one the splash page was given, or a finger.         *)
PortaDaHome ==
    [][Cardinality(Homes(pilha')) > Cardinality(Homes(pilha)) =>
          \/ memo' # "vazio"
          \/ Topo.pagina = "splash" /\ (splash.prefs = "usuario" \/ splash.user2)
          \/ \E o \in ops \ ops' : o.tipo = "digital"]_vars

(* Nothing else holds up a start: each future the splash page waits for    *)
(* can come, a full queue of writes notwithstanding, and once they have,   *)
(* without a failure, the page can go on.  That holds by the shape of the  *)
(* guards; SplashSempreTermina needs it.                                   *)
SplashPronta == /\ Topo.pagina = "splash"
                /\ splash.prefs \in {"nulo", "usuario"} /\ splash.banco = "ok"

PartidaNuncaPresa ==
    /\ splash.prefs = "espera" => ENABLED <<PrefsCarrega>>_vars
    /\ splash.banco = "espera" => ENABLED <<BancoAbre>>_vars
    /\ SplashPronta => ENABLED <<SplashSegue>>_vars

SemMaisQuedas == <>[][~Reinicia]_vars

(* If the process is not killed for ever, a start ends on Login or Home    *)
(* unless one of its futures failed (splash_page.dart:25-43).              *)
SplashAcabou == Topo.pagina # "splash" \/ splash.prefs = "erro" \/ splash.banco = "erro"

SplashTermina == SemMaisQuedas => <>[]SplashAcabou

(* A logout, or the clear of the splash page, reaches the disk unless      *)
(* another login comes first or the process dies before.                   *)
LimpezaChegaAoDisco ==
    SemMaisQuedas => [](Carregado /\ memo = "vazio" ~> disco = "vazio" \/ memo # "vazio")

-----------------------------------------------------------------------------
(* The inductive invariant behind the safety properties.                   *)

Indices == 1 .. Len(pilha)

(* The splash page is alone, and beyond it Prefs is loaded.                *)
SplashSozinha ==
    /\ \A i \in Indices : pilha[i].pagina = "splash" =>
           Len(pilha) = 1 /\ ops = {} /\ saindo = {}
    /\ Topo.pagina # "splash" => splash.prefs = "nulo"

ErroVazio == splash.prefs = "erro" => memo = "vazio"

(* A page is found by its id: only login and cadastro pages have one, no   *)
(* two the same, and a page leaving the screen is not on the stack.        *)
IdsDistintos ==
    /\ \A i \in Indices : pilha[i].id # 0 => /\ pilha[i].pagina \in {"login", "cadastro"}
                                             /\ pilha[i].id \notin saindo
    /\ \A i, j \in Indices : pilha[i].id = pilha[j].id /\ pilha[i].id # 0 => i = j

(* The page of a handler is on the stack, leaving the screen or disposed.  *)
DonoAlcancavel == \A o \in ops : o.dono = 0 \/ o.dono \in IdsVivos

(* An alert is never the bottom of the stack and, unless its page was      *)
(* leaving, stands above it.                                               *)
AlertaSobreAlgo == pilha[1].pagina # "alerta"

AlertaSobreDono ==
    \A i \in Indices : pilha[i].pagina = "alerta" /\ ~pilha[i].naSaida =>
        \E j \in 1 .. i - 1 : pilha[j].id = pilha[i].dono /\ pilha[i].dono # 0

IInv == /\ TypeOK
        /\ SplashSozinha
        /\ PersistenciaEmOrdem
        /\ ErroVazio
        /\ IdsDistintos
        /\ DonoAlcancavel
        /\ AlertaSobreAlgo
        /\ AlertaSobreDono
        /\ HomeUnica
=============================================================================
