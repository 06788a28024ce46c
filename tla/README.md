# Carros in TLA+

A verification development of the Flutter app `carros`: its program is the Dart
code under `src/lib` (about 4400 lines).  Everything under `ios/Pods`,
`ios/Flutter` and `android/.gradle` is vendored or generated and is left aside.

The app has no threads of its own.  What makes it hard is that every handler is
an `async` function: it stops at an `await`, the user goes on with pages whose
buttons stay enabled, other handlers run, the page is covered, left or disposed,
and the handler resumes with whatever it finds.  The models are about that.

## Inventory

| component | state it keeps | operations | interacts with |
|---|---|---|---|
| list of cars: `CarrosPage`, `CarrosBloc`, `CarrosApi.getCarros`, `isNetworkOn`, `CarroDAO` | last snapshot of the stream of each tab, fetches in flight, rows of the table `carro` | mount, fetch, pull to refresh, reload by event, dispose | server, database, connectivity plugin, `EventBus`, session (token) |
| session: `SplashPage`, `LoginPage`, `CadastroPage`, `Usuario`, `FirebaseService`, logout of `DrawerList` | stored user, user of Firebase, logins in flight | start, login by API, by Firebase e-mail, by Google, by finger, sign-up, logout | `Prefs`, Firebase, the Navigator |
| navigation: `push`, `pop`, `alert` | the stack of routes, pages in transition | push, replace, pop, Ok of an alert, back key | every page |
| `Prefs` | values in memory, writes on their way to disk | get, set | session, tabs |
| editing: `CarroPage`, `CarroFormPage`, `CarrosApi.save`, `delete` | the fields of each `Carro` object, requests in flight | open (from a list, its sheet, the tab of the favourites), menu, edit, save, delete, alert, send `CarroEvent` | list of cars, upload, session, Navigator |
| photo and upload: `CarroFormPage`, `UploadApi` | the picked file, the field `urlFoto` of each `Carro`, POSTs in flight | pick, upload, time out after 120 s | editing |
| local database: `DatabaseHelper`, `BaseDAO` | the handle `_db`, the tables | open, create, save, find | start, list of cars |
| favourites on Firestore: `FavoritoService.favoritar2`, `isFavorito2`, `FavoritosPage` | the document of a car, the colour of the heart | ask, toggle, list | `CarroPage`, other devices |
| favourites on sqlite: `Favoritar`, `FavoritosModel`, `FavoritosBloc`, `FavoritosPage1/2` | table `favorito` | toggle, list | superseded, nothing toggles it any more |
| tabs of `HomePage` | index of the `TabController`, `tabIdx` in `Prefs` | restore, choose | `Prefs` |
| search, Loripsum, map, video, site, push messages, remote config, widgets, i18n | next to none | | |

The hazards of this code are listed line by line in `PROJECT.json`; in short:

* answers that arrive out of order (`carros_bloc.dart:57`), or for a page that
  is covered, leaving the screen or gone (`login_page.dart:307`,
  `alert_dialog.dart:20`, `carros_bloc.dart:61`);
* `pushReplacement`, `pop` and the callback of an alert act on whatever route is
  on top, not on the page that asked (`navigator.dart:5,17`): an alert, a popup menu, a
  form opened meanwhile;
* buttons that are never disabled, so that a login or a save runs twice;
* objects shared between a list, a page, a form and a request in flight
  (`carro-form-page.dart:215-234`);
* an upload that gives up while its POST goes on, and a save that goes on whatever
  the upload did (`upload_api.dart:31,40`, `carros_api.dart:126,159`);
* a session that is read and emptied in the same start (`splash_page.dart:27`);
* writes nobody waits for (`prefs.dart:39`) and errors
  nobody handles (`splash_page.dart:31`);
* a document read, and written after an await as if nobody else could have
  written it (`favorito_service.dart:23-33`);
* fields that `Carro.fromJson` does not read (`carro.dart:57,59`).

What makes each component correct:

* list: a page never waits for a delivery nobody will make; a list goes back in
  time only when fetches overtake each other; a page told of a save shows it;
* session: what is stored is what the last handler stored, across restarts; a
  start ends on a page; nobody enters without evidence of a user; one Home;
* navigation: an alert can be closed, and closes the page it is about;
* editing: an event describes what was saved, and a dialog never closes Home; a
  save the user was told of reaches the list of its tipo;
* photo: a save sends the photo that was chosen, nothing refers to a photo the
  server does not have, one form creates one car, and its progress lasts as long as
  the save and ends;
* favourites: a tap toggles what is stored, the heart shows it, and the list
  holds what was chosen.

## Modules

| module | models | proofs | model checking |
|---|---|---|---|
| `CarrosBloc` | the list of cars | `CarrosBloc_proofs` | `MCCarrosBloc`, `CarrosBloc*.cfg` |
| `Vitrine` | abstract: what the pages of the list promise | implemented by `CarrosBloc` | `CarrosBlocAbas.cfg` |
| `Sessao` | session, `Prefs`, start-up, navigation of the login pages | `Sessao_proofs` | `MCSessao`, `Sessao*.cfg` |
| `Registro` | abstract: a stored value that a crash sets back | implemented by `Sessao` | `SessaoPrefs.cfg` |
| `Edicao` | editing, alerts, events | `Edicao_proofs` | `MCEdicao`, `Edicao*.cfg` |
| `Carros` | `Edicao` and `CarrosBloc` on one server, Navigator and `EventBus` | `Carros_proofs` | `MCCarros`, `Carros{Tipos,Edicoes,Aparece,Segundo}.cfg` |
| `Foto` | the photo of a form, its upload, the save that sends it | `Foto_proofs` | `MCFoto`, `Foto*.cfg` |
| `Favoritos` | favourites on Firestore, the heart of `CarroPage` | `Favoritos_proofs` | `MCFavoritos`, `Favoritos.cfg` |
| `Coracao` | abstract: what the heart promises | implemented by `Favoritos` | `Favoritos.cfg` |

The names of actions are those of the handlers where there is one.  An action is
the code that runs between two awaits: it starts when a tap, an event or an
answer wakes a handler, and ends at the next `await` or at the end of the
handler.  Each VARIABLE is commented with what it stands for; a field that only
properties read (`emissao`, `sobreposto`, `naSaida`, `trocado`, `tardia`,
`superado`, `tocada`, `alheio`, `esperada`, `repete`, `linhas`, `desviado`, `junto`,
`pendente`) is said to be so where it is declared, and no guard depends on it, but for
`alheios`, which counts against the bound `MaxAlheios`.

### CarrosBloc

`servidor[t]` is a version number that stands for the server's list of one tipo;
a fetch is a record in `pedidos` that goes through the phases of
`CarrosBloc.fetch`: `rede` (awaiting the connectivity plugin), `banco` (awaiting
the query), `http` (awaiting the server), `resposta` (the list is on its way).
`Conectividade` is the if of `fetch` with the three answers of `isNetworkOn`
(true, false, null) and the exception of `_headers` when no user is stored.
`EntregaLista`, `EntregaLocal`, `EntregaErro` are the three `add`s; each does
nothing when the page that made the call is disposed.  `tabela` keeps the tipo
column of the stored rows, which is all the query looks at.  `Muda` (a save, of
this device or of another) and `Evento` (a `CarroEvent` on the bus) are left to
the surroundings: here they may happen at any time, and `Carros` says when they do.

`Vitrine` is the abstract promise: a page asks, and each time owes a list at
least as new as the server's at that moment, or one of two ways of giving up; the
spinner stays only while something is owed, and a closed page owes nothing.  The
refinement mapping is `Devidas`, the versions at which the fetches in flight of a
mounted page began.

### Sessao

`pilha` is the stack of the Navigator and `saindo` the pages that were replaced
or popped and whose transition still runs: their handlers still have a context.
`Descarta` ends a transition; from then on the handlers of that page change the
session but no screen, and its alerts cannot be closed.  `ops` are the logins in
flight; `Autentica` separates the moment Firebase signs the user in from the
moment the app is told.  `memo`, `escritas`, `disco` are the plugin's memory, its
pending writes and its file; `SetString` changes the memory at once and queues
the write, `Persiste` carries one out, `Reinicia` kills the process and starts
it again: the queue is lost.  `Legivel` is the `cast` of `Usuario.fromJson`,
which throws for users stored without roles.

`Registro` is what a key of `Prefs` promises: a read returns the last write, and a
crash leaves that value or one written since the last one known to be safe, never
one replaced before it.  Under the mapping `memo` (on disk, before `Prefs` is
loaded) is the value, and what is on disk or on its way there is what a crash may
leave.

Three simplifications: the 3 s delay and `currentUser()` of the splash page are
one step with the opening of the database (`BancoAbre`), since `Future.wait`
waits for all; the sign-out of Firebase takes effect when it is called; the pages
Home leads to are one page, `outra`.  Leaving the app with the back key is
`Reinicia`, too.

### Edicao

The stack again, with `CarroPage`, `CarroFormPage`, alerts, and the two routes that are
not pages: the sheet of a long press (`folha`) and the popup menu of a `CarroPage`
(`menu`), over which an alert may open, too.  An item of either closes it and goes on
in the same step (`Detalhes`, `Editar`, `Deletar`).  `memoria` is the
field `tipo` of each `Carro` object, the only one that events and properties
look at.  A handler in `ops` goes through `preparo` (upload, reading the
session), `enviado` and `gravado` (the server has carried the request out);
`Recusa` may follow each of them, since the catch of `save` and `delete` turns a
lost or undecodable answer into an error whatever the server has done.
`OkDoAlerta` is the double pop: the first one closes the route on top with the
context of the page that opened the alert, the callback closes the next: the page that
asked, another alert, or the menu or the form the user has opened on a `CarroPage`
while its delete was on the way.  A delete names the car "null"
(`carros_api.dart:189`), since `Carro.fromJson` reads no id: what the server makes of
that is left open, a 200 included.
The pages are opened from the tabs of Home; the same pages opened over the
search are not modelled.

### Carros

The composition: `Edicao` and `CarrosBloc` are instances over disjoint variables,
and each action of `Carros` is an action of one joined with what it means for the
other.  `Grava` of a save is `Muda` of the list of its tipo; that of a delete changes
no list by itself, since its id names no car, and should the server remove one
nevertheless, that is `Outro`, as any change that is not this app's.  An event that
`Edicao` sends becomes `Evento` of the page of its tipo in the same step, since the bus
is delivered to before another handler of the app runs; tabs are used while Home is on
top, and are disposed once Home has left the stack.  Cars are opened whatever the
lists show, since the tab of the favourites has cars of its own
(`favoritos_page.dart:59-61`).

`pendente[t]` remembers for the properties the version at which the user was told of
a success.  Every save that is reported counts, second saves of the same form or of
the same `Carro` included, with one exception: of two saves of a `Carro` with different
tipos, the answer of the first may come after Salvar was tapped for the second.  Its
event then reads the new tipo (`carro-form-page.dart:234`, see
`EventoDoTipoGravado`), so that the list it was saved to hears of nothing, although
the user is told; the event of the second save and its promise are not affected.

### Foto

`form` is the state of `CarroFormPage`, `alertas` the alerts above it, `memoria`
the field `urlFoto` of each `Carro`, `guardadas` what the server stores.  A
handler of Salvar goes through `upload`, `sessao` (reading the session), `enviado`,
`gravado` and `pausa` (the 3 s before the progress is taken back).
`UploadResponde`, `UploadSemUrl`, `UploadFalha` and `UploadExpira` are the four
ways an upload ends; after the last one the POST stays in `tardios`, and
`UploadTardio` stores the file, or not, with nobody waiting.  `Carro.fromJson` leaves
the id null, so that every save is a POST and creates a car; `linhas` counts those of
the form on screen.  Of the stack only the form and the alerts above it are kept, and
no transition: `Edicao` has both.  The alerts of other pages that may come to lie
there, as those of the `CarroPage` underneath whose delete is answered
(`carro_page.dart:245-253`), are `Alheio`: at any time, with or without a callback that
pops twice, or with a context that is dead.  Up to `MaxAlheios` come over one form.

### Favoritos

`nuvem` is the collection on the server, `cache` and `fila` are what the plugin
knows of it and the writes it has not sent yet; `Vista` is what a read or the
listener of the tab shows: the last local write, or what is known.  A read in
`ops` asks whether the car is a favourite (`pergunta`, from `initState`) or comes
from a tap (`toque`); `Le` is the moment it sees the document and
`RespondePergunta`, `RespondeToque` the moment the handler goes on.  `cor` is the
field of the page and `tela` the colour it was last painted with: the answer of
`isFavorito2` changes only the first (`carro_page.dart:45-47` has no `setState`).
`Chave` is the name of the document, `"${carro.id}"`, with the null id that
`Carro.fromJson` leaves: all cars share one document.  A page that was left
stays as `daPagina = FALSE` in its reads: a tap still writes, and its `setState`
throws unheard.  One CarroPage is on screen at a time, since nothing on it opens
another.

`Coracao` is the abstract promise: one favourite, toggled together with the heart by
a tap in one step, where the code reads, waits, writes and repaints.  A tap may do
the wrong thing only while it is disputed, and only a change of the favourite makes
it so; nothing but a tap of its page paints the heart.  Under the mapping the
favourite is `Vista` of the one document there is, and a tap of the page that was
overtaken (`superado`) is a disputed one.  What a page left behind still writes is,
for the heart, a change from outside.

## Runs

| run | question | bounds |
|---|---|---|
| `carros_abas` | can a page wait for nothing; is anything listed offline; `Vitrine`; does a page told of a save show it (liveness) | 2 tabs, 2 fetches, 1 change of each list |
| `carros_sobreposicao` | when does a list go back in time; the inductive invariant | 1 tab, 3 fetches, 2 changes |
| `sessao_prefs` | order of writes, restart, `Registro`, where a token comes from, a stuck start; does a start end, does a logout reach the disk (liveness) | 2 routes, 2 login pages, 2 logins, 3 writes |
| `sessao_pilha` | stuck alerts, several Homes, who may enter; the inductive invariant | 4 routes, 2 login pages, 2 logins, 1 write |
| `edicao` | what does the Ok of an alert close; which tipo does an event carry; the inductive invariant | 1 car and new ones, 5 routes, 2 pages, 3 requests |
| `carros_edicoes` | does the event of a save reach the right page; can a save the user was told of be forgotten; the inductive invariant | 2 tipos, 2 saves of 1 car, 4 routes, 1 fetch, 1 change of each list |
| `carros_aparece` | is a save the user was told of shown in the end, whatever older fetches do (liveness); does a page fetch that is not mounted; the inductive invariant | 1 tipo, new cars and deletes, 3 routes, 1 request, 2 fetches, 2 changes |
| `carros_segundo` | are two saves of one car that overtake each other (liveness) | 1 tipo, 2 saves of 1 car, 4 routes, 1 fetch, 2 changes |
| `foto_envio` | which photo does a save send, does the server have it | 1 car and new ones, 2 photos, 2 saves, no alerts of other pages |
| `foto_progresso` | when is progress shown, when does a form create two cars; the inductive invariant; does the progress end (liveness) | 1 car and new ones, 1 photo, 2 saves, 1 alert of another page |
| `favoritos` | what does a tap on the heart do and show, what does the tab list; `Coracao`; the inductive invariant | 2 cars, 3 reads, 2 writes |
| `edicao_tipo_nulo` | does the event of a deletion carry a tipo (it does not) | 1 car, 3 routes, 1 request |

Why the bounds are enough.  A list can go back in time with two fetches; the
third lets one be overtaken twice and lets one of an earlier page remain.  Four
routes hold a login page, a Home pushed over it, one of its pages and an alert;
with two logins each answer can find the other's Home.  Five routes hold Home,
CarroPage, menu or form and two alerts, and three requests let an alert open on an
alert while a handler still waits.  Three writes pending are the clear of the
start, a login and a logout.  In the composition three routes hold Home,
the form of a new car and an alert, four the `CarroPage` under the form of a car of the
list, too; two fetches are an old one in flight and the one the event starts.  The runs
`carros_edicoes` and `carros_segundo` are about two saves of one `Carro`, which need
two pages, four routes and two requests; to stay small they leave out new cars, deletes
and the sheet (`SoEdicoes` of `MCCarros`), which `carros_aparece` has.
Two saves of a form with two photos write the field over each other, and one of
them may belong to a form that is closed.  The photos do not depend on alerts, so
`foto_envio` has none of other pages; in `foto_progresso` one is enough to be taken
for the form.  Three reads are the question of a page and two taps that overlap, and
two writes let one be refused under another.  Beyond them more of the same happens;
for the safety properties the proofs settle every value.

Tipos, cars and photos are symmetric model values in the safety runs; the runs
with liveness use no symmetry.  `Edicao` and `Carros` do not check deadlock: an alert whose page is
disposed, or a stack without Home, really stops the app.

Each property has a mutant, an operator beside the definition it replaces, that
makes the model wrong the way a plausible bug would; the run's own
configuration then finds the property violated.

### What the runs show

* A page shows its first spinner only while a fetch of its own is in flight.
  But an error shows the same spinner (`carros_page.dart:151` tests `hasData`
  before `hasError`), with nothing in flight and no way to pull: the text
  "Nao foi possivel buscar os carros" is unreachable.
* Offline the list is always empty, since the stored rows carry no tipo.
* Lists go back in time exactly when fetches of one page overtake each other.
* The disk never holds a session the app had replaced before: only the newest
  writes can be lost by a crash.  A user stored by Firebase blocks one start.
* A token comes only from an API login or a sign-up of the same run.  A start
  opens Home for a stored user and empties the store with the same start
  (`splash_page.dart:27`): that Home, and the ones Firebase or the finger open,
  can list nothing, since every request throws in `_headers`.
* Two Homes need an answer that comes to a page no longer on top.
* An alert that cannot be closed needs a page that was already leaving.
* The Ok of an alert closes the page that asked, another alert, or the menu or form
  opened over a `CarroPage` whose delete was answered meanwhile: then the page of the
  deleted car stays.
* A save the user was told of is not forgotten: until its page shows it or gives up,
  a fetch that began after the save is in flight, whatever alerts, older fetches
  and second saves come between.  The exception is a `Carro` saved again with another
  tipo before the answer: the user is told of the first save, but its event goes to the
  other list.  Of a deletion it does not hold at all.
* A save sends what its own upload left, or the photo the `Carro` had at the
  tap if the upload had no answer, unless another save of the same `Carro` wrote the
  field; a late upload has no say, and nothing refers to a photo the server does not
  store.  But an answer without url erases the photo (`upload_api.dart:40` tests no
  status).
* Every save is a POST: the car that is edited stays as it was, and another one is
  created beside it.  One form creates two only after an impatient tap, after a
  success that was reported as an error, or after a success whose second pop took
  another alert, as one of a delete answered underneath, and left the form open.
* While a save runs its button shows progress, unless Salvar was tapped before an
  earlier handler of the form was through, its 3 s included: the end of those takes the
  progress of the other away.  It is never shown with nobody to take it back.
* The tab Favoritos never lists two cars, because all cars share the document
  "null".  The heart is right after a tap was answered until somebody else
  writes; before the first tap it is grey, favourite or not.  A tap toggles
  unless the document changed between its read and its write: but for that, read,
  write and repaint are together one step of `Coracao`.
* `edicao_tipo_nulo` is a disagreement of code and comment: the event of a
  deletion carries a null tipo, `carro.dart:12` lists its values as
  "classicos, esportivos, luxos"; no page reloads after a deletion.

## Fairness

`CarrosBloc`: each fetch in flight is weakly fair, one condition per fetch: a
plugin, a query or a connection answers or fails in the end.  Nothing is assumed
of users, of other clients or of the form that sends events.  `Carros` assumes the
same of its fetches, and nothing of saves: `SalvoAparece` begins when the user was
told of one.

`Foto`: timers go off (the 120 s of the upload, the 3 s of the pause), the session
is read and a request is answered or given up: `http` completes its future with a
response or an error.  Nothing is assumed of the server of the uploads, which may
never answer, nor of the user, who may leave every alert open.

`Sessao`: weak fairness of `PrefsCarrega`, `BancoAbre`, `SplashSegue` and
`Persiste`: the event loop runs the start-up's futures, which the platform
completes with a value or an error, and the plugin writes what it was given.
Its two liveness properties are stated for runs in which the process is not
killed again and again (`SemMaisQuedas`).  Logins need no answer.

## Proofs

For every value of the constants that meets the assumption of the module:

* `CarrosBloc_proofs`: `IInv` is inductive.  `RegressoSoComSobreposicao` rests on
  `SemSobreposicao` (a fetch nobody has overtaken began at or after the version
  its page shows) and `RespostaDoPeriodo` (an answer is not older than its
  fetch): together they say that delivering it cannot go back.  `MontadoVivo`
  and `IdsDistintos` keep an earlier page's fetch from being taken for a present
  one.  `SemListaLocal` needs `SemTipoGuardado`.  `Implementa` shows that each step
  is a step of `Vitrine` or a stutter: a delivery pays the debt of its fetch, which
  `RespostaDoPeriodo` says is old enough, and other fetches that began at the same
  version may keep it open.
* `Sessao_proofs`: `AlertaPresoSoNaSaida` rests on `AlertaSobreDono` (an alert of a
  page that was not leaving stands above that page, which therefore cannot be
  disposed), which needs pages to be identified by their ids (`IdsDistintos`) and
  handlers to belong to pages that exist (`DonoAlcancavel`).  `HomeUnica` is its
  own strengthening once `SplashSozinha` excludes the splash page from a stack
  with handlers.  `TravaCurada` needs `ErroVazio` and `PersistenciaEmOrdem`.
  `Implementa` maps the store to `Registro`; it needs `NadaAntes` (nothing is
  written before `Prefs` is loaded) and `LidoNoRisco` (what is read is on disk or on
  its way), which follows from `PersistenciaEmOrdem`.  `PortaSempreVigiada` counts
  Homes: a step that brings no Home where there was none has not more of them
  (`SemHomeNova`), and each action either does that or has the evidence.
* `Edicao_proofs`: `Empilhamento` fixes the order of pages, sheets, menus, forms and
  alerts, `OkFechaQuemPediu` what lies between an alert and its page; it needs pages to
  be identified by their ids (`IdsDistintos`) and handlers to belong to pages that
  exist (`DonoAlcancavel`).  `HomeSoCaiNaSaida` follows because a stack that ends empty
  has only the alert and one route under it.  `EventoDoTipoGravado` rests on
  `CorpoAtual`.
* `Carros_proofs`: the steps of the whole are steps of each component or leave it
  alone (`PassoLista`, `PassoEdicao`), so that the invariants of both hold in it.
  `NadaSeEsquece` rests on `TipoSalvo` and `CorpoAtual` of `Edicao` (the event names
  the tipo the save sent, unless `trocado`, where the promise asks for it), on the step
  that tells the user also starting the fetch, and on `FetchNaoSePerde` (a fetch of a
  mounted page goes away only by delivering or giving up).  `ComoNasProvas` makes the
  theorems about the components citable: `RegressoNoTodo`, `VitrineNoTodo`,
  `EventoNoTodo` and `HomeNoTodo` are the most important ones of `CarrosBloc` and
  `Edicao`, proved there once and carried over.
* `Foto_proofs`: `CampoAtual` (the field is what it was at the tap, or what the own
  upload left, unless marked) gives `FotoEnviada`; `UploadCorrente` (a file whose
  answer may bring a url is stored) gives `FotoGuardada`; `UmPorVez` (without an
  impatient tap, a wrong error or a stray pop there is one save at a time, and the car
  it created is about to be reported, or a success still shown will close the form)
  gives `DuplicataTemMotivo`; `UmDoForm` (one handler of the form, pause included,
  unless `junto`) gives `ProgressoDura`.
* `Favoritos_proofs`: `LeituraAtual` (what was read is still so, unless overtaken)
  gives `AlternaSalvoSuperado`, together with `SoRespondidaSome` (a read goes away
  only by failing or being answered) and `IdsDistintos`; `PaginaDasOps` keeps the
  answers of a page that was left from the next one, which `CoracaoFiel` needs.
  `VistaDe` reduces what the device sees to the last element of the queue, by
  `SoChaveNula`: that is where `UmFavoritoSo` comes from.  `Implementa` shows that each
  step is one of `Coracao` or a stutter: `ToqueInverte` says what the device sees
  after a tap was answered, `LeituraAtual` that an undisputed tap toggles,
  `PaginaDasOps` that it toggles the car on screen, `SuperaDisputa` that only a change
  of the favourite disputes a tap, `ConfirmaParada` that an acknowledgement changes
  nothing the device sees.

Each module proves `Init => IInv`, one lemma per action (or group of actions) for
the step, and the properties from `IInv`.  The invariants are checked by TLC first, as
invariants of `carros_sobreposicao`, `sessao_pilha`, `edicao`, `carros_edicoes`,
`carros_aparece`, `foto_progresso` and `favoritos`.

### Liveness

Four of the five liveness properties are theorems of the form
`LiveSpec /\ []H => L`, for every value of the constants:

| theorem | L | H |
|---|---|---|
| `CarrosBloc_proofs!NovidadeSempreAparece` | `NovidadeAparece` | `NuncaPreso` |
| `Carros_proofs!SalvoSempreAparece` | `SalvoAparece` | `NuncaPreso` |
| `Foto_proofs!ProgressoSempreTermina` | `ProgressoTermina` | `NuncaPreso` |
| `Sessao_proofs!SplashSempreTermina` | `SplashTermina` | `PartidaNuncaPresa` |

`H` says that whenever a fair step is waited for, it is enabled.  The proof system has
no rule for ENABLED, so `H` is a hypothesis.  It holds by the shape of the guards: the
fair actions of each phase together ask for nothing but the phase (those of the start:
that its read is pending, or that all have come).  Being of that kind it
is no property of any run; the runs check the conclusions.  `H` says only that a
handler can go on, the theorem that its going on leads where it must, whatever
the other handlers, the user and the server do.  Each proof follows one handler
through its phases: while it is in a phase no step of another handler takes it back
or lets it disappear without delivering (`PassoTraz`, `FicaNaFase`,
`PassoDaPartida`), its own step brings it to a later phase or to the end
(`ProprioPasso`, `MudaDeFase`), and each phase is
left by the fairness of the handler; the phases are few and named, so that no
induction is needed.  For `ProgressoTermina` the handler is the one `ProgressoFiel`
promises, for `SalvoAparece` the one `NadaEsquecido` promises.

### Only model-checked

* `LimpezaChegaAoDisco`: its proof is an induction over the place of the write in
  the queue, whose length is a parameter, and the induction theorems of the library
  take an operator, which the installed provers cannot instantiate.

Every other property of the passing runs, the three abstract specifications among
them, is stated by a theorem.

## Not modelled

* The sources in C, C++ and Objective-C, and their headers (`ios/Pods`,
  `ios/Flutter`, `ios/Runner`, `android/.gradle`): copies of third-party libraries
  (BoringSSL, gRPC, Protobuf, Firebase...) and generated start-up code, about half a
  million lines that are not the program's own.  The app reaches them only through
  its Dart plugins, modelled from their use.
* Loripsum: the stream belongs to one `CarroPage`, and a text that arrives for a page
  that is gone throws in a future nobody awaits.  No state differs, so any property
  would hold by construction.
* Search: a `FutureBuilder` over `CarrosApi.search`, without state of its own; that an
  older answer does not replace a newer one is Flutter's work.  The route from the
  search to a `CarroPage`.
* The sqlite version of the favourites: its only writer has no caller.
* The tabs of Home and the handle of the local database have an await between a
  check and its use, but the splash page serialises both: it has opened the
  database and loaded `Prefs` before any page that uses them exists.
* The other rows and columns of the table `carro`: the null id replaces nothing, so
  rows pile up, but no query finds them (`SemListaLocal`).
* Map, video, site, push messages, remote config, layout and generated code.

`PROJECT.json` gives the reason for each.

## Plan

What could still be added, in order of worth:

1. `Foto` over the stack of `Edicao`, so that the transitions of a form that is
   closing meet its uploads.
2. `Sessao` and `CarrosBloc` together: a logout or the emptied session of a start
   while fetches read the token.
3. The choice of a tab stored by `Home`, as a second key of `Registro`.
