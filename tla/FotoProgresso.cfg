\* One car and new ones, one photo, two handlers in flight, one alert of
\* another page over each form; liveness, too.
CONSTANTS
    Objetos = {fusca}
    Fotos = {frente}
    Nulo = nulo
    MaxOps = 2
    MaxAlheios = 1
SPECIFICATION LiveSpec
INVARIANTS
    ProgressoFiel
    ProgressoDura
    DuplicataTemMotivo
    IInv
PROPERTIES
    ProgressoTermina
