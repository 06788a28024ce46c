\* Two pages, two fetches in flight, one change of each list; liveness.
CONSTANTS
    Tipos = {classicos, esportivos}
    Nulo = nulo
    MaxPedidos = 2
    MaxVersao = 1
SPECIFICATION LiveSpec
INVARIANTS
    EsperaHonesta
    SemListaLocal
PROPERTIES
    ImplementaVitrine
    NovidadeAparece
