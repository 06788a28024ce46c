\* One car, one request in flight.
CONSTANTS
    Tipos = {classicos, esportivos}
    Nulo = nulo
    Nenhum = nenhum
    Objetos = {fusca}
    MaxPilha = 3
    MaxRotas = 2
    MaxOps = 1
SPECIFICATION Spec
SYMMETRY Simetria
INVARIANTS
    EventoComTipo
\* An alert whose page is gone, or a stack without Home, stops the app.
CHECK_DEADLOCK FALSE
