\* One car, two pages not yet disposed, three requests in flight.
CONSTANTS
    Tipos = {classicos, esportivos}
    Nulo = nulo
    Nenhum = nenhum
    Objetos = {fusca}
    MaxPilha = 5
    MaxRotas = 2
    MaxOps = 3
SPECIFICATION Spec
SYMMETRY Simetria
INVARIANTS
    IInv
    OkFechaQuemPediu
PROPERTIES
    EventoDoTipoGravado
    HomeSoCaiNaSaida
\* An alert whose page is gone, or a stack without Home, stops the app.
CHECK_DEADLOCK FALSE
