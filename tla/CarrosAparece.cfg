\* One list, new cars and deletes, one request and two fetches in flight;
\* liveness.
CONSTANTS
    Tipos = {classicos}
    Nulo = nulo
    Nenhum = nenhum
    Objetos = {fusca}
    MaxPilha = 3
    MaxRotas = 1
    MaxOps = 1
    MaxPedidos = 2
    MaxVersao = 2
SPECIFICATION LiveSpec
INVARIANTS
    IInv
PROPERTIES
    SalvoAparece
\* An alert whose page is gone, or a stack without Home, stops the app.
CHECK_DEADLOCK FALSE
