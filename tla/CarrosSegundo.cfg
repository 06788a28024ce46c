\* One list, two saves of one car and one fetch in flight; liveness.
CONSTANTS
    Tipos = {classicos}
    Nulo = nulo
    Nenhum = nenhum
    Objetos = {fusca}
    MaxPilha = 4
    MaxRotas = 2
    MaxOps = 2
    MaxPedidos = 1
    MaxVersao = 2
SPECIFICATION LiveSpecDasEdicoes
PROPERTIES
    SalvoAparece
\* An alert whose page is gone, or a stack without Home, stops the app.
CHECK_DEADLOCK FALSE
