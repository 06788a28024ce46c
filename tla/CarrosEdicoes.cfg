\* Two lists, two saves of one car and one fetch in flight.
CONSTANTS
    Tipos = {classicos, esportivos}
    Nulo = nulo
    Nenhum = nenhum
    Objetos = {fusca}
    MaxPilha = 4
    MaxRotas = 2
    MaxOps = 2
    MaxPedidos = 1
    MaxVersao = 1
SPECIFICATION SpecDasEdicoes
SYMMETRY Simetria
INVARIANTS
    IInv
    NadaEsquecido
\* An alert whose page is gone, or a stack without Home, stops the app.
CHECK_DEADLOCK FALSE
