\* One page, three fetches in flight, two changes of the list.
CONSTANTS
    Tipos = {classicos}
    Nulo = nulo
    MaxPedidos = 3
    MaxVersao = 2
SPECIFICATION Spec
INVARIANTS
    IInv
PROPERTIES
    RegressoSoComSobreposicao
