\* Two cars, three reads and two writes in flight.
CONSTANTS
    Carros = {fusca, gol}
    Nulo = nulo
    Nenhum = nenhum
    MaxOps = 3
    MaxEscritas = 2
SPECIFICATION Spec
SYMMETRY Simetria
INVARIANTS
    UmFavoritoSo
    CoracaoFiel
    IInv
PROPERTIES
    AlternaSalvoSuperado
    ImplementaCoracao
