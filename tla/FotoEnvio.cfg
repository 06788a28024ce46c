\* One car and new ones, two photos, two handlers in flight; no alerts of
\* other pages, which the photos do not depend on.
CONSTANTS
    Objetos = {fusca}
    Fotos = {frente, fundo}
    Nulo = nulo
    MaxOps = 2
    MaxAlheios = 0
SPECIFICATION Spec
SYMMETRY Simetria
INVARIANTS
    FotoEnviada
    FotoGuardada
