\* Four routes on the stack, two login pages, two logins in flight, one write pending.
CONSTANTS
    MaxPilha = 4
    MaxRotas = 2
    MaxOps = 2
    MaxEscritas = 1
SPECIFICATION Spec
INVARIANTS
    AlertaPresoSoNaSaida
    HomeUnica
    IInv
PROPERTIES
    PortaDaHome
