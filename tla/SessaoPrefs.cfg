\* Two routes on the stack, two logins in flight, three writes pending; liveness.
CONSTANTS
    MaxPilha = 2
    MaxRotas = 2
    MaxOps = 2
    MaxEscritas = 3
SPECIFICATION LiveSpec
INVARIANTS
    PersistenciaEmOrdem
    TravaCurada
PROPERTIES
    ImplementaRegistro
    TokenSoDeLogin
    SplashTermina
    LimpezaChegaAoDisco
