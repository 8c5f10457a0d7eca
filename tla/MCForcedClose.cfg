\* The sentence of the lesson about Close, alone.
CONSTANTS
    Conns = {c1, c2}
    NoConn = NoConn
    Configs <- MCConfigs
    defaultShutdownTimeout = 2
SPECIFICATION Spec
INVARIANT CloseStopsWork
