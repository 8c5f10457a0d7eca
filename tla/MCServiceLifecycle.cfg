\* Two connections: one handler can stall while the other drains.
CONSTANTS
    Conns = {c1, c2}
    NoConn = NoConn
    Configs <- MCConfigs
    defaultShutdownTimeout = 2
SPECIFICATION Spec
INVARIANTS TypeOK JoinedBeforeReturn CausesPreserved CleanExitDrained GraceWindow
PROPERTIES NoLateConnection StopsAfterTerminalEvent ImplementsContract
