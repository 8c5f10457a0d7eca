------------------------- MODULE MCServiceLifecycle -------------------------
(***************************************************************************)
(* ServiceLifecycle for TLC: the default configuration, each way of        *)
(* violating one rule of validateConfig, and the largest header limit.      *)
(***************************************************************************)
EXTENDS ServiceLifecycle

MCConfigs ==
    LET valid == [DefaultConfig EXCEPT !.ShutdownTimeout = 1]
    IN {valid} \union {[valid EXCEPT !.ListenAddress = a] : a \in Addresses}
       \union {[valid EXCEPT !.ReadHeaderTimeout = 0], [valid EXCEPT !.ReadTimeout = 0],
               [valid EXCEPT !.WriteTimeout = 0], [valid EXCEPT !.IdleTimeout = 0],
               [valid EXCEPT !.ShutdownTimeout = 0],
               [valid EXCEPT !.ShutdownTimeout = -1]}
       \union {[valid EXCEPT !.MaxHeaderBytes = m] :
                  m \in {-1, 0, maximumMaxHeaderBytes, maximumMaxHeaderBytes + 1}}
=============================================================================
