-------------------------- MODULE ServiceLifecycle --------------------------
(***************************************************************************)
(* The life of one FastGate process: run of gateway/cmd/fastgate/main.go    *)
(* and Service of gateway/internal/service/service.go, from the command     *)
(* line to the value Serve returns.                                        *)
(*                                                                         *)
(* Three kinds of processes share the state: the owner (run, New, Serve,    *)
(* stop), the goroutine Serve starts, and the connections of net/http's     *)
(* Server, which is not in this repository and is modelled from the calls   *)
(* the service makes of it.                                                *)
(***************************************************************************)
EXTENDS Integers, FiniteSets

CONSTANTS Conns,                   \* connections a client may open
          NoConn,                  \* no connection is being handed over
          Configs,                 \* configurations a caller of New may pass
          defaultShutdownTimeout   \* the grace window, in ticks of the clock

Addresses == {"ok", "empty", "padded", "oversized"}

Config == [ListenAddress : Addresses,
           ReadHeaderTimeout : Int, ReadTimeout : Int, WriteTimeout : Int,
           IdleTimeout : Int, ShutdownTimeout : Int, MaxHeaderBytes : Int]

ASSUME LifecycleAssumption ==
    /\ NoConn \notin Conns
    /\ Configs \subseteq Config
    /\ defaultShutdownTimeout \in Nat \ {0}

maximumMaxHeaderBytes == 2 ^ 20

\* The address is "ok" when run gets no -listen flag.
DefaultConfig ==
    [ListenAddress |-> "ok",
     ReadHeaderTimeout |-> 5, ReadTimeout |-> 10, WriteTimeout |-> 10,
     IdleTimeout |-> 60, ShutdownTimeout |-> defaultShutdownTimeout,
     MaxHeaderBytes |-> 2 ^ 14]

\* Does validateConfig accept the configuration?
validateConfig(config) ==
    /\ config.ListenAddress = "ok"
    /\ config.ReadHeaderTimeout > 0 /\ config.ReadTimeout > 0
    /\ config.WriteTimeout > 0 /\ config.IdleTimeout > 0
    /\ config.ShutdownTimeout > 0
    /\ config.MaxHeaderBytes \in 1 .. maximumMaxHeaderBytes

VARIABLES
    \* the owner: run, New, Serve and stop, one call stack
    caller,          \* "main", or "library" for a direct user of the package
    config,          \* the Config it passes to New
    pc,              \* where the owner is
    nilArgument,     \* which argument of Serve is nil, if any
    ctxDone,         \* the caller's context is cancelled (a signal, in main)
    serveFinished,   \* local of Serve
    serveErr,        \* local of Serve
    shutdownErr,     \* what Shutdown returned to stop
    closeErr,        \* what Close returned to stop
    elapsed,         \* ticks since shutdownCtx was created
    result,          \* the causes joined in the error returned; {} is nil
    \* the goroutine of Serve
    goroutine,       \* its progress through server.Serve
    serveValue,      \* what server.Serve returned to it
    serveResult,     \* the channel of capacity one
    handoff,         \* connection accepted, not yet tracked by the server
    \* the state of the http.Server and its listener
    listener, tracked, listenerErr, inShutdown,
    conns,           \* the server's view of each connection
    handlers,        \* connections whose handler is running
    cut              \* history: handlers running when Close closed their connection

ownerVars == <<caller, config, nilArgument>>
joinVars == <<serveFinished, serveErr>>
stopVars == <<shutdownErr, closeErr, elapsed>>
goroutineVars == <<goroutine, serveValue, serveResult, handoff>>
listenVars == <<listener, tracked, listenerErr, inShutdown>>
connVars == <<conns, handlers, cut>>
vars == <<ownerVars, pc, ctxDone, joinVars, stopVars, result, goroutineVars,
          listenVars, connVars>>

ServeErrors == {"nil", "ErrServerClosed", "failure"}
Causes == {"parse", "config", "listen", "context", "listener", "serve",
           "shutdown", "force_close"}
Tracked == {"new", "stale", "active", "idle"}

\* A main that has returned from run takes its goroutines with it.
Alive == ~(caller = "main" /\ pc = "done")

\* Entry is run, with the default configuration and a -listen address, or New
\* with any configuration followed by Serve with any arguments.
Init ==
    /\ \/ /\ caller = "main"
          /\ config \in {[DefaultConfig EXCEPT !.ListenAddress = a] : a \in Addresses}
          /\ pc = "parse"
          /\ nilArgument = "none"
       \/ /\ caller = "library"
          /\ config \in Configs
          /\ pc = "new"
          /\ nilArgument \in {"none", "context", "listener"}
    /\ ctxDone = FALSE
    /\ serveFinished = FALSE /\ serveErr = "nil"
    /\ shutdownErr = "nil" /\ closeErr = "nil" /\ elapsed = 0
    /\ result = {}
    /\ goroutine = "none" /\ serveValue = "nil"
    /\ serveResult = {} /\ handoff = NoConn
    /\ listener = "none" /\ tracked = FALSE
    /\ listenerErr = FALSE /\ inShutdown = FALSE
    /\ conns = [c \in Conns |-> "absent"]
    /\ handlers = {} /\ cut = {}

-----------------------------------------------------------------------------
(* The owner, up to the start of the goroutine.                             *)

Return(causes) ==
    /\ pc' = "done"
    /\ result' = causes

\* An OS signal reaches NotifyContext, or the caller cancels its context.
Cancel ==
    /\ ~ctxDone
    /\ nilArgument # "context"
    /\ ctxDone' = TRUE
    /\ Alive
    /\ UNCHANGED <<ownerVars, pc, joinVars, stopVars, result, goroutineVars,
                   listenVars, connVars>>

\* flags.Parse fails, or positional arguments remain, or both are fine.
ParseFlags ==
    /\ pc = "parse"
    /\ \/ Return({"parse"})
       \/ pc' = "new" /\ UNCHANGED result
    /\ UNCHANGED <<ownerVars, ctxDone, joinVars, stopVars, goroutineVars,
                   listenVars, connVars>>

\* New validates before anything is opened.
New ==
    /\ pc = "new"
    /\ IF validateConfig(config)
       THEN /\ pc' = IF caller = "main" THEN "listen" ELSE "serve"
            /\ UNCHANGED result
       ELSE Return({"config"})
    /\ UNCHANGED <<ownerVars, ctxDone, joinVars, stopVars, goroutineVars,
                   listenVars, connVars>>

\* net.Listen opens the listener, or fails.
Listen ==
    /\ pc = "listen"
    /\ \/ /\ Return({"listen"})
          /\ UNCHANGED listener
       \/ /\ pc' = "serve"
          /\ listener' = "open"
          /\ UNCHANGED result
    /\ UNCHANGED <<ownerVars, ctxDone, joinVars, stopVars, goroutineVars,
                   tracked, listenerErr, inShutdown, connVars>>

\* Serve refuses nil arguments, else starts its goroutine.  A library caller
\* brings a listener of its own.
StartServe ==
    /\ pc = "serve"
    /\ IF nilArgument # "none"
       THEN /\ Return({nilArgument})
            /\ UNCHANGED <<goroutine, listener>>
       ELSE /\ pc' = "select"
            /\ goroutine' = "started"
            /\ listener' = "open"
            /\ UNCHANGED result
    /\ UNCHANGED <<ownerVars, ctxDone, joinVars, stopVars, serveValue, serveResult,
                   handoff, tracked, listenerErr, inShutdown, connVars>>

-----------------------------------------------------------------------------
(* The owner, from the select to the return.                                *)

\* The first case of the select: the goroutine is over.
SelectServeResult ==
    /\ pc = "select"
    /\ serveResult # {}
    /\ serveErr' \in serveResult
    /\ serveResult' = {}
    /\ serveFinished' = TRUE
    /\ pc' = "stop"
    /\ UNCHANGED <<ownerVars, ctxDone, stopVars, result, goroutine, serveValue,
                   handoff, listenVars, connVars>>

\* The second case of the select.
SelectDone ==
    /\ pc = "select"
    /\ ctxDone
    /\ pc' = "stop"
    /\ UNCHANGED <<ownerVars, ctxDone, joinVars, stopVars, result, goroutineVars,
                   listenVars, connVars>>

\* stop creates shutdownCtx and enters Shutdown, which refuses new work and
\* closes the listeners it knows; closing one may fail.
BeginShutdown ==
    /\ pc = "stop"
    /\ inShutdown' = TRUE
    /\ elapsed' = 0
    /\ IF tracked
       THEN listener' = "closed" /\ listenerErr' \in BOOLEAN
       ELSE UNCHANGED <<listener, listenerErr>>
    /\ pc' = "listeners"
    /\ UNCHANGED <<ownerVars, ctxDone, joinVars, shutdownErr, closeErr, result,
                   goroutineVars, tracked, connVars>>

MutWaitNoListeners ==
    /\ pc = "listeners"
    /\ pc' = "drain"
    /\ UNCHANGED <<ownerVars, ctxDone, joinVars, stopVars, result, goroutineVars,
                   listenVars, connVars>>

\* Shutdown waits for every Serve to let go of its listener, with no deadline.
WaitListeners ==
    /\ pc = "listeners"
    /\ ~tracked
    /\ pc' = "drain"
    /\ UNCHANGED <<ownerVars, ctxDone, joinVars, stopVars, result, goroutineVars,
                   listenVars, connVars>>

AfterStop == IF serveFinished THEN "return" ELSE "join"

\* One poll of Shutdown: close what is idle, return once nothing is left.
PollIdle ==
    /\ pc = "drain"
    /\ conns' = [c \in Conns |->
                    IF conns[c] \in {"idle", "stale"} THEN "closed" ELSE conns[c]]
    /\ IF \A c \in Conns : conns'[c] \notin Tracked
       THEN /\ shutdownErr' = IF listenerErr THEN "listener" ELSE "nil"
            /\ pc' = IF listenerErr THEN "close" ELSE AfterStop
       ELSE /\ pc' = "wait"
            /\ UNCHANGED shutdownErr
    /\ UNCHANGED <<ownerVars, ctxDone, joinVars, closeErr, elapsed, result,
                   goroutineVars, listenVars, handlers, cut>>

PollTimer ==
    /\ pc = "wait"
    /\ pc' = "drain"
    /\ UNCHANGED <<ownerVars, ctxDone, joinVars, stopVars, result, goroutineVars,
                   listenVars, connVars>>

MutShutdownCtxInherits == elapsed >= config.ShutdownTimeout \/ ctxDone

MutShutdownCtxUnbounded == FALSE

\* Is shutdownCtx done?  It has a timeout but not the caller's cancellation.
ShutdownCtxDone == elapsed >= config.ShutdownTimeout

\* Shutdown gives up and reports the error of shutdownCtx.
DrainDeadline ==
    /\ pc = "wait"
    /\ ShutdownCtxDone
    /\ shutdownErr' = "deadline"
    /\ pc' = "close"
    /\ UNCHANGED <<ownerVars, ctxDone, joinVars, closeErr, elapsed, result,
                   goroutineVars, listenVars, connVars>>

\* Close closes every connection and waits for no handler.  net/http reports
\* only listener errors here; another managedServer may fail as it likes.
ForceClose ==
    /\ pc = "close"
    /\ closeErr' \in {"nil", "failure"}
    /\ conns' = [c \in Conns |-> IF conns[c] \in Tracked THEN "closed" ELSE conns[c]]
    /\ cut' = handlers
    /\ pc' = AfterStop
    /\ UNCHANGED <<ownerVars, ctxDone, joinVars, shutdownErr, elapsed, result,
                   goroutineVars, listenVars, handlers>>

MutJoinDiscards ==
    /\ pc = "join"
    /\ serveResult # {}
    /\ serveResult' = {}
    /\ pc' = "return"
    /\ UNCHANGED <<ownerVars, ctxDone, joinVars, stopVars, result,
                   goroutine, serveValue, handoff, listenVars, connVars>>

MutJoinSkipped ==
    /\ pc = "join"
    /\ pc' = "return"
    /\ UNCHANGED <<ownerVars, ctxDone, joinVars, stopVars, result, goroutineVars,
                   listenVars, connVars>>

\* The receive that joins the goroutine when the select did not.
JoinServe ==
    /\ pc = "join"
    /\ serveResult # {}
    /\ serveErr' \in serveResult
    /\ serveResult' = {}
    /\ pc' = "return"
    /\ UNCHANGED <<ownerVars, ctxDone, serveFinished, stopVars, result,
                   goroutine, serveValue, handoff, listenVars, connVars>>

MutNormalizeNothing(err) == IF err = "nil" THEN {} ELSE {err}

\* ErrServerClosed is how a server that was told to stop returns.
normalizeServeError(err) == IF err = "failure" THEN {"serve"} ELSE {}

MutStopErrorsOfClose ==
    IF shutdownErr = "nil" \/ closeErr = "nil" THEN {} ELSE {"shutdown", "force_close"}

\* What stop reports: nothing when the drain succeeded, both errors otherwise.
StopErrors ==
    IF shutdownErr = "nil" THEN {}
    ELSE {"shutdown"} \union (IF closeErr = "nil" THEN {} ELSE {"force_close"})

ReturnFromServe ==
    /\ pc = "return"
    /\ Return(normalizeServeError(serveErr) \union StopErrors)
    /\ UNCHANGED <<ownerVars, ctxDone, joinVars, stopVars, goroutineVars,
                   listenVars, connVars>>

\* Time passes for shutdownCtx, up to its deadline.
Tick ==
    /\ pc \in {"listeners", "drain", "wait"}
    /\ elapsed < config.ShutdownTimeout
    /\ elapsed' = elapsed + 1
    /\ UNCHANGED <<ownerVars, pc, ctxDone, joinVars, shutdownErr, closeErr, result,
                   goroutineVars, listenVars, connVars>>

-----------------------------------------------------------------------------
(* The goroutine of Serve, inside http.Server.Serve and then the send.       *)

\* trackListener refuses a server that is already shutting down.
TrackListener ==
    /\ goroutine = "started"
    /\ IF inShutdown
       THEN /\ goroutine' = "returning"
            /\ serveValue' = "ErrServerClosed"
            /\ UNCHANGED tracked
       ELSE /\ goroutine' = "accepting"
            /\ tracked' = TRUE
            /\ UNCHANGED serveValue
    /\ UNCHANGED <<ownerVars, pc, ctxDone, joinVars, stopVars, result, serveResult,
                   handoff, listener, listenerErr, inShutdown, connVars>>

\* Accept returns a connection; the server learns of it only in TrackConn.
Accept(c) ==
    /\ goroutine = "accepting"
    /\ handoff = NoConn
    /\ listener = "open"
    /\ conns[c] = "absent"
    /\ handoff' = c
    /\ UNCHANGED <<ownerVars, pc, ctxDone, joinVars, stopVars, result, goroutine,
                   serveValue, serveResult, listenVars, connVars>>

TrackConn ==
    /\ handoff # NoConn
    /\ conns' = [conns EXCEPT ![handoff] = "new"]
    /\ handoff' = NoConn
    /\ UNCHANGED <<ownerVars, pc, ctxDone, joinVars, stopVars, result, goroutine,
                   serveValue, serveResult, listenVars, handlers, cut>>

\* Accept fails, on its own or because the listener is closed: the failure is
\* reported as ErrServerClosed once the server is shutting down.
AcceptError ==
    /\ goroutine = "accepting"
    /\ handoff = NoConn
    /\ goroutine' = "returning"
    /\ serveValue' = IF inShutdown THEN "ErrServerClosed" ELSE "failure"
    /\ UNCHANGED <<ownerVars, pc, ctxDone, joinVars, stopVars, result, serveResult,
                   handoff, listenVars, connVars>>

\* The deferred calls of http.Server.Serve.
LeaveServe ==
    /\ goroutine = "returning"
    /\ goroutine' = "sending"
    /\ tracked' = FALSE
    /\ listener' = "closed"
    /\ UNCHANGED <<ownerVars, pc, ctxDone, joinVars, stopVars, result, serveValue,
                   serveResult, handoff, listenerErr, inShutdown, connVars>>

\* The send never blocks: the channel holds one value.
SendResult ==
    /\ goroutine = "sending"
    /\ serveResult = {}
    /\ serveResult' = {serveValue}
    /\ goroutine' = "finished"
    /\ UNCHANGED <<ownerVars, pc, ctxDone, joinVars, stopVars, result, serveValue,
                   handoff, listenVars, connVars>>

-----------------------------------------------------------------------------
(* The connections of http.Server and their clients.                        *)

\* A request's first bytes arrive and its handler runs, whether or not the
\* server is shutting down.
RequestArrives(c) ==
    /\ conns[c] \in {"new", "stale", "idle"}
    /\ conns' = [conns EXCEPT ![c] = "active"]
    /\ handlers' = handlers \union {c}
    /\ UNCHANGED <<ownerVars, pc, ctxDone, joinVars, stopVars, result, goroutineVars,
                   listenVars, cut>>

\* The health handler returns; keep-alive ends once the server shuts down.
HandlerFinishes(c) ==
    /\ c \in handlers
    /\ handlers' = handlers \ {c}
    /\ conns' = [conns EXCEPT ![c] =
                    IF inShutdown \/ @ = "closed" THEN "closed" ELSE "idle"]
    /\ UNCHANGED <<ownerVars, pc, ctxDone, joinVars, stopVars, result, goroutineVars,
                   listenVars, cut>>

\* The client leaves, or ReadHeaderTimeout or IdleTimeout closes the connection.
ConnLeaves(c) ==
    /\ conns[c] \in {"new", "stale", "idle"}
    /\ conns' = [conns EXCEPT ![c] = "closed"]
    /\ UNCHANGED <<ownerVars, pc, ctxDone, joinVars, stopVars, result, goroutineVars,
                   listenVars, handlers, cut>>

\* A connection that sent nothing for five seconds counts as idle in a poll.
ConnAges(c) ==
    /\ conns[c] = "new"
    /\ conns' = [conns EXCEPT ![c] = "stale"]
    /\ UNCHANGED <<ownerVars, pc, ctxDone, joinVars, stopVars, result, goroutineVars,
                   listenVars, handlers, cut>>

-----------------------------------------------------------------------------
Owner == \/ ParseFlags \/ New \/ Listen \/ StartServe
         \/ SelectServeResult \/ SelectDone
         \/ BeginShutdown \/ WaitListeners \/ PollIdle \/ PollTimer \/ DrainDeadline
         \/ ForceClose \/ JoinServe \/ ReturnFromServe

Goroutine == \/ TrackListener
             \/ \E c \in Conns : Accept(c)
             \/ TrackConn \/ AcceptError \/ LeaveServe \/ SendResult

Clients == \E c \in Conns :
    RequestArrives(c) \/ HandlerFinishes(c) \/ ConnLeaves(c) \/ ConnAges(c)

\* The process, or the call of Serve, is over.
Stopped == pc = "done" /\ UNCHANGED vars

Next == Owner \/ Tick \/ Cancel \/ (Alive /\ (Goroutine \/ Clients)) \/ Stopped

\* The scheduler runs every goroutine that can move and the clock advances; a
\* closed listener makes Accept return.  After the deadline the select of
\* Shutdown finds shutdownCtx ready at every poll, hence strong fairness.
\* Nothing is assumed of clients or handlers, nor that a signal ever comes.
Fairness ==
    /\ WF_vars(Owner) /\ SF_vars(DrainDeadline)
    /\ WF_vars(Tick)
    /\ WF_vars(TrackListener) /\ WF_vars(TrackConn)
    /\ WF_vars(AcceptError /\ listener = "closed")
    /\ WF_vars(LeaveServe) /\ WF_vars(SendResult)

Spec == Init /\ [][Next]_vars /\ Fairness

-----------------------------------------------------------------------------
OwnerTypes ==
    /\ caller \in {"main", "library"}
    /\ config \in Config
    /\ pc \in {"parse", "new", "listen", "serve", "select", "stop", "listeners",
               "drain", "wait", "close", "join", "return", "done"}
    /\ nilArgument \in {"none", "context", "listener"}
    /\ ctxDone \in BOOLEAN /\ serveFinished \in BOOLEAN
    /\ serveErr \in ServeErrors
    /\ shutdownErr \in {"nil", "deadline", "listener"}
    /\ closeErr \in {"nil", "failure"}
    /\ elapsed \in Nat
    /\ result \subseteq Causes

GoroutineTypes ==
    /\ goroutine \in {"none", "started", "accepting", "returning", "sending", "finished"}
    /\ serveValue \in ServeErrors
    /\ serveResult \subseteq ServeErrors
    /\ handoff \in Conns \union {NoConn}

ServerTypes ==
    /\ listener \in {"none", "open", "closed"}
    /\ tracked \in BOOLEAN /\ listenerErr \in BOOLEAN /\ inShutdown \in BOOLEAN
    /\ conns \in [Conns -> Tracked \union {"absent", "closed"}]
    /\ handlers \subseteq Conns /\ cut \subseteq Conns

\* Types, and the places where each process can be.
TypeOK == OwnerTypes /\ GoroutineTypes /\ ServerTypes

(* service.go:101-104.  When Serve returns after starting its goroutine, the *)
(* goroutine is over, its value was received exactly once, the listener is   *)
(* closed, and no accepted connection is still on its way into the server.   *)
JoinedBeforeReturn ==
    (pc = "done" /\ goroutine # "none") =>
        /\ goroutine = "finished"
        /\ serveResult = {}
        /\ listener = "closed" /\ ~tracked
        /\ handoff = NoConn

(* service.go:93-105.  Whichever case of the select wins, a failure of the   *)
(* accept loop reaches the caller, a shutdown is never reported as one, and  *)
(* neither cleanup error hides the other or the failure.                     *)
CausesPreserved ==
    (pc = "done" /\ goroutine # "none") =>
        /\ "serve" \in result <=> serveValue = "failure"
        /\ "shutdown" \in result <=> shutdownErr # "nil"
        /\ "force_close" \in result <=> closeErr # "nil"

\* The exit status of the process.
ExitStatus == IF result = {} THEN 0 ELSE 1

(* service.go:108-125, main.go:16-24.  Exit status 0 means that everything   *)
(* admitted was served: no connection is open, no handler runs and none lost *)
(* its connection to Close.                                                 *)
CleanExitDrained ==
    (pc = "done" /\ ExitStatus = 0) =>
        /\ \A c \in Conns : conns[c] \in {"absent", "closed"}
        /\ handlers = {} /\ cut = {}

(* service.go:109-112.  Handlers are cut off only after the whole configured *)
(* and positive grace window, although the context that started the shutdown *)
(* is cancelled already.                                                    *)
GraceWindow ==
    shutdownErr = "deadline" \/ cut # {} =>
        elapsed = config.ShutdownTimeout /\ elapsed > 0

(* Once Shutdown polls, no further connection enters the server: those the   *)
(* drain has seen are all there are.                                        *)
NoLateConnection ==
    [][\A c \in Conns : conns[c] = "absent" /\ conns'[c] # "absent" =>
          pc \in {"select", "stop", "listeners"}]_vars

(* After the context is cancelled or the accept loop ends, a started Serve   *)
(* returns, even if handlers never finish and clients never leave.           *)
StopsAfterTerminalEvent ==
    (goroutine # "none" /\ (ctxDone \/ goroutine = "finished")) ~> (pc = "done")

(* What a caller of Serve may rely on, with the bookkeeping of the select,   *)
(* the channel and the polls abstracted away.                               *)
Contract == INSTANCE ServiceContract WITH
    phase <- IF pc = "done" THEN "stopped"
             ELSE IF goroutine = "none" THEN "starting"
             ELSE IF listener = "open" THEN "serving" ELSE "stopping",
    live <- {c \in Conns : conns[c] \in Tracked \/ c = handoff},
    busy <- {c \in Conns : conns[c] = "active"},
    failed <- serveValue = "failure" \/ shutdownErr # "nil",
    verdict <- IF pc # "done" THEN "none"
               ELSE IF result = {} THEN "clean" ELSE "failed"

(* service.go:53-106.  Every behaviour of the process keeps the contract.    *)
ImplementsContract == Contract!Spec

(* docs/lessons/icgt-005-go-service-lifecycle.md:213: "If graceful shutdown  *)
(* fails, `Close` stops active HTTP work before the join."                  *)
CloseStopsWork == (pc = "done" /\ shutdownErr # "nil") => handlers = {}
=============================================================================
