----------------------- MODULE ServiceLifecycleProofs -----------------------
(***************************************************************************)
(* Serve joins its goroutine, keeps every cause, honours the grace window   *)
(* and reports success only when everything was served, for any number of   *)
(* connections, any configuration and any grace window.                     *)
(***************************************************************************)
EXTENDS ServiceLifecycle, TLAPS

\* Before Serve starts its goroutine nothing has happened to the server.
Preparing == goroutine = "none" =>
    /\ pc \in {"parse", "new", "listen", "serve", "done"}
    /\ serveResult = {} /\ handoff = NoConn /\ ~tracked
    /\ conns = [c \in Conns |-> "absent"] /\ handlers = {} /\ cut = {}
    /\ shutdownErr = "nil" /\ closeErr = "nil" /\ ~serveFinished /\ elapsed = 0
    /\ pc = "done" => result # {}

\* The configuration of a started server was validated.
Started == goroutine # "none" =>
    /\ pc \notin {"parse", "new", "listen", "serve"}
    /\ config.ShutdownTimeout > 0
    /\ elapsed <= config.ShutdownTimeout
ServeValidated == pc \in {"listen", "serve"} =>
    config.ShutdownTimeout > 0

\* What each place of the goroutine says of the listener and of its value.
GoroutineFacts ==
    /\ goroutine \in {"none", "started", "accepting"} <=> serveValue = "nil"
    /\ goroutine = "accepting" => tracked
    /\ tracked => goroutine \in {"accepting", "returning"}
    /\ handoff # NoConn => goroutine = "accepting"
    /\ goroutine \in {"sending", "finished"} => listener = "closed"
    /\ serveResult # {} => goroutine = "finished" /\ serveResult = {serveValue}

\* The goroutine's value has been received at most once, and before returning.
Received == serveFinished \/ pc = "return" \/ (pc = "done" /\ goroutine # "none")
ReceiveFacts ==
    /\ Received => goroutine = "finished" /\ serveErr = serveValue /\ serveResult = {}
    /\ pc \in {"select", "join"} => ~serveFinished

\* inShutdown is set for good once Shutdown begins, and nothing is tracked
\* from the end of its wait for the listeners on.
AfterWait == {"drain", "wait", "close", "join", "return", "done"}
ShutdownFacts ==
    /\ pc \in AfterWait \union {"listeners"} /\ goroutine # "none" => inShutdown
    /\ pc \in AfterWait => ~tracked

\* The errors of stop, and why they were returned.
StopFacts ==
    /\ closeErr # "nil" => shutdownErr # "nil"
    /\ shutdownErr = "deadline" => elapsed = config.ShutdownTimeout
    /\ shutdownErr # "nil" => pc \in {"close", "join", "return", "done"}
    /\ pc = "close" => shutdownErr # "nil"
    /\ pc = "done" /\ goroutine # "none" =>
          result = normalizeServeError(serveErr) \union StopErrors

\* Handlers run on active connections, until Close cuts them off.
Closed(c) == conns[c] \in {"absent", "closed"}
ConnFacts ==
    /\ handoff # NoConn => conns[handoff] = "absent"
    /\ \A c \in handlers : conns[c] # "absent"
    /\ pc \notin {"join", "return", "done"} => cut = {}
    /\ shutdownErr # "deadline" =>
          /\ cut = {}
          /\ \A c \in handlers : conns[c] = "active"
    /\ pc \in {"close", "join", "return", "done"} /\ shutdownErr # "deadline" =>
          \A c \in Conns : Closed(c)

IInv ==
    /\ TypeOK
    /\ Preparing /\ Started /\ ServeValidated
    /\ GoroutineFacts /\ ReceiveFacts
    /\ ShutdownFacts /\ StopFacts /\ ConnFacts

-----------------------------------------------------------------------------
\* An accepted configuration has a positive grace window.
LEMMA ValidatedGrace == ASSUME NEW cfg, validateConfig(cfg) PROVE cfg.ShutdownTimeout > 0
  BY DEF validateConfig

\* Every initial configuration is one.
LEMMA InitialConfig == Init => config \in Config
  BY LifecycleAssumption DEF Init, Config, DefaultConfig, Addresses

\* The initial states satisfy the invariant.
LEMMA InitInvariant == Init => IInv
<1> SUFFICES ASSUME Init PROVE IInv
  OBVIOUS
<1>1. OwnerTypes
  BY InitialConfig DEF Init, OwnerTypes, ServeErrors, Causes
<1>2. GoroutineTypes /\ ServerTypes
  BY DEF Init, GoroutineTypes, ServerTypes, ServeErrors, Tracked
<1>3. Preparing /\ Started /\ ServeValidated
  BY DEF Init, Preparing, Started, ServeValidated
<1>4. GoroutineFacts /\ ReceiveFacts /\ ShutdownFacts
  BY DEF Init, GoroutineFacts, Received, ReceiveFacts, AfterWait, ShutdownFacts
<1>5. StopFacts /\ ConnFacts
  BY DEF Init, StopFacts, Closed, ConnFacts
<1> QED BY <1>1, <1>2, <1>3, <1>4, <1>5 DEF IInv, TypeOK

\* Every step keeps the types.
LEMMA StepTypes == TypeOK /\ [Next]_vars => TypeOK'
<1> SUFFICES ASSUME TypeOK, [Next]_vars PROVE TypeOK'
  OBVIOUS
<1> USE DEF TypeOK, OwnerTypes, GoroutineTypes, ServerTypes, ServeErrors, Tracked,
        ownerVars, joinVars, stopVars, goroutineVars, listenVars, connVars
<1>1. CASE ParseFlags
  <2>1. OwnerTypes'
    BY <1>1 DEF ParseFlags, Return, Causes
  <2>2. GoroutineTypes'
    BY <1>1 DEF ParseFlags, Return, Causes
  <2>3. ServerTypes'
    BY <1>1 DEF ParseFlags, Return, Causes
  <2> QED BY <2>1, <2>2, <2>3
<1>2. CASE New
  <2>1. OwnerTypes'
    BY <1>2 DEF New, Return, Causes
  <2>2. GoroutineTypes'
    BY <1>2 DEF New, Return, Causes
  <2>3. ServerTypes'
    BY <1>2 DEF New, Return, Causes
  <2> QED BY <2>1, <2>2, <2>3
<1>3. CASE Listen
  <2>1. OwnerTypes'
    BY <1>3 DEF Listen, Return, Causes
  <2>2. GoroutineTypes'
    BY <1>3 DEF Listen, Return, Causes
  <2>3. ServerTypes'
    BY <1>3 DEF Listen, Return, Causes
  <2> QED BY <2>1, <2>2, <2>3
<1>4. CASE StartServe
  <2>1. OwnerTypes'
    BY <1>4 DEF StartServe, Return, Causes
  <2>2. GoroutineTypes'
    BY <1>4 DEF StartServe, Return, Causes
  <2>3. ServerTypes'
    BY <1>4 DEF StartServe, Return, Causes
  <2> QED BY <2>1, <2>2, <2>3
<1>5. CASE SelectServeResult
  BY <1>5 DEF SelectServeResult
<1>6. CASE SelectDone
  BY <1>6 DEF SelectDone
<1>7. CASE BeginShutdown
  BY <1>7 DEF BeginShutdown
<1>8. CASE WaitListeners
  BY <1>8 DEF WaitListeners
<1>9. CASE PollIdle
  BY <1>9 DEF PollIdle, AfterStop
<1>10. CASE PollTimer
  BY <1>10 DEF PollTimer
<1>11. CASE DrainDeadline
  BY <1>11 DEF DrainDeadline, ShutdownCtxDone
<1>12. CASE ForceClose
  BY <1>12 DEF ForceClose, AfterStop
<1>13. CASE JoinServe
  BY <1>13 DEF JoinServe
<1>14. CASE ReturnFromServe
  BY <1>14 DEF ReturnFromServe, Return, Causes, StopErrors, normalizeServeError
<1>15. CASE Tick
  BY <1>15 DEF Tick
<1>16. CASE Cancel
  BY <1>16 DEF Cancel
<1>17. CASE TrackListener
  <2>1. OwnerTypes'
    BY <1>17 DEF TrackListener
  <2>2. GoroutineTypes'
    BY <1>17 DEF TrackListener
  <2>3. ServerTypes'
    BY <1>17 DEF TrackListener
  <2> QED BY <2>1, <2>2, <2>3
<1>18. ASSUME NEW c \in Conns, Accept(c) PROVE TypeOK'
  BY <1>18 DEF Accept
<1>19. CASE TrackConn
  BY <1>19 DEF TrackConn
<1>20. CASE AcceptError
  BY <1>20 DEF AcceptError
<1>21. CASE LeaveServe
  <2>1. OwnerTypes'
    BY <1>21 DEF LeaveServe
  <2>2. GoroutineTypes'
    BY <1>21 DEF LeaveServe
  <2>3. ServerTypes'
    BY <1>21 DEF LeaveServe
  <2> QED BY <2>1, <2>2, <2>3
<1>22. CASE SendResult
  BY <1>22 DEF SendResult
<1>23. ASSUME NEW c \in Conns, RequestArrives(c) PROVE TypeOK'
  BY <1>23 DEF RequestArrives
<1>24. ASSUME NEW c \in Conns, HandlerFinishes(c) PROVE TypeOK'
  BY <1>24 DEF HandlerFinishes
<1>25. ASSUME NEW c \in Conns, ConnLeaves(c) PROVE TypeOK'
  BY <1>25 DEF ConnLeaves
<1>26. ASSUME NEW c \in Conns, ConnAges(c) PROVE TypeOK'
  BY <1>26 DEF ConnAges
<1>27. CASE UNCHANGED vars
  BY <1>27 DEF vars
<1> QED
  BY <1>1, <1>2, <1>3, <1>4, <1>5, <1>6, <1>7, <1>8, <1>9, <1>10, <1>11, <1>12,
     <1>13, <1>14, <1>15, <1>16, <1>17, <1>18, <1>19, <1>20, <1>21, <1>22, <1>23,
     <1>24, <1>25, <1>26, <1>27
  DEF Next, Owner, Goroutine, Clients, Stopped

\* Every step preserves the invariant.
LEMMA StepInvariant == IInv /\ [Next]_vars => IInv'
<1> SUFFICES ASSUME IInv, [Next]_vars PROVE IInv'
  OBVIOUS
<1>t. TypeOK'
  BY StepTypes DEF IInv
<1>u. /\ elapsed \in Nat /\ config.ShutdownTimeout \in Int
      /\ handlers \subseteq Conns
      /\ handoff \in Conns \union {NoConn} /\ NoConn \notin Conns
      /\ conns \in [Conns -> Tracked \union {"absent", "closed"}]
  BY LifecycleAssumption
  DEF IInv, TypeOK, OwnerTypes, GoroutineTypes, ServerTypes, Config
<1> USE <1>t, <1>u
    DEF IInv, Preparing, Started, ServeValidated, GoroutineFacts, Received,
        ReceiveFacts, AfterWait, ShutdownFacts, StopFacts, StopErrors,
        normalizeServeError, Closed, ConnFacts, Tracked,
        ownerVars, joinVars, stopVars, goroutineVars, listenVars, connVars
<1>1. CASE ParseFlags
  BY <1>1 DEF ParseFlags, Return
<1>2. CASE New
  BY <1>2, ValidatedGrace DEF New, Return
<1>3. CASE Listen
  BY <1>3 DEF Listen, Return
<1>4. CASE StartServe
  BY <1>4 DEF StartServe, Return
<1>5. CASE SelectServeResult
  BY <1>5 DEF SelectServeResult
<1>6. CASE SelectDone
  BY <1>6 DEF SelectDone
<1>7. CASE BeginShutdown
  BY <1>7 DEF BeginShutdown
<1>8. CASE WaitListeners
  BY <1>8 DEF WaitListeners
<1>9. CASE PollIdle
  BY <1>9 DEF PollIdle, AfterStop
<1>10. CASE PollTimer
  BY <1>10 DEF PollTimer
<1>11. CASE DrainDeadline
  BY <1>11 DEF DrainDeadline, ShutdownCtxDone
<1>12. CASE ForceClose
  BY <1>12 DEF ForceClose, AfterStop
<1>13. CASE JoinServe
  BY <1>13 DEF JoinServe
<1>14. CASE ReturnFromServe
  BY <1>14 DEF ReturnFromServe, Return
<1>15. CASE Tick
  BY <1>15 DEF Tick
<1>16. CASE Cancel
  BY <1>16 DEF Cancel
<1>17. CASE TrackListener
  BY <1>17 DEF TrackListener
<1>18. ASSUME NEW c \in Conns, Accept(c) PROVE IInv'
  BY <1>18 DEF Accept
<1>19. CASE TrackConn
  BY <1>19 DEF TrackConn
<1>20. CASE AcceptError
  BY <1>20 DEF AcceptError
<1>21. CASE LeaveServe
  BY <1>21 DEF LeaveServe
<1>22. CASE SendResult
  BY <1>22 DEF SendResult
<1>23. ASSUME NEW c \in Conns, RequestArrives(c) PROVE IInv'
  BY <1>23 DEF RequestArrives
<1>24. ASSUME NEW c \in Conns, HandlerFinishes(c) PROVE IInv'
  BY <1>24 DEF HandlerFinishes
<1>25. ASSUME NEW c \in Conns, ConnLeaves(c) PROVE IInv'
  BY <1>25 DEF ConnLeaves
<1>26. ASSUME NEW c \in Conns, ConnAges(c) PROVE IInv'
  BY <1>26 DEF ConnAges
<1>27. CASE UNCHANGED vars
  BY <1>27 DEF vars
<1> QED
  BY <1>1, <1>2, <1>3, <1>4, <1>5, <1>6, <1>7, <1>8, <1>9, <1>10, <1>11, <1>12,
     <1>13, <1>14, <1>15, <1>16, <1>17, <1>18, <1>19, <1>20, <1>21, <1>22, <1>23,
     <1>24, <1>25, <1>26, <1>27
  DEF Next, Owner, Goroutine, Clients, Stopped

\* The inductive invariant holds in every reachable state.
THEOREM Invariance == Spec => []IInv
  BY InitInvariant, StepInvariant, PTL DEF Spec

-----------------------------------------------------------------------------
\* The types and places of the three processes are never left.
THEOREM TypeOKHolds == Spec => []TypeOK
<1>1. IInv => TypeOK
  BY DEF IInv
<1> QED BY <1>1, Invariance, PTL

\* Serve returns only after its goroutine is over and its value received.
THEOREM JoinedBeforeReturnHolds == Spec => []JoinedBeforeReturn
<1>1. IInv => JoinedBeforeReturn
  BY DEF IInv, GoroutineFacts, Received, ReceiveFacts, AfterWait, ShutdownFacts,
         JoinedBeforeReturn
<1> QED BY <1>1, Invariance, PTL

\* No failure is lost and none is made up, whichever case of the select wins.
THEOREM CausesPreservedHolds == Spec => []CausesPreserved
<1>1. ASSUME IInv, pc = "done", goroutine # "none"
      PROVE  /\ "serve" \in result <=> serveValue = "failure"
             /\ "shutdown" \in result <=> shutdownErr # "nil"
             /\ "force_close" \in result <=> closeErr # "nil"
  <2>1. result = normalizeServeError(serveErr) \union StopErrors
        /\ serveErr = serveValue /\ (closeErr # "nil" => shutdownErr # "nil")
    BY <1>1 DEF IInv, StopFacts, ReceiveFacts, Received
  <2> QED BY <2>1 DEF normalizeServeError, StopErrors
<1>2. IInv => CausesPreserved
  BY <1>1 DEF CausesPreserved
<1> QED BY <1>2, Invariance, PTL

\* Exit status 0 means everything admitted was served to the end.
THEOREM CleanExitDrainedHolds == Spec => []CleanExitDrained
<1>1. ASSUME IInv, pc = "done", ExitStatus = 0
      PROVE  /\ \A c \in Conns : conns[c] \in {"absent", "closed"}
             /\ handlers = {} /\ cut = {}
  <2>1. result = {}
    BY <1>1 DEF ExitStatus
  <2>2. goroutine # "none" /\ StopErrors = {}
    BY <1>1, <2>1 DEF IInv, Preparing, StopFacts
  <2>3. shutdownErr = "nil"
    BY <2>2 DEF StopErrors
  <2> QED BY <1>1, <2>3 DEF IInv, TypeOK, ServerTypes, ConnFacts, Closed
<1>2. IInv => CleanExitDrained
  BY <1>1 DEF CleanExitDrained
<1> QED BY <1>2, Invariance, PTL

\* Handlers lose their connection only after the whole grace window.
THEOREM GraceWindowHolds == Spec => []GraceWindow
<1>1. IInv => GraceWindow
  BY DEF IInv, Preparing, Started, StopFacts, ConnFacts, GraceWindow
<1> QED BY <1>1, Invariance, PTL

\* No connection enters the server once Shutdown polls.
THEOREM NoLateConnectionHolds == Spec => NoLateConnection
<1> DEFINE Enters(c) == conns[c] = "absent" /\ conns'[c] # "absent"
<1>1. ASSUME IInv, [Next]_vars, NEW c \in Conns, Enters(c)
      PROVE  pc \in {"select", "stop", "listeners"}
  <2>1. conns \in [Conns -> Tracked \union {"absent", "closed"}] /\ handlers \subseteq Conns
    BY <1>1 DEF IInv, TypeOK, ServerTypes
  <2>2. TrackConn
    <3>1. conns' # conns
      BY <1>1
    <3>2. ~PollIdle /\ ~ForceClose
      BY <1>1, <2>1 DEF PollIdle, ForceClose, Tracked
    <3>3. ~\E d \in Conns : RequestArrives(d) \/ ConnLeaves(d) \/ ConnAges(d)
      BY <1>1, <2>1 DEF RequestArrives, ConnLeaves, ConnAges
    <3>4. ~\E d \in Conns : HandlerFinishes(d)
      BY <1>1, <2>1 DEF HandlerFinishes, IInv, ConnFacts
    <3> QED
      BY <1>1, <3>1, <3>2, <3>3, <3>4
      DEF Next, Owner, Goroutine, Clients, Stopped, vars, connVars, ParseFlags, New,
          Listen, StartServe, SelectServeResult, SelectDone, BeginShutdown,
          WaitListeners, PollTimer, DrainDeadline, JoinServe, ReturnFromServe, Tick,
          Cancel, TrackListener, Accept, AcceptError, LeaveServe, SendResult
  <2>3. goroutine = "accepting" /\ tracked
    BY <1>1, <2>2 DEF TrackConn, IInv, GoroutineFacts
  <2> QED
    BY <1>1, <2>3
    DEF IInv, TypeOK, OwnerTypes, Started, ShutdownFacts, AfterWait
<1>2. IInv /\ [Next]_vars =>
        [\A c \in Conns : conns[c] = "absent" /\ conns'[c] # "absent" =>
            pc \in {"select", "stop", "listeners"}]_vars
  BY <1>1
<1> QED BY <1>2, Invariance, PTL DEF Spec, NoLateConnection

-----------------------------------------------------------------------------
(* The contract.                                                           *)

\* What the refinement needs beyond IInv: a listener that is still open though
\* the server does not track it has never been accepted from; a handler's
\* connection is active until Close takes it; nothing outlives the stop.
NeverServed ==
    /\ goroutine = "none" => ~listenerErr
    /\ goroutine # "none" => listener # "none"
    /\ goroutine # "none" /\ listener = "open" /\ ~tracked =>
          /\ ~listenerErr /\ pc \notin {"wait", "close"}
          /\ \A c \in Conns : conns[c] = "absent"
HandlersHeld == \A c \in handlers : conns[c] \in {"active", "closed"}
NothingLeft == pc \in {"join", "return", "done"} => \A c \in Conns : Closed(c)

RInv == NeverServed /\ HandlersHeld /\ NothingLeft

\* The initial states satisfy it.
LEMMA InitRefinable == Init => RInv
  BY DEF Init, RInv, NeverServed, HandlersHeld, NothingLeft, Closed

\* Every step keeps it.
LEMMA StepRefinable == IInv /\ RInv /\ [Next]_vars => RInv'
<1> SUFFICES ASSUME IInv, RInv, [Next]_vars PROVE RInv'
  OBVIOUS
<1>u. /\ handlers \subseteq Conns /\ tracked \in BOOLEAN /\ listenerErr \in BOOLEAN
      /\ handoff \in Conns \union {NoConn} /\ NoConn \notin Conns
      /\ conns \in [Conns -> Tracked \union {"absent", "closed"}]
      /\ pc \in AfterWait => ~tracked /\ handoff = NoConn
      /\ goroutine = "accepting" => tracked
      /\ handoff # NoConn => goroutine = "accepting" /\ conns[handoff] = "absent"
      /\ goroutine = "none" => /\ \A c \in Conns : conns[c] = "absent"
                               /\ pc \in {"parse", "new", "listen", "serve", "done"}
      /\ goroutine # "none" => pc \notin {"parse", "new", "listen", "serve"}
  BY LifecycleAssumption
  DEF IInv, TypeOK, GoroutineTypes, ServerTypes, ShutdownFacts, GoroutineFacts, Preparing,
      Started, AfterWait, ConnFacts
<1>s. /\ goroutine = "none" => handlers = {}
      /\ pc \in {"join", "return", "done"} /\ goroutine # "none" => inShutdown
  BY DEF IInv, Preparing, ShutdownFacts, AfterWait
<1> USE <1>u, <1>s
    DEF RInv, NeverServed, HandlersHeld, NothingLeft, AfterWait, Closed, Tracked,
        ownerVars, joinVars, stopVars, goroutineVars, listenVars, connVars
<1>1. CASE ParseFlags
  BY <1>1 DEF ParseFlags, Return
<1>2. CASE New
  BY <1>2 DEF New, Return
<1>3. CASE Listen
  BY <1>3 DEF Listen, Return
<1>4. CASE StartServe
  BY <1>4 DEF StartServe, Return
<1>5. CASE SelectServeResult
  BY <1>5 DEF SelectServeResult
<1>6. CASE SelectDone
  BY <1>6 DEF SelectDone
<1>7. CASE BeginShutdown
  BY <1>7 DEF BeginShutdown
<1>8. CASE WaitListeners
  BY <1>8 DEF WaitListeners
<1>9. CASE PollIdle
  BY <1>9 DEF PollIdle, AfterStop
<1>10. CASE PollTimer
  BY <1>10 DEF PollTimer
<1>11. CASE DrainDeadline
  BY <1>11 DEF DrainDeadline
<1>12. CASE ForceClose
  BY <1>12 DEF ForceClose, AfterStop
<1>13. CASE JoinServe
  BY <1>13 DEF JoinServe
<1>14. CASE ReturnFromServe
  BY <1>14 DEF ReturnFromServe, Return
<1>15. CASE Tick
  BY <1>15 DEF Tick
<1>16. CASE Cancel
  BY <1>16 DEF Cancel
<1>17. CASE TrackListener
  BY <1>17 DEF TrackListener
<1>18. ASSUME NEW c \in Conns, Accept(c) PROVE RInv'
  BY <1>18 DEF Accept
<1>19. CASE TrackConn
  BY <1>19 DEF TrackConn
<1>20. CASE AcceptError
  BY <1>20 DEF AcceptError
<1>21. CASE LeaveServe
  BY <1>21 DEF LeaveServe
<1>22. CASE SendResult
  BY <1>22 DEF SendResult
<1>23. ASSUME NEW c \in Conns, RequestArrives(c) PROVE RInv'
  BY <1>23 DEF RequestArrives
<1>24. ASSUME NEW c \in Conns, HandlerFinishes(c) PROVE RInv'
  BY <1>24 DEF HandlerFinishes
<1>25. ASSUME NEW c \in Conns, ConnLeaves(c) PROVE RInv'
  BY <1>25 DEF ConnLeaves
<1>26. ASSUME NEW c \in Conns, ConnAges(c) PROVE RInv'
  BY <1>26 DEF ConnAges
<1>27. CASE UNCHANGED vars
  BY <1>27 DEF vars
<1> QED
  BY <1>1, <1>2, <1>3, <1>4, <1>5, <1>6, <1>7, <1>8, <1>9, <1>10, <1>11, <1>12,
     <1>13, <1>14, <1>15, <1>16, <1>17, <1>18, <1>19, <1>20, <1>21, <1>22, <1>23,
     <1>24, <1>25, <1>26, <1>27
  DEF Next, Owner, Goroutine, Clients, Stopped

\* The initial states are initial states of the contract.
LEMMA InitImplements == Init => Contract!Init
<1> SUFFICES ASSUME Init PROVE Contract!Init
  OBVIOUS
<1>1. NoConn \notin Conns
  BY LifecycleAssumption
<1> QED BY <1>1 DEF Init, Contract!Init, Tracked

\* Every step of the process is a step of the contract, or none.
LEMMA StepImplements == IInv /\ RInv /\ [Next]_vars => [Contract!Next]_(Contract!vars)
<1> SUFFICES ASSUME IInv, RInv, [Next]_vars PROVE [Contract!Next]_(Contract!vars)
  OBVIOUS
<1> DEFINE Stutter == UNCHANGED Contract!vars
<1>u. /\ handlers \subseteq Conns
      /\ handoff \in Conns \union {NoConn} /\ NoConn \notin Conns
      /\ conns \in [Conns -> Tracked \union {"absent", "closed"}]
      /\ pc \in AfterWait => ~tracked /\ handoff = NoConn
      /\ goroutine = "none" => /\ \A c \in Conns : conns[c] = "absent"
                               /\ pc \in {"parse", "new", "listen", "serve", "done"}
                               /\ handoff = NoConn /\ serveValue = "nil" /\ shutdownErr = "nil"
      /\ goroutine # "none" => pc \notin {"parse", "new", "listen", "serve"}
      /\ goroutine \in {"started", "accepting", "returning", "sending"} => pc # "done"
      /\ handoff # NoConn => conns[handoff] = "absent"
  BY LifecycleAssumption
  DEF IInv, TypeOK, GoroutineTypes, ServerTypes, ShutdownFacts, GoroutineFacts, Preparing,
      Started, AfterWait, ConnFacts, ReceiveFacts, Received
<1> USE <1>u DEF Tracked, AfterWait,
        ownerVars, joinVars, stopVars, goroutineVars, listenVars, connVars
<1>1. CASE ParseFlags
  <2>1. Contract!Refuse \/ Stutter
    BY <1>1 DEF ParseFlags, Return, Contract!Refuse, Contract!vars
  <2> QED BY <2>1 DEF Contract!Next
<1>2. CASE New
  <2>1. Contract!Refuse \/ Stutter
    BY <1>2 DEF New, Return, Contract!Refuse, Contract!vars
  <2> QED BY <2>1 DEF Contract!Next
<1>3. CASE Listen
  <2>1. Contract!Refuse \/ Stutter
    BY <1>3 DEF Listen, Return, Contract!Refuse, Contract!vars
  <2> QED BY <2>1 DEF Contract!Next
<1>4. CASE StartServe
  <2>1. Contract!Refuse \/ Contract!Start
    BY <1>4 DEF StartServe, Return, Contract!Refuse, Contract!Start
  <2> QED BY <2>1 DEF Contract!Next
<1>5. CASE SelectServeResult
  BY <1>5 DEF SelectServeResult, Contract!vars
<1>6. CASE SelectDone
  BY <1>6 DEF SelectDone, Contract!vars
<1>7. CASE BeginShutdown
  <2>1. Contract!CloseDoor \/ Stutter
    BY <1>7 DEF BeginShutdown, Contract!CloseDoor, Contract!vars
  <2> QED BY <2>1 DEF Contract!Next
<1>8. CASE WaitListeners
  BY <1>8 DEF WaitListeners, Contract!vars
<1>9. CASE PollIdle
  <2>0. PICK leaving \in SUBSET Conns : leaving = {c \in Conns : conns[c] \in {"idle", "stale"}}
    OBVIOUS
  <2>1. /\ pc' # "done" /\ goroutine # "none"
        /\ shutdownErr = "nil" /\ shutdownErr' \in {"nil", "listener"}
    BY <1>9 DEF PollIdle, AfterStop, IInv, StopFacts
  <2>2. /\ {c \in Conns : conns'[c] \in Tracked \/ c = handoff'}
             = {c \in Conns : conns[c] \in Tracked \/ c = handoff} \ leaving
        /\ {c \in Conns : conns'[c] = "active"} = {c \in Conns : conns[c] = "active"}
        /\ leaving \subseteq {c \in Conns : conns[c] \in Tracked \/ c = handoff}
                               \ {c \in Conns : conns[c] = "active"}
    BY <1>9, <2>0 DEF PollIdle
  <2>3. CASE shutdownErr' = "listener"
    <3>1. Contract!Fail(leaving)
      BY <1>9, <2>1, <2>2, <2>3 DEF PollIdle, Contract!Fail
    <3> QED BY <3>1 DEF Contract!Next
  <2>4. CASE shutdownErr' = "nil"
    <3>1. Contract!Depart(leaving)
      BY <1>9, <2>1, <2>2, <2>4 DEF PollIdle, Contract!Depart
    <3> QED BY <3>1 DEF Contract!Next
  <2> QED BY <2>1, <2>3, <2>4
<1>10. CASE PollTimer
  BY <1>10 DEF PollTimer, Contract!vars
<1>11. CASE DrainDeadline
  <2>1. Contract!Fail({})
    BY <1>11 DEF DrainDeadline, Contract!Fail
  <2> QED BY <2>1 DEF Contract!Next
<1>12. CASE ForceClose
  <2>1. listener = "closed" /\ goroutine # "none" /\ shutdownErr # "nil"
    BY <1>12 DEF ForceClose, RInv, NeverServed, IInv, TypeOK, ServerTypes, StopFacts
  <2>2. Contract!CutOff
    BY <1>12, <2>1 DEF ForceClose, AfterStop, Contract!CutOff
  <2> QED BY <2>2 DEF Contract!Next
<1>13. CASE JoinServe
  BY <1>13 DEF JoinServe, Contract!vars
<1>14. CASE ReturnFromServe
  <2>1. listener = "closed" /\ goroutine # "none" /\ serveErr = serveValue
    BY <1>14 DEF ReturnFromServe, IInv, ReceiveFacts, Received, GoroutineFacts
  <2>2. \A c \in Conns : Closed(c)
    BY <1>14 DEF ReturnFromServe, RInv, NothingLeft
  <2>3. Contract!Conclude
    BY <1>14, <2>1, <2>2
    DEF ReturnFromServe, Return, normalizeServeError, StopErrors, Closed, Contract!Conclude
  <2> QED BY <2>3 DEF Contract!Next
<1>15. CASE Tick
  BY <1>15 DEF Tick, Contract!vars
<1>16. CASE Cancel
  BY <1>16 DEF Cancel, Contract!vars
<1>17. CASE TrackListener
  BY <1>17 DEF TrackListener, IInv, GoroutineFacts, Contract!vars
<1>18. ASSUME NEW c \in Conns, Accept(c) PROVE Contract!Next
  <2>1. Contract!Admit(c)
    BY <1>18 DEF Accept, Contract!Admit
  <2> QED BY <2>1 DEF Contract!Next
<1>19. CASE TrackConn
  BY <1>19 DEF TrackConn, Contract!vars
<1>20. CASE AcceptError
  <2>1. Contract!Fail({}) \/ Stutter
    BY <1>20 DEF AcceptError, IInv, GoroutineFacts, Contract!Fail, Contract!vars
  <2> QED BY <2>1 DEF Contract!Next
<1>21. CASE LeaveServe
  <2>1. Contract!CloseDoor \/ Stutter
    BY <1>21 DEF LeaveServe, Contract!CloseDoor, Contract!vars
  <2> QED BY <2>1 DEF Contract!Next
<1>22. CASE SendResult
  BY <1>22 DEF SendResult, Contract!vars
<1>23. ASSUME NEW c \in Conns, RequestArrives(c) PROVE Contract!Next
  <2>1. pc # "done" /\ goroutine # "none"
    BY <1>23 DEF RequestArrives, RInv, NothingLeft, Closed
  <2>2. Contract!Begin(c)
    BY <1>23, <2>1 DEF RequestArrives, Contract!Begin
  <2> QED BY <2>2 DEF Contract!Next
<1>24. ASSUME NEW c \in Conns, HandlerFinishes(c) PROVE [Contract!Next]_(Contract!vars)
  <2>1. conns[c] \in {"active", "closed"}
    BY <1>24 DEF HandlerFinishes, RInv, HandlersHeld
  <2>2. Contract!Finish(c) \/ Stutter
    BY <1>24, <2>1 DEF HandlerFinishes, Contract!Finish, Contract!vars
  <2> QED BY <2>2 DEF Contract!Next
<1>25. ASSUME NEW c \in Conns, ConnLeaves(c) PROVE Contract!Next
  <2>1. Contract!Depart({c})
    BY <1>25 DEF ConnLeaves, Contract!Depart
  <2> QED BY <2>1 DEF Contract!Next
<1>26. ASSUME NEW c \in Conns, ConnAges(c) PROVE Stutter
  BY <1>26 DEF ConnAges, Contract!vars
<1>27. CASE UNCHANGED vars
  BY <1>27 DEF vars, Contract!vars
<1> QED
  BY <1>1, <1>2, <1>3, <1>4, <1>5, <1>6, <1>7, <1>8, <1>9, <1>10, <1>11, <1>12,
     <1>13, <1>14, <1>15, <1>16, <1>17, <1>18, <1>19, <1>20, <1>21, <1>22, <1>23,
     <1>24, <1>25, <1>26, <1>27
  DEF Next, Owner, Goroutine, Clients, Stopped

(* service.go:53-106.  The process keeps the contract of its caller, for any *)
(* number of connections, any configuration and any grace window.           *)
THEOREM ImplementsContractHolds == Spec => ImplementsContract
<1>1. Init => RInv
  BY InitRefinable
<1>2. IInv /\ RInv /\ [Next]_vars => RInv'
  BY StepRefinable
<1>3. Init => Contract!Init
  BY InitImplements
<1>4. IInv /\ RInv /\ [Next]_vars => [Contract!Next]_(Contract!vars)
  BY StepImplements
<1> QED BY <1>1, <1>2, <1>3, <1>4, Invariance, PTL DEF Spec, ImplementsContract, Contract!Spec
=============================================================================
