---------------------------- MODULE Proxy_proofs ----------------------------
(* The order in which Proxy.Run starts and stops things, for any number of   *)
(* clients and sessions.                                                     *)
EXTENDS Proxy, TLAPS

LEMMA InitInv == Init => IInv
<1> SUFFICES ASSUME Init PROVE IInv
  OBVIOUS
<1> USE ProxyAssumption DEF Init, T!Init, L!Init
<1>1. L!TypeOK
  BY DEF L!TypeOK
<1>2. TypeOK
  BY <1>1 DEF TypeOK
<1>3. TunnelFollowsRun
  BY DEF TunnelFollowsRun, Waited
<1>4. ListenerFollowsRun
  BY DEF ListenerFollowsRun, Waited
<1>5. L!Owned /\ L!AcceptLoops
  BY DEF L!Owned, L!AcceptLoops
<1> QED BY <1>1, <1>2, <1>3, <1>4, <1>5 DEF IInv

\* Steps of Run that leave the tunnel and the listener alone.
LEMMA WaitStep ==
  ASSUME IInv, Begin \/ Waiting \/ GiveUp \/ Return
  PROVE  IInv'
<1> USE ProxyAssumption DEF tunnelVars, listenerVars, ownVars
<1>0. UNCHANGED <<checked, phase, net, flow, ctx, started, current, startErr, socket,
                  canceled, serve, stop, stopping, returned, conn>>
  BY DEF Begin, Waiting, Poll, PollAgain, GiveUp, Return
<1>1. (L!TypeOK /\ L!Owned /\ L!AcceptLoops)'
  BY <1>0 DEF IInv, TypeOK, L!TypeOK, L!Owned, L!AcceptLoops
<1>2. (TypeOK /\ TunnelFollowsRun)'
  BY <1>0, <1>1 DEF IInv, TypeOK, TunnelFollowsRun, Waited, HasStarted, TunnelDone,
     Begin, Waiting, Poll, PollAgain, GiveUp, Return
<1>3. ListenerFollowsRun'
  BY <1>0, <1>1 DEF IInv, TypeOK, ListenerFollowsRun, TunnelFollowsRun, Waited,
     HasStarted, Begin, Waiting, Poll, PollAgain, GiveUp, Return
<1> QED BY <1>1, <1>2, <1>3 DEF IInv

\* l.Start, and the two halves of l.Stop.
LEMMA ServeStep ==
  ASSUME IInv, StartListener \/ BeginStop \/ Stop
  PROVE  IInv'
<1> USE ProxyAssumption DEF tunnelVars, listenerVars, L!listenerVars, L!stopVars
<1>1. UNCHANGED <<checked, phase, net, flow, goroutine, held>>
  BY DEF StartListener, BeginStop, Stop
<1>2. CASE StartListener
  <2>1. run = "start" /\ run' = "serve"
    BY <1>2 DEF StartListener
  <2>2. CASE L!StartBinds("Run")
    <3>1. /\ socket' = [socket EXCEPT ![Socket] = "open"]
          /\ serve' = [serve EXCEPT ![Socket] = "accept"]
          /\ returned' = [returned EXCEPT !["Run"] = "nil"]
          /\ current' = Socket /\ started' /\ ~started /\ startErr' = FALSE
          /\ UNCHANGED <<ctx, canceled, stop, stopping, conn>>
          /\ socket[Socket] = "unused" /\ stop["Run"] = "out"
      BY <2>2 DEF L!StartBinds
    <3>2. L!TypeOK'
      BY <3>1 DEF IInv, TypeOK, L!TypeOK
    <3>3. (L!Owned /\ L!AcceptLoops)'
      BY <3>1, <3>2 DEF IInv, TypeOK, L!TypeOK, L!Owned, L!AcceptLoops
    <3>4. (TypeOK /\ TunnelFollowsRun)'
      BY <1>1, <2>1, <3>2 DEF IInv, TypeOK, TunnelFollowsRun, Waited
    <3>5. phase # "idle"
      BY <2>1 DEF IInv, TunnelFollowsRun, Waited
    <3>6. ListenerFollowsRun'
      BY <1>1, <2>1, <3>1, <3>5 DEF IInv, TypeOK, L!TypeOK, ListenerFollowsRun,
         Waited
    <3> QED BY <3>2, <3>3, <3>4, <3>6 DEF IInv
  <2>3. CASE L!StartFails("Run")
    BY <1>1, <2>1, <2>3 DEF L!StartFails, IInv, TypeOK, TunnelFollowsRun,
       ListenerFollowsRun, Waited, L!TypeOK, L!Owned, L!AcceptLoops
  <2> QED BY <1>2, <2>2, <2>3 DEF StartListener
<1>3. CASE BeginStop
  <2>1. run = "serve"
    BY <1>3 DEF BeginStop
  <2>2. CASE L!StopDetach("Run") /\ run' = "stop"
    BY <1>1, <2>1, <2>2 DEF L!StopDetach, IInv, TypeOK, TunnelFollowsRun,
       ListenerFollowsRun, Waited, L!TypeOK, L!Owned, L!AcceptLoops
  <2>3. CASE ~started /\ run' = "drain" /\ UNCHANGED listenerVars
    BY <1>1, <2>1, <2>3 DEF IInv, TypeOK, TunnelFollowsRun,
       ListenerFollowsRun, Waited, L!TypeOK, L!Owned, L!AcceptLoops
  <2> QED BY <1>3, <2>2, <2>3 DEF BeginStop
<1>4. CASE Stop
  <2>1. run = "stop"
    BY <1>4 DEF Stop
  <2>2. CASE L!StopCancel("Run") /\ UNCHANGED run
    BY <1>1, <2>1, <2>2 DEF L!StopCancel, IInv, TypeOK, TunnelFollowsRun,
       ListenerFollowsRun, Waited, L!TypeOK, L!Owned, L!AcceptLoops
  <2>3. CASE L!StopReturns("Run") /\ run' = "drain"
    <3>1. stopping["Run"] = Socket
      BY <2>3 DEF L!StopReturns, IInv, TypeOK, L!TypeOK, L!Owned
    <3> QED BY <1>1, <2>1, <2>3, <3>1 DEF L!StopReturns, L!Drained, IInv, TypeOK,
         TunnelFollowsRun, ListenerFollowsRun, Waited, L!TypeOK, L!Owned,
         L!AcceptLoops
  <2> QED BY <1>4, <2>2, <2>3 DEF Stop
<1> QED BY <1>2, <1>3, <1>4

\* The tunnel, as it is promised.
LEMMA TunnelStep ==
  ASSUME IInv, TunnelMoves \/ Retiring
  PROVE  IInv'
<1> USE ProxyAssumption DEF ownVars, tunnelVars, listenerVars
<1>0. UNCHANGED <<run, held, ctx, started, current, startErr, socket, canceled,
                  serve, stop, stopping, returned, conn>>
  BY DEF TunnelMoves, Retiring, TunnelGoesOn, TunnelRetires, TunnelReturns
<1>1. (L!TypeOK /\ L!Owned /\ L!AcceptLoops)'
  BY <1>0 DEF IInv, TypeOK, L!TypeOK, L!Owned, L!AcceptLoops
<1>2. goroutine = "running"
  BY DEF TunnelMoves, Retiring, TunnelGoesOn, TunnelRetires, TunnelReturns
<1>3. (TypeOK /\ TunnelFollowsRun)' /\ (phase' = "idle" => phase = "idle")
  <2>1. CASE TunnelMoves
    <3> USE DEF T!Running
    <3>1. goroutine' = goroutine
      BY <2>1 DEF TunnelMoves
    <3>2. CASE T!Check
      BY <1>0, <1>1, <1>2, <3>1, <3>2 DEF T!Check, IInv, TypeOK, TunnelFollowsRun, Waited
    <3>3. CASE T!Establish
      BY <1>0, <1>1, <1>2, <3>1, <3>3 DEF T!Establish, IInv, TypeOK, TunnelFollowsRun,
         Waited
    <3>4. CASE T!Demote
      BY <1>0, <1>1, <1>2, <3>1, <3>4 DEF T!Demote, IInv, TypeOK, TunnelFollowsRun, Waited
    <3>5. CASE T!Promote
      BY <1>0, <1>1, <1>2, <3>1, <3>5 DEF T!Promote, IInv, TypeOK, TunnelFollowsRun, Waited
    <3> QED BY <2>1, <3>2, <3>3, <3>4, <3>5 DEF TunnelMoves
  <2>2. CASE TunnelRetires
    BY <1>0, <1>1, <1>2, <2>2 DEF TunnelRetires, T!Retire, T!Running, IInv, TypeOK,
       TunnelFollowsRun, Waited
  <2>3. CASE TunnelReturns
    BY <1>0, <1>1, <1>2, <2>3 DEF TunnelReturns, T!Return, IInv, TypeOK,
       TunnelFollowsRun, Waited
  <2>4. CASE TunnelGoesOn
    <3> USE DEF T!Running
    <3>1. goroutine' = goroutine
      BY <2>4 DEF TunnelGoesOn
    <3>2. CASE T!Connect
      BY <1>0, <1>1, <1>2, <3>1, <3>2 DEF T!Connect, IInv, TypeOK, TunnelFollowsRun,
         Waited
    <3>3. CASE T!Fail
      BY <1>0, <1>1, <1>2, <3>1, <3>3 DEF T!Fail, IInv, TypeOK, TunnelFollowsRun, Waited
    <3> QED BY <2>4, <3>2, <3>3 DEF TunnelGoesOn
  <2> QED BY <2>1, <2>2, <2>3, <2>4 DEF Retiring
<1>4. ListenerFollowsRun'
  BY <1>0, <1>3 DEF IInv, ListenerFollowsRun, Waited
<1> QED BY <1>1, <1>3, <1>4 DEF IInv

\* The listener's goroutines, its connections, and the cancellation.
LEMMA ListenerStep ==
  ASSUME IInv,
         \/ ListenerMoves \/ Cancel
         \/ \E k \in Clients : Accept(k) \/ Dial(k) \/ ConnEnds(k)
  PROVE  IInv'
<1> USE ProxyAssumption
    DEF ownVars, tunnelVars, listenerVars, L!listenerVars, L!stopVars
<1>1. CASE ListenerMoves
  <2>0. UNCHANGED <<run, goroutine, held, checked, phase, net, flow>>
    BY <1>1 DEF ListenerMoves
  <2>1. CASE L!WatchCloses(Socket)
    BY <2>0, <2>1 DEF L!WatchCloses, IInv, TypeOK, TunnelFollowsRun,
       ListenerFollowsRun, Waited, L!TypeOK, L!Owned, L!AcceptLoops
  <2>2. CASE L!AcceptFails(Socket)
    BY <2>0, <2>2 DEF L!AcceptFails, IInv, TypeOK, TunnelFollowsRun,
       ListenerFollowsRun, Waited, L!TypeOK, L!Owned, L!AcceptLoops
  <2>3. CASE L!ServeReturns(Socket)
    BY <2>0, <2>3 DEF L!ServeReturns, L!AfterServe, IInv, TypeOK,
       TunnelFollowsRun, ListenerFollowsRun, Waited, L!TypeOK, L!Owned,
       L!AcceptLoops
  <2> QED BY <1>1, <2>1, <2>2, <2>3 DEF ListenerMoves, L!Background
<1>2. CASE Cancel
  BY <1>2 DEF Cancel, L!Cancel, IInv, TypeOK, TunnelFollowsRun,
     ListenerFollowsRun, Waited, L!TypeOK, L!Owned, L!AcceptLoops
<1>3. ASSUME NEW k \in Clients, Accept(k)
      PROVE  IInv'
  BY <1>3 DEF Accept, L!Accept, IInv, TypeOK, TunnelFollowsRun,
     ListenerFollowsRun, Waited, L!TypeOK, L!Owned, L!AcceptLoops
<1>4. ASSUME NEW k \in Clients, Dial(k)
      PROVE  IInv'
  BY <1>4 DEF Dial, T!Refuse, T!Carry, T!Done, IInv, TypeOK, TunnelFollowsRun,
     ListenerFollowsRun, Waited, L!TypeOK, L!Owned, L!AcceptLoops
<1>5. ASSUME NEW k \in Clients, ConnEnds(k)
      PROVE  IInv'
  BY <1>5 DEF ConnEnds, L!ConnEnds, IInv, TypeOK, TunnelFollowsRun,
     ListenerFollowsRun, Waited, L!TypeOK, L!Owned, L!AcceptLoops
<1> QED BY <1>1, <1>2, <1>3, <1>4, <1>5

\* Where Run is determines what runs and what is bound (proxy.go:121-164).
THEOREM Invariance == Spec => []IInv
<1>1. IInv /\ [Next]_vars => IInv'
  <2> SUFFICES ASSUME IInv, [Next]_vars PROVE IInv'
    OBVIOUS
  <2>1. CASE UNCHANGED vars
    BY <2>1 DEF vars, ownVars, tunnelVars, listenerVars, IInv, TypeOK,
       TunnelFollowsRun, ListenerFollowsRun, Waited, L!TypeOK, L!Owned,
       L!AcceptLoops
  <2> QED BY <2>1, WaitStep, ServeStep, TunnelStep, ListenerStep DEF Next, Serving
<1> QED BY <1>1, InitInv, PTL DEF Spec

\* When Run has returned, the tunnel's goroutine has ended, no session is left
\* and the address is free (proxy.go:147-158).
THEOREM RunLeavesNothing == Spec => []ReturnedMeansDown
<1>1. IInv => ReturnedMeansDown
  BY DEF IInv, TypeOK, TunnelFollowsRun, ListenerFollowsRun, ReturnedMeansDown
<1> QED BY <1>1, Invariance, PTL

\* The listener is bound, and clients are accepted, only after the tunnel has
\* begun its bring-up (proxy.go:141-147).
THEOREM BoundAfterStart == Spec => []ListenerAfterTunnel
<1>1. IInv => ListenerAfterTunnel
  BY DEF IInv, ListenerFollowsRun, ListenerAfterTunnel
<1> QED BY <1>1, Invariance, PTL

\* Run uses the listener as SocksListener lets any controller use it: all that
\* is shown of a SocksListener holds of the one inside a Proxy.
THEOREM ListenerIsUsedAsBuilt == Spec => L!Spec
<1> USE DEF listenerVars, L!vars, L!listenerVars, L!stopVars
<1>1. Init => L!Init
  BY DEF Init
<1>2. [Next]_vars => [L!Next]_(L!vars)
  <2> SUFFICES ASSUME [Next]_vars PROVE [L!Next]_(L!vars)
    OBVIOUS
  <2>1. CASE Begin \/ Waiting \/ GiveUp \/ Return \/ TunnelMoves \/ Retiring
    BY <2>1 DEF Begin, Waiting, Poll, PollAgain, GiveUp, Return, TunnelMoves,
       Retiring, TunnelGoesOn, TunnelRetires, TunnelReturns
  <2>2. CASE StartListener \/ BeginStop \/ Stop
    BY <2>2 DEF StartListener, BeginStop, Stop, L!Next, L!Starting, L!Stopping
  <2>3. CASE ListenerMoves \/ Cancel
    BY <2>3 DEF ListenerMoves, Cancel, L!Next
  <2>4. ASSUME NEW k \in Clients, Accept(k) \/ Dial(k) \/ ConnEnds(k)
        PROVE  [L!Next]_(L!vars)
    BY <2>4 DEF Accept, Dial, ConnEnds, L!Next
  <2>5. CASE UNCHANGED vars
    BY <2>5 DEF vars
  <2> QED BY <2>1, <2>2, <2>3, <2>4, <2>5 DEF Next, Serving
<1> QED BY <1>1, <1>2, PTL DEF Spec, L!Spec

(***************************************************************************)
(* What the theorems of SocksListener say of the listener of a Proxy.      *)
(***************************************************************************)
Listener ==
  INSTANCE SocksListener_proofs WITH Controllers <- {"Run"}, Sockets <- {Socket}

\* The listener the theorems are about is the one Proxy is composed of.
LEMMA SameListener == Spec => Listener!Spec
<1>1. L!Init => Listener!Init
  BY DEF L!Init, Listener!Init
<1>2. [L!Next]_(L!vars) => [Listener!Next]_(Listener!vars)
  <2> USE DEF L!vars, L!listenerVars, L!stopVars, Listener!vars,
      Listener!listenerVars, Listener!stopVars
  <2> SUFFICES ASSUME [L!Next]_(L!vars) PROVE [Listener!Next]_(Listener!vars)
    OBVIOUS
  <2>1. L!Cancel => Listener!Cancel
    BY DEF L!Cancel, Listener!Cancel
  <2>2. ASSUME NEW c \in {"Run"}, L!Starting(c) PROVE Listener!Starting(c)
    BY <2>2 DEF L!Starting, L!StartRunning, L!StartBinds, L!StartFails,
       Listener!Starting, Listener!StartRunning, Listener!StartBinds,
       Listener!StartFails
  <2>3. ASSUME NEW c \in {"Run"}, L!Stopping(c) PROVE Listener!Stopping(c)
    BY <2>3 DEF L!Stopping, L!StopDetach, L!StopCancel, L!StopReturns, L!Drained,
       Listener!Stopping, Listener!StopDetach, Listener!StopCancel,
       Listener!StopReturns, Listener!Drained
  <2>4. ASSUME NEW s \in {Socket}, L!Background(s) PROVE Listener!Background(s)
    BY <2>4 DEF L!Background, L!WatchCloses, L!AcceptFails, L!ServeReturns,
       L!ContextDone, L!AfterServe, Listener!Background, Listener!WatchCloses,
       Listener!AcceptFails, Listener!ServeReturns, Listener!ContextDone,
       Listener!AfterServe
  <2>5. ASSUME NEW s \in {Socket}, NEW k \in Clients, L!Accept(s, k)
        PROVE  Listener!Accept(s, k)
    BY <2>5 DEF L!Accept, Listener!Accept
  <2>6. ASSUME NEW k \in Clients, L!ConnEnds(k) PROVE Listener!ConnEnds(k)
    BY <2>6 DEF L!ConnEnds, Listener!ConnEnds
  <2> QED BY <2>1, <2>2, <2>3, <2>4, <2>5, <2>6 DEF L!Next, Listener!Next
<1> QED BY <1>1, <1>2, ListenerIsUsedAsBuilt, PTL DEF L!Spec, Listener!Spec

\* Inside a Proxy the listener keeps the promise of ListenerPromise.
THEOREM ListenerKeepsPromise == Spec => Listener!PromiseKept
<1>1. Listener!Spec => Listener!PromiseKept
  BY ProxyAssumption, Listener!KeepsPromise
<1> QED BY <1>1, SameListener, PTL

\* The Stop that Run waits in is never stuck (proxy.go:157).
THEOREM StopIsNeverStuck == Spec => []L!StopNeverStuck
<1>1. Listener!Spec => []Listener!StopNeverStuck
  BY ProxyAssumption, Listener!StopsProceed
<1>2. Listener!StopNeverStuck => L!StopNeverStuck
  BY DEF Listener!StopNeverStuck, Listener!ContextDone, Listener!Drained,
     L!StopNeverStuck, L!ContextDone, L!Drained
<1> QED BY <1>1, <1>2, SameListener, PTL

(***************************************************************************)
(* The order of Run, and the cancellation that comes first.                *)
(***************************************************************************)

\* A tunnel that is idle, and has decided on nothing, when its context is canceled
\* stays idle.
LEMMA IdleForGood ==
  ASSUME IInv, ctx = "canceled", phase = "idle", ~checked, [Next]_vars
  PROVE  ctx' = "canceled" /\ phase' = "idle" /\ ~checked'
<1> USE DEF ownVars, tunnelVars, listenerVars, L!listenerVars, L!stopVars
<1>0. net = NoSession
  BY DEF IInv, TunnelFollowsRun
<1>1. CASE Begin \/ Waiting \/ GiveUp \/ Return
  BY <1>1 DEF Begin, Waiting, Poll, PollAgain, GiveUp, Return
<1>2. CASE StartListener \/ BeginStop \/ Stop
  BY <1>2 DEF StartListener, BeginStop, Stop, L!StartBinds, L!StartFails,
     L!StopDetach, L!StopCancel, L!StopReturns
<1>3. CASE TunnelMoves \/ Retiring
  BY <1>3 DEF TunnelMoves, Retiring, TunnelGoesOn, TunnelRetires, TunnelReturns,
     T!Check, T!Connect, T!Fail, T!Establish, T!Demote, T!Promote, T!Retire,
     T!Return, T!Running
<1>4. CASE ListenerMoves \/ Cancel
  BY <1>4 DEF ListenerMoves, Cancel, L!Background, L!WatchCloses, L!AcceptFails,
     L!ServeReturns, L!Cancel
<1>5. ASSUME NEW k \in Clients, Accept(k) \/ Dial(k) \/ ConnEnds(k)
      PROVE  ctx' = "canceled" /\ phase' = "idle" /\ ~checked'
  BY <1>5 DEF Accept, Dial, ConnEnds, L!Accept, L!ConnEnds, T!Refuse, T!Carry, T!Done
<1>6. CASE UNCHANGED vars
  BY <1>6 DEF vars
<1> QED BY <1>1, <1>2, <1>3, <1>4, <1>5, <1>6 DEF Next, Serving

\* A Run that was canceled before its tunnel had decided on an attempt binds
\* nothing, then or later (proxy.go:147-151, tunnel.go:155).
THEOREM CanceledRunNeverBinds == Spec => CanceledIdleNeverBinds
<1> DEFINE Idle  == ctx = "canceled" /\ phase = "idle" /\ ~checked
           Clear == socket[Socket] = "unused" /\ \A k \in Clients : conn[k] = NoSocket
<1>1. IInv /\ Idle /\ [Next]_vars => Idle'
  BY IdleForGood
<1>2. IInv /\ Idle => Clear
  <2> SUFFICES ASSUME IInv, phase = "idle" PROVE Clear
    OBVIOUS
  <2>1. socket[Socket] = "unused"
    BY DEF IInv, ListenerFollowsRun
  <2>2. \A k \in Clients : conn[k] = NoSocket
    BY <2>1 DEF IInv, ListenerFollowsRun
  <2> QED BY <2>1, <2>2
<1> HIDE DEF Idle, Clear
<1>3. [](Idle => []Clear) <=> CanceledIdleNeverBinds
  BY DEF Idle, Clear, CanceledIdleNeverBinds
<1> QED BY <1>1, <1>2, <1>3, Invariance, PTL DEF Spec

\* Run goes forward, and the steps of the others leave it where it is
\* (proxy.go:121-164).
THEOREM RunGoesOneWay == Spec => RunGoesForward
<1> USE DEF ownVars, tunnelVars, listenerVars, L!listenerVars, L!stopVars
<1>1. ASSUME IInv, Begin \/ GiveUp \/ StartListener \/ Return
      PROVE  RunLeft' < RunLeft
  BY <1>1 DEF Begin, GiveUp, StartListener, Return, RunLeft
<1>2. ASSUME IInv, BeginStop
      PROVE  RunLeft' < RunLeft
  BY <1>2 DEF IInv, TypeOK, L!TypeOK, BeginStop, L!StopDetach, RunLeft
<1>3. ASSUME IInv, Stop
      PROVE  RunLeft' < RunLeft
  BY <1>3 DEF IInv, TypeOK, L!TypeOK, Stop, L!StopCancel, L!StopReturns, RunLeft
<1>4. ASSUME Waiting PROVE RunLeft' <= RunLeft
  BY <1>4 DEF Waiting, Poll, PollAgain, RunLeft
<1>5. ASSUME run' = run, stop' = stop PROVE RunLeft' = RunLeft
  BY <1>5 DEF RunLeft
<1>6. ASSUME TunnelMoves \/ Retiring \/ ListenerMoves \/ Cancel
      PROVE  run' = run /\ stop' = stop
  BY <1>6 DEF TunnelMoves, Retiring, TunnelGoesOn, TunnelRetires, TunnelReturns, ListenerMoves,
     Cancel, L!Background, L!WatchCloses, L!AcceptFails, L!ServeReturns, L!Cancel
<1>7. ASSUME NEW k \in Clients, Accept(k) \/ Dial(k) \/ ConnEnds(k)
      PROVE  run' = run /\ stop' = stop
  BY <1>7 DEF Accept, Dial, ConnEnds, L!Accept, L!ConnEnds
<1>8. RunLeft \in Nat /\ RunLeft' \in Nat
  BY DEF RunLeft
<1>9. ASSUME IInv, [Next]_vars
      PROVE  /\ RunLeft' <= RunLeft
             /\ (Begin \/ GiveUp \/ Serving) => RunLeft' < RunLeft
  <2>1. (Begin \/ GiveUp \/ Serving) => RunLeft' < RunLeft
    BY <1>1, <1>2, <1>3, <1>9 DEF Serving
  <2>2. CASE Begin \/ GiveUp \/ Serving
    BY <1>8, <2>1, <2>2
  <2>3. CASE run' = run /\ stop' = stop
    BY <1>5, <1>8, <2>1, <2>3
  <2>4. CASE Waiting
    BY <1>4, <2>1, <2>4
  <2>5. CASE UNCHANGED vars
    BY <2>3, <2>5 DEF vars
  <2> QED BY <1>6, <1>7, <1>9, <2>2, <2>3, <2>4, <2>5 DEF Next
<1>10. IInv /\ [Next]_vars =>
         [/\ RunLeft' <= RunLeft
          /\ (Begin \/ GiveUp \/ Serving) => RunLeft' < RunLeft]_vars
  BY <1>9
<1> QED BY <1>10, Invariance, PTL DEF Spec, RunGoesForward

(***************************************************************************)
(* Liveness.  What ENABLED says of the fair steps is StepsAreEnabled; TLC  *)
(* agrees with it.                                                         *)
(***************************************************************************)

\* Where a step can bring Run, the tunnel's goroutine and the accept loop.
LEMMA Moves ==
  ASSUME IInv, [Next]_vars
  PROVE  /\ ctx = "canceled" => ctx' = "canceled"
         /\ \/ run' = run /\ stop' = stop
            \/ run = "new" /\ run' = "poll"
            \/ run = "poll" /\ run' = IF HasStarted THEN "start" ELSE "select"
            \/ run = "select" /\ run' \in {"poll", "abandon"}
            \/ run = "start" /\ run' = "serve"
            \/ run = "serve" /\ run' \in {"stop", "drain"}
            \/ run = "stop" /\ run' = "stop" /\ stop'["Run"] = "wait"
            \/ run = "stop" /\ run' = "drain"
            \/ run \in {"drain", "abandon"} /\ run' = "returned"
         /\ \/ goroutine' = goroutine
            \/ goroutine = "none"
            \/ goroutine = "running" /\ goroutine' = "done"
         /\ goroutine = "running" /\ phase = "retired" => phase' = "retired"
         /\ phase # "idle" => phase' # "idle"
         /\ ctx = "canceled" /\ ~checked => ~checked'
<1> USE DEF ownVars, tunnelVars, listenerVars, L!listenerVars, L!stopVars
<1>1. CASE Begin \/ Waiting \/ GiveUp \/ Return
  BY <1>1 DEF IInv, TunnelFollowsRun, Begin, Waiting, Poll, PollAgain, GiveUp, Return
<1>2. CASE StartListener \/ BeginStop
  BY <1>2 DEF StartListener, BeginStop, L!StartBinds, L!StartFails, L!StopDetach
<1>3. CASE Stop
  <2>1. UNCHANGED <<goroutine, checked, phase, ctx>>
    BY <1>3 DEF Stop, L!StopCancel, L!StopReturns
  <2>2. CASE L!StopCancel("Run") /\ UNCHANGED run
    BY <1>3, <2>1, <2>2 DEF Stop, L!StopCancel, IInv, TypeOK, L!TypeOK
  <2>3. CASE L!StopReturns("Run") /\ run' = "drain"
    BY <1>3, <2>1, <2>3 DEF Stop
  <2> QED BY <1>3, <2>2, <2>3 DEF Stop
<1>4. CASE TunnelMoves \/ Retiring
  BY <1>4 DEF TunnelMoves, Retiring, TunnelGoesOn, TunnelRetires, TunnelReturns,
     T!Check, T!Connect, T!Fail, T!Establish, T!Demote, T!Promote, T!Retire,
     T!Return, T!Running
<1>5. CASE ListenerMoves \/ Cancel
  BY <1>5 DEF ListenerMoves, Cancel, L!Background, L!WatchCloses, L!AcceptFails,
     L!ServeReturns, L!Cancel
<1>6. ASSUME NEW k \in Clients, Accept(k) \/ Dial(k) \/ ConnEnds(k)
      PROVE  UNCHANGED <<ctx, run, stop, goroutine, checked, phase>>
  BY <1>6 DEF Accept, Dial, ConnEnds, L!Accept, L!ConnEnds, T!Refuse, T!Carry, T!Done
<1>7. CASE UNCHANGED vars
  BY <1>7 DEF vars
<1> QED BY <1>1, <1>2, <1>3, <1>4, <1>5, <1>6, <1>7 DEF Next, Serving

\* The socket and its accept loop go one way only, while Run stops them.
LEMMA AcceptLoopMoves ==
  ASSUME IInv, [Next]_vars, socket[Socket] # "unused"
  PROVE  /\ socket'[Socket] \in {socket[Socket], "closed"}
         /\ serve[Socket] = "accept" => serve'[Socket] \in {"accept", "leaving"}
         /\ serve[Socket] = "leaving" => serve'[Socket] \in {"leaving", "done"}
         /\ serve[Socket] = "done" => serve'[Socket] = "done"
<1> USE DEF ownVars, tunnelVars, listenerVars, L!listenerVars, L!stopVars
<1>1. CASE Begin \/ Waiting \/ GiveUp \/ Return
  BY <1>1 DEF Begin, Waiting, Poll, PollAgain, GiveUp, Return
<1>2. CASE StartListener \/ BeginStop \/ Stop
  BY <1>2 DEF StartListener, BeginStop, Stop, L!StartBinds, L!StartFails,
     L!StopDetach, L!StopCancel, L!StopReturns
<1>3. CASE TunnelMoves \/ Retiring \/ Cancel
  BY <1>3 DEF TunnelMoves, Retiring, TunnelGoesOn, TunnelRetires, TunnelReturns, Cancel,
     L!Cancel
<1>4. CASE ListenerMoves
  BY <1>4 DEF IInv, TypeOK, L!TypeOK, ListenerMoves, L!Background, L!WatchCloses,
     L!AcceptFails, L!ServeReturns, L!AfterServe
<1>5. ASSUME NEW k \in Clients, Accept(k) \/ Dial(k) \/ ConnEnds(k)
      PROVE  UNCHANGED <<socket, serve>>
  BY <1>5 DEF Accept, Dial, ConnEnds, L!Accept, L!ConnEnds
<1>6. CASE UNCHANGED vars
  BY <1>6 DEF vars
<1> QED BY <1>1, <1>2, <1>3, <1>4, <1>5, <1>6 DEF Next, Serving

\* The socket that Run stops has been bound.
StoppedWasBound ==
  run = "stop" => /\ stop["Run"] \in {"cancel", "wait"}
                  /\ stopping["Run"] = Socket /\ socket[Socket] # "unused"

LEMMA StopIsOfBound == Spec => []StoppedWasBound
<1>1. Listener!Spec => []Listener!IInv
  BY ProxyAssumption, Listener!Invariance
<1>2. IInv /\ Listener!IInv => StoppedWasBound
  BY DEF IInv, TypeOK, L!TypeOK, ListenerFollowsRun, L!Owned, StoppedWasBound,
     Listener!IInv, Listener!StopsApart
<1> QED BY <1>1, <1>2, SameListener, Invariance, PTL

\* A Run that polls is started or gives up: the Done branch cannot be missed for
\* ever (proxy.go:170-186).
LEMMA PollEnds ==
  FairSpec /\ []StepsAreEnabled =>
    [](run \in {"poll", "select"} /\ ctx = "canceled"
         => <>(run \in {"start", "drain", "abandon"}))
<1> DEFINE Canceled == ctx = "canceled"
           Polls    == run = "poll"
           Selects  == run = "select"
           Beyond   == run \in {"start", "drain", "abandon"}
<1>1. IInv /\ [Next]_vars /\ Canceled => Canceled'
  BY Moves
<1>2. IInv /\ [Next]_vars /\ Polls => Polls' \/ Selects' \/ Beyond'
  BY Moves
<1>3. IInv /\ [Next]_vars /\ Selects => Polls' \/ Selects' \/ Beyond'
  BY Moves
<1>4. Polls /\ <<Waiting>>_vars => ~Polls'
  BY DEF Waiting, Poll, PollAgain
<1>5. Selects /\ <<GiveUp>>_vars => Beyond'
  BY DEF GiveUp
<1>6. <<GiveUp>>_vars => Selects
  BY DEF GiveUp
<1>7. StepsAreEnabled =>
        /\ Polls => ENABLED <<Waiting>>_vars
        /\ Selects /\ Canceled => ENABLED <<GiveUp>>_vars
  BY DEF StepsAreEnabled, CancelSeen
<1>8. run \in {"poll", "select"} /\ ctx = "canceled" <=> (Polls \/ Selects) /\ Canceled
  OBVIOUS
<1> HIDE DEF Canceled, Polls, Selects, Beyond
<1>9. FairSpec /\ []StepsAreEnabled =>
        []((Polls \/ Selects) /\ Canceled => <>Beyond)
  BY <1>1, <1>2, <1>3, <1>4, <1>5, <1>6, <1>7, Invariance, PTL DEF FairSpec, Spec
<1> QED BY <1>8, <1>9, PTL DEF Beyond

\* After a cancellation the tunnel shows what it had decided on, retires if it is
\* up, and its Run returns.
LEMMA TunnelEnds ==
  FairSpec /\ []StepsAreEnabled =>
    [](goroutine = "running" /\ ctx = "canceled" => <>(goroutine = "done"))
<1> DEFINE Canceled == ctx = "canceled"
           Due      == goroutine = "running" /\ checked
           Active   == goroutine = "running" /\ ~checked /\ phase # "retired"
           Retired  == goroutine = "running" /\ ~checked /\ phase = "retired"
           Ended    == goroutine = "done"
<1>1. IInv /\ [Next]_vars /\ Canceled => Canceled'
  BY Moves
<1>2. IInv /\ [Next]_vars /\ Canceled /\ Due => Due' \/ Active' \/ Retired' \/ Ended'
  BY Moves
<1>3. IInv /\ [Next]_vars /\ Canceled /\ Active => Active' \/ Retired' \/ Ended'
  BY Moves
<1>4. IInv /\ [Next]_vars /\ Canceled /\ Retired => Retired' \/ Ended'
  BY Moves
<1>5. IInv /\ Due /\ <<Retiring>>_vars => Active' \/ Retired' \/ Ended'
  BY DEF Retiring, TunnelGoesOn, TunnelRetires, TunnelReturns, T!Connect, T!Fail,
     T!Retire, T!Return, T!Running, IInv, TunnelFollowsRun, ownVars
<1>6. Active /\ <<Retiring>>_vars => Retired' \/ Ended'
  BY DEF Retiring, TunnelGoesOn, TunnelRetires, TunnelReturns, T!Connect, T!Fail,
     T!Retire, ownVars
<1>7. Retired /\ <<Retiring>>_vars => Ended'
  BY DEF Retiring, TunnelGoesOn, TunnelRetires, TunnelReturns, T!Connect, T!Fail,
     T!Retire
<1>8. StepsAreEnabled /\ Canceled /\ (Due \/ Active \/ Retired) => ENABLED <<Retiring>>_vars
  BY DEF StepsAreEnabled
<1>9. goroutine = "running" /\ ctx = "canceled" <=> (Due \/ Active \/ Retired) /\ Canceled
  OBVIOUS
<1> HIDE DEF Canceled, Due, Active, Retired, Ended
<1>10. FairSpec /\ []StepsAreEnabled =>
         []((Due \/ Active \/ Retired) /\ Canceled => <>Ended)
  BY <1>1, <1>2, <1>3, <1>4, <1>5, <1>6, <1>7, <1>8, Invariance, PTL DEF FairSpec, Spec
<1> QED BY <1>9, <1>10, PTL DEF Ended

\* What Run stops is closed and drained, and Stop returns.
LEMMA StopEnds ==
  FairSpec /\ []StepsAreEnabled =>
    [](run = "stop" /\ ctx = "canceled" => <>(run = "drain"))
<1> DEFINE Canceled == ctx = "canceled"
           Before  == run = "stop" /\ stop["Run"] = "cancel"
           Waits   == run = "stop" /\ stop["Run"] = "wait"
           Opened  == Waits /\ socket[Socket] = "open" /\ serve[Socket] = "accept"
           Closed  == Waits /\ socket[Socket] = "closed" /\ serve[Socket] = "accept"
           Leaving == Waits /\ serve[Socket] = "leaving"
           Done    == Waits /\ serve[Socket] = "done"
           Drain   == run = "drain"
           Here    == IInv /\ StoppedWasBound
<1>1. Here /\ [Next]_vars /\ Canceled => Canceled'
  BY Moves
<1>2. Here /\ run = "stop" => Before \/ Waits
  BY DEF StoppedWasBound
<1>3. Here /\ Waits => Opened \/ Closed \/ Leaving \/ Done
  BY DEF IInv, TypeOK, L!TypeOK, L!AcceptLoops, StoppedWasBound
<1>4. Here /\ [Next]_vars /\ Before => Before' \/ Waits' \/ Drain'
  BY Moves
<1>5. Here /\ [Next]_vars /\ Waits => Waits' \/ Drain'
  BY Moves
<1>6. Here /\ [Next]_vars /\ Opened => Opened' \/ Closed' \/ Leaving' \/ Drain'
  BY <1>5, AcceptLoopMoves
<1>7. Here /\ [Next]_vars /\ Closed => Closed' \/ Leaving' \/ Drain'
  BY <1>5, AcceptLoopMoves
<1>8. Here /\ [Next]_vars /\ Leaving => Leaving' \/ Done' \/ Drain'
  <2>1. Leaving /\ Here => socket[Socket] # "unused"
    BY DEF StoppedWasBound
  <2> QED BY <1>5, <2>1, AcceptLoopMoves
<1>9. Here /\ [Next]_vars /\ Done => Done' \/ Drain'
  <2>1. Done /\ Here => socket[Socket] # "unused"
    BY DEF StoppedWasBound
  <2> QED BY <1>5, <2>1, AcceptLoopMoves
<1>10. Here /\ Before /\ <<Serving>>_vars => ~Before'
  BY DEF IInv, TypeOK, L!TypeOK, Serving, StartListener, BeginStop, Stop, Return,
     L!StopCancel, L!StopReturns
<1>11. Here /\ Opened /\ <<WatchCloses>>_vars => ~Opened'
  BY DEF IInv, TypeOK, L!TypeOK, WatchCloses, L!WatchCloses
<1>12. Here /\ Closed /\ <<AcceptEnds>>_vars => ~Closed'
  BY DEF IInv, TypeOK, L!TypeOK, AcceptEnds, L!AcceptEnds, L!AcceptFails
<1>13. Here /\ Leaving /\ <<ServeReturns>>_vars => ~Leaving'
  BY DEF IInv, TypeOK, L!TypeOK, ServeReturns, L!ServeReturns
<1>14. Done /\ <<Serving>>_vars => Drain'
  BY DEF Serving, StartListener, BeginStop, Stop, Return, L!StopCancel, L!StopReturns
<1>15. Here /\ StepsAreEnabled /\ Canceled =>
         /\ Before  => ENABLED <<Serving>>_vars
         /\ Opened  => ENABLED <<WatchCloses>>_vars
         /\ Closed  => ENABLED <<AcceptEnds>>_vars
         /\ Leaving => ENABLED <<ServeReturns>>_vars
         /\ Done    => ENABLED <<Serving>>_vars
  BY DEF StepsAreEnabled, ServingMay, StoppedWasBound, L!Drained
<1>16. run = "stop" /\ ctx = "canceled" <=> run = "stop" /\ Canceled
  OBVIOUS
<1>17. Spec => []Here
  BY Invariance, StopIsOfBound, PTL
<1> HIDE DEF Canceled, Before, Waits, Opened, Closed, Leaving, Done, Drain, Here
<1>18. FairSpec /\ []StepsAreEnabled => [](run = "stop" /\ Canceled => <>Drain)
  BY <1>1, <1>2, <1>3, <1>4, <1>5, <1>6, <1>7, <1>8, <1>9, <1>10, <1>11, <1>12,
     <1>13, <1>14, <1>15, <1>17, PTL DEF FairSpec, Spec
<1> QED BY <1>16, <1>18, PTL DEF Drain

\* Run returns after a cancellation at any moment (proxy.go:147-158).
THEOREM RunComesBack == FairSpec /\ []StepsAreEnabled => RunReturns
<1> DEFINE Canceled == ctx = "canceled"
           Started  == run = "start"
           Serves   == run = "serve"
           Stops    == run = "stop"
           Waits    == run \in {"poll", "select"}
           Last     == run \in {"drain", "abandon"}
           Over     == run = "returned"
           Running  == goroutine = "running"
           Ended    == goroutine = "done"
<1>1. IInv /\ [Next]_vars /\ Canceled => Canceled'
  BY Moves
<1>2. IInv /\ run # "new" =>
        Waits \/ Started \/ Serves \/ Stops \/ Last \/ Over
  BY DEF IInv, TypeOK
<1>3. IInv /\ [Next]_vars /\ Started => Started' \/ Serves'
  BY Moves
<1>4. IInv /\ [Next]_vars /\ Serves => Serves' \/ Stops' \/ Last'
  BY Moves
<1>5. IInv /\ [Next]_vars /\ Last => Last' \/ Over'
  BY Moves
<1>6. IInv /\ [Next]_vars /\ Ended => Ended'
  BY Moves
<1>7. Started /\ <<Serving>>_vars => Serves'
  BY DEF Serving, StartListener, BeginStop, Stop, Return
<1>8. Serves /\ <<Serving>>_vars => Stops' \/ Last'
  BY DEF Serving, StartListener, BeginStop, Stop, Return
<1>9. Last /\ <<Serving>>_vars => Over'
  BY DEF Serving, StartListener, BeginStop, Stop, Return
<1>10. IInv /\ Last => Running \/ Ended
  BY DEF IInv, TypeOK, TunnelFollowsRun
<1>11. /\ IInv /\ Canceled /\ (Started \/ Serves \/ (Last /\ Ended)) => ServingMay
       /\ StepsAreEnabled => (ServingMay => ENABLED <<Serving>>_vars)
  <2>1. IInv /\ Canceled /\ (Started \/ Serves \/ (Last /\ Ended)) => ServingMay
    BY DEF IInv, ListenerFollowsRun, Waited, ServingMay, TunnelDone
  <2>2. StepsAreEnabled => (ServingMay => ENABLED <<Serving>>_vars)
    BY DEF StepsAreEnabled
  <2> QED BY <2>1, <2>2
<1>12. FairSpec /\ []StepsAreEnabled =>
         [](Waits /\ Canceled => <>(Started \/ Last))
  <2>1. run \in {"start", "drain", "abandon"} => Started \/ Last
    OBVIOUS
  <2> QED BY <2>1, PollEnds, PTL
<1>13. FairSpec /\ []StepsAreEnabled => [](Running /\ Canceled => <>Ended)
  BY TunnelEnds
<1>14. FairSpec /\ []StepsAreEnabled => [](Stops /\ Canceled => <>Last)
  <2>1. run = "drain" => Last
    OBVIOUS
  <2> QED BY <2>1, StopEnds, PTL
<1> HIDE DEF Canceled, Waits, Started, Serves, Stops, Last, Over, Running, Ended
<1>15. FairSpec /\ []StepsAreEnabled => [](Started /\ Canceled => <>Serves)
  BY <1>1, <1>3, <1>7, <1>11, Invariance, PTL DEF FairSpec, Spec
<1>16. FairSpec /\ []StepsAreEnabled => [](Serves /\ Canceled => <>(Stops \/ Last))
  BY <1>1, <1>4, <1>8, <1>11, Invariance, PTL DEF FairSpec, Spec
<1>17. FairSpec /\ []StepsAreEnabled => [](Last /\ Canceled => <>Over)
  BY <1>1, <1>5, <1>6, <1>9, <1>10, <1>11, <1>13, Invariance, PTL DEF FairSpec, Spec
<1>18. FairSpec /\ []StepsAreEnabled => [](run # "new" /\ Canceled => <>Over)
  BY <1>1, <1>2, <1>12, <1>14, <1>15, <1>16, <1>17, Invariance, PTL DEF FairSpec, Spec
<1> QED BY <1>18 DEF RunReturns, Canceled, Over

\* Before a cancellation Run is on its way up, and has tried to bind when it serves.
WhileLive ==
  ctx = "live" => /\ phase # "retired"
                  /\ run \in {"new", "poll", "select", "start", "serve"}
                  /\ run = "serve" => started \/ startErr

LEMMA LiveRun == Spec => []WhileLive
<1> USE DEF ownVars, tunnelVars, listenerVars, L!listenerVars, L!stopVars
<1>1. Init => WhileLive
  BY DEF Init, T!Init, L!Init, WhileLive
<1>2. ASSUME IInv, WhileLive, [Next]_vars PROVE WhileLive'
  <2>1. CASE Begin \/ Waiting \/ GiveUp \/ Return
    BY <1>2, <2>1 DEF WhileLive, Begin, Waiting, Poll, PollAgain, GiveUp, CancelSeen,
       Return
  <2>2. CASE StartListener
    BY <1>2, <2>2 DEF WhileLive, StartListener, L!StartBinds, L!StartFails
  <2>3. CASE BeginStop \/ Stop
    BY <1>2, <2>3 DEF WhileLive, BeginStop, Stop, L!StopDetach, L!StopCancel,
       L!StopReturns
  <2>4. CASE TunnelMoves \/ Retiring
    BY <1>2, <2>4 DEF WhileLive, TunnelMoves, Retiring, TunnelGoesOn, TunnelRetires,
       TunnelReturns, T!Check, T!Running, T!Connect, T!Fail, T!Establish, T!Demote, T!Promote, T!Retire, T!Return
  <2>5. CASE ListenerMoves \/ Cancel
    BY <1>2, <2>5 DEF WhileLive, ListenerMoves, Cancel, L!Background, L!WatchCloses,
       L!AcceptFails, L!ServeReturns, L!Cancel
  <2>6. ASSUME NEW k \in Clients, Accept(k) \/ Dial(k) \/ ConnEnds(k)
        PROVE  UNCHANGED <<ctx, run, phase, started, startErr>>
    BY <2>6 DEF Accept, Dial, ConnEnds, L!Accept, L!ConnEnds, T!Refuse, T!Carry,
       T!Done
  <2>7. CASE UNCHANGED vars
    BY <1>2, <2>7 DEF WhileLive, vars
  <2> QED BY <1>2, <2>1, <2>2, <2>3, <2>4, <2>5, <2>6, <2>7
      DEF Next, Serving, WhileLive
<1> QED BY <1>1, <1>2, Invariance, PTL DEF Spec

\* The poll cannot miss the start of the tunnel, and Run then tries to bind
\* (proxy.go:141-145).
THEOREM StartIsTaken == FairSpec /\ []StepsAreEnabled => StartIsNoticed
<1> DEFINE Left    == phase # "idle"
           Polls   == run = "poll"
           Selects == run = "select"
           Started == run = "start"
           Tried   == run \in {"serve", "abandon"}
           Goal    == started \/ startErr \/ ctx = "canceled"
           Here    == IInv /\ WhileLive
<1>1. Here /\ [Next]_vars /\ Left => Left'
  BY Moves
<1>2. Here /\ Left => Polls \/ Selects \/ Started \/ Goal
  BY DEF IInv, TypeOK, L!TypeOK, TunnelFollowsRun, WhileLive
<1>3. Here /\ [Next]_vars /\ Left /\ ~Goal /\ Polls => Polls' \/ Started'
  BY Moves DEF IInv, TypeOK, L!TypeOK, WhileLive, HasStarted
<1>4. Here /\ [Next]_vars /\ Selects => Polls' \/ Selects' \/ Tried'
  BY Moves
<1>5. Here /\ [Next]_vars /\ Started => Started' \/ Tried'
  BY Moves
<1>6. Here /\ Left /\ ~Goal /\ Polls /\ <<Waiting>>_vars => Started'
  BY DEF IInv, TypeOK, L!TypeOK, WhileLive, Waiting, Poll, PollAgain, HasStarted
<1>7. Selects /\ <<Waiting>>_vars => Polls'
  BY DEF Waiting, Poll, PollAgain
<1>8. Started /\ <<Serving>>_vars => Tried'
  BY DEF Serving, StartListener, BeginStop, Stop, Return
<1>9. Here /\ Tried => Goal
  BY DEF IInv, TypeOK, L!TypeOK, WhileLive
<1>10. Here /\ Started => ServingMay
  BY DEF IInv, ListenerFollowsRun, Waited, ServingMay
<1>11. StepsAreEnabled => /\ Polls \/ Selects => ENABLED <<Waiting>>_vars
                          /\ ServingMay => ENABLED <<Serving>>_vars
  BY DEF StepsAreEnabled
<1>12. Spec => []Here
  BY Invariance, LiveRun, PTL
<1> HIDE DEF Left, Polls, Selects, Started, Tried, Goal, Here
<1>13. FairSpec /\ []StepsAreEnabled => [](Started => <>Goal)
  BY <1>5, <1>8, <1>9, <1>10, <1>11, <1>12, PTL DEF FairSpec, Spec
<1>14. FairSpec /\ []StepsAreEnabled => [](Left => <>Goal)
  BY <1>1, <1>2, <1>3, <1>4, <1>6, <1>7, <1>9, <1>11, <1>12, <1>13, PTL
     DEF FairSpec, Spec
<1> QED BY <1>14, PTL DEF StartIsNoticed, Left, Goal

=============================================================================
