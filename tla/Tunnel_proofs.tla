--------------------------- MODULE Tunnel_proofs ---------------------------
(***************************************************************************)
(* Theorems about Tunnel, for every number of dialers and sessions, every  *)
(* handshake limit and every Retry-After.                                  *)
(***************************************************************************)
EXTENDS Tunnel, TLAPS

USE TunnelAssumption
    DEF attemptVars, retryVars, statusVars, deviceVars, loopVars, recordVars,
        RunPoints, States

(***************************************************************************)
(* Lemmas about the operators.                                             *)
(***************************************************************************)

\* Ages stay ages when a minute passes.
LEMMA AgeLemma ==
  /\ NoHandshake \in Ages /\ 0 \in Ages
  /\ \A age \in Ages : Older(age) \in Ages
BY DEF Ages, NoHandshake, MaxAge, Older, Lower

\* The saturating attempt counters stay in range, and never return to zero.
LEMMA CountLemma ==
  ASSUME NEW n \in 0 .. MaxCount
  PROVE  Count(n) \in 1 .. MaxCount
BY DEF Count, Lower

\* A minute keeps the order of two ages, and "no handshake" stays that.
LEMMA OlderMonotone ==
  ASSUME NEW a \in Ages, NEW b \in Ages, b # NoHandshake => a # NoHandshake /\ a <= b
  PROVE  Older(b) # NoHandshake => Older(a) # NoHandshake /\ Older(a) <= Older(b)
BY DEF Ages, NoHandshake, MaxAge, Older, Lower

DialType == [Dialers -> [at : {"ready", "loaded", "open", "down", "failed"},
                         net : Sessions \cup {NoSession}]]

(***************************************************************************)
(* Types.                                                                  *)
(***************************************************************************)

\* Every variable has its type when Run is called.
LEMMA InitType == Init => TypeOK
<1> SUFFICES ASSUME Init PROVE TypeOK
  OBVIOUS
<1>1. dial \in DialType
  BY DEF Init, Idle, DialType
<1>2. devAge \in Ages /\ lastHandshake \in Ages /\ sample \in Ages
  BY AgeLemma DEF Init
<1>3. backoff \in InitialBackoff .. MaxBackoff
  BY DEF Init, InitialBackoff, MaxBackoff
<1>4. connectAttempt \in 0 .. MaxCount /\ connectFails \in 0 .. MaxCount
  BY DEF Init
<1>5. /\ verdict \in BOOLEAN /\ limited \in BOOLEAN /\ openDevs \in SUBSET Sessions
      /\ retryAfter \in Nat /\ delay \in Nat
  BY DEF Init
<1>6. /\ ctx \in {"live", "canceled"} /\ run \in RunPoints /\ state \in States
      /\ err \in {"none", "limit", "other"} /\ regCtx \in {"live", "expired"}
      /\ lastError \in {"none", "handshake", "probe", "session"}
      /\ stats \in {"off", "wait", "update", "done"}
      /\ health \in {"off", "timer", "report", "done"}
      /\ probe \in {"none", "ok", "failed"}
      /\ dev \in Sessions \cup {NoSession} /\ netNet \in Sessions \cup {NoSession}
  BY DEF Init
<1> QED
  BY <1>1, <1>2, <1>3, <1>4, <1>5, <1>6 DEF TypeOK, DialType

\* Every step, of whichever goroutine, keeps the types.
LEMMA TypeStep == TypeOK /\ [Next]_vars => TypeOK'
<1> SUFFICES ASSUME TypeOK, [Next]_vars PROVE TypeOK'
  OBVIOUS
<1>1. CASE Cancel
  BY <1>1 DEF TypeOK, Cancel
<1>2. CASE Handshake
  BY AgeLemma, <1>2 DEF TypeOK, Handshake
<1>3. CASE Tick
  BY AgeLemma, <1>3 DEF TypeOK, Tick
<1>4. CASE Return
  BY <1>4 DEF TypeOK, Return
<1>5. CASE BeginAttempt
  BY CountLemma, <1>5 DEF TypeOK, BeginAttempt
<1>6. CASE FindRegion
  BY <1>6 DEF TypeOK, FindRegion, FirstChoice, GiveUp
<1>7. CASE AskPreferred
  BY <1>7 DEF TypeOK, AskPreferred, AfterPreferred
<1>8. CASE RandomAccepts
  BY <1>8 DEF TypeOK, RandomAccepts
<1>9. CASE RandomFails
  BY <1>9 DEF TypeOK, RandomFails, GiveUp
<1>10. CASE RandomLimited
  BY <1>10 DEF TypeOK, RandomLimited, GiveUp
<1>11. CASE BuildDevice
  BY <1>11 DEF TypeOK, BuildDevice, GiveUp, Unused
<1>12. CASE ConfigureFails
  BY <1>12 DEF TypeOK, ConfigureFails, GiveUp, WithoutDevice
<1>13. CASE Publish
  BY AgeLemma, <1>13 DEF TypeOK, Publish
<1>14. CASE Teardown
  BY <1>14 DEF TypeOK, Teardown, LoopsReturned, StateAfterCleanup
<1>15. CASE CloseDevice
  BY <1>15 DEF TypeOK, CloseDevice, WithoutDevice
<1>16. CASE EndAttempt
  <2>1. delay' \in Nat /\ backoff' \in InitialBackoff .. MaxBackoff
    BY <1>16 DEF TypeOK, EndAttempt, Cooldown, NextBackoff, Lower, Higher,
                 InitialBackoff, MaxBackoff, RateLimitFloor
  <2>2. connectFails' \in 0 .. MaxCount
    BY <1>16, CountLemma DEF TypeOK, EndAttempt
  <2>3. /\ run' = "sleep" /\ state' = "error" /\ lastError' = "session"
        /\ UNCHANGED <<ctx, attemptVars, connectAttempt, deviceVars, devAge,
                       netNet, recordVars, loopVars, dial>>
    BY <1>16 DEF EndAttempt
  <2> QED
    BY <2>1, <2>2, <2>3 DEF TypeOK
<1>17. CASE Wake
  <2>1. limited' \in BOOLEAN /\ retryAfter' \in Nat /\ delay' \in Nat
    BY <1>17 DEF Wake
  <2>2. /\ run' = "loop" /\ err' = "none" /\ regCtx' = "live"
        /\ UNCHANGED <<ctx, backoff, connectAttempt, connectFails, statusVars,
                       deviceVars, devAge, netNet, recordVars, loopVars, dial>>
    BY <1>17 DEF Wake
  <2> QED
    BY <2>1, <2>2 DEF TypeOK
<1>18. CASE StatsRead
  BY AgeLemma, <1>18 DEF TypeOK, StatsRead
<1>19. CASE StatsUpdate
  BY AgeLemma, <1>19 DEF TypeOK, StatsUpdate, Recorded
<1>20. CASE StatsExit
  BY <1>20 DEF TypeOK, StatsExit
<1>21. CASE Probe
  BY <1>21 DEF TypeOK, Probe, ProbeResults
<1>22. CASE HealthUpdate
  <2>1. state' \in States /\ lastError' \in {"none", "handshake", "probe", "session"}
    BY <1>22 DEF TypeOK, HealthUpdate, ProbeReason
  <2>2. probe' \in {"none", "ok", "failed"} /\ verdict' \in BOOLEAN
    BY <1>22 DEF HealthUpdate
  <2> QED
    BY <1>22, <2>1, <2>2 DEF TypeOK, HealthUpdate
<1>23. CASE HealthExit
  BY <1>23 DEF TypeOK, HealthExit
<1>24. ASSUME NEW d \in Dialers, LoadNetstack(d) PROVE TypeOK'
  <2>1. dial' \in DialType
    BY <1>24 DEF TypeOK, DialType, LoadNetstack, Loaded
  <2> QED
    BY <2>1, <1>24 DEF TypeOK, DialType, LoadNetstack
<1>25. ASSUME NEW d \in Dialers, DialContext(d) PROVE TypeOK'
  <2>1. dial' \in DialType
    BY <1>25 DEF TypeOK, DialType, DialContext
  <2> QED
    BY <2>1, <1>25 DEF TypeOK, DialType, DialContext
<1>26. ASSUME NEW d \in Dialers, HangUp(d) PROVE TypeOK'
  <2>1. dial' \in DialType
    BY <1>26 DEF TypeOK, DialType, HangUp, Idle
  <2> QED
    BY <2>1, <1>26 DEF TypeOK, DialType, HangUp
<1>27. CASE UNCHANGED vars
  BY <1>27 DEF TypeOK, vars
<1>28. CASE CheckContext \/ CheckOutcome
  BY <1>28 DEF TypeOK, CheckContext, CheckOutcome
<1> QED
  BY <1>1, <1>2, <1>3, <1>4, <1>5, <1>6, <1>7, <1>8, <1>9, <1>10, <1>11,
     <1>12, <1>13, <1>14, <1>15, <1>16, <1>17, <1>18, <1>19, <1>20, <1>21,
     <1>22, <1>23, <1>24, <1>25, <1>26, <1>27, <1>28
     DEF Next, Environment, Runner, StatsLoop, HealthLoop, Dialing

(***************************************************************************)
(* The inductive invariant.                                                *)
(***************************************************************************)

\* The invariant holds when Run is called.
LEMMA InitInv == Init => IInv
<1> SUFFICES ASSUME Init PROVE IInv
  OBVIOUS
<1>1. Lifecycle
  BY DEF Init, Lifecycle
<1>2. Timestamps
  BY DEF Init, Timestamps
<1>3. NoDeviceLeak /\ ReasonMatchesState /\ RetriesCoolDown
  BY DEF Init, NoDeviceLeak, ReasonMatchesState, RetriesCoolDown
<1> QED
  BY InitType, <1>1, <1>2, <1>3 DEF IInv

\* Every step, of whichever goroutine, keeps the invariant.
LEMMA InvStep == IInv /\ [Next]_vars => IInv'
<1> SUFFICES ASSUME IInv, [Next]_vars PROVE IInv'
  OBVIOUS
<1> USE DEF IInv
<1>0. TypeOK'
  BY TypeStep
<1>1. CASE Cancel
  <2>1. Lifecycle'
    BY <1>0, <1>1 DEF TypeOK, Lifecycle, Cancel
  <2> QED
    BY <1>0, <1>1, <2>1
       DEF Cancel, Timestamps, NoDeviceLeak, ReasonMatchesState,
           RetriesCoolDown
<1>2. CASE Handshake
  <2>1. Timestamps'
    BY <1>0, <1>2
       DEF TypeOK, Lifecycle, Timestamps, Ages, NoHandshake, MaxAge, Handshake
  <2> QED
    BY <1>0, <1>2, <2>1
       DEF Handshake, Lifecycle, NoDeviceLeak, ReasonMatchesState,
           RetriesCoolDown
<1>3. CASE Tick
  <2>1. Timestamps'
    BY OlderMonotone, <1>0, <1>3
       DEF TypeOK, Lifecycle, Timestamps, Older, Ages, NoHandshake, MaxAge,
           Lower, Tick
  <2> QED
    BY <1>0, <1>3, <2>1
       DEF Tick, Lifecycle, NoDeviceLeak, ReasonMatchesState, RetriesCoolDown
<1>4. CASE Return
  <2>1. Lifecycle'
    BY <1>0, <1>4 DEF TypeOK, Lifecycle, Return
  <2>2. NoDeviceLeak'
    BY <1>0, <1>4 DEF TypeOK, Lifecycle, NoDeviceLeak, Return
  <2>3. RetriesCoolDown'
    BY <1>0, <1>4 DEF TypeOK, Lifecycle, RetriesCoolDown, Return
  <2> QED
    BY <1>0, <1>4, <2>1, <2>2, <2>3 DEF Return, Timestamps, ReasonMatchesState
<1>5. CASE BeginAttempt
  <2>1. Lifecycle'
    BY CountLemma, <1>0, <1>5 DEF TypeOK, Lifecycle, BeginAttempt
  <2>2. NoDeviceLeak'
    BY <1>0, <1>5 DEF TypeOK, Lifecycle, NoDeviceLeak, BeginAttempt
  <2>3. ReasonMatchesState'
    BY <1>0, <1>5 DEF TypeOK, Lifecycle, ReasonMatchesState, BeginAttempt
  <2>4. RetriesCoolDown'
    BY <1>0, <1>5 DEF TypeOK, Lifecycle, RetriesCoolDown, BeginAttempt
  <2> QED
    BY <1>0, <1>5, <2>1, <2>2, <2>3, <2>4 DEF BeginAttempt, Timestamps
<1>6. CASE FindRegion
  <2>1. Lifecycle'
    BY <1>0, <1>6 DEF TypeOK, Lifecycle, FindRegion, FirstChoice, GiveUp
  <2>2. NoDeviceLeak'
    BY <1>0, <1>6 DEF TypeOK, Lifecycle, NoDeviceLeak, FindRegion,
       FirstChoice, GiveUp
  <2>3. RetriesCoolDown'
    BY <1>0, <1>6 DEF TypeOK, Lifecycle, RetriesCoolDown, FindRegion,
       FirstChoice, GiveUp
  <2> QED
    BY <1>0, <1>6, <2>1, <2>2, <2>3
       DEF FindRegion, Timestamps, ReasonMatchesState
<1>7. CASE AskPreferred
  <2>1. Lifecycle'
    BY <1>0, <1>7 DEF TypeOK, Lifecycle, AskPreferred, AfterPreferred
  <2>2. NoDeviceLeak'
    BY <1>0, <1>7
       DEF TypeOK, Lifecycle, NoDeviceLeak, AskPreferred, AfterPreferred
  <2>3. RetriesCoolDown'
    BY <1>0, <1>7
       DEF TypeOK, Lifecycle, RetriesCoolDown, AskPreferred, AfterPreferred
  <2> QED
    BY <1>0, <1>7, <2>1, <2>2, <2>3
       DEF AskPreferred, Timestamps, ReasonMatchesState
<1>8. CASE RandomAccepts
  <2>1. Lifecycle'
    BY <1>0, <1>8 DEF TypeOK, Lifecycle, RandomAccepts
  <2>2. NoDeviceLeak'
    BY <1>0, <1>8 DEF TypeOK, Lifecycle, NoDeviceLeak, RandomAccepts
  <2>3. RetriesCoolDown'
    BY <1>0, <1>8 DEF TypeOK, Lifecycle, RetriesCoolDown, RandomAccepts
  <2> QED
    BY <1>0, <1>8, <2>1, <2>2, <2>3
       DEF RandomAccepts, Timestamps, ReasonMatchesState
<1>9. CASE RandomFails
  <2>1. Lifecycle'
    BY <1>0, <1>9 DEF TypeOK, Lifecycle, RandomFails, GiveUp
  <2>2. NoDeviceLeak'
    BY <1>0, <1>9 DEF TypeOK, Lifecycle, NoDeviceLeak, RandomFails, GiveUp
  <2>3. RetriesCoolDown'
    BY <1>0, <1>9 DEF TypeOK, Lifecycle, RetriesCoolDown, RandomFails, GiveUp
  <2> QED
    BY <1>0, <1>9, <2>1, <2>2, <2>3
       DEF RandomFails, Timestamps, ReasonMatchesState
<1>10. CASE RandomLimited
  <2>1. Lifecycle'
    BY <1>0, <1>10 DEF TypeOK, Lifecycle, RandomLimited, GiveUp
  <2>2. NoDeviceLeak'
    BY <1>0, <1>10 DEF TypeOK, Lifecycle, NoDeviceLeak, RandomLimited, GiveUp
  <2>3. RetriesCoolDown'
    BY <1>0, <1>10
       DEF TypeOK, Lifecycle, RetriesCoolDown, RandomLimited, GiveUp
  <2> QED
    BY <1>0, <1>10, <2>1, <2>2, <2>3
       DEF RandomLimited, Timestamps, ReasonMatchesState
<1>11. CASE BuildDevice
  <2>1. Lifecycle'
    BY <1>0, <1>11 DEF TypeOK, Lifecycle, BuildDevice, GiveUp, Unused
  <2>2. NoDeviceLeak'
    BY <1>0, <1>11
       DEF TypeOK, Lifecycle, NoDeviceLeak, BuildDevice, GiveUp, Unused
  <2>3. RetriesCoolDown'
    BY <1>0, <1>11
       DEF TypeOK, Lifecycle, RetriesCoolDown, BuildDevice, GiveUp, Unused
  <2> QED
    BY <1>0, <1>11, <2>1, <2>2, <2>3
       DEF BuildDevice, Timestamps, ReasonMatchesState
<1>12. CASE ConfigureFails
  <2>1. Lifecycle'
    BY <1>0, <1>12 DEF TypeOK, Lifecycle, ConfigureFails, GiveUp, WithoutDevice
  <2>2. NoDeviceLeak'
    BY <1>0, <1>12
       DEF TypeOK, Lifecycle, NoDeviceLeak, ConfigureFails, GiveUp,
           WithoutDevice
  <2>3. RetriesCoolDown'
    BY <1>0, <1>12
       DEF TypeOK, Lifecycle, RetriesCoolDown, ConfigureFails, GiveUp,
           WithoutDevice
  <2> QED
    BY <1>0, <1>12, <2>1, <2>2, <2>3
       DEF ConfigureFails, Timestamps, ReasonMatchesState
<1>13. CASE Publish
  <2>1. Lifecycle'
    BY <1>0, <1>13 DEF TypeOK, Lifecycle, Publish
  <2>2. Timestamps'
    BY <1>0, <1>13 DEF TypeOK, Lifecycle, Timestamps, Publish
  <2>3. NoDeviceLeak'
    BY <1>0, <1>13 DEF TypeOK, Lifecycle, NoDeviceLeak, Publish
  <2>4. ReasonMatchesState'
    BY <1>0, <1>13 DEF TypeOK, Lifecycle, ReasonMatchesState, Publish
  <2>5. RetriesCoolDown'
    BY <1>0, <1>13 DEF TypeOK, Lifecycle, RetriesCoolDown, Publish
  <2> QED
    BY <1>0, <2>1, <2>2, <2>3, <2>4, <2>5
<1>14. CASE Teardown
  <2>1. Lifecycle'
    BY <1>0, <1>14
       DEF TypeOK, Lifecycle, Teardown, LoopsReturned, StateAfterCleanup
  <2>2. NoDeviceLeak'
    BY <1>0, <1>14
       DEF TypeOK, Lifecycle, NoDeviceLeak, Teardown, LoopsReturned,
           StateAfterCleanup
  <2>3. ReasonMatchesState'
    BY <1>0, <1>14
       DEF TypeOK, Lifecycle, ReasonMatchesState, Teardown, LoopsReturned,
           StateAfterCleanup
  <2>4. RetriesCoolDown'
    BY <1>0, <1>14
       DEF TypeOK, Lifecycle, RetriesCoolDown, Teardown, LoopsReturned,
           StateAfterCleanup
  <2> QED
    BY <1>0, <1>14, <2>1, <2>2, <2>3, <2>4 DEF Teardown, Timestamps
<1>15. CASE CloseDevice
  <2>1. Lifecycle'
    BY <1>0, <1>15 DEF TypeOK, Lifecycle, CloseDevice, WithoutDevice
  <2>2. NoDeviceLeak'
    BY <1>0, <1>15
       DEF TypeOK, Lifecycle, NoDeviceLeak, CloseDevice, WithoutDevice
  <2>3. RetriesCoolDown'
    BY <1>0, <1>15
       DEF TypeOK, Lifecycle, RetriesCoolDown, CloseDevice, WithoutDevice
  <2> QED
    BY <1>0, <1>15, <2>1, <2>2, <2>3
       DEF CloseDevice, Timestamps, ReasonMatchesState
<1>16. CASE EndAttempt
  <2>1. Lifecycle'
    BY <1>0, <1>16
       DEF TypeOK, Lifecycle, EndAttempt, Cooldown, NextBackoff, Lower, Higher,
           InitialBackoff, MaxBackoff, RateLimitFloor
  <2>2. NoDeviceLeak'
    BY <1>0, <1>16
       DEF TypeOK, Lifecycle, NoDeviceLeak, EndAttempt, Cooldown, NextBackoff,
           Lower, Higher, InitialBackoff, MaxBackoff, RateLimitFloor
  <2>3. ReasonMatchesState'
    BY <1>0, <1>16
       DEF TypeOK, Lifecycle, ReasonMatchesState, EndAttempt, Cooldown,
           NextBackoff, Lower, Higher, InitialBackoff, MaxBackoff,
           RateLimitFloor
  <2>4. RetriesCoolDown'
    BY <1>0, <1>16
       DEF TypeOK, Lifecycle, RetriesCoolDown, EndAttempt, Cooldown,
           NextBackoff, Lower, Higher, InitialBackoff, MaxBackoff,
           RateLimitFloor
  <2> QED
    BY <1>0, <1>16, <2>1, <2>2, <2>3, <2>4 DEF EndAttempt, Timestamps
<1>17. CASE Wake
  <2>1. Lifecycle'
    BY <1>0, <1>17 DEF TypeOK, Lifecycle, Wake
  <2>2. NoDeviceLeak'
    BY <1>0, <1>17 DEF TypeOK, Lifecycle, NoDeviceLeak, Wake
  <2>3. RetriesCoolDown'
    BY <1>0, <1>17 DEF TypeOK, Lifecycle, RetriesCoolDown, Wake
  <2> QED
    BY <1>0, <1>17, <2>1, <2>2, <2>3 DEF Wake, Timestamps, ReasonMatchesState
<1>18. CASE StatsRead
  <2>1. Lifecycle'
    BY <1>0, <1>18 DEF TypeOK, Lifecycle, StatsRead
  <2>2. Timestamps'
    BY <1>0, <1>18
       DEF TypeOK, Lifecycle, Timestamps, Ages, NoHandshake, MaxAge, StatsRead
  <2> QED
    BY <1>0, <1>18, <2>1, <2>2
       DEF StatsRead, NoDeviceLeak, ReasonMatchesState, RetriesCoolDown
<1>19. CASE StatsUpdate
  <2>1. Lifecycle'
    BY <1>0, <1>19 DEF TypeOK, Lifecycle, StatsUpdate, Recorded
  <2>2. Timestamps'
    BY <1>0, <1>19 DEF TypeOK, Lifecycle, Timestamps, StatsUpdate, Recorded
  <2>3. ReasonMatchesState'
    BY <1>0, <1>19
       DEF TypeOK, Lifecycle, ReasonMatchesState, StatsUpdate, Recorded
  <2> QED
    BY <1>0, <1>19, <2>1, <2>2, <2>3
       DEF StatsUpdate, NoDeviceLeak, RetriesCoolDown
<1>20. CASE StatsExit
  <2>1. Lifecycle'
    BY <1>0, <1>20 DEF TypeOK, Lifecycle, StatsExit
  <2>2. Timestamps'
    BY <1>0, <1>20 DEF TypeOK, Lifecycle, Timestamps, StatsExit
  <2> QED
    BY <1>0, <1>20, <2>1, <2>2
       DEF StatsExit, NoDeviceLeak, ReasonMatchesState, RetriesCoolDown
<1>21. CASE Probe
  <2>1. Lifecycle'
    BY <1>0, <1>21 DEF TypeOK, Lifecycle, Probe
  <2> QED
    BY <1>0, <1>21, <2>1
       DEF Probe, Timestamps, NoDeviceLeak, ReasonMatchesState, RetriesCoolDown
<1>22. CASE HealthUpdate
  <2>1. Lifecycle'
    BY <1>0, <1>22
       DEF TypeOK, Lifecycle, HealthUpdate, ProbePromotes, ProbeReason
  <2>2. ReasonMatchesState'
    BY <1>0, <1>22
       DEF TypeOK, Lifecycle, ReasonMatchesState, HealthUpdate, ProbePromotes,
           ProbeReason
  <2> QED
    BY <1>0, <1>22, <2>1, <2>2
       DEF HealthUpdate, Timestamps, NoDeviceLeak, RetriesCoolDown
<1>23. CASE HealthExit
  <2>1. Lifecycle'
    BY <1>0, <1>23 DEF TypeOK, Lifecycle, HealthExit
  <2> QED
    BY <1>0, <1>23, <2>1
       DEF HealthExit, Timestamps, NoDeviceLeak, ReasonMatchesState,
           RetriesCoolDown
<1>24. CASE UNCHANGED vars
  BY <1>0, <1>24
     DEF vars, Lifecycle, Timestamps, NoDeviceLeak, ReasonMatchesState,
         RetriesCoolDown
<1>25. CASE Dialing
  <2>1. UNCHANGED <<ctx, run, attemptVars, retryVars, statusVars, deviceVars,
                   devAge, netNet, recordVars, loopVars>>
    BY <1>25 DEF Dialing, LoadNetstack, DialContext, HangUp
  <2> QED
    BY <1>0, <2>1
       DEF Lifecycle, Timestamps, NoDeviceLeak, ReasonMatchesState,
           RetriesCoolDown
<1>26. CASE CheckContext \/ CheckOutcome
  <2>1. Lifecycle'
    BY <1>0, <1>26 DEF TypeOK, Lifecycle, CheckContext, CheckOutcome
  <2>2. NoDeviceLeak'
    BY <1>0, <1>26 DEF TypeOK, Lifecycle, NoDeviceLeak, CheckContext, CheckOutcome
  <2>3. RetriesCoolDown'
    BY <1>0, <1>26
       DEF TypeOK, Lifecycle, RetriesCoolDown, CheckContext, CheckOutcome
  <2> QED
    BY <1>0, <1>26, <2>1, <2>2, <2>3
       DEF CheckContext, CheckOutcome, Timestamps, ReasonMatchesState
<1> QED
  BY <1>1, <1>2, <1>3, <1>4, <1>5, <1>6, <1>7, <1>8, <1>9, <1>10, <1>11,
     <1>12, <1>13, <1>14, <1>15, <1>16, <1>17, <1>18, <1>19, <1>20, <1>21,
     <1>22, <1>23, <1>24, <1>25, <1>26
     DEF Next, Environment, Runner, StatsLoop, HealthLoop

(***************************************************************************)
(* Safety.                                                                 *)
(***************************************************************************)

\* The invariant holds in every reachable state.
THEOREM Invariance == Spec => []IInv
<1>1. Init => IInv
  BY InitInv
<1>2. IInv /\ [Next]_vars => IInv'
  BY InvStep
<1> QED
  BY <1>1, <1>2, PTL DEF Spec

\* Every variable keeps its type: in particular the backoff of Run stays
\* between two seconds and a minute (tunnel.go:150, 177).
THEOREM TypeCorrect == Spec => []TypeOK
<1>1. IInv => TypeOK
  BY DEF IInv
<1> QED
  BY <1>1, Invariance, PTL

\* Snapshot and Dial agree at every moment: a netstack is published exactly
\* while the state is up or degraded (tunnel.go:86).
THEOREM ResourcesMatchState == Spec => []ActiveResources
<1>1. IInv => ActiveResources
  BY DEF IInv, TypeOK, Lifecycle, ActiveResources
<1> QED
  BY <1>1, Invariance, PTL

\* The published netstack belongs to an open device, because cleanup clears it
\* before dev.Close (tunnel.go:309).
THEOREM PublishedIsOpen == Spec => []PublishedNetIsOpen
<1>1. IInv => PublishedNetIsOpen
  BY DEF IInv, TypeOK, Lifecycle, NoDeviceLeak, PublishedNetIsOpen
<1> QED
  BY <1>1, Invariance, PTL

\* The loops act only on their own, published and open session, because
\* runOnce waits for both before its cleanup runs (tunnel.go:335).
THEOREM LoopsStayInSession == Spec => []LoopsWithinSession
<1>1. IInv => LoopsWithinSession
  BY DEF IInv, TypeOK, Lifecycle, NoDeviceLeak, LoopsWithinSession
<1> QED
  BY <1>1, Invariance, PTL

\* No path through runOnce, failed or canceled, leaves a device open.
THEOREM DevicesAreClosed == Spec => []NoDeviceLeak
<1>1. IInv => NoDeviceLeak
  BY DEF IInv
<1> QED
  BY <1>1, Invariance, PTL

\* Every pause of Run follows the retry schedule (tunnel.go:138).
THEOREM ScheduleIsKept == Spec => []RetriesCoolDown
<1>1. IInv => RetriesCoolDown
  BY DEF IInv
<1> QED
  BY <1>1, Invariance, PTL

\* Failure states carry a reason and the others none, for every interleaving
\* of Run, statsLoop and healthLoop.
THEOREM ReasonsMatch == Spec => []ReasonMatchesState
<1>1. IInv => ReasonMatchesState
  BY DEF IInv
<1> QED
  BY <1>1, Invariance, PTL

(***************************************************************************)
(* What a step may not do.                                                 *)
(***************************************************************************)

\* A tunnel that came up is never rebuilt and never turns to error
\* (tunnel.go:144): only Run's cleanup, after a cancellation, ends it.
THEOREM NeverRebuilt == Spec => OnceUpThenIdle
<1>1. ASSUME IInv, [Next]_vars, state \in {"up", "degraded"}
      PROVE  state' \in {"up", "degraded", "idle"}
  <2>1. run = "serve"
    BY <1>1 DEF IInv, Lifecycle
  <2>2. CASE Runner
    BY <1>1, <2>1, <2>2
       DEF Runner, Return, CheckContext, BeginAttempt, FindRegion, AskPreferred,
           RandomAccepts, RandomFails, RandomLimited, BuildDevice,
           ConfigureFails, Publish, Teardown, StateAfterCleanup, CloseDevice,
           CheckOutcome, EndAttempt, Wake
  <2>3. CASE StatsUpdate \/ HealthUpdate
    BY <1>1, <2>3 DEF StatsUpdate, HealthUpdate
  <2>4. CASE Environment \/ Dialing \/ UNCHANGED vars
    BY <1>1, <2>4 DEF Environment, Cancel, Handshake, Tick, Dialing,
                      LoadNetstack, DialContext, HangUp, vars
  <2>5. CASE StatsRead \/ StatsExit \/ Probe \/ HealthExit
    BY <1>1, <2>5 DEF StatsRead, StatsExit, Probe, HealthExit
  <2> QED
    BY <1>1, <2>2, <2>3, <2>4, <2>5 DEF Next, StatsLoop, HealthLoop
<1>2. IInv /\ [Next]_vars
        => [(state \in {"up", "degraded"})
             => (state' \in {"up", "degraded", "idle"})]_vars
  BY <1>1
<1> QED
  BY <1>2, Invariance, PTL DEF Spec, OnceUpThenIdle

\* No timestamp the loops hold is younger than the device's.
LEMMA PromotionStep ==
  ASSUME IInv, [Next]_vars, state = "degraded", state' = "up"
  PROVE  Fresh(devAge)
<1>0. /\ devAge \in Ages /\ lastHandshake \in Ages /\ sample \in Ages
      /\ run = "serve"
  BY DEF IInv, TypeOK, Lifecycle
<1>1. ASSUME NEW held \in {lastHandshake, sample}, Fresh(held)
      PROVE  Fresh(devAge)
  BY <1>0, <1>1 DEF IInv, Timestamps, Fresh, NoHandshake, Ages, MaxAge
<1>2. CASE StatsUpdate
  BY <1>1, <1>2 DEF StatsUpdate, Recorded
<1>3. CASE HealthUpdate
  BY <1>1, <1>3 DEF HealthUpdate, ProbePromotes
<1>4. ~ Runner
  BY <1>0
     DEF Runner, Return, CheckContext, BeginAttempt, FindRegion, AskPreferred,
         RandomAccepts, RandomFails, RandomLimited, BuildDevice,
         ConfigureFails, Publish, Teardown, StateAfterCleanup, CloseDevice,
         CheckOutcome, EndAttempt, Wake
<1>5. ~ (Environment \/ Dialing \/ UNCHANGED vars)
  BY DEF Environment, Cancel, Handshake, Tick, Dialing, LoadNetstack,
              DialContext, HangUp, vars
<1>6. ~ (StatsRead \/ StatsExit \/ Probe \/ HealthExit)
  BY DEF StatsRead, StatsExit, Probe, HealthExit
<1> QED
  BY <1>2, <1>3, <1>4, <1>5, <1>6 DEF Next, StatsLoop, HealthLoop

\* Whoever promotes a degraded tunnel, from a timestamp read any time before,
\* the device itself has a handshake within the limit at that moment: the
\* timestamps held are never younger than the device's.
THEOREM PromotionSound == Spec => PromotionIsJustified
<1>1. IInv /\ [Next]_vars
        => [state = "degraded" /\ state' = "up" => Fresh(devAge)]_vars
  BY PromotionStep
<1> QED
  BY <1>1, Invariance, PTL DEF Spec, PromotionIsJustified

\* The sample statsLoop holds is not younger than the device's handshake.
LEMMA StaleSampleStep ==
  ASSUME IInv, [Next]_vars, stats = "update", stats' = "wait",
         sample # NoHandshake, devAge = MaxAge
  PROVE  state' # "up"
<1>1. ~Fresh(sample)
  <2>1. devAge <= sample
    BY DEF IInv, Timestamps
  <2>2. HandshakeLimit \in Nat /\ sample \in Ages
    BY TunnelAssumption DEF IInv, TypeOK
  <2> QED
    BY <2>1, <2>2 DEF Fresh, MaxAge, Ages, NoHandshake
<1>2. CASE StatsUpdate
  <2>1. ~Fresh(Recorded)
    BY <1>1 DEF Recorded
  <2> QED
    BY <1>2, <2>1 DEF StatsUpdate, IInv, TypeOK
<1>3. ~ (StatsRead \/ StatsExit)
  BY DEF StatsRead, StatsExit
<1>4. CASE Publish
  BY <1>4 DEF Publish, IInv, Lifecycle
<1>5. ~ (Environment \/ HealthLoop \/ Dialing \/ UNCHANGED vars)
  BY DEF Environment, Cancel, Handshake, Tick, HealthLoop, Probe,
              HealthUpdate, HealthExit, Dialing, LoadNetstack, DialContext,
              HangUp, vars
<1>6. CASE Runner /\ ~Publish
  BY <1>6
     DEF Runner, Return, CheckContext, BeginAttempt, FindRegion, AskPreferred,
         RandomAccepts, RandomFails, RandomLimited, BuildDevice,
         ConfigureFails, Teardown, CloseDevice, CheckOutcome, EndAttempt, Wake
<1> QED
  BY <1>2, <1>3, <1>4, <1>5, <1>6 DEF Next, StatsLoop

\* A handshake that is too old when statsLoop gets the lock demotes, however
\* long before it was read: the sample is not younger than the device's.
THEOREM StaleSampleShows == Spec => StaleSampleDemotes
<1>1. IInv /\ [Next]_vars
        => [stats = "update" /\ stats' = "wait"
              /\ sample # NoHandshake /\ devAge = MaxAge => state' # "up"]_vars
  BY StaleSampleStep
<1> QED
  BY <1>1, Invariance, PTL DEF Spec, StaleSampleDemotes

\* A canceled Run only goes towards its return.
LEMMA AheadStep ==
  ASSUME IInv, [Next]_vars, ctx = "canceled", run' # run
  PROVE  Ahead[run'] < Ahead[run]
<1>1. ~ (Environment \/ StatsLoop \/ HealthLoop \/ Dialing \/ UNCHANGED vars)
  BY DEF Environment, Cancel, Handshake, Tick, StatsLoop, StatsRead,
              StatsUpdate, StatsExit, HealthLoop, Probe, HealthUpdate,
              HealthExit, Dialing, LoadNetstack, DialContext, HangUp, vars
<1>2. CASE Return \/ Wake
  BY <1>2 DEF Return, Wake, Ahead
<1>3. CASE FindRegion \/ AskPreferred
  BY <1>3 DEF FindRegion, FirstChoice, GiveUp, AskPreferred, AfterPreferred, Ahead
<1>4. CASE RandomAccepts \/ RandomFails \/ RandomLimited
  BY <1>4 DEF RandomAccepts, RandomFails, RandomLimited, GiveUp, Ahead
<1>5. CASE BuildDevice \/ ConfigureFails \/ Publish
  BY <1>5 DEF BuildDevice, ConfigureFails, Publish, GiveUp, Ahead
<1>6. CASE Teardown \/ CloseDevice
  BY <1>6 DEF Teardown, CloseDevice, Ahead
<1>7. CASE BeginAttempt \/ EndAttempt
  BY <1>7 DEF BeginAttempt, EndAttempt, Ahead
<1>8. ~ (CheckContext \/ CheckOutcome)
  BY DEF CheckContext, CheckOutcome
<1> QED
  BY <1>1, <1>2, <1>3, <1>4, <1>5, <1>6, <1>7, <1>8 DEF Next, Runner

\* After a cancellation every step of Run brings it nearer to its return: it
\* decides on no further attempt and comes up at most once on its way.
THEOREM ShutdownDrawsNear == Spec => ShutdownIsBounded
<1>1. IInv /\ [Next]_vars
        => [ctx = "canceled" /\ run' # run => Ahead[run'] < Ahead[run]]_vars
  BY AheadStep
<1> QED
  BY <1>1, Invariance, PTL DEF Spec, ShutdownIsBounded

(***************************************************************************)
(* The tunnel keeps the promise.                                           *)
(***************************************************************************)

\* Where each dialer is, as TunnelPromise sees it.
Flow == [d \in Dialers |->
           IF dial[d].at \in {"ready", "down"} THEN dial[d].at ELSE "through"]

\* The initial states of Tunnel are initial states of the promise.
LEMMA PromiseInit == Init => Promise!Init
BY DEF Init, Idle, Promise!Init

\* A step that changes neither what is shown, nor the session, nor where a
\* dialer is, and does not end Run, is a stutter of the promise.
LEMMA PromiseStutter ==
  ASSUME UNCHANGED <<ctx, state, netNet, dial>>,
         run = "returned" <=> run' = "returned",
         run \in {"begin", "failed"} <=> run' \in {"begin", "failed"},
         state = "idle" => connectAttempt' = connectAttempt
  PROVE  UNCHANGED Promise!vars
BY DEF Promise!vars

\* A step of a dialer is a step of its flow, or a stutter.
LEMMA PromiseDial ==
  ASSUME TypeOK, NEW d \in Dialers,
         LoadNetstack(d) \/ DialContext(d) \/ HangUp(d)
  PROVE  Promise!Next \/ UNCHANGED Promise!vars
<1> DEFINE at(x) == IF x \in {"ready", "down"} THEN x ELSE "through"
<1>1. /\ UNCHANGED <<state, connectAttempt, netNet>>
      /\ \A e \in Dialers \ {d} : dial'[e] = dial[e]
  BY DEF TypeOK, LoadNetstack, DialContext, HangUp
<1>2. ASSUME NEW x, dial'[d].at = x
      PROVE  Flow' = [Flow EXCEPT ![d] = at(x)]
  BY <1>1, <1>2 DEF Flow
<1>3. /\ dial \in [Dialers -> [at : {"ready", "loaded", "open", "down", "failed"},
                              net : Sessions \cup {NoSession}]]
      /\ Flow[d] = at(dial[d].at)
  BY DEF TypeOK, Flow
<1> HIDE DEF Flow
<1>4. UNCHANGED <<ctx, run>>
  BY DEF LoadNetstack, DialContext, HangUp
<1>5. CASE LoadNetstack(d)
  <2>1. dial[d].at = "ready" /\ dial'[d] = Loaded
    BY <1>3, <1>5 DEF LoadNetstack
  <2>2. CASE netNet = NoSession
    <3>1. dial'[d].at = "down"
      BY <2>1, <2>2 DEF Loaded
    <3>2. Flow' = [Flow EXCEPT ![d] = "down"]
      BY <1>2, <3>1
    <3>3. Promise!Refuse(d)
      BY <1>1, <1>3, <1>4, <2>1, <2>2, <3>2 DEF Promise!Refuse, Flow
    <3> QED BY <3>3 DEF Promise!Next
  <2>3. CASE netNet # NoSession
    <3>1. dial'[d].at = "loaded"
      BY <2>1, <2>3 DEF Loaded
    <3>2. Flow' = [Flow EXCEPT ![d] = "through"]
      BY <1>2, <3>1
    <3>3. netNet \in Sessions
      BY <2>3 DEF TypeOK
    <3>4. Promise!Carry(d)
      BY <1>1, <1>3, <1>4, <2>1, <3>2, <3>3 DEF Promise!Carry, Flow
    <3> QED BY <3>4 DEF Promise!Next
  <2> QED
    BY <2>2, <2>3
<1>6. CASE DialContext(d)
  <2>1. dial[d].at = "loaded" /\ dial'[d].at \in {"open", "failed"}
    BY <1>3, <1>6 DEF DialContext
  <2>2. Flow' = [Flow EXCEPT ![d] = "through"]
    BY <1>2, <2>1
  <2>3. Flow' = Flow
    BY <1>3, <2>1, <2>2 DEF Flow
  <2> QED BY <1>1, <1>4, <2>3 DEF Promise!vars, Flow
<1>7. CASE HangUp(d)
  <2>1. dial[d].at # "ready" /\ dial'[d].at = "ready"
    BY <1>3, <1>7 DEF HangUp, Idle
  <2>2. Flow' = [Flow EXCEPT ![d] = "ready"]
    BY <1>2, <2>1
  <2>3. Flow[d] # "ready"
    BY <1>3, <1>7 DEF HangUp
  <2>4. Promise!Done(d)
    BY <1>1, <1>4, <2>2, <2>3 DEF Promise!Done, Flow
  <2> QED BY <2>4 DEF Promise!Next
<1> QED
  BY <1>5, <1>6, <1>7

\* Every step of Tunnel is a step of the promise, or a stutter.
LEMMA PromiseStep == IInv /\ [Next]_vars => [Promise!Next]_(Promise!vars)
<1> SUFFICES ASSUME IInv, [Next]_vars
             PROVE  Promise!Next \/ UNCHANGED Promise!vars
  OBVIOUS
<1> USE DEF IInv
<1>1. CASE BeginAttempt
  BY <1>1, CountLemma
     DEF TypeOK, Lifecycle, BeginAttempt, Promise!Next, Promise!Connect,
         Promise!Running
<1>2. CASE EndAttempt
  BY <1>2 DEF TypeOK, Lifecycle, EndAttempt, Promise!Next, Promise!Fail,
              Promise!Running
<1>3. CASE Publish
  BY <1>3 DEF TypeOK, Lifecycle, Publish, Promise!Next, Promise!Establish,
              Promise!Running
<1>4. CASE Teardown
  BY <1>4 DEF TypeOK, Lifecycle, Teardown, StateAfterCleanup,
              Promise!Next, Promise!Retire, Promise!Running
<1>5. CASE StatsUpdate
  BY <1>5 DEF TypeOK, Lifecycle, StatsUpdate, Promise!Next, Promise!Demote,
              Promise!Promote, Promise!Running, Promise!vars
<1>6. CASE HealthUpdate
  BY <1>6 DEF TypeOK, Lifecycle, HealthUpdate, ProbePromotes, Promise!Next,
              Promise!Demote, Promise!Promote, Promise!Running, Promise!vars
<1>7. CASE Dialing
  BY <1>7, PromiseDial DEF Dialing
<1>8. CASE Cancel
  BY <1>8 DEF Cancel, Promise!Next, Promise!Cancel
<1>9. CASE Return
  BY <1>9 DEF TypeOK, Lifecycle, Return, Promise!Next, Promise!Return
<1>10. CASE Handshake \/ Tick \/ UNCHANGED vars
  BY <1>10, PromiseStutter DEF Handshake, Tick, vars
<1>11. CASE StatsRead \/ StatsExit \/ Probe \/ HealthExit
  BY <1>11, PromiseStutter DEF StatsRead, StatsExit, Probe, HealthExit
<1>12. CASE FindRegion \/ AskPreferred \/ RandomAccepts \/ RandomFails
            \/ RandomLimited \/ BuildDevice \/ ConfigureFails \/ CloseDevice \/ Wake
  BY <1>12, PromiseStutter
     DEF FindRegion, FirstChoice, GiveUp, AskPreferred, AfterPreferred,
         RandomAccepts, RandomFails, RandomLimited, BuildDevice, ConfigureFails,
         CloseDevice, Wake
<1>13. CASE CheckContext \/ CheckOutcome
  BY <1>13 DEF TypeOK, Lifecycle, CheckContext, CheckOutcome, Promise!Next,
               Promise!Check, Promise!Running
<1> QED
  BY <1>1, <1>2, <1>3, <1>4, <1>5, <1>6, <1>7, <1>8, <1>9, <1>10, <1>11, <1>12,
     <1>13
     DEF Next, Environment, Runner, StatsLoop, HealthLoop

\* Tunnel implements TunnelPromise: what users see of a tunnel is the promised
\* life cycle, Dial is refused exactly when there is no session, and what Run has
\* decided on a live context (tunnel.go:155, :159) is all that may still begin, or
\* be shown to have failed, after a cancellation.
THEOREM KeepsPromise == Spec => PromiseKept
<1>1. Init => Promise!Init
  BY PromiseInit
<1>2. IInv /\ [Next]_vars => [Promise!Next]_(Promise!vars)
  BY PromiseStep
<1> QED
  BY <1>1, <1>2, Invariance, PTL DEF Spec, PromiseKept, Promise!Spec

(***************************************************************************)
(* Liveness.  What ENABLED says of the fair steps is StepsAreEnabled; TLC  *)
(* agrees with it.                                                         *)
(***************************************************************************)

\* Both loops are there while runOnce waits for them, and end for a reason.
LoopsFollowRun ==
  /\ run = "serve" => stats # "off" /\ health # "off"
  /\ stats = "done" \/ health = "done" => ctx = "canceled"

LEMMA LoopsLive == Spec => []LoopsFollowRun
<1>1. Init => LoopsFollowRun
  BY DEF Init, LoopsFollowRun
<1>2. ASSUME IInv, LoopsFollowRun, [Next]_vars PROVE LoopsFollowRun'
  <2>1. CASE Publish
    BY <2>1 DEF Publish, LoopsFollowRun
  <2>2. CASE Environment \/ Dialing \/ UNCHANGED vars
    BY <1>2, <2>2 DEF Environment, Cancel, Handshake, Tick, Dialing, LoadNetstack,
       DialContext, HangUp, vars, LoopsFollowRun
  <2>3. CASE Runner /\ ~Publish
    BY <1>2, <2>3
       DEF Runner, Return, CheckContext, BeginAttempt, FindRegion, FirstChoice, GiveUp,
           AskPreferred, AfterPreferred, RandomAccepts, RandomFails, RandomLimited,
           BuildDevice, ConfigureFails, Teardown, CloseDevice, CheckOutcome, EndAttempt, Wake,
           LoopsFollowRun
  <2>4. CASE StatsLoop
    BY <1>2, <2>4 DEF StatsLoop, StatsRead, StatsUpdate, StatsExit, LoopsFollowRun
  <2>5. CASE HealthLoop
    BY <1>2, <2>5 DEF HealthLoop, Probe, HealthUpdate, HealthExit, LoopsFollowRun
  <2> QED BY <1>2, <2>1, <2>2, <2>3, <2>4, <2>5 DEF Next
<1> QED BY <1>1, <1>2, Invariance, PTL DEF Spec

\* A cancellation is for good, and while runOnce serves a loop that has ended
\* stays ended.
LEMMA ServeMoves ==
  ASSUME IInv, [Next]_vars
  PROVE  /\ ctx = "canceled" => ctx' = "canceled"
         /\ run = "serve" => run' \in {"serve", "closing"}
         /\ run = "serve" /\ stats = "done" => stats' = "done"
         /\ run = "serve" /\ health = "done" => health' = "done"
<1>1. CASE Environment \/ Dialing \/ UNCHANGED vars
  BY <1>1 DEF Environment, Cancel, Handshake, Tick, Dialing, LoadNetstack,
     DialContext, HangUp, vars
<1>2. CASE Runner
  BY <1>2
     DEF Runner, Return, CheckContext, BeginAttempt, FindRegion, AskPreferred, RandomAccepts,
         RandomFails, RandomLimited, BuildDevice, ConfigureFails, Publish,
         Teardown, CloseDevice, CheckOutcome, EndAttempt, Wake
<1>3. CASE StatsLoop \/ HealthLoop
  BY <1>3 DEF StatsLoop, StatsRead, StatsUpdate, StatsExit, HealthLoop, Probe,
     HealthUpdate, HealthExit
<1> QED BY <1>1, <1>2, <1>3 DEF Next

\* After a cancellation both loops end, and runOnce tears the session down.
LEMMA ServeEnds ==
  FairSpec /\ []StepsAreEnabled =>
    [](run = "serve" /\ ctx = "canceled" => <>(run = "closing"))
<1> DEFINE Canceled == ctx = "canceled"
           Serves == run = "serve"
           Closes == run = "closing"
           StatsWaits   == stats = "wait"
           StatsHolds   == stats = "update"
           StatsOver    == stats = "done"
           HealthWaits  == health = "timer"
           HealthHolds  == health = "report"
           HealthOver   == health = "done"
           Here == IInv /\ LoopsFollowRun
<1>1. Here /\ [Next]_vars /\ Canceled => Canceled'
  BY ServeMoves
<1>2. Here /\ [Next]_vars /\ Serves => Serves' \/ Closes'
  BY ServeMoves
<1>3. Here /\ Serves => /\ StatsWaits \/ StatsHolds \/ StatsOver
                        /\ HealthWaits \/ HealthHolds \/ HealthOver
  BY DEF IInv, TypeOK, LoopsFollowRun
<1>4. Here /\ [Next]_vars /\ Serves => /\ StatsOver => StatsOver'
                                       /\ HealthOver => HealthOver'
  BY ServeMoves
<1>5. StatsHolds /\ <<StatsLoop>>_vars => StatsWaits'
  BY DEF StatsLoop, StatsRead, StatsUpdate, StatsExit
<1>6. HealthHolds /\ <<HealthLoop>>_vars => HealthWaits'
  BY DEF HealthLoop, Probe, HealthUpdate, HealthExit
<1>7. <<StatsExit>>_vars => StatsOver'
  BY DEF StatsExit
<1>8. <<HealthExit>>_vars => HealthOver'
  BY DEF HealthExit
<1>9. Serves /\ <<Runner>>_vars => Closes'
  BY DEF Runner, Return, CheckContext, BeginAttempt, FindRegion, AskPreferred, RandomAccepts,
     RandomFails, RandomLimited, BuildDevice, ConfigureFails, Publish,
     Teardown, CloseDevice, CheckOutcome, EndAttempt, Wake
<1>10. StepsAreEnabled =>
         /\ StatsHolds => ENABLED <<StatsLoop>>_vars
         /\ StatsWaits /\ Canceled => ENABLED <<StatsExit>>_vars
         /\ HealthHolds => ENABLED <<HealthLoop>>_vars
         /\ HealthWaits /\ Canceled => ENABLED <<HealthExit>>_vars
         /\ Serves /\ Canceled /\ StatsOver /\ HealthOver => ENABLED <<Runner>>_vars
  BY DEF StepsAreEnabled, LoopsReturned
<1>11. Spec => []Here
  BY Invariance, LoopsLive, PTL
<1> HIDE DEF Canceled, Serves, Closes, StatsWaits, StatsHolds, StatsOver,
             HealthWaits, HealthHolds, HealthOver, Here
<1>12. FairSpec /\ []StepsAreEnabled =>
         [](Serves /\ Canceled => <>(Closes \/ (Serves /\ StatsOver)))
  BY <1>1, <1>2, <1>3, <1>5, <1>7, <1>10, <1>11, PTL DEF FairSpec, Fairness, Spec
<1>13. FairSpec /\ []StepsAreEnabled =>
         [](Serves /\ Canceled => <>(Closes \/ (Serves /\ HealthOver)))
  BY <1>1, <1>2, <1>3, <1>6, <1>8, <1>10, <1>11, PTL DEF FairSpec, Fairness, Spec
<1>14. FairSpec /\ []StepsAreEnabled => [](Serves /\ Canceled => <>Closes)
  BY <1>1, <1>2, <1>4, <1>9, <1>10, <1>11, <1>12, <1>13, PTL
     DEF FairSpec, Fairness, Spec
<1> QED BY <1>14 DEF Serves, Canceled, Closes

\* A step of Run is a step from one point to another.
LEMMA RunnerMoves ==
  ASSUME TypeOK, Runner
  PROVE  run' # run
<1>1. CASE Return \/ BeginAttempt \/ RandomAccepts \/ RandomFails \/ RandomLimited
  BY <1>1 DEF Return, BeginAttempt, RandomAccepts, RandomFails, RandomLimited, GiveUp
<1>2. CASE FindRegion \/ AskPreferred \/ BuildDevice
  BY <1>2 DEF FindRegion, FirstChoice, GiveUp, AskPreferred, AfterPreferred,
     BuildDevice
<1>3. CASE ConfigureFails \/ Publish \/ Teardown \/ CloseDevice \/ EndAttempt \/ Wake
  BY <1>3 DEF ConfigureFails, GiveUp, Publish, Teardown, CloseDevice, CheckOutcome, EndAttempt, Wake
<1>4. CASE CheckContext \/ CheckOutcome
  BY <1>4 DEF CheckContext, CheckOutcome
<1> QED BY <1>1, <1>2, <1>3, <1>4 DEF Runner

\* The points of Run with at most n steps before its return.
Within(n) == run \in {p \in RunPoints : Ahead[p] <= n}

\* A canceled Run that is not waiting for its loops goes one stage on.
LEMMA StageEnds ==
  ASSUME NEW n \in 1 .. 9, NEW m \in 0 .. 8, m = n - 1
  PROVE  FairSpec /\ []StepsAreEnabled =>
           [](Within(n) /\ ctx = "canceled"
                => <>(Within(m) \/ (Within(n) /\ run = "serve")))
<1> DEFINE Canceled == ctx = "canceled"
           Serves == run = "serve"
           Here   == Within(n)
           Nearer == Within(m)
<1>1. IInv /\ [Next]_vars /\ Canceled => Canceled'
  BY ServeMoves
<1>2. IInv /\ [Next]_vars /\ Canceled /\ Here => Here' /\ (run' # run => Nearer')
  <2> SUFFICES ASSUME IInv, [Next]_vars, Canceled, Here
               PROVE  Here' /\ (run' # run => Nearer')
    OBVIOUS
  <2>1. run \in RunPoints /\ run' \in RunPoints
    BY InvStep DEF IInv, TypeOK
  <2>2. CASE run' = run
    BY <2>2 DEF Within
  <2>3. CASE run' # run
    <3>1. Ahead[run'] < Ahead[run] /\ Ahead[run] <= n
      BY <2>3, AheadStep DEF Within
    <3>2. Ahead[run] \in Nat /\ Ahead[run'] \in Nat
      BY <2>1 DEF Ahead
    <3>3. Ahead[run'] <= m /\ Ahead[run'] <= n
      BY <3>1, <3>2
    <3> QED BY <2>1, <3>3 DEF Within
  <2> QED BY <2>2, <2>3
<1>3. IInv /\ <<Runner>>_vars => run' # run
  BY RunnerMoves DEF IInv
<1>4. Here /\ ~Nearer /\ ~Serves => run \notin {"serve", "returned"}
  BY DEF Within, Ahead
<1>5. StepsAreEnabled => (run \notin {"serve", "returned"} => ENABLED <<Runner>>_vars)
  BY DEF StepsAreEnabled
<1>6. IInv /\ [Next]_vars /\ Canceled /\ Here /\ <<Runner>>_vars => Nearer'
  BY <1>2, <1>3
<1>7. IInv /\ [Next]_vars /\ Canceled /\ Here => Here'
  BY <1>2
<1>8. StepsAreEnabled /\ Here /\ ~Nearer /\ ~Serves => ENABLED <<Runner>>_vars
  BY <1>4, <1>5
<1> HIDE DEF Canceled, Serves, Here, Nearer
<1>9. FairSpec /\ []StepsAreEnabled => [](Here /\ Canceled => <>(Nearer \/ (Here /\ Serves)))
  BY <1>1, <1>6, <1>7, <1>8, Invariance, PTL DEF FairSpec, Fairness, Spec
<1> QED BY <1>9 DEF Here, Canceled, Nearer, Serves

\* A cancellation ends the tunnel from wherever it is (tunnel.go:158, :184,
\* :306, :311): Run returns, the loops are over and the device is closed.
THEOREM CancelEnds == FairSpec /\ []StepsAreEnabled => CancelShutsDown
<1> DEFINE Canceled == ctx = "canceled"
           Serves == run = "serve"
           Goal == /\ run = "returned"
                   /\ netNet = NoSession /\ openDevs = {}
                   /\ stats \in {"off", "done"}
                   /\ health \in {"off", "done"}
           Stage(n, m) == FairSpec /\ []StepsAreEnabled =>
             [](Within(n) /\ Canceled => <>(Within(m) \/ (Within(n) /\ Serves)))
<1>1. IInv /\ [Next]_vars /\ Canceled => Canceled'
  BY ServeMoves
<1>2. IInv => Within(9)
  BY DEF IInv, TypeOK, Within, Ahead
<1>3. Serves => ~Within(2) /\ ~Within(1) /\ ~Within(0)
  BY DEF Within, Ahead
<1>4. Within(0) /\ IInv => Goal
  BY DEF Within, Ahead, IInv, Lifecycle, NoDeviceLeak
<1>5. run = "closing" => Within(2)
  BY DEF Within, Ahead
<1>6. /\ Stage(9, 8) /\ Stage(8, 7) /\ Stage(7, 6) /\ Stage(6, 5)
      /\ Stage(5, 4) /\ Stage(4, 3) /\ Stage(3, 2) /\ Stage(2, 1) /\ Stage(1, 0)
  <2>1. \A n \in 1 .. 9, m \in 0 .. 8 : m = n - 1 => Stage(n, m)
    BY StageEnds
  <2> HIDE DEF Stage
  <2> QED BY <2>1
<1>7. FairSpec /\ []StepsAreEnabled => [](Serves /\ Canceled => <>Within(2))
  BY <1>5, ServeEnds, PTL
<1> QED
  BY <1>1, <1>2, <1>3, <1>4, <1>6, <1>7, Invariance, PTL
     DEF FairSpec, Spec, CancelShutsDown

\* While runOnce serves a live context, a timestamp statsLoop has read stays
\* with it until it takes the lock.
LEMMA SampleMoves ==
  ASSUME IInv, [Next]_vars, run = "serve", ctx = "live"
  PROVE  \/ stats' = stats /\ (sample # NoHandshake => sample' # NoHandshake)
         \/ StatsLoop
<1>1. CASE Tick
  BY <1>1 DEF Tick, IInv, TypeOK, Ages, NoHandshake, Older, Lower, MaxAge
<1>2. CASE Cancel \/ Handshake \/ Dialing \/ UNCHANGED vars
  BY <1>2 DEF Cancel, Handshake, Dialing, LoadNetstack, DialContext, HangUp, vars
<1>3. CASE HealthLoop
  BY <1>3 DEF HealthLoop, Probe, HealthUpdate, HealthExit
<1>4. CASE Runner
  BY <1>4
     DEF Runner, Return, CheckContext, BeginAttempt, FindRegion, AskPreferred, RandomAccepts,
         RandomFails, RandomLimited, BuildDevice, ConfigureFails, Publish,
         Teardown, CloseDevice, CheckOutcome, EndAttempt, Wake
<1> QED BY <1>1, <1>2, <1>3, <1>4 DEF Next, Environment

\* When handshakes have stopped, statsLoop sees it: its next sample but one is
\* old, and neither loop promotes the tunnel again (tunnel.go:411, :414 and :479).
THEOREM StaleShows == FairSpec /\ []StepsAreEnabled => StaleIsNoticed
<1> DEFINE Stale  == run = "serve" /\ ctx = "live" /\ devAge = MaxAge
           Waits  == stats = "wait"
           Empty  == stats = "update" /\ sample = NoHandshake
           Sampled == stats = "update" /\ sample # NoHandshake
           Down   == state # "up"
           Here   == IInv /\ LoopsFollowRun
<1>0. Stale => MaxAge # NoHandshake /\ ~Fresh(devAge)
  BY DEF MaxAge, NoHandshake, Fresh
<1>1. Here /\ Stale => Waits \/ Empty \/ Sampled
  BY DEF IInv, TypeOK, LoopsFollowRun
<1>2. Stale /\ Waits /\ StatsLoop => Sampled'
  BY <1>0 DEF StatsLoop, StatsRead, StatsUpdate, StatsExit
<1>3. Here /\ Stale /\ [Next]_vars /\ Waits => Waits' \/ Sampled'
  BY <1>2, SampleMoves
<1>4. Here /\ Stale /\ [Next]_vars /\ Sampled => Sampled' \/ Down'
  <2> SUFFICES ASSUME Here, Stale, [Next]_vars, Sampled, StatsLoop
               PROVE  Down'
    BY SampleMoves
  <2>1. stats' = "wait"
    BY DEF StatsLoop, StatsRead, StatsUpdate, StatsExit
  <2> QED BY <2>1, StaleSampleStep
<1>5. Here /\ Stale /\ [Next]_vars /\ Down => Down'
  <2>1. Here /\ Stale /\ Down => state = "degraded"
    BY DEF IInv, Lifecycle
  <2> QED BY <1>0, <2>1, PromotionStep
<1>6. Stale /\ Waits /\ <<StatsLoop>>_vars => Sampled'
  BY <1>2
<1>7. Empty /\ <<StatsLoop>>_vars => Waits'
  BY DEF StatsLoop, StatsRead, StatsUpdate, StatsExit
<1>8. Sampled /\ <<StatsLoop>>_vars => ~Sampled'
  BY DEF StatsLoop, StatsRead, StatsUpdate, StatsExit
<1>9. StepsAreEnabled => (Waits \/ Empty \/ Sampled => ENABLED <<StatsLoop>>_vars)
  BY DEF StepsAreEnabled
<1>10. Spec => []Here
  BY Invariance, LoopsLive, PTL
<1> HIDE DEF Stale, Waits, Empty, Sampled, Down, Here
<1>11. FairSpec /\ []StepsAreEnabled => (<>[]Stale => <>[]Down)
  BY <1>1, <1>3, <1>4, <1>5, <1>6, <1>7, <1>8, <1>9, <1>10, PTL
     DEF FairSpec, Fairness, Spec
<1> QED BY <1>11 DEF StaleIsNoticed, Stale, Down

\* When handshakes and probes are good, statsLoop promotes the tunnel and nobody
\* demotes it.
THEOREM GoodTunnelRecovers == FairSpec /\ []StepsAreEnabled => Recovers
<1> DEFINE Good == /\ run = "serve" /\ ctx = "live"
                   /\ Fresh(devAge) /\ (stats = "update" => Fresh(sample))
                   /\ (health = "report" => verdict)
           Waits == stats = "wait"
           Holds == stats = "update"
           Up    == state = "up"
           Here  == IInv /\ LoopsFollowRun
<1>0. Here /\ Good /\ Holds => Fresh(Recorded) /\ sample # NoHandshake
  BY DEF Recorded, Fresh, NoHandshake
<1>1. Here /\ Good => Waits \/ Holds
  BY DEF IInv, TypeOK, LoopsFollowRun
<1>2. Here /\ Good /\ Holds /\ StatsLoop => Up'
  <2> SUFFICES ASSUME Here, Good, Holds, StatsUpdate PROVE Up'
    BY DEF StatsLoop, StatsRead, StatsExit
  <2>1. state \in {"up", "degraded"}
    BY DEF IInv, Lifecycle
  <2> QED BY <1>0, <2>1 DEF StatsUpdate
<1>3. Here /\ Good /\ [Next]_vars /\ Holds => Holds' \/ Up'
  BY <1>2, SampleMoves
<1>4. Here /\ Good /\ [Next]_vars /\ Up => Up'
  <2> SUFFICES ASSUME Here, Good, [Next]_vars, Up PROVE Up'
    OBVIOUS
  <2>1. CASE StatsLoop
    BY <1>0, <2>1 DEF StatsLoop, StatsRead, StatsUpdate, StatsExit
  <2>2. CASE HealthLoop
    BY <2>2 DEF HealthLoop, Probe, HealthUpdate, HealthExit
  <2>3. CASE Environment \/ Dialing \/ UNCHANGED vars
    BY <2>3 DEF Environment, Cancel, Handshake, Tick, Dialing, LoadNetstack,
       DialContext, HangUp, vars
  <2>4. CASE Runner
    BY <2>4
       DEF Runner, Return, CheckContext, BeginAttempt, FindRegion, AskPreferred, RandomAccepts,
           RandomFails, RandomLimited, BuildDevice, ConfigureFails, Publish,
           Teardown, CloseDevice, CheckOutcome, EndAttempt, Wake
  <2> QED BY <2>1, <2>2, <2>3, <2>4 DEF Next
<1>5. Here /\ Good /\ Waits /\ <<StatsLoop>>_vars => Holds'
  BY DEF StatsLoop, StatsRead, StatsUpdate, StatsExit
<1>6. Here /\ Good /\ Holds /\ <<StatsLoop>>_vars => Up'
  BY <1>2
<1>7. StepsAreEnabled => (Waits \/ Holds => ENABLED <<StatsLoop>>_vars)
  BY DEF StepsAreEnabled
<1>8. Spec => []Here
  BY Invariance, LoopsLive, PTL
<1> HIDE DEF Good, Waits, Holds, Up, Here
<1>9. FairSpec /\ []StepsAreEnabled => (<>[]Good => <>[]Up)
  BY <1>1, <1>3, <1>4, <1>5, <1>6, <1>7, <1>8, PTL DEF FairSpec, Fairness, Spec
<1> QED BY <1>9 DEF Recovers, Good, Up

\* Until the tunnel is up no Dial has got hold of a netstack, so that an
\* identity for the next device is free.
Unlinked ==
  /\ run # "serve"
  /\ \A d \in Dialers : dial[d].net = NoSession
  /\ run = "returned" => ctx = "canceled"

LEMMA UnlinkedStep ==
  ASSUME IInv, Unlinked, [Next]_vars
  PROVE  Unlinked' \/ (state = "up")'
<1>1. CASE Dialing
  <2>1. PICK d \in Dialers : LoadNetstack(d) \/ DialContext(d) \/ HangUp(d)
    BY <1>1 DEF Dialing
  <2>2. netNet = NoSession /\ dial \in DialType
    BY DEF Unlinked, IInv, TypeOK, Lifecycle, DialType
  <2>3. UNCHANGED <<run, ctx>>
    BY <2>1 DEF LoadNetstack, DialContext, HangUp
  <2>4. \A e \in Dialers : dial'[e].net = NoSession
    BY <2>1, <2>2 DEF LoadNetstack, Loaded, DialContext, HangUp, Idle, Unlinked,
       DialType
  <2> QED BY <2>3, <2>4 DEF Unlinked
<1>2. CASE Environment \/ UNCHANGED vars
  BY <1>2 DEF Environment, Cancel, Handshake, Tick, vars, Unlinked
<1>3. CASE Publish
  BY <1>3 DEF Publish
<1>4. CASE Runner /\ ~Publish
  BY <1>4
     DEF Runner, Return, CheckContext, BeginAttempt, FindRegion, FirstChoice, GiveUp,
         AskPreferred, AfterPreferred, RandomAccepts, RandomFails, RandomLimited,
         BuildDevice, ConfigureFails, Teardown, CloseDevice, CheckOutcome, EndAttempt, Wake,
         Unlinked
<1>5. CASE StatsLoop \/ HealthLoop
  BY <1>5 DEF StatsLoop, StatsRead, StatsUpdate, StatsExit, HealthLoop, Probe,
     HealthUpdate, HealthExit, Unlinked
<1> QED BY <1>1, <1>2, <1>3, <1>4, <1>5 DEF Next

\* The points of an attempt that is not canceled, in the order of the code.
LEMMA AttemptMoves ==
  ASSUME IInv, Unlinked, [Next]_vars, ctx = "live"
  PROVE  \/ run' = run /\ regCtx' = regCtx /\ ~Runner
         \/ run = "loop"      /\ run' = "begin"
         \/ run = "begin"     /\ run' = "region"
         \/ run = "region"    /\ run' \in {"preferred", "random", "ended"}
         \/ run = "preferred" /\ run' \in {"random", "build"}
         \/ run = "random"    /\ run' \in {"build", "ended"}
         \/ run = "build"     /\ run' \in {"configure", "ended"}
         \/ run = "configure" /\ (run' = "ended" \/ state' = "up")
         \/ run = "ended"     /\ run' = "failed"
         \/ run = "failed"    /\ run' = "sleep"
         \/ run = "sleep"     /\ run' = "loop" /\ regCtx' = "live"
<1>1. CASE Runner
  <2>1. CASE Return \/ BeginAttempt \/ FindRegion \/ AskPreferred
    BY <2>1 DEF Return, CheckContext, BeginAttempt, FindRegion, FirstChoice, GiveUp, AskPreferred,
       AfterPreferred
  <2>2. CASE RandomAccepts \/ RandomFails \/ RandomLimited \/ BuildDevice
    BY <2>2 DEF RandomAccepts, RandomFails, RandomLimited, BuildDevice, GiveUp
  <2>3. CASE ConfigureFails \/ Publish \/ EndAttempt \/ Wake
    BY <2>3 DEF ConfigureFails, GiveUp, Publish, EndAttempt, Wake
  <2>4. ~ (Teardown \/ CloseDevice)
    BY DEF Teardown, CloseDevice, IInv, Lifecycle
  <2>5. CASE CheckContext \/ CheckOutcome
    BY <2>5 DEF CheckContext, CheckOutcome
  <2> QED BY <1>1, <2>1, <2>2, <2>3, <2>4, <2>5 DEF Runner
<1>2. CASE ~Runner
  <2>1. UNCHANGED <<run, regCtx>>
    BY <1>2 DEF Next, Environment, Cancel, Handshake, Tick, Dialing, LoadNetstack,
       DialContext, HangUp, vars, StatsLoop, StatsRead, StatsUpdate, StatsExit,
       HealthLoop, Probe, HealthUpdate, HealthExit
  <2> QED BY <1>2, <2>1
<1> QED BY <1>1, <1>2

\* The retry loop brings the tunnel up when PIA and the network accept some of
\* its attempts (tunnel.go:144-184).
THEOREM RetriesSucceed == FairSpec /\ []StepsAreEnabled => EventuallyUp
<1> DEFINE Live == ctx = "live"
           Up   == state = "up"
           Here == IInv /\ Unlinked
           Loop == run = "loop"
           Begin == run = "begin"
           Region == run = "region"
           Ask  == run = "preferred"
           Pick == run = "random"
           Build == run = "build"
           Config == run = "configure"
           Ended == run = "ended"
           Failed == run = "failed"
           Sleep == run = "sleep"
           Time == regCtx = "live"
<1>1. Here /\ Live =>
        \/ Loop \/ Begin \/ Region \/ Ask \/ Pick
        \/ Build \/ Config \/ Ended \/ Failed \/ Sleep
  BY DEF IInv, TypeOK, Lifecycle, Unlinked
<1>2. Here /\ [Next]_vars /\ Live =>
        /\ Loop   => Loop' \/ Begin'
        /\ Begin  => Begin' \/ Region'
        /\ Region => Region' \/ Ask' \/ Pick' \/ Ended'
        /\ Ask    => Ask' \/ Pick' \/ Build'
        /\ Pick   => Pick' \/ Build' \/ Ended'
        /\ Build  => Build' \/ Config' \/ Ended'
        /\ Config => Config' \/ Ended' \/ Up'
        /\ Ended  => Ended' \/ Failed'
        /\ Failed => Failed' \/ Sleep'
        /\ Sleep  => Sleep' \/ (Loop' /\ Time')
  BY AttemptMoves
<1>3. Here /\ [Next]_vars /\ Live /\ <<Runner>>_vars =>
        /\ Loop   => Begin'
        /\ Begin  => Region'
        /\ Region => Ask' \/ Pick' \/ Ended'
        /\ Ask    => Pick' \/ Build'
        /\ Pick   => Build' \/ Ended'
        /\ Build  => Config' \/ Ended'
        /\ Config => Ended' \/ Up'
        /\ Ended  => Failed'
        /\ Failed => Sleep'
        /\ Sleep  => Loop'
  BY AttemptMoves
<1>4. <<RegionFound>>_vars => Ask' \/ Pick'
  BY DEF RegionFound, FindRegion, FirstChoice, GiveUp
<1>5. <<RandomAccepts>>_vars => Build'
  BY DEF RandomAccepts
<1>6. <<DeviceBuilt>>_vars => Config'
  BY DEF DeviceBuilt
<1>7. <<Publish>>_vars => Up'
  BY DEF Publish
<1>8. Here /\ Build => Unused # {}
  BY DEF IInv, NoDeviceLeak, Unlinked, Unused
<1>9. StepsAreEnabled =>
        /\ (Loop \/ Begin \/ Region \/ Ask \/ Pick
             \/ Build \/ Config \/ Ended \/ Failed \/ Sleep
              => ENABLED <<Runner>>_vars)
        /\ (Region => ENABLED <<RegionFound>>_vars)
        /\ (Pick /\ Live /\ Time => ENABLED <<RandomAccepts>>_vars)
        /\ (Build /\ Unused # {} => ENABLED <<DeviceBuilt>>_vars)
        /\ (Config => ENABLED <<Publish>>_vars)
  BY DEF StepsAreEnabled
<1>10. Init => Unlinked
  BY DEF Init, Idle, Unlinked
<1>11. IInv /\ Unlinked /\ [Next]_vars => Unlinked' \/ Up'
  BY UnlinkedStep
<1>12. /\ Time /\ [regCtx' = "live"]_regCtx => Time'
       /\ Region => ~Sleep
  OBVIOUS
<1> HIDE DEF Live, Up, Loop, Begin, Region, Ask, Pick, Build, Config, Ended, Failed,
              Sleep, Time
<1>13. FairSpec /\ []Live /\ []~Up => []Here
  BY <1>10, <1>11, Invariance, PTL DEF FairSpec, Spec
<1> HIDE DEF Here
<1>14. FairSpec /\ []StepsAreEnabled /\ []Live /\ []~Up => []<>Region /\ []<>Sleep
  BY <1>1, <1>2, <1>3, <1>9, <1>13, PTL DEF FairSpec, Fairness, Spec
<1>15. FairSpec /\ []StepsAreEnabled /\ []Live /\ []~Up /\ Cooperation
         => []<>(Ask \/ Pick)
  BY <1>4, <1>9, <1>14, PTL DEF Cooperation
<1>16. FairSpec /\ []StepsAreEnabled /\ []Live /\ []~Up /\ Cooperation
         => []<>(Pick \/ Build)
  BY <1>2, <1>3, <1>9, <1>13, <1>15, PTL DEF FairSpec, Fairness, Spec
<1>17. FairSpec /\ []StepsAreEnabled /\ []Live /\ []~Up /\ Cooperation => <>[]Time
  BY <1>2, <1>12, <1>13, <1>14, PTL DEF FairSpec, Fairness, Spec, Cooperation
<1>18. FairSpec /\ []StepsAreEnabled /\ []Live /\ []~Up /\ Cooperation => []<>Build
  BY <1>5, <1>9, <1>16, <1>17, PTL DEF Cooperation
<1>19. FairSpec /\ []StepsAreEnabled /\ []Live /\ []~Up /\ Cooperation => <>Up
  BY <1>6, <1>7, <1>8, <1>9, <1>13, <1>18, PTL DEF Cooperation
<1> QED BY <1>19, PTL DEF EventuallyUp, Live, Up

=============================================================================
