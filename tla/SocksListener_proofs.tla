------------------------ MODULE SocksListener_proofs ------------------------
(***************************************************************************)
(* Theorems about SocksListener, for every number of goroutines that start *)
(* and stop it, of restarts and of clients.                                *)
(***************************************************************************)
EXTENDS SocksListener, TLAPS

USE ListenerAssumption DEF listenerVars, stopVars

\* The invariant holds before the first Start.
LEMMA InitInv == Init => IInv
<1> SUFFICES ASSUME Init PROVE IInv
  OBVIOUS
<1>1. TypeOK
  BY DEF Init, TypeOK
<1>2. Owned /\ AcceptLoops /\ OpenIsOwned /\ StopsApart
  BY DEF Init, Owned, AcceptLoops, OpenIsOwned, StopsApart
<1> QED
  BY <1>1, <1>2 DEF IInv

\* The types are preserved.
LEMMA TypeStep == IInv /\ [Next]_vars => TypeOK'
<1> SUFFICES ASSUME IInv, [Next]_vars PROVE TypeOK'
  OBVIOUS
<1> USE DEF IInv, TypeOK, Owned
<1>1. CASE Cancel
  BY <1>1 DEF Cancel
<1>2. ASSUME NEW c \in Controllers, Starting(c) PROVE TypeOK'
  <2>1. CASE StartRunning(c) \/ StartFails(c)
    BY <2>1 DEF StartRunning, StartFails
  <2>2. CASE StartBinds(c)
    <3>1. socket' \in [Sockets -> {"unused", "open", "closed"}]
      BY <2>2 DEF StartBinds
    <3>2. serve' \in [Sockets -> {"unused", "accept", "leaving", "done"}]
      BY <2>2 DEF StartBinds
    <3>3. returned' \in [Controllers -> {"none", "nil", "err"}]
      BY <2>2 DEF StartBinds
    <3>4. current' \in Sockets \cup {NoSocket} /\ started' \in BOOLEAN
      BY <2>2 DEF StartBinds
    <3>5. UNCHANGED <<ctx, canceled, stop, stopping, conn>> /\ startErr' \in BOOLEAN
      BY <2>2 DEF StartBinds, stopVars
    <3> HIDE DEF Owned
    <3> QED
      BY <3>1, <3>2, <3>3, <3>4, <3>5
  <2> QED
    BY <1>2, <2>1, <2>2 DEF Starting
<1>3. ASSUME NEW c \in Controllers, Stopping(c) PROVE TypeOK'
  <2>1. CASE StopDetach(c)
    BY <2>1 DEF StopDetach
  <2>2. CASE StopCancel(c)
    BY <2>2 DEF StopCancel
  <2>3. CASE StopReturns(c)
    BY <2>3 DEF StopReturns
  <2> QED
    BY <1>3, <2>1, <2>2, <2>3 DEF Stopping
<1>4. ASSUME NEW s \in Sockets, Background(s) PROVE TypeOK'
  BY <1>4 DEF Background, WatchCloses, AcceptFails, ServeReturns, AfterServe
<1>5. ASSUME NEW s \in Sockets, NEW k \in Clients, Accept(s, k) PROVE TypeOK'
  BY <1>5 DEF Accept
<1>6. ASSUME NEW k \in Clients, ConnEnds(k) PROVE TypeOK'
  BY <1>6 DEF ConnEnds
<1>7. CASE UNCHANGED vars
  BY <1>7 DEF vars
<1> QED
  BY <1>1, <1>2, <1>3, <1>4, <1>5, <1>6, <1>7 DEF Next

\* Every open socket keeps an owner.
OwnersKnown == Owned /\ AcceptLoops /\ OpenIsOwned

LEMMA OwnersStep == IInv /\ [Next]_vars => OwnersKnown'
<1> SUFFICES ASSUME IInv, [Next]_vars PROVE OwnersKnown'
  OBVIOUS
<1>0. TypeOK /\ TypeOK'
  BY TypeStep DEF IInv
<1> USE <1>0 DEF IInv, OwnersKnown, Owned, AcceptLoops, OpenIsOwned
<1>1. CASE Cancel
  BY <1>1 DEF Cancel
<1>2. ASSUME NEW c \in Controllers, Starting(c) PROVE OwnersKnown'
  <2>1. CASE StartRunning(c) \/ StartFails(c)
    BY <2>1 DEF StartRunning, StartFails
  <2>2. CASE StartBinds(c)
    <3>1. PICK s \in Sockets :
            /\ socket[s] = "unused"
            /\ socket' = [socket EXCEPT ![s] = "open"]
            /\ serve' = [serve EXCEPT ![s] = "accept"]
            /\ current' = s
      BY <2>2 DEF StartBinds
    <3>2. Owned'
      BY <2>2, <3>1 DEF StartBinds
    <3>3. AcceptLoops'
      BY <3>1 DEF TypeOK
    <3>4. OpenIsOwned'
      BY <2>2, <3>1 DEF StartBinds, TypeOK
    <3> QED
      BY <3>2, <3>3, <3>4
  <2> QED
    BY <1>2, <2>1, <2>2 DEF Starting
<1>3. ASSUME NEW c \in Controllers, Stopping(c) PROVE OwnersKnown'
  <2>1. CASE StopDetach(c)
    BY <2>1 DEF StopDetach, TypeOK
  <2>2. CASE StopCancel(c)
    BY <2>2 DEF StopCancel, TypeOK
  <2>3. CASE StopReturns(c)
    <3>1. socket[stopping[c]] = "closed"
      BY <2>3 DEF StopReturns, Drained, TypeOK
    <3>2. OpenIsOwned'
      BY <2>3, <3>1 DEF StopReturns, TypeOK
    <3>3. Owned' /\ AcceptLoops'
      BY <2>3 DEF StopReturns, TypeOK
    <3> QED
      BY <3>2, <3>3
  <2> QED
    BY <1>3, <2>1, <2>2, <2>3 DEF Stopping
<1>4. ASSUME NEW s \in Sockets, Background(s) PROVE OwnersKnown'
  <2>1. CASE WatchCloses(s)
    BY <2>1 DEF WatchCloses, TypeOK
  <2>2. CASE AcceptFails(s)
    BY <2>2 DEF AcceptFails, TypeOK
  <2>3. CASE ServeReturns(s)
    BY <2>3 DEF ServeReturns, AfterServe, TypeOK
  <2> QED
    BY <1>4, <2>1, <2>2, <2>3 DEF Background
<1>5. ASSUME NEW s \in Sockets, NEW k \in Clients, Accept(s, k) PROVE OwnersKnown'
  BY <1>5 DEF Accept
<1>6. ASSUME NEW k \in Clients, ConnEnds(k) PROVE OwnersKnown'
  BY <1>6 DEF ConnEnds
<1>7. CASE UNCHANGED vars
  BY <1>7 DEF vars
<1> QED
  BY <1>1, <1>2, <1>3, <1>4, <1>5, <1>6, <1>7 DEF Next

\* Stops stay apart: a Start takes a socket nobody has had.
LEMMA ApartStep == IInv /\ [Next]_vars => StopsApart'
<1> SUFFICES ASSUME IInv, [Next]_vars PROVE StopsApart'
  OBVIOUS
<1>0. TypeOK /\ TypeOK'
  BY TypeStep DEF IInv
<1> USE <1>0 DEF IInv, Owned, AcceptLoops, StopsApart
<1>1. CASE Cancel
  BY <1>1 DEF Cancel
<1>2. ASSUME NEW c \in Controllers, Starting(c) PROVE StopsApart'
  <2>1. CASE StartRunning(c) \/ StartFails(c)
    BY <2>1 DEF StartRunning, StartFails
  <2>2. CASE StartBinds(c)
    <3>1. PICK s \in Sockets :
            /\ socket[s] = "unused"
            /\ socket' = [socket EXCEPT ![s] = "open"]
            /\ current' = s
      BY <2>2 DEF StartBinds
    <3> QED
      BY <2>2, <3>1 DEF StartBinds, TypeOK
  <2> QED
    BY <1>2, <2>1, <2>2 DEF Starting
<1>3. ASSUME NEW c \in Controllers, Stopping(c) PROVE StopsApart'
  <2>1. CASE StopDetach(c)
    BY <2>1 DEF StopDetach, TypeOK
  <2>2. CASE StopCancel(c)
    BY <2>2 DEF StopCancel, TypeOK
  <2>3. CASE StopReturns(c)
    BY <2>3 DEF StopReturns, TypeOK
  <2> QED
    BY <1>3, <2>1, <2>2, <2>3 DEF Stopping
<1>4. ASSUME NEW s \in Sockets, Background(s) PROVE StopsApart'
  BY <1>4 DEF Background, WatchCloses, AcceptFails, ServeReturns, AfterServe, TypeOK
<1>5. ASSUME NEW s \in Sockets, NEW k \in Clients, Accept(s, k) PROVE StopsApart'
  BY <1>5 DEF Accept
<1>6. ASSUME NEW k \in Clients, ConnEnds(k) PROVE StopsApart'
  BY <1>6 DEF ConnEnds
<1>7. CASE UNCHANGED vars
  BY <1>7 DEF vars
<1> QED
  BY <1>1, <1>2, <1>3, <1>4, <1>5, <1>6, <1>7 DEF Next

\* The whole invariant is preserved.
LEMMA InvStep == IInv /\ [Next]_vars => IInv'
BY TypeStep, OwnersStep, ApartStep DEF IInv, OwnersKnown

\* The invariant holds in every reachable state.
THEOREM Invariance == Spec => []IInv
<1> QED
  BY InitInv, InvStep, PTL DEF Spec

\* Start and Stop, called by any number of goroutines in any order, leave no
\* socket without an owner (socks_listener.go:174).
THEOREM SocketsAreOwned == Spec => []OpenIsOwned
<1>1. IInv => OpenIsOwned
  BY DEF IInv
<1> QED
  BY <1>1, Invariance, PTL

\* Once the last Stop has returned the address is free again
\* (socks_listener.go:19, 169).
THEOREM StopFreesTheAddress == Spec => []StoppedMeansUnbound
<1>1. IInv => StoppedMeansUnbound
  BY DEF IInv, TypeOK, Owned, OpenIsOwned, StoppedMeansUnbound
<1> QED
  BY <1>1, Invariance, PTL

\* A Stop that waits can always be helped on by some goroutine, whatever the
\* others do (socks_listener.go:193-198).
THEOREM StopsProceed == Spec => []StopNeverStuck
<1>1. IInv => StopNeverStuck
  BY DEF IInv, TypeOK, Owned, AcceptLoops, StopsApart, StopNeverStuck, ContextDone,
     Drained
<1> QED
  BY <1>1, Invariance, PTL

\* The goroutines of a Start only come nearer to their end, in at most three
\* steps, whoever starts, stops and connects meanwhile.
THEOREM EndsDrawNear == Spec => GoroutinesEnd
<1>1. IInv /\ [Next]_vars =>
        [\A s \in Sockets : socket[s] # "unused" =>
           Left(s)' <= Left(s) /\ (Background(s) => Left(s)' < Left(s))]_vars
  <2> SUFFICES ASSUME IInv, Next, NEW s \in Sockets, socket[s] # "unused"
               PROVE  Left(s)' <= Left(s) /\ (Background(s) => Left(s)' < Left(s))
    BY DEF vars
  <2> USE DEF IInv, TypeOK, AcceptLoops, Left
  <2>1. CASE Background(s)
    BY <2>1 DEF Background, WatchCloses, AcceptFails, ServeReturns, AfterServe
  <2>2. CASE ~Background(s)
    <3>1. CASE Cancel
      BY <2>2, <3>1 DEF Cancel
    <3>2. ASSUME NEW c \in Controllers, Starting(c) PROVE Left(s)' <= Left(s)
      BY <3>2 DEF Starting, StartRunning, StartBinds, StartFails
    <3>3. ASSUME NEW c \in Controllers, Stopping(c) PROVE Left(s)' <= Left(s)
      BY <3>3 DEF Stopping, StopDetach, StopCancel, StopReturns
    <3>4. ASSUME NEW t \in Sockets, t # s, Background(t) PROVE Left(s)' <= Left(s)
      BY <3>4 DEF Background, WatchCloses, AcceptFails, ServeReturns, AfterServe
    <3>5. ASSUME NEW t \in Sockets, NEW k \in Clients, Accept(t, k)
          PROVE  Left(s)' <= Left(s)
      BY <3>5 DEF Accept
    <3>6. ASSUME NEW k \in Clients, ConnEnds(k) PROVE Left(s)' <= Left(s)
      BY <3>6 DEF ConnEnds
    <3> QED
      BY <2>2, <3>1, <3>2, <3>3, <3>4, <3>5, <3>6 DEF Next
  <2> QED
    BY <2>1, <2>2
<1> QED
  BY <1>1, Invariance, PTL DEF Spec, GoroutinesEnd

\* SocksListener implements ListenerPromise: a Start binds to a free address
\* only, and a Stop returns when the socket it has taken is closed
\* (socks_listener.go:98-203).
THEOREM KeepsPromise == Spec => PromiseKept
<1>1. Init => Promise!Init
  BY DEF Init, Promise!Init
<1>2. IInv /\ [Next]_vars => [Promise!Next]_(Promise!vars)
  <2> SUFFICES ASSUME IInv, [Next]_vars
               PROVE  Promise!Next \/ UNCHANGED Promise!vars
    OBVIOUS
  <2> USE DEF IInv, TypeOK, Owned, AcceptLoops, Promise!vars
  <2>1. ASSUME NEW c \in Controllers, Starting(c)
        PROVE  Promise!Next \/ UNCHANGED Promise!vars
    <3>1. CASE StartRunning(c) \/ StartFails(c)
      BY <3>1 DEF StartRunning, StartFails
    <3>2. CASE StartBinds(c)
      <4>1. PICK s \in Sockets :
              /\ socket[s] = "unused"
              /\ socket' = [socket EXCEPT ![s] = "open"]
              /\ current' = s
        BY <3>2 DEF StartBinds
      <4>2. /\ {t \in Sockets : socket[t] = "open"} = {}
            /\ {t \in Sockets : socket'[t] = "open"} = {s}
            /\ {t \in Sockets : socket'[t] = "closed"} = {t \in Sockets : socket[t] = "closed"}
        BY <3>2, <4>1 DEF StartBinds
      <4>3. stopping[c] = NoSocket /\ current = NoSocket /\ UNCHANGED <<stopping, conn>>
        BY <3>2 DEF StartBinds
      <4>4. Promise!Start(c)
        BY <4>1, <4>2, <4>3 DEF Promise!Start
      <4> QED
        BY <4>4 DEF Promise!Next
    <3> QED
      BY <2>1, <3>1, <3>2 DEF Starting
  <2>2. ASSUME NEW c \in Controllers, Stopping(c)
        PROVE  Promise!Next \/ UNCHANGED Promise!vars
    <3>1. CASE StopDetach(c)
      BY <3>1 DEF StopDetach, Promise!StopBegins, Promise!Next
    <3>2. CASE StopCancel(c)
      BY <3>2 DEF StopCancel
    <3>3. CASE StopReturns(c)
      <4>1. stopping[c] \in Sockets /\ socket[stopping[c]] = "closed"
        BY <3>3 DEF StopReturns, Drained
      <4>2. /\ stopping' = [stopping EXCEPT ![c] = NoSocket]
            /\ UNCHANGED <<current, socket, conn>>
        BY <3>3 DEF StopReturns
      <4>3. Promise!StopReturns(c)
        BY <4>1, <4>2 DEF Promise!StopReturns
      <4> QED
        BY <4>3 DEF Promise!Next
    <3> QED
      BY <2>2, <3>1, <3>2, <3>3 DEF Stopping
  <2>3. ASSUME NEW s \in Sockets, Background(s)
        PROVE  Promise!Next \/ UNCHANGED Promise!vars
    <3>1. UNCHANGED <<current, stopping, conn>>
      BY <2>3 DEF Background, WatchCloses, AcceptFails, ServeReturns
    <3>2. CASE socket' = [socket EXCEPT ![s] = "closed"] /\ socket[s] = "open"
      <4>1. /\ {t \in Sockets : socket'[t] = "open"}
               = {t \in Sockets : socket[t] = "open"} \ {s}
            /\ {t \in Sockets : socket'[t] = "closed"}
               = {t \in Sockets : socket[t] = "closed"} \cup {s}
        BY <3>2
      <4>2. Promise!Lose(s)
        BY <3>1, <3>2, <4>1 DEF Promise!Lose
      <4> QED
        BY <4>2 DEF Promise!Next
    <3>3. CASE socket' = socket
      BY <3>1, <3>3
    <3>4. CASE socket' = [socket EXCEPT ![s] = "closed"] /\ socket[s] = "closed"
      BY <3>1, <3>4
    <3> QED
      BY <2>3, <3>2, <3>3, <3>4
      DEF Background, WatchCloses, AcceptFails, ServeReturns, AfterServe
  <2>4. ASSUME NEW s \in Sockets, NEW k \in Clients, Accept(s, k)
        PROVE  Promise!Next \/ UNCHANGED Promise!vars
    BY <2>4 DEF Accept, Promise!Accept, Promise!Next
  <2>5. ASSUME NEW k \in Clients, ConnEnds(k)
        PROVE  Promise!Next \/ UNCHANGED Promise!vars
    BY <2>5 DEF ConnEnds, Promise!ConnEnds, Promise!Next
  <2>6. CASE Cancel \/ UNCHANGED vars
    BY <2>6 DEF Cancel, vars
  <2> QED
    BY <2>1, <2>2, <2>3, <2>4, <2>5, <2>6 DEF Next
<1> QED
  BY <1>1, <1>2, Invariance, PTL DEF Spec, PromiseKept, Promise!Spec

(***************************************************************************)
(* Liveness.  What ENABLED says of the fair steps is StepsAreEnabled; TLC  *)
(* agrees with it.                                                         *)
(***************************************************************************)

\* A socket and its accept loop go one way only.
LEMMA SocketStep ==
  ASSUME IInv, [Next]_vars, NEW s \in Sockets, socket[s] # "unused"
  PROVE  /\ socket'[s] \in {socket[s], "closed"}
         /\ serve[s] = "accept" => serve'[s] \in {"accept", "leaving"}
         /\ serve[s] = "leaving" => serve'[s] \in {"leaving", "done"}
         /\ serve[s] = "done" => serve'[s] = "done"
<1> USE DEF IInv, TypeOK
<1>1. CASE Cancel \/ UNCHANGED vars
  BY <1>1 DEF Cancel, vars
<1>2. ASSUME NEW c \in Controllers, Starting(c)
      PROVE  socket'[s] = socket[s] /\ serve'[s] = serve[s]
  BY <1>2 DEF Starting, StartRunning, StartBinds, StartFails
<1>3. ASSUME NEW c \in Controllers, Stopping(c)
      PROVE  UNCHANGED <<socket, serve>>
  BY <1>3 DEF Stopping, StopDetach, StopCancel, StopReturns
<1>4. ASSUME NEW t \in Sockets, Background(t)
      PROVE  /\ socket'[s] \in {socket[s], "closed"}
             /\ \/ serve'[s] = serve[s]
                \/ serve[s] = "accept" /\ serve'[s] = "leaving"
                \/ serve[s] = "leaving" /\ serve'[s] = "done"
  BY <1>4 DEF Background, WatchCloses, AcceptFails, ServeReturns, AfterServe
<1>5. ASSUME NEW t \in Sockets, NEW k \in Clients, Accept(t, k)
      PROVE  UNCHANGED <<socket, serve>>
  BY <1>5 DEF Accept
<1>6. ASSUME NEW k \in Clients, ConnEnds(k) PROVE UNCHANGED <<socket, serve>>
  BY <1>6 DEF ConnEnds
<1> QED
  BY <1>1, <1>2, <1>3, <1>4, <1>5, <1>6 DEF Next

\* A Stop keeps the socket it has taken until it returns.
LEMMA StopStep ==
  ASSUME IInv, [Next]_vars, NEW c \in Controllers, stop[c] # "out"
  PROVE  /\ stop'[c] # "out" => stopping'[c] = stopping[c]
         /\ stop[c] = "cancel" => stop'[c] \in {"cancel", "wait"}
         /\ stop[c] = "wait" => stop'[c] \in {"wait", "out"}
<1> USE DEF IInv, TypeOK
<1>1. CASE Cancel \/ UNCHANGED vars
  BY <1>1 DEF Cancel, vars
<1>2. ASSUME NEW d \in Controllers, Starting(d) PROVE UNCHANGED <<stop, stopping>>
  BY <1>2 DEF Starting, StartRunning, StartBinds, StartFails
<1>3. ASSUME NEW d \in Controllers, Stopping(d)
      PROVE  /\ stop'[c] # "out" => stopping'[c] = stopping[c]
             /\ stop[c] = "cancel" => stop'[c] \in {"cancel", "wait"}
             /\ stop[c] = "wait" => stop'[c] \in {"wait", "out"}
  BY <1>3 DEF Stopping, StopDetach, StopCancel, StopReturns
<1>4. ASSUME NEW t \in Sockets, Background(t) PROVE UNCHANGED <<stop, stopping>>
  BY <1>4 DEF Background, WatchCloses, AcceptFails, ServeReturns
<1>5. ASSUME NEW t \in Sockets, NEW k \in Clients, Accept(t, k)
      PROVE  UNCHANGED <<stop, stopping>>
  BY <1>5 DEF Accept
<1>6. ASSUME NEW k \in Clients, ConnEnds(k) PROVE UNCHANGED <<stop, stopping>>
  BY <1>6 DEF ConnEnds
<1> QED
  BY <1>1, <1>2, <1>3, <1>4, <1>5, <1>6 DEF Next

\* The Stop of c waits for s, or is about to.
Takes(c, s) == stop[c] # "out" /\ stopping[c] = s
Waits(c, s) == stop[c] = "wait" /\ stopping[c] = s

\* What a Stop has taken is closed and drained, and then it returns.
LEMMA TakenIsDrained ==
  ASSUME NEW c \in Controllers, NEW s \in Sockets
  PROVE  FairSpec /\ []StepsAreEnabled => [](Takes(c, s) => <>(stop[c] = "out"))
<1> DEFINE Before  == stop[c] = "cancel" /\ stopping[c] = s
           Opened  == Waits(c, s) /\ socket[s] = "open" /\ serve[s] = "accept"
           Closed  == Waits(c, s) /\ socket[s] = "closed" /\ serve[s] = "accept"
           Leaving == Waits(c, s) /\ serve[s] = "leaving"
           Done    == Waits(c, s) /\ serve[s] = "done"
           Out     == stop[c] = "out"
<1>1. FairSpec => Spec /\ StopIsFair(c) /\ ServeIsFair(s)
  BY DEF FairSpec
<1>2. IInv /\ Waits(c, s) => Opened \/ Closed \/ Leaving \/ Done
  BY DEF IInv, TypeOK, AcceptLoops, StopsApart, Waits
<1>3. IInv /\ Takes(c, s) => Before \/ Waits(c, s)
  BY DEF IInv, TypeOK, Takes, Waits
<1>4. IInv /\ [Next]_vars /\ Before => Before' \/ Waits(c, s)'
  BY StopStep DEF IInv, TypeOK, Waits
<1>5. IInv /\ [Next]_vars /\ Waits(c, s) => Waits(c, s)' \/ Out'
  BY StopStep DEF IInv, TypeOK, Waits
<1>6. IInv /\ [Next]_vars /\ Opened => Opened' \/ Closed' \/ Leaving' \/ Out'
  BY <1>5, SocketStep DEF Waits
<1>7. IInv /\ [Next]_vars /\ Closed => Closed' \/ Leaving' \/ Out'
  BY <1>5, SocketStep DEF Waits
<1>8. IInv /\ [Next]_vars /\ Leaving => Leaving' \/ Done' \/ Out'
  BY <1>5, SocketStep DEF IInv, AcceptLoops, Waits
<1>9. IInv /\ [Next]_vars /\ Done => Done' \/ Out'
  BY <1>5, SocketStep DEF IInv, AcceptLoops, Waits
<1>10. IInv /\ Before /\ <<StopCancel(c)>>_vars => Waits(c, s)'
  BY DEF IInv, TypeOK, StopCancel, Waits
<1>11. IInv /\ Opened /\ <<WatchCloses(s)>>_vars => ~Opened'
  BY DEF IInv, TypeOK, WatchCloses
<1>12. IInv /\ Closed /\ <<AcceptEnds(s)>>_vars => ~Closed'
  BY DEF IInv, TypeOK, AcceptEnds, AcceptFails
<1>13. IInv /\ Leaving /\ <<ServeReturns(s)>>_vars => ~Leaving'
  BY DEF IInv, TypeOK, ServeReturns
<1>14. IInv /\ Done /\ <<StopReturns(c)>>_vars => Out'
  BY DEF IInv, TypeOK, StopReturns
<1>15. IInv /\ StepsAreEnabled =>
         /\ Before  => ENABLED <<StopCancel(c)>>_vars
         /\ Opened  => ENABLED <<WatchCloses(s)>>_vars
         /\ Closed  => ENABLED <<AcceptEnds(s)>>_vars
         /\ Leaving => ENABLED <<ServeReturns(s)>>_vars
         /\ Done    => ENABLED <<StopReturns(c)>>_vars
  BY DEF StepsAreEnabled, IInv, StopsApart, Waits, ContextDone, Drained
<1> HIDE DEF Before, Opened, Closed, Leaving, Done, Out
<1>16. FairSpec /\ []StepsAreEnabled => [](Takes(c, s) => <>Out)
  BY <1>1, <1>2, <1>3, <1>4, <1>5, <1>6, <1>7, <1>8, <1>9, <1>10, <1>11, <1>12,
     <1>13, <1>14, <1>15, Invariance, PTL DEF Spec, StopIsFair, ServeIsFair
<1> QED
  BY <1>16 DEF Out

\* Stop returns, although it waits for other goroutines (socks_listener.go:197).
THEOREM StopsReturn == FairSpec /\ []StepsAreEnabled => StopTerminates
<1> SUFFICES ASSUME NEW c \in Controllers
             PROVE  FairSpec /\ []StepsAreEnabled =>
                      (stop[c] # "out" ~> stop[c] = "out")
  BY DEF StopTerminates
<1>1. FairSpec /\ []StepsAreEnabled =>
        \A s \in Sockets : [](Takes(c, s) => <>(stop[c] = "out"))
  BY TakenIsDrained
<1>2. (\A s \in Sockets : [](Takes(c, s) => <>(stop[c] = "out")))
        => [](\A s \in Sockets : Takes(c, s) => <>(stop[c] = "out"))
  OBVIOUS
<1>3. (\A s \in Sockets : Takes(c, s) => <>(stop[c] = "out"))
        => ((\E s \in Sockets : Takes(c, s)) => <>(stop[c] = "out"))
  OBVIOUS
<1>4. IInv /\ stop[c] # "out" => \E s \in Sockets : Takes(c, s)
  BY DEF IInv, TypeOK, Owned, Takes
<1>5. FairSpec => Spec
  BY DEF FairSpec
<1> QED
  BY <1>1, <1>2, <1>3, <1>4, <1>5, Invariance, PTL

\* While a socket is open no other one is opened, and a context stays canceled.
LEMMA OpenStep ==
  ASSUME IInv, [Next]_vars, NEW s \in Sockets, socket[s] = "open"
  PROVE  /\ \A t \in Sockets \ {s} : socket'[t] # "open"
         /\ ctx = "canceled" => ctx' = "canceled"
<1> USE DEF IInv, TypeOK
<1>0. \A t \in Sockets \ {s} : socket[t] # "open"
  BY DEF StopsApart
<1>1. CASE Cancel \/ UNCHANGED vars
  BY <1>0, <1>1 DEF Cancel, vars
<1>2. ASSUME NEW c \in Controllers, Starting(c) PROVE UNCHANGED <<socket, ctx>>
  BY <1>2 DEF Starting, StartRunning, StartBinds, StartFails
<1>3. ASSUME NEW c \in Controllers, Stopping(c) PROVE UNCHANGED <<socket, ctx>>
  BY <1>3 DEF Stopping, StopDetach, StopCancel, StopReturns
<1>4. ASSUME NEW t \in Sockets, Background(t)
      PROVE  ctx' = ctx /\ \A u \in Sockets : socket'[u] \in {socket[u], "closed"}
  BY <1>4 DEF Background, WatchCloses, AcceptFails, ServeReturns, AfterServe
<1>5. ASSUME NEW t \in Sockets, NEW k \in Clients, Accept(t, k)
      PROVE  UNCHANGED <<socket, ctx>>
  BY <1>5 DEF Accept
<1>6. ASSUME NEW k \in Clients, ConnEnds(k) PROVE UNCHANGED <<socket, ctx>>
  BY <1>6 DEF ConnEnds
<1> HIDE DEF IInv, TypeOK
<1> QED
  BY <1>0, <1>1, <1>2, <1>3, <1>4, <1>5, <1>6 DEF Next

\* A cancellation frees the address, if nobody calls Stop and even if somebody
\* calls Start meanwhile (socks_listener.go:150).
THEOREM CanceledAddressIsFreed == FairSpec /\ []StepsAreEnabled => CancelCloses
<1> DEFINE Bound(s) == ctx = "canceled" /\ socket[s] = "open"
           Free     == \A s \in Sockets : socket[s] # "open"
<1>1. ASSUME NEW s \in Sockets
      PROVE  FairSpec /\ []StepsAreEnabled => [](Bound(s) => <>Free)
  <2>1. FairSpec => Spec /\ ServeIsFair(s)
    BY DEF FairSpec
  <2>2. IInv /\ [Next]_vars /\ Bound(s) => Bound(s)' \/ Free'
    BY OpenStep, InvStep DEF IInv, TypeOK
  <2>3. IInv /\ Bound(s) /\ <<WatchCloses(s)>>_vars => ~Bound(s)'
    BY DEF IInv, TypeOK, WatchCloses
  <2>4. StepsAreEnabled /\ Bound(s) => ENABLED <<WatchCloses(s)>>_vars
    BY DEF StepsAreEnabled, ContextDone
  <2> HIDE DEF Bound, Free
  <2> QED
    BY <2>1, <2>2, <2>3, <2>4, Invariance, PTL DEF Spec, ServeIsFair
<1> HIDE DEF Bound, Free
<1>2. FairSpec /\ []StepsAreEnabled => \A s \in Sockets : [](Bound(s) => <>Free)
  BY <1>1
<1>3. (\A s \in Sockets : [](Bound(s) => <>Free))
        => [](\A s \in Sockets : Bound(s) => <>Free)
  OBVIOUS
<1>4. (\A s \in Sockets : Bound(s) => <>Free)
        => ((\E s \in Sockets : Bound(s)) => <>Free)
  OBVIOUS
<1>5. ctx = "canceled" => Free \/ \E s \in Sockets : Bound(s)
  BY DEF Bound, Free
<1>6. FairSpec /\ []StepsAreEnabled => (ctx = "canceled" ~> Free)
  BY <1>2, <1>3, <1>4, <1>5, PTL
<1> QED
  BY <1>6 DEF CancelCloses, Free
=============================================================================
