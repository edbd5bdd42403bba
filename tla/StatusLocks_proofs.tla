------------------------- MODULE StatusLocks_proofs -------------------------
(* The locks of the status page, for any number of tunnels.                  *)
EXTENDS StatusLocks, TLAPS

\* PIAClient.mu changes hands: the tunnels' calls.
LEMMA ClientStep ==
  ASSUME IInv, NEW t \in Tunnels, CallClient(t) \/ Client(t)
  PROVE  IInv'
<1> USE LocksAssumption
<1>0. UNCHANGED <<writer, dialer, status, shown, current>>
  BY DEF CallClient, Client, LockClient, FetchDone
<1>1. TypeOK'
  BY <1>0 DEF IInv, TypeOK, CallClient, Client, LockClient, FetchDone, Unlocked
<1>2. \A u \in Tunnels : pia' = u <=> run'[u] = "fetch"
  BY DEF IInv, TypeOK, CallClient, Client, LockClient, FetchDone, Unlocked
<1> QED BY <1>0, <1>1, <1>2 DEF IInv, ReadLocked

\* A tunnel's own lock changes hands: its writer and its dialer.
LEMMA TunnelLockStep ==
  ASSUME IInv, NEW t \in Tunnels,
         WantWrite(t) \/ Writing(t) \/ WantDial(t) \/ LoadNetstack(t)
  PROVE  IInv'
<1>0. UNCHANGED <<pia, run, status, shown, current>>
  BY DEF WantWrite, Writing, LockWrite, UnlockWrite, WantDial, LoadNetstack
<1>1. TypeOK'
  BY <1>0 DEF IInv, TypeOK, WantWrite, Writing, LockWrite, UnlockWrite, WantDial,
     LoadNetstack
<1>2. \A u \in Tunnels : writer'[u] = "hold" => ~ReadLocked(u)
  BY DEF IInv, TypeOK, WantWrite, Writing, LockWrite, UnlockWrite, WantDial,
     LoadNetstack
<1> QED BY <1>0, <1>1, <1>2 DEF IInv, ReadLocked

\* The handler takes and releases the read locks.
LEMMA StatusStep ==
  ASSUME IInv, BeginStatus \/ Status
  PROVE  IInv'
<1> USE LocksAssumption DEF IInv, TypeOK
<1>1. CASE BeginStatus
  BY <1>1 DEF BeginStatus, ReadLocked
<1>2. CASE NextProxy
  BY <1>2 DEF NextProxy, ReadLocked
<1>3. CASE LockRead
  BY <1>3 DEF LockRead, ReadersAdmitted, ReadLocked
<1>4. CASE GetToken
  BY <1>4 DEF GetToken, ReadLocked
<1> QED BY <1>1, <1>2, <1>3, <1>4 DEF Status

\* The client's lock is held by the tunnel that is in a request, and a status
\* that is being copied is not being written: the lines between RLock and
\* RUnlock of Snapshot, and those between Lock and Unlock of the tunnel.
THEOREM Invariance == Spec => []IInv
<1>1. Init => IInv
  BY LocksAssumption DEF Init, IInv, TypeOK, ReadLocked
<1>2. IInv /\ [Next]_vars => IInv'
  <2> SUFFICES ASSUME IInv, [Next]_vars PROVE IInv'
    OBVIOUS
  <2>1. ASSUME NEW t \in Tunnels, CallClient(t) \/ Client(t) PROVE IInv'
    BY <2>1, ClientStep
  <2>2. ASSUME NEW t \in Tunnels,
               WantWrite(t) \/ Writing(t) \/ WantDial(t) \/ LoadNetstack(t)
        PROVE  IInv'
    BY <2>2, TunnelLockStep
  <2>3. CASE BeginStatus \/ Status
    BY <2>3, StatusStep
  <2>4. CASE UNCHANGED vars
    BY <2>4 DEF vars, IInv, TypeOK, ReadLocked
  <2> QED BY <2>1, <2>2, <2>3, <2>4 DEF Next
<1> QED BY <1>1, <1>2, PTL DEF Spec

\* The goroutines by their kind.
LEMMA Kinds ==
  ASSUME NEW g \in Goroutines
  PROVE  \/ \E t \in Tunnels : g \in {<<"run", t>>, <<"writer", t>>, <<"dialer", t>>}
         \/ g = Handler
BY DEF Goroutines

\* What each kind waits for, and who may proceed, with the tuples taken apart.
LEMMA RunWaits ==
  ASSUME IInv, NEW t \in Tunnels, run[t] = "want"
  PROVE  LET g == <<"run", t>> IN
         MayProceed(g) \/ \E h \in Goroutines : WaitsFor(g, h) /\ MayProceed(h)
<1> DEFINE g == <<"run", t>>
<1>1. CASE pia = Nobody
  BY <1>1 DEF MayProceed
<1>2. CASE pia # Nobody
  <2>1. pia \in Tunnels /\ run[pia] = "fetch"
    BY <1>2 DEF IInv, TypeOK
  <2>2. <<"run", pia>> \in Goroutines /\ MayProceed(<<"run", pia>>)
    BY <2>1 DEF Goroutines, MayProceed
  <2>3. WaitsFor(g, <<"run", pia>>)
    BY DEF WaitsFor, Asks
  <2> QED BY <2>2, <2>3
<1> QED BY <1>1, <1>2

LEMMA TokenWaits ==
  ASSUME IInv, status = "token"
  PROVE  \/ MayProceed(Handler)
         \/ \E h \in Goroutines : WaitsFor(Handler, h) /\ MayProceed(h)
<1>1. CASE pia = Nobody
  BY <1>1 DEF MayProceed, Handler
<1>2. CASE pia # Nobody
  <2>1. pia \in Tunnels /\ run[pia] = "fetch"
    BY <1>2 DEF IInv, TypeOK
  <2>2. <<"run", pia>> \in Goroutines /\ MayProceed(<<"run", pia>>)
    BY <2>1 DEF Goroutines, MayProceed
  <2>3. WaitsFor(Handler, <<"run", pia>>)
    BY DEF WaitsFor, Asks, Handler
  <2> QED BY <2>2, <2>3
<1> QED BY <1>1, <1>2

\* A writer that has asked waits for nobody but a snapshot of its own tunnel.
LEMMA WriterWaits ==
  ASSUME IInv, NEW t \in Tunnels, writer[t] # "away"
  PROVE  LET g == <<"writer", t>> IN
         \/ MayProceed(g)
         \/ WaitsFor(g, Handler) /\ status = "token"
<1>1. CASE writer[t] = "hold"
  BY <1>1 DEF MayProceed
<1>2. CASE writer[t] = "want"
  BY <1>2 DEF MayProceed, WaitsFor, Asks, ReadLocked
<1> QED BY <1>1, <1>2 DEF IInv, TypeOK

\* From a reader down: the writer, the snapshot it waits for, the request.
LEMMA BehindWriter ==
  ASSUME IInv, NEW t \in Tunnels, writer[t] # "away"
  PROVE  LET g == <<"writer", t>> IN
         \/ MayProceed(g)
         \/ \E h \in Goroutines : WaitsFor(g, h) /\
              \/ MayProceed(h)
              \/ \E i \in Goroutines : WaitsFor(h, i) /\ MayProceed(i)
<1>1. Handler \in Goroutines
  BY DEF Goroutines
<1>2. CASE MayProceed(<<"writer", t>>)
  BY <1>2
<1>3. CASE WaitsFor(<<"writer", t>>, Handler) /\ status = "token"
  BY <1>1, <1>3, TokenWaits
<1> QED BY <1>2, <1>3, WriterWaits

\* No deadlock among Tunnel.mu and PIAClient.mu, for any number of tunnels,
\* dialers and requests: whoever stands before a lock has in front of it at most
\* three waits and then somebody who is at work or has only to take its lock.
\* Snapshot takes the two locks nested (tunnel.go:574 and 619); nobody takes
\* them the other way round.
LEMMA ChainsEnd ==
  ASSUME IInv
  PROVE  SomeoneProceeds
<1> SUFFICES ASSUME NEW g \in Goroutines, Asks(g)
             PROVE  \/ MayProceed(g)
                    \/ \E h \in Goroutines : WaitsFor(g, h) /\
                         \/ MayProceed(h)
                         \/ \E i \in Goroutines : WaitsFor(h, i) /\
                              \/ MayProceed(i)
                              \/ \E j \in Goroutines : WaitsFor(i, j) /\ MayProceed(j)
  BY DEF SomeoneProceeds
<1>1. CASE \E t \in Tunnels : g = <<"run", t>>
  <2>1. PICK t \in Tunnels : g = <<"run", t>>
    BY <1>1
  <2>2. run[t] = "want"
    BY <2>1 DEF Asks
  <2> QED BY <2>1, <2>2, RunWaits
<1>2. CASE \E t \in Tunnels : g = <<"writer", t>>
  <2>1. PICK t \in Tunnels : g = <<"writer", t>>
    BY <1>2
  <2>2. writer[t] # "away"
    BY <2>1 DEF Asks
  <2> QED BY <2>1, <2>2, BehindWriter
<1>3. CASE \E t \in Tunnels : g = <<"dialer", t>>
  <2>1. PICK t \in Tunnels : g = <<"dialer", t>>
    BY <1>3
  <2>2. dialer[t] = "want"
    BY <2>1 DEF Asks
  <2>3. CASE writer[t] = "away"
    BY <2>1, <2>2, <2>3 DEF MayProceed, ReadersAdmitted
  <2>4. CASE writer[t] # "away"
    <3>1. <<"writer", t>> \in Goroutines
      BY DEF Goroutines
    <3>2. WaitsFor(g, <<"writer", t>>)
      BY <2>1, <2>2, <2>4 DEF WaitsFor, Asks
    <3> QED BY <2>4, <3>1, <3>2, BehindWriter
  <2> QED BY <2>3, <2>4
<1>4. CASE g = Handler
  <2>1. CASE status = "token"
    BY <1>4, <2>1, TokenWaits
  <2>2. CASE status = "want"
    <3>1. current \in Tunnels
      BY <2>2 DEF IInv, TypeOK
    <3>2. CASE writer[current] = "away"
      BY <1>4, <2>2, <3>2 DEF MayProceed, ReadersAdmitted, Handler
    <3>3. CASE writer[current] # "away"
      <4>1. <<"writer", current>> \in Goroutines
        BY <3>1 DEF Goroutines
      <4>2. WaitsFor(g, <<"writer", current>>)
        BY <1>4, <2>2, <3>3 DEF WaitsFor, Asks, Handler
      <4> QED BY <3>1, <3>3, <4>1, <4>2, BehindWriter
    <3> QED BY <3>2, <3>3
  <2>3. status \in {"want", "token"}
    BY <1>4 DEF Asks, Handler
  <2> QED BY <2>1, <2>2, <2>3
<1> QED BY <1>1, <1>2, <1>3, <1>4, Kinds

\* Every wait leads to a goroutine of a lower rank.
LEMMA LocksAreOrdered ==
  ASSUME IInv
  PROVE  WaitsGoDown
<1> SUFFICES ASSUME NEW g \in Goroutines, NEW h \in Goroutines, WaitsFor(g, h)
             PROVE  Rank(h) < Rank(g) /\ Rank(g) \in 0..3
  BY DEF WaitsGoDown
<1>0. \/ g[1] = "run" /\ g # Handler
      \/ g[1] = "writer" /\ g # Handler
      \/ g[1] = "dialer" /\ g # Handler
      \/ g = Handler /\ g[1] = "status"
  BY Kinds DEF Handler
<1>1. ASSUME h = <<"run", pia>> PROVE Rank(h) = 0
  <2>1. pia \in Tunnels
    BY <1>1 DEF Goroutines, Handler
  <2> QED BY <1>1, <2>1 DEF IInv, Rank
<1>2. CASE g[1] = "run" /\ g # Handler
  <2>1. h = <<"run", pia>> /\ run[g[2]] = "want"
    BY <1>2 DEF WaitsFor, Asks
  <2>2. Rank(g) = 1
    BY <1>2, <2>1 DEF Rank
  <2> QED BY <1>1, <2>1, <2>2
<1>3. CASE g[1] = "writer" /\ g # Handler
  <2>1. h = Handler /\ status = "token"
    BY <1>3 DEF WaitsFor, ReadLocked
  <2>2. Rank(h) = 1 /\ Rank(g) = 2
    BY <1>3, <2>1 DEF Rank, Handler
  <2> QED BY <2>2
<1>4. CASE g[1] = "dialer" /\ g # Handler
  <2>1. h = <<"writer", g[2]>>
    BY <1>4 DEF WaitsFor
  <2>2. Rank(h) = 2 /\ Rank(g) = 3
    BY <1>4, <2>1 DEF Rank
  <2> QED BY <2>2
<1>5. CASE g = Handler /\ status = "token"
  <2>1. h = <<"run", pia>>
    BY <1>5 DEF WaitsFor, Handler
  <2>2. Rank(g) = 1
    BY <1>5 DEF Rank, Handler
  <2> QED BY <1>1, <2>1, <2>2
<1>6. CASE g = Handler /\ status = "want"
  <2>1. h = <<"writer", current>>
    BY <1>6 DEF WaitsFor, Handler
  <2>2. Rank(h) = 2 /\ Rank(g) = 3
    BY <1>6, <2>1 DEF Rank, Handler
  <2> QED BY <2>2
<1>7. g = Handler => status \in {"want", "token"}
  BY DEF WaitsFor, Asks, Handler
<1> QED BY <1>0, <1>2, <1>3, <1>4, <1>5, <1>6, <1>7

\* The locks of Tunnel.mu and PIAClient.mu have an order, and every goroutine
\* keeps it: the holder of PIAClient.mu asks for no other lock, a snapshot only
\* for PIAClient.mu, a writer of a status for nothing more.
THEOREM LockOrder == Spec => []WaitsGoDown
BY Invariance, LocksAreOrdered, PTL

\* There is never a deadlock, not even of some of the goroutines: everybody who
\* waits has somebody who proceeds at the end of a chain of at most three waits.
THEOREM NoDeadlock == Spec => []SomeoneProceeds
BY Invariance, ChainsEnd, PTL

(***************************************************************************)
(* Liveness.  What ENABLED says of the fair steps is StepsAreEnabled; TLC  *)
(* agrees with it.                                                         *)
(***************************************************************************)

\* What a step can do to the client's lock, to the locks of one tunnel and to a
\* snapshot.
LEMMA LockMoves ==
  ASSUME IInv, [Next]_vars, NEW t \in Tunnels
  PROVE  /\ pia = t => pia' \in {t, Nobody}
         /\ writer[t] = "want" => writer'[t] \in {"want", "hold"}
         /\ writer[t] = "hold" => writer'[t] \in {"hold", "away"}
         /\ dialer[t] = "want" => dialer'[t] \in {"want", "away"}
<1> USE DEF IInv, TypeOK
<1>1. ASSUME NEW u \in Tunnels, CallClient(u) \/ Client(u)
      PROVE  (pia = t => pia' \in {t, Nobody}) /\ UNCHANGED <<writer, dialer>>
  BY <1>1, LocksAssumption DEF CallClient, Client, LockClient, FetchDone, Unlocked
<1>2. ASSUME NEW u \in Tunnels, WantWrite(u) \/ Writing(u)
      PROVE  /\ UNCHANGED <<pia, dialer>>
             /\ writer[t] = "want" => writer'[t] \in {"want", "hold"}
             /\ writer[t] = "hold" => writer'[t] \in {"hold", "away"}
  BY <1>2 DEF WantWrite, Writing, LockWrite, UnlockWrite
<1>3. ASSUME NEW u \in Tunnels, WantDial(u) \/ LoadNetstack(u)
      PROVE  /\ UNCHANGED <<pia, writer>>
             /\ dialer[t] = "want" => dialer'[t] \in {"want", "away"}
  BY <1>3 DEF WantDial, LoadNetstack
<1>4. CASE BeginStatus \/ Status \/ UNCHANGED vars
  BY <1>4 DEF BeginStatus, Status, NextProxy, LockRead, GetToken, vars
<1> HIDE DEF IInv, TypeOK
<1> QED BY <1>1, <1>2, <1>3, <1>4 DEF Next

\* A request ends.
LEMMA RequestEnds ==
  ASSUME NEW t \in Tunnels
  PROVE  FairSpec /\ []StepsAreEnabled => [](pia = t => <>(pia = Nobody))
<1> DEFINE Holds == pia = t
           Free  == pia = Nobody
<1>1. FairSpec => Spec /\ LocksAreFair(t)
  BY DEF FairSpec
<1>2. IInv /\ [Next]_vars /\ Holds => Holds' \/ Free'
  BY LockMoves
<1>3. IInv /\ Holds /\ <<Client(t)>>_vars => Free'
  BY DEF IInv, TypeOK, Client, LockClient, FetchDone, Unlocked
<1>4. IInv /\ Holds => run[t] = "fetch"
  BY DEF IInv
<1>5. StepsAreEnabled => (run[t] = "fetch" => ENABLED <<Client(t)>>_vars)
  BY DEF StepsAreEnabled
<1> HIDE DEF Holds, Free
<1>6. FairSpec /\ []StepsAreEnabled => [](Holds => <>Free)
  BY <1>1, <1>2, <1>3, <1>4, <1>5, Invariance, PTL DEF Spec, LocksAreFair
<1> QED BY <1>6 DEF Holds, Free

LEMMA ClientComesFree == FairSpec /\ []StepsAreEnabled => []<>(pia = Nobody)
<1>1. FairSpec /\ []StepsAreEnabled =>
        \A t \in Tunnels : [](pia = t => <>(pia = Nobody))
  BY RequestEnds
<1>2. (\A t \in Tunnels : [](pia = t => <>(pia = Nobody)))
        => [](\A t \in Tunnels : pia = t => <>(pia = Nobody))
  OBVIOUS
<1>3. (\A t \in Tunnels : pia = t => <>(pia = Nobody))
        => ((\E t \in Tunnels : pia = t) => <>(pia = Nobody))
  OBVIOUS
<1>4. IInv => pia = Nobody \/ \E t \in Tunnels : pia = t
  BY DEF IInv, TypeOK
<1>5. FairSpec => Spec
  BY DEF FairSpec
<1> QED
  BY <1>1, <1>2, <1>3, <1>4, <1>5, Invariance, PTL

\* A snapshot gets the token it waits for and lets go of its tunnel.
LEMMA SnapshotEnds == FairSpec /\ []StepsAreEnabled => []<>(status # "token")
<1> DEFINE Token == status = "token"
           Free  == pia = Nobody
<1>1. Token /\ <<Status>>_vars => ~Token'
  BY DEF Status, NextProxy, LockRead, GetToken
<1>2. StepsAreEnabled => (Token /\ Free => ENABLED <<Status>>_vars)
  BY DEF StepsAreEnabled
<1>3. FairSpec /\ []StepsAreEnabled => []<>Free
  BY ClientComesFree
<1>4. FairSpec => Spec /\ StatusIsFair
  BY DEF FairSpec
<1>5. ~Token => status # "token"
  OBVIOUS
<1> HIDE DEF Token, Free
<1>6. FairSpec /\ []StepsAreEnabled => []<>~Token
  BY <1>1, <1>2, <1>3, <1>4, PTL DEF Spec, StatusIsFair
<1> QED BY <1>5, <1>6, PTL

\* A writer gets its lock between two snapshots, and leaves.
LEMMA WriterLeaves ==
  ASSUME NEW t \in Tunnels
  PROVE  FairSpec /\ []StepsAreEnabled => []<>(writer[t] = "away")
<1> DEFINE Away  == writer[t] = "away"
           Wants == writer[t] = "want"
           Holds == writer[t] = "hold"
           Read  == ReadLocked(t)
<1>1. FairSpec => Spec /\ LocksAreFair(t)
  BY DEF FairSpec
<1>2. IInv => Away \/ Wants \/ Holds
  BY DEF IInv, TypeOK
<1>3. IInv /\ [Next]_vars => /\ Wants => Wants' \/ Holds'
                             /\ Holds => Holds' \/ Away'
  BY LockMoves
<1>4. IInv /\ <<Writing(t)>>_vars => /\ Wants => ~Wants'
                                     /\ Holds => ~Holds'
  BY DEF IInv, TypeOK, Writing, LockWrite, UnlockWrite
<1>5. StepsAreEnabled => /\ Wants /\ ~Read => ENABLED <<Writing(t)>>_vars
                         /\ Holds => ENABLED <<Writing(t)>>_vars
  BY DEF StepsAreEnabled
<1>6. status # "token" => ~Read
  BY DEF ReadLocked
<1> HIDE DEF Away, Wants, Holds, Read
<1>7. FairSpec /\ []StepsAreEnabled => []<>Away
  BY <1>1, <1>2, <1>3, <1>4, <1>5, <1>6, SnapshotEnds, Invariance, PTL
     DEF Spec, LocksAreFair
<1> QED BY <1>7 DEF Away

\* A dial gets past Tunnel.mu, for any number of tunnels: the requests that hold
\* the client's lock end, with them the snapshot that waits for it, then the
\* writer that waits for the snapshot, and the dial is let in (tunnel.go:124).
THEOREM DialsGoThrough == FairSpec /\ []StepsAreEnabled => DialsProceed
<1> SUFFICES ASSUME NEW t \in Tunnels
             PROVE  FairSpec /\ []StepsAreEnabled =>
                      (dialer[t] = "want" ~> dialer[t] = "away")
  BY DEF DialsProceed
<1> DEFINE Wants == dialer[t] = "want"
           Away  == dialer[t] = "away"
           Admitted == writer[t] = "away"
<1>1. FairSpec => Spec /\ LocksAreFair(t)
  BY DEF FairSpec
<1>2. IInv /\ [Next]_vars /\ Wants => Wants' \/ Away'
  BY LockMoves
<1>3. IInv /\ Wants /\ <<LoadNetstack(t)>>_vars => Away'
  BY DEF IInv, TypeOK, LoadNetstack
<1>4. StepsAreEnabled => (Wants /\ Admitted => ENABLED <<LoadNetstack(t)>>_vars)
  BY DEF StepsAreEnabled, ReadersAdmitted
<1>5. FairSpec /\ []StepsAreEnabled => []<>Admitted
  BY WriterLeaves
<1> HIDE DEF Wants, Away, Admitted
<1>6. FairSpec /\ []StepsAreEnabled => [](Wants => <>Away)
  BY <1>1, <1>2, <1>3, <1>4, <1>5, Invariance, PTL DEF Spec, LocksAreFair
<1> QED BY <1>6, PTL DEF Wants, Away

\* Nobody but the status page moves it.
LEMMA StatusMoves ==
  ASSUME IInv, [Next]_vars
  PROVE  /\ status = "want" => \/ status' = "want" /\ current' = current
                               \/ status' = "token" /\ current' = current
         /\ status = "token" => \/ status' = "token" /\ current' = current
                                \/ status' = "next"
<1>1. ASSUME NEW u \in Tunnels,
             \/ CallClient(u) \/ Client(u)
             \/ WantWrite(u) \/ Writing(u)
             \/ WantDial(u) \/ LoadNetstack(u)
      PROVE  UNCHANGED <<status, current>>
  BY <1>1 DEF CallClient, Client, LockClient, FetchDone, WantWrite, Writing,
     LockWrite, UnlockWrite, WantDial, LoadNetstack
<1>2. CASE BeginStatus \/ Status \/ UNCHANGED vars
  BY <1>2 DEF BeginStatus, Status, NextProxy, LockRead, GetToken, vars
<1> QED BY <1>1, <1>2 DEF Next

\* The status page is not stuck at a tunnel: its snapshot gets Tunnel.mu between
\* two writers, then the token, for any number of tunnels that write and fetch
\* meanwhile (tunnel.go:613, 619).
THEOREM SnapshotIsTaken ==
  ASSUME NEW t \in Tunnels
  PROVE  FairSpec /\ []StepsAreEnabled =>
           (status \in {"want", "token"} /\ current = t ~> status = "next")
<1> DEFINE Wants    == status = "want" /\ current = t
           Token    == status = "token" /\ current = t
           Next_    == status = "next"
           Admitted == writer[t] = "away"
<1>1. IInv /\ [Next]_vars => /\ Wants => Wants' \/ Token'
                             /\ Token => Token' \/ Next_'
  BY StatusMoves
<1>2. Wants /\ <<Status>>_vars => Token'
  BY DEF Status, NextProxy, LockRead, GetToken
<1>3. StepsAreEnabled => (Wants /\ Admitted => ENABLED <<Status>>_vars)
  BY DEF StepsAreEnabled, ReadersAdmitted
<1>4. FairSpec /\ []StepsAreEnabled => []<>Admitted
  BY WriterLeaves
<1>5. FairSpec /\ []StepsAreEnabled => []<>~Token
  <2>1. status # "token" => ~Token
    OBVIOUS
  <2> QED BY <2>1, SnapshotEnds, PTL
<1>6. FairSpec => Spec /\ StatusIsFair
  BY DEF FairSpec
<1>7. status \in {"want", "token"} /\ current = t <=> Wants \/ Token
  OBVIOUS
<1> HIDE DEF Wants, Token, Next_, Admitted
<1>8. FairSpec /\ []StepsAreEnabled => [](Wants \/ Token => <>Next_)
  BY <1>1, <1>2, <1>3, <1>4, <1>5, <1>6, Invariance, PTL DEF Spec, StatusIsFair
<1> QED BY <1>7, <1>8, PTL DEF Next_

=============================================================================
