------------------------ MODULE UdpAssociation_proofs ------------------------
(* What a UDP association guarantees, for any number of senders and targets.   *)
EXTENDS UdpAssociation, TLAPS

\* The first state is one of a fresh association.
LEMMA InitInv == Init => IInv
BY AssociationAssumption
   DEF Init, IInv, TypeOK, ConnsAreOwned, EndsInOrder, EveryConnHasReader,
       AnswersHaveAddressee

\* The steps of the handler and of its environment.
LEMMA HandlerStep ==
  ASSUME IInv, TCPEnds \/ TunnelGoes \/ Handler
  PROVE  IInv'
<1> USE DEF handlerVars, requestVars, targetVars
<1>1. CASE TCPEnds
  BY <1>1 DEF TCPEnds, IInv, TypeOK, ConnsAreOwned, EndsInOrder,
              EveryConnHasReader, AnswersHaveAddressee
<1>2. CASE TunnelGoes
  BY <1>2 DEF TunnelGoes, IInv, TypeOK, ConnsAreOwned, EndsInOrder,
              EveryConnHasReader, AnswersHaveAddressee
<1>3. CASE TransferReturns
  BY <1>3 DEF TransferReturns, IInv, TypeOK, ConnsAreOwned, EndsInOrder,
              EveryConnHasReader, AnswersHaveAddressee
<1>4. CASE HandlerReturns
  BY <1>4 DEF HandlerReturns, IInv, TypeOK, ConnsAreOwned, EndsInOrder,
              EveryConnHasReader, AnswersHaveAddressee
<1> QED BY <1>1, <1>2, <1>3, <1>4 DEF Handler

\* A store reaches every reader that runs, and only with a sender's address.
LEMMA StoreKeepsAddressees ==
  ASSUME NEW s \in Senders, TypeOK, AnswersHaveAddressee, Store(s),
         UNCHANGED targetVars
  PROVE  /\ AnswersHaveAddressee'
         /\ clientAddr' = s
         /\ visible' \in [Targets -> SUBSET (Senders \cup {NoSender})]
BY DEF TypeOK, AnswersHaveAddressee, Store, Stored, targetVars

\* The steps of the request loop.
LEMMA RequestStep ==
  ASSUME IInv, Request
  PROVE  IInv'
<1> USE DEF handlerVars, requestVars, targetVars
<1>1. CASE CheckContext
  BY <1>1 DEF CheckContext, IInv, TypeOK, ConnsAreOwned, EndsInOrder,
              EveryConnHasReader, AnswersHaveAddressee
<1>2. CASE ReceiveFails
  BY <1>2 DEF ReceiveFails, IInv, TypeOK, ConnsAreOwned, EndsInOrder,
              EveryConnHasReader, AnswersHaveAddressee
<1>3. ASSUME NEW s \in Senders, ReceiveMalformed(s)
      PROVE  IInv'
  <2>1. AnswersHaveAddressee' /\ clientAddr' = s
        /\ visible' \in [Targets -> SUBSET (Senders \cup {NoSender})]
    BY <1>3, StoreKeepsAddressees DEF ReceiveMalformed, IInv
  <2> QED BY <1>3, <2>1 DEF ReceiveMalformed, IInv, TypeOK, ConnsAreOwned,
                            EndsInOrder, EveryConnHasReader
<1>4. ASSUME NEW s \in Senders, NEW t \in Targets, Receive(s, t)
      PROVE  IInv'
  <2>1. AnswersHaveAddressee' /\ clientAddr' = s
        /\ visible' \in [Targets -> SUBSET (Senders \cup {NoSender})]
    BY <1>4, StoreKeepsAddressees DEF Receive, IInv
  <2> QED BY <1>4, <2>1 DEF Receive, IInv, TypeOK, ConnsAreOwned, EndsInOrder,
                            EveryConnHasReader
<1>5. CASE DialFails
  BY <1>5 DEF DialFails, IInv, TypeOK, ConnsAreOwned, EndsInOrder,
              EveryConnHasReader, AnswersHaveAddressee
<1>6. CASE DialSucceeds
  <2>1. wanted \in Targets \ cached /\ clientAddr \in Senders
    BY <1>6 DEF DialSucceeds, IInv, ConnsAreOwned
  <2> QED BY <1>6, <2>1 DEF DialSucceeds, Remember, IInv, TypeOK, ConnsAreOwned,
                            EndsInOrder, EveryConnHasReader, AnswersHaveAddressee
<1>7. CASE Send
  BY <1>7 DEF Send, IInv, TypeOK, ConnsAreOwned, EndsInOrder, EveryConnHasReader,
              AnswersHaveAddressee
<1>8. CASE CloseTargets
  <2>1. targetConn' = [t \in Targets |->
                         IF t \in cached THEN "closed" ELSE targetConn[t]]
    BY <1>8 DEF CloseTargets, Closed
  <2> QED BY <1>8, <2>1 DEF CloseTargets, IInv, TypeOK, ConnsAreOwned, EndsInOrder,
                            EveryConnHasReader, AnswersHaveAddressee
<1>9. CASE RequestEnds
  BY <1>9 DEF RequestEnds, IInv, TypeOK, ConnsAreOwned, EndsInOrder,
              EveryConnHasReader, AnswersHaveAddressee
<1> QED BY <1>1, <1>2, <1>3, <1>4, <1>5, <1>6, <1>7, <1>8, <1>9 DEF Request

\* A reader moves from one of its points to another one, and to its end only
\* when the association or its connection is over.
LEMMA MoveKeeps ==
  ASSUME IInv, NEW t \in Targets, reader[t] # "none",
         NEW point \in {"check", "receive", "send", "ended"}, MoveReader(t, point),
         point = "ended" => ctx = "canceled" \/ tunnel = "gone"
  PROVE  IInv'
BY DEF MoveReader, handlerVars, requestVars, targetVars, IInv, TypeOK,
       ConnsAreOwned, EndsInOrder, EveryConnHasReader, AnswersHaveAddressee

LEMMA ReaderStep ==
  ASSUME IInv, NEW t \in Targets, Reader(t)
  PROVE  IInv'
<1>1. CASE CheckReader(t)
  BY <1>1, MoveKeeps DEF CheckReader
<1>2. CASE AnswerFails(t)
  <2>1. Ends(t) => ctx = "canceled" \/ tunnel = "gone"
    BY DEF Ends, IInv, EndsInOrder
  <2> QED BY <1>2, <2>1, MoveKeeps DEF AnswerFails
<1>3. CASE AnswerArrives(t)
  BY <1>3, MoveKeeps DEF AnswerArrives
<1>4. ASSUME NEW s \in Senders, Relay(t, s)
      PROVE  IInv'
  <2>1. sock = "closed" => ctx = "canceled"
    BY DEF IInv, EndsInOrder
  <2> QED BY <1>4, <2>1, MoveKeeps DEF Relay
<1> QED BY <1>1, <1>2, <1>3, <1>4 DEF Reader

LEMMA InvariantStep == IInv /\ [Next]_vars => IInv'
<1> SUFFICES ASSUME IInv, [Next]_vars PROVE IInv'
  OBVIOUS
<1>1. CASE UNCHANGED vars
  BY <1>1 DEF vars, handlerVars, requestVars, targetVars, IInv, TypeOK,
              ConnsAreOwned, EndsInOrder, EveryConnHasReader, AnswersHaveAddressee
<1> QED BY <1>1, HandlerStep, RequestStep, ReaderStep DEF Next

\* The inductive invariant: connections are owned by the map, sockets close
\* after a cancellation only, connections are heard and answers addressed
\* (socks5.go:409-553).
THEOREM Invariance == Spec => []IInv
BY InitInv, InvariantStep, PTL DEF Spec

\* Each connection of the map has a reader while the association and its
\* tunnel live (socks5.go:470-489).
THEOREM ConnectionsAreHeard == Spec => []EveryConnHasReader
<1>1. IInv => EveryConnHasReader
  BY DEF IInv
<1> QED BY <1>1, Invariance, PTL

\* A reader always has an address to answer to, however its unlocked read of
\* it turns out (socks5.go:505, 545).
THEOREM AnswersAreAddressed == Spec => []AnswersHaveAddressee
<1>1. IInv => AnswersHaveAddressee
  BY DEF IInv
<1> QED BY <1>1, Invariance, PTL

\* When the request loop has ended no target connection is left open, and none
\* is opened after (socks5.go:415-423).
THEOREM NothingLeftOpen ==
  Spec => [](request = "ended" => \A t \in Targets : targetConn[t] # "open")
<1>1. IInv => (request = "ended" => \A t \in Targets : targetConn[t] # "open")
  BY DEF IInv, ConnsAreOwned
<1> QED BY <1>1, Invariance, PTL

(***************************************************************************)
(* How an association ends.                                                *)
(***************************************************************************)

\* The request loop of a canceled association makes for its defers: a datagram
\* it still receives takes it one dial and one send further, and back to the
\* check.  The dial is what may start a reader.
LEMMA RequestLeads ==
  ASSUME IInv, ctx = "canceled", Request
  PROVE  /\ RequestLeft' < RequestLeft
         /\ ctx' = "canceled" /\ handler' = handler
         /\ \/ reader' = reader
            \/ /\ request = "dial" /\ reader[wanted] = "none"
               /\ reader' = [reader EXCEPT ![wanted] = "check"]
<1> USE DEF handlerVars, requestVars, targetVars, RequestLeft
<1>1. CASE CheckContext
  BY <1>1 DEF CheckContext
<1>2. CASE ReceiveFails
  BY <1>2 DEF ReceiveFails
<1>3. CASE DialFails
  BY <1>3 DEF DialFails
<1>4. CASE DialSucceeds
  <2>1. reader[wanted] = "none"
    BY <1>4 DEF DialSucceeds, IInv, ConnsAreOwned
  <2> QED BY <1>4, <2>1 DEF DialSucceeds
<1>5. CASE Send
  BY <1>5 DEF Send
<1>6. CASE CloseTargets
  BY <1>6 DEF CloseTargets
<1>7. CASE RequestEnds
  BY <1>7 DEF RequestEnds
<1>8. ASSUME NEW s \in Senders, ReceiveMalformed(s)
      PROVE  request = "receive" /\ request' = "check"
             /\ ctx' = ctx /\ handler' = handler /\ reader' = reader
  BY <1>8 DEF ReceiveMalformed
<1>9. ASSUME NEW s \in Senders, NEW t \in Targets, Receive(s, t)
      PROVE  request = "receive" /\ request' \in {"send", "dial"}
             /\ ctx' = ctx /\ handler' = handler /\ reader' = reader
  BY <1>9 DEF Receive
<1> QED BY <1>1, <1>2, <1>3, <1>4, <1>5, <1>6, <1>7, <1>8, <1>9 DEF Request

\* So does the handler, and a reader makes for its end.
LEMMA HandlerLeads ==
  ASSUME Handler
  PROVE  /\ HandlerLeft' < HandlerLeft
         /\ ctx' \in {ctx, "canceled"} /\ request' = request /\ reader' = reader
BY DEF Handler, TransferReturns, HandlerReturns, HandlerLeft, requestVars, targetVars

LEMMA ReaderLeads ==
  ASSUME IInv, ctx = "canceled", NEW t \in Targets, Reader(t)
  PROVE  /\ ReaderLeft(t)' < ReaderLeft(t)
         /\ reader' = [reader EXCEPT ![t] = reader'[t]] /\ reader[t] # "none"
         /\ ctx' = ctx /\ request' = request /\ handler' = handler
<1> USE DEF MoveReader, handlerVars, requestVars, ReaderLeft, IInv, TypeOK
<1>1. CASE CheckReader(t)
  BY <1>1 DEF CheckReader
<1>2. CASE AnswerFails(t)
  BY <1>2 DEF AnswerFails
<1>3. CASE AnswerArrives(t)
  BY <1>3 DEF AnswerArrives
<1>4. ASSUME NEW s \in Senders, Relay(t, s)
      PROVE  /\ reader[t] = "send"
             /\ reader' = [reader EXCEPT ![t] = reader'[t]]
             /\ reader'[t] \in {"ended", "check"}
             /\ ctx' = ctx /\ request' = request /\ handler' = handler
  BY <1>4 DEF Relay
<1> QED BY <1>1, <1>2, <1>3, <1>4 DEF Reader

\* One step of a canceled association.
LEMMA WindingStep ==
  ASSUME IInv, ctx = "canceled", [Next]_vars
  PROVE  /\ ctx' = "canceled"
         /\ RequestLeft' <= RequestLeft
         /\ HandlerLeft' <= HandlerLeft
         /\ \A t \in Targets :
              /\ ReaderLeft(t)' <= ReaderLeft(t)
              /\ reader[t] = "none" /\ reader'[t] # "none" =>
                   request = "dial" /\ wanted = t
<1>0. /\ RequestLeft \in Nat /\ RequestLeft' \in Nat
      /\ HandlerLeft \in Nat /\ HandlerLeft' \in Nat
      /\ \A t \in Targets : ReaderLeft(t) \in Nat /\ ReaderLeft(t)' \in Nat
  BY DEF RequestLeft, HandlerLeft, ReaderLeft
<1>a. ASSUME request' = request PROVE RequestLeft' = RequestLeft
  BY <1>a DEF RequestLeft
<1>b. ASSUME handler' = handler PROVE HandlerLeft' = HandlerLeft
  BY <1>b DEF HandlerLeft
<1>c. ASSUME NEW t \in Targets, reader'[t] = reader[t]
      PROVE  ReaderLeft(t)' = ReaderLeft(t)
  BY <1>c DEF ReaderLeft
<1>1. CASE Request
  <2>1. ASSUME NEW t \in Targets
        PROVE  /\ ReaderLeft(t)' <= ReaderLeft(t)
               /\ reader[t] = "none" /\ reader'[t] # "none" =>
                    request = "dial" /\ wanted = t
    <3>1. CASE reader'[t] = reader[t]
      BY <1>0, <1>c, <3>1
    <3>2. CASE reader'[t] # reader[t]
      <4>1. request = "dial" /\ wanted = t /\ reader[t] = "none" /\ reader'[t] = "check"
        BY <1>1, <3>2, RequestLeads DEF IInv, TypeOK
      <4> QED BY <4>1 DEF ReaderLeft
    <3> QED BY <3>1, <3>2
  <2> QED BY <1>0, <1>1, <1>b, <2>1, RequestLeads
<1>2. CASE Handler
  BY <1>0, <1>2, <1>a, <1>c, HandlerLeads
<1>3. ASSUME NEW u \in Targets, Reader(u)
      PROVE  /\ ctx' = "canceled"
             /\ RequestLeft' = RequestLeft /\ HandlerLeft' = HandlerLeft
             /\ \A t \in Targets :
                  /\ ReaderLeft(t)' <= ReaderLeft(t)
                  /\ ~(reader[t] = "none" /\ reader'[t] # "none")
  <2>1. ASSUME NEW t \in Targets, t # u PROVE reader'[t] = reader[t]
    BY <1>3, <2>1, ReaderLeads DEF IInv, TypeOK
  <2> QED BY <1>0, <1>3, <1>a, <1>b, <1>c, <2>1, ReaderLeads
<1>4. CASE TCPEnds \/ TunnelGoes \/ UNCHANGED vars
  <2>1. ctx' = ctx /\ request' = request /\ handler' = handler /\ reader' = reader
    BY <1>4 DEF TCPEnds, TunnelGoes, vars, handlerVars, requestVars, targetVars
  <2> QED BY <1>0, <1>a, <1>b, <1>c, <2>1
<1> QED BY <1>0, <1>1, <1>2, <1>3, <1>4 DEF Next

\* After a cancellation every goroutine has a bounded number of steps left: the
\* loops read and relay no more than what is in their hands, and then end
\* (socks5.go:420, 427 and 473).  That they take these steps is the theorem
\* AssociationIsReleased.
THEOREM EndDrawsNear == Spec => WindsDown
<1>1. ASSUME IInv, [Next]_vars, ctx = "canceled"
      PROVE  /\ ctx' = "canceled"
             /\ RequestLeft' <= RequestLeft /\ (Request => RequestLeft' < RequestLeft)
             /\ HandlerLeft' <= HandlerLeft /\ (Handler => HandlerLeft' < HandlerLeft)
             /\ \A t \in Targets :
                  /\ ReaderLeft(t)' <= ReaderLeft(t)
                  /\ Reader(t) => ReaderLeft(t)' < ReaderLeft(t)
                  /\ reader[t] = "none" /\ reader'[t] # "none" =>
                       request = "dial" /\ wanted = t
  BY <1>1, WindingStep, RequestLeads, HandlerLeads, ReaderLeads
<1>2. IInv /\ [Next]_vars =>
        [ctx = "canceled" =>
           /\ ctx' = "canceled"
           /\ RequestLeft' <= RequestLeft /\ (Request => RequestLeft' < RequestLeft)
           /\ HandlerLeft' <= HandlerLeft /\ (Handler => HandlerLeft' < HandlerLeft)
           /\ \A t \in Targets :
                /\ ReaderLeft(t)' <= ReaderLeft(t)
                /\ Reader(t) => ReaderLeft(t)' < ReaderLeft(t)
                /\ reader[t] = "none" /\ reader'[t] # "none" =>
                     request = "dial" /\ wanted = t]_vars
  BY <1>1
<1> QED BY <1>2, Invariance, PTL DEF Spec, WindsDown

\* What they leave behind is released, and a reader that is still in a read is
\* thrown out of it (socks5.go:420-422, 384).
THEOREM NothingLeftBehind == Spec => []DoneMeansReleased
<1>1. IInv => DoneMeansReleased
  <2> SUFFICES ASSUME IInv, RequestLeft + HandlerLeft = 0
               PROVE  /\ ctx = "canceled" /\ sock = "closed"
                      /\ \A t \in Targets : targetConn[t] # "open"
                      /\ \A t \in Targets : reader[t] = "receive" => Ends(t)
    BY DEF DoneMeansReleased
  <2>1. RequestLeft \in Nat /\ HandlerLeft \in Nat
    BY DEF RequestLeft, HandlerLeft
  <2>2. RequestLeft = 0 /\ HandlerLeft = 0
    BY <2>1
  <2>3. request = "ended"
    BY <2>2 DEF IInv, TypeOK, RequestLeft
  <2>4. handler = "returned"
    BY <2>2 DEF IInv, TypeOK, HandlerLeft
  <2> QED BY <2>3, <2>4 DEF IInv, TypeOK, ConnsAreOwned, EndsInOrder, Ends
<1> QED BY <1>1, Invariance, PTL

(***************************************************************************)
(* Liveness.  What ENABLED says of the fair steps is StepsAreEnabled; TLC  *)
(* agrees with it.                                                         *)
(***************************************************************************)

\* The TCP connection stays ended, and nobody but the handler moves it.
LEMMA OthersSpareHandler ==
  ASSUME IInv, [Next]_vars
  PROVE  /\ tcp = "ended" => tcp' = "ended"
         /\ Handler \/ handler' = handler
<1> USE DEF handlerVars, requestVars, targetVars
<1>1. CASE TCPEnds \/ TunnelGoes \/ UNCHANGED vars
  BY <1>1 DEF TCPEnds, TunnelGoes, vars
<1>2. CASE Handler
  BY <1>2 DEF Handler, TransferReturns, HandlerReturns
<1>3. CASE Request
  BY <1>3 DEF Request, CheckContext, ReceiveFails, DialFails, DialSucceeds, Send,
     CloseTargets, RequestEnds, ReceiveMalformed, Receive
<1>4. ASSUME NEW t \in Targets, Reader(t) PROVE tcp' = tcp /\ handler' = handler
  BY <1>4 DEF Reader, CheckReader, AnswerFails, AnswerArrives, Relay, MoveReader
<1> QED BY <1>1, <1>2, <1>3, <1>4 DEF Next

\* The handler cancels and returns when the TCP connection has ended.
LEMMA HandlerReturned ==
  FairSpec /\ []StepsAreEnabled => [](tcp = "ended" => <>[](handler = "returned"))
<1> DEFINE TcpOver  == tcp = "ended"
           Waits    == handler = "waiting"
           Closes   == handler = "closing"
           Returned == handler = "returned"
<1>1. IInv /\ [Next]_vars => /\ TcpOver => TcpOver'
                             /\ Waits => Waits' \/ Closes'
                             /\ Closes => Closes' \/ Returned'
                             /\ Returned => Returned'
  BY OthersSpareHandler DEF TransferReturns, HandlerReturns, Handler
<1>2. IInv /\ <<Handler>>_vars => /\ Waits => Closes'
                                  /\ Closes => Returned'
  BY DEF Handler, TransferReturns, HandlerReturns
<1>3. IInv => Waits \/ Closes \/ Returned
  BY DEF IInv, TypeOK
<1>4. StepsAreEnabled => (TcpOver /\ (Waits \/ Closes) => ENABLED <<Handler>>_vars)
  BY DEF StepsAreEnabled
<1>5. FairSpec => Spec /\ LoopsAreFair
  BY DEF FairSpec
<1> HIDE DEF TcpOver, Waits, Closes, Returned
<1>6. FairSpec /\ []StepsAreEnabled => [](TcpOver => <>[]Returned)
  BY <1>1, <1>2, <1>3, <1>4, <1>5, Invariance, PTL DEF Spec, LoopsAreFair
<1> QED BY <1>6 DEF TcpOver, Returned

\* The request loop of a canceled association gets through its defers.
LEMMA RequestReturned ==
  FairSpec /\ []StepsAreEnabled => [](ctx = "canceled" => <>[](request = "ended"))
<1> DEFINE Canceled  == ctx = "canceled"
           Within(k) == RequestLeft <= k
           Ended     == request = "ended"
<1>1. IInv /\ [Next]_vars /\ Canceled =>
        /\ Canceled'
        /\ Within(0) => Within(0)'
        /\ Within(1) => Within(1)'
        /\ Within(2) => Within(2)'
        /\ Within(3) => Within(3)'
        /\ Within(4) => Within(4)'
        /\ Within(5) => Within(5)'
        /\ Within(6) => Within(6)'
  <2> SUFFICES ASSUME IInv, [Next]_vars, Canceled
               PROVE  Canceled' /\ \A k \in 0..6 : Within(k) => Within(k)'
    OBVIOUS
  <2>1. ctx' = "canceled" /\ RequestLeft' <= RequestLeft
    BY WindingStep
  <2>2. RequestLeft \in Nat /\ RequestLeft' \in Nat
    BY DEF RequestLeft
  <2> QED BY <2>1, <2>2
<1>2. IInv /\ <<Request>>_vars /\ Canceled =>
        /\ Within(1) => Within(0)'
        /\ Within(2) => Within(1)'
        /\ Within(3) => Within(2)'
        /\ Within(4) => Within(3)'
        /\ Within(5) => Within(4)'
        /\ Within(6) => Within(5)'
  <2> SUFFICES ASSUME IInv, Request, Canceled
               PROVE  \A k \in 0..5 : Within(k + 1) => Within(k)'
    OBVIOUS
  <2>1. RequestLeft' < RequestLeft
    BY RequestLeads
  <2>2. RequestLeft \in Nat /\ RequestLeft' \in Nat
    BY DEF RequestLeft
  <2> QED BY <2>1, <2>2
<1>3. IInv => Within(6) /\ (Within(0) <=> Ended)
  BY DEF IInv, TypeOK, RequestLeft
<1>4. StepsAreEnabled => (~Ended => ENABLED <<Request>>_vars)
  BY DEF StepsAreEnabled
<1>5. FairSpec => Spec /\ LoopsAreFair
  BY DEF FairSpec
<1> HIDE DEF Canceled, Within, Ended
<1>6. FairSpec /\ []StepsAreEnabled => [](Canceled => <>[]Ended)
  BY <1>1, <1>2, <1>3, <1>4, <1>5, Invariance, PTL DEF Spec, LoopsAreFair
<1> QED BY <1>6 DEF Canceled, Ended

\* A reader that runs then ends, and none is started any more.
LEMMA ReaderReturned ==
  ASSUME NEW t \in Targets
  PROVE  FairSpec /\ []StepsAreEnabled =>
           [](ctx = "canceled" /\ request = "ended" =>
                <>[](reader[t] \in {"none", "ended"}))
<1> DEFINE Over      == ctx = "canceled" /\ request = "ended"
           Within(k) == reader[t] = "none" \/ ReaderLeft(t) <= k
           Gone      == reader[t] \in {"none", "ended"}
<1>1. IInv /\ [Next]_vars /\ Over =>
        /\ Over'
        /\ Within(0) => Within(0)'
        /\ Within(1) => Within(1)'
        /\ Within(2) => Within(2)'
        /\ Within(3) => Within(3)'
  <2> SUFFICES ASSUME IInv, [Next]_vars, Over
               PROVE  Over' /\ \A k \in 0..3 : Within(k) => Within(k)'
    OBVIOUS
  <2>1. /\ ctx' = "canceled" /\ RequestLeft' <= RequestLeft
        /\ ReaderLeft(t)' <= ReaderLeft(t)
        /\ reader[t] = "none" => reader'[t] = "none"
    BY WindingStep
  <2>2. IInv'
    BY InvariantStep
  <2>3. request' = "ended"
    BY <2>1, <2>2 DEF RequestLeft, IInv, TypeOK
  <2>4. ReaderLeft(t) \in Nat /\ ReaderLeft(t)' \in Nat
    BY DEF ReaderLeft
  <2> QED BY <2>1, <2>3, <2>4
<1>2. IInv /\ <<Reader(t)>>_vars /\ Over =>
        /\ Within(1) => Within(0)'
        /\ Within(2) => Within(1)'
        /\ Within(3) => Within(2)'
  <2> SUFFICES ASSUME IInv, Reader(t), Over
               PROVE  \A k \in 0..2 : Within(k + 1) => Within(k)'
    OBVIOUS
  <2>1. ReaderLeft(t)' < ReaderLeft(t) /\ reader[t] # "none"
    BY ReaderLeads
  <2>2. ReaderLeft(t) \in Nat /\ ReaderLeft(t)' \in Nat
    BY DEF ReaderLeft
  <2> QED BY <2>1, <2>2
<1>3. IInv => Within(3) /\ (Within(0) <=> Gone)
  BY DEF IInv, TypeOK, ReaderLeft
<1>4. IInv /\ StepsAreEnabled => (~Gone => ENABLED <<Reader(t)>>_vars)
  <2>1. IInv /\ ~Gone => \/ reader[t] \in {"check", "receive"}
                         \/ reader[t] = "send" /\ visible[t] \cap Senders # {}
    BY DEF IInv, TypeOK, AnswersHaveAddressee
  <2>2. StepsAreEnabled =>
          /\ reader[t] \in {"check", "receive"} => ENABLED <<Reader(t)>>_vars
          /\ reader[t] = "send" /\ visible[t] \cap Senders # {} =>
               ENABLED <<Reader(t)>>_vars
    BY DEF StepsAreEnabled
  <2> HIDE DEF Gone
  <2> QED BY <2>1, <2>2
<1>5. FairSpec => Spec /\ ReaderIsFair(t)
  BY DEF FairSpec
<1> HIDE DEF Over, Within, Gone
<1>6. FairSpec /\ []StepsAreEnabled => [](Over => <>[]Gone)
  BY <1>1, <1>2, <1>3, <1>4, <1>5, Invariance, PTL DEF Spec, ReaderIsFair
<1> QED BY <1>6 DEF Over, Gone

\* An association is released after its TCP connection has ended, for any number
\* of targets: the handler returns, which cancels the context; the request loop
\* looks at it and closes the connections; their readers are thrown out of their
\* reads (socks5.go:384, 415-423, 445, 473).
THEOREM AssociationIsReleased == FairSpec /\ []StepsAreEnabled => AssociationReleased
<1> SUFFICES ASSUME NEW t \in Targets
             PROVE  FairSpec /\ []StepsAreEnabled =>
                      (tcp = "ended" ~> []ReleasedBut(t))
  BY DEF AssociationReleased
<1> DEFINE Returned == handler = "returned"
           Canceled == ctx = "canceled"
           Ended    == request = "ended"
           Gone     == reader[t] \in {"none", "ended"}
           Released == ReleasedBut(t)
<1>1. IInv /\ Returned => Canceled
  BY DEF IInv, EndsInOrder
<1>2. IInv /\ Returned /\ Ended /\ Gone => Released
  BY DEF IInv, ConnsAreOwned, EndsInOrder, ReleasedBut
<1>3. FairSpec /\ []StepsAreEnabled => [](tcp = "ended" => <>[]Returned)
  BY HandlerReturned
<1>4. FairSpec /\ []StepsAreEnabled => [](Canceled => <>[]Ended)
  BY RequestReturned
<1>5. FairSpec /\ []StepsAreEnabled => [](Canceled /\ Ended => <>[]Gone)
  BY ReaderReturned
<1>6. FairSpec => Spec
  BY DEF FairSpec
<1> HIDE DEF Returned, Canceled, Ended, Gone, Released
<1>7. FairSpec /\ []StepsAreEnabled => [](tcp = "ended" => <>[]Released)
  BY <1>1, <1>2, <1>3, <1>4, <1>5, <1>6, Invariance, PTL
<1> QED BY <1>7, PTL DEF Released

(***************************************************************************)
(* The association as the connection it belongs to sees it.                *)
(***************************************************************************)
CONSTANTS
  Username, Password, Empty, Strings, MaxChunks,  \* of SocksConn
  Said, Login  \* what the negotiation has left: the replies and credentials

OfBoth(value) == [d \in {"up", "down"} |-> value]

\* A TCP connection that ends for whatever reason has finished, to the copy to
\* io.Discard; the client's socket stays open until Serve closes it.
Conn == INSTANCE SocksConn WITH
  stage     <- IF handler = "returned" THEN "leaving" ELSE "associated",
  replies   <- Said,
  login     <- Login,
  open      <- {"client"},
  broken    <- {},
  copy      <- OfBoth("off"),
  produced  <- OfBoth(0),
  taken     <- OfBoth(0),
  delivered <- OfBoth(0),
  finished  <- [d \in {"up", "down"} |-> d = "up" /\ tcp = "ended"],
  errc      <- <<>>,
  first     <- <<>>

\* All that happens in an association is to its connection no step but two: the
\* client finishes, and then, never before, the handler leaves the stage
\* "associated" (socks5.go:384, 445).
THEOREM AssociationIsAStage == Spec => [][Conn!Next]_(Conn!vars)
<1> USE DEF handlerVars, requestVars, targetVars, OfBoth, Conn!vars, Conn!talkVars,
    Conn!flowVars, Conn!copyVars
<1>1. ASSUME TCPEnds, handler # "returned" PROVE Conn!Next
  <2>1. Conn!Finish("up")
    BY <1>1 DEF TCPEnds, Conn!Finish, Conn!Source, Conn!Connected
  <2> QED BY <2>1 DEF Conn!Next, Conn!Directions
<1>2. ASSUME IInv, HandlerReturns PROVE Conn!Next
  <2>1. tcp = "ended"
    BY <1>2 DEF HandlerReturns, IInv, EndsInOrder
  <2>2. Conn!AssociationEnds
    BY <1>2, <2>1 DEF HandlerReturns, Conn!AssociationEnds
  <2> QED BY <2>2 DEF Conn!Next, Conn!Handler
<1>3. ASSUME handler' = handler, tcp' = tcp PROVE UNCHANGED Conn!vars
  BY <1>3
<1>4. ASSUME Request \/ TunnelGoes \/ UNCHANGED vars
      PROVE  handler' = handler /\ tcp' = tcp
  BY <1>4 DEF vars, TunnelGoes, Request, CheckContext, ReceiveFails, DialFails,
     DialSucceeds, Send, CloseTargets, RequestEnds, ReceiveMalformed, Receive
<1>5. ASSUME NEW t \in Targets, Reader(t)
      PROVE  handler' = handler /\ tcp' = tcp
  BY <1>5 DEF Reader, CheckReader, AnswerFails, AnswerArrives, Relay, MoveReader
<1>6. ASSUME TransferReturns PROVE UNCHANGED Conn!vars
  BY <1>6 DEF TransferReturns
<1>7. ASSUME IInv, TCPEnds PROVE handler # "returned"
  BY <1>7 DEF TCPEnds, IInv, EndsInOrder
<1>8. IInv /\ [Next]_vars => [Conn!Next]_(Conn!vars)
  <2> HIDE DEF handlerVars, requestVars, targetVars, Conn!vars
  <2> SUFFICES ASSUME IInv, [Next]_vars PROVE Conn!Next \/ UNCHANGED Conn!vars
    OBVIOUS
  <2>1. CASE TCPEnds
    BY <1>1, <1>7, <2>1
  <2>2. CASE Handler
    BY <1>2, <1>6, <2>2 DEF Handler
  <2>3. CASE Request \/ TunnelGoes \/ UNCHANGED vars
    BY <1>3, <1>4, <2>3
  <2>4. ASSUME NEW t \in Targets, Reader(t) PROVE UNCHANGED Conn!vars
    BY <1>3, <1>5, <2>4
  <2> QED BY <2>1, <2>2, <2>3, <2>4 DEF Next
<1> QED BY <1>8, Invariance, PTL DEF Spec
==============================================================================
