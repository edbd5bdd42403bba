--------------------------- MODULE UdpAssociation ---------------------------
(***************************************************************************)
(* A UDP association of socks5.go: what happens between the reply to a     *)
(* UDP ASSOCIATE and the end of the TCP connection it belongs to (the      *)
(* stage "associated" of SocksConn).  Three kinds of goroutines share the  *)
(* relay socket, the target connections and the client's address:          *)
(*                                                                         *)
(*   handler   transferUDP and handleUDP, waiting for the TCP connection;  *)
(*   request   the loop that reads the client's datagrams, dials targets   *)
(*             and owns the map udpTargetConns;                            *)
(*   reader    one per target connection, which relays its answers.        *)
(*                                                                         *)
(* Datagrams are what the control flow depends on: who sent them, whether  *)
(* they parse, and the target they name.                                   *)
(***************************************************************************)
EXTENDS Naturals

CONSTANTS
  Senders,    \* addresses datagrams come from: nothing limits them to one
  Targets,    \* socksAddr values, the keys of udpTargetConns
  NoSender, NoTarget

ASSUME AssociationAssumption == NoSender \notin Senders /\ NoTarget \notin Targets

VARIABLES
  tunnel,     \* the netstack targets are dialed through: "up" or "gone"
  tcp,        \* the associated TCP connection: "open" or "ended"
  handler,    \* "waiting", "closing" (ctx canceled) or "returned"
  ctx,        \* transferUDP's context: "live" or "canceled"
  sock,       \* clientUDPConn: "open" or "closed"
  request,    \* the request loop: "check" (its select), "receive", "dial",
              \* "send", "closing" (its defers), "canceling", "ended"
  wanted,     \* the target of the datagram in its hands
  clientAddr, \* udpClientAddr as the request loop last stored it
  cached,     \* DOMAIN udpTargetConns
  targetConn, \* target -> "none", "open" or "closed"
  reader,     \* target -> its goroutine: "none", "check", "receive", "send", "ended"
  visible     \* target -> values of udpClientAddr its reader may load

handlerVars == <<tunnel, tcp, handler, sock>>
requestVars == <<request, wanted, clientAddr>>
targetVars  == <<cached, targetConn, reader>>
vars == <<handlerVars, ctx, requestVars, targetVars, visible>>

TypeOK ==
  /\ tunnel \in {"up", "gone"}
  /\ tcp \in {"open", "ended"}
  /\ handler \in {"waiting", "closing", "returned"}
  /\ ctx \in {"live", "canceled"}
  /\ sock \in {"open", "closed"}
  /\ request \in {"check", "receive", "dial", "send", "closing", "canceling", "ended"}
  /\ wanted \in Targets \cup {NoTarget}
  /\ clientAddr \in Senders \cup {NoSender}
  /\ cached \in SUBSET Targets
  /\ targetConn \in [Targets -> {"none", "open", "closed"}]
  /\ reader \in [Targets -> {"none", "check", "receive", "send", "ended"}]
  /\ visible \in [Targets -> SUBSET (Senders \cup {NoSender})]

Init ==
  /\ tunnel = "up" /\ tcp = "open" /\ handler = "waiting" /\ ctx = "live" /\ sock = "open"
  /\ request = "check" /\ wanted = NoTarget /\ clientAddr = NoSender
  /\ cached = {}
  /\ targetConn = [t \in Targets |-> "none"]
  /\ reader = [t \in Targets |-> "none"]
  /\ visible = [t \in Targets |-> {}]

(***************************************************************************)
(* The handler.                                                            *)
(***************************************************************************)

\* The client closes the TCP connection, or it breaks.
TCPEnds ==
  /\ tcp = "open"
  /\ tcp' = "ended"
  /\ UNCHANGED <<tunnel, handler, ctx, sock, requestVars, targetVars, visible>>

\* io.Copy(io.Discard, associatedTCP) returns, and transferUDP's defer cancels.
TransferReturns ==
  /\ handler = "waiting"
  /\ tcp = "ended"
  /\ handler' = "closing"
  /\ ctx' = "canceled"
  /\ UNCHANGED <<tunnel, tcp, sock, requestVars, targetVars, visible>>

\* handleUDP's defer closes the relay socket.
HandlerReturns ==
  /\ handler = "closing"
  /\ handler' = "returned"
  /\ sock' = "closed"
  /\ UNCHANGED <<tunnel, tcp, ctx, requestVars, targetVars, visible>>

\* The tunnel is retired, which it is once (Tunnel, OnceUpThenIdle): reads of
\* its connections end with EOF, writes fail, dials get ErrTunnelDown.
TunnelGoes ==
  /\ tunnel = "up"
  /\ tunnel' = "gone"
  /\ UNCHANGED <<tcp, handler, sock, ctx, requestVars, targetVars, visible>>

(***************************************************************************)
(* The request loop.                                                       *)
(***************************************************************************)
CheckContext ==
  /\ request = "check"
  /\ request' = IF ctx = "canceled" THEN "closing" ELSE "receive"
  /\ UNCHANGED <<handlerVars, ctx, wanted, clientAddr, targetVars, visible>>

\* ReadFrom fails: the 5 s deadline, or any other error of an open socket
\* (logged); a closed socket ends the loop.
ReceiveFails ==
  /\ request = "receive"
  /\ request' = IF sock = "closed" THEN "closing" ELSE "check"
  /\ UNCHANGED <<handlerVars, ctx, wanted, clientAddr, targetVars, visible>>

\* udpClientAddr after a datagram from s, before the datagram is parsed.
Stored_Dropped(s) == clientAddr
Stored(s) == s

\* The store is not synchronized: a reader that is running may see it, or go
\* on seeing an earlier one.  The interface's type word never changes after
\* the first store, so that no torn value can be seen.
Store(s) ==
  /\ clientAddr' = Stored(s)
  /\ visible' = [t \in Targets |->
                   IF reader[t] = "none" THEN {} ELSE visible[t] \cup {Stored(s)}]

ReceiveMalformed(s) ==
  /\ request = "receive" /\ sock = "open"
  /\ Store(s)
  /\ request' = "check"
  /\ UNCHANGED <<handlerVars, ctx, wanted, targetVars>>

\* A request for t; its connection is looked up in the map.
Receive(s, t) ==
  /\ request = "receive" /\ sock = "open"
  /\ Store(s)
  /\ wanted' = t
  /\ request' = IF t \in cached THEN "send" ELSE "dial"
  /\ UNCHANGED <<handlerVars, ctx, targetVars>>

\* The Dialer fails: tunnel down, name not resolved, or ctx canceled.
DialFails ==
  /\ request = "dial"
  /\ request' = "check"
  /\ wanted' = NoTarget
  /\ UNCHANGED <<handlerVars, ctx, clientAddr, targetVars, visible>>

\* The map after a dial.
Remember_Dropped(t) == cached
Remember(t) == cached \cup {t}

\* The go statement makes the last store visible to the new reader.  Dialing
\* UDP sends nothing, so that it may succeed after a cancellation.
DialSucceeds ==
  /\ request = "dial"
  /\ tunnel = "up"
  /\ targetConn' = [targetConn EXCEPT ![wanted] = "open"]
  /\ cached' = Remember(wanted)
  /\ reader' = [reader EXCEPT ![wanted] = "check"]
  /\ visible' = [visible EXCEPT ![wanted] = {clientAddr}]
  /\ request' = "send"
  /\ UNCHANGED <<handlerVars, ctx, wanted, clientAddr>>

\* targetConn.Write; an error, as of a tunnel that went away, is logged, and
\* the connection stays in the map.
Send ==
  /\ request = "send"
  /\ request' = "check"
  /\ wanted' = NoTarget
  /\ UNCHANGED <<handlerVars, ctx, clientAddr, targetVars, visible>>

\* The first defer: every connection of the map is closed.
Closed_Forgotten == targetConn
Closed == [t \in Targets |-> IF t \in cached THEN "closed" ELSE targetConn[t]]

CloseTargets ==
  /\ request = "closing"
  /\ targetConn' = Closed
  /\ request' = "canceling"
  /\ UNCHANGED <<handlerVars, ctx, wanted, clientAddr, cached, reader, visible>>

\* The second defer.
RequestEnds ==
  /\ request = "canceling"
  /\ ctx' = "canceled"
  /\ request' = "ended"
  /\ UNCHANGED <<handlerVars, wanted, clientAddr, targetVars, visible>>

(***************************************************************************)
(* The reader of a target connection.                                      *)
(***************************************************************************)
MoveReader(t, point) ==
  /\ reader' = [reader EXCEPT ![t] = point]
  /\ UNCHANGED <<handlerVars, ctx, requestVars, cached, targetConn, visible>>

CheckReader(t) ==
  /\ reader[t] = "check"
  /\ MoveReader(t, IF ctx = "canceled" THEN "ended" ELSE "receive")

\* Whether a failed read ends the reader: the connection is closed, or gone
\* with its netstack (ErrClosed, EOF).  The 5 s deadline only makes it look at
\* ctx, and any other error is logged.
Ends_OnTimeout(t) == TRUE
Ends(t) == targetConn[t] = "closed" \/ tunnel = "gone"

AnswerFails(t) ==
  /\ reader[t] = "receive"
  /\ MoveReader(t, IF Ends(t) THEN "ended" ELSE "check")

AnswerArrives(t) ==
  /\ reader[t] = "receive" /\ targetConn[t] = "open"
  /\ tunnel = "up"
  /\ MoveReader(t, "send")

\* WriteTo to one of the addresses the reader may load.
Relay(t, s) ==
  /\ reader[t] = "send"
  /\ s \in visible[t] /\ s # NoSender
  /\ MoveReader(t, IF sock = "closed" THEN "ended" ELSE "check")

Handler    == TransferReturns \/ HandlerReturns
Request    ==
  \/ CheckContext \/ ReceiveFails \/ DialFails \/ DialSucceeds \/ Send
  \/ CloseTargets \/ RequestEnds
  \/ \E s \in Senders : ReceiveMalformed(s) \/ \E t \in Targets : Receive(s, t)
Reader(t)  ==
  \/ CheckReader(t) \/ AnswerFails(t) \/ AnswerArrives(t)
  \/ \E s \in Senders : Relay(t, s)

Next == TCPEnds \/ TunnelGoes \/ Handler \/ Request \/ \E t \in Targets : Reader(t)

Spec == Init /\ [][Next]_vars

\* Goroutines run; reads have deadlines and dials end.  Nothing makes a client
\* close its TCP connection.  A plain select with a default sees a done
\* context as soon as it looks.
LoopsAreFair == WF_vars(Handler) /\ WF_vars(Request)
ReaderIsFair(t) == WF_vars(Reader(t))

FairSpec == Spec /\ LoopsAreFair /\ \A t \in Targets : ReaderIsFair(t)

\* When these steps are enabled, written out: what the liveness proof takes
\* from the meaning of ENABLED.
StepsAreEnabled ==
  /\ tcp = "ended" /\ handler # "returned" => ENABLED <<Handler>>_vars
  /\ request # "ended" => ENABLED <<Request>>_vars
  /\ \A t \in Targets :
       /\ reader[t] \in {"check", "receive"} => ENABLED <<Reader(t)>>_vars
       /\ reader[t] = "send" /\ visible[t] \cap Senders # {} =>
            ENABLED <<Reader(t)>>_vars

(***************************************************************************)
(* Properties.                                                             *)
(***************************************************************************)

\* Every open target connection is in the map, which is what closes it: none
\* is left when the request loop has passed its defers.
ConnsAreOwned ==
  /\ \A t \in Targets :
       /\ targetConn[t] = "open" => t \in cached /\ request \notin {"canceling", "ended"}
       /\ targetConn[t] = "none" <=> t \notin cached
       /\ targetConn[t] = "none" <=> reader[t] = "none"
  /\ request = "dial" => wanted \in Targets \ cached
  /\ request = "send" => wanted \in cached

\* The loop leaves, and the sockets are closed, after a cancellation only.
EndsInOrder ==
  /\ request \in {"closing", "canceling", "ended"} => ctx = "canceled"
  /\ \A t \in Targets : targetConn[t] = "closed" => ctx = "canceled"
  /\ handler # "waiting" => ctx = "canceled" /\ tcp = "ended"
  /\ sock = "closed" <=> handler = "returned"

\* While the association lives and its tunnel is up, each connection in the map
\* has a reader, so that a target that was silent for longer than any deadline,
\* or whose read failed once, is still heard when it answers.  A reader that
\* has ended is never missed: its connection, which stays in the map, belongs
\* to a tunnel that does not come back.
EveryConnHasReader ==
  ctx = "live" /\ tunnel = "up" =>
    \A t \in cached : reader[t] \in {"check", "receive", "send"}

\* A reader always has an address to send an answer to, although the address
\* is shared with the request loop without a lock: the store comes before the
\* dial that starts the reader.
AnswersHaveAddressee ==
  \A t \in Targets :
    reader[t] # "none" => visible[t] # {} /\ visible[t] \subseteq Senders

\* The inductive invariant.
IInv ==
  /\ TypeOK /\ ConnsAreOwned /\ EndsInOrder
  /\ EveryConnHasReader /\ AnswersHaveAddressee
  /\ request \in {"dial", "send"} => clientAddr \in Senders

\* What the goroutines of an association have before them once its context is
\* canceled, a reader that is not started yet included.
RequestLeft ==
  CASE request = "receive" -> 6
    [] request = "dial" -> 5
    [] request = "send" -> 4
    [] request = "check" -> 3
    [] request = "closing" -> 2
    [] request = "canceling" -> 1
    [] OTHER -> 0

HandlerLeft == CASE handler = "waiting" -> 2 [] handler = "closing" -> 1 [] OTHER -> 0

ReaderLeft(t) ==
  CASE reader[t] = "none" -> 4
    [] reader[t] = "receive" -> 3
    [] reader[t] = "send" -> 2
    [] reader[t] = "check" -> 1
    [] OTHER -> 0

\* From the cancellation on the association only winds down: each goroutine has
\* a bounded number of steps left, no datagram and no answer adds to them, and
\* the one dial that may be under way starts one reader more at the most.
WindsDown ==
  [][ctx = "canceled" =>
       /\ ctx' = "canceled"
       /\ RequestLeft' <= RequestLeft /\ (Request => RequestLeft' < RequestLeft)
       /\ HandlerLeft' <= HandlerLeft /\ (Handler => HandlerLeft' < HandlerLeft)
       /\ \A t \in Targets :
            /\ ReaderLeft(t)' <= ReaderLeft(t)
            /\ Reader(t) => ReaderLeft(t)' < ReaderLeft(t)
            /\ reader[t] = "none" /\ reader'[t] # "none" =>
                 request = "dial" /\ wanted = t]_vars

\* When nothing is left to do, the association is released: what the last
\* goroutine leaves behind is closed.
DoneMeansReleased ==
  RequestLeft + HandlerLeft = 0 =>
    /\ ctx = "canceled" /\ sock = "closed"
    /\ \A t \in Targets : targetConn[t] # "open"
    /\ \A t \in Targets : reader[t] = "receive" => Ends(t)

\* What is left of an association, as far as the reader of t goes.
ReleasedBut(t) ==
  /\ handler = "returned" /\ request = "ended" /\ sock = "closed"
  /\ reader[t] \in {"none", "ended"} /\ targetConn[t] # "open"

\* socks5.go:445: the association ends with its TCP connection; all its
\* goroutines return, and all its sockets are closed.  None of this is undone,
\* so that it comes to hold of all targets at once, of which a connection has
\* finitely many.
AssociationReleased == \A t \in Targets : tcp = "ended" ~> []ReleasedBut(t)
=============================================================================
