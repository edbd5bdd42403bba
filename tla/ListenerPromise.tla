-------------------------- MODULE ListenerPromise --------------------------
(***************************************************************************)
(* What a SocksListener promises to those who start and stop it and to its *)
(* clients, without its lock, its contexts and its goroutines:             *)
(*                                                                         *)
(*   - only Start binds, and only a listener that is stopped to an address *)
(*     (host and a fixed port) that is free; a socket that was closed is   *)
(*     never bound again;                                                  *)
(*   - a running listener may lose its socket, and has none then until it  *)
(*     is stopped and started again;                                       *)
(*   - each Stop takes the socket of the running listener and returns when *)
(*     that one is closed, whatever others have started meanwhile;         *)
(*   - clients are accepted on a bound socket only, and what was accepted  *)
(*     outlives it.                                                        *)
(***************************************************************************)
CONSTANTS Controllers, Sockets, NoSocket, Clients

VARIABLES
  bound,   \* the sockets bound to the address
  past,    \* those that were
  own,     \* the socket of the running listener, NoSocket when it is stopped
  taken,   \* controller -> the socket its Stop has taken, NoSocket outside
  conn     \* client -> the socket it was accepted on

vars == <<bound, past, own, taken, conn>>

Init ==
  /\ bound = {} /\ past = {}
  /\ own = NoSocket
  /\ taken = [c \in Controllers |-> NoSocket]
  /\ conn = [k \in Clients |-> NoSocket]

Start(c) ==
  /\ taken[c] = NoSocket
  /\ own = NoSocket
  /\ bound = {}
  /\ \E s \in Sockets \ past : bound' = {s} /\ own' = s
  /\ UNCHANGED <<past, taken, conn>>

\* Its context has ended, or Accept has failed.
Lose(s) ==
  /\ s \in bound
  /\ bound' = bound \ {s}
  /\ past' = past \cup {s}
  /\ UNCHANGED <<own, taken, conn>>

StopBegins(c) ==
  /\ taken[c] = NoSocket
  /\ own # NoSocket
  /\ taken' = [taken EXCEPT ![c] = own]
  /\ own' = NoSocket
  /\ UNCHANGED <<bound, past, conn>>

StopReturns(c) ==
  /\ taken[c] \in past
  /\ taken' = [taken EXCEPT ![c] = NoSocket]
  /\ UNCHANGED <<bound, past, own, conn>>

Accept(k) ==
  /\ conn[k] = NoSocket
  /\ \E s \in bound : conn' = [conn EXCEPT ![k] = s]
  /\ UNCHANGED <<bound, past, own, taken>>

ConnEnds(k) ==
  /\ conn[k] # NoSocket
  /\ conn' = [conn EXCEPT ![k] = NoSocket]
  /\ UNCHANGED <<bound, past, own, taken>>

Next ==
  \/ \E c \in Controllers : Start(c) \/ StopBegins(c) \/ StopReturns(c)
  \/ \E s \in Sockets : Lose(s)
  \/ \E k \in Clients : Accept(k) \/ ConnEnds(k)

Spec == Init /\ [][Next]_vars
=============================================================================
