--------------------------- MODULE SocksListener ---------------------------
(***************************************************************************)
(* SocksListener of socks_listener.go with the accept loop of its Server:  *)
(* Start and Stop called by several goroutines, the two goroutines of each *)
(* Start (the watcher that closes the socket when the context is done, and *)
(* Serve), and the client connections they leave behind.                   *)
(*                                                                         *)
(* Every successful Start opens a new socket; what belongs to it (Server,  *)
(* context, done channel) is identified with the socket.                   *)
(***************************************************************************)
EXTENDS Naturals

CONSTANTS
  Controllers,   \* goroutines that call Start and Stop
  Sockets,       \* bound: each Start that succeeds uses a new one
  NoSocket,      \* nil
  Clients        \* client connections

ASSUME ListenerAssumption == NoSocket \notin Sockets

VARIABLES
  ctx,         \* the context given to Start: "live" or "canceled"
  started,     \* l.started
  current,     \* l.listener, l.server, l.cancel and l.done, set together
  startErr,    \* l.startErr # nil
  socket,      \* socket -> "unused", "open" or "closed"
  canceled,    \* sockets whose own context Stop has canceled
  serve,       \* socket -> its accept loop: "unused", "accept", "leaving", "done"
  stop,        \* controller -> its Stop: "out", "cancel" or "wait"
  stopping,    \* controller -> the socket its Stop took, NoSocket outside
  returned,    \* controller -> what its last Start returned: "none", "nil", "err"
  conn         \* client -> the socket its connection was accepted on

listenerVars == <<started, current, startErr>>
stopVars     == <<stop, stopping>>
vars == <<ctx, listenerVars, socket, canceled, serve, stopVars, returned, conn>>

TypeOK ==
  /\ ctx \in {"live", "canceled"}
  /\ started \in BOOLEAN
  /\ current \in Sockets \cup {NoSocket}
  /\ startErr \in BOOLEAN
  /\ socket \in [Sockets -> {"unused", "open", "closed"}]
  /\ canceled \in SUBSET Sockets
  /\ serve \in [Sockets -> {"unused", "accept", "leaving", "done"}]
  /\ stop \in [Controllers -> {"out", "cancel", "wait"}]
  /\ stopping \in [Controllers -> Sockets \cup {NoSocket}]
  /\ returned \in [Controllers -> {"none", "nil", "err"}]
  /\ conn \in [Clients -> Sockets \cup {NoSocket}]

Init ==
  /\ ctx = "live"
  /\ started = FALSE /\ current = NoSocket /\ startErr = FALSE
  /\ socket = [s \in Sockets |-> "unused"]
  /\ canceled = {}
  /\ serve = [s \in Sockets |-> "unused"]
  /\ stop = [c \in Controllers |-> "out"]
  /\ stopping = [c \in Controllers |-> NoSocket]
  /\ returned = [c \in Controllers |-> "none"]
  /\ conn = [k \in Clients |-> NoSocket]

\* The context all the Starts were given is done, that of the Proxy; a Start
\* after that still binds, and its watcher closes the socket at once.
Cancel ==
  /\ ctx = "live"
  /\ ctx' = "canceled"
  /\ UNCHANGED <<listenerVars, socket, canceled, serve, stopVars, returned, conn>>

\* listenerCtx of s is done: canceled by Stop, or together with its parent.
ContextDone_OwnOnly(s) == s \in canceled
ContextDone(s) == s \in canceled \/ ctx = "canceled"

(***************************************************************************)
(* Start: one critical section of l.mu, the bind included.                 *)
(***************************************************************************)
StartRunning(c) ==
  /\ stop[c] = "out"
  /\ started
  /\ returned' = [returned EXCEPT ![c] = "nil"]
  /\ UNCHANGED <<ctx, listenerVars, socket, canceled, serve, stopVars, conn>>

\* The address is taken while an earlier socket is open: the listener's port is a
\* fixed one, as every city of piaproxyd has.  (Port 0 asks the kernel for any
\* free port, and a Start during another's Stop would then bind a second socket.)
StartBinds(c) ==
  /\ stop[c] = "out"
  /\ ~started
  /\ \A s \in Sockets : socket[s] # "open"
  /\ \E s \in Sockets :
       /\ socket[s] = "unused"
       /\ socket' = [socket EXCEPT ![s] = "open"]
       /\ serve' = [serve EXCEPT ![s] = "accept"]
       /\ current' = s
  /\ started' = TRUE
  /\ startErr' = FALSE
  /\ returned' = [returned EXCEPT ![c] = "nil"]
  /\ UNCHANGED <<ctx, canceled, stopVars, conn>>

\* net.Listen fails, whatever the reason.
StartFails(c) ==
  /\ stop[c] = "out"
  /\ ~started
  /\ startErr' = TRUE
  /\ returned' = [returned EXCEPT ![c] = "err"]
  /\ UNCHANGED <<ctx, started, current, socket, canceled, serve, stopVars, conn>>

(***************************************************************************)
(* Stop: detach under l.mu, then cancel, then wait for done.  On a stopped *)
(* listener it returns at once and changes nothing.                        *)
(***************************************************************************)
\* Stop that leaves the fields of the stopped listener as they are.
StopDetach_NotCleared(c) ==
  /\ stop[c] = "out"
  /\ started
  /\ stop' = [stop EXCEPT ![c] = "cancel"]
  /\ stopping' = [stopping EXCEPT ![c] = current]
  /\ UNCHANGED <<ctx, listenerVars, socket, canceled, serve, returned, conn>>

StopDetach(c) ==
  /\ stop[c] = "out"
  /\ started
  /\ started' = FALSE
  /\ current' = NoSocket
  /\ stop' = [stop EXCEPT ![c] = "cancel"]
  /\ stopping' = [stopping EXCEPT ![c] = current]
  /\ UNCHANGED <<ctx, startErr, socket, canceled, serve, returned, conn>>

\* Stop that forgets to cancel the listener's context.
StopCancel_Forgotten(c) ==
  /\ stop[c] = "cancel"
  /\ stop' = [stop EXCEPT ![c] = "wait"]
  /\ UNCHANGED <<ctx, listenerVars, socket, canceled, serve, stopping, returned,
                 conn>>

StopCancel(c) ==
  /\ stop[c] = "cancel"
  /\ canceled' = canceled \cup {stopping[c]}
  /\ stop' = [stop EXCEPT ![c] = "wait"]
  /\ UNCHANGED <<ctx, listenerVars, socket, serve, stopping, returned, conn>>

\* What Stop waits for: the done channel.
Drained_NotAwaited(s) == TRUE
Drained(s) == serve[s] = "done"

StopReturns(c) ==
  /\ stop[c] = "wait"
  /\ Drained(stopping[c])
  /\ stop' = [stop EXCEPT ![c] = "out"]
  /\ stopping' = [stopping EXCEPT ![c] = NoSocket]
  /\ UNCHANGED <<ctx, listenerVars, socket, canceled, serve, returned, conn>>

(***************************************************************************)
(* The goroutines of a Start.                                              *)
(***************************************************************************)

\* <-listenerCtx.Done(), ln.Close().
WatchCloses(s) ==
  /\ socket[s] = "open"
  /\ ContextDone(s)
  /\ socket' = [socket EXCEPT ![s] = "closed"]
  /\ UNCHANGED <<ctx, listenerVars, canceled, serve, stopVars, returned, conn>>

\* Accept returns a connection; its goroutine registers it with the Server.
Accept(s, k) ==
  /\ serve[s] = "accept"
  /\ socket[s] = "open"
  /\ conn[k] = NoSocket
  /\ conn' = [conn EXCEPT ![k] = s]
  /\ UNCHANGED <<ctx, listenerVars, socket, canceled, serve, stopVars, returned>>

\* Accept fails: the socket is closed, or the system is out of descriptors.
\* Serve returns on any error.
AcceptFails(s) ==
  /\ serve[s] = "accept"
  /\ serve' = [serve EXCEPT ![s] = "leaving"]
  /\ UNCHANGED <<ctx, listenerVars, socket, canceled, stopVars, returned, conn>>

\* Serve's defer closes the socket.
AfterServe_LeftOpen(s) == socket
AfterServe(s) == [socket EXCEPT ![s] = "closed"]

\* Serve's defer runs, then the goroutine closes done.
ServeReturns(s) ==
  /\ serve[s] = "leaving"
  /\ socket' = AfterServe(s)
  /\ serve' = [serve EXCEPT ![s] = "done"]
  /\ UNCHANGED <<ctx, listenerVars, canceled, stopVars, returned, conn>>

\* The client or the destination ends the connection; it is unregistered.
ConnEnds(k) ==
  /\ conn[k] # NoSocket
  /\ conn' = [conn EXCEPT ![k] = NoSocket]
  /\ UNCHANGED <<ctx, listenerVars, socket, canceled, serve, stopVars, returned>>

Starting(c)   == StartRunning(c) \/ StartBinds(c) \/ StartFails(c)
Stopping(c)   == StopDetach(c) \/ StopCancel(c) \/ StopReturns(c)
Background(s) == WatchCloses(s) \/ AcceptFails(s) \/ ServeReturns(s)

Next ==
  \/ Cancel
  \/ \E c \in Controllers : Starting(c) \/ Stopping(c)
  \/ \E s \in Sockets : Background(s) \/ \E k \in Clients : Accept(s, k)
  \/ \E k \in Clients : ConnEnds(k)

Spec == Init /\ [][Next]_vars

\* Goroutines run; an Accept on a closed socket returns; a Stop that has begun
\* goes on.  Nothing makes a client end its connection.
AcceptEnds(s)  == socket[s] = "closed" /\ AcceptFails(s)
StopIsFair(c)  == WF_vars(StopCancel(c)) /\ WF_vars(StopReturns(c))
ServeIsFair(s) ==
  WF_vars(WatchCloses(s)) /\ WF_vars(AcceptEnds(s)) /\ WF_vars(ServeReturns(s))

FairSpec ==
  /\ Spec
  /\ \A c \in Controllers : StopIsFair(c)
  /\ \A s \in Sockets : ServeIsFair(s)

\* When these steps are enabled, written out: what the liveness proofs take
\* from the meaning of ENABLED.
StepsAreEnabled ==
  /\ \A c \in Controllers :
       /\ stop[c] = "cancel" => ENABLED <<StopCancel(c)>>_vars
       /\ stop[c] = "wait" /\ Drained(stopping[c]) => ENABLED <<StopReturns(c)>>_vars
  /\ \A s \in Sockets :
       /\ socket[s] = "open" /\ ContextDone(s) => ENABLED <<WatchCloses(s)>>_vars
       /\ socket[s] = "closed" /\ serve[s] = "accept" => ENABLED <<AcceptEnds(s)>>_vars
       /\ serve[s] = "leaving" => ENABLED <<ServeReturns(s)>>_vars

(***************************************************************************)
(* Properties.                                                             *)
(***************************************************************************)

\* Stop and Start by different goroutines never leave a socket behind: an open
\* one belongs to the running listener or to a Stop that has not returned.
OpenIsOwned ==
  \A s \in Sockets :
    socket[s] = "open" => s = current \/ \E c \in Controllers : stopping[c] = s

\* When the listener is stopped and every Stop has returned, no socket of it
\* is open: the address can be bound again (Start after Stop).
StoppedMeansUnbound ==
  ~started /\ (\A c \in Controllers : stop[c] = "out")
    => \A s \in Sockets : socket[s] # "open"

\* The inductive invariant: the locked fields change together, a Stop holds a
\* socket exactly while it is under way, and an accept loop that has closed
\* its done channel has closed its socket.
Owned ==
  /\ started <=> current # NoSocket
  /\ \A c \in Controllers : stop[c] = "out" <=> stopping[c] = NoSocket

AcceptLoops ==
  \A s \in Sockets :
    /\ socket[s] = "unused" <=> serve[s] = "unused"
    /\ serve[s] = "done" => socket[s] = "closed"

\* There is one open socket at most, the port being fixed; nobody else has what a Stop has taken; and
\* what a Stop waits for has been told to end.
StopsApart ==
  /\ \A s, t \in Sockets : socket[s] = "open" /\ socket[t] = "open" => s = t
  /\ current # NoSocket => socket[current] # "unused"
  /\ \A c \in Controllers : stopping[c] # NoSocket =>
       /\ stopping[c] # current /\ socket[stopping[c]] # "unused"
       /\ \A d \in Controllers : stopping[d] = stopping[c] => d = c
  /\ \A c \in Controllers : stop[c] = "wait" => stopping[c] \in canceled

IInv == TypeOK /\ Owned /\ AcceptLoops /\ OpenIsOwned /\ StopsApart

\* socks_listener.go:197: a Stop that waits on done is never stuck: the
\* watcher can close the socket, or Accept fails on a closed one, or Serve can
\* return, or it has.
StopNeverStuck ==
  \A c \in Controllers : stop[c] = "wait" =>
    \E s \in Sockets :
      /\ s = stopping[c]
      /\ \/ socket[s] = "open" /\ ContextDone(s)
         \/ socket[s] = "closed" /\ serve[s] = "accept"
         \/ serve[s] = "leaving"
         \/ Drained(s)

\* The steps the goroutines of a Start have before them.
Left(s) == (IF socket[s] = "open" THEN 1 ELSE 0)
           + (IF serve[s] = "accept" THEN 2 ELSE IF serve[s] = "leaving" THEN 1 ELSE 0)

\* They are at most three: each brings the socket nearer to its end, and no
\* Start, Stop or client sends it back.  No socket is opened twice.
GoroutinesEnd ==
  [][\A s \in Sockets : socket[s] # "unused" =>
       Left(s)' <= Left(s) /\ (Background(s) => Left(s)' < Left(s))]_vars

\* What callers and clients may rely on, as ListenerPromise describes it
\* (socks_listener.go:91 and :169): in particular there is never a second
\* socket, and no Stop takes what another one has taken.
Promise == INSTANCE ListenerPromise WITH
  bound <- {s \in Sockets : socket[s] = "open"},
  past  <- {s \in Sockets : socket[s] = "closed"},
  own   <- current,
  taken <- stopping

PromiseKept == Promise!Spec

\* Stop returns, although it waits for other goroutines, whoever else starts
\* and stops the listener.
StopTerminates ==
  \A c \in Controllers : stop[c] # "out" ~> stop[c] = "out"

\* Canceling the context frees the address even if nobody calls Stop
\* (socks_listener.go:150).
CancelCloses == ctx = "canceled" ~> \A s \in Sockets : socket[s] # "open"
=============================================================================
