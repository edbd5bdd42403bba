------------------------------- MODULE Proxy -------------------------------
(***************************************************************************)
(* Proxy of proxy.go: Run starts a tunnel, binds a listener once the       *)
(* tunnel has left its idle state, and takes both down when its context    *)
(* ends.  The listener is SocksListener, with Run as its only controller;  *)
(* the tunnel is what TunnelPromise says of it (Tunnel implements it); the *)
(* connections of the listener dial through the tunnel.                    *)
(***************************************************************************)
EXTENDS Naturals

CONSTANTS
  Clients,                \* SOCKS connections, each with one dial at a time
  Sessions, NoSession,    \* of TunnelPromise
  Socket, NoSocket        \* the one socket Run binds, and nil

ASSUME ProxyAssumption == Socket # NoSocket /\ NoSession \notin Sessions

VARIABLES
  run,         \* Run: "new", "poll" and "select" of waitForTunnelStart, "start",
               \* "serve", "stop", "drain", "abandon" and "returned"
  goroutine,   \* the tunnel's Run: "none", "running" or "done" (tunnelDone)
  held,        \* p.tunnel and p.listener are set
  checked, phase, net, flow,                             \* the tunnel
  ctx, started, current, startErr, socket, canceled,     \* the listener
  serve, stop, stopping, returned, conn

T == INSTANCE TunnelPromise WITH
  Dialers <- Clients,
  goroutine <- IF goroutine = "done" THEN "done" ELSE "running"
L == INSTANCE SocksListener WITH Controllers <- {"Run"}, Sockets <- {Socket}

ownVars      == <<run, goroutine, held>>
tunnelVars   == <<checked, phase, net, flow>>
listenerVars == <<ctx, started, current, startErr, socket, canceled, serve, stop,
                  stopping, returned, conn>>
vars == <<ownVars, tunnelVars, listenerVars>>

TypeOK ==
  /\ run \in {"new", "poll", "select", "start", "serve", "stop", "drain",
             "abandon", "returned"}
  /\ goroutine \in {"none", "running", "done"}
  /\ held \in BOOLEAN /\ checked \in BOOLEAN
  /\ phase \in {"idle", "connecting", "error", "up", "degraded", "retired"}
  /\ net \in Sessions \cup {NoSession}
  /\ flow \in [Clients -> {"ready", "down", "through"}]
  /\ L!TypeOK

Init ==
  /\ run = "new" /\ goroutine = "none" /\ held = FALSE
  /\ T!Init /\ L!Init

(***************************************************************************)
(* Run.                                                                    *)
(***************************************************************************)
Begin ==
  /\ run = "new"
  /\ run' = "poll" /\ goroutine' = "running" /\ held' = TRUE
  /\ UNCHANGED <<tunnelVars, listenerVars>>

\* What waitForTunnelStart waits for; a retired tunnel shows "idle" again.
HasStarted_UpOnly == phase = "up"
HasStarted_Always == TRUE
HasStarted == phase \notin {"idle", "retired"}

\* The state is read under the tunnel's lock, and the context looked at after.
Poll ==
  /\ run = "poll"
  /\ run' = IF HasStarted THEN "start" ELSE "select"
  /\ UNCHANGED <<goroutine, held, tunnelVars, listenerVars>>

PollAgain ==
  /\ run = "select"
  /\ run' = "poll"
  /\ UNCHANGED <<goroutine, held, tunnelVars, listenerVars>>

\* The Done branch of the select.
CancelSeen_Never == FALSE
CancelSeen == ctx = "canceled"

GiveUp ==
  /\ run = "select"
  /\ CancelSeen
  /\ run' = "abandon"
  /\ UNCHANGED <<goroutine, held, tunnelVars, listenerVars>>

\* l.Start; its error is logged, and Run goes on without a listener.
StartListener ==
  /\ run = "start"
  /\ L!StartBinds("Run") \/ L!StartFails("Run")
  /\ run' = "serve"
  /\ UNCHANGED <<goroutine, held, tunnelVars>>

\* <-ctx.Done() and the beginning of l.Stop, which has nothing to do when the
\* listener was not started.
BeginStop ==
  /\ run = "serve"
  /\ ctx = "canceled"
  /\ \/ L!StopDetach("Run") /\ run' = "stop"
     \/ ~started /\ run' = "drain" /\ UNCHANGED listenerVars
  /\ UNCHANGED <<goroutine, held, tunnelVars>>

Stop ==
  /\ run = "stop"
  /\ \/ L!StopCancel("Run") /\ UNCHANGED run
     \/ L!StopReturns("Run") /\ run' = "drain"
  /\ UNCHANGED <<goroutine, held, tunnelVars>>

\* <-tunnelDone.
TunnelDone_NotAwaited == TRUE
TunnelDone == goroutine = "done"

\* The early return leaves p.tunnel and p.listener as they are.
Return ==
  /\ TunnelDone
  /\ \/ run = "drain" /\ held' = FALSE
     \/ run = "abandon" /\ UNCHANGED held
  /\ run' = "returned"
  /\ UNCHANGED <<goroutine, tunnelVars, listenerVars>>

(***************************************************************************)
(* The tunnel, from the go statement on: the moves are its promise's.      *)
(***************************************************************************)
TunnelMoves ==
  /\ goroutine = "running"
  /\ UNCHANGED <<ownVars, listenerVars>>
  /\ T!Check \/ T!Establish \/ T!Demote \/ T!Promote

\* What was decided on a live context is shown, the cancellation that may have
\* come in between notwithstanding: a tunnel leaves idle even then.
TunnelGoesOn ==
  /\ goroutine = "running"
  /\ UNCHANGED <<ownVars, listenerVars>>
  /\ T!Connect \/ T!Fail

TunnelRetires ==
  /\ goroutine = "running"
  /\ UNCHANGED <<ownVars, listenerVars>>
  /\ T!Retire

TunnelReturns ==
  /\ goroutine = "running" /\ goroutine' = "done"
  /\ UNCHANGED <<run, held, listenerVars>>
  /\ T!Return

(***************************************************************************)
(* The listener's goroutines and connections, and the end of the context.  *)
(***************************************************************************)
ListenerMoves ==
  /\ L!Background(Socket)
  /\ UNCHANGED <<ownVars, tunnelVars>>

Accept(k) ==
  /\ L!Accept(Socket, k)
  /\ UNCHANGED <<ownVars, tunnelVars>>

\* Tunnel.Dial for the connection, and the end of what was dialed.
Dial(k) ==
  /\ conn[k] # NoSocket
  /\ UNCHANGED <<ownVars, listenerVars>>
  /\ T!Refuse(k) \/ T!Carry(k) \/ T!Done(k)

ConnEnds(k) ==
  /\ flow[k] = "ready"
  /\ L!ConnEnds(k)
  /\ UNCHANGED <<ownVars, tunnelVars>>

Cancel == L!Cancel /\ UNCHANGED <<ownVars, tunnelVars>>

Waiting   == Poll \/ PollAgain
Serving   == StartListener \/ BeginStop \/ Stop \/ Return
Retiring  == TunnelGoesOn \/ TunnelRetires \/ TunnelReturns

Next ==
  \/ Begin \/ Waiting \/ GiveUp \/ Serving
  \/ TunnelMoves \/ Retiring \/ ListenerMoves \/ Cancel
  \/ \E k \in Clients : Accept(k) \/ Dial(k) \/ ConnEnds(k)

Spec == Init /\ [][Next]_vars

\* The listener's steps that must be taken, as in SocksListener.
WatchCloses  == L!WatchCloses(Socket) /\ ListenerMoves
AcceptEnds   == L!AcceptEnds(Socket) /\ ListenerMoves
ServeReturns == L!ServeReturns(Socket) /\ ListenerMoves

\* Goroutines run.  A select that is polled for ever takes its Done branch
\* (strong fairness).  The tunnel shows what it has decided on, and after a
\* cancellation it goes down (Tunnel, CancelShutsDown); the listener's
\* goroutines end as in SocksListener.
FairSpec ==
  /\ Spec
  /\ WF_vars(Begin) /\ WF_vars(Waiting) /\ SF_vars(GiveUp) /\ WF_vars(Serving)
  /\ WF_vars(Retiring)
  /\ WF_vars(WatchCloses) /\ WF_vars(AcceptEnds) /\ WF_vars(ServeReturns)

\* When these steps are enabled, written out: what the liveness proofs take
\* from the meaning of ENABLED.
ServingMay ==
  \/ run = "start" /\ ~started /\ stop["Run"] = "out"
  \/ run = "serve" /\ ctx = "canceled" /\ (started => stop["Run"] = "out")
  \/ run = "stop" /\ \/ stop["Run"] = "cancel"
                     \/ stop["Run"] = "wait" /\ L!Drained(stopping["Run"])
  \/ run \in {"drain", "abandon"} /\ TunnelDone

StepsAreEnabled ==
  /\ run \in {"poll", "select"} => ENABLED <<Waiting>>_vars
  /\ run = "select" /\ CancelSeen => ENABLED <<GiveUp>>_vars
  /\ ServingMay => ENABLED <<Serving>>_vars
  /\ goroutine = "running" /\ ctx = "canceled" => ENABLED <<Retiring>>_vars
  /\ socket[Socket] = "open" /\ ctx = "canceled" => ENABLED <<WatchCloses>>_vars
  /\ socket[Socket] = "closed" /\ serve[Socket] = "accept"
       => ENABLED <<AcceptEnds>>_vars
  /\ serve[Socket] = "leaving" => ENABLED <<ServeReturns>>_vars

(***************************************************************************)
(* Properties.                                                             *)
(***************************************************************************)

\* When Run has returned nothing is left of the proxy: no session, no tunnel
\* goroutine, no socket; another Run can bind the address.
ReturnedMeansDown ==
  run = "returned" => /\ goroutine # "running" /\ net = NoSession
                      /\ socket[Socket] # "open"

\* proxy.go:141: no client is accepted, and none refused, before the tunnel
\* has started its bring-up.
ListenerAfterTunnel ==
  phase = "idle" => socket[Socket] = "unused" /\ \A k \in Clients : conn[k] = NoSocket

\* The inductive invariant: where Run is says whether there is a tunnel
\* goroutine and what the listener's state is.
Waited == {"new", "poll", "select", "abandon"}

TunnelFollowsRun ==
  /\ run = "new" <=> goroutine = "none"
  /\ run = "new" => phase = "idle"
  /\ phase = "idle" => run \in Waited \cup {"returned"}
  /\ net # NoSession <=> phase \in {"up", "degraded"}
  /\ goroutine = "done" => phase \notin {"up", "degraded"}
  /\ checked => goroutine = "running" /\ phase \in {"idle", "connecting", "error"}
  /\ run = "returned" => goroutine = "done"
  /\ run # "returned" => (held <=> run # "new")

ListenerFollowsRun ==
  /\ run \in Waited \cup {"start"} => socket[Socket] = "unused" /\ ~started
  /\ run = "serve" => (started <=> socket[Socket] # "unused")
  /\ run \in {"stop", "drain", "returned"} => ~started
  /\ run = "stop" <=> stop["Run"] # "out"
  /\ run \in {"drain", "returned"} => socket[Socket] # "open"
  /\ phase = "idle" => socket[Socket] = "unused"
  /\ \A k \in Clients : conn[k] # NoSocket => socket[Socket] # "unused"

IInv ==
  /\ TypeOK /\ TunnelFollowsRun /\ ListenerFollowsRun
  /\ L!Owned /\ L!AcceptLoops

\* proxy.go:147: a Run whose tunnel had not decided on its first attempt when the
\* context was canceled never binds the address, however its poll and the
\* tunnel's goroutine interleave.  (When it had, tunnel.go:155, the poll may see
\* it connecting before it sees the cancellation, and the address is bound, to be
\* released again by ReturnedMeansDown.)
CanceledIdleNeverBinds ==
  [](ctx = "canceled" /\ phase = "idle" /\ ~checked =>
       [](socket[Socket] = "unused" /\ \A k \in Clients : conn[k] = NoSocket))

\* What Run has before it; only the poll is a loop.
RunLeft ==
  CASE run = "new" -> 7
    [] run \in {"poll", "select"} -> 6
    [] run = "start" -> 5
    [] run = "serve" -> 4
    [] run = "stop" -> IF stop["Run"] = "cancel" THEN 3 ELSE 2
    [] run \in {"drain", "abandon"} -> 1
    [] OTHER -> 0

\* Run goes through its stages once and in order, whatever the tunnel, the
\* listener and the clients do: it binds once and stops once.
RunGoesForward ==
  [][/\ RunLeft' <= RunLeft
     /\ (Begin \/ GiveUp \/ Serving) => RunLeft' < RunLeft]_vars

\* proxy.go:143: the listener is bound, or its error kept, once the tunnel has
\* begun to connect, whether PIA can be reached or not; the poll cannot miss
\* the start, for a tunnel is idle again after a cancellation only.
StartIsNoticed ==
  phase # "idle" ~> started \/ startErr \/ ctx = "canceled"

\* A cancellation at any moment, while the tunnel is still idle included,
\* makes Run return.
RunReturns == [](run # "new" /\ ctx = "canceled" => <>(run = "returned"))
=============================================================================
