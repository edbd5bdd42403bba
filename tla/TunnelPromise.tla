--------------------------- MODULE TunnelPromise ---------------------------
(***************************************************************************)
(* What a Tunnel promises to the listeners that dial through it and to the *)
(* status page, without the goroutines, the PIA calls and the timers:      *)
(*                                                                         *)
(*   - it connects, fails and connects again until it is up, and then it   *)
(*     is up or degraded until it is retired for good;                     *)
(*   - it is backed by one and the same session while up or degraded, and  *)
(*     by none otherwise;                                                  *)
(*   - Dial is refused (ErrTunnelDown) exactly when there is no session,   *)
(*     and goes through the session otherwise;                             *)
(*   - a bring-up begins, and is shown to have failed, only after its      *)
(*     context was found live; the context may be canceled in between, so  *)
(*     that one beginning or one failure may still show after a            *)
(*     cancellation, and no second one;                                    *)
(*   - only a cancellation retires it and ends Run, Run ends without a     *)
(*     session, and nothing of the tunnel changes once Run has returned.   *)
(***************************************************************************)
CONSTANTS Dialers, Sessions, NoSession

VARIABLES
  ctx,       \* the context of Run: "live" or "canceled"
  goroutine, \* Run: "running" or "done"
  checked,   \* the context was found live, and what follows is not shown yet
  phase,     \* the State shown to users; "retired" is the last "idle"
  net,       \* the session behind the tunnel, NoSession if there is none
  flow       \* dialer -> "ready", "down" (refused) or "through"

vars == <<ctx, goroutine, checked, phase, net, flow>>

Init ==
  /\ ctx = "live" /\ goroutine = "running" /\ checked = FALSE
  /\ phase = "idle"
  /\ net = NoSession
  /\ flow = [d \in Dialers |-> "ready"]

Cancel ==
  /\ ctx = "live"
  /\ ctx' = "canceled"
  /\ UNCHANGED <<goroutine, checked, phase, net, flow>>

Running == goroutine = "running" /\ UNCHANGED <<ctx, goroutine>>

\* A bring-up is about to begin, or its failure to be shown.
Check ==
  /\ Running /\ ctx = "live"
  /\ ~checked /\ checked' = TRUE
  /\ phase \in {"idle", "error", "connecting"}
  /\ UNCHANGED <<phase, net, flow>>

Connect ==
  /\ Running
  /\ checked /\ checked' = FALSE
  /\ phase \in {"idle", "error"}
  /\ phase' = "connecting"
  /\ UNCHANGED <<net, flow>>

Fail ==
  /\ Running
  /\ checked /\ checked' = FALSE
  /\ phase = "connecting"
  /\ phase' = "error"
  /\ UNCHANGED <<net, flow>>

Establish ==
  /\ Running /\ ~checked
  /\ phase = "connecting"
  /\ phase' = "up"
  /\ net' \in Sessions
  /\ UNCHANGED <<checked, flow>>

Demote ==
  /\ Running
  /\ phase = "up"
  /\ phase' = "degraded"
  /\ UNCHANGED <<checked, net, flow>>

Promote ==
  /\ Running
  /\ phase = "degraded"
  /\ phase' = "up"
  /\ UNCHANGED <<checked, net, flow>>

\* The cleanup after a cancellation.
Retire ==
  /\ Running /\ ctx = "canceled"
  /\ phase \in {"up", "degraded"}
  /\ phase' = "retired"
  /\ net' = NoSession
  /\ UNCHANGED <<checked, flow>>

Return ==
  /\ goroutine = "running" /\ ctx = "canceled" /\ ~checked
  /\ phase \notin {"up", "degraded"}
  /\ goroutine' = "done"
  /\ UNCHANGED <<ctx, checked, phase, net, flow>>

Refuse(d) ==
  /\ flow[d] = "ready"
  /\ net = NoSession
  /\ flow' = [flow EXCEPT ![d] = "down"]
  /\ UNCHANGED <<ctx, goroutine, checked, phase, net>>

Carry(d) ==
  /\ flow[d] = "ready"
  /\ net \in Sessions
  /\ flow' = [flow EXCEPT ![d] = "through"]
  /\ UNCHANGED <<ctx, goroutine, checked, phase, net>>

Done(d) ==
  /\ flow[d] # "ready"
  /\ flow' = [flow EXCEPT ![d] = "ready"]
  /\ UNCHANGED <<ctx, goroutine, checked, phase, net>>

Next ==
  \/ Cancel \/ Check \/ Connect \/ Fail \/ Establish \/ Demote \/ Promote
  \/ Retire \/ Return
  \/ \E d \in Dialers : Refuse(d) \/ Carry(d) \/ Done(d)

Spec == Init /\ [][Next]_vars
=============================================================================
