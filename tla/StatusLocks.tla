---------------------------- MODULE StatusLocks ----------------------------
(***************************************************************************)
(* The locks the tunnels, their dialers and the status page share: one     *)
(* sync.RWMutex per tunnel (Tunnel.mu) and the single sync.Mutex of the    *)
(* PIAClient, which Regions and Token hold across an HTTP request.         *)
(*                                                                         *)
(* Per tunnel there are three kinds of goroutines: its Run, which calls    *)
(* the client; a writer of its status (Run, statsLoop or healthLoop); a    *)
(* dialer.  The status handler takes a Snapshot of one tunnel after the    *)
(* other, and calls GetToken while it read-locks the tunnel.  An RWMutex   *)
(* with a waiting writer admits no new reader.                             *)
(***************************************************************************)
EXTENDS Naturals

CONSTANTS
  Tunnels,
  Nobody      \* a lock without owner, or no tunnel

ASSUME LocksAssumption == Nobody \notin Tunnels

VARIABLES
  pia,        \* tunnel whose Run holds PIAClient.mu across a fetch, or Nobody
  run,        \* tunnel -> its Run: "busy" elsewhere, "want" PIAClient.mu, "fetch"
  writer,     \* tunnel -> its status writer: "away", "want", "hold"
  dialer,     \* tunnel -> its dialer: "away", "want"
  status,     \* the handler: "away", "next", "want" a read lock, "token"
  shown,      \* tunnels already in the handler's answer
  current     \* the tunnel being snapshot

vars == <<pia, run, writer, dialer, status, shown, current>>

TypeOK ==
  /\ pia \in Tunnels \cup {Nobody}
  /\ run \in [Tunnels -> {"busy", "want", "fetch"}]
  /\ writer \in [Tunnels -> {"away", "want", "hold"}]
  /\ dialer \in [Tunnels -> {"away", "want"}]
  /\ status \in {"away", "next", "want", "token"}
  /\ shown \in SUBSET Tunnels
  /\ current \in Tunnels \cup {Nobody}

Init ==
  /\ pia = Nobody
  /\ run = [t \in Tunnels |-> "busy"]
  /\ writer = [t \in Tunnels |-> "away"]
  /\ dialer = [t \in Tunnels |-> "away"]
  /\ status = "away" /\ shown = {} /\ current = Nobody

\* Tunnel.mu of t is read-locked: only the handler keeps a read lock for more
\* than an instant.
ReadLocked(t) == status = "token" /\ current = t

\* RLock goes through: no writer holds the lock or waits for it.
ReadersAdmitted_WhileHeld(t) == TRUE
ReadersAdmitted(t) == writer[t] = "away"

(***************************************************************************)
(* Regions, Token and InvalidateToken.                                     *)
(***************************************************************************)
CallClient(t) ==
  /\ run[t] = "busy"
  /\ run' = [run EXCEPT ![t] = "want"]
  /\ UNCHANGED <<pia, writer, dialer, status, shown, current>>

\* With the answer cached the lock is released at once.
LockClient(t) ==
  /\ run[t] = "want"
  /\ pia = Nobody
  /\ \/ pia' = t /\ run' = [run EXCEPT ![t] = "fetch"]
     \/ run' = [run EXCEPT ![t] = "busy"] /\ UNCHANGED pia
  /\ UNCHANGED <<writer, dialer, status, shown, current>>

\* The defer that unlocks.
Unlocked_Forgotten == pia
Unlocked == Nobody

\* The HTTP request is over, after at most its 30 s timeout.
FetchDone(t) ==
  /\ run[t] = "fetch"
  /\ pia' = Unlocked
  /\ run' = [run EXCEPT ![t] = "busy"]
  /\ UNCHANGED <<writer, dialer, status, shown, current>>

(***************************************************************************)
(* The critical sections that write a tunnel's status.                     *)
(***************************************************************************)
WantWrite(t) ==
  /\ writer[t] = "away"
  /\ writer' = [writer EXCEPT ![t] = "want"]
  /\ UNCHANGED <<pia, run, dialer, status, shown, current>>

LockWrite(t) ==
  /\ writer[t] = "want"
  /\ ~ReadLocked(t)
  /\ writer' = [writer EXCEPT ![t] = "hold"]
  /\ UNCHANGED <<pia, run, dialer, status, shown, current>>

UnlockWrite(t) ==
  /\ writer[t] = "hold"
  /\ writer' = [writer EXCEPT ![t] = "away"]
  /\ UNCHANGED <<pia, run, dialer, status, shown, current>>

(***************************************************************************)
(* Tunnel.Dial up to the end of its read-locked line.                      *)
(***************************************************************************)
WantDial(t) ==
  /\ dialer[t] = "away"
  /\ dialer' = [dialer EXCEPT ![t] = "want"]
  /\ UNCHANGED <<pia, run, writer, status, shown, current>>

LoadNetstack(t) ==
  /\ dialer[t] = "want"
  /\ ReadersAdmitted(t)
  /\ dialer' = [dialer EXCEPT ![t] = "away"]
  /\ UNCHANGED <<pia, run, writer, status, shown, current>>

(***************************************************************************)
(* handleAPI: one Proxy.Snapshot after the other.                          *)
(***************************************************************************)
BeginStatus ==
  /\ status = "away"
  /\ status' = "next"
  /\ shown' = {}
  /\ UNCHANGED <<pia, run, writer, dialer, current>>

NextProxy ==
  /\ status = "next"
  /\ \/ \E t \in Tunnels \ shown : status' = "want" /\ current' = t
     \/ shown = Tunnels /\ status' = "away" /\ UNCHANGED current
  /\ UNCHANGED <<pia, run, writer, dialer, shown>>

LockRead ==
  /\ status = "want"
  /\ ReadersAdmitted(current)
  /\ status' = "token"
  /\ UNCHANGED <<pia, run, writer, dialer, shown, current>>

\* GetToken needs PIAClient.mu for an instant; then Snapshot returns.
GetToken ==
  /\ status = "token"
  /\ pia = Nobody
  /\ status' = "next"
  /\ shown' = shown \cup {current}
  /\ current' = Nobody
  /\ UNCHANGED <<pia, run, writer, dialer>>

Client(t)   == LockClient(t) \/ FetchDone(t)
Writing(t)  == LockWrite(t) \/ UnlockWrite(t)
Status      == NextProxy \/ LockRead \/ GetToken

Next ==
  \/ \E t \in Tunnels :
       \/ CallClient(t) \/ Client(t)
       \/ WantWrite(t) \/ Writing(t)
       \/ WantDial(t) \/ LoadNetstack(t)
  \/ BeginStatus \/ Status

Spec == Init /\ [][Next]_vars

\* Go's locks do not starve a waiter (a Mutex hands over after a millisecond,
\* an RWMutex lets the waiting readers in when a writer leaves), requests and
\* critical sections end.  Nobody has to ask for anything.
LocksAreFair(t) ==
  SF_vars(Client(t)) /\ SF_vars(Writing(t)) /\ SF_vars(LoadNetstack(t))

StatusIsFair == SF_vars(Status)

FairSpec ==
  /\ Spec
  /\ \A t \in Tunnels : LocksAreFair(t)
  /\ StatusIsFair

\* When these steps are enabled, written out: what the liveness proof takes
\* from the meaning of ENABLED.
StepsAreEnabled ==
  /\ \A t \in Tunnels :
       /\ run[t] = "fetch" => ENABLED <<Client(t)>>_vars
       /\ writer[t] = "want" /\ ~ReadLocked(t) => ENABLED <<Writing(t)>>_vars
       /\ writer[t] = "hold" => ENABLED <<Writing(t)>>_vars
       /\ dialer[t] = "want" /\ ReadersAdmitted(t) => ENABLED <<LoadNetstack(t)>>_vars
  /\ status = "want" /\ ReadersAdmitted(current) => ENABLED <<Status>>_vars
  /\ status = "token" /\ pia = Nobody => ENABLED <<Status>>_vars

(***************************************************************************)
(* Who waits for whom.                                                     *)
(***************************************************************************)
Handler == <<"status", Nobody>>
Goroutines == {"run", "writer", "dialer"} \X Tunnels \cup {Handler}

\* g stands before a lock.
Asks(g) ==
  \/ g[1] = "run" /\ run[g[2]] = "want"
  \/ g[1] = "writer" /\ writer[g[2]] = "want"
  \/ g[1] = "dialer" /\ dialer[g[2]] = "want"
  \/ g[1] = "status" /\ status \in {"want", "token"}

\* h has, or as a writer has asked for, the lock g stands before.
WaitsFor(g, h) ==
  /\ Asks(g)
  /\ \/ g[1] = "run" /\ h = <<"run", pia>>
     \/ g = Handler /\ status = "token" /\ h = <<"run", pia>>
     \/ g[1] = "writer" /\ ReadLocked(g[2]) /\ h = Handler
     \/ g[1] = "dialer" /\ writer[g[2]] # "away" /\ h = <<"writer", g[2]>>
     \/ g = Handler /\ status = "want" /\ writer[current] # "away"
        /\ h = <<"writer", current>>

\* g is at work between a Lock and its Unlock, or its lock is to be had.
MayProceed(g) ==
  \/ g[1] = "run" /\ (\/ run[g[2]] = "fetch"
                      \/ run[g[2]] = "want" /\ pia = Nobody)
  \/ g[1] = "writer" /\ (\/ writer[g[2]] = "hold"
                         \/ writer[g[2]] = "want" /\ ~ReadLocked(g[2]))
  \/ g[1] = "dialer" /\ dialer[g[2]] = "want" /\ ReadersAdmitted(g[2])
  \/ g = Handler /\ (\/ status = "want" /\ ReadersAdmitted(current)
                     \/ status = "token" /\ pia = Nobody)

\* Requests before those who wait for the client, these before writers, and
\* those before the readers they keep out.
Rank(g) ==
  CASE g[1] = "run"    -> IF run[g[2]] = "fetch" THEN 0 ELSE 1
    [] g[1] = "writer" -> 2
    [] g[1] = "dialer" -> 3
    [] OTHER           -> IF status = "want" THEN 3 ELSE 1

(***************************************************************************)
(* Properties.                                                             *)
(***************************************************************************)

\* The client's lock belongs to the tunnel that is in a request; no writer
\* changes a tunnel's status while the handler copies it, so that every answer
\* is a state the tunnel was in; and no tunnel is shown twice.
IInv ==
  /\ TypeOK
  /\ \A t \in Tunnels : pia = t <=> run[t] = "fetch"
  /\ \A t \in Tunnels : writer[t] = "hold" => ~ReadLocked(t)
  /\ status \in {"want", "token"} <=> current # Nobody
  /\ current \notin shown

\* No two goroutines wait for each other, over any number of others: what a
\* goroutine waits for ranks below it, because the client's lock is always taken
\* last.
WaitsGoDown ==
  \A g, h \in Goroutines : WaitsFor(g, h) => Rank(h) < Rank(g) /\ Rank(g) \in 0..3

\* Behind everyone who asks for a lock, the status page included, there is at the
\* end of at most three waits one who need not wait: a request, a critical section
\* or a lock that is free.
SomeoneProceeds ==
  \A g \in Goroutines : Asks(g) =>
    \/ MayProceed(g)
    \/ \E h \in Goroutines : WaitsFor(g, h) /\
         \/ MayProceed(h)
         \/ \E i \in Goroutines : WaitsFor(h, i) /\
              \/ MayProceed(i)
              \/ \E j \in Goroutines : WaitsFor(i, j) /\ MayProceed(j)

\* A dial gets past the tunnel's lock, however often the status page is asked
\* for and however long the requests of the other tunnels take.
DialsProceed == \A t \in Tunnels : dialer[t] = "want" ~> dialer[t] = "away"

\* Every status request is answered.
StatusAnswered == status # "away" ~> status = "away"
=============================================================================
