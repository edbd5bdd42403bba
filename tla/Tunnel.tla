------------------------------- MODULE Tunnel -------------------------------
(***************************************************************************)
(* One Tunnel of tunnel.go: the Run goroutine with its reconnect loop, the *)
(* statsLoop and healthLoop goroutines of the current session, the callers *)
(* of Dial, and the context whose cancellation ends all of them.           *)
(*                                                                         *)
(* Times.  Handshake ages are counted in minutes and saturate one past     *)
(* HandshakeLimit, where every comparison of the code has settled; delays  *)
(* are in seconds, as in Run.  PIA's answers and the network are           *)
(* nondeterministic.  The traffic counters, latencies and log lines are    *)
(* left out: no decision of the code reads them.                           *)
(***************************************************************************)
EXTENDS Integers

CONSTANTS
  Dialers,           \* goroutines that call Tunnel.Dial
  Sessions,          \* identities of WireGuard devices (with their netstack)
  NoSession,         \* nil
  MaxCount,          \* bound: the two attempt counters saturate here
  HandshakeLimit,    \* the 3 minutes of statsLoop and healthLoop
  RetryAfters,       \* Retry-After values PIA may send with a 429, in seconds
  Preferred,         \* cfg.PreferredServer is set and listed by the region
  PreferredAnswers   \* what the preferred server may answer

Answers == {"ok", "fail", "limit", "hang"}

ASSUME TunnelAssumption ==
  /\ NoSession \notin Sessions /\ Sessions # {}
  /\ MaxCount \in Nat \ {0}
  /\ HandshakeLimit \in Nat
  /\ RetryAfters \subseteq Nat
  /\ Preferred \in BOOLEAN
  /\ PreferredAnswers \subseteq Answers /\ PreferredAnswers # {}

VARIABLES
  ctx,             \* "live" or "canceled": the context given to Run
  run,             \* where the Run goroutine is
  err,             \* error runOnce is about to return: "none", "limit", "other"
  retryAfter,      \* RetryAfter of that error when it is a RateLimitError
  limited,         \* history: PIA answered 429 during the current attempt
  regCtx,          \* the 30 s registration context: "live" or "expired"
  backoff, delay,  \* Run's locals, seconds; delay is 0 outside the select
  connectAttempt, connectFails,
  state, lastError,
  dev,             \* runOnce's local dev (its device, netstack and session)
  openDevs,        \* devices created and not yet closed
  devAge,          \* age of the device's last handshake, NoHandshake if none
  netNet,          \* t.netNet, t.device and t.session, always set together
  lastHandshake,   \* age of t.lastHandshake, NoHandshake for the zero time
  probe,           \* t.probeStatus and t.probeOK: "none", "ok" or "failed"
  stats, sample,   \* statsLoop: where it is, and the age IpcGet returned
  health, verdict, \* healthLoop: where it is, and the result of doProbe
  dial             \* dialer -> where its Dial call is and the netstack it holds

attemptVars == <<err, retryAfter, limited, regCtx>>
retryVars   == <<backoff, delay, connectAttempt, connectFails>>
statusVars  == <<state, lastError>>
deviceVars  == <<dev, openDevs>>
loopVars    == <<stats, sample, health, verdict>>
recordVars  == <<lastHandshake, probe>>
vars == <<ctx, run, attemptVars, retryVars, statusVars, deviceVars, devAge,
          netNet, recordVars, loopVars, dial>>

InitialBackoff == 2
MaxBackoff     == 60
RateLimitFloor == 300

States     == {"idle", "connecting", "up", "degraded", "error"}
RunPoints  == {"loop", "begin", "region", "preferred", "random", "build",
               "configure", "serve", "closing", "ended", "failed", "sleep",
               "returned"}
NoHandshake == -1
MaxAge      == HandshakeLimit + 1
Ages        == NoHandshake .. MaxAge
Fresh(age)  == age \in 0 .. HandshakeLimit

Lower(a, b)  == IF a < b THEN a ELSE b
Higher(a, b) == IF a > b THEN a ELSE b
Count(n)     == Lower(n + 1, MaxCount)
Older(age)   == IF age = NoHandshake THEN age ELSE Lower(age + 1, MaxAge)

Idle == [at |-> "ready", net |-> NoSession]

TypeOK ==
  /\ ctx \in {"live", "canceled"}
  /\ run \in RunPoints
  /\ err \in {"none", "limit", "other"}
  /\ retryAfter \in Nat
  /\ limited \in BOOLEAN
  /\ regCtx \in {"live", "expired"}
  /\ backoff \in InitialBackoff .. MaxBackoff
  /\ delay \in Nat
  /\ connectAttempt \in 0 .. MaxCount
  /\ connectFails \in 0 .. MaxCount
  /\ state \in States
  /\ lastError \in {"none", "handshake", "probe", "session"}
  /\ dev \in Sessions \cup {NoSession}
  /\ openDevs \in SUBSET Sessions
  /\ devAge \in Ages
  /\ netNet \in Sessions \cup {NoSession}
  /\ lastHandshake \in Ages
  /\ probe \in {"none", "ok", "failed"}
  /\ stats \in {"off", "wait", "update", "done"}
  /\ sample \in Ages
  /\ health \in {"off", "timer", "report", "done"}
  /\ verdict \in BOOLEAN
  /\ dial \in [Dialers -> [at : {"ready", "loaded", "open", "down", "failed"},
                           net : Sessions \cup {NoSession}]]

Init ==
  /\ ctx = "live" /\ run = "loop"
  /\ err = "none" /\ retryAfter = 0 /\ limited = FALSE /\ regCtx = "live"
  /\ backoff = InitialBackoff /\ delay = 0
  /\ connectAttempt = 0 /\ connectFails = 0
  /\ state = "idle" /\ lastError = "none"
  /\ dev = NoSession /\ openDevs = {} /\ devAge = NoHandshake
  /\ netNet = NoSession /\ lastHandshake = NoHandshake /\ probe = "none"
  /\ stats = "off" /\ sample = NoHandshake
  /\ health = "off" /\ verdict = FALSE
  /\ dial = [d \in Dialers |-> Idle]

(***************************************************************************)
(* The environment.                                                        *)
(***************************************************************************)

\* The embedder cancels the context; every Done() channel fires from now on.
Cancel ==
  /\ ctx = "live"
  /\ ctx' = "canceled"
  /\ UNCHANGED <<run, attemptVars, retryVars, statusVars, deviceVars, devAge,
                 netNet, recordVars, loopVars, dial>>

\* wireguard-go completes a handshake: possible from dev.Up to dev.Close.
Handshake ==
  /\ run \in {"serve", "closing"}
  /\ devAge # 0
  /\ devAge' = 0
  /\ UNCHANGED <<ctx, run, attemptVars, retryVars, statusVars, deviceVars,
                 netNet, recordVars, loopVars, dial>>

\* A minute passes: all the timestamps the code compares with now get older,
\* the one statsLoop holds between IpcGet and the lock included.
Tick ==
  /\ \E age \in {devAge, lastHandshake, sample} : age # Older(age)
  /\ devAge' = Older(devAge)
  /\ lastHandshake' = Older(lastHandshake)
  /\ sample' = Older(sample)
  /\ UNCHANGED <<ctx, run, attemptVars, retryVars, statusVars, deviceVars,
                 netNet, probe, stats, health, verdict, dial>>

(***************************************************************************)
(* Run and the bring-up half of runOnce.                                   *)
(***************************************************************************)

\* Run leaves its loop: at the top, after runOnce, or out of the select.
Return ==
  /\ run \in {"loop", "ended", "sleep"}
  /\ ctx = "canceled"
  /\ run' = "returned"
  /\ delay' = 0
  /\ UNCHANGED <<ctx, attemptVars, backoff, connectAttempt, connectFails,
                 statusVars, deviceVars, devAge, netNet, recordVars, loopVars,
                 dial>>

\* The top of the loop finds the context live.  The attempt begins although
\* the context may be canceled before it is shown.
CheckContext ==
  /\ run = "loop"
  /\ ctx = "live"
  /\ run' = "begin"
  /\ UNCHANGED <<ctx, attemptVars, retryVars, statusVars, deviceVars, devAge,
                 netNet, recordVars, loopVars, dial>>

\* The first two lines of runOnce.
BeginAttempt ==
  /\ run = "begin"
  /\ run' = "region"
  /\ connectAttempt' = Count(connectAttempt)
  /\ state' = "connecting"
  /\ lastError' = "none"
  /\ UNCHANGED <<ctx, attemptVars, backoff, delay, connectFails, deviceVars,
                 devAge, netNet, recordVars, loopVars, dial>>

\* runOnce returns err without having published anything.
GiveUp(kind, after) ==
  /\ run' = "ended"
  /\ err' = kind
  /\ retryAfter' = after

\* preferredServerInRegion.
FirstChoice == IF Preferred THEN "preferred" ELSE "random"

\* FindRegion: a cached list is returned whatever ctx is, a fetch may fail,
\* and so may the lookup of the region in the list.
FindRegion ==
  /\ run = "region"
  /\ \/ /\ run' = FirstChoice
        /\ UNCHANGED <<err, retryAfter>>
     \/ GiveUp("other", 0)
  /\ UNCHANGED <<ctx, limited, regCtx, retryVars, statusVars, deviceVars,
                 devAge, netNet, recordVars, loopVars, dial>>

\* What follows the preferred server's answer: the device, or the random pick.
AfterPreferred_NoFallback(answer) == IF answer = "ok" THEN "build" ELSE "ended"
AfterPreferred(answer) == IF answer = "ok" THEN "build" ELSE "random"

\* NewSessionWithServer on the preferred server.  "fail" is every error that
\* is neither a 429 nor a timeout.  A server that accepts the connection and
\* then stays silent ("hang") is given up when regCtx, which the random pick
\* shares, expires.  A canceled ctx fails the call.
AskPreferred ==
  /\ run = "preferred"
  /\ \E answer \in IF ctx = "canceled" THEN {"fail"} ELSE PreferredAnswers :
       /\ run' = AfterPreferred(answer)
       /\ limited' = (limited \/ answer = "limit")
       /\ regCtx' = IF answer = "hang" THEN "expired" ELSE regCtx
  /\ UNCHANGED <<ctx, err, retryAfter, retryVars, statusVars, deviceVars,
                 devAge, netNet, recordVars, loopVars, dial>>

\* NewSession on a random server of the region, its error kept by runOnce.
RandomAccepts ==
  /\ run = "random"
  /\ ctx = "live" /\ regCtx = "live"
  /\ run' = "build"
  /\ UNCHANGED <<ctx, attemptVars, retryVars, statusVars, deviceVars, devAge,
                 netNet, recordVars, loopVars, dial>>

RandomFails ==
  /\ run = "random"
  /\ GiveUp("other", 0)
  /\ UNCHANGED <<ctx, limited, regCtx, retryVars, statusVars, deviceVars,
                 devAge, netNet, recordVars, loopVars, dial>>

RandomLimited ==
  /\ run = "random"
  /\ ctx = "live" /\ regCtx = "live"
  /\ \E after \in RetryAfters : GiveUp("limit", after)
  /\ limited' = TRUE
  /\ UNCHANGED <<ctx, regCtx, retryVars, statusVars, deviceVars, devAge,
                 netNet, recordVars, loopVars, dial>>

\* Device identities that nothing refers to any more.
Unused == {s \in Sessions : s \notin openDevs
                            /\ \A d \in Dialers : dial[d].net # s}

\* CreateNetTUN and NewDevice, or the errors before the device exists.
BuildDevice ==
  /\ run = "build"
  /\ \/ /\ \E s \in Unused : dev' = s /\ openDevs' = openDevs \cup {s}
        /\ run' = "configure"
        /\ UNCHANGED <<err, retryAfter>>
     \/ /\ GiveUp("other", 0)
        /\ UNCHANGED deviceVars
  /\ UNCHANGED <<ctx, limited, regCtx, retryVars, statusVars, devAge, netNet,
                 recordVars, loopVars, dial>>

\* dev.Close.
WithoutDevice_Leaked == openDevs
WithoutDevice == openDevs \ {dev}

\* IPCConfig, IpcSet or Up fails: the device is closed before returning.
ConfigureFails ==
  /\ run = "configure"
  /\ openDevs' = WithoutDevice
  /\ dev' = NoSession
  /\ GiveUp("other", 0)
  /\ UNCHANGED <<ctx, limited, regCtx, retryVars, statusVars, devAge, netNet,
                 recordVars, loopVars, dial>>

\* dev.Up succeeds, the state is published under one lock, the loops start.
\* ctx is not looked at again, so a canceled tunnel may still come up.
Publish ==
  /\ run = "configure"
  /\ run' = "serve"
  /\ state' = "up"
  /\ lastError' = "none"
  /\ netNet' = dev
  /\ devAge' = NoHandshake
  /\ lastHandshake' = NoHandshake
  /\ probe' = "none"
  /\ stats' = "wait"
  /\ health' = "timer"
  /\ UNCHANGED <<ctx, attemptVars, retryVars, deviceVars, sample, verdict,
                 dial>>

(***************************************************************************)
(* The rest of runOnce and of Run's loop body.                             *)
(***************************************************************************)

\* The state the cleanup leaves behind.
StateAfterCleanup ==
  IF ctx = "live" THEN "error"
  ELSE IF state \in {"up", "degraded"} THEN "idle" ELSE state

\* wg.Wait: both loops have returned.
LoopsReturned_OneCounted == stats = "done"
LoopsReturned == stats = "done" /\ health = "done"

\* The cleanup with its two halves swapped.
Teardown_DeviceFirst ==
  /\ run = "serve"
  /\ ctx = "canceled"
  /\ LoopsReturned
  /\ run' = "closing"
  /\ openDevs' = WithoutDevice
  /\ UNCHANGED <<ctx, attemptVars, retryVars, statusVars, dev, devAge, netNet,
                 recordVars, loopVars, dial>>

\* loopCtx is done only when ctx is; both loops have returned (wg.Wait); then
\* the locked half of the deferred cleanup runs.
Teardown ==
  /\ run = "serve"
  /\ ctx = "canceled"
  /\ LoopsReturned
  /\ run' = "closing"
  /\ netNet' = NoSession
  /\ state' = StateAfterCleanup
  /\ UNCHANGED <<ctx, attemptVars, retryVars, lastError, deviceVars, devAge,
                 recordVars, loopVars, dial>>

\* The unlocked half: dev.Close.
CloseDevice ==
  /\ run = "closing"
  /\ run' = "ended"
  /\ openDevs' = WithoutDevice
  /\ dev' = NoSession
  /\ err' = "other"
  /\ UNCHANGED <<ctx, retryAfter, limited, regCtx, retryVars, statusVars,
                 devAge, netNet, recordVars, loopVars, dial>>

\* The delay after a 429, and the next step of the exponential schedule.
Cooldown_NoFloor(after) == after
Cooldown(after) == Higher(after, RateLimitFloor)
NextBackoff == Lower(2 * backoff, MaxBackoff)

\* After runOnce the context is live: its error is a failure, whatever happens
\* to the context from here on.
CheckOutcome_Skipped ==
  /\ run = "ended"
  /\ run' = "failed"
  /\ UNCHANGED <<ctx, attemptVars, retryVars, statusVars, deviceVars, devAge,
                 netNet, recordVars, loopVars, dial>>
CheckOutcome ==
  /\ run = "ended"
  /\ ctx = "live"
  /\ run' = "failed"
  /\ UNCHANGED <<ctx, attemptVars, retryVars, statusVars, deviceVars, devAge,
                 netNet, recordVars, loopVars, dial>>

\* Run after a failed runOnce: count it, show the error, choose the delay.
EndAttempt ==
  /\ run = "failed"
  /\ run' = "sleep"
  /\ connectFails' = Count(connectFails)
  /\ state' = "error"
  /\ lastError' = "session"
  /\ IF err = "limit"
       THEN /\ delay' = Cooldown(retryAfter)
            /\ backoff' = InitialBackoff
       ELSE /\ delay' = backoff
            /\ backoff' = NextBackoff
  /\ UNCHANGED <<ctx, attemptVars, connectAttempt, deviceVars, devAge, netNet,
                 recordVars, loopVars, dial>>

\* time.After(delay) fires; the locals of the iteration go out of scope.  When
\* ctx is done too, select may still take this branch.
Wake ==
  /\ run = "sleep"
  /\ run' = "loop"
  /\ delay' = 0
  /\ err' = "none" /\ retryAfter' = 0 /\ limited' = FALSE /\ regCtx' = "live"
  /\ UNCHANGED <<ctx, backoff, connectAttempt, connectFails, statusVars,
                 deviceVars, devAge, netNet, recordVars, loopVars, dial>>

(***************************************************************************)
(* statsLoop.  An IpcGet error only sends it back to its select.           *)
(***************************************************************************)
StatsRead ==
  /\ stats = "wait"
  /\ stats' = "update"
  /\ sample' = devAge
  /\ UNCHANGED <<ctx, run, attemptVars, retryVars, statusVars, deviceVars,
                 devAge, netNet, recordVars, health, verdict, dial>>

\* t.lastHandshake after this poll: the sample, unless it was zero.
Recorded_Dropped == lastHandshake
Recorded == IF sample = NoHandshake THEN lastHandshake ELSE sample

StatsUpdate ==
  LET demote  == state = "up" /\ sample # NoHandshake /\ ~Fresh(Recorded)
      promote == state = "degraded" /\ sample # NoHandshake /\ Fresh(Recorded)
  IN
  /\ stats = "update"
  /\ stats' = "wait"
  /\ sample' = NoHandshake
  /\ lastHandshake' = Recorded
  /\ \/ demote /\ state' = "degraded" /\ lastError' = "handshake"
     \/ promote /\ state' = "up" /\ lastError' = "none"
     \/ ~demote /\ ~promote /\ UNCHANGED statusVars
  /\ UNCHANGED <<ctx, run, attemptVars, retryVars, deviceVars, devAge, netNet,
                 probe, health, verdict, dial>>

\* statsLoop started with a context nobody cancels.
StatsExit_Detached == FALSE
StatsExit ==
  /\ stats = "wait"
  /\ ctx = "canceled"
  /\ stats' = "done"
  /\ UNCHANGED <<ctx, run, attemptVars, retryVars, statusVars, deviceVars,
                 devAge, netNet, recordVars, sample, health, verdict, dial>>

(***************************************************************************)
(* healthLoop.  The verdict of doProbe is held across tcpPing.             *)
(***************************************************************************)

\* doProbe runs under loopCtx: it fails once ctx is canceled, and nothing
\* comes back through a device that has never completed a handshake.
ProbeResults ==
  {ok \in BOOLEAN : ok => ctx = "live" /\ devAge # NoHandshake}

Probe ==
  /\ health = "timer"
  /\ health' = "report"
  /\ verdict' \in ProbeResults
  /\ UNCHANGED <<ctx, run, attemptVars, retryVars, statusVars, deviceVars,
                 devAge, netNet, recordVars, stats, sample, dial>>

\* A good probe promotes only when the last recorded handshake is recent.
ProbePromotes_Alone == state = "degraded" /\ verdict
ProbePromotes == state = "degraded" /\ verdict /\ Fresh(lastHandshake)

\* The reason shown after a failed probe.
ProbeReason_Inverted == IF lastError # "none" THEN "probe" ELSE lastError
ProbeReason == IF lastError = "none" THEN "probe" ELSE lastError

HealthUpdate ==
  LET demote == state = "up" /\ ~verdict IN
  /\ health = "report"
  /\ health' = "timer"
  /\ verdict' = FALSE
  /\ probe' = IF verdict THEN "ok" ELSE "failed"
  /\ \/ demote /\ state' = "degraded" /\ lastError' = ProbeReason
     \/ ProbePromotes /\ state' = "up" /\ lastError' = "none"
     \/ ~demote /\ ~ProbePromotes /\ UNCHANGED statusVars
  /\ UNCHANGED <<ctx, run, attemptVars, retryVars, deviceVars, devAge, netNet,
                 lastHandshake, stats, sample, dial>>

HealthExit ==
  /\ health = "timer"
  /\ ctx = "canceled"
  /\ health' = "done"
  /\ UNCHANGED <<ctx, run, attemptVars, retryVars, statusVars, deviceVars,
                 devAge, netNet, recordVars, stats, sample, verdict, dial>>

(***************************************************************************)
(* Tunnel.Dial: the read of netNet under the lock, then the unlocked call. *)
(***************************************************************************)
\* What the caller gets from the locked read.
Loaded_NoNilCheck == [at |-> "loaded", net |-> netNet]
Loaded == [at |-> IF netNet = NoSession THEN "down" ELSE "loaded", net |-> netNet]

LoadNetstack(d) ==
  /\ dial[d].at = "ready"
  /\ dial' = [dial EXCEPT ![d] = Loaded]
  /\ UNCHANGED <<ctx, run, attemptVars, retryVars, statusVars, deviceVars,
                 devAge, netNet, recordVars, loopVars>>

\* DialContext fails on a netstack whose device is closed; otherwise the
\* destination decides.
DialContext(d) ==
  /\ dial[d].at = "loaded"
  /\ \/ /\ dial[d].net \in openDevs
        /\ dial' = [dial EXCEPT ![d].at = "open"]
     \/ dial' = [dial EXCEPT ![d] = [at |-> "failed", net |-> NoSession]]
  /\ UNCHANGED <<ctx, run, attemptVars, retryVars, statusVars, deviceVars,
                 devAge, netNet, recordVars, loopVars>>

\* The caller is done with the connection or the error.
HangUp(d) ==
  /\ dial[d].at \in {"open", "down", "failed"}
  /\ dial' = [dial EXCEPT ![d] = Idle]
  /\ UNCHANGED <<ctx, run, attemptVars, retryVars, statusVars, deviceVars,
                 devAge, netNet, recordVars, loopVars>>

Environment == Cancel \/ Handshake \/ Tick

Runner ==
  \/ Return \/ CheckContext \/ BeginAttempt \/ FindRegion \/ AskPreferred
  \/ RandomAccepts \/ RandomFails \/ RandomLimited
  \/ BuildDevice \/ ConfigureFails \/ Publish
  \/ Teardown \/ CloseDevice \/ CheckOutcome \/ EndAttempt \/ Wake

StatsLoop  == StatsRead \/ StatsUpdate \/ StatsExit
HealthLoop == Probe \/ HealthUpdate \/ HealthExit
Dialing    == \E d \in Dialers : LoadNetstack(d) \/ DialContext(d) \/ HangUp(d)

Next == Environment \/ Runner \/ StatsLoop \/ HealthLoop \/ Dialing

Spec == Init /\ [][Next]_vars

\* Every goroutine keeps running.  When several channels of a select are
\* ready Go picks one at random, so Done() is not passed over for ever: that
\* is the strong fairness of the two exits and of Return.
Fairness ==
  /\ WF_vars(Runner)
  /\ SF_vars(Return)
  /\ WF_vars(StatsLoop) /\ SF_vars(StatsExit)
  /\ WF_vars(HealthLoop) /\ SF_vars(HealthExit)

FairSpec == Spec /\ Fairness

(***************************************************************************)
(* Safety.                                                                 *)
(***************************************************************************)

\* The resources are there exactly while the state says so (tunnel.go:86), so
\* that what Snapshot shows and what Dial answers never contradict each other.
ActiveResources == netNet # NoSession <=> state \in {"up", "degraded"}

\* The netstack a Dial finds belongs to a device that is not closed: cleanup
\* unpublishes first and closes after (tunnel.go:306).
PublishedNetIsOpen == netNet # NoSession => netNet \in openDevs

\* While a loop may still act, its own session is the published one and its
\* device is open: a loop never writes into the status of a session that is
\* not its own, nor asks a closed device.
LoopsWithinSession ==
  stats \in {"wait", "update"} \/ health \in {"timer", "report"} =>
    /\ run = "serve"
    /\ netNet = dev
    /\ dev \in openDevs

\* Whatever fails, runOnce leaves no device open behind it.
NoDeviceLeak ==
  openDevs = IF run \in {"configure", "serve", "closing"} THEN {dev} ELSE {}

\* Every pause before the next attempt follows the schedule of tunnel.go:138:
\* 2 to 60 seconds, but after an attempt that ended in a 429 at least five
\* minutes and at least what PIA asked for.
RetriesCoolDown ==
  run = "sleep" =>
    IF err = "limit" THEN delay >= RateLimitFloor /\ delay >= retryAfter
                     ELSE delay \in InitialBackoff .. MaxBackoff

\* A state that is a failure comes with a reason and one that is not shows
\* none, whichever of the three goroutines wrote last.
ReasonMatchesState ==
  /\ state \in {"up", "connecting"} => lastError = "none"
  /\ state \in {"degraded", "error"} => lastError # "none"

\* A tunnel that has been up is never rebuilt and never shows an error: it
\* stays up or degraded until it is idle for good (tunnel.go:144).
OnceUpThenIdle ==
  [][(state \in {"up", "degraded"})
       => (state' \in {"up", "degraded", "idle"})]_vars

\* A degraded tunnel is promoted only while the device really has a recent
\* handshake, although both loops decide from a timestamp read earlier.
PromotionIsJustified ==
  [][state = "degraded" /\ state' = "up" => Fresh(devAge)]_vars

\* A handshake that is too old now, seen by statsLoop at any time before, takes
\* the tunnel out of up when statsLoop gets the lock.
StaleSampleDemotes ==
  [][stats = "update" /\ stats' = "wait"
       /\ sample # NoHandshake /\ devAge = MaxAge => state' # "up"]_vars

\* The steps Run still has before it when its context is canceled.  It may
\* begin the attempt, or show the failure, that it had decided on before, but
\* it never goes back and decides on no other, so that it returns after nine
\* steps at most (tunnel.go:155, :159, :184 and :311).
Ahead == [returned |-> 0, loop |-> 1, ended |-> 1, sleep |-> 2, closing |-> 2,
          failed |-> 3, serve |-> 3, configure |-> 4, build |-> 5, random |-> 6,
          preferred |-> 7, region |-> 8, begin |-> 9]

ShutdownIsBounded ==
  [][ctx = "canceled" /\ run' # run => Ahead[run'] < Ahead[run]]_vars

\* The inductive invariant behind the theorems: where Run is tells what is
\* shown, what is owned and who may act, and the timestamps the loops hold are
\* never younger than the device's.
Lifecycle ==
  /\ run = "serve" => netNet = dev /\ state \in {"up", "degraded"}
  /\ run # "serve" => /\ netNet = NoSession /\ state \notin {"up", "degraded"}
                      /\ stats \in {"off", "done"} /\ health \in {"off", "done"}
  /\ run \in {"configure", "serve", "closing"} => dev \in Sessions
  /\ run \in {"region", "preferred", "random", "build", "configure"}
       => state = "connecting"
  /\ run = "failed" \/ (run = "ended" /\ ctx = "live") => state = "connecting"
  /\ run = "sleep" => state = "error"
  /\ run = "closing" => ctx = "canceled"
  /\ run \in {"loop", "begin"}
       => state = "error" \/ (state = "idle" /\ connectAttempt = 0)
  /\ connectAttempt = 0 => run \in {"loop", "begin", "returned"}

Timestamps ==
  /\ stats # "update" => sample = NoHandshake
  /\ \A held \in {lastHandshake, sample} :
       held # NoHandshake => devAge # NoHandshake /\ devAge <= held

IInv ==
  /\ TypeOK
  /\ Lifecycle
  /\ Timestamps
  /\ NoDeviceLeak
  /\ ReasonMatchesState
  /\ RetriesCoolDown

\* What users of a tunnel may rely on: the life cycle and the answers of Dial
\* described by TunnelPromise, a change that was decided on before a
\* cancellation and shown after it included (tunnel.go:155-195 and :159-163).
\* A tunnel that went back to idle is retired.
Promise == INSTANCE TunnelPromise WITH
  checked <- run \in {"begin", "failed"},
  goroutine <- IF run = "returned" THEN "done" ELSE "running",
  phase <- IF state = "idle" /\ connectAttempt > 0 THEN "retired" ELSE state,
  net   <- netNet,
  flow  <- [d \in Dialers |->
              IF dial[d].at \in {"ready", "down"} THEN dial[d].at ELSE "through"]

PromiseKept == Promise!Spec

(***************************************************************************)
(* Liveness.                                                               *)
(***************************************************************************)

\* Cancellation ends Run and both loops and closes the device, from wherever
\* they are.
CancelShutsDown ==
  ctx = "canceled" ~> /\ run = "returned"
                      /\ netNet = NoSession /\ openDevs = {}
                      /\ stats \in {"off", "done"}
                      /\ health \in {"off", "done"}

\* When handshakes have stopped for good, the tunnel stops being shown up and
\* successful probes do not bring it back.
StaleIsNoticed ==
  <>[](run = "serve" /\ ctx = "live" /\ devAge = MaxAge) => <>[](state # "up")

\* When handshakes and probes are good from some point on, and no timestamp
\* goes stale in statsLoop's hands, the state is up from some point on.
Recovers ==
  <>[](/\ run = "serve" /\ ctx = "live"
       /\ Fresh(devAge) /\ (stats = "update" => Fresh(sample))
       /\ (health = "report" => verdict)) => <>[](state = "up")

\* The region is listed, and a device can be built.
RegionFound == FindRegion /\ run' # "ended"
DeviceBuilt == BuildDevice /\ run' = "configure"

\* PIA and the network accept some of the attempts, and the preferred server,
\* whatever else it answers, does not hang for ever.
Cooperation ==
  /\ SF_vars(RegionFound)
  /\ SF_vars(RandomAccepts)
  /\ SF_vars(DeviceBuilt)
  /\ SF_vars(Publish)
  /\ <>[][regCtx' = "live"]_regCtx

\* With a cooperative environment the retry loop does bring the tunnel up: a
\* failing preferred server does not keep it from trying the others.
EventuallyUp == Cooperation /\ [](ctx = "live") => <>(state = "up")

\* When the fair steps are enabled, written out: what the liveness proofs take
\* from the meaning of ENABLED.
StepsAreEnabled ==
  /\ run \notin {"serve", "returned"} => ENABLED <<Runner>>_vars
  /\ run = "serve" /\ ctx = "canceled" /\ LoopsReturned => ENABLED <<Runner>>_vars
  /\ stats \in {"wait", "update"} => ENABLED <<StatsLoop>>_vars
  /\ stats = "wait" /\ ctx = "canceled" => ENABLED <<StatsExit>>_vars
  /\ health \in {"timer", "report"} => ENABLED <<HealthLoop>>_vars
  /\ health = "timer" /\ ctx = "canceled" => ENABLED <<HealthExit>>_vars
  /\ run = "region" => ENABLED <<RegionFound>>_vars
  /\ run = "random" /\ ctx = "live" /\ regCtx = "live" => ENABLED <<RandomAccepts>>_vars
  /\ run = "build" /\ Unused # {} => ENABLED <<DeviceBuilt>>_vars
  /\ run = "configure" => ENABLED <<Publish>>_vars

(***************************************************************************)
(* What the documentation and the comments say, and the code does not do.  *)
(***************************************************************************)

\* README.md:193: a proxy is degraded when the periodic probe is failing.
ProbeFailureShows == state = "up" => probe # "failed"

\* tunnel.go:138: the long cooldown is used when PIA returns a 429.
EveryRateLimitCoolsDown == run = "sleep" /\ limited => delay >= RateLimitFloor

\* tunnel.go:214: on any other failure of the preferred server a random one
\* is tried before giving up, with time left to answer.
FallbackHasTime == run = "random" /\ ctx = "live" => regCtx = "live"
=============================================================================
