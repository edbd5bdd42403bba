# A TLA+ development for piaproxy

piaproxy brings up one userspace WireGuard tunnel per city against Private
Internet Access (PIA) and puts a SOCKS5 listener in front of each. This
directory specifies the program in TLA+, from the tunnel's life cycle to the
SOCKS5 byte formats, model-checks it with TLC and proves the most important
facts with TLAPS.

    tlc -workers 2 -config MCTunnel.cfg MCTunnel.tla           # a run
    tlapm Tunnel_proofs.tla                                    # the proofs

`PROJECT.json` lists the components, the runs with their properties, a mutant
of the code for every property, the source lines behind every definition, the
findings, the hazards and the theorems.


## 1. The system

| Component | Source | State | Operations |
|---|---|---|---|
| Tunnel | `tunnel.go` | state and its reason, published netstack/device/session, last handshake, probe result, attempt counters; `Run`'s backoff | `Run`, `runOnce`, `statsLoop`, `healthLoop`, `Dial`, `Snapshot` |
| PIAClient | `pia.go` | cached token, cached region list, one mutex | `Regions`, `FindRegion`, `Token`, `SetToken`, `GetToken`, `InvalidateToken`, `NewSession`, `NewSessionWithServer` |
| SocksListener | `socks_listener.go` | started, the socket, its Server, cancel function and done channel, the last bind error | `Start`, `Stop`, `Snapshot`, `ActiveConnCount` |
| Server, Conn | `socks5.go` | active connections; per connection its request and counters | `Serve`, `Conn.Run`, `handleTCP`, `handleUDP` |
| UDP association | `socks5.go:359-553` | the client's address, one connection per target | request loop, one response loop per target |
| Proxy | `proxy.go` | the current tunnel and listener | `Run`, `Snapshot` |
| piaproxyd | `cmd/piaproxyd/main.go` | none after start-up | `main`, `buildCityList`, `filterUnknownRegions` |
| StatusServer | `cmd/piaproxyd/status.go` | none | `handleIndex`, `handleAPI` |

**How they interact.** `main` makes one PIAClient and one Proxy per city.
`Proxy.Run` starts a Tunnel's `Run` and, when that has left `idle`, a
SocksListener; one context ends all of them. A Tunnel calls the shared
PIAClient for a region and a registration, publishes a netstack under its lock,
and runs two loops that promote and demote its state. A listener's connections
call `Tunnel.Dial`, which reads the netstack under the lock and uses it after.
The status page snapshots every tunnel and, inside each snapshot, asks the
PIAClient for the token.

**What is hard.** Three goroutines write one tunnel's state from evidence they
read earlier. Cancellation may come between any two lines. Cleanup has an order
that dialers depend on. The client's mutex is held across HTTP requests, and the
status page takes it while it holds a tunnel's lock. The delay before a retry
depends on which of two errors survives. `Start` and `Stop` may be called by
different goroutines while `Accept` fails. Each relayed connection is three
goroutines on two sockets. A UDP association is a goroutine per target, an
address they share without a lock, and connections that outlive their tunnel.
`Proxy.Run` polls for the start of a goroutine that a cancellation may end
first. `PROJECT.json` lists each hazard at its line.

**What makes each component correct.**

- Tunnel: published resources match the state and are usable; loops stay within
  their session; nothing leaks; retries follow the schedule; the life cycle is
  the promised one; cancellation ends everything; staleness is shown.
- PIAClient: one login at a time, no login that a rejection has not paid for, no
  rejected token sent again, nobody stuck behind the lock.
- SocksListener: no socket without an owner, the address free after the last
  `Stop`, `Stop` returns.
- Conn: nothing used before authentication, exactly one answer, complete data in
  the direction that ended, everything released.
- UDP association: every target connection is owned and closed, every one in
  the map is still being read, an answer always has an addressee, and the end of
  the TCP connection ends everything.
- Proxy: nothing is bound before the tunnel has begun to connect, the listener
  is started if it has, and nothing is left when `Run` returns.
- Locks: no deadlock between the tunnels' locks and the client's; no writer
  inside a snapshot.
- Codec: segmentation changes nothing; what the server sends reads back as the
  address it stands for.
- City list: ports are the documented ones and collide only on request.
- Retry-After: the pause is bounded by the floor and the request, overflow
  included.


## 2. The modules

| Module | What it is |
|---|---|
| `TunnelPromise` | abstract: what users of a tunnel may rely on |
| `Tunnel` | `tunnel.go` in detail; implements `TunnelPromise` (`PromiseKept`) |
| `Tunnel_proofs` | its theorems |
| `PIAClient`, `PIAClient_proofs` | `pia.go` under contention; its theorems |
| `StatusLocks`, `StatusLocks_proofs` | the lock graph across tunnels, client and status page; its theorems |
| `ListenerPromise` | abstract: what those who start and stop a listener, and its clients, may rely on |
| `SocksListener`, `SocksListener_proofs` | `socks_listener.go` and `Serve`; implements `ListenerPromise` (`PromiseKept`); its theorems |
| `SocksConn`, `SocksConn_proofs` | one connection of `socks5.go`; its theorems |
| `UdpAssociation`, `UdpAssociation_proofs` | the datagrams of one UDP association of `socks5.go`; its theorems |
| `Proxy`, `Proxy_proofs` | `Proxy.Run`: composes `SocksListener` with `TunnelPromise`; its theorems |
| `SocksCodec` | the parsers and marshalers of `socks5.go`, on bytes |
| `CityList` | `PIA_REGIONS` to cities and ports, turn by turn of the loops of `main.go` |
| `RetryAfter` | `Retry-After` to a pause, at the width of a `time.Duration` |
| `Conversions_proofs` | the theorems of `SocksCodec`, `CityList` and `RetryAfter` |
| `MC*` | instances for TLC; `MCConversions` runs the three pure modules together |

How they compose: `Tunnel` implements `TunnelPromise`, and `Proxy` takes the
tunnel as that promise and the listener as `SocksListener` itself, with `Run` as
its one controller. `SocksConn` abstracts a message to its outcome, which
`SocksCodec` computes; its stage `associated` is what `UdpAssociation` refines
(`AssociationIsAStage`, a theorem). The mutex in `StatusLocks` is that of
`PIAClient` (`LockIsTheClients`, a theorem).
`Tunnel` abstracts `Retry-After` to below or above the floor, the comparison
`RetryAfter` makes on integers.

No module declares a RECURSIVE operator. Operators whose names end in
`_Something` next to a definition (`WithoutDevice_Leaked`) are mutated forms of
it: nothing uses them in the specifications. They are the plausible bugs with
which each property was shown to be able to fail.

### Tunnel

`run` is the program counter of `Run` and `runOnce`:

    loop -> begin -> region -> [preferred ->] random -> build -> configure -> serve
      ^                 |           |           |                    |          |
      |                 |           |           |                    |       closing
      |                 v           v           v                    v          v
      |                 +-----------+-------> ended <----------------+----------+
      |                                       |   |
      +------- sleep <------- failed <--------+   +--> returned

`loop` and `sleep` lead to `returned` as well. `CheckContext` and `CheckOutcome` are the two
`ctx.Err()` that find the context live, and `BeginAttempt` and `EndAttempt` what
follows them (`setState`, `setError`): a cancellation fits between a check and
what was decided by it, so a canceled tunnel may still begin one attempt, or show
one failure.
`FindRegion`, `AskPreferred`, `RandomAccepts`/`RandomFails`/`RandomLimited`,
`BuildDevice`, `ConfigureFails`, `Publish` are the bring-up of `runOnce`, each
with its error returns; `Teardown` and `CloseDevice` are the two halves of its
deferred cleanup, which are not atomic in the code; `EndAttempt`, `Wake` and
`Return` are the rest of the loop of `Run`. `stats` and `health` are the program counters of
the two loops: `StatsRead` is `IpcGet`, `StatsUpdate` the critical section after
it, and `sample` what was read in between; `Probe`, `HealthUpdate` and `verdict`
are the same for the probe, which is held across `tcpPing`. `LoadNetstack` and
`DialContext` are the two halves of `Dial`.

Abstractions. The resources `netNet`, `device` and `session` are assigned
together and are one variable. Times are ages in minutes that saturate one past
the limit of three minutes (`HandshakeLimit`, one minute in the runs: only the
comparison with the limit matters); `Tick` ages all of them together, the sample
in `statsLoop`'s hands included. Delays are seconds, as in the code. PIA's
answers are `ok`, `fail` (any other error), `limit` (429) and `hang` (nothing
until the shared registration timeout). The wait in `sleep` is not tied to
`Tick`. A handshake age read by `IpcGet` that is zero or negative and an
`IpcGet` error have the effect of no sample. Traffic counters, latencies, log
lines, the DNS servers and the wire formats decide nothing and are left out.

`dial` also keeps which netstack a caller holds, so that the use of a closed
device can be told. `openDevs` and `limited` are what the code does not keep:
which devices exist, and that a 429 was received in this attempt.

### TunnelPromise

Phases `idle`, `connecting`, `error`, `up`, `degraded` and `retired`, with six
transitions between them, the cancellation of the context and the return of `Run`;
a session exactly while up or degraded; each beginning and each failure of a
bring-up decided on a live context, though it may be shown after a cancellation
(`checked`: one of them at most, since the next decision finds the context
canceled); the tunnel retired, and `Run` returned, only after a cancellation and
without a session; `Dial` refused exactly when there is none. The refinement
mapping in `Tunnel` is

    phase     <- "retired" if state = "idle" after an attempt, else state
    net       <- netNet
    ctx       <- ctx
    checked   <- run \in {"begin", "failed"}
    goroutine <- "done" if run = "returned", else "running"
    flow      <- "ready", "down", or "through" for a dial that found a netstack

so the loops, the retries, PIA and the devices disappear. The second `idle` is a
phase of its own because a tunnel that was torn down never connects again, and
the first one may. A tunnel may still come up after a cancellation, since
`runOnce` does not look at its context between the registration and the
publication.

### PIAClient

Callers are tunnels. A call is `lockRegions [-> fetchRegions]` or
`lockToken [-> fetchToken] -> addKey [-> lockInvalidate]`; `mu` is the mutex,
held in the two fetches only and taken and released at once otherwise. PIA is a
set `accepted` of tokens it honours, from which `Expire` removes any at any
time. A login returns a token no one remembers, so token values may be reused by
a finite model without two live tokens being confused. `refused`, `logins` and
`rejections` are history. The initial token is one a caller of `SetToken` kept,
honoured by PIA or not. Sessions, keys, certificates, the JSON, and which region
is in the list are abstracted to success or failure.

### StatusLocks

Per tunnel: its `Run` at the client's mutex, one writer of its status, one
dialer. One status handler visits the tunnels in any order, read-locks one and
then needs the client's mutex. A reader is not admitted while a writer waits, as
`sync.RWMutex` does it. Only the handler holds a read lock for longer than one
step, because nothing else does anything slow under it.

### SocksListener

Each successful `Start` opens a new socket, and the Server, context and done
channel that belong to it are identified with it. `Start` is one critical
section (the bind included), with three outcomes. `Stop` is three steps, because
it unlocks before it cancels and waits. `WatchCloses`, `AcceptFails` and
`ServeReturns` are the goroutines of a Start; `Accept` and `ConnEnds` the
connections. The contexts given to `Start` are one, as in `Proxy.Run`.

An assumption on the environment is in the guard of `StartBinds`: the address has
a fixed port, so the kernel refuses it while an earlier socket is open
(`StartFails`). That there is one open socket at most (`StopsApart`, a part of
`IInv`), and that a `Start` during another goroutine's `Stop` does not bind a
second one (`ListenerPromise`, hence `PromiseKept` and `KeepsPromise`), rest on
it. `piaproxyd` gives every city a port of its own. `Addr` allows for port 0
(`socks_listener.go:79-81`), with which the kernel picks a free port and such a
`Start` would have a second socket while the `Stop` closes the first; port 0 is
not modelled.

`ListenerPromise` says what is left of this without the lock, the contexts and the
goroutines: which sockets are bound and which were, whose socket each is (the
running listener's or that of a `Stop`), and on which each client was accepted.
The refinement mapping is

    bound <- the open sockets        own   <- current
    past  <- the closed sockets      taken <- stopping

### SocksConn

`stage` is the program counter of the goroutine that `Serve` starts, `copy` that
of the two `io.Copy` goroutines, `errc` the channel between them, `open` the
sockets the proxy still holds. Messages are what the code decides on: whether
the offered methods contain the server's, the two credentials, the command.
Malformed, truncated and missing ones are `BadGreeting`, `BadAuth` and
`BadRequest`. The error returns that would need a local address that does not
parse (`socks5.go:319-322`, `333-336`) are not modelled: a connection's local
address always does. An association is its reply and its end here; its
datagrams are `UdpAssociation`.

### UdpAssociation

`handler`, `request` and `reader[t]` are the program counters of the goroutine
that waits on the TCP connection, of the request loop and of each response loop;
`cached` and `targetConn` are the map `udpTargetConns` and its connections. A
datagram is its sender, whether it parses, and its target. The five-second
deadlines are steps that fail without a reason.

`udpClientAddr` is written and read without a lock, which is a data race. The
model gives each reader the set `visible[t]` of values it may load: the value at
its `go` statement and all stored since. Every value has the same dynamic type,
so a torn interface is not among the outcomes.

`tunnel` is the netstack under the connections. When it is gone, reads end with
end-of-file and writes fail; it does not come back, since a tunnel that was up
never connects again (`OnceUpThenIdle`, a theorem of `Tunnel_proofs`). That is
why a stale connection in the map, whose reader has ended, does no harm.

### Proxy

`run` is the program counter of `Run` with `waitForTunnelStart` unrolled: `poll`
reads the tunnel's state, `select` looks at the context. `goroutine` is the
tunnel's `Run`. The listener's actions are those of `SocksListener`, instantiated
with one socket, because `Run` starts once; the tunnel's are those of
`TunnelPromise`, its retirement and its return included. A tunnel that had found
its context live may show `connecting` after a cancellation (`TunnelGoesOn`), the
poll may see it, and `Run` then binds the address once more before it stops; with
the tunnel still undecided it never does (`CanceledIdleNeverBinds`). A
connection may end between its dials only, and dials exist on accepted
connections only. `Snapshot` is not an action: its locks are `StatusLocks`.

### SocksCodec, CityList, RetryAfter

`SocksCodec` and `RetryAfter` are pure functions of one input. A parser of the handshake returns `more`, `bad` or
the bytes it used, so that a message that arrives byte by byte is a behaviour
and `io.ReadFull` is `more`. The text of an address is its form and its bytes:
`IPString` and `ParseIP` carry the one surprise of package `net`, that an IPv6
address that maps an IPv4 one is printed in the IPv4 form. A local address may also
print with a zone (`Zoned`: `fe80::1%eth0`, for a link-local client of a listener
on `::`), which `ParseIP` does not read: `GetAddrType` then says that it is a
domain name, and a UDP ASSOCIATE is answered with the text as one
(`socks5.go:386-398`, `624-632`). The characters of the two kinds of text that are
not an IP address alone are any bytes. `Wrap` is the wrap-around of
a signed integer of any width.

`CityList` is the loops of `buildCityList` and `filterUnknownRegions`: `AddEntry`
is one turn of the first over an entry of `PIA_REGIONS` (its `continue` is the
entry that adds nothing), `AddDefault` one turn of the loop over the default
regions, `FilterUnknownRegions` one turn of the second function's. `cities` is the
slice the first returns, `served` the one `main` starts proxies for.


## 3. The runs

Passing runs.

| Run | Distinct states | What it shows |
|---|---|---|
| `MCTunnel` | 248 502 | the invariants and action properties of `Tunnel`, `PromiseKept`, and the liveness `CancelShutsDown`, `StaleIsNoticed`, `Recovers`, `EventuallyUp` |
| `MCPIAClient` | 498 228 | logins and rejected tokens; `CallsReturn` |
| `MCStatusLocks` | 3 648 | lock ownership and exclusion, `DialsProceed`, `StatusAnswered`, no deadlock |
| `MCSocksListener` | 151 300 | ownership of sockets, `PromiseKept`; `StopTerminates`, `CancelCloses` |
| `MCSocksConn` | 19 478 | authentication, answers, completeness; `ConnIsReleased` |
| `MCUdpAssociation` | 6 644 | ownership and readers of target connections, addressees; `AssociationReleased` |
| `MCProxy` | 892 | `Run` leaves nothing; `StartIsNoticed`, `RunReturns` |
| `MCConversions` | 673 537 | codec, city list, Retry-After over bounded inputs |

Deadlock is checked in the first four. A connection, an association and a proxy
that are over stop, and an input that is complete has no next one, so the others
say `CHECK_DEADLOCK FALSE`; that they do not stop *before* they are over is what
their liveness properties say.

The runs with a fair specification check the safety properties as they would
without it: fairness takes no reachable state away.

The properties, with the code they are about, are stated in the modules. Those
that need most explaining:

- `LoopsWithinSession`: while a loop may act, its session is the published one.
  It is what `wg.Wait` before the cleanup buys, and a second session could be
  demoted by the first one's loop without it.
- `PromotionIsJustified`: whenever a tunnel goes from degraded to up, the device
  has a handshake within the limit *at that moment*, although both loops decide
  from a timestamp read before. It holds because held timestamps only err on
  the old side (`Timestamps`).
- `StaleIsNoticed`: when the device's handshake stays stale, the state leaves up
  for good; a passing probe does not bring it back.
- `Recovers`: when handshakes are fresh and probes pass, the tunnel is up in the
  end. Its premise also asks that the sample in `statsLoop`'s hands is fresh: the
  code may hold one for as long as the scheduler likes.
- `RejectedIsNotResent`: a caller never sends again the token it was last
  refused for, even though others drop and fetch tokens meanwhile.
- `EndingDirectionComplete`: when a relay ends by the end-of-file of one
  direction, all that was sent in this direction has been written. The other
  direction may be cut.
- `EveryConnHasReader`: a target that is silent longer than any deadline, or
  whose read failed once, is heard when it answers at last. It needs that only
  the end of the association or of the tunnel ends a response loop.
- `AnswersHaveAddressee`: despite the race, no answer is sent to a nil address,
  because the store comes before the `go` statement.
- `StartIsNoticed`: the poll cannot miss the tunnel's start, although it samples
  a state that also returns to `idle`.
- `ReturnedMeansDown`: when `Run` has returned, the address can be bound again
  and no tunnel goroutine runs.
- `SegmentationIsInvisible`: once a parser has an outcome, later bytes do not
  change it. `AnswersReadBack`: a datagram's answer carries the address of its
  request byte for byte; a reply's bound address parses to itself, mapped
  addresses included, unless it has a zone: then it parses to the domain name with
  the same characters, so the client is told where the socket is in a form that
  only it can interpret, but no wrong IP address and no malformed reply.
- `PortsAsDocumented`: an entry that is ignored does not shift the ports after
  it, and a city that PIA does not know keeps its place.
- `CooldownBounds`: a `Retry-After` that overflows the product with `time.Second`
  never shortens the pause below the floor, nor makes it longer than requested.

### Where the code and its texts disagree

Each of these runs checks one sentence of the documentation or of a comment, and
TLC finds a behaviour of the code against it.

| Run | The text | The behaviour |
|---|---|---|
| `MCTunnelProbe` | README.md:193: degraded while the probe is failing | probe fails, `healthLoop` demotes, `statsLoop` promotes two seconds later because handshakes are fresh |
| `MCTunnelLimit` | tunnel.go:138: the long cooldown on a 429 | the preferred server answers 429, the random pick fails otherwise: two seconds |
| `MCTunnelFallback` | tunnel.go:214: a random pick on any other failure | the preferred server hangs for the 30 seconds the random pick shares; if it always does, the tunnel never comes up |
| `MCPIAClientReuse` | pia.go:55, 134: only rejected tokens are dropped | two callers hold an old token; one is refused, logs in, and the second's 401 drops the new token |

More disagreements were met while modelling. The models contain the behaviour,
and no run is spent on them:

- tunnel.go:306 says that no dial reaches a closed device; load, cancel, cleanup
  and dial is a behaviour of `Tunnel`.
- README.md:10 says that the cities are independent. City A logs in, a snapshot
  of B waits for the client under B's lock, a writer of B waits, and dials
  through B wait for A's request (`StatusLocks`; they do proceed in the end,
  `DialsProceed`).
- socks_listener.go:91 says that `Start` begins serving or returns an error, and
  proxy.go:115 that the listener is bound for the lifetime of `Run`: `Accept` may
  fail for good after `Start` returned nil, and a bind that fails is not tried
  again.
- tunnel.go:140 says that the pause honors `Retry-After`; a value whose product
  with `time.Second` overflows does not lengthen it (`RetryAfter`).
- tunnel.go:316 says that a cancellation does not look like a failure in a
  snapshot; a probe that the cancellation fails shows degraded until the cleanup
  (tunnel.go:474).
- README.md:233 and 296 say that the tunnel is torn down and reconnected on
  failure; a session is kept until cancellation, as tunnel.go:144 says
  (`OnceUpThenIdle`).
- socks_listener.go:19 says that `Stop` drains the client connections, and
  socks_listener.go:240 that `ActiveConnCount` counts those in flight; `Stop`
  waits for the accept loop only, and what it left behind is not counted.
- socks_listener.go:39 says that user name and password enable authentication
  if both are non-empty; one of them is enough (socks5.go:250).
- socks_listener.go:23 and proxy.go:118 say that a dial refused by a tunnel that
  is down is answered with "host unreachable"; every dial error is answered with
  a general failure (socks5.go:311).

### Bounds

- One dialer and two sessions for `Tunnel`: dialers do not interact, and two
  sessions let a dialer hold an old one while a new one exists. `MaxCount = 2`:
  the counters matter as never, once and more than once. `HandshakeLimit = 1`
  gives the ages none, 0, 1 and stale, all a comparison tells apart. Retry-After
  is absent, below or above the floor.
- Two callers and four tokens for `PIAClient`: one caller to be refused and one
  to log in meanwhile; one cached token, one remembered by each, one to spare. At
  most three 401 answers. The proofs cover any number of callers and answers.
- Two tunnels for `StatusLocks`: one to hold the client's lock, one to suffer.
- Two controllers, three sockets and two clients for `SocksListener`: a stop, a
  restart and a stop again by different goroutines.
- Two chunks per direction for `SocksConn`: one written, one in hand.
- Two senders and two targets for `UdpAssociation`: two clients that fight for
  the address, a cached and a new target.
- One client and two sessions for `Proxy`: connections do not interact there.
- For `SocksCodec` bytes have five values, an IPv4 address one byte, an IPv6
  address two, and a message eight. An address read by itself (`BoundAddressIsReadable`)
  fits with a domain name of every length such a byte can say; behind the three
  bytes of a request or a datagram only names of up to one byte complete within
  the bound, and longer ones stay `more`. The widths occur in the code as lengths
  only, and the theorems cover names, widths and messages of every length.
- Four entries over two regions (one unknown to PIA) and ports below, at and
  above the base for `CityList`: an ignored entry, an explicit port and a
  collision in one list.
- An 8-bit `Duration` of ten units per second with a floor of 30 for
  `RetryAfter`: products that wrap once to a negative, to a small and to a large
  positive number. The proof covers every width.

### Fairness

- Goroutines that can run do (weak fairness of each).
- A `select` with several ready cases takes each of them sooner or later, since
  Go chooses at random: strong fairness of the `Done()` branches (`StatsExit`,
  `HealthExit`, `Return`). With weak fairness a ticker could win for ever.
- `sync.Mutex` hands over to a waiter of a millisecond, `sync.RWMutex` admits
  waiting readers when a writer leaves: strong fairness of the lock steps.
- HTTP requests and dials have timeouts and end.
- A write on a relayed connection returns, because the peer reads or breaks:
  the code has no idle timeout, and without this the relay may hang for ever.
- In `UdpAssociation` reads have deadlines, dials end, and the loops look at the
  context between them: weak fairness of each goroutine, and nothing makes a
  client close its TCP connection. `AssociationReleased` is stated for each target
  and says that its release lasts, so that it comes to hold of all of them at
  once.
- In `Proxy` the tunnel goes down after a cancellation, which `CancelShutsDown`
  says of `Tunnel`, and a poll that goes on for ever takes its `Done` branch.
  `StartIsNoticed` asks nothing of PIA.
- Nobody has to call, connect, send, cancel or stop, and PIA need not accept
  anything. Only `EventuallyUp` has a cooperative environment as its premise
  (`Cooperation`: some attempts are accepted, and the preferred server does not
  hang for ever); it is about the retry loop.


## 4. The proofs

All theorems hold for every value of the constants allowed by the named
assumptions (`TunnelAssumption`, `ClientAssumption`, `ListenerAssumption`,
`LocksAssumption`, `ConnAssumption`, `AssociationAssumption`, `ProxyAssumption`,
`CodecAssumption`, `CityListAssumption`, `RetryAfterAssumption`), which say that
the null values are not members of their sets, that bounds are naturals, that
there are finitely many callers, that a tunnel may have a session at all, and that
a preferred server does something when it is asked. What holds of steps (the
invariants, action properties and refinements) is proved of `Spec`; what must
happen, of `FairSpec` with one hypothesis more (see **Liveness** below).

**Tunnel** (`Tunnel_proofs`). The safety properties are not inductive: that the
resources match the state, for instance, depends on where `Run` is.  `IInv` adds

- `Lifecycle`: the position of `Run` determines the state, whether a session is
  published, whether the loops are active and whether a device exists; the
  cleanup runs only after cancellation;
- `Timestamps`: a sample is held only between read and update, and neither it
  nor `lastHandshake` is younger than the device's handshake;

and with `TypeOK`, `NoDeviceLeak`, `ReasonMatchesState` and `RetriesCoolDown` it
is preserved by each of the actions (`InvStep`, one step per action). `MCTunnel`
checks it too. From it follow `ActiveResources`, `PublishedNetIsOpen` and
`LoopsWithinSession`, the action properties `OnceUpThenIdle`,
`PromotionIsJustified`, `StaleSampleDemotes` (a sample read at any time before
errs on the old side, so a handshake that is stale when it is applied demotes) and
`ShutdownIsBounded` (after a cancellation each step of `Run` comes nearer to its
return, by `Ahead`), and the refinement: `PromiseInit`, `PromiseStep` and
`KeepsPromise` (`Spec => PromiseKept`). `Lifecycle` is what makes the refinement
work: without it `Publish` could be a step from `error` to `up`, and `Return` one
with a session left.

**PIAClient** (`PIAClient_proofs`). The invariant says who holds the lock
(`Locking`), what the cache cannot contain (`Refusals`: the token a caller was
refused for, once it has dropped it), and that logins plus callers about to
invalidate never exceed rejections plus the cached token (`Balance`). The last is
a counting argument, from which `LoginsArePaidFor` follows; it needs the lemmas
on the cardinality of `Pending`. `LoginFillsCache` uses `OneLoginAtATime` across
steps: between a login's request and its two assignments no other caller touches
the cache. `CallsDrawNear` is a measure: `StepsLeft` drops with each step of a call
from at most four, and no other caller raises it. `LockIsTheClients` is a
refinement: with the calls mapped to where they stand to the lock (`AtLock`),
`PIAClient` implements `StatusLocks`.

**SocksListener** (`SocksListener_proofs`). Locked fields change together, a Stop
holds a socket exactly while it is under way, a loop that closed its done channel
has closed its socket; then every open socket has an owner (`OpenIsOwned`, part
of the invariant), and `StoppedMeansUnbound` follows. `StopsApart` adds that there
is one open socket at most, that no two `Stop`s have the same one, and that a
`Stop` that waits has canceled what it waits for; with it a waiting `Stop` always
has a goroutine that can go on (`StopNeverStuck`), and every step is one of
`ListenerPromise` or a stutter (`KeepsPromise`): `WatchCloses` and `ServeReturns`
are both the loss of the socket, whichever comes first. `GoroutinesEnd` is the
measure of the goroutines of a `Start`: three steps, which no later `Start` or
`Stop` adds to.

**SocksConn** (`SocksConn_proofs`). `AnsweredOnce` and `EndingDirectionComplete`
need to know that an answer is given exactly when the negotiation is over
(`Answers = {}` while `Talking`), that nothing is copied before the relay, and,
for each direction, what `io.Copy` holds (`Chunks`): what was read is written but
for one chunk, and "eof" is reported only when all was (`Complete`). `Complete`
is stable, so it travels through the channel (`Results`) to the result that ends
the connection. `NoneLeftBehind` needs that the results in the channel are of
different directions (`OneReportEach`): then the buffer of two is enough for the
goroutine nobody waits for. `StepsArePaid` is the measure of a connection: `Way`
for the handler, and for each `io.Copy` two steps per chunk its source sends and
three, so that neither spins.

**UdpAssociation** (`UdpAssociation_proofs`). `ConnsAreOwned` ties the map, the
connections and the readers together, `EndsInOrder` says that nothing is closed
before the context is canceled; `EveryConnHasReader` and `AnswersHaveAddressee`
are inductive with them. `WindsDown` is the measure after a cancellation: request
loop, handler and readers each only go towards their ends (a reader that is not
yet started is farthest from its own), and a dial under way starts one reader at
most. `DoneMeansReleased` says what is then left: nothing open, and a reader that
is in a read is thrown out of it. `AssociationIsAStage` maps all of it to the stage
`associated` of `SocksConn`: the connection sees its client finish and, only
then, the handler leave, for any listener and whatever was negotiated.

**Proxy** (`Proxy_proofs`). The position of `Run` determines whether there is a
tunnel goroutine (`TunnelFollowsRun`) and what the listener's state is
(`ListenerFollowsRun`); the conjuncts `Owned` and `AcceptLoops` are those of
`SocksListener`. The listener's steps and the tunnel's are proved apart, each
leaving the other's part alone. `ReturnedMeansDown` and `ListenerAfterTunnel`
follow. `ListenerIsUsedAsBuilt` shows that hiding the rest of a behaviour of
`Proxy` leaves one of `SocksListener`. (That the tunnel's part is one of
`TunnelPromise` holds by construction: its moves are the promise's.)
`ListenerKeepsPromise` and `StopIsNeverStuck` put this to use: the
theorems of `SocksListener_proofs` are instantiated with the one controller `Run`,
and so hold inside the composition without a second proof.
`CanceledIdleNeverBinds` is a temporal safety property with an invariant of its
own under `IInv`: an idle tunnel that has decided on no attempt when the context is
canceled stays idle, by its promise, and with an idle tunnel nothing is bound.
Without `~checked` it would be false: a cancellation between `tunnel.go:155` and
`tunnel.go:195` leaves a tunnel that connects and a `Run` that binds. `RunGoesForward` is the measure of `Run`
(`RunLeft`), in which only the poll does not count down.

**StatusLocks** (`StatusLocks_proofs`). The client's mutex is held exactly by the
tunnel in a request, and no writer is inside the lines a snapshot copies. On this
rests the absence of deadlock for any number of tunnels, as a statement about
waits rather than about ENABLED. `WaitsFor` is the wait-for relation of the
goroutines; `WaitsGoDown` says that it follows a rank (a request before those
who wait for the client, these before the writer a snapshot keeps out, and the
writer before the readers it keeps out), so that it has no cycle, of however
many goroutines; `SomeoneProceeds` that behind everyone who waits there is, three
waits on at most, one who has its lock or can take it. The invariant is needed in
the last wait: the holder of the client's lock is in a request, never elsewhere.

**SocksCodec** (`Conversions_proofs`). Every parser is stable: once it does not
wait, a byte that arrives later changes neither its outcome nor what it has used
(`GreetingStable`, `AuthStable`, `RequestStable` over `AddrStable`), hence
`SegmentationIsInvisible`. For `AnswersReadBack` an address that was parsed is
marshaled as it came (`MarshalAsReceived`), because what is printed is read back
as the same bytes: `ReadBack4` for IPv4, `ReadBack6` for IPv6 with the mapped
addresses apart. A local address without a zone is parsed as it is in a reply
(`SocketAddress`) because `getAddrType` decides by the text that was printed, so
a mapped address goes out as IPv4. One with a zone is marshaled like the name with
the same characters (`BoundZoned`), which is read again from its bytes
(`NameIsParsed`). All of it for any width of a byte and of the
addresses: what `io.ReadFull` reads in a loop is a length here, so the proofs
need no induction.

**CityList** (`Conversions_proofs`). `ListInv` says after each turn of the loops
what the cities so far are: an accepted entry has its city at the place that the
accepted entries before it leave it, with the port it asks for or the base port
plus that place (`PlacesKept`); a city whose port nobody asked for has the base
port plus its index (`OwnPorts`); the filter drops no known city, and the ports it
passes on keep their order (`FilterKeeps`). Because the loop is a state machine,
the induction over the list is the one over its steps, which the prover can do.
`PortsAsDocumented` follows for lists of every length.

**RetryAfter** (`Conversions_proofs`). `CooldownBounds` for every width: a product
that fits is left alone by `Wrap` (`WrapFits`), and one that does not becomes
something smaller.

**Liveness.** The prover does not compute ENABLED, and fairness is stated with it.
Each module therefore writes out when its fair steps are enabled
(`StepsAreEnabled`: a guard, and ENABLED of the step it is the guard of), and the
theorems have the form `FairSpec /\ []StepsAreEnabled => P`. The hypothesis says
nothing of the code beyond what the guards of the actions say; TLC evaluates
ENABLED from the actions and found it true in every reachable state of the seven
instances (to repeat it, add `StepsAreEnabled` to the INVARIANTS of the
module's passing configuration). Everything else is proved, for every value of the
constants: who waits for whom, what the others may do meanwhile, and that nothing
is undone. The stages a process goes through are steps of one temporal proof, and
the fairness of one process is taken out of `FairSpec` for an arbitrary one.

| Theorem | Property | Why it holds |
|---|---|---|
| `CancelEnds` | `CancelShutsDown` | `Ahead` counts down; in `serve` both loops leave by their `Done` branches first |
| `StaleShows` | `StaleIsNoticed` | a held sample only errs on the old side, the next one is old, and no probe promotes |
| `GoodTunnelRecovers` | `Recovers` | the next turn of `statsLoop` promotes, and nobody demotes |
| `RetriesSucceed` | `EventuallyUp` | the loop asks again and again, and ends each attempt in the random pick or in a device |
| `EveryCallReturns` | `CallsReturn` | the holder of the lock is in a request, which ends, so the lock comes free again and again |
| `StopsReturn` | `StopTerminates` | the watcher closes the socket, `Accept` fails, `Serve` returns, and only then the `Stop` |
| `CanceledAddressIsFreed` | `CancelCloses` | the watcher alone |
| `StartIsTaken` | `StartIsNoticed` | a tunnel that has left idle does not go back while the context lives |
| `RunComesBack` | `RunReturns` | the poll, the listener's Stop and the wait for the tunnel, each by its own lemma |
| `DialsGoThrough` | `DialsProceed` | request, snapshot, writer, dial: each waits for the one before only |
| `SnapshotIsTaken` | the status page at one tunnel | the same chain up to the snapshot |
| `AssociationIsReleased` | `AssociationReleased` | handler, request loop and reader, in this order; `WindsDown` is the measure |
| `EndingIsReleased` | a connection after its first result | the closed sockets make the other `io.Copy` fail, and the channel has room for it |

Strong fairness matters in the proofs where a step is enabled again and again but
not for good: a lock that others take meanwhile, or a `Done` branch that competes
with a ticker.

**Model-checked only.** Two liveness properties, because they count: the number of
turns before the goal is not bounded by the program but by its data, and the
induction over that number is out of this prover's reach.

- `ConnIsReleased`: an end that finishes or breaks may have sent any number of
  chunks before, which its `io.Copy` still moves. Proved are that each step uses up
  one (`StepsArePaid`), so that it cannot spin, and all that follows the first
  result (`EndingIsReleased`).
- `StatusAnswered`: a status request visits each tunnel. Proved is that it leaves
  each of them (`SnapshotIsTaken`), for any number of tunnels.

The measures the liveness proofs count down (`ShutdownIsBounded`, `CallsDrawNear`,
`GoroutinesEnd`, `StepsArePaid`, `WindsDown`, `RunGoesForward`) and the statements
about waits (`SomeoneProceeds`, `StopNeverStuck`) are theorems of their own, which
need no fairness and no hypothesis. They are not among the runs' properties, where
the liveness they belong to is; TLC agreed with them on the runs' instances before
they were proved. 

## 5. What is not modelled

- The size of datagrams: one that is longer than the buffer of 8 KiB is cut by
  the read. FRAG is parsed (`SocksCodec`), and the code does not look at it.
- Memory: an association keeps a connection and a goroutine for each target it
  was ever asked for, and nothing limits them; the models bound the targets.
- The start-up of `main` (environment, signals, the order in which proxies start)
  and several cities on one client at once, apart from `PIAClient` and
  `StatusLocks`.
- The counters of bytes and the rate estimates.
- `SetToken` and `GetToken` by an embedder while tunnels run (`GetToken` by the
  status page is in `StatusLocks`).
- The contents of PIA's answers, TLS verification, keys, the WireGuard
  configuration text: conversions whose failures are the `fail` outcomes.
- The DNS override of the listener: its lookup is part of the dial.
- `handleIndex`, the dashboard page, `build_regions.py`, `regions.json`, the
  workflows: output, offline tools, automation.


## 6. Plan

What is left, in order of importance.

1. `Fleet`: several tunnels on one client, at the level of `TunnelPromise` and
   the token, for the effect of one city's 429 on the others.
2. `ListenerPromise` in the place of `SocksListener` in `Proxy`, or in `Fleet`.
3. The rate estimates of `statsLoop` at the width of their counters.

The set of runs is kept small enough to be repeated after every change: safety
and liveness of a module share one run, the pure modules share one, and a run
that shows a disagreement gives way to one of a new module when there are
twelve.
