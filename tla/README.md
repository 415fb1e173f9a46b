# A TLA+ model of hath-with-natmap

The program keeps a Hentai@Home server (`hath-rust`) reachable behind a NAT. It
starts `natmap`, is told of each public endpoint by natmap's notify script,
registers the public port with Hentai@Home and starts or restarts `hath-rust`.
In a second mode it asks a router for the port mapping (UPnP) instead. This
directory holds models of that program, the TLC runs that check them, and
proofs of all their safety properties. Paths such as `supervisor.go` are those of
`src/internal/*/`.

## 1. Inventory

| Component | State | Operations | What is hard | What makes it correct |
|---|---|---|---|---|
| Supervisor loop and coordinator (`supervisor.go`) | `CurrentMapping`, retry delay, where the goroutine is | `Run`, `runUntilRestart`, `HandleMapping`, `stopAll` | each step of a mapping change can fail; exits, cancellation and stale events come at any point; two kinds of stop context | one process of each program, none escapes; the port on record changes only while nothing serves; `CurrentMapping` describes what serves; cancellation ends it |
| hath controller (`client.go`), natmap runner (`runner.go`) | a handle each | `Start`, `Stop`, `Running`, `Done` | handles are stored and dropped around processes that live on | no handle of a live process is lost |
| Child processes (`command.go`) | exit error, channels `done` and `waited`, output writers | `Start`, `Stop`, `signal`, wait goroutine, `linePrefixWriter.Write` | exit, reaping, publication, deadline and signals race; descendants; two copying goroutines share a writer | after `Stop` the process is gone and the answer tells how it ended; the output is complete and labelled before the exit is known |
| Notify socket (`socket.go`, `notify.go`) | tracked connections, allowed pid, bounded channel | accept loop, peer check, handlers, `Close`, `SendNotify` | `Close` races with accept and handlers; the peer may be gone when it is looked up | nothing is sent on a closed channel, `Close` ends everything, admitted mappings arrive |
| Settings client (`settings.go`) | none; the port at the server | `UpdatePort` | the form may be taken although the call fails | a reported success means the port is on record |
| UPnP mode (`run.go`) | mapping at the router, its lease | retry loop, add, renew, cleanup | answers that are lost, requests that arrive late, lease against timeouts, many ways out | mapped while served, unmapped at exit |
| UPnP client (`upnp/client.go`) | two shared HTTP clients | `AddMapping`, `DeleteMapping`: discover, check, request | each call discovers anew; every step may fail | requests stay in the LAN, what is replaced is put back, failures are transient |
| Bandwidth limiter (`limiter.go`, `run.go`) | root qdisc, `applied` | `Apply`, `Clear` | commands fail in the middle, kills, other administrators | foreign rules are kept, own rules are removed |
| Configuration (`config.go`) | none | `Load`, `Validate` | rules in one place, the conversions that rely on them in others | what is accepted every selected part can work with |
| Wiring (`app.Run`) | socket file, deferred calls | load, limit, socket, mode, and back | failures and kills at every step | limited while it serves; nothing of others is removed, nothing of its own left behind |
| Image, scripts, CI | none | build | — | not modelled (section 8) |

How they interact: `Run` is one goroutine; it calls the controllers, which call
`osProcess`; a wait goroutine per child publishes exits; each notify connection
has a handler goroutine that feeds the channel `Run` selects on; the
listener's `Close`, the bandwidth cleanup and the stop calls are deferred in
`app.Run`; SIGINT or SIGTERM cancels the one context they all look at.

## 2. Modules

| Module | Models | Composition |
|---|---|---|
| `Backoff` | the delay functions of `Runtime`, with the width of `time.Duration` | used by the next two |
| `RetryLoop`, `MCRetryLoop` | the delay variable of `Run` alone, against the closed form | extends `Backoff` |
| `HathService` | abstract: what the program promises about its service | implemented by `Supervisor` and `UPnPMode` |
| `Supervisor`, `MCSupervisor` | natmap mode: `Run`, coordinator, controllers, children, channel, server | extends `Backoff`; its channel is a `MappingChannel` |
| `ChildProcess` | abstract: one child and one `Stop` | implemented by `OSProcess`; `Supervisor` models its children this way |
| `OSProcess` | `process/command.go`, the process and its wait | |
| `ProcessOutput`, `MCProcessOutput` | the output pipes and `linePrefixWriter` | extends `OSProcess`, whose steps it keeps |
| `MappingChannel` | abstract: the channel between the listener and `Run` | implemented by `NotifyListener`; `Supervisor` instantiates it, and its channel takes no other steps |
| `NotifyListener` | `natmap/socket.go` with `ProcessRunner` and the script | its channel is `events` of `Supervisor` |
| `UPnPMode` | `RunUPnPModeWithRetry` and below, in discrete time | |
| `UPnPClient`, `MCUPnPClient` | `upnp/client.go`: the steps of a call at the router | extends `UPnPMode`, whose steps it keeps |
| `BandwidthLimiter` | `Limiter` and `ApplyBandwidthLimit` | |
| `Configuration` | `Load`, `Validate`, the command lines and the `Build` functions | extends `Backoff`, for the type of durations |
| `App`, `MCApp` | `app.Run` from the start of a process to its end | extends `BandwidthLimiter` and `Configuration` |
| `SettingsPage` | `ehentai/settings.go`, the server and the owner of the page | the detail of the update steps in `Supervisor` and `UPnPMode` |
| `BackoffProofs`, `RetryLoopProofs`, `SupervisorProofs` | theorems | the first is used by the others |
| `OSProcessProofs` | theorems about `OSProcess` and `ProcessOutput` | |
| `NotifyListenerProofs`, `SettingsPageProofs` | theorems | |
| `AppProofs` | theorems about `BandwidthLimiter`, `Configuration` and `App` | |
| `UPnPProofs` | theorems about `UPnPMode` and `UPnPClient` | |

Definitions keep the names of the code. Operators whose comment begins with
`Mutant:` are wrong on purpose: each is a plausible bug in the definition that
follows it, and the property it is made for fails when it takes that place.

### Supervisor

An action is one stretch of the goroutine between two points where another
actor can be seen. `pc` names the place: `loop`, `natmapStart`/`natmapSpawn`
(context check, then exec), `select`, `handle`, `update`/`confirm` (the server
takes the form, then the answer), `hathStart`/`hathSpawn`, `ranUntilRestart`,
`stop`/`stopTerm`/`stopKill` for a stop in progress (`task` says for whom; a refused
signal ends it at once),
the two sleeps, and `returned`. `proc` holds the two handles, `os` the
processes with state, exit and last signal. A slot of `os` is used again only
when nothing refers to it. The environment: a process exits or is reaped, a
handler puts any mapping into the channel, Accept fails, the context is
cancelled, the shutdown deadline passes. `UpdatePort` may fail before or after
the server took the form. Every mapping is TCP, as `ParseNotifyArgs` admits
nothing else, so the protocol is left out of `SamePublicEndpoint`.
A request whose call has already failed is not delivered later.
`newest` is a history variable: the mapping put into the channel last. `ServesNewest`
speaks of the order of the channel. The order in which natmap reported the mappings can be
another one, as each connection has its own handler (socket.go:152).

### OSProcess

The leader, one descendant that holds the output pipe, the wait goroutine in
its steps (reap, wait for the pipes, store the error, send, close, close), one
`Stop`, a reader of `Done`. `signal` reaches the group while the leader is not
reaped and nobody afterwards. Either signal may be refused (`SignalMayFail`): `getpgid` or
`kill` fails, and `Stop` returns that error at once, with the process as it was
(command.go:112-123). `StoppedIsGone` promises nothing of such a `Stop`, and the contract
`ChildProcess` allows it only to a process whose exit has not been published. The copying of an output ends with its pipe or
fails with its writer (`CopyEnds`, `CopyFails`); a failure makes an error of a clean
exit. A descendant that does not hold a pipe is out of the model.

### ProcessOutput

Adds what flows: `Content` is what the processes write, as texts and line ends;
`Read` is one read of `io.Copy` that has got the mutex; a `Write` puts out a label
or a line at a time. `sink` remembers of each piece its stream and the `Write` it
came from. Both outputs may go to one writer, if `OSRunner` is given the
same twice, or to two, as in the program, whose standard output and error are separate
writers with a mutex each: where these end up in the same terminal or log, nothing keeps the
pieces of two lines apart, and `LinesLabelled` speaks of each writer alone. `OutputComplete` says
that the text is found at increasing places of `sink`, which needs no recursion. How far the processes have written is not modelled: a read
may take any part of what is left, and a pipe ends when it is empty and nobody holds it.

### NotifyListener

The connections are runs of the notify script. natmap is numbered by its
starts; `allowed` is the pid and start time `AllowPID` recorded. `peerAllowed`
needs the sender and its natmap to be in `/proc` when it looks. `EarlyNotify`
lets natmap notify before `AllowPID`. A script may exit at any time, so it may be
gone before it is looked up. All senders have the right token and one mapping
per connection, which is what `SendNotify` does.

### UPnPMode

`Time` is one tick; a call with a timeout may return at any time up to it. A
router call takes effect (`RouterAdds`, `RouterDeletes`) apart from its return,
so it may fail although it took effect, and a request given up, at the timeout of the call
or before it at one of the HTTP client (upnp/client.go:23, 290), may take effect later (`late`). Each call discovers anew, so that it may reach any of
the routers. It is assumed that no request is under way for as long as
`UPnPRestartDelay`. `cleanup` and `belated` are history variables: which router
the last cleanup reached, and which routers carried out a late addition since they last
deleted the mapping. `HandleMapping` of this mode works on a
new `Coordinator` and never finds a `hath-rust` of its own: the previous round has stopped
its one. If that `Stop` was refused a signal (`SignalMayFail`), its error is only logged
(run.go:242-244), the handle is gone and the process runs on: `escaped` says so. Beside it the
next round registers the port and starts another, or the program returns; this
is the exception that the `ServiceSpec` of this module makes. The ticker has a buffer of one tick.

### UPnPClient

Adds the steps of a call: the discoverers one by one, each of which may find one of
its services, nothing, or fail; the trust check of what was found; the SOAP request,
which the transport refuses outside of the LAN; its answer; the request for the external
address, which replaces the HTTP client of the service once more and whose failure is ignored. The first service found decides. `replaced` says which of the
HTTP clients that others share is exchanged. The actions of `UPnPMode` that enter and
leave a call are conjoined with these steps.

### BandwidthLimiter

The interface's root qdisc with who installed it, the commands of `Apply` and
`Clear` one by one, each of which may fail before or after its effect, kills
during which the running command may still have its effect,
restarts with `allow_replace_root_qdisc` chosen anew, and outsiders that set or delete
a qdisc of their own at any time. A qdisc has the form of the project (its handle and default
class), the same handle, or another; an outsider's may be of the project's form, too, when the program starts
and as long as no process runs that has set it itself, since the code
could not tell such a one from its own. `owner` is not looked at by the code; `ForeignKept` demands that
it stays, so that replacing a look-alike counts as a loss. `raced` is true from the moment an outsider comes
between an inspection and the command that relies on it (docs/bandwidth-limit.md:90
concedes that race) to the next inspection: it is the one exception `ForeignKept`
makes. `unclean` is a history variable: how the runs since
the program last replaced or deleted the qdisc ended, if not as they should.

### Configuration

A flat record of the fields that `Validate` or a consumer looks at. Texts are
classes: a path is what `os.Stat` finds there, a URL, rate or name is well formed
or not. `NatmapArgs`, `HathArgs`, `ClientLogin`, `UpdaterHTTPClient`, `BuildUPnPConfig`,
`RenewalInterval`, `BuildRuntime` and `UPnPRestartDelay` are what the code makes of an accepted
file, with the conversions to whole seconds, to `uint32` and to half a lease as they
are done; the `Usable` operators say what the receiver can work with. Of `hath.rpc_server_ip` they
demand nothing: `Validate` has no rule for it, and it is passed to `hath-rust` as it was
written (client.go:55-57). `Config` is the set
of all such records: a duration has the range of `time.Duration`, a number that of an integer.

### App

`at` is the place of `Run`, the `pc` of `BandwidthLimiter` that of the `Limiter` below it.
`Launch` reads any file of a given set, `Load` accepts or refuses it, then come the
limit, the socket (its directory, `Lstat`, `Remove`, `net.Listen`, `Chmod`), the mode, and the
deferred calls in their order. `limited` says whether the loaded configuration asks for the upload
limit, which is what `LimitedWhileServing` starts from. Every step may fail; the process may be killed at
each and be started again on what is left. `path` is what is at the path of the
socket; others may replace it at any time, and `swapped` remembers that they did
since the process last looked there or bound it.

### SettingsPage

A page is a sequence of inputs, the form a function from names to the sequences of
their values (`url.Values`), built from the positions of the inputs of a name. `UpdatePort` is taken apart at its two requests. A
request stays in `inflight` until the server takes or refuses it, which may be
after its call was given up and the next one has posted. What the server does with a
form is external: it sets the fields of the form, leaves a locked port alone, and
answers with the page as it then is, or with a page of another kind (`LoginPage`). `read` and `disturbed` are history variables.
`Supervisor` and `UPnPMode` leave out the late request: `ConfirmedIsRegistered`
says what it can do to the port on record.

## 3. Runs

| Run | Instance | Shows |
|---|---|---|
| `retry_loop` | all configurations over a small signed duration type | the delay stays in range and is `min(initial * 2^(n-1), max)` |
| `supervisor` | 3 process slots (symmetric), mappings that differ in public or private port, channel of 2, a `hath-rust` that ignores SIGTERM | all safety properties, refinement of `HathService`; the newest mapping of the channel is what is served |
| `supervisor_live` | 2 slots, mappings that differ in the address, signals that may fail, a natmap that ignores SIGTERM | cancellation leads to return; an exit of natmap is answered; a `hath-rust` that ended by itself is started again with the next report |
| `os_process` | a descendant, both ignore SIGTERM; a line, an unfinished line and a word of output, one or two writers; signals may be refused | the contract `ChildProcess`; `Stop` ends, with the exception `StopEnds` spells out; the output is complete and labelled |
| `notify_listener` | 2 senders, channel of 1, natmap started twice | no send on a closed channel, refinement of `MappingChannel`, `Close` ends everything, what was let in is delivered |
| `upnp_mode` | 2 routers and a service outside of the LAN that answers first, 3 discoverers, lease 7, timeouts of 1, signals may be refused | lease, cleanup, HTTP clients, refinement of `HathService`, cancellation, recovery |
| `settings` | 2 ports, 2 titles, a checkbox, 2 calls | a nil means the port is on record, also with an answer of another kind; nothing else is changed |
| `application` | 3 starts, each initial qdisc, each kind of file at the path of the socket, every configuration that differs from a valid one in at most two fields | accepted means usable; a limit that is asked for covers the service; left-overs; foreign qdiscs, look-alikes too, and files |

Bounds. Three process slots: one for each program and one to be wrong with; a
fourth would only repeat the third, since at most one process is started at a
time. Two places in the channel are enough for an order, a stale mapping, a full channel
and an empty one. The duration type has so few bits that the second doubling
would wrap around; the theorems of `BackoffProofs` cover the real width. Two calls of `UpdatePort` are
needed for a request of the first that arrives during or after the second. Two
connections suffice for a full channel with a waiting handler and for one
connection in the handler while another is being accepted. In `UPnPMode`
`2 * OpTimeout + UpdateTimeout + Lease \div 2 < Lease` is tight with a lease of 7 and timeouts of
1: that inequality, which the program does not check, is what `LeaseHeld` needs. Three discoverers stand for the five of the code: one that finds what
cannot be used, one that finds a single router, one that may find either.

In `application` two fields are changed at a time because the rules relate at most two
(a switch and the field it switches on, the two delays of the retry). Configurations of later starts
only switch the parts, since no state of a run depends on more. `Second`, `MaxUint32` and
`MaxDuration` are 2, 3 and 7 in place of 10^9, 2^32 - 1 and 2^63 - 1: wide enough for whole and broken
seconds, for a lease that fits `uint32` and one that does not, and such that a lease in seconds
fits a duration, which is `ConfigurationAssumption`.

Type invariants are checked where they say more than the domain of a variable:
that a delay does not wrap (`Supervisor`), that calls keep to their timeouts (`UPnPMode`), that
a form has one value for each field (`SettingsPage`). `LimitedWhileServing`, `ChannelSpec` of the listener and
`ExponentialBackoff` imply the ranges that matter in the other modules.

Deadlock is checked except in `NotifyListener` (natmap and the reader may stop for
good), `App` (the number of starts is bounded) and `SettingsPage` (the
number of calls is).

### Where the code and its documentation disagree

Four runs end in a counterexample, each with the line it contradicts:

- `supervisor_stale_port`: the POST was accepted, then a step failed;
  `CurrentMapping` still names the old endpoint; the old mapping, still in the
  channel or reported again, starts `hath-rust` without an update while the
  server has the other port (README.md:10).
- `supervisor_unbounded_stop`: the stop before a restart or for a changed
  mapping uses a context without deadline (docs/configuration.md:175).
- `notify_lost`: the script ends, with success, before its pid is looked up;
  the mapping is dropped (README.md:10).
- `upnp_leftover`: exit while waiting after a failed renewal, or after an
  addition whose answer was lost (docs/configuration.md:90). `CleanExit` is what
  does hold.

More observations are written into properties that hold, as the exception they
make: a descendant that outlives the reaped leader and holds its pipe is not
signalled, and `Stop` waits for it past its deadline (`StopEnds` of `OSProcess`);
a failing class or filter command leaves the root qdisc in place (`CleanExit` of
`BandwidthLimiter`); an administrator who comes between `tc qdisc show` and the next
command loses his qdisc (`ForeignKept`); `Close` of the listener unlinks whatever is at
its path (`FileKept`); nothing waits for `hath-rust`, which stays down until natmap
reports something (`HathServedAgain`); a cleanup that discovers another router
than the one with the mapping leaves it there, and so does a late addition
(`CleanExit` of `UPnPMode`). A service outside of the LAN that answers first fails the call although
others would do, but not for good (`ServedAgain`).

A signal that is refused leaves a process behind that nobody stops any more: `StoppedIsGone`, `ContractSpec`
and the `ServiceSpec` of the UPnP mode make that exception, the properties of `Supervisor` are
checked without it (section 5).

Two that no property covers: `natmap.udp_mode: true` is accepted although `ParseNotifyArgs`
(notify.go:37) refuses every report that follows, and the filter of the upload
limit is `protocol ip` (limiter.go:104), which leaves IPv6 unlimited.

## 4. Fairness

The goroutines are scheduled (weak fairness of each). Go's `select` picks among
ready cases at random, so a case that is ready again and again is taken: strong
fairness of the cancelled and natmap-exit cases in `Supervisor`, and of the
cancelled case in `UPnPMode`. Timers of contexts fire. A process dies of
SIGKILL and, unless listed in `IgnoresTerm`, of SIGTERM, and is then reaped. Calls
to the server and the router return, since they have timeouts. Nothing is
assumed of processes that are not signalled, of notifications or of
cancellations. In `ProcessOutput` a mutex that is free again and again is got (Go's
mutexes hand over to a waiter that starves). In `UPnPClient` the step a call is at is taken, with either outcome:
that a router answers is not assumed, and `ServedAgain` excepts failures that never cease.
`App` has no liveness property. In `NotifyListener` the delivery properties also assume that Run keeps
reading (`Reading`, stated in them); closing does not.

## 5. What is proved

By TLAPS, for all values of the constants that satisfy the named assumptions. Every
invariant and every action property and refinement that a run checks is the statement of a
theorem; liveness is not (section 6).

| Module | Theorems | Property |
|---|---|---|
| `BackoffProofs` | `DelaysPositive`, `NextRetryDelayInRange`, `NextRetryDelayDoubles` | about the functions alone |
| `RetryLoopProofs` | `RetryLoopTypeCorrect`, `BacksOffExponentially` | `TypeOK`, `ExponentialBackoff` |
| `SupervisorProofs` | `TypeCorrect`, `CurrentDescribes`, `CommitRegistered`, `DelayNeverShrinks`, `ServesNewestMapping` | `TypeOK`, `CurrentDescribesServing`, `CommitIsRegistered`, `RetriesBackOff`, `ServesNewest` |
| | `NoProcessEscapes`, `AtMostOneInstance`, `HathFirst`, `ImplementsService` | `NoOrphan`, `SingleInstance`, `HathStoppedFirst`, `ServiceSpec` |
| `OSProcessProofs` | `StoppedLeavesNobody`, `ImplementsContract`, also with the output; `LabelsEveryLine`, `ShowsEverything` | `StoppedIsGone`, `ContractSpec`, `LinesLabelled`, `OutputComplete` |
| `NotifyListenerProofs` | `NeverSendsOnClosed`, `CloseReachesAll`, `ImplementsChannel` | `NoSendOnClosed`, `CloseMissesNone`, `ChannelSpec` |
| `AppProofs` | `AcceptedConfigIsUsable`, `AcceptedConfigKeepsDelays`, `StartsWithUsable`, `WaitsAsConfigured` | `AcceptedIsUsable`, `RuntimeAsConfigured` |
| | `AppLeavesNothingBehind`, `AppKeepsForeign`, `LimitedFromFirstToLast`, `SocketGoesWithProcess`, `KeepsFiles` | `CleanExit`, `ForeignKept`, `LimitedWhileServing`, `SocketHasOwner`, `FileKept` |
| `UPnPProofs` | `ClientTypeCorrect`, `SharedClientsRestored`, `NoErrorLeavesNoMappingInDetail`, `LeaseIsHeldInDetail`, `ClientImplementsService` | `ClientTypeOK`, `ClientsRestored`, `CleanExit`, `LeaseHeld`, `ServiceSpec` |
| | `ClientImplementsServiceUnrefused` | `HathService` without the exception of `ServiceSpec` |
| `SettingsPageProofs` | `TypeCorrect`, `NilMeansRegistered`, `WritesNothingElse` | `TypeOK`, `ConfirmedIsRegistered`, `PostWritesBack` |

A detailed specification is first shown to take the steps of the one it extends
(`OutputRefinesProcess`, `ClientRefinesMode`, `AppRunsLimiter`); what is proved of that
one then holds of both.

### Hypotheses

Most theorems assume nothing beyond the named assumptions of the modules. The others are:

- `NoProcessEscapes`, `AtMostOneInstance`, `HathFirst` and `ImplementsService` assume
  `SignalMayFail = FALSE`. Where `kill` may be refused they are false, as `Stop` then
  returns with the handle already dropped. The other theorems of `SupervisorProofs`, those
  of `OSProcessProofs` and `ClientImplementsService` hold either way: where one is about
  a `Stop`, its property says what a refused signal changes.
- `ModeImplementsServiceUnrefused` and `ClientImplementsServiceUnrefused` assume the same, and
  prove the refinement of `HathService` without an exception.
- `LeaseIsHeld` and `LeaseIsHeldInDetail` assume `LeaseOutlastsRenewal`:
  `Lease = 0 \/ 2 * OpTimeout + UpdateTimeout + Interval < Lease`. The attempt to prove `LeaseHeld`
  without it is what brought it to light: between the grant of a lease and
  the next one the goroutine may spend two calls at the router, an update of the port and
  a whole interval of the ticker. `Validate` does not ask for it. `OpTimeout` is
  `runtime.shutdown_timeout` (run.go:204) and `UpdateTimeout` is as long as `HandleMapping` takes, in
  which every HTTP request may take `network.external_update_timeout` (run.go:137). The default
  lease of 0 satisfies it. A lease must be more than twice `2 * OpTimeout + UpdateTimeout`: with the
  timeouts of docs/configuration.md (30 s and 60 s), four minutes are not enough. TLC finds the
  counterexample with the two sides equal.
- `BacksOffExponentially` assumes `PowersOfTwo`, the recursion that defines `2^n`. It is
  true of the definition, which the provers do not unfold.

The assumptions on constants come from the code: `Second` is more than one nanosecond,
a `uint32` of seconds fits a `time.Duration` (`ConfigurationAssumption`), files are
configurations (`AppAssumption`), ports are ports, an empty channel can hold something, the marks for "none" name nothing.

### The arguments

`Supervisor`. `CurrentDescribesServing` is not inductive by itself: it needs to
know that a handle of `hath-rust` can only be held where the mapping in hand is
either the current one or about to replace it after a stop. The
inductive invariant is `ControlInv` (which process a stop in progress works on,
which task each place belongs to, which handles are nil where), `HeldInv`
(every live process is held or being stopped, by the handle of its own program),
`MappingInv` (what `current`, `mapping` and `registered` are at
each place), `NewestInv` (the newest mapping is the last of the channel or, when that is empty, the one in hand) and `DelayInv`. Each has one lemma per conjunct
with a step per action. For the refinement, each action is shown to be a step of
`HathService` or a stutter, from `HeldInv` (so that `serving` is empty where a
port is registered or a process started).

`OSProcess`. `ProcessInv`: the exit code is there when the leader is not running
(`ExitKnown`), the error is stored before `waited` is closed (`Published`), the waiter is past
the copying only when the pipes have ended or failed (`CopyingEnded`), and `Stop` returns only
after `waited`, unless a signal was refused (`StopWaits`). The last two are what `StoppedIsGone` needs, the first two what maps a
step of the waiter to one of `ChildProcess`.

`ProcessOutput`. `LinesLabelled` needs that `atLineStart` is what the sink tells
(`AtLineStartTells`), that the mutex is held exactly while a `Write` has something left
(`WriteHolds`), and that nothing of the other stream is behind the first piece of a `Write`
in progress (`WriteIsLast`). `OutputComplete` needs the account of `Accounted`: what is shown, what the
`Write` has left and what was not read yet, put together, are the content. A step moves a text from one part to
the next; `ShownStill` and `ShownMore` say what an appended piece does to what is shown.

`NotifyListener`. `ClosedAtEnd`: the channel is closed by the last step of the accept loop, where
no handler serves. `NoneIsMissed`: a connection with a handler is tracked or shut, and `done` is set before
the tracked ones are closed, so that a connection accepted later is shut by `trackConn`.

`BandwidthLimiter` and `App`. `LimiterInv`: who owns the qdisc is known from its form where the
process has looked and nobody came between (`MarkerTells`, `Inspected`), a qdisc of the
program that no process answers for has a cause in `unclean` (`Accounted`), the rules are complete when
`Apply` is done (`RulesComplete`). `AppInv` adds where the limiter can be at each place of
`Run` (`Stages`, `Modes`) and what `path` can be there (`PathKnown`). `AcceptedConfigIsUsable` is
arithmetic: whole seconds survive the division, a lease in `uint32` does not overflow a duration, and
half of a lease that is at least two nanoseconds long is not zero.

`UPnPMode`. `LeaseInv` bounds, at each place of the goroutine, how long ago the freshest lease
was granted; it is what `LeaseHeld` lacks to be inductive. `ExitInv` says which requests
are under way where, and which router the cleanup reached. `ServiceInv` relates `hath` to `pc`. In
`UPnPClient`, `ClientInv` says which HTTP client is replaced at which step; the steps of a
call that are not those of the mode leave its variables alone.

`SettingsPage`. `SettingsInv`: the page read is one the server made, for the settings in
`read` (`PageOK`), every request under way carries them with a port (`RequestsOK`), and an answer that is the form shows what the
server has or had until somebody else changed it (`AnswerTells`). `FormOfPage` says what the
form of any page is, for all settings.

## 6. Only model-checked

The liveness properties, which need fairness and `ENABLED`: `CancelLeadsToReturn`,
`NatmapRecovered`, `HathServedAgain`, `StopEnds`, `CloseTerminates`, `AdmittedIsDelivered` and
`ServedAgain`; the absence of deadlocks; and the four counterexamples of section 3. The inductive
invariants hold for all constants by proof; no run repeats them.

## 7. Plan

1. Done: `Backoff`, `RetryLoop`, `HathService`, `Supervisor` with proofs;
   `ChildProcess`, `OSProcess`, `ProcessOutput`; `NotifyListener`, `MappingChannel`; `UPnPMode`,
   `UPnPClient`; `BandwidthLimiter`, `Configuration`, `App`; `SettingsPage`.
   Proofs of every safety property and refinement.
2. Left: what remains true of the natmap mode where a signal may be refused (`SignalMayFail`),
   as an exception in its properties like the one of the UPnP mode and as theorems in place of the hypothesis; the safety cores of the liveness properties, such as that a
   place where `Run` waits always has somebody who can end the wait.

## 8. Not modelled

- The syntax of YAML, HTML, JSON, URLs and numbers; arguments of the children that are
  plain switches; `udp_mode`.
- The token and the content of notifications; two instances of the program that share
  the path of the socket; the probe file of its directory.
- Reuse of a pid between reaping and `Getpgid`, and descendants that left the
  process group.
- `skip_port_update` in the models of the modes: `UpdatePort` then only looks at the context.
- The parsing of the output of `tc` and of the capability mask.
- The image, its scripts and CI.
