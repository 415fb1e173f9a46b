----------------------------- MODULE Supervisor -----------------------------
(***************************************************************************)
(* The natmap mode of the orchestrator: the goroutine of                   *)
(* supervisor.Runtime.Run with its Coordinator, the two child processes it *)
(* starts and stops through hath.Controller and natmap.ProcessRunner, the  *)
(* queue of mappings the notify listener fills, and the port the           *)
(* Hentai@Home server has on record for the client.                        *)
(*                                                                         *)
(* One action is one stretch of the goroutine between two points where     *)
(* another actor can be seen; the environment's actions (a process exits,  *)
(* a notification arrives, the context is cancelled, a deadline passes)    *)
(* interleave with them.                                                   *)
(***************************************************************************)
EXTENDS Backoff, Sequences

CONSTANTS
    Pid, NoPid,      \* process identifiers the kernel hands out; the nil handle
    Mapping,         \* the mappings natmap may report
    BindPort,        \* Runtime.BindPort, as validate accepts it
    Runtime,         \* the configured durations (a record of Delays)
    EventCap,        \* capacity of the Events channel
    SignalMayFail,   \* whether kill(2) may be refused
    IgnoresTerm      \* the programs that do not exit on SIGTERM

Program == {"hath", "natmap"}
Port == 1 .. 65535

ASSUME SupervisorAssumption ==
    /\ NoPid \notin Pid
    /\ Mapping \subseteq [PublicAddress : STRING, PublicPort : Port, PrivatePort : Port]
    /\ BindPort \in Port
    /\ Runtime \in Delays
    /\ EventCap \in Nat \ {0}
    /\ SignalMayFail \in BOOLEAN
    /\ IgnoresTerm \subseteq Program

\* The zero value of natmap.Mapping.  Every mapping in the queue is TCP, so
\* the protocol is left out of the records.
ZeroMapping == [PublicAddress |-> "", PublicPort |-> 0, PrivatePort |-> 0]

\* No port was registered since this orchestrator started.
UnknownPort == 0

\* A pid that names no process of ours.
NoProcess == [prog |-> "none", st |-> "free", exit |-> "none", sig |-> "none"]

VARIABLES
    pc,                  \* where the goroutine of Run is
    task,                \* why a Stop is in progress: "remap", "restart", "shutdown"
    stopping,            \* the program whose Stop is in progress
    target,              \* the process that Stop call works on
    currentRetryDelay,   \* local variable of Run
    current,             \* Coordinator.CurrentMapping
    mapping,             \* the mapping last taken from Events
    proc,                \* Controller.proc and ProcessRunner.proc
    os,                  \* the processes: program, state, exit status, signal sent
    events, closed,      \* the Events channel, and whether it is closed
    newest,              \* history: the mapping put into Events last
    registered,          \* the client's port on the Hentai@Home server
    ctxDone,             \* the context given to Run is cancelled
    deadline             \* the context of stopAllWithTimeout has expired

stopVars == <<task, stopping, target>>
coordVars == <<current, mapping>>
procVars == <<proc, os>>
chanVars == <<events, closed, newest>>
ctxVars == <<ctxDone, deadline>>
vars == <<pc, stopVars, currentRetryDelay, coordVars, procVars, chanVars,
          registered, ctxVars>>

\* The Events channel, whose other side NotifyListener implements: every step
\* the listener or Run makes on it is one of MappingChannel.
Channel == INSTANCE MappingChannel WITH Cap <- EventCap

Init == /\ pc = "loop"
        /\ task = "none" /\ stopping = "hath" /\ target = NoPid
        /\ currentRetryDelay = 0
        /\ current = ZeroMapping /\ mapping = ZeroMapping
        /\ proc = [g \in Program |-> NoPid]
        /\ os = [p \in Pid |-> NoProcess]
        /\ Channel!Init /\ newest = ZeroMapping
        /\ registered = UnknownPort
        /\ ctxDone = FALSE /\ deadline = FALSE

-----------------------------------------------------------------------------
(* Operators.                                                              *)

SamePublicEndpoint(m, n) ==
    m.PublicAddress = n.PublicAddress /\ m.PublicPort = n.PublicPort

\* The Wait goroutine of g's process has reported its exit.
Exited(g) == proc[g] # NoPid /\ os[proc[g]].st = "done"

\* What Controller.Running answers, and the handle it forgets on the way.
Running == proc["hath"] # NoPid /\ os[proc["hath"]].st # "done"

ForgetExited ==
    IF Exited("hath")
    THEN /\ proc' = [proc EXCEPT !["hath"] = NoPid]
         /\ os' = [os EXCEPT ![proc["hath"]] = NoProcess]
    ELSE UNCHANGED procVars

\* The process p, whose program stays what it is, changes.
Become(p, st, exit, sig) ==
    os' = [os EXCEPT ![p] = [prog |-> os[p].prog, st |-> st, exit |-> exit, sig |-> sig]]

\* exec succeeded: a new process, and its handle stored over the old one.
Spawn(g) ==
    \E p \in Pid :
        /\ os[p] = NoProcess
        /\ os' = [os EXCEPT ![p] = [prog |-> g, st |-> "running",
                                    exit |-> "none", sig |-> "none"]]
        /\ proc' = [proc EXCEPT ![g] = p]

\* Mutant: natmap first.
StopAllNatmapFirst(t) ==
    pc' = "stop" /\ task' = t /\ stopping' = "natmap" /\ UNCHANGED target

\* stopAll begins with hath; t says which caller it will return to.
StopAll(t) == pc' = "stop" /\ task' = t /\ stopping' = "hath" /\ UNCHANGED target

\* Mutant: a shutdown without a timeout.
StopCtxDoneBackground == task # "shutdown" /\ ctxDone

\* The context that the Stop in progress was given.
StopCtxDone == IF task = "shutdown" THEN deadline ELSE ctxDone

\* Stop returns to HandleMapping, which looks at its error, or to stopAll,
\* which only logs it and goes on to natmap, or, after natmap, to Run.
StopReturns(ok) ==
    /\ target' = NoPid
    /\ \/ /\ task = "remap"
          /\ pc' = IF ok THEN "update" ELSE "ranUntilRestart"
          /\ task' = "none" /\ UNCHANGED stopping
       \/ /\ task # "remap" /\ stopping = "hath"
          /\ pc' = "stop" /\ stopping' = "natmap" /\ UNCHANGED task
       \/ /\ task # "remap" /\ stopping = "natmap"
          /\ pc' = IF task = "restart" THEN "restartSleep" ELSE "returned"
          /\ task' = "none" /\ stopping' = "hath"

-----------------------------------------------------------------------------
(* Runtime.Run.                                                            *)

\* Mutant: currentRetryDelay is declared inside of the loop.
LoopForgetsDelay ==
    /\ pc = "loop" /\ ~ctxDone
    /\ pc' = "natmapStart" /\ currentRetryDelay' = 0
    /\ UNCHANGED <<stopVars, coordVars, procVars, chanVars, registered, ctxVars>>

Loop == /\ pc = "loop"
        /\ \/ ctxDone /\ StopAll("shutdown")
           \/ ~ctxDone /\ pc' = "natmapStart" /\ UNCHANGED stopVars
        /\ UNCHANGED <<currentRetryDelay, coordVars, procVars, chanVars, registered, ctxVars>>

\* Natmap.Start failed, at the check of the context or at exec.
NatmapStartFails ==
    /\ \/ pc = "natmapStart" /\ ctxDone
       \/ pc = "natmapSpawn"
    /\ currentRetryDelay' = nextRetryDelay(Runtime, currentRetryDelay)
    /\ pc' = "retrySleep"
    /\ UNCHANGED <<stopVars, coordVars, procVars, chanVars, registered, ctxVars>>

NatmapStart ==
    /\ pc = "natmapStart" /\ ~ctxDone
    /\ pc' = "natmapSpawn"
    /\ UNCHANGED <<stopVars, currentRetryDelay, coordVars, procVars, chanVars, registered, ctxVars>>

NatmapSpawn ==
    /\ pc = "natmapSpawn"
    /\ Spawn("natmap")
    /\ currentRetryDelay' = 0
    /\ pc' = "select"
    /\ UNCHANGED <<stopVars, coordVars, chanVars, registered, ctxVars>>

\* sleep: the timer or the context, whichever select picks.
Sleep == /\ pc \in {"retrySleep", "restartSleep"}
         /\ \/ ctxDone /\ StopAll("shutdown")
            \/ pc' = "loop" /\ UNCHANGED stopVars
         /\ UNCHANGED <<currentRetryDelay, coordVars, procVars, chanVars, registered, ctxVars>>

\* runUntilRestart has returned, with or without an error.
AfterRun ==
    /\ pc = "ranUntilRestart"
    /\ StopAll(IF ctxDone THEN "shutdown" ELSE "restart")
    /\ UNCHANGED <<currentRetryDelay, coordVars, procVars, chanVars, registered, ctxVars>>

-----------------------------------------------------------------------------
(* Runtime.runUntilRestart: one select over three channels.  A nil natmap  *)
(* channel cannot be met, since Run gets here from a successful start.     *)

LeaveSelect == /\ pc = "select" /\ pc' = "ranUntilRestart"
               /\ UNCHANGED <<stopVars, currentRetryDelay, coordVars, procVars,
                              chanVars, registered, ctxVars>>

SelectCancelled == ctxDone /\ LeaveSelect

SelectClosed == closed /\ events = <<>> /\ LeaveSelect

\* Mutant: the channel is asked for after the handle was given up.
SelectNatmapDoneLate == proc["natmap"] = NoPid /\ LeaveSelect

SelectNatmapDone == Exited("natmap") /\ LeaveSelect

\* Mutant: the mapping that came last is taken first.
SelectMappingLastFirst ==
    /\ pc = "select" /\ events # <<>>
    /\ mapping' = events[Len(events)]
    /\ events' = SubSeq(events, 1, Len(events) - 1)
    /\ pc' = "handle"
    /\ UNCHANGED <<stopVars, currentRetryDelay, current, procVars, closed, newest,
                   registered, ctxVars>>

SelectMapping ==
    /\ pc = "select"
    /\ Channel!Take /\ mapping' = Head(events)
    /\ pc' = "handle"
    /\ UNCHANGED <<stopVars, currentRetryDelay, current, procVars, newest, registered, ctxVars>>

-----------------------------------------------------------------------------
(* Coordinator.HandleMapping.                                              *)

\* Mutant: Running is never asked, hath-rust never stopped.
HandleMappingNeverStops ==
    /\ pc = "handle"
    /\ \/ SamePublicEndpoint(current, mapping) /\ pc' = "hathStart"
       \/ ~SamePublicEndpoint(current, mapping) /\ pc' = "update"
    /\ UNCHANGED <<stopVars, currentRetryDelay, coordVars, procVars, chanVars, registered, ctxVars>>

\* Mutant: CurrentMapping is set before the update.
HandleMappingCommitsFirst ==
    /\ pc = "handle"
    /\ mapping.PrivatePort = BindPort
    /\ ForgetExited
    /\ current' = mapping
    /\ IF Running THEN StopAll("remap")
       ELSE /\ pc' = IF SamePublicEndpoint(current, mapping) THEN "hathStart" ELSE "update"
            /\ UNCHANGED stopVars
    /\ UNCHANGED <<currentRetryDelay, mapping, chanVars, registered, ctxVars>>

\* Mutant: a mapping that is known needs nothing.
HandleMappingTrustsCurrent ==
    /\ pc = "handle"
    /\ \/ SamePublicEndpoint(current, mapping) /\ pc' = "select" /\ UNCHANGED <<stopVars, procVars>>
       \/ /\ ~SamePublicEndpoint(current, mapping)
          /\ ForgetExited
          /\ \/ Running /\ StopAll("remap")
             \/ ~Running /\ pc' = "update" /\ UNCHANGED stopVars
    /\ UNCHANGED <<currentRetryDelay, coordVars, chanVars, registered, ctxVars>>

HandleMapping ==
    /\ pc = "handle"
    /\ \/ /\ mapping.PrivatePort # BindPort
          /\ pc' = "ranUntilRestart"
          /\ UNCHANGED <<stopVars, procVars>>
       \/ /\ mapping.PrivatePort = BindPort
          /\ SamePublicEndpoint(current, mapping)
          /\ ForgetExited
          /\ pc' = IF Running THEN "select" ELSE "hathStart"
          /\ UNCHANGED stopVars
       \/ /\ mapping.PrivatePort = BindPort
          /\ ~SamePublicEndpoint(current, mapping)
          /\ ForgetExited
          /\ \/ Running /\ StopAll("remap")
             \/ ~Running /\ pc' = "update" /\ UNCHANGED stopVars
    /\ UNCHANGED <<currentRetryDelay, coordVars, chanVars, registered, ctxVars>>

\* Updater.UpdatePort fails without an effect on the server: a request that
\* never arrived, an HTTP error, a page that does not parse, a locked port.
UpdateRefused ==
    /\ pc = "update"
    /\ pc' = "ranUntilRestart"
    /\ UNCHANGED <<stopVars, currentRetryDelay, coordVars, procVars, chanVars, registered, ctxVars>>

\* The server takes the submitted form.
UpdatePosted ==
    /\ pc = "update"
    /\ registered' = mapping.PublicPort
    /\ pc' = "confirm"
    /\ UNCHANGED <<stopVars, currentRetryDelay, coordVars, procVars, chanVars, ctxVars>>

\* The answer to the form shows the new port, or is lost, an error, locked or
\* not what was asked for, and UpdatePort fails although the port is changed.
UpdateAnswered ==
    /\ pc = "confirm"
    /\ pc' \in {"hathStart", "ranUntilRestart"}
    /\ UNCHANGED <<stopVars, currentRetryDelay, coordVars, procVars, chanVars, registered, ctxVars>>

\* Hath.Start fails: client_login cannot be written, the context is
\* cancelled, exec fails.
HathStartFails ==
    /\ pc \in {"hathStart", "hathSpawn"}
    /\ pc' = "ranUntilRestart"
    /\ UNCHANGED <<stopVars, currentRetryDelay, coordVars, procVars, chanVars, registered, ctxVars>>

HathStart ==
    /\ pc = "hathStart" /\ ~ctxDone
    /\ pc' = "hathSpawn"
    /\ UNCHANGED <<stopVars, currentRetryDelay, coordVars, procVars, chanVars, registered, ctxVars>>

\* Mutant: CurrentMapping is never set.
HathSpawnForgetsMapping ==
    /\ pc = "hathSpawn" /\ Spawn("hath") /\ pc' = "select"
    /\ UNCHANGED <<stopVars, currentRetryDelay, coordVars, chanVars, registered, ctxVars>>

\* Hath.Start succeeds; a changed mapping becomes the current one only now.
HathSpawn ==
    /\ pc = "hathSpawn"
    /\ Spawn("hath")
    /\ current' = IF SamePublicEndpoint(current, mapping) THEN current ELSE mapping
    /\ pc' = "select"
    /\ UNCHANGED <<stopVars, currentRetryDelay, mapping, chanVars, registered, ctxVars>>

-----------------------------------------------------------------------------
(* Controller.Stop and ProcessRunner.Stop, with osProcess.Stop below them. *)

\* The handle is given up before anything is known of the process.
Stop ==
    /\ pc = "stop"
    /\ proc' = [proc EXCEPT ![stopping] = NoPid]
    /\ LET p == proc[stopping] IN
       \/ p = NoPid /\ StopReturns(TRUE) /\ UNCHANGED os
       \/ /\ Exited(stopping)
          /\ StopReturns(os[p].exit = "clean")
          /\ os' = [os EXCEPT ![p] = NoProcess]
       \/ /\ p # NoPid /\ ~Exited(stopping)
          /\ target' = p
          /\ Become(p, os[p].st, os[p].exit, "TERM")
          /\ pc' = "stopTerm"
          /\ UNCHANGED <<task, stopping>>
       \/ /\ SignalMayFail /\ p # NoPid /\ ~Exited(stopping)
          /\ StopReturns(FALSE) /\ UNCHANGED os
    /\ UNCHANGED <<currentRetryDelay, coordVars, chanVars, registered, ctxVars>>

\* <-p.waited: an exit by a signal counts as a clean stop, except after
\* SIGKILL, where Stop returns the error of its context.
StopWaited ==
    /\ pc \in {"stopTerm", "stopKill"}
    /\ os[target].st = "done"
    /\ StopReturns(\/ os[target].exit = "clean"
                   \/ os[target].exit = "signal" /\ pc = "stopTerm")
    /\ os' = [os EXCEPT ![target] = NoProcess]
    /\ UNCHANGED <<currentRetryDelay, coordVars, proc, chanVars, registered, ctxVars>>

\* Mutant: SIGKILL is sent and not waited for.
StopExpiredNoWait ==
    /\ pc = "stopTerm" /\ StopCtxDone
    /\ Become(target, os[target].st, os[target].exit, "KILL")
    /\ StopReturns(FALSE)
    /\ UNCHANGED <<currentRetryDelay, coordVars, proc, chanVars, registered, ctxVars>>

\* The context is done first: SIGKILL.
StopExpired ==
    /\ pc = "stopTerm" /\ StopCtxDone
    /\ \/ /\ Become(target, os[target].st, os[target].exit, "KILL")
          /\ pc' = "stopKill" /\ UNCHANGED stopVars
       \/ /\ SignalMayFail /\ os[target].st # "done"
          /\ StopReturns(FALSE) /\ UNCHANGED os
    /\ UNCHANGED <<currentRetryDelay, coordVars, proc, chanVars, registered, ctxVars>>

-----------------------------------------------------------------------------
(* The environment.                                                        *)

\* SIGINT or SIGTERM reaches the orchestrator.
Cancel == /\ pc # "returned" /\ ~ctxDone
          /\ ctxDone' = TRUE
          /\ UNCHANGED <<pc, stopVars, currentRetryDelay, coordVars, procVars,
                         chanVars, registered, deadline>>

\* The timer of stopAllWithTimeout's context, which hath and natmap share.
DeadlineExpires ==
    /\ task = "shutdown" /\ ~deadline
    /\ deadline' = TRUE
    /\ UNCHANGED <<pc, stopVars, currentRetryDelay, coordVars, procVars,
                   chanVars, registered, ctxDone>>

\* A process ends by itself or by a signal; SIGKILL leaves no choice.
Exit(p) ==
    /\ os[p].st = "running"
    /\ \E e \in IF os[p].sig = "KILL" THEN {"signal"} ELSE {"clean", "fail", "signal"} :
          Become(p, "zombie", e, os[p].sig)
    /\ UNCHANGED <<pc, stopVars, currentRetryDelay, coordVars, proc, chanVars,
                   registered, ctxVars>>

\* cmd.Wait returns and the Wait goroutine publishes the exit.
Reap(p) ==
    /\ os[p].st = "zombie"
    /\ IF p \in {proc["hath"], proc["natmap"], target}
       THEN Become(p, "done", os[p].exit, os[p].sig)
       ELSE os' = [os EXCEPT ![p] = NoProcess]
    /\ UNCHANGED <<pc, stopVars, currentRetryDelay, coordVars, proc, chanVars,
                   registered, ctxVars>>

\* A connection handler of the listener puts a mapping into the channel; it
\* may still carry one that an earlier natmap reported.
Notify == /\ pc # "returned"
          /\ \E m \in Mapping : Channel!Put(m) /\ newest' = m
          /\ UNCHANGED <<pc, stopVars, currentRetryDelay, coordVars, procVars,
                         registered, ctxVars>>

\* Accept fails: the listener's loop ends and closes the channel.
AcceptFails ==
    /\ pc # "returned"
    /\ Channel!Close
    /\ UNCHANGED <<pc, stopVars, currentRetryDelay, coordVars, procVars,
                   newest, registered, ctxVars>>

-----------------------------------------------------------------------------

Run == \/ Loop \/ NatmapStartFails \/ NatmapStart \/ NatmapSpawn \/ Sleep \/ AfterRun
       \/ SelectCancelled \/ SelectClosed \/ SelectNatmapDone \/ SelectMapping
       \/ HandleMapping \/ UpdateRefused \/ UpdatePosted \/ UpdateAnswered
       \/ HathStartFails \/ HathStart \/ HathSpawn
       \/ Stop \/ StopWaited \/ StopExpired

Environment == \/ Cancel \/ DeadlineExpires \/ Notify \/ AcceptFails
               \/ \E p \in Pid : Exit(p) \/ Reap(p)

\* Run has returned to main and nothing is left to happen.
Terminated == /\ pc = "returned" /\ \A p \in Pid : os[p] = NoProcess
              /\ UNCHANGED vars

Next == Run \/ Environment \/ Terminated

Spec == Init /\ [][Next]_vars

\* The goroutine is scheduled; select picks among its ready channels at
\* random, so none is ready again and again and never taken; a killed process
\* dies and is reaped, one that obeys SIGTERM exits; timers fire.
ExitsOnSignal(p) == /\ \/ os[p].sig = "KILL"
                       \/ os[p].sig = "TERM" /\ os[p].prog \notin IgnoresTerm
                    /\ Exit(p)

Fairness == /\ WF_vars(Run)
            /\ SF_vars(SelectCancelled)
            /\ SF_vars(SelectNatmapDone)
            /\ WF_vars(DeadlineExpires)
            /\ \A p \in Pid : WF_vars(Reap(p)) /\ WF_vars(ExitsOnSignal(p))

FairSpec == Spec /\ Fairness

-----------------------------------------------------------------------------
(* Properties.                                                             *)

PC == {"loop", "natmapStart", "natmapSpawn", "retrySleep", "select", "handle",
       "update", "confirm", "hathStart", "hathSpawn", "ranUntilRestart",
       "stop", "stopTerm", "stopKill", "restartSleep", "returned"}

Process == [prog : Program \cup {"none"},
            st   : {"free", "running", "zombie", "done"},
            exit : {"none", "clean", "fail", "signal"},
            sig  : {"none", "TERM", "KILL"}]

\* Every variable has its type.  In particular the delay Run sleeps for is
\* a duration that is not negative, for any series of failed starts.
TypeOK == /\ pc \in PC
          /\ task \in {"none", "remap", "restart", "shutdown"}
          /\ stopping \in Program
          /\ target \in Pid \cup {NoPid}
          /\ currentRetryDelay \in 0 .. MaxDuration
          /\ current \in Mapping \cup {ZeroMapping}
          /\ mapping \in Mapping \cup {ZeroMapping}
          /\ proc \in [Program -> Pid \cup {NoPid}]
          /\ os \in [Pid -> Process]
          /\ events \in Seq(Mapping) /\ Len(events) <= EventCap
          /\ closed \in BOOLEAN
          /\ newest \in Mapping \cup {ZeroMapping}
          /\ registered \in Port \cup {UnknownPort}
          /\ ctxDone \in BOOLEAN /\ deadline \in BOOLEAN

Alive(p, g) == os[p].prog = g /\ os[p].st = "running"

\* There is at most one hath-rust and one natmap process at any time, through
\* crashes, restarts and changes of the mapping.  Two hath-rust of one client
\* would fight for the local port; client.go:131 stores a handle without
\* looking at the one it replaces, and client.go:138 drops one before the
\* process is known to be gone.
SingleInstance ==
    \A g \in Program, p, q \in Pid : Alive(p, g) /\ Alive(q, g) => p = q

\* Every running child is one the orchestrator still holds a handle of, or
\* the one it is stopping at this moment: nothing it started escapes it.
NoOrphan ==
    \A g \in Program, p \in Pid : Alive(p, g) => p \in {proc[g], target}

\* A stopAll turns to natmap only when no hath-rust is running any more, in
\* a restart as well as in a shutdown (supervisor.go:138-149): the mapping
\* outlives the server that is reached through it.
HathStoppedFirst ==
    \A p \in Pid : stopping = "natmap" => ~Alive(p, "hath")

\* While Run waits for events with a hath-rust that Running would report,
\* CurrentMapping is the endpoint of the mapping handled last, the one that
\* hath-rust was started or kept for.  A failure at any step of an earlier HandleMapping,
\* a crash of hath-rust or a restart in between must not break the tie:
\* SamePublicEndpoint decides by CurrentMapping alone what to skip.
CurrentDescribesServing ==
    pc = "select" /\ Running => SamePublicEndpoint(current, mapping)

\* CurrentMapping changes only when a hath-rust has just been started and the
\* Hentai@Home server has the new mapping's port on record (supervisor.go:254-264):
\* a failure before that leaves the old mapping in place.
CommitIsRegistered ==
    [][current' # current =>
          /\ registered = current'.PublicPort
          /\ \E p \in Pid : Alive(p, "hath")']_vars

\* Failed starts of natmap in a row wait longer and longer, never less, and
\* only a start that succeeds takes the delay back to zero
\* (supervisor.go:53-70): a cancelled or restarted iteration does not.
RetriesBackOff ==
    [][currentRetryDelay' < currentRetryDelay => \E p \in Pid : ~Alive(p, "natmap")
                                                     /\ Alive(p, "natmap")']_vars

\* The supervisor implements the promises of HathService: in particular
\* UpdatePort changes the port on record only while no hath-rust is running,
\* and Run returns only when none is.
Service == INSTANCE HathService WITH
               Server  <- Pid,
               serving <- {p \in Pid : Alive(p, "hath")},
               gone    <- pc = "returned"

ServiceSpec == Service!Spec

\* A hath-rust that serves while no mapping waits in the channel was started
\* or kept for the one that was put into it last, whatever came in during the
\* stops, updates, failures and restarts before: mappings are handled in the
\* order of the channel and none is left over, so that Run never ends up
\* serving a stale one (supervisor.go:109-136, 217-266).
ServesNewest ==
    pc = "select" /\ events = <<>> /\ Running => SamePublicEndpoint(current, newest)

\* After a cancellation Run returns, with a child that ignores SIGTERM too,
\* whatever it was doing: the shutdown has a deadline and ends in SIGKILL
\* (supervisor.go:55-58, 75-78, 151-155).
CancelLeadsToReturn == ctxDone ~> pc = "returned"

\* An exit of natmap is noticed, both children are stopped and natmap is
\* started again (or Run returns), although notifications keep the select
\* of runUntilRestart busy (supervisor.go:109-136, 79-83).
NatmapRecovered == Exited("natmap") ~> pc \in {"natmapStart", "returned"}

\* A failure sends Run to ranUntilRestart or to the retry of a start.
Failure == \/ pc' = "ranUntilRestart" /\ ~ctxDone
           \/ NatmapStartFails

\* The exit of hath-rust is not among the events Run waits for.  But as long
\* as natmap keeps reporting mappings and failures cease, hath-rust is found
\* running again and again until a cancellation: a report of the mapping that
\* is already known is enough to start it again (supervisor.go:109-136,
\* 234-242).
HathServedAgain ==
    []<><<Failure>>_vars \/ <>[][~SelectMapping]_vars \/ []<>(Running \/ ctxDone)

\* A running hath-rust is registered under the port of the mapping that was
\* handled last: README.md:10 promises an update whenever the public port
\* changes.
ServesRegisteredPort ==
    pc = "select" /\ (\E p \in Pid : Alive(p, "hath"))
        => registered = mapping.PublicPort

\* A Stop that waits for a process ends: docs/configuration.md:175 calls
\* shutdown_timeout the longest wait for natmap and hath-rust to stop.
StopEnds == pc = "stopTerm" ~> pc # "stopTerm"

=============================================================================
