------------------------------- MODULE UPnPMode -------------------------------
(***************************************************************************)
(* The UPnP mode of the orchestrator: RunUPnPModeWithRetry and below it    *)
(* RunUPnPMode, which adds a port mapping at the router, has the           *)
(* Coordinator register the port and start hath-rust, renews the lease at  *)
(* half time, and removes the mapping on the way out.  UPnPClient adds the *)
(* steps of a call at the router.                                          *)
(*                                                                         *)
(* Time is counted in ticks.  A call with a timeout may return at any time *)
(* up to it; time passes only while the goroutine waits for something.     *)
(***************************************************************************)
EXTENDS Naturals

CONSTANTS
    Gateway,        \* the routers a call may reach, one at each call
    Lease,          \* upnp.lease_duration; 0 is a mapping that does not expire
    OpTimeout,      \* runtime.shutdown_timeout, which bounds every router call
    UpdateTimeout,  \* longest time HandleMapping takes
    SignalMayFail   \* whether a signal to hath-rust may be refused

ASSUME UPnPAssumption ==
    /\ Gateway \cap {"none", "failed"} = {}
    /\ Lease \in Nat \ {1} /\ OpTimeout \in Nat /\ UpdateTimeout \in Nat
    /\ SignalMayFail \in BOOLEAN

\* The port of every mapping is network.bind_port, a single one.
BindPort == 1
NotRegistered == 0

VARIABLES
    pc,         \* where the goroutine is
    failed,     \* RunUPnPMode is about to return, or has last returned, an error
    reached,    \* the router has carried out the call in progress
    spent,      \* time spent in the call in progress
    ticker,     \* time to the next tick of the renewal ticker
    due,        \* a tick is buffered in its channel
    mapped,     \* the routers that forward the port
    age,        \* of each: time since it last granted the lease
    late,       \* requests the caller gave up and a router may still carry out
    belated,    \* those that carried out such a one since the port was last deleted there
    cleanup,    \* what the last cleanup since the last addition came to: "none"
                \* if there was none, "failed", or the router that deleted the mapping
    hath,       \* the hath-rust that was started and not given up: "none" or "up"
    escaped,    \* some hath-rust runs that was given up when its Stop was refused
    registered, \* the client's port on the Hentai@Home server
    ctxDone     \* the context is cancelled

callVars == <<reached, spent>>
tickVars == <<ticker, due>>
routerVars == <<mapped, age, late, belated, cleanup>>
serviceVars == <<hath, escaped, registered>>
vars == <<pc, failed, callVars, tickVars, routerVars, serviceVars, ctxDone>>

\* Mutant: a ticker of the whole lease.
IntervalWhole == Lease

Interval == Lease \div 2

Init == /\ pc = "loop" /\ failed = FALSE
        /\ reached = FALSE /\ spent = 0
        /\ ticker = Interval /\ due = FALSE
        /\ mapped = {} /\ age = [g \in Gateway |-> 0]
        /\ late = {} /\ belated = {} /\ cleanup = "none"
        /\ hath = "none" /\ escaped = FALSE /\ registered = NotRegistered
        /\ ctxDone = FALSE

-----------------------------------------------------------------------------
(* RunUPnPModeWithRetry.                                                   *)

Goto(l) == pc' = l /\ reached' = FALSE /\ spent' = 0

\* Mutant: the context is not looked at.
LoopAlways == /\ pc = "loop" /\ Goto("add")
              /\ UNCHANGED <<failed, tickVars, routerVars, serviceVars, ctxDone>>

Loop == /\ pc = "loop"
        /\ Goto(IF ctxDone THEN "returned" ELSE "add")
        /\ UNCHANGED <<failed, tickVars, routerVars, serviceVars, ctxDone>>

\* sleepUPnPRestart: the timer or the context, whichever select picks.  No
\* request is taken to be under way for as long as UPnPRestartDelay.
Sleep == /\ pc = "sleep"
         /\ \/ ctxDone /\ Goto("returned") /\ UNCHANGED late
            \/ Goto("loop") /\ late' = {}
         /\ UNCHANGED <<failed, tickVars, mapped, age, belated, cleanup, serviceVars, ctxDone>>

-----------------------------------------------------------------------------
(* RunUPnPModeOnce.                                                        *)

Grant(g) == /\ mapped' = mapped \cup {g} /\ age' = [age EXCEPT ![g] = 0]

\* The AddMapping request takes effect at the router.
RouterAdds(g) == /\ pc \in {"add", "renew"} /\ ~reached
                 /\ reached' = TRUE /\ Grant(g) /\ cleanup' = "none"
                 /\ UNCHANGED <<pc, failed, spent, tickVars, late, belated, serviceVars, ctxDone>>

\* It does when the caller has stopped waiting.
RouterAddsLate(g) == /\ <<"add", g>> \in late
                     /\ late' = late \ {<<"add", g>>}
                     /\ belated' = belated \cup {g} /\ Grant(g)
                     /\ UNCHANGED <<pc, failed, callVars, tickVars, cleanup, serviceVars, ctxDone>>

RouterDeletesLate(g) == /\ <<"delete", g>> \in late
                        /\ late' = late \ {<<"delete", g>>}
                        /\ mapped' = mapped \ {g} /\ belated' = belated \ {g}
                        /\ UNCHANGED <<pc, failed, callVars, tickVars, age, cleanup, serviceVars, ctxDone>>

\* No answer came before the timeout of the call or of its HTTP client, and
\* the request may be under way yet.
MayBeLate(request) ==
    \/ UNCHANGED late
    \/ /\ ~reached
       /\ \E g \in Gateway : late' = late \cup {<<request, g>>}

AddSucceeds == /\ pc = "add" /\ reached
               /\ Goto("update")
               /\ UNCHANGED <<failed, tickVars, routerVars, serviceVars, ctxDone>>

\* No router, a refusal, or an answer that was lost: the mapping may exist.
AddFails == /\ pc = "add"
            /\ failed' = TRUE /\ Goto("sleep")
            /\ MayBeLate("add")
            /\ UNCHANGED <<tickVars, mapped, age, belated, cleanup, serviceVars, ctxDone>>

\* HandleMapping of a new Coordinator, whose CurrentMapping is zero and which
\* finds no hath-rust running: UpdatePort, then Hath.Start.
UpdatePosted == /\ pc = "update" /\ ~reached
                /\ reached' = TRUE /\ registered' = BindPort
                /\ UNCHANGED <<pc, failed, spent, tickVars, routerVars, hath, escaped, ctxDone>>

\* UpdatePort or Hath.Start fails: the mapping is removed and the error returned.
HandleFails == /\ pc = "update"
               /\ failed' = TRUE /\ Goto("cleanup")
               /\ UNCHANGED <<tickVars, routerVars, serviceVars, ctxDone>>

HathStarts == /\ pc = "update" /\ reached
              /\ hath' = "up" /\ UNCHANGED escaped
              /\ ticker' = Interval /\ due' = FALSE
              /\ Goto("serve")
              /\ UNCHANGED <<failed, routerVars, registered, ctxDone>>

-----------------------------------------------------------------------------
(* RunUPnPMode after that.                                                 *)

\* Mutant: cleanup is not called.
CancelledKeepsMapping ==
    /\ pc = "serve" /\ ctxDone
    /\ failed' = FALSE /\ Goto("stop")
    /\ UNCHANGED <<tickVars, routerVars, serviceVars, ctxDone>>

Cancelled == /\ pc = "serve" /\ ctxDone
             /\ failed' = FALSE /\ Goto("cleanup")
             /\ UNCHANGED <<tickVars, routerVars, serviceVars, ctxDone>>

\* A tick; with a lease of zero there is no ticker.
Renew == /\ pc = "serve" /\ due
         /\ due' = FALSE /\ Goto("renew")
         /\ UNCHANGED <<failed, ticker, routerVars, serviceVars, ctxDone>>

RenewSucceeds == /\ pc = "renew" /\ reached
                 /\ Goto("serve")
                 /\ UNCHANGED <<failed, tickVars, routerVars, serviceVars, ctxDone>>

\* Mutant: the error is returned from above the deferred Stop.
RenewFailsNoStop ==
    /\ pc = "renew"
    /\ failed' = ~ctxDone
    /\ Goto(IF ctxDone THEN "cleanup" ELSE "sleep")
    /\ MayBeLate("add")
    /\ UNCHANGED <<tickVars, mapped, age, belated, cleanup, serviceVars, ctxDone>>

\* After a failed renewal the mapping is only removed if that was a shutdown.
RenewFails ==
    /\ pc = "renew"
    /\ failed' = ~ctxDone
    /\ Goto(IF ctxDone THEN "cleanup" ELSE "stop")
    /\ MayBeLate("add")
    /\ UNCHANGED <<tickVars, mapped, age, belated, cleanup, serviceVars, ctxDone>>

RouterDeletes(g) == /\ pc = "cleanup" /\ ~reached
                    /\ reached' = TRUE /\ mapped' = mapped \ {g}
                    /\ belated' = belated \ {g} /\ cleanup' = g
                    /\ UNCHANGED <<pc, failed, spent, tickVars, age, late, serviceVars, ctxDone>>

\* cleanup only logs an error.  It returns to RunUPnPModeOnce, where no
\* hath-rust was started, or to RunUPnPMode.
CleanupReturns ==
    /\ pc = "cleanup"
    /\ cleanup' = IF reached THEN cleanup ELSE "failed"
    /\ Goto(IF failed THEN "sleep" ELSE "stop")
    /\ MayBeLate("delete")
    /\ UNCHANGED <<failed, tickVars, mapped, age, belated, serviceVars, ctxDone>>

\* The deferred Stop of hath-rust.  It returns when the process is gone, or
\* with an error when a signal is refused, which is only logged: Controller.Stop
\* has given up the handle before, and a retry starts a hath-rust of its own.
StopReturns ==
    /\ pc = "stop"
    /\ \/ hath = "none" /\ UNCHANGED serviceVars
       \/ /\ SignalMayFail /\ hath = "up"
          /\ hath' = "none" /\ escaped' = TRUE /\ UNCHANGED registered
    /\ Goto(IF failed THEN "sleep" ELSE "returned")
    /\ UNCHANGED <<failed, tickVars, routerVars, ctxDone>>

-----------------------------------------------------------------------------
(* The environment.                                                        *)

Cancel == /\ pc # "returned" /\ ~ctxDone
          /\ ctxDone' = TRUE
          /\ UNCHANGED <<pc, failed, callVars, tickVars, routerVars, serviceVars>>

\* hath-rust ends: by itself, which nobody is told of, or because of Stop.
HathExits == /\ hath = "up"
             /\ hath' = "none"
             /\ UNCHANGED <<pc, failed, callVars, tickVars, routerVars, escaped, registered, ctxDone>>

\* The last hath-rust that was given up ends; nothing makes it.
EscapedExits == /\ escaped /\ escaped' = FALSE
                /\ UNCHANGED <<pc, failed, callVars, tickVars, routerVars, hath, registered, ctxDone>>

\* Mutant: the calls of the router are given a context without a timeout.
WaitingForEver == \/ pc \in {"add", "renew", "cleanup", "stop"}
                  \/ pc = "update" /\ spent < UpdateTimeout
                  \/ pc = "serve" /\ ~due /\ ~ctxDone
                  \/ pc = "sleep"

Waiting == \/ pc \in {"add", "renew", "cleanup", "stop"} /\ spent < OpTimeout
           \/ pc = "update" /\ spent < UpdateTimeout
           \/ pc = "serve" /\ ~due /\ ~ctxDone
           \/ pc = "sleep"

Ticking == Lease > 0 /\ pc \in {"serve", "renew"}

\* One tick of time: a call goes on, the lease runs down, the ticker fires
\* and drops the tick if the last one was not taken.
Time == /\ Waiting
        /\ spent' = IF pc \in {"serve", "sleep"} THEN 0 ELSE spent + 1
        /\ age' = [g \in Gateway |-> IF g \in mapped /\ Lease > 0 THEN age[g] + 1 ELSE 0]
        /\ mapped' = {g \in mapped : Lease > 0 => age[g] + 1 < Lease}
        /\ ticker' = IF ~Ticking THEN ticker
                     ELSE IF ticker = 1 THEN Interval ELSE ticker - 1
        /\ due' = (due \/ (Ticking /\ ticker = 1))
        /\ UNCHANGED <<pc, failed, reached, late, belated, cleanup, serviceVars, ctxDone>>

-----------------------------------------------------------------------------

\* The returns of the three calls at the router.
CallSucceeds == AddSucceeds \/ RenewSucceeds
CallFails == AddFails \/ RenewFails
CallReturns == CallSucceeds \/ CallFails \/ CleanupReturns

OutsideCalls == \/ Loop \/ Sleep \/ UpdatePosted \/ HandleFails \/ HathStarts
                \/ Cancelled \/ Renew \/ StopReturns

Program == OutsideCalls \/ CallReturns

Terminated == pc = "returned" /\ UNCHANGED vars

Next == \/ Program \/ \E g \in Gateway : RouterAdds(g) \/ RouterDeletes(g)
                                         \/ RouterAddsLate(g) \/ RouterDeletesLate(g)
        \/ Cancel \/ HathExits \/ EscapedExits \/ Time \/ Terminated

Spec == Init /\ [][Next]_vars

\* The goroutine is scheduled and every call returns by its timeout; select
\* picks among its ready cases at random; a Stop that is not refused sends
\* SIGKILL in the end.
FairSpec == /\ Spec
            /\ WF_vars(Program) /\ SF_vars(Cancelled)
            /\ WF_vars(pc = "stop" /\ HathExits)

-----------------------------------------------------------------------------
(* Properties.                                                             *)

TypeOK == /\ pc \in {"loop", "sleep", "add", "update", "serve", "renew", "cleanup",
                     "stop", "returned"}
          /\ failed \in BOOLEAN /\ reached \in BOOLEAN /\ due \in BOOLEAN
          /\ spent \in 0 .. (IF pc = "update" THEN UpdateTimeout ELSE OpTimeout)
          /\ ticker \in 0 .. Interval /\ age \in [Gateway -> 0 .. Lease]
          /\ mapped \subseteq Gateway /\ late \subseteq {"add", "delete"} \X Gateway /\ belated \subseteq Gateway
          /\ cleanup \in Gateway \cup {"none", "failed"}
          /\ hath \in {"none", "up"} /\ escaped \in BOOLEAN /\ registered \in {NotRegistered, BindPort}
          /\ ctxDone \in BOOLEAN

\* While hath-rust is served the port stays mapped at some router: the lease
\* that was granted before HandleMapping began does not run out before the
\* ticker, which starts after it, has it renewed, nor between two renewals
\* (run.go:171-211, 245-272).
LeaseHeld == pc \in {"serve", "renew"} => mapped # {}

\* A return that follows no error leaves no mapping behind at the router its
\* cleanup reached, unless that carries out an addition after the deletion
\* that had been given up before it (run.go:180-186, 253-275): the cleanup is
\* not skipped on any way out of the renewal loop.
CleanExit ==
    pc = "returned" /\ ~failed =>
        mapped = {} \/ cleanup = "failed" \/ cleanup \in Gateway \ (mapped \ belated)

Service == INSTANCE HathService WITH
               Server <- {"hath", "escaped"}, Port <- {BindPort}, UnknownPort <- NotRegistered,
               serving <- (IF hath = "up" THEN {"hath"} ELSE {})
                              \cup (IF escaped THEN {"escaped"} ELSE {}),
               gone    <- pc = "returned"

\* The mode keeps the promises of HathService, as the natmap mode does, but
\* while a hath-rust runs whose Stop was refused a signal: until one is, and
\* again once it has ended (run.go:171-275).  An error of Stop is only logged
\* (run.go:242-244), so beside such a hath-rust the port may be registered
\* anew, a second one started, and the orchestrator return.
ServiceSpec == Service!Init /\ [][Service!Next \/ escaped \/ escaped']_(Service!vars)

\* After a cancellation the program returns: from a call in progress by its
\* timeout, from the retry loop before its next round (run.go:217-233).
CancelLeadsToReturn == ctxDone ~> pc = "returned"

\* docs/configuration.md:90: the mapping is removed when the program exits.
ExitUnmaps == pc = "returned" => mapped = {} \/ cleanup = "failed"

=============================================================================
