------------------------------ MODULE OSProcess ------------------------------
(***************************************************************************)
(* One child process started by process.OSRunner: the leader of a process  *)
(* group, a descendant of it that holds its output pipes, the goroutine    *)
(* that waits for the leader and for the copying of the pipes, one caller  *)
(* of Stop and one reader of Done (Controller.Running, runUntilRestart).   *)
(* It is the detail below the Stop of Supervisor; ProcessOutput adds what  *)
(* goes through the pipes.                                                 *)
(***************************************************************************)
CONSTANTS
    IgnoresTerm,   \* the members of {"leader", "child"} that ignore SIGTERM
    SignalMayFail  \* whether getpgid(2) or kill(2) may be refused

Member == {"leader", "child"}
Stream == {"stdout", "stderr"}

ASSUME OSProcessAssumption == IgnoresTerm \subseteq Member /\ SignalMayFail \in BOOLEAN

VARIABLES
    state,      \* of the leader: running, zombie, reaped; of the child: none, running, gone
    code,       \* how the leader exited; "none" before that
    pending,    \* the last signal sent to each member
    output,     \* the copying of each output: "copying", "ended", "failed"
    waiter,     \* where the goroutine of cmd.Wait is
    waitErr,    \* osProcess.waitErr; "none" is its zero value, read as no error
    done,       \* the channel done: what it buffers, and whether it is closed
    waited,     \* whether the channel waited is closed
    stop,       \* where the call of Stop is
    result,     \* what Stop returned: "nil", "error", "ctx" for ctx.Err(), or
                \* "refused" for the error of signal
    ctxDone     \* the context given to Stop is done

osVars == <<state, code, pending, output>>
waitVars == <<waiter, waitErr, done, waited>>
stopVars == <<stop, result>>
vars == <<osVars, waitVars, stopVars, ctxDone>>

Init == /\ state = [m \in Member |-> IF m = "leader" THEN "running" ELSE "none"]
        /\ code = "none"
        /\ pending = [m \in Member |-> "none"]
        /\ output = [s \in Stream |-> "copying"]
        /\ waiter = "wait" /\ waitErr = "none"
        /\ done = [value |-> "empty", closed |-> FALSE] /\ waited = FALSE
        /\ stop = "idle" /\ result = "none"
        /\ ctxDone = FALSE

-----------------------------------------------------------------------------
(* The kernel and the processes themselves.                                *)

Fork == /\ state["leader"] = "running" /\ state["child"] = "none"
        /\ state' = [state EXCEPT !["child"] = "running"]
        /\ UNCHANGED <<code, pending, output, waitVars, stopVars, ctxDone>>

Exit(m) ==
    /\ state[m] = "running"
    /\ IF m = "leader"
       THEN /\ state' = [state EXCEPT ![m] = "zombie"]
            /\ code' \in IF pending[m] = "KILL" THEN {"signal"} ELSE {"clean", "fail", "signal"}
       ELSE /\ state' = [state EXCEPT ![m] = "gone"]
            /\ UNCHANGED code
    /\ UNCHANGED <<pending, output, waitVars, stopVars, ctxDone>>

ContextExpires == /\ stop # "idle" /\ ~ctxDone
                  /\ ctxDone' = TRUE
                  /\ UNCHANGED <<osVars, waitVars, stopVars>>

-----------------------------------------------------------------------------
(* The goroutines of cmd.Start and of OSRunner.Start.                      *)

\* A pipe ends when no process has it open any more.
CopyEnds(s) == /\ output[s] = "copying" /\ \A m \in Member : state[m] # "running"
               /\ output' = [output EXCEPT ![s] = "ended"]
               /\ UNCHANGED <<state, code, pending, waitVars, stopVars, ctxDone>>

\* The writer answers with an error; the pipe is closed at this end.
CopyFails(s) == /\ output[s] = "copying"
                /\ output' = [output EXCEPT ![s] = "failed"]
                /\ UNCHANGED <<state, code, pending, waitVars, stopVars, ctxDone>>

\* cmd.Wait reaps the leader, then waits for the copying to end.
WaitReaps == /\ waiter = "wait" /\ state["leader"] = "zombie"
             /\ state' = [state EXCEPT !["leader"] = "reaped"]
             /\ waiter' = "copy"
             /\ UNCHANGED <<code, pending, output, waitErr, done, waited, stopVars, ctxDone>>

\* Mutant: the pipes are not waited for.
WaitReturnsAtOnce ==
    /\ waiter = "copy" /\ waiter' = "returned"
    /\ UNCHANGED <<osVars, waitErr, done, waited, stopVars, ctxDone>>

WaitReturns == /\ waiter = "copy" /\ \A s \in Stream : output[s] # "copying"
               /\ waiter' = "returned"
               /\ UNCHANGED <<osVars, waitErr, done, waited, stopVars, ctxDone>>

\* A failed copy is an error of Wait if the process itself did well.
WaitError == IF code = "clean" /\ (\E s \in Stream : output[s] = "failed") THEN "fail" ELSE code

\* Mutant: waited is closed before the error is stored.
SetWaitErrLate == /\ waiter = "returned"
                  /\ waited' = TRUE /\ waiter' = "set"
                  /\ UNCHANGED <<osVars, waitErr, done, stopVars, ctxDone>>

SetWaitErr == /\ waiter = "returned"
              /\ waitErr' = WaitError /\ waiter' = "set"
              /\ UNCHANGED <<osVars, done, waited, stopVars, ctxDone>>

SendDone == /\ waiter = "set"
            /\ done' = [done EXCEPT !.value = waitErr] /\ waiter' = "sent"
            /\ UNCHANGED <<osVars, waitErr, waited, stopVars, ctxDone>>

CloseDone == /\ waiter = "sent"
             /\ done' = [done EXCEPT !.closed = TRUE] /\ waiter' = "closed"
             /\ UNCHANGED <<osVars, waitErr, waited, stopVars, ctxDone>>

CloseWaited == /\ waiter = "closed"
               /\ waited' = TRUE /\ waiter' = "end"
               /\ UNCHANGED <<osVars, waitErr, done, stopVars, ctxDone>>

\* A reader of Done takes the buffered exit.
ReadDone == /\ done.value # "empty"
            /\ done' = [done EXCEPT !.value = "empty"]
            /\ UNCHANGED <<osVars, waiter, waitErr, waited, stopVars, ctxDone>>

-----------------------------------------------------------------------------
(* osProcess.Stop.                                                         *)

\* signal: to the whole group while the leader has not been reaped; after
\* that Getpgid answers ESRCH, Process.Signal finds the process done, and
\* nobody is signalled.
Signal(sig) ==
    pending' = IF state["leader"] = "reaped" THEN pending
               ELSE [m \in Member |-> IF state[m] = "running" THEN sig ELSE pending[m]]

waitError(afterStop) ==
    IF waitErr \in {"none", "clean"} \/ (afterStop /\ waitErr = "signal") THEN "nil" ELSE "error"

StopReturns(r) == stop' = "returned" /\ result' = r

\* signal returns an error, of Getpgid or of Kill, and Stop returns it with the
\* process as it was: whether it runs is not looked at, SIGKILL is not tried
\* after a refused SIGTERM, and nobody waits.  kill(2) fails for a group only
\* if it reached none of its members.
SignalRefused == /\ SignalMayFail /\ state["leader"] # "reaped"
                 /\ StopReturns("refused") /\ UNCHANGED pending

Stop == /\ stop = "idle"
        /\ \/ waited /\ StopReturns(waitError(FALSE)) /\ UNCHANGED pending
           \/ ~waited /\ Signal("TERM") /\ stop' = "term" /\ UNCHANGED result
           \/ ~waited /\ SignalRefused
        /\ UNCHANGED <<state, code, output, waitVars, ctxDone>>

StopWaited == /\ stop = "term" /\ waited
              /\ StopReturns(waitError(TRUE))
              /\ UNCHANGED <<osVars, waitVars, ctxDone>>

\* Mutant: the deadline is answered with one more SIGTERM.
StopKillsGently == /\ stop = "term" /\ ctxDone
                   /\ Signal("TERM") /\ stop' = "kill"
                   /\ UNCHANGED <<state, code, output, waitVars, result, ctxDone>>

StopKills == /\ stop = "term" /\ ctxDone
             /\ \/ Signal("KILL") /\ stop' = "kill" /\ UNCHANGED result
                \/ SignalRefused
             /\ UNCHANGED <<state, code, output, waitVars, ctxDone>>

StopKilled == /\ stop = "kill" /\ waited
              /\ StopReturns(IF waitErr = "signal" THEN "ctx" ELSE waitError(TRUE))
              /\ UNCHANGED <<osVars, waitVars, ctxDone>>

-----------------------------------------------------------------------------

Waiter == WaitReaps \/ WaitReturns \/ SetWaitErr \/ SendDone \/ CloseDone \/ CloseWaited
Stopper == Stop \/ StopWaited \/ StopKills \/ StopKilled

\* Stop has returned and everybody has come to an end.
Terminated == /\ stop = "returned" /\ waiter = "end" /\ UNCHANGED vars

\* Everything but the copying of the output.
Control == Waiter \/ Stopper \/ ReadDone \/ ContextExpires \/ Fork
           \/ (\E m \in Member : Exit(m)) \/ Terminated

Next == Control \/ \E s \in Stream : CopyEnds(s) \/ CopyFails(s)

Spec == Init /\ [][Next]_vars

ExitsOnSignal(m) == /\ pending[m] = "KILL" \/ (pending[m] = "TERM" /\ m \notin IgnoresTerm)
                    /\ Exit(m)

\* Goroutines are scheduled, the context given to Stop expires, a member
\* dies of SIGKILL, and of SIGTERM unless it ignores it.  A member that is
\* not signalled may run for ever.
Fairness == /\ WF_vars(Waiter)
            /\ \A s \in Stream : WF_vars(CopyEnds(s))
            /\ WF_vars(StopWaited \/ StopKills \/ StopKilled)
            /\ WF_vars(ContextExpires)
            /\ \A m \in Member : WF_vars(ExitsOnSignal(m))

FairSpec == Spec /\ Fairness

-----------------------------------------------------------------------------
(* Properties.                                                             *)

\* When Stop has returned, the leader is reaped and no descendant has the
\* output pipes open any more, unless the copying of both outputs failed, which
\* ends the wait for it: however the exit, the wait and the deadline interleave,
\* on every path of Stop but the two on which a signal is refused and Stop
\* returns that error instead (command.go:104-133).
StoppedIsGone ==
    stop = "returned" /\ result # "refused" =>
        /\ state["leader"] = "reaped"
        /\ state["child"] = "running" => output = [s \in Stream |-> "failed"]

\* To its callers the process is the three-state child of ChildProcess, which
\* is how Supervisor models it: Stop's answer follows from how the leader
\* really exited and its output was copied, although another goroutine
\* publishes the exit in four steps and the deadline may pass at any of them;
\* or it says that a signal was refused, which happens only to a process whose
\* exit has not been published (command.go:70-76, 104-170).
Contract == INSTANCE ChildProcess WITH
                st   <- IF waited THEN "done"
                        ELSE IF state["leader"] = "running" THEN "running" ELSE "zombie",
                exit <- IF waited THEN waitErr ELSE code

ContractSpec == Contract!Spec

\* Stop returns, with a process that ignores SIGTERM too, whether or not a
\* signal is refused, unless a descendant that was not killed outlives the
\* leader and holds its pipes (command.go:115-124): after the leader is reaped
\* signal reaches nobody.
StopEnds ==
    stop = "term" ~> \/ stop = "returned"
                     \/ /\ state["leader"] = "reaped"
                        /\ state["child"] = "running" /\ pending["child"] # "KILL"

=============================================================================
