----------------------------- MODULE ChildProcess -----------------------------
(***************************************************************************)
(* The contract of one child process that Supervisor is built on: it runs, *)
(* exits, is reaped; a Stop asks for its end, may kill it once its context *)
(* is done, and either returns when it is reaped and answers by how it     *)
(* exited, or is refused a signal and returns that error at once, with the *)
(* process not yet reaped and nobody left to stop it.                      *)
(***************************************************************************)
VARIABLES st,        \* "running", "zombie" or "done"
          exit,      \* "none" while it runs, then "clean", "fail" or "signal"
          stop,      \* where the call of Stop is
          result,    \* its answer
          ctxDone    \* its context is done

vars == <<st, exit, stop, result, ctxDone>>

Init == st = "running" /\ exit = "none" /\ stop = "idle" /\ result = "none" /\ ctxDone = FALSE

Exit == /\ st = "running" /\ st' = "zombie"
        /\ exit' \in {"clean", "fail", "signal"}
        /\ UNCHANGED <<stop, result, ctxDone>>

\* A process that did well counts as failed if its output could not be copied.
Reap == /\ st = "zombie" /\ st' = "done"
        /\ exit' \in IF exit = "clean" THEN {"clean", "fail"} ELSE {exit}
        /\ UNCHANGED <<stop, result, ctxDone>>

Expire == ctxDone' = TRUE /\ UNCHANGED <<st, exit, stop, result>>

Answer(r) == stop' = "returned" /\ result' = r

\* SIGTERM, or SIGKILL once the context is done, is refused.
StopRefused == /\ stop = "idle" \/ (stop = "term" /\ ctxDone)
               /\ st # "done" /\ Answer("refused")
               /\ UNCHANGED <<st, exit, ctxDone>>

\* Stop finds the process reaped, or begins to wait for it.
StopCalled == /\ stop = "idle"
              /\ \/ st = "done" /\ Answer(IF exit = "clean" THEN "nil" ELSE "error")
                 \/ st # "done" /\ stop' = "term" /\ UNCHANGED result
              /\ UNCHANGED <<st, exit, ctxDone>>

StopEnded == /\ stop = "term" /\ st = "done"
             /\ Answer(IF exit = "fail" THEN "error" ELSE "nil")
             /\ UNCHANGED <<st, exit, ctxDone>>

StopKills == /\ stop = "term" /\ ctxDone
             /\ stop' = "kill" /\ UNCHANGED <<st, exit, result, ctxDone>>

StopKilled == /\ stop = "kill" /\ st = "done"
              /\ Answer(CASE exit = "clean"  -> "nil"
                          [] exit = "fail"   -> "error"
                          [] exit = "signal" -> "ctx")
              /\ UNCHANGED <<st, exit, ctxDone>>

Next == \/ Exit \/ Reap \/ Expire
        \/ StopCalled \/ StopEnded \/ StopKills \/ StopKilled \/ StopRefused

Spec == Init /\ [][Next]_vars

=============================================================================
