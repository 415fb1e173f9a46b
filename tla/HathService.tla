----------------------------- MODULE HathService -----------------------------
(***************************************************************************)
(* What the orchestrator promises to Hentai@Home: the port on record for   *)
(* the client changes only while no hath-rust of ours is running, at most  *)
(* one hath-rust runs at a time, none before a port was registered, and    *)
(* none is left behind when the orchestrator is gone.                      *)
(***************************************************************************)
CONSTANTS Server,   \* identities of hath-rust processes
          Port,
          UnknownPort

VARIABLES serving,      \* the hath-rust processes that run
          registered,   \* the port the Hentai@Home server has on record
          gone          \* the orchestrator has returned

vars == <<serving, registered, gone>>

Init == serving = {} /\ registered = UnknownPort /\ gone = FALSE

Register == /\ serving = {} /\ ~gone
            /\ registered' \in Port
            /\ UNCHANGED <<serving, gone>>

Serve == /\ serving = {} /\ ~gone /\ registered # UnknownPort
         /\ \E s \in Server : serving' = {s}
         /\ UNCHANGED <<registered, gone>>

\* A hath-rust ends, stopped or by itself.
Cease == /\ serving # {} /\ serving' = {}
         /\ UNCHANGED <<registered, gone>>

Leave == /\ serving = {} /\ ~gone
         /\ gone' = TRUE
         /\ UNCHANGED <<serving, registered>>

Next == Register \/ Serve \/ Cease \/ Leave

Spec == Init /\ [][Next]_vars

=============================================================================
