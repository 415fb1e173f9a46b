------------------------------ MODULE RetryLoop ------------------------------
(***************************************************************************)
(* Run's use of the delays of Backoff, alone: the delay grows at each      *)
(* failed start of natmap and is forgotten at a successful one.  It is     *)
(* compared with the closed form min(initial * 2^(n-1), max).              *)
(***************************************************************************)
EXTENDS Backoff

CONSTANTS
    Runtimes,      \* the configurations to start from
    MaxFailures    \* bound: failed starts in a row that are counted

ASSUME RetryLoopAssumption ==
    /\ Runtimes \subseteq Delays
    /\ MaxFailures \in Nat

VARIABLES
    runtime,             \* the configured durations, fixed for a run
    currentRetryDelay,   \* the local variable of Run
    failures             \* natmap starts that failed in a row

vars == <<runtime, currentRetryDelay, failures>>

Init == /\ runtime \in Runtimes
        /\ currentRetryDelay = 0
        /\ failures = 0

StartFails == /\ failures < MaxFailures
              /\ failures' = failures + 1
              /\ currentRetryDelay' = nextRetryDelay(runtime, currentRetryDelay)
              /\ UNCHANGED runtime

StartSucceeds == /\ failures' = 0
                 /\ currentRetryDelay' = 0
                 /\ UNCHANGED runtime

Next == StartFails \/ StartSucceeds

Spec == Init /\ [][Next]_vars

-----------------------------------------------------------------------------

\* Whatever the three durations are, the delay in use is a duration Run may
\* sleep for: never negative, and nonzero exactly after a failure
\* (supervisor.go:62-70).
TypeOK == /\ runtime \in Delays
          /\ currentRetryDelay \in 0 .. MaxDuration
          /\ failures \in 0 .. MaxFailures
          /\ currentRetryDelay > 0 <=> failures > 0

Smaller(a, b) == IF a < b THEN a ELSE b

\* The iterated doubling with its overflow guards (supervisor.go:179-196)
\* computes the exact exponential: after n failures in a row the delay is
\* the initial delay times 2^(n-1), cut at the maximum, although the
\* unguarded product would wrap around long before n failures.
ExponentialBackoff ==
    failures > 0 =>
        currentRetryDelay = Smaller(retryMaxDelay(runtime),
                                    retryDelay(runtime) * 2 ^ (failures - 1))

=============================================================================
