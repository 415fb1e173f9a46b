------------------------------- MODULE Backoff -------------------------------
(***************************************************************************)
(* The delays of supervisor.Runtime: how long Run waits before it tries    *)
(* natmap again.  A duration is a Go time.Duration, a signed integer of    *)
(* fixed width; a Runtime is the record of its configured durations, and   *)
(* zero or negative fields mean "not configured" as they do in the code.   *)
(***************************************************************************)
EXTENDS Integers

CONSTANTS
    MaxDuration,        \* the largest time.Duration (math.MaxInt64 in Go)
    DefaultRetryDelay   \* 5 * time.Second

ASSUME DurationAssumption ==
    /\ MaxDuration \in Nat
    /\ DefaultRetryDelay \in 1 .. MaxDuration

MinDuration == -MaxDuration - 1

Duration == MinDuration .. MaxDuration

\* The duration fields of a Runtime this module reads.
Delays == [RetryDelay : Duration, RetryMaxDelay : Duration, RestartDelay : Duration]

\* One addition or doubling of durations leaves the range by less than its
\* width, so two's complement wraps it around at most once.
Wrap(d) == IF d > MaxDuration THEN d - 2 * (MaxDuration + 1)
           ELSE IF d < MinDuration THEN d + 2 * (MaxDuration + 1)
           ELSE d

-----------------------------------------------------------------------------

retryDelay(r) == IF r.RetryDelay > 0 THEN r.RetryDelay ELSE DefaultRetryDelay

retryMaxDelay(r) ==
    IF r.RetryMaxDelay <= 0 \/ r.RetryMaxDelay < retryDelay(r)
    THEN retryDelay(r)
    ELSE r.RetryMaxDelay

\* Mutant: doubles before it compares with half of the maximum.
nextRetryDelayUnguarded(r, current) ==
    LET next == Wrap(current * 2) IN
    IF current <= 0 THEN retryDelay(r)
    ELSE IF current >= retryMaxDelay(r) \/ next > retryMaxDelay(r) THEN retryMaxDelay(r)
    ELSE next

\* Mutant: jumps to the maximum from exactly half of it.
nextRetryDelayEager(r, current) ==
    IF current <= 0 THEN retryDelay(r)
    ELSE IF current >= retryMaxDelay(r) \div 2 THEN retryMaxDelay(r)
    ELSE Wrap(current * 2)

\* The delay after one more failure.  The comparison with half of the maximum
\* is what keeps the doubling inside the range of Duration.
nextRetryDelay(r, current) ==
    LET maxDelay == retryMaxDelay(r)
        next     == Wrap(current * 2)
    IN  IF current <= 0 THEN retryDelay(r)
        ELSE IF current >= maxDelay \/ current > maxDelay \div 2 THEN maxDelay
        ELSE IF next > maxDelay THEN maxDelay
        ELSE next

restartDelay(r) == IF r.RestartDelay > 0 THEN r.RestartDelay ELSE retryDelay(r)

=============================================================================
