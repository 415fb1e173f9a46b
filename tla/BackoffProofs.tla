---------------------------- MODULE BackoffProofs ----------------------------
(***************************************************************************)
(* Proofs about the delays of Backoff, for every width of time.Duration    *)
(* and every configuration.                                                *)
(***************************************************************************)
EXTENDS Backoff, TLAPS

\* The initial delay and the maximum are positive durations in that order,
\* whatever the configuration says, and so is the delay before a restart:
\* no loop of Run can spin without waiting (supervisor.go:164-177, 198-203).
THEOREM DelaysPositive ==
    ASSUME NEW r \in Delays
    PROVE  /\ retryDelay(r) \in 1 .. MaxDuration
           /\ retryMaxDelay(r) \in retryDelay(r) .. MaxDuration
           /\ restartDelay(r) \in 1 .. MaxDuration
BY DurationAssumption
   DEF Delays, Duration, MinDuration, retryDelay, retryMaxDelay, restartDelay

\* Doubling a positive delay that is at most half of the maximum stays in
\* range: the wrap-around of time.Duration is never reached.
LEMMA DoublingDoesNotWrap ==
    ASSUME NEW m \in 1 .. MaxDuration, NEW d \in 1 .. MaxDuration, ~ d > m \div 2
    PROVE  /\ Wrap(d * 2) = d * 2
           /\ d * 2 <= m
<1>1. m = 2 * (m \div 2) + (m % 2) /\ m % 2 \in 0 .. 1
    BY DurationAssumption
<1>2. m \div 2 \in Int
    BY DurationAssumption
<1>3. d * 2 <= m
    BY <1>1, <1>2, DurationAssumption
<1>4. d * 2 <= MaxDuration /\ d * 2 >= MinDuration
    BY <1>3, DurationAssumption DEF MinDuration
<1> QED
    BY <1>3, <1>4, DurationAssumption DEF Wrap, MinDuration

\* After a failure the delay is positive and at most the maximum, it never
\* shrinks while failures repeat, and a negative or huge current value cannot
\* push it out of range (supervisor.go:179-196).
THEOREM NextRetryDelayInRange ==
    ASSUME NEW r \in Delays, NEW current \in Duration
    PROVE  /\ nextRetryDelay(r, current) \in 1 .. retryMaxDelay(r)
           /\ current \in 0 .. retryMaxDelay(r) => nextRetryDelay(r, current) >= current
<1> DEFINE m == retryMaxDelay(r)
<1>1. /\ retryDelay(r) \in 1 .. m
      /\ m \in 1 .. MaxDuration
    BY DelaysPositive, DurationAssumption
<1>2. CASE current <= 0
    BY <1>1, <1>2, DurationAssumption DEF nextRetryDelay, Duration, MinDuration
<1>3. CASE current > 0 /\ (current >= m \/ current > m \div 2)
    <2>1. nextRetryDelay(r, current) = m
        BY <1>3, DurationAssumption DEF nextRetryDelay, Duration, MinDuration
    <2> QED
        BY <2>1, <1>1, <1>3, DurationAssumption DEF Duration, MinDuration
<1>4. CASE current > 0 /\ ~(current >= m \/ current > m \div 2)
    <2>1. current \in 1 .. MaxDuration
        BY <1>4, DurationAssumption DEF Duration, MinDuration
    <2>2. Wrap(current * 2) = current * 2 /\ current * 2 <= m
        BY <2>1, <1>1, <1>4, DoublingDoesNotWrap
    <2>3. nextRetryDelay(r, current) = current * 2
        BY <2>1, <2>2, <1>4, <1>1 DEF nextRetryDelay
    <2> QED
        BY <2>1, <2>2, <2>3, <1>1
<1> QED
    BY <1>2, <1>3, <1>4, DurationAssumption DEF Duration, MinDuration

\* From a delay in range one more failure doubles it exactly, cut at the
\* maximum: none of the early returns of nextRetryDelay changes the result
\* (supervisor.go:179-196).
THEOREM NextRetryDelayDoubles ==
    ASSUME NEW r \in Delays, NEW current \in 1 .. retryMaxDelay(r)
    PROVE  nextRetryDelay(r, current) = IF current * 2 <= retryMaxDelay(r)
                                        THEN current * 2 ELSE retryMaxDelay(r)
<1> DEFINE m == retryMaxDelay(r)
<1>1. m \in 1 .. MaxDuration /\ current \in 1 .. MaxDuration
    BY DelaysPositive, DurationAssumption
<1>2. CASE current >= m \/ current > m \div 2
    <2>1. current * 2 >= m
        <3>1. m = 2 * (m \div 2) + (m % 2) /\ m % 2 \in 0 .. 1 /\ m \div 2 \in Int
            BY <1>1, DurationAssumption
        <3> QED
            BY <1>1, <1>2, <3>1, DurationAssumption
    <2>2. nextRetryDelay(r, current) = m
        BY <1>1, <1>2, DurationAssumption DEF nextRetryDelay
    <2> QED
        BY <1>1, <2>1, <2>2, DurationAssumption
<1>3. CASE ~(current >= m \/ current > m \div 2)
    <2>1. Wrap(current * 2) = current * 2 /\ current * 2 <= m
        BY <1>1, <1>3, DoublingDoesNotWrap
    <2> QED
        BY <1>1, <1>3, <2>1, DurationAssumption DEF nextRetryDelay
<1> QED
    BY <1>2, <1>3

=============================================================================
