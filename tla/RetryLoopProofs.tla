--------------------------- MODULE RetryLoopProofs ---------------------------
(***************************************************************************)
(* Proofs about RetryLoop, for every configuration of the delays.          *)
(***************************************************************************)
EXTENDS RetryLoop, BackoffProofs

\* Run only ever sleeps for a legal, positive duration, for every
\* configuration and any number of failures.
THEOREM RetryLoopTypeCorrect == Spec => []TypeOK
<1>1. Init => TypeOK
    BY RetryLoopAssumption, DurationAssumption DEF Init, TypeOK
<1>2. TypeOK /\ [Next]_vars => TypeOK'
    <2> SUFFICES ASSUME TypeOK, [Next]_vars PROVE TypeOK'
        OBVIOUS
    <2>1. CASE StartFails
        <3>1. currentRetryDelay \in Duration
            BY DurationAssumption DEF TypeOK, Duration, MinDuration
        <3>2. currentRetryDelay' \in 1 .. MaxDuration
            BY <3>1, <2>1, NextRetryDelayInRange, DelaysPositive, DurationAssumption
            DEF StartFails, TypeOK
        <3> QED
            BY <3>2, <2>1, DurationAssumption, RetryLoopAssumption DEF StartFails, TypeOK
    <2>2. CASE StartSucceeds
        BY <2>2, DurationAssumption, RetryLoopAssumption DEF StartSucceeds, TypeOK
    <2>3. CASE UNCHANGED vars
        BY <2>3 DEF vars, TypeOK
    <2> QED
        BY <2>1, <2>2, <2>3 DEF Next
<1> QED
    BY <1>1, <1>2, PTL DEF Spec

\* What the definition of 2^n says of it.
PowersOfTwo == /\ 2 ^ 0 = 1
               /\ \A n \in Nat : 2 ^ n \in Nat \ {0} /\ 2 ^ (n + 1) = 2 * 2 ^ n

\* The invariant that gives the closed form: it also says where the series
\* starts.
Exponential == /\ failures = 0 => currentRetryDelay = 0
               /\ ExponentialBackoff

\* The doubling of a delay that was cut at the maximum is cut there too.
LEMMA CutBeforeOrAfter ==
    ASSUME NEW m \in Nat, NEW x \in Nat
    PROVE  Smaller(m, Smaller(m, x) * 2) = Smaller(m, 2 * x)
BY DEF Smaller

\* The iterated doubling of nextRetryDelay is the exact exponential
\* min(max, initial * 2^(n-1)) after any number n of failures, for every
\* width of time.Duration (supervisor.go:62-70, 179-196).  The hypothesis is
\* the recursion that defines 2^n, which the provers do not unfold.
THEOREM BacksOffExponentially == ASSUME PowersOfTwo PROVE Spec => []ExponentialBackoff
<1>1. Init => Exponential
    BY DEF Init, Exponential, ExponentialBackoff
<1>2. PowersOfTwo /\ TypeOK /\ Exponential /\ [Next]_vars => Exponential'
    <2> SUFFICES ASSUME PowersOfTwo, TypeOK, Exponential, [Next]_vars PROVE Exponential'
        OBVIOUS
    <2> DEFINE d == retryDelay(runtime)
               m == retryMaxDelay(runtime)
    <2>1. /\ runtime \in Delays
          /\ d \in 1 .. MaxDuration /\ m \in d .. MaxDuration
          /\ failures \in Nat
        BY DelaysPositive, RetryLoopAssumption DEF TypeOK
    <2>2. CASE StartFails
        <3>1. /\ runtime' = runtime /\ failures' = failures + 1
              /\ currentRetryDelay' = nextRetryDelay(runtime, currentRetryDelay)
            BY <2>2 DEF StartFails
        <3>2. CASE failures = 0
            <4>1. currentRetryDelay' = d
                BY <3>1, <3>2 DEF Exponential, nextRetryDelay
            <4>2. failures' - 1 = 0 /\ 2 ^ 0 = 1
                BY <3>1, <3>2 DEF PowersOfTwo
            <4>3. d = Smaller(m, d * 1)
                BY <2>1, DurationAssumption DEF Smaller
            <4>4. currentRetryDelay' = Smaller(m, d * 2 ^ (failures' - 1))
                BY <4>1, <4>2, <4>3, Zenon
            <4> QED
                BY <4>4, <3>1, <3>2, <2>1 DEF Exponential, ExponentialBackoff
        <3>3. CASE failures > 0
            <4> DEFINE n == failures - 1
            <4>1. n \in Nat /\ failures' - 1 = n + 1
                BY <2>1, <3>1, <3>3
            <4>2. PICK power \in Nat \ {0} : power = 2 ^ n
                BY <4>1 DEF PowersOfTwo
            <4>3. 2 ^ (failures' - 1) = 2 * power
                BY <4>1, <4>2, Zenon DEF PowersOfTwo
            <4>4. currentRetryDelay = Smaller(m, d * power)
                BY <3>3, <4>2 DEF Exponential, ExponentialBackoff
            <4>5. d * power \in Nat /\ d * power >= 1 /\ d * (2 * power) = 2 * (d * power)
                BY <2>1, DurationAssumption
            <4>6. currentRetryDelay \in 1 .. m
                BY <4>4, <4>5, <2>1, DurationAssumption DEF Smaller
            <4>7. currentRetryDelay' = Smaller(m, currentRetryDelay * 2)
                BY <3>1, <4>6, <2>1, NextRetryDelayDoubles, DurationAssumption DEF Smaller
            <4>8. currentRetryDelay' = Smaller(m, d * (2 * power))
                BY <4>4, <4>5, <4>7, <2>1, CutBeforeOrAfter, DurationAssumption
            <4>9. currentRetryDelay' = Smaller(m, d * 2 ^ (failures' - 1))
                BY <4>3, <4>8, Zenon
            <4> QED
                BY <4>9, <3>1, <3>3, <2>1 DEF Exponential, ExponentialBackoff
        <3> QED
            BY <2>1, <3>2, <3>3
    <2>3. CASE StartSucceeds
        BY <2>3 DEF StartSucceeds, Exponential, ExponentialBackoff
    <2>4. CASE UNCHANGED vars
        BY <2>4 DEF vars, Exponential, ExponentialBackoff
    <2> QED
        BY <2>2, <2>3, <2>4 DEF Next
<1>3. Exponential => ExponentialBackoff
    BY DEF Exponential
<1> QED
    BY <1>1, <1>2, <1>3, RetryLoopTypeCorrect, PTL DEF Spec

=============================================================================
