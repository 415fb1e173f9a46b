----------------------------- MODULE MCRetryLoop -----------------------------
(* RetryLoop for a 7-bit time.Duration and every pair of initial and       *)
(* maximum delay at and around zero, the limits and the default.           *)
EXTENDS RetryLoop

MCMaxDuration == 63
MCDefaultRetryDelay == 5
MCMaxFailures == 9

MCDelayValues == {-64, -1, 0, 1, 2, 3, 4, 5, 6, 7, 31, 32, 33, 62, 63}

MCRuntimes == [RetryDelay : MCDelayValues, RetryMaxDelay : MCDelayValues,
               RestartDelay : {0}]

=============================================================================
