CONSTANTS
    MaxDuration <- MCMaxDuration
    DefaultRetryDelay <- MCDefaultRetryDelay
    Runtimes <- MCRuntimes
    MaxFailures <- MCMaxFailures
SPECIFICATION Spec
INVARIANTS
    ExponentialBackoff
