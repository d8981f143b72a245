CONSTANTS
    Retry5xx = 3
    RetryOnReadTimeout = TRUE
    SessionMode = TRUE
SPECIFICATION Spec
INVARIANTS WriteExecutedOnce FreshAnswer RetriesExhausted
