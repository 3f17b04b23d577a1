\* Two workers that may raise or die forever and two events, batches of two:
\* claims, takeovers in the middle of a request, late answers and marks.
SPECIFICATION FairSpec
CONSTANTS
    Events = {e1, e2}
    Workers = {w1, w2}
    NoOne = NoOne
    Dead = Dead
    NoEvent = NoEvent
    BatchSize = 2
    MaxAttempts = 2
    MaxCuts = 0
INVARIANTS PublisherInv PostsBounded
PROPERTIES DeliversSafely Delivers
CHECK_DEADLOCK FALSE
