\* Three notifications over a window of two; every failure count from the first
\* delay to the longest.
SPECIFICATION FairSpec
CONSTANTS
  Messages = {m1, m2, m3}
  Window = 2
  MaxFailures = 3
  FirstDelay = 5
  DelayStep = 10
  SlowDelay = 20
  SlowStep = 20
  MaxDelay = 40
  MaxChunk = 2
  MaxRestarts = 1
INVARIANTS HandedOnce NothingLost QuietWhenClosed
PROPERTIES KeepsTrying BackoffGrows
\* A gateway that has stopped may never be started again.
CHECK_DEADLOCK FALSE
