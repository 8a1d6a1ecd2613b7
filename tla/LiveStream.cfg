\* One viewer, a startup capture and a recording: enough for every pair of
\* consumers of different kinds; two sessions give one open and one stale.
CONSTANTS
  Viewers = {v1}
  Captures = {c1}
  Startups = {c1}
  Recordings = {r1}
  Sessions = {s1, s2}
  None = None
SPECIFICATION FairSpec
INVARIANTS IdleTimerSafe LeasesCounted OneOpenSession SourceIsCurrent
PROPERTIES NoDuplicateSession TasksFinish SourceDetaches ShutdownClosesCamera
\* The program stops for good once the gateway has shut down.
CHECK_DEADLOCK FALSE
