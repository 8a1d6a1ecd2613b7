\* One camera with a motion flag, one HomeBase that changes once, two events on
\* their way and one restart.
CONSTANTS
  Cameras = {c1}
  Stations = {s1}
  Doorbells = {}
  Kinds = {"motion"}
  DetectionHold = 1
  PersonPrecedence = 1
  MaxRevisions <- MCRevisions
  MaxEvents = 2
  MaxRestarts = 1
SPECIFICATION FairSpec
INVARIANTS RaisedWhileHeld
PROPERTIES HeldInFull Converges
\* A gateway that has shut down may never be started again.
CHECK_DEADLOCK FALSE
