\* As Feed.cfg, with one event on its way and no restart.
CONSTANTS
  Cameras = {c1}
  Stations = {s1}
  Doorbells = {}
  Kinds = {"motion"}
  DetectionHold = 1
  PersonPrecedence = 1
  MaxRevisions <- MCRevisions
  MaxEvents = 1
  MaxRestarts = 0
SPECIFICATION FairSpec
PROPERTY ShutdownCompletes
CHECK_DEADLOCK FALSE
