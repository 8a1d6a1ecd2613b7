\* As Ppcs.cfg.
SPECIFICATION Spec
CONSTANTS
  Types = {"data", "video"}
  First <- MCFirst
  Ends <- MCEnds
  Size <- MCSize
  MaxFrameSize = 8
  MaxRepeats = 1
INVARIANTS ClosedIsUnused
CHECK_DEADLOCK FALSE
