\* As Ppcs.cfg.
SPECIFICATION Spec
CONSTANTS
  Types = {"data", "video"}
  First <- MCFirst
  Ends <- MCEnds
  Size <- MCSize
  MaxFrameSize = 8
  MaxRepeats = 1
INVARIANTS ArrivedIsHanded
CHECK_DEADLOCK FALSE
