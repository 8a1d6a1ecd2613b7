\* Two channels whose datagrams cross the wrap of the sequence numbers, each
\* repeated at most once.
SPECIFICATION FairSpec
CONSTANTS
  Types = {"data", "video"}
  First <- MCFirst
  Ends <- MCEnds
  Size <- MCSize
  MaxFrameSize = 8
  MaxRepeats = 1
PROPERTIES NoPartMissing StartSettles MediaStarts
\* A session stops for good once it is closed.
CHECK_DEADLOCK FALSE
