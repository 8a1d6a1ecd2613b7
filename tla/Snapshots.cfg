\* Two writes, which compete for one camera or rewrite the index for two; one reader.
CONSTANTS
  Cameras = {c1, c2}
  MaxWrites = 2
  Readers = {r1}
  NoRead = NoRead
  NoCamera = NoCamera
SPECIFICATION FairSpec
INVARIANTS MetadataNeverAhead AnnouncedDurable QueueMatchesSchedule
PROPERTIES PublishedAdvances NoCaptureAfterStop WritesFinish ScheduleDrains
