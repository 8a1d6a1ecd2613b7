\* Varint digits in base 2, so that sizes of one to four bytes are small; the frame
\* limit is the first that takes four, as 2 MiB is in base 128.  Chunks up to four
\* bytes cut every frame at every place.
SPECIFICATION FairSpec
CONSTANTS
  Digits = 2
  Frames <- MCFrames
  MinVersion = 2
  Versions = {1, 2}
  Malformed <- MCMalformed
  MaxFrameBytes = 8
  MaxBufferBytes = 16
  MaxChunk = 4
  MaxFrames = 3
  MaxConnections = 2
INVARIANTS EndsForAReason
PROPERTIES DeliversFrames
\* Firebase may have nothing more to send.
CHECK_DEADLOCK FALSE
