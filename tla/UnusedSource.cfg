\* Three sessions: the superseded one, the one in its place, and one to spare.
CONSTANTS
  Viewers = {v1, v2}
  Captures = {c1}
  Startups = {}
  Recordings = {}
  Sessions = {s1, s2, s3}
  None = None
SPECIFICATION Spec
SYMMETRY Symmetry
INVARIANT UnusedSourceIsReleased
CHECK_DEADLOCK FALSE
