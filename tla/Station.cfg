\* A write and the poll, which comes again and again, queue for one HomeBase whose
\* mode or siren changes once; a refresh request is a poll that comes once.
CONSTANTS
  Writes = {w1}
  Refreshes = {}
  Poll = Poll
  NoOp = NoOp
  Cameras = {c1}
  Modes = {away, home}
  NoMode = NoMode
  MaxChanges = 1
SPECIFICATION FairSpec
INVARIANTS OneSession AlarmFollowsPushes ClosedIsQuiet
PROPERTIES TakesTurns ConfirmedIsReal OperationsSettle SettingRecovers
\* The provider stops for good once it is closed.
CHECK_DEADLOCK FALSE
