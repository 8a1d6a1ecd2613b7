\* Two submissions that may overlap, two accounts to change between, and one
\* restart at any point; two logins and two CAPTCHA images bound the cloud.
SPECIFICATION FairSpec
CONSTANTS
  Start = Start
  Submissions = {s1, s2}
  NoCaller = NoCaller
  Accounts = {a, b}
  MaxLogins = 2
  MaxChallenges = 2
  MaxRestarts = 1
INVARIANTS ConnectedHasReceiver
PROPERTIES CodeUsesItsToken ResumesWithoutLogin AnswerMatchesImage CallersFinish
\* A gateway whose startup failed waits for its user for ever.
CHECK_DEADLOCK FALSE
