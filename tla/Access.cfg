CONSTANTS
  Requests = {1, 2}
  Links = {1, 2}
  CaptchaAfter = 3
  MaxFailed = 4
  TriesBound = 14
  MaxActivations = 1
  Conflicts <- AttemptsOverlap
  NULL = NULL
SPECIFICATION FairSpec
INVARIANTS TriesAreBounded LinkUsesAreBounded
PROPERTIES LocksEnd DeactivatedStaysOut
CHECK_DEADLOCK FALSE
