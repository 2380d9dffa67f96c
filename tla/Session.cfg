CONSTANTS
  Tokens = {1, 2, 3}
  Calls = {c1}
  c1 = c1
  Logout = Logout
  TokenLife = 2
  RefreshThreshold = 1
  Inactivity = 2
  Warning = 1
  NULL = NULL
SPECIFICATION FairSpec
INVARIANTS SessionIsTimed
PROPERTIES IdleSessionsEnd LogoutCompletes DeactivatedLosesSession
