SPECIFICATION CliSpec
CONSTANTS
  Users = {u1, u2}
  Reqs = {r1, r2}
  MaxTokens = 2
  NoUser = NoUser
INVARIANTS CliTypeOK OneRefresh SentAtMostTwice
PROPERTIES SignInIsAsked EveryRequestSettles
CHECK_DEADLOCK FALSE
