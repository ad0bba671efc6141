SPECIFICATION ConsoleSpec
CONSTANTS
  Capacity = 2
  Limit = 1
  Prompt = 2
  Replies = {2}
  Usages = {0, 3}
  MaxArrivals = 3
  MaxAttempts = 2
  MaxEvents = 1
  LogCapacity = 2
  Levels = {1, 2}
  MaxLines = 3
  MaxPolls = 3
  MaxUnderWay = 2
  MaxRestarts = 1
INVARIANTS
  FeedTypeOK
  NewestKeepBodies
  TokensAreReportedOrCounted
  NothingMissed
  NoRepeats
CHECK_DEADLOCK FALSE
