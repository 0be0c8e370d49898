SPECIFICATION MCSpec
CONSTANTS
  Subjects = {"summary"}
  MaxChanges = 2
  MainLists = {"filters", "ubo"}
  Optional = {"cookies", "regional"}
  MaxWrites = 1
  MaxFaults = 1
  MaxPosts = 3
  ScamJobs = {"first", "later"}
  MaxScamWrites = 2
  MaxScamFaults = 1
  MaxRequests = 2
  MaxMoves = 1
  Tabs = {"t1", "t2"}
  Providers = {"gemini"}
  MaxHolds = 2
INVARIANTS
  SentWhereShown
CHECK_DEADLOCK FALSE
