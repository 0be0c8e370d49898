SPECIFICATION MCFairSpec
CONSTANTS
  Subjects = {"request", "engines", "scam", "assistance", "summary"}
  MaxChanges = 2
  MainLists = {"filters", "ubo"}
  Optional = {"cookies", "regional"}
  MaxWrites = 1
  MaxFaults = 1
  MaxPosts = 3
  ScamJobs = {"first", "later"}
  MaxScamWrites = 2
  MaxScamFaults = 1
  MaxRequests = 2
  MaxMoves = 1
  Tabs = {"t1", "t2"}
  Providers = {"gemini"}
  MaxHolds = 2
INVARIANTS
  TypeOK
  SentWasAllowed
  WishIsHeard
  AnswersFit
PROPERTIES
  DeferredEnds
  ListsComeCurrent
CHECK_DEADLOCK FALSE
