SPECIFICATION MCSpec
CONSTANTS
  ads = ads
  news = news
  Urls = {ads, news}
  NoUrl = NoUrl
  MaxLists = 2
  Texts = {"none", "rules"}
  NoRules = "none"
  MaxInputs = 4
  MaxExits = 1
INVARIANTS TypeOK PendingIsQueuedOrRunning CopyIsTheOneNoted EngineIsCurrent
PROPERTIES EveryDownloadEnds
CHECK_DEADLOCK FALSE
