SPECIFICATION RemovedSpec
CONSTANTS
  ads = ads
  news = news
  Urls = {ads, news}
  NoUrl = NoUrl
  MaxLists = 2
  Texts = {"none", "rules"}
  NoRules = "none"
  MaxInputs = 4
  MaxExits = 0
INVARIANT NothingLeftBehind
SYMMETRY Interchangeable
CHECK_DEADLOCK FALSE
