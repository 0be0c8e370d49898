SPECIFICATION MCSpec
CONSTANTS
  Subjects = {"directives", "feeds", "publisher", "release"}
  MaxLines = 6
  Whole = {"ubo"}
  Regional = {"deu"}
  MaxFeedRuns = 4
  NoFile = NoFile
  Cut = Cut
  EasySizes = {3}
  UboSizes = {3, 4, 5}
  EasyFloor = 4
  UboFloor = 3
  Fragile = {"easylist", "ubo"}
  MaxVersion = 2
  MaxPubs = 2
  NoAsset = NoAsset
  Bad = Bad
  Owners = {"release", "other"}
  NoOwner = "nobody"
  Parts = {"chrome", "adblock"}
  Sources = {"job", "others"}
  JobSource = "job"
  Version <- MCVersion
  UpdateKey <- MCUpdateKey
  JobTime = 2
  MaxClock = 2
  MaxJobs = 1
  NoDraft = NoDraft
INVARIANTS
  TypeOK
  PrunedAsUbo
  SourcesDescribeLists
  PublishedIsWhole
  DraftIsOneBuild
PROPERTIES
  StepsAreSmall
CHECK_DEADLOCK FALSE
