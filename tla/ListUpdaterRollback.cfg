SPECIFICATION MCSpec
CONSTANTS
  old = old
  new = new
  none = none
  Names = {"easylist.txt", "scamlist.txt", "resources.json"}
  Targets = {"easylist.txt", "scamlist.txt"}
  Aged = {"easylist.txt", "scamlist.txt"}
  Resources = "resources.json"
  Contents = {old, new}
  NoFile = none
  Bundle <- MCBundle
  FreshEnough = 1
  CheckInterval = 1
  MaxDay = 2
  MaxChecks = 3
INVARIANT NeverWalksBack
CHECK_DEADLOCK FALSE
