SPECIFICATION MCSpec
CONSTANTS
  Procs = {p1, p2}
  Owners = {o1, o2}
  Leases = {0, 1}
  Waits = {1}
  MaxTime = 2
  MaxStarts = 3
  NoOwner = NoOwner
  NoProc = NoProc
  b1 = b1
  b2 = b2
  stack = stack
  side = side
  plain = plain
  sub = sub
  added = added
  icon = icon
  brand = brand
  Files = {stack, side, plain, sub, added, icon, brand}
  Places <- MCPlaces
  Branches = {b1, b2}
  Original <- MCOriginal
  Series <- MCSeries
  Overlay <- MCOverlay
  Branded = {brand}
  StringFiles = {brand}
  Substituted = {sub}
  Listed = {sub}
  Sights = {{}, {b1, b2}}
  FirstStore = {side}
  MaxSeries = 4
  MaxRuns = 4
  Torn = "torn"
  Renamed = "renamed"
  NoBranch = NoBranch
  Tests = {t1, t2, t3}
  MaxKeepers = 3
  NoTest = NoTest
INVARIANTS
  TypeOK
  ClaimHolds
  BuildsOneBranch
  RestoreUndoes
  ForegroundComesFree
PROPERTIES
  ImplementsClaim
  TreeComesFree
CHECK_DEADLOCK FALSE
