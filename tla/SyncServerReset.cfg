SPECIFICATION MCSpec
CONSTANTS
  laptop = laptop
  desktop = desktop
  Devices = {laptop, desktop}
  Ids = {"bookmark", "password"}
  TypeOf <- MCTypeOf
  FieldsOf <- MCFieldsOf
  Batches <- MCBatches
  Polls <- MCPolls
  MaxBatch = 1
  MaxRequests = 2
  MaxCommits = 2
  MaxClears = 1
  MaxFaults = 1
INVARIANT NothingFromBefore
CHECK_DEADLOCK FALSE
