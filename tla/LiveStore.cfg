SPECIFICATION Spec
CONSTANTS
  Threads = {t1, t2}
  Images <- MCImages
  SharedCache <- MCShared
  Kernel <- MCKernel
  OnDisk <- MCOnDisk
  Readable = {20, 21}
  ByteSource = {30, 31}
  WaitTable <- MCWaits
  Stacks <- MCStacks
  Filters <- MCFilters
  Delays = {0, 2}
  MaxEventsPerThread = 2
  TargetBuckets = 3
  MinBucket = 1
  PruneShare = 2
  EntryCap = 3
  MaxChanges = 4
SYMMETRY ThreadSymmetry
CHECK_DEADLOCK FALSE
INVARIANTS
  CreditIsSampledTime
  FlameShowsStacks
  ViewsAgree
  LookupNamesTheImage
