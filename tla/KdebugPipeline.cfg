SPECIFICATION FairSpec
CONSTANTS
  ChunkWidth = 2
  Signed = 1000
  ExecSegments <- MCSegments
  SlideAlignment = 2
  MaxPerObs = 8
  Dump <- MCDump
  HeaderUnits = 2
  GoodMagic = TRUE
  Images <- MCImages
  Executable <- MCExecutable
  OnDisk = {"exe"}
  InCache = {"plugin"}
  Workloads <- MCWorkloads
  MaxLost = 2
CHECK_DEADLOCK FALSE
INVARIANTS
  WholeWalksEmerge
  LoadsFollowTheDump
  SlideExplainsMost
PROPERTIES
  ImagesCatchUp
