SPECIFICATION Spec
CONSTANTS
  main = main
  u = u
  tag = tag
  old = old
  full = full
  c1 = c1
  c2 = c2
  None = None
  Order <- SourceAndTarget
  Urls = {u}
  Refs = {tag, full, old, main}
  Commits = {c1, c2}
  Floating = {main}
  FullCommits = {full}
  Served <- OfOrigin
  Cached <- OfBaseline
  Owned <- Own
  LocalRoles = {"target"}
  Portable = {c1}
  MaxTurns = 3
  MaxFaults = 1
  MaxCrashes = 1
  MaxActs = 1
INVARIANTS TypeOK LockedIsWhole PublicRevision
PROPERTIES PaidForCause DownloadKept
CHECK_DEADLOCK FALSE
