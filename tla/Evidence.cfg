SPECIFICATION Spec
CONSTANTS
  manual = manual
  mirror = mirror
  alias = alias
  lost = lost
  maker = maker
  library = library
  other = other
  d1 = d1
  d2 = d2
  entry = entry
  blank = blank
  doc = doc
  None = None
  Urls = {manual, mirror, alias, lost}
  Hosts = {maker, library, other}
  Digests = {d1, d2}
  Paths = {entry, blank, doc}
  Names = {"driver_entry", "device_manual", "source_tests", "lifecycle", "device_model",
           "runtime_documentation"}
  HostOf <- Host
  Pages <- Possible
  FirstWeb <- Web
  Tracked <- TrackedFiles
  Empty = {blank}
  EntryFiles = {entry, blank}
  Answers <- Submitted
  MaxTurns = 2
  MaxFaults = 1
  MaxCrashes = 1
  MaxActs = 2
INVARIANTS TypeOK DownloadedOnce IndependentCopies
CHECK_DEADLOCK FALSE
