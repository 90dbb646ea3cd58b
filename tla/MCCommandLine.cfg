\* Two processes that may overlap, with every kind of fault.
SPECIFICATION LineSpec
CONSTANTS
  Procs = {p1, p2}
  NoFile = NoFile
  Faults = {"crash", "crash-in-tar", "network", "bad-archive", "tar-fails", "unlink-fails",
            "overlap", "rewrite"}
  Runs = {p1, p2}
  Argvs <- MCArgvs
  Found <- MCFound
INVARIANTS
  PartialOnlyAfterTar
  
  ArchiveRemoved
  EntriesKept
  InstalledStays
PROPERTY
  CommandsEnd
CHECK_DEADLOCK FALSE
