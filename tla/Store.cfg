SPECIFICATION FairSpec
CONSTANTS
  Handlers = {h1, h2}
  Limit = 2
  MaxResults = 3
  MaxSpare = 3
  MaxTime = 2
INVARIANTS TypeOK IndexedIsStored
PROPERTIES ArchiveSpec LockIsGranted
