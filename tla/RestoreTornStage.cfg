\* A preview, and another that fails to remove it; nothing fails silently.
SPECIFICATION Spec
CONSTANTS
  BackupId = {b1}
  NoId = NoId
  MaxLibrary = 3
  MaxFaults = 1
  Settings <- MCClean
INVARIANT ShownIsStaged
