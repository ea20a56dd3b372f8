\* As RestoreSwap.cfg, but what may fail is removing restore-old/{id}.
SPECIFICATION Spec
CONSTANTS
  BackupId = {b1}
  NoId = NoId
  MaxLibrary = 3
  MaxFaults = 1
  Settings <- MCResidue
INVARIANT NeverAMixture
