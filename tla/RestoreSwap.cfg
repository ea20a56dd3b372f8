\* One backup, restored up to twice, in two settings: in the first the clean-up
\* of the staging folder and of the marker may fail; in the second every
\* best-effort step may, restore.lock may be busy, and the staging folder may
\* vanish at any time the program does not run.
SPECIFICATION FairSpec
CONSTANTS
  BackupId = {b1}
  NoId = NoId
  MaxLibrary = 4
  MaxFaults = 3
  Settings <- MCSettings
INVARIANTS WholeLibrary SessionDataKept ArmedPackageKept
PROPERTIES RestoreIsAtomic StartsWindDown StartsConverge
