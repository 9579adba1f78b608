SPECIFICATION Spec
CONSTANTS
  cpu0 = cpu0
  cpu1 = cpu1
  CPUs = {cpu0, cpu1}
  MaxKeys = 4
  dir1 = dir1
  dir2 = dir2
  Mounts = {dir1, dir2}
INVARIANTS
  OnlyLateKeysOutlive
  CacheOutlivesObjects
PROPERTIES
  HandledKeysRun
