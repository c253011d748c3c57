\* a table of two for three devices, two lives of two merges, one lost connection or reload
CONSTANTS
  a = a
  b = b
  c = c
  Devices <- MCDevices
  Windows <- MCWindows
  Capacity = 2
  MaxMerges = 2
  MaxBoots = 2
  MaxFaults = 1
SPECIFICATION FairSpec
INVARIANTS TypeOK CursorHonest OneLife
PROPERTIES EntryShown
