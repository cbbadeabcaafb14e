SPECIFICATION FairSpec
CONSTANTS
  RetryTableSize = 2
  RetryMax = 2
  RetryTimeout = 1
  ClockMod = 20
  PktIdMod = 12
  MaxLag = 1
  MaxCtr = 11
INVARIANTS
  CountExact
  IdsDistinct
  DueExact
PROPERTIES
  GivesUpOnSchedule
  EntryLeaves
