SPECIFICATION FairSpec
CONSTANTS
  QueueSize = 2
  MaxChunks = 4
  MaxConfigs = 1
  MaxUnread = 1
INVARIANTS
  TypeOK
  BacklogIsFreshest
  LanguageNeverReverts
PROPERTIES
  ImplementsSubtitles
  EveryChunkSettles
  SessionEnds
CHECK_DEADLOCK FALSE
