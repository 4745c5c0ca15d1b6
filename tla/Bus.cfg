CONSTANTS
  Parts = {"arq", "lock", "id", "card"}
  NULL = NULL  r1 = r1  r2 = r2  r3 = r3
SPECIFICATION Spec
INVARIANTS ArqSound ChannelLockSound CachedIDMatches CardCommandsSound
PROPERTIES ServedInOrder CompletionIsReal
CHECK_DEADLOCK FALSE
