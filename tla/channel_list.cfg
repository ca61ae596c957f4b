CONSTANTS
  ChannelIds = {1, 2, 3}
  MaxHandles = 5

SPECIFICATION ListSpec

INVARIANT ListTypeOK
INVARIANT ListAsLinked
INVARIANT CloseFinds
PROPERTY CallsEnd
