SPECIFICATION FairSpec
CONSTANTS
  ChanSize = 1
  Settings <- BusyOrEnding
  MaxOpens <- TwoByClient
  MaxInFlight = 1
CHECK_DEADLOCK FALSE
PROPERTIES
  OpenAnswered
  ChannelForgotten
  SessionEnds
