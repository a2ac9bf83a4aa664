\* the three clients, good and bad frames, a stream that is cut anywhere
SPECIFICATION FairSpec
CONSTANTS
  HeaderSize = 2
  Lengths = {0, 3}
  MaxFrames = 3
INVARIANTS NothingPassesCorruption NoWholeFrameWaits NoSilentLoss
PROPERTIES ChannelSpec EveryFrameArrives
CHECK_DEADLOCK FALSE
