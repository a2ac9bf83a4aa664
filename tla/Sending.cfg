\* All three clients, with a ping task in Rust; bytes have 8 values, so that a
\* topic of 65 bytes does not fit its length field
SPECIFICATION FairSendSpec
CONSTANTS
  Threads = {main, pinger}
  Main = main
  Pinger = pinger
  Millisecond = 1000
  SetBackFor = {"ts"}
  MaxIds = 3
  MaxClock = 1
  Base = 8
  Capacity = 1
  Subscribed = {2}
  Published = {1, 65}
INVARIANTS UniqueIds RealTimeOrder PeerGetsWhatWasAccepted PublishedIsRead
PROPERTIES CallsReturn ArrivesUnlessLost
CHECK_DEADLOCK FALSE
