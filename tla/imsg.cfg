SPECIFICATION FairImsgSpec
CONSTANTS
  HeaderSize = 2
  MaxSize = 4
  BufSize = 5
  Room = 4
  DataLen <- MCDataLen
  Failures = {"nobufs", "nofds"}
  MaxCalls = 3
INVARIANTS ImsgTypeOK Framed RoomToRead OneAnswer
PROPERTIES ImplementsChannels CallsReturn RequestsTaken
CHECK_DEADLOCK FALSE
