SPECIFICATION FairSpec
CONSTANTS
  Stream = TRUE
  Mss = 1
  SndWnd = 2
  RcvWnd = 2
  WndRcv = 2
  DeadLink = 1
  Writers = {"a"}
  FrameLens = {1}
  MaxBytes = 3
  MaxNet <- Net11
PROPERTIES
  EventuallyRead
  EventuallyAcked
