SPECIFICATION Spec
CONSTANTS
  Stream = FALSE
  Mss = 1
  SndWnd = 2
  RcvWnd = 3
  WndRcv = 3
  DeadLink = 1
  Writers = {"a"}
  FrameLens = {1, 2, 4}
  MaxBytes = 4
  MaxNet <- Net12
INVARIANTS
  TypeOK
  AckedIsStored
  InOrderDelivery
  FramesPreserved
  FullQueueReadable
  BuffersBounded
