SPECIFICATION Spec
CONSTANTS
  Stream = TRUE
  Mss = 2
  SndWnd = 2
  RcvWnd = 2
  WndRcv = 2
  DeadLink = 1
  Writers = {"a"}
  FrameLens = {1, 4}
  MaxBytes = 6
  MaxNet <- Net11
INVARIANTS
  InOrderDelivery
