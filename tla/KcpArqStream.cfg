SPECIFICATION Spec
CONSTANTS
  Stream = TRUE
  Mss = 2
  SndWnd = 2
  RcvWnd = 2
  WndRcv = 2
  DeadLink = 1
  Writers = {"a"}
  FrameLens = {1, 2}
  MaxBytes = 3
  MaxNet <- Net21
INVARIANTS
  WriterInv
  ArqInv
PROPERTIES
  ProgressKept
  ImplementsPipe
