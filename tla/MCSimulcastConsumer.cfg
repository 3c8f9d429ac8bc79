CONSTANTS
  SeqMod = 16
  MaxDropout = 5
  MaxMisorder = 4
  TsMod = 64
  FrameTs = 3
  MaxExtra = 6
  MaxSequenceNumberGap = 3
  FirstSeq <- MCFirstSeq
  FirstTs <- MCFirstTs
  Plans <- MCPlans
SPECIFICATION Spec
INVARIANTS SwitchNeedsReports SwitchIsAwaited TargetIsBest OutputsOnce
PROPERTIES TimeGoesForward
CHECK_DEADLOCK FALSE
