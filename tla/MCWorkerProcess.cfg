SPECIFICATION FairProcessSpec
CONSTANTS
  Loops = {processor1, processor2, recovery}
INVARIANTS
  ProcessTypeOK
  NothingClosedUnderALoop
  EverythingIsClosed
  SuccessMeansSignal
  OnlyFailuresAreErrors
  IdleMeansQuiet
PROPERTIES
  FailureIsReported
  SignalEndsTheProcess
