SPECIFICATION Spec
CONSTANTS
  Declarations <- Declared
  MaxRuns = 2
  MaxMeddling = 2
  NoTarget = NoTarget
CHECK_DEADLOCK FALSE
INVARIANT CompensationsOwn
INVARIANT CreationsAccounted
INVARIANT ReportTruthful
INVARIANT Converged
 
