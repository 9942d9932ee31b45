SPECIFICATION Spec
CONSTANTS
  Answers <- LogsOfAllKinds
  Ceilings = {24, 32}
  Selections <- SelectionsOfAllKinds
  MaxReply = 26
  MaxJson = 24
  DefaultWindow = 12
  DefaultRows = 3
  DefaultContext = 1
  MaxNeedle = 3
  MaxFields = 2
  ReplyOverhead = 4
  MaxPreview = 5
  SummaryOverhead = 6
  LinkCost = 2
  Absent = Absent
CHECK_DEADLOCK FALSE
INVARIANT FileRestored
