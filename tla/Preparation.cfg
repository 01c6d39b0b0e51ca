SPECIFICATION Spec
CONSTANTS
  BlockKinds <- ReportBlocks
  ActiveRules <- ReportRules
  TenThousandWords = {"ten_thousand", "B"}
  YuanWords = {"yuan"}
  MaxBlocks = 5
INVARIANTS
  NoRowLost
  OnlyContinuationsJoined
  ContinuationsJoined
  TocCoversBlocks
  SectionsFound
  OutcomesExpected
  RulesShareNoTable
  UnitAboveIsFound
CHECK_DEADLOCK FALSE
