SPECIFICATION Spec
CONSTANTS
  BlockKinds <- ReportBlocks
  ActiveRules <- ReportRules
  TenThousandWords = {"ten_thousand", "B"}
  YuanWords = {"yuan"}
  MaxBlocks = 5
INVARIANT RuleFindsItsSection
CHECK_DEADLOCK FALSE
