SPECIFICATION Spec
CONSTANTS
  u1 = u1
  u2 = u2
  u3 = u3
  docA = docA
  docB = docB
  Absent = Absent
  Uploads = {u1}
  Fingerprint <- OneUpload
  Rules = {1, 2}
  Parsers = {p1}
  Extractors = {x1}
  Fixes = {v1}
  Retriggers = {q1}
  Faults = {"database", "storage", "queue", "engine", "llm", "crash"}
  ReextractPollBlocks = FALSE
  ReextractConfigured = TRUE
PROPERTIES
  OnlySelectedRowsChange
CHECK_DEADLOCK FALSE
