SPECIFICATION FairSpec
CONSTANTS
  u1 = u1
  u2 = u2
  u3 = u3
  docA = docA
  docB = docB
  Absent = Absent
  Uploads = {u1}
  Fingerprint <- OneUpload
  Rules = {1, 2}
  Parsers = {p1}
  Extractors = {x1}
  Fixes = {}
  Retriggers = {}
  Faults = {}
  ReextractPollBlocks = TRUE
  ReextractConfigured = FALSE
PROPERTIES
  EveryTaskIsSettled
CHECK_DEADLOCK FALSE
