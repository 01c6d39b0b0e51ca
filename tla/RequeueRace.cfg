SPECIFICATION Spec
CONSTANTS
  u1 = u1
  u2 = u2
  u3 = u3
  docA = docA
  docB = docB
  Absent = Absent
  Uploads = {u1, u2}
  Fingerprint <- SameDocument
  Rules = {1, 2}
  Parsers = {p1}
  Extractors = {x1}
  Fixes = {}
  Retriggers = {}
  Faults = {"storage"}
  ReextractPollBlocks = FALSE
  ReextractConfigured = FALSE
INVARIANTS
  QueuedMeansDispatched
CHECK_DEADLOCK FALSE
