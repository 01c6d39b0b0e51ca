SPECIFICATION Spec
CONSTANTS
  u1 = u1
  u2 = u2
  u3 = u3
  docA = docA
  docB = docB
  Absent = Absent
  Uploads = {u1, u2, u3}
  Fingerprint <- Resubmitted
  Rules = {1, 2}
  Parsers = {}
  Extractors = {}
  Fixes = {}
  Retriggers = {}
  Faults = {"storage", "queue"}
  ReextractPollBlocks = FALSE
  ReextractConfigured = FALSE
INVARIANTS
  QueuedMeansDispatched
CHECK_DEADLOCK FALSE
