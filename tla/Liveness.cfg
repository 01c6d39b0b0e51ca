SPECIFICATION FairSpec
CONSTANTS
  u1 = u1
  u2 = u2
  u3 = u3
  docA = docA
  docB = docB
  Absent = Absent
  Uploads = {u1, u2}
  Fingerprint <- TwoDocuments
  Rules = {1, 2}
  Parsers = {p1}
  Extractors = {x1}
  Fixes = {v1}
  Retriggers = {}
  Faults = {"storage", "engine", "llm"}
  ReextractPollBlocks = FALSE
  ReextractConfigured = FALSE
INVARIANTS
  QueuedMeansDispatched
  ReviewStatusHonest
PROPERTIES
  EveryUploadIsAnswered
  EveryTaskIsSettled
CHECK_DEADLOCK FALSE
