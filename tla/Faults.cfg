SPECIFICATION Spec
CONSTANTS
  u1 = u1
  u2 = u2
  u3 = u3
  docA = docA
  docB = docB
  Absent = Absent
  Uploads = {u1, u2}
  Fingerprint <- SameDocument
  Rules = {1, 2}
  Parsers = {p1}
  Extractors = {x1}
  Fixes = {}
  Retriggers = {}
  Faults = {"database", "storage", "queue", "engine", "llm", "crash"}
  ReextractPollBlocks = FALSE
  ReextractConfigured = FALSE
INVARIANTS
  TypeOK
  SameDocumentSameTask
  ClaimCheck
  ExtractionIsAtomic
PROPERTIES
  ImplementsRegistry
CHECK_DEADLOCK FALSE
