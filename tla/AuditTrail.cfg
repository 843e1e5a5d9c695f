SPECIFICATION FairAuditSpec
CONSTANTS
  Writers = {w1}
  Recorders = {r1}
  Server = server
  Exporters = {e1}
  Nil = Nil
  Kinds = {"enroll", "activate"}
  Limits = {1, 2}
  MaxIds = 3
  MaxDisruptions = 2
INVARIANTS
  ChainIsLinked
  AckedIsKept
  ExportedOnce
PROPERTY
  AckedIsReconciled
CHECK_DEADLOCK FALSE
