SPECIFICATION Spec
CONSTANTS
  Thread = {t1, t2}
  Type = {T, U}
  Attr = {a, b}
  Op = {"create", "append", "patch", "patchAttr", "delete", "deleteAttr", "batchCreate", "batchUpdate", "upsert", "batchDelete", "v2create", "v2upsert", "v2append", "v2update", "v2replace", "v2delete"}
  ReqMutex = TRUE
  MaxRequests = 2
  MaxFaults = 1
  AnyType = AnyType
SYMMETRY Symmetry
INVARIANTS
  TypeOK
  NamesAgree
  AcknowledgedIsDone
  CreatedOnce
PROPERTIES
  
  OnlyCreatorsCreate
CHECK_DEADLOCK FALSE
