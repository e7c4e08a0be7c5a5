SPECIFICATION Spec

CONSTANTS
  Exprs = {"p", "e"}
  Given = {"v"}
  AutoNames <- OneName
  MaxIds = 1
  MaxObjects = 2
  Vals = {0, 1}

INVARIANTS
  UpdateMissesNothing
  AssignmentReported

PROPERTIES
  ObjectsKeepTheirVariable
