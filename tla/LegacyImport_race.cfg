SPECIFICATION Spec
CONSTANTS
  r1 = r1
  r2 = r2
  entity = entity
  reference = reference
  Rows <- TwoRows
  Users = {u, v}
  Entities = {entity}
  EntityOf <- OneEntity
  ReferenceOf <- Siblings
  None = None
  MaxRequests = 3
PROPERTIES ApprovedRowsStay
CHECK_DEADLOCK FALSE
