\* A client asks for a table twice, as a double click in the lobby does.
CONSTANTS
  Nobody = Nobody
  Sessions = {s1, s2}
  Stakes = {b1}
  Chairs = 1
  SendCap = 1
  QueueCap = 1
  MaxTables = 2
  MaxLogins = 1
  Options = {"resit"}
SPECIFICATION Spec
INVARIANTS RemovedFromAnyTable
CHECK_DEADLOCK FALSE
