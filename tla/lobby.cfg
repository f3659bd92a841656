\* Two polite clients, two tables of one chair, channels and queues that are full at once.
CONSTANTS
  Nobody = Nobody
  Sessions = {s1, s2}
  Stakes = {b1}
  Chairs = 1
  SendCap = 1
  QueueCap = 1
  MaxTables = 2
  MaxLogins = 1
  Options = {}
SPECIFICATION FairSpec
INVARIANTS TypeOK NoGhosts OneChair
PROPERTIES RefusedByRivals NobodyWaits
CHECK_DEADLOCK FALSE
