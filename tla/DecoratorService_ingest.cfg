CONSTANTS
  Absent = Absent
  None = Absent
  Calls <- MCCalls
  Of <- MCOf
  Schemas <- MCSchemas
  PoolSize = 2
  Others = 0
  MaxFaults = 1
SPECIFICATION FairSpec
CHECK_DEADLOCK FALSE
INVARIANTS TypeOK CountersFollowCalls AuditTrail RegistrationsBounded RefusedOnlyOnOverlap
PROPERTIES SentIsServed
