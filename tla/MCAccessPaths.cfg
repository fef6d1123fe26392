\* The proxy stops, and calls and logins are served: the system may stop.
CHECK_DEADLOCK FALSE
SPECIFICATION Spec
CONSTANTS
  Callers = {w1, w2}
  Accounts <- MCAccounts
  Calls <- MCCalls
  FirstRoles <- MCFirstRoles
  NoEntry = NoEntry
  Conns = {"c1", "c2", "c3"}
  MaxPendingConns = 2
  Sessions = {"s1", "s2", "s3", "s4"}
  GrantOf <- MCGrantOf
  DeviceOf <- MCDeviceOf
  Grants = {"g1", "g2"}
  Logins = {"l1", "l2", "l3"}
  Via <- MCVia
  DeviceIDs = {"d1"}
  NoDevice = NoDevice
  Exchanges = {"x1", "x2"}
INVARIANTS
  TypeOK
  PendingIsHeld
  RevocationFindsSession
  AdmittedIsRegistered
  RedeemedOnce
  VerdictIsTheApprovers
  ServedBehindFilters
PROPERTIES
  PermittedByHeldRole
  RemovalTakesEffect
  OnlyBackendHoldsSwept
  DoReturns
