SPECIFICATION Spec
CONSTANTS
  Protos <- All
  ConnTimeout = 4
  IdleTimeout = 2
  AuthTimeout = 1
  MaxTime = 12
  LastCancel = 8
INVARIANT LifetimeBound
