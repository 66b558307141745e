SPECIFICATION FairSpec
CONSTANTS
  Protos <- All
  ConnTimeout = 4
  IdleTimeout = 2
  AuthTimeout = 1
  MaxTime = 12
  LastCancel = 8
INVARIANTS TypeOK DrainBound AnsweredLifetime IdleOnEveryPath
PROPERTIES NegotiationWindow HandlerReturns
