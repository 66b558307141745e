SPECIFICATION FairSpec
CONSTANTS
  a1 = a1
  a2 = a2
  a3 = a3
  b1 = b1
  A = A
  B = B
  s1 = s1
  IPs <- MCIPs
  ipOf <- MCIpOf
  Conns <- MCConns
  MaxConns = 3
  PerIP = 2
  Stoppers = {s1}
INVARIANTS TypeOK AccountsExact Drained
PROPERTIES NoRetryOnClosed ImplementsLimiter ShutdownCompletes
