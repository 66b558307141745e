SPECIFICATION Spec
CONSTANTS
  a1 = a1
  a2 = a2
  a3 = a3
  b1 = b1
  A = A
  B = B
  s1 = s1
  IPs <- MCIPs
  ipOf <- MCIpOf
  Conns <- MCSmallConns
  MaxConns = 2
  PerIP = 1
  Stoppers = {s1}
INVARIANT StopMeansStopped
CHECK_DEADLOCK FALSE
