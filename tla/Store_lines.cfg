SPECIFICATION Spec
CONSTANTS
  s1 = s1
  s2 = s2
  Free = Free
  Sessions = {s1, s2}
  MaxEvents = 1
  MaxRuns = 2
  Webhook = FALSE
INVARIANT OneObjectPerLine
