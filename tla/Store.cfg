SPECIFICATION FairSpec
CONSTANTS
  s1 = s1
  s2 = s2
  Free = Free
  Sessions = {s1, s2}
  MaxEvents = 2
  MaxRuns = 2
  Webhook = TRUE
INVARIANTS TypeOK HoldersExact DamageBounded CutOnlyByFault
PROPERTIES ImplementsEventLog LogReturns
