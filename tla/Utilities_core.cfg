SPECIFICATION FairSpec
CONSTANTS
  Thread = {t1, t2, t3, t4}
  Waiter = {w1, w2}
  TimedWaits = TRUE
  MaxSpurious = 1
  Resets = TRUE
  MaxSets = 2
  MaxReturns = 3
  User = {u1, u2, u3}
  Ids = 2
  SetEvents = TRUE
  PurgeShared = FALSE
  MaxMessages = 3
  UsPerMs = 2
  MsPerSec = 4
  MinFreq = 2
  Freq = 5
  Width = 16
  MaxNow = 24
INVARIANTS
  NoLostWakeup  OncePerThread IdsInTurn IdlesWhenDue
PROPERTIES
  Progress ImplementsReadersWriter ImplementsFifo
CHECK_DEADLOCK FALSE
