SPECIFICATION FairSpec
CONSTANTS
  Invoice = {i1, i2}
  NoInvoice = NoInvoice
  Proc = {p1, p2}
  Offsets = {2}
  Ttl = 2
  Skew = 1
  MinValidity = 1
  Costs = {1}
  DailyLimit = 2
  DayLength = 2
  MaxClock = 4
  UsesPaymaster = TRUE
  AckQuiet = TRUE
INVARIANTS ClearedNeverSent RetryResumesPayment
PROPERTIES SessionPromise PaidEventuallyPresented
