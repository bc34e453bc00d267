SPECIFICATION Spec
CONSTANTS
  Invoice = {i1, i2}
  NoInvoice = NoInvoice
  Proc = {p1, p2}
  Offsets = {2, 4}
  Ttl = 2
  Skew = 1
  MinValidity = 1
  Costs = {1, 2}
  DailyLimit = 2
  DayLength = 2
  MaxClock = 4
  UsesPaymaster = FALSE
  AckQuiet = FALSE
SYMMETRY MCSymmetry
INVARIANTS TypeOK SentOnce SpendWithinLimit SentIsJournaled
