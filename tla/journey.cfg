SPECIFICATION JourneyFairSpec
CONSTANTS
  t1 = t1
  Hash = {h1}
  NoHash = NoHash
  NoLease = NoLease
  Worker = {w1, w2}
  Invoice = {i1}
  NoInvoice = NoInvoice
  Tx = {t1}
  NoTx = NoTx
  FeltOf <- MCFeltOf
  GoodTx = {t1}
  Ttl = 3
  LeaseTerm = 0
  MaxOutstanding = 1
  MaxClock = 5
  Prompt = FALSE
  MinValidity = 2
  Skew = 1
  Offset <- MCOffset
  SubmitMax = 0
  WaitMax = 1
INVARIANTS JourneyTypeOK LostOnlyIfUpset NeverTooLate
PROPERTIES SessionPromise BoundEventuallyServed
CHECK_DEADLOCK FALSE
