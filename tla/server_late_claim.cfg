SPECIFICATION Spec
CONSTANTS
  h1 = h1  h1x = h1x  h2 = h2  t1 = t1  t2 = t2
  i1 = i1  i2 = i2  w1 = w1  w2 = w2
  Hash = {h1, h1x, h2}
  NoHash = NoHash
  NoLease = NoLease
  Worker = {w1, w2}
  Invoice = {i1, i2}
  NoInvoice = NoInvoice
  Tx = {t1, t2}
  NoTx = NoTx
  FeltOf <- MCFeltOf
  GoodTx = {t1, t2}
  Ttl = 1
  LeaseTerm = 0
  MaxOutstanding = 1
  MaxClock = 2
  Prompt = FALSE
SYMMETRY MCSymmetry
INVARIANT ClaimKeepsRow


