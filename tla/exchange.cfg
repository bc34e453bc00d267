SPECIFICATION FairSpec
CONSTANTS
  Invoice = {i1, i2}
  NoInvoice = NoInvoice
  ServerKey = {s1, s2}
  ClientKey = {c1}
  Payer = {p1, p2}
  Browser = {b1}
  NoKey = NoKey
INVARIANTS TypeOK TermsOfChallenge PlainOnlyForPlain UnreadableMeansKeysDiffer
PROPERTIES PaidEventuallyReadable
