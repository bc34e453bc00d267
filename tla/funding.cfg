SPECIFICATION Spec
CONSTANTS
  FundingId = {f1, f2}
  Amount = {a1, a2}
  NoId = NoId
  NoAmount = NoAmount
  Proc = {p1, p2}
  ProvingAge = 1
  Validities = {2, 3}
  MinValidity = 1
  Lag = 1
  MaxHeight = 4
INVARIANTS TypeOK ReadyProofIsValid
PROPERTY FundingPromise
