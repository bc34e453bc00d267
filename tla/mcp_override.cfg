SPECIFICATION Spec
CONSTANTS
  Url = {u1, u2, u3}
  Https = {u1, u2}
  Configured = u1
  NoUrl = NoUrl
  Call = {c1, c2}
INVARIANT OverrideIsForOneCall
CHECK_DEADLOCK FALSE
