SPECIFICATION FairSpec
CONSTANTS
  Tx = {t1, t2, t3}
  Single = {t1, t2}
  NoTx = NoTx
  RequiredFinality = "l2"
  Kept = "l2"
  PageSize = 2
  MaxPages = 3
  MaxHistory = 3
INVARIANTS TypeOK NullMeansAbsent SettledForGood
PROPERTIES CallEnds
