CONSTANTS
  Invoice = {i1, i2}
  NoInvoice = noInvoice
  Tx = {t1, t2}
  NoTx = noTx
  sepolia = sepolia
  main = main
  ours = ours
  theirs = theirs
  alice = alice
  bob = bob
  Account = {alice, bob, carol}
  NoAccount = noAccount
  Network = {sepolia, main}
  ServerConfig <- MCServerConfig
  AgentConfig <- MCAgentConfig
  Selection <- MCSelection
  Agent = agent
  Page = {p}
  Other = {o}
  OtherAccount = carol
SPECIFICATION FairSpec
INVARIANTS TypeOK ReceiptVerifies
PROPERTIES ClaimIsItsPayersPayment PaidEventuallyBelieved
CHECK_DEADLOCK FALSE
