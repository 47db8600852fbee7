SPECIFICATION Spec
CONSTANTS
  A = A  B = B
  Account = {A, B}
  Tx <- Txs
  PendingDepth = 2
  BanDepth = 2
  MaxTxSetOps = {1, 2}
  PoolMultiplier = 2
  MayBump = {A}
  FeeMultiplier = 2
  MaxSeq <- Seqs
  Balance = {2, 10}
INVARIANTS NoFault Consecutive NothingDead BooksExact WithinLimits ProposalValid SurgeFills
