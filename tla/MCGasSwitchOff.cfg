CONSTANTS
  Accounts = {alice, gasacct}
  Resources = {"cpu"}
  GasAccount = gasacct
  SysAccount = sys
  NoRow = NoRow
  NoTx = NoTx
  AccountRank <- MCAccountRank
  RatePrecision = 2
  U64Max = 3
  GasToll = 1
  InitParams <- MCInitParams
  InitWindows <- MCInitWindows
  MaxBlock = 2
  MaxTxOps = 2
  GenesisAccounts = {alice, gasacct}
  ParamChoices = {}
  RamBytesChoices = {1}
  WeightChoices = {1}
  GstBytesChoices = {1, 2}
  RamDeltaChoices <- MCRamDeltaChoices
  UsageChoices = {0}
  GasFlagChoices = {TRUE, FALSE}
SPECIFICATION Spec
INVARIANT
  GasUsageWithinBalance
