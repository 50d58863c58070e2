CONSTANTS
  Accounts = {alice, bob}
  Resources = {"cpu"}
  GasAccount = gasacct
  SysAccount = sys
  NoRow = NoRow
  NoTx = NoTx
  AccountRank <- MCAccountRank
  RatePrecision = 2
  U64Max = 7
  GasToll = 1
  InitParams <- MCInitParams
  InitWindows <- MCInitWindows
  MaxBlock = 4
  MaxTxOps = 1
  GenesisAccounts = {alice, bob}
  ParamChoices <- MCParamChoices
  RamBytesChoices = {1}
  WeightChoices <- MCLimitChoices
  GstBytesChoices = {}
  RamDeltaChoices = {}
  UsageChoices = {0, 3}
  GasFlagChoices = {}
SPECIFICATION Spec
INVARIANT
  BlockLimitNoWrap
