CONSTANTS
  Accounts = {alice, bob}
  Resources = {"cpu"}
  GasAccount = gasacct
  SysAccount = sys
  NoRow = NoRow
  NoTx = NoTx
  AccountRank <- MCAccountRank
  RatePrecision = 2
  U64Max = 15
  GasToll = 1
  InitParams <- MCInitParams
  InitWindows <- MCWindowOne
  MaxBlock = 3
  MaxTxOps = 1
  GenesisAccounts = {alice, bob}
  ParamChoices = {}
  RamBytesChoices <- MCLimitChoices
  WeightChoices <- MCWideWeightChoices
  GstBytesChoices = {}
  RamDeltaChoices = {}
  UsageChoices = {0}
  GasFlagChoices = {}
SPECIFICATION Spec
INVARIANT
  LimitExCastSafe
