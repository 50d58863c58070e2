CONSTANTS
  Accounts = {alice, bob}
  Resources = {"cpu"}
  GasAccount = gasacct
  SysAccount = sys
  NoRow = NoRow
  NoTx = NoTx
  AccountRank <- MCAccountRank
  RatePrecision = 2
  U64Max = 2
  GasToll = 1
  InitParams <- MCInitParams
  InitWindows <- MCInitWindows
  MaxBlock = 3
  MaxTxOps = 1
  GenesisAccounts = {alice}
  ParamChoices = {}
  RamBytesChoices <- MCLimitChoices
  WeightChoices <- MCLimitChoices
  GstBytesChoices = {}
  RamDeltaChoices <- MCRamDeltaChoices
  UsageChoices = {0}
  GasFlagChoices = {}
SPECIFICATION Spec
INVARIANTS
  TotalsConsistent
  RamUsageWithinLimit
PROPERTIES
  CommitPreservesEffectiveLimits
  LimitsRefinement
INVARIANTS
  TypeOK
