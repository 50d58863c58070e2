------------------------ MODULE ResourceLimitsGasProofs ------------------------
(***************************************************************************)
(* Proof that gas usage stays within a finite gas balance between          *)
(* transactions (GasUsageWithinBalance).                                   *)
(*                                                                         *)
(* Two findings show the property fails in general: set_gst_limits lets   *)
(* an unlimited balance become a finite one below the usage               *)
(* (rl_gas_unlimited), and set_gas_limits(false) in the transaction that  *)
(* charged the gas skips the final check (rl_gas_switch_off).  The theorem *)
(* assumes GasInputsFinite, which rules out both: set_gst_limits is only   *)
(* given finite balances, and set_gas_limits is only asked to switch       *)
(* metering on.  The passing run rl_gas satisfies this hypothesis.         *)
(***************************************************************************)
EXTENDS ResourceLimitsProofs, TLAPS

\* The hypothesis on the inputs under which the theorem holds.
GasInputsFinite ==
  /\ GstBytesChoices \subseteq Nat
  /\ FALSE \notin GasFlagChoices

\* The accounts whose gas the manager never limits.
Special == {GasAccount, SysAccount}

\* A gas row (or its absence) with a finite balance.
GasFinite(row) == row # NoRow => row.gst_bytes >= 0

\* A gas row whose finite balance covers its usage.
GasOk(row) == (row # NoRow /\ row.gst_bytes >= 0) => row.gst_usage <= row.gst_bytes

\* The inductive invariant:
\*  - every balance, live or saved in the snapshot, is finite;
\*  - an account that no end-of-transaction check will look at is within
\*    its balance;
\*  - an account the check will look at is within its balance, or metering
\*    is on so that verify_account_ram_usage checks it;
\*  - the snapshot is within balance, and no account waits for a check
\*    between transactions.
GInv ==
  /\ \A a \in Accounts : GasFinite(gas[a])
  /\ \A a \in Accounts \ (validate \cup Special) : GasOk(gas[a])
  /\ \A a \in validate \ Special : GasOk(gas[a]) \/ IsActivation
  /\ InTx => \A a \in Accounts :
               GasFinite(undo.gas[a]) /\ (a \notin Special => GasOk(undo.gas[a]))
  /\ ~InTx => validate = {}

\* The hypotheses of a step proof of GInv.
GHyp == TypeInv /\ TypeInv' /\ GInv /\ GasInputsFinite

\* A step that keeps the gas rows, the activation row and the snapshot,
\* and only adds accounts to verify inside a transaction, keeps GInv.
LEMMA GasFrame ==
  ASSUME GHyp, gas' = gas, activation' = activation, undo' = undo,
         validate \subseteq validate',
         validate' = validate \/ InTx
  PROVE  GInv'
<1>1. validate' \subseteq Accounts
  BY DEF GHyp, TypeInv, TypeOK
<1>2. \A a \in validate' \ Special : GasOk(gas[a]) \/ IsActivation
  BY <1>1 DEF GHyp, GInv
<1>. QED
  BY <1>2 DEF GHyp, GInv, IsActivation, InTx

LEMMA RollbackGas ==
  ASSUME GHyp, InTx, Rollback
  PROVE  GInv'
BY DEF GHyp, GInv, Rollback, InTx

LEMMA BeginTxGas ==
  ASSUME GHyp, BeginTx
  PROVE  GInv'
<1>1. validate = {}
  BY DEF BeginTx, GHyp, GInv
<1>. QED
  BY <1>1 DEF BeginTx, GHyp, GInv, Snapshot, InTx

LEMMA InitializeAccountGas ==
  ASSUME GHyp, NEW a \in Accounts, InitializeAccount(a)
  PROVE  GInv'
BY RollbackGas, GasFrame DEF InitializeAccount

LEMMA SetBlockParametersGas ==
  ASSUME GHyp, NEW p \in ParamChoices, SetBlockParameters(p)
  PROVE  GInv'
BY RollbackGas, GasFrame DEF SetBlockParameters

LEMMA UpdateAccountUsageGas ==
  ASSUME GHyp, NEW accts \in SUBSET Accounts, UpdateAccountUsage(accts)
  PROVE  GInv'
BY RollbackGas, GasFrame DEF UpdateAccountUsage

LEMMA SetAccountLimitsGas ==
  ASSUME GHyp, NEW a \in Accounts, NEW ram \in RamBytesChoices,
         NEW net \in WeightChoices, NEW cpu \in WeightChoices,
         SetAccountLimits(a, ram, net, cpu)
  PROVE  GInv'
<1>1. CASE ~Exists(a)
  BY <1>1, RollbackGas DEF SetAccountLimits
<1>2. CASE Exists(a)
  BY <1>2, GasFrame DEF SetAccountLimits
<1>. QED
  BY <1>1, <1>2

LEMMA SetGasLimitsGas ==
  ASSUME GHyp, NEW flag \in GasFlagChoices, SetGasLimits(flag)
  PROVE  GInv'
<1>1. flag = TRUE
  BY ConstantsAssumption, Zenon DEF GHyp, GasInputsFinite
<1>2. IsActivation'
  BY <1>1 DEF SetGasLimits, IsActivation
<1>. QED
  BY <1>2 DEF GHyp, GInv, SetGasLimits, InTx

LEMMA AbortTxGas ==
  ASSUME GHyp, AbortTx
  PROVE  GInv'
BY RollbackGas DEF AbortTx

LEMMA StartFinalizeBlockGas ==
  ASSUME GHyp, StartFinalizeBlock
  PROVE  GInv'
BY GasFrame DEF StartFinalizeBlock

LEMMA ProcessAccountLimitUpdateGas ==
  ASSUME GHyp, NEW a \in Accounts, ProcessAccountLimitUpdate(a)
  PROVE  GInv'
BY GasFrame DEF ProcessAccountLimitUpdate

LEMMA ProcessBlockUsageGas ==
  ASSUME GHyp, ProcessBlockUsage
  PROVE  GInv'
BY GasFrame DEF ProcessBlockUsage

\* A step that changes the gas row of one account a, keeps its balance
\* finite and leaves it within balance unless the end-of-transaction check
\* will look at it with metering on, keeps GInv.
LEMMA GasPoint ==
  ASSUME GHyp, NEW a \in Accounts,
         \A b \in Accounts \ {a} : gas'[b] = gas[b],
         GasFinite(gas'[a]),
         a \notin validate' \cup Special => GasOk(gas'[a]),
         a \in validate' \ Special => GasOk(gas'[a]) \/ IsActivation',
         activation' = activation, undo' = undo,
         validate \subseteq validate', validate' = validate \/ InTx
  PROVE  GInv'
<1>1. validate' \subseteq Accounts
  BY DEF GHyp, TypeInv, TypeOK
<1>2. \A b \in Accounts : GasFinite(gas'[b])
  BY DEF GHyp, GInv
<1>3. \A b \in Accounts \ (validate' \cup Special) : GasOk(gas'[b])
  BY DEF GHyp, GInv
<1>4. \A b \in validate' \ Special : GasOk(gas'[b]) \/ IsActivation'
  BY <1>1 DEF GHyp, GInv, IsActivation
<1>5. (InTx => \A b \in Accounts :
          GasFinite(undo.gas[b]) /\ (b \notin Special => GasOk(undo.gas[b])))'
  BY DEF GHyp, GInv, InTx
<1>6. (~InTx => validate = {})'
  BY DEF GHyp, GInv, InTx
<1>. QED
  BY <1>2, <1>3, <1>4, <1>5, <1>6 DEF GInv

\* The toll of verify_account_gst_usage is charged only when the balance
\* covers it.
LEMMA VerifyAccountGstUsageGas ==
  ASSUME GHyp, NEW a \in Accounts, VerifyAccountGstUsage(a)
  PROVE  GInv'
<1>1. CASE \/ gas[a] = NoRow
           \/ gas[a].gst_bytes >= 0 /\ ~TollCovered(a)
  BY <1>1, RollbackGas DEF VerifyAccountGstUsage
<1>2. CASE ~(\/ gas[a] = NoRow
             \/ gas[a].gst_bytes >= 0 /\ ~TollCovered(a))
  <2>1. gas[a] \in GasRow
    BY <1>2 DEF GHyp, TypeInv, TypeOK
  <2>2. CASE gas[a].gst_bytes >= 0
    <3>1. gas' = [gas EXCEPT ![a].gst_usage = gas[a].gst_usage + GasToll]
      BY <1>2, <2>2, Zenon DEF VerifyAccountGstUsage
    <3>2. gas'[a] = [gas[a] EXCEPT !.gst_usage = gas[a].gst_usage + GasToll]
      BY <3>1, Zenon DEF GHyp, TypeInv, TypeOK
    <3>3. gas'[a].gst_bytes = gas[a].gst_bytes
          /\ gas'[a].gst_usage = gas[a].gst_usage + GasToll
      BY <2>1, <3>2, Zenon DEF GasRow
    <3>4. gas[a].gst_bytes \in Int /\ gas[a].gst_usage \in Nat
      BY <2>1 DEF GasRow
    <3>5. GasFinite(gas'[a]) /\ GasOk(gas'[a])
      BY <1>2, <2>2, <3>3, <3>4, ConstantsAssumption
      DEF TollCovered, GasFinite, GasOk
    <3>6. \A b \in Accounts \ {a} : gas'[b] = gas[b]
      BY <3>1 DEF GHyp, TypeInv, TypeOK
    <3>7. activation' = activation /\ undo' = undo /\ validate' = validate
      BY <1>2 DEF VerifyAccountGstUsage
    <3>. QED
      BY <3>5, <3>6, <3>7, GasPoint
  <2>3. CASE ~(gas[a].gst_bytes >= 0)
    BY <1>2, <2>3, GasFrame DEF VerifyAccountGstUsage
  <2>. QED
    BY <2>2, <2>3
<1>. QED
  BY <1>1, <1>2

\* A balance set by set_gst_limits is finite; a decrease below the usage
\* is refused unless the old balance was unlimited, which GInv rules out.
\* The account the returned flag adds to the end-of-transaction check keeps
\* a balance that covers its usage.
LEMMA SetGstLimitsGas ==
  ASSUME GHyp, NEW a \in Accounts, NEW bytes \in GstBytesChoices,
         SetGstLimits(a, bytes)
  PROVE  GInv'
<1> DEFINE row == IF gas[a] # NoRow THEN gas[a]
                  ELSE [gst_bytes |-> bytes, gst_usage |-> 0]
           new == [row EXCEPT !.gst_bytes = bytes]
<1>0. bytes \in Nat
  BY DEF GHyp, GasInputsFinite
<1>1. CASE row.gst_bytes > bytes /\ bytes >= 0 /\ bytes < row.gst_usage
  BY <1>1, RollbackGas DEF SetGstLimits
<1>2. CASE ~(row.gst_bytes > bytes /\ bytes >= 0 /\ bytes < row.gst_usage)
  <2>1. gas' = [gas EXCEPT ![a] = new]
    BY <1>2, Zenon DEF SetGstLimits
  <2>2. row \in GasRow
    BY <1>0 DEF GHyp, TypeInv, TypeOK, GasRow
  <2>3. gas'[a] = new
    BY <2>1 DEF GHyp, TypeInv, TypeOK
  <2>4. new.gst_bytes = bytes /\ new.gst_usage = row.gst_usage
    BY <2>2, Zenon DEF GasRow
  <2>5. new # NoRow
    <3>0. bytes \in Int
      BY <1>0
    <3>1. new \in GasRow
      BY <3>0, <2>2, Zenon DEF GasRow
    <3>. QED
      BY <3>1, ConstantsAssumption DEF GasRow
  <2>6. row.gst_bytes \in Int /\ row.gst_usage \in Nat /\ row # NoRow
    BY <2>2, ConstantsAssumption DEF GasRow
  <2>7. GasFinite(row)
    <3>1. CASE gas[a] # NoRow
      BY <3>1 DEF GHyp, GInv
    <3>2. CASE gas[a] = NoRow
      BY <3>2, <1>0 DEF GasFinite
    <3>. QED
      BY <3>1, <3>2
  <2>8. GasOk(row) => GasOk(new)
    BY <1>0, <1>2, <2>4, <2>6, <2>7 DEF GasOk, GasFinite
  <2>9. GasFinite(new)
    BY <1>0, <2>4 DEF GasFinite
  <2>10. a \notin validate \cup Special => GasOk(row)
    <3>1. CASE gas[a] # NoRow
      BY <3>1 DEF GHyp, GInv
    <3>2. CASE gas[a] = NoRow
      BY <3>2, <1>0 DEF GasOk
    <3>. QED
      BY <3>1, <3>2
  <2>11. a \in validate \ Special => GasOk(row) \/ IsActivation
    <3>1. CASE gas[a] # NoRow
      BY <3>1 DEF GHyp, GInv
    <3>2. CASE gas[a] = NoRow
      BY <3>2, <1>0 DEF GasOk
    <3>. QED
      BY <3>1, <3>2
  <2>12. \A b \in Accounts \ {a} : gas'[b] = gas[b]
    BY <2>1 DEF GHyp, TypeInv, TypeOK
  <2>13. activation' = activation /\ undo' = undo
    BY <1>2 DEF SetGstLimits
  <2>14. /\ validate \subseteq validate'
         /\ validate' = validate \/ InTx
    <3>1. validate' = validate \cup {a} \/ validate' = validate
      BY <1>2, Zenon DEF SetGstLimits
    <3>2. InTx
      BY <1>2 DEF SetGstLimits
    <3>. QED
      BY <3>1, <3>2, Zenon
  <2>15. a \notin validate' \cup Special => GasOk(new)
    BY <2>8, <2>10, <2>14, Zenon
  <2>16. a \in validate' \ Special => GasOk(new) \/ IsActivation
    <3>1. CASE a \in validate
      BY <3>1, <2>8, <2>11, Zenon
    <3>2. CASE a \notin validate
      BY <3>2, <2>8, <2>10, Zenon
    <3>. QED
      BY <3>1, <3>2
  <2>17. /\ GasFinite(gas'[a])
         /\ a \notin validate' \cup Special => GasOk(gas'[a])
         /\ a \in validate' \ Special => GasOk(gas'[a]) \/ IsActivation'
    BY <2>3, <2>9, <2>13, <2>15, <2>16 DEF IsActivation
  <2>. QED
    BY <2>12, <2>13, <2>14, <2>17, GasPoint
<1>. QED
  BY <1>1, <1>2

\* add_pending_ram_usage charges gas only while metering is on, and an
\* account whose usage grows is marked for the end-of-transaction check.
LEMMA AddPendingRamUsageGas ==
  ASSUME GHyp, NEW a \in Accounts, NEW delta \in RamDeltaChoices,
         AddPendingRamUsage(a, delta)
  PROVE  GInv'
<1> DEFINE G == GasAfterRamDelta(a, delta)
<1>0. delta \in Int
  BY ConstantsAssumption
<1>1. CASE delta = 0
  BY <1>1, GasFrame DEF AddPendingRamUsage, db
<1>2. CASE delta # 0 /\ ~RamDeltaOk(a, delta)
  BY <1>2, RollbackGas DEF AddPendingRamUsage
<1>3. CASE delta # 0 /\ RamDeltaOk(a, delta) /\ ~IsActivation
  <2>1. gas' = gas /\ activation' = activation /\ undo' = undo
        /\ validate \subseteq validate' /\ InTx
    BY <1>3 DEF AddPendingRamUsage
  <2>. QED
    BY <2>1, GasFrame
<1>4. CASE delta # 0 /\ RamDeltaOk(a, delta) /\ IsActivation
  <2>1. gas' = [gas EXCEPT ![a] = G]
    BY <1>4, Zenon DEF AddPendingRamUsage
  <2>2. gas'[a] = G /\ \A b \in Accounts \ {a} : gas'[b] = gas[b]
    BY <2>1 DEF GHyp, TypeInv, TypeOK
  <2>3. activation' = activation /\ undo' = undo /\ validate \subseteq validate'
        /\ InTx /\ IsActivation'
    BY <1>4 DEF AddPendingRamUsage, IsActivation
  <2>4. validate' = IF delta > 0 THEN validate \cup {a} ELSE validate
    BY <1>4 DEF AddPendingRamUsage
  <2>5. CASE gas[a] # NoRow
    <3>1. gas[a] \in GasRow
      BY <2>5 DEF GHyp, TypeInv, TypeOK
    <3>2. G = [gas[a] EXCEPT !.gst_usage = IF @ + delta < 0 THEN 0
                                           ELSE @ + delta]
      BY <2>5, Zenon DEF GasAfterRamDelta
    <3>3. G.gst_bytes = gas[a].gst_bytes
      BY <3>1, <3>2, Zenon DEF GasRow
    <3>4. G.gst_usage = IF gas[a].gst_usage + delta < 0 THEN 0
                        ELSE gas[a].gst_usage + delta
      BY <3>1, <3>2, Zenon DEF GasRow
    <3>5. gas[a].gst_usage \in Nat /\ gas[a].gst_bytes \in Int
      BY <3>1 DEF GasRow
    <3>6. G.gst_usage \in Nat
      BY <1>0, <3>4, <3>5
    <3>7. G \in GasRow
      BY <3>1, <3>2, <3>6, Zenon DEF GasRow
    <3>8. G # NoRow
      BY <3>7, ConstantsAssumption DEF GasRow
    <3>9. GasFinite(G)
      BY <2>5, <3>3, <3>8 DEF GHyp, GInv, GasFinite
    <3>10. a \notin validate' \cup Special => GasOk(G)
      <4>1. SUFFICES ASSUME a \notin validate' \cup Special PROVE GasOk(G)
        OBVIOUS
      <4>2. delta < 0 /\ a \notin validate
        BY <1>0, <1>4, <2>4, <4>1
      <4>3. GasOk(gas[a])
        BY <4>1, <4>2 DEF GHyp, GInv
      <4>4. G.gst_usage <= gas[a].gst_usage
        BY <1>0, <3>4, <3>5, <4>2
      <4>. QED
        BY <2>5, <3>3, <3>5, <3>6, <4>3, <4>4 DEF GasOk
    <3>. QED
      BY <2>2, <2>3, <3>9, <3>10, GasPoint
  <2>6. CASE gas[a] = NoRow
    <3>1. G = [gst_bytes |-> 0, gst_usage |-> IF delta < 0 THEN 0 ELSE delta]
      BY <2>6 DEF GasAfterRamDelta
    <3>2. GasFinite(G)
      BY <3>1 DEF GasFinite
    <3>3. a \notin validate' \cup Special => GasOk(G)
      BY <1>0, <1>4, <2>4, <3>1 DEF GasOk
    <3>. QED
      BY <2>2, <2>3, <3>2, <3>3, GasPoint
  <2>. QED
    BY <2>5, <2>6
<1>. QED
  BY <1>1, <1>2, <1>3, <1>4

\* A transaction commits only when verify_account_ram_usage accepted every
\* account it marked, which checks the gas balance while metering is on.
LEMMA FinishTxGas ==
  ASSUME GHyp, NEW accts \in SUBSET Accounts,
         NEW units \in [Res -> UsageChoices], FinishTx(accts, units)
  PROVE  GInv'
<1> DEFINE Fails == \/ \E a \in validate : ~VerifyAccountRamUsage(a)
                    \/ \E a \in accts : ~Exists(a)
                    \/ \E a \in accts : ~WithinShare(a, units)
                    \/ ~WithinBlock(units)
<1>1. CASE Fails
  BY <1>1, RollbackGas DEF FinishTx
<1>2. CASE ~Fails
  <2>1. gas' = gas /\ undo' = NoTx /\ validate' = {}
    BY <1>2 DEF FinishTx
  <2>2. \A a \in validate \ Special : GasOk(gas[a])
    <3>1. SUFFICES ASSUME NEW a \in validate \ Special PROVE GasOk(gas[a])
      OBVIOUS
    <3>2. GasUsageOk(a)
      BY <1>2 DEF VerifyAccountRamUsage
    <3>3. CASE IsActivation
      BY <3>2, <3>3 DEF GasUsageOk, GasOk, Special
    <3>4. CASE ~IsActivation
      BY <3>4 DEF GHyp, GInv
    <3>. QED
      BY <3>3, <3>4
  <2>3. \A a \in Accounts \ Special : GasOk(gas[a])
    BY <2>2 DEF GHyp, GInv
  <2>. QED
    BY <2>1, <2>3, NoTxAssumption DEF GHyp, GInv, InTx
<1>. QED
  BY <1>1, <1>2

LEMMA InitGInv == Init => GInv
BY DEF Init, GInv, GasFinite, GasOk, InTx

LEMMA NextGInv == GHyp /\ [Next]_vars => GInv'
<1> SUFFICES ASSUME GHyp, [Next]_vars PROVE GInv'
  OBVIOUS
<1>1. CASE BeginTx /\ UNCHANGED txOps
  BY <1>1, BeginTxGas
<1>2. ASSUME NEW a \in Accounts, TxCall(InitializeAccount(a))
      PROVE  GInv'
  BY <1>2, InitializeAccountGas DEF TxCall
<1>3. ASSUME NEW a \in Accounts, TxCall(VerifyAccountGstUsage(a))
      PROVE  GInv'
  BY <1>3, VerifyAccountGstUsageGas DEF TxCall
<1>4. ASSUME NEW a \in Accounts, NEW d \in RamDeltaChoices,
             TxCall(AddPendingRamUsage(a, d))
      PROVE  GInv'
  BY <1>4, AddPendingRamUsageGas DEF TxCall
<1>5. ASSUME NEW a \in Accounts, NEW b \in GstBytesChoices,
             TxCall(SetGstLimits(a, b))
      PROVE  GInv'
  BY <1>5, SetGstLimitsGas DEF TxCall
<1>6. ASSUME NEW a \in Accounts, NEW ram \in RamBytesChoices,
             NEW net \in WeightChoices, NEW cpu \in WeightChoices,
             TxCall(SetAccountLimits(a, ram, net, cpu))
      PROVE  GInv'
  BY <1>6, SetAccountLimitsGas DEF TxCall
<1>7. ASSUME NEW p \in ParamChoices, TxCall(SetBlockParameters(p))
      PROVE  GInv'
  BY <1>7, SetBlockParametersGas DEF TxCall
<1>8. ASSUME NEW f \in GasFlagChoices, TxCall(SetGasLimits(f))
      PROVE  GInv'
  BY <1>8, SetGasLimitsGas DEF TxCall
<1>9. ASSUME NEW accts \in SUBSET Accounts \ {{}},
             TxCall(UpdateAccountUsage(accts))
      PROVE  GInv'
  BY <1>9, UpdateAccountUsageGas DEF TxCall
<1>10. ASSUME NEW accts \in SUBSET Accounts \ {{}},
              NEW units \in [Res -> UsageChoices], FinishTx(accts, units)
       PROVE  GInv'
  BY <1>10, FinishTxGas
<1>11. CASE AbortTx
  BY <1>11, AbortTxGas
<1>12. CASE StartFinalizeBlock
  BY <1>12, StartFinalizeBlockGas
<1>13. ASSUME NEW a \in Accounts, ProcessAccountLimitUpdate(a)
       PROVE  GInv'
  BY <1>13, ProcessAccountLimitUpdateGas
<1>14. CASE ProcessBlockUsage
  BY <1>14, ProcessBlockUsageGas
<1>15. CASE UNCHANGED vars
  BY <1>15 DEF vars, GHyp, GInv, IsActivation, InTx
<1>. QED
  BY <1>1, <1>2, <1>3, <1>4, <1>5, <1>6, <1>7, <1>8, <1>9, <1>10, <1>11,
     <1>12, <1>13, <1>14, <1>15
  DEF Next, TxStep, BlockStep

\* Outside a transaction no account other than the gas and system accounts
\* has used more gas than its finite balance, for every set of accounts and
\* every interleaving of transactions, rollbacks and blocks, provided that
\* set_gst_limits is only given finite balances and set_gas_limits only
\* switches metering on: gas grows in add_pending_ram_usage (which marks
\* the account for verify_account_ram_usage) and in the toll of
\* verify_account_gst_usage (which checks the balance first), and a
\* decrease of the balance in set_gst_limits is refused below the usage.
THEOREM GasBalance ==
  ASSUME GasInputsFinite
  PROVE  Spec => []GasUsageWithinBalance
<1>1. Init => TypeInv /\ GInv
  BY InitTypeInv, InitGInv
<1>2. TypeInv /\ GInv /\ [Next]_vars => TypeInv' /\ GInv'
  BY NextTypeInv, NextGInv DEF GHyp
<1>3. GInv => GasUsageWithinBalance
  BY DEF GInv, GasOk, Special, GasUsageWithinBalance
<1>. QED
  BY <1>1, <1>2, <1>3, PTL DEF Spec

=============================================================================
