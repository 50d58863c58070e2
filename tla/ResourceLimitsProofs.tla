------------------------- MODULE ResourceLimitsProofs -------------------------
(***************************************************************************)
(* Proofs, for every value of the constants, of the type invariant of the  *)
(* resource limits manager and of its RAM quota invariant.                 *)
(*                                                                         *)
(* Neither is inductive as it stands.  A rollback restores the undo        *)
(* snapshot, so what is proved of the tables must also hold of the         *)
(* snapshot; and the commit loop reads the committed row of an account     *)
(* that has a pending one, so "a pending row has a committed row" is part  *)
(* of the strengthening.                                                   *)
(***************************************************************************)
EXTENDS ResourceLimits, TLAPS

\* The rows of a store d (the live tables, or the undo snapshot) are
\* consistent: initialize_account creates the limits and the usage row
\* together, set_account_limits only writes a pending row for an account
\* that has a committed one, and the parameters passed validate().
RowsOk(d) ==
  /\ \A a \in Accounts :
       /\ (d.limits[a] = NoRow) <=> (d.usage[a] = NoRow)
       /\ d.pendingLimits[a] # NoRow => d.limits[a] # NoRow
  /\ \A r \in Res : RL!ValidParams(d.cfg.params[r])

\* The inductive strengthening of TypeOK.
TypeInv ==
  /\ TypeOK
  /\ RowsOk(Snapshot)
  /\ InTx => RowsOk(undo)

-----------------------------------------------------------------------------
(* The pure operators.                                                     *)

\* The block and account averages stay natural numbers.
LEMMA EmaAddType ==
  ASSUME NEW e \in RL!Ema, NEW units \in Nat, NEW ordinal \in Nat,
         NEW window \in Nat \ {0}
  PROVE  RL!EmaAdd(e, units, ordinal, window) \in RL!Ema
BY ConstantsAssumption DEF RL!EmaAdd, RL!Ema

\* A clamped virtual limit is a natural number when validate() accepted the
\* parameters (the ratios have non-zero denominators).
LEMMA ElasticType ==
  ASSUME NEW current \in Nat, NEW average \in Nat,
         NEW p \in RL!ElasticParams, RL!ValidParams(p)
  PROVE  RL!UpdateElasticLimit(current, average, p) \in Nat
BY ConstantsAssumption
   DEF RL!UpdateElasticLimit, RL!RatioMul, RL!ValidParams, RL!ElasticParams,
       RL!Ratio

\* update_state_and_value keeps a total a natural number when the revert
\* check passed.
LEMMA UpdatedTotalType ==
  ASSUME NEW total \in Nat, NEW value \in Int, NEW new \in Int,
         RevertOk(total, value)
  PROVE  UpdatedTotal(total, value, new) \in Nat
BY DEF UpdatedTotal, RevertOk

-----------------------------------------------------------------------------
(* Type correctness.                                                       *)

LEMMA InitTypeInv == Init => TypeInv
BY ConstantsAssumption
   DEF Init, TypeInv, TypeOK, RowsOk, Snapshot, InTx, DefaultLimits,
       DefaultUsage, LimitRow, UsageRow, GasRow, StateRow, ConfigRow,
       RL!EmaZero, RL!Ema, RL!ElasticParams

\* A rollback restores a snapshot whose rows were consistent.
LEMMA RollbackTypeInv ==
  ASSUME TypeInv, InTx, Rollback, txOps' \in 0..MaxTxOps
  PROVE  TypeInv'
<1>1. undo \in SnapshotType
  BY DEF TypeInv, TypeOK, InTx
<1>2. RowsOk(undo)
  BY DEF TypeInv
<1>3. TypeOK'
  <2>1. ~InTx'
    BY NoTxAssumption DEF Rollback, InTx
  <2>2. \A r \in Res : RL!ValidParams(cfg'.params[r])
    BY <1>2 DEF Rollback, RowsOk
  <2>. QED
    BY <1>1, <2>2 DEF Rollback, TypeInv, TypeOK, SnapshotType
<1>4. RowsOk(Snapshot)'
  BY <1>2 DEF Rollback, RowsOk, Snapshot
<1>5. (InTx => RowsOk(undo))'
  BY DEF Rollback, InTx
<1>. QED
  BY <1>3, <1>4, <1>5 DEF TypeInv

LEMMA BeginTxTypeInv ==
  ASSUME TypeInv, BeginTx, txOps' = txOps
  PROVE  TypeInv'
<1>1. Snapshot \in SnapshotType
  BY DEF TypeInv, TypeOK, Snapshot, SnapshotType
<1>2. RowsOk(Snapshot)
  BY DEF TypeInv
<1>. QED
  BY <1>1, <1>2 DEF BeginTx, TypeInv, TypeOK, RowsOk, Snapshot, InTx
\* The abbreviation for the hypotheses every in-transaction step shares.
TxHyp == TypeInv /\ txOps' \in 0..MaxTxOps

LEMMA InitializeAccountTypeInv ==
  ASSUME TxHyp, NEW a \in Accounts, InitializeAccount(a)
  PROVE  TypeInv'
<1>1. CASE Exists(a)
  BY <1>1, RollbackTypeInv DEF InitializeAccount, TxHyp
<1>2. CASE ~Exists(a)
  <2>1. DefaultLimits \in LimitRow /\ DefaultUsage \in UsageRow
    BY DEF DefaultLimits, DefaultUsage, LimitRow, UsageRow, RL!EmaZero, RL!Ema
  <2>2. DefaultLimits # NoRow /\ DefaultUsage # NoRow
    BY <2>1, ConstantsAssumption DEF LimitRow, UsageRow
  <2>3. TypeOK'
    BY <1>2, <2>1 DEF TxHyp, InitializeAccount, TypeInv, TypeOK, InTx
  <2>4. RowsOk(Snapshot)'
    BY <1>2, <2>2 DEF TxHyp, InitializeAccount, TypeInv, TypeOK, RowsOk,
                      Snapshot, Exists
  <2>5. (InTx => RowsOk(undo))'
    BY <1>2 DEF TxHyp, InitializeAccount, TypeInv, InTx
  <2>. QED
    BY <2>3, <2>4, <2>5 DEF TypeInv
<1>. QED
  BY <1>1, <1>2

LEMMA SetBlockParametersTypeInv ==
  ASSUME TxHyp, NEW p \in ParamChoices, SetBlockParameters(p)
  PROVE  TypeInv'
<1>1. CASE ~\A r \in Res : RL!ValidParams(p[r])
  BY <1>1, RollbackTypeInv DEF SetBlockParameters, TxHyp
<1>2. CASE \A r \in Res : RL!ValidParams(p[r])
  BY <1>2, ConstantsAssumption
     DEF TxHyp, SetBlockParameters, TypeInv, TypeOK, RowsOk, Snapshot, InTx,
         ConfigRow
<1>. QED
  BY <1>1, <1>2

LEMMA UpdateAccountUsageTypeInv ==
  ASSUME TxHyp, NEW accts \in SUBSET Accounts, UpdateAccountUsage(accts)
  PROVE  TypeInv'
<1>1. CASE \E a \in accts : usage[a] = NoRow
  BY <1>1, RollbackTypeInv DEF UpdateAccountUsage, TxHyp
<1>2. CASE ~\E a \in accts : usage[a] = NoRow
  <2>1. \A a \in accts, r \in Res :
          RL!EmaAdd(usage[a].ema[r], 0, block, cfg.window[r]) \in RL!Ema
    BY <1>2, EmaAddType DEF TxHyp, TypeInv, TypeOK, UsageRow, ConfigRow
  <2>2. \A a \in accts : usage'[a] \in UsageRow
    BY <1>2, <2>1 DEF TxHyp, UpdateAccountUsage, TypeInv, TypeOK, UsageRow
  <2>3. \A a \in Accounts \ accts : usage'[a] = usage[a]
    BY <1>2 DEF UpdateAccountUsage
  <2>4. usage' \in [Accounts -> UsageRow \cup {NoRow}]
    BY <1>2, <2>2, <2>3 DEF TxHyp, UpdateAccountUsage, TypeInv, TypeOK
  <2>5. \A a \in Accounts : (usage'[a] = NoRow) <=> (usage[a] = NoRow)
    BY <1>2, <2>2, <2>3, ConstantsAssumption DEF UsageRow
  <2>. QED
    BY <1>2, <2>4, <2>5
       DEF TxHyp, UpdateAccountUsage, TypeInv, TypeOK, RowsOk, Snapshot, InTx
<1>. QED
  BY <1>1, <1>2

LEMMA AddPendingRamUsageTypeInv ==
  ASSUME TxHyp, NEW a \in Accounts, NEW delta \in RamDeltaChoices,
         AddPendingRamUsage(a, delta)
  PROVE  TypeInv'
<1>. delta \in Int
  BY ConstantsAssumption
<1>1. CASE delta = 0
  BY <1>1 DEF TxHyp, AddPendingRamUsage, TypeInv, TypeOK, RowsOk, Snapshot,
              InTx, db
<1>2. CASE delta # 0 /\ ~RamDeltaOk(a, delta)
  BY <1>2, RollbackTypeInv DEF AddPendingRamUsage, TxHyp
<1>3. CASE delta # 0 /\ RamDeltaOk(a, delta)
  <2>1. usage[a] \in UsageRow /\ usage[a].ram_usage + delta \in Nat
    BY <1>3 DEF TxHyp, TypeInv, TypeOK, RamDeltaOk, UsageRow
  <2>2. usage' \in [Accounts -> UsageRow \cup {NoRow}]
    BY <1>3, <2>1 DEF TxHyp, AddPendingRamUsage, TypeInv, TypeOK, UsageRow
  <2>3. GasAfterRamDelta(a, delta) \in GasRow
    BY DEF TxHyp, TypeInv, TypeOK, GasAfterRamDelta, GasRow
  <2>4. gas' \in [Accounts -> GasRow \cup {NoRow}]
    BY <1>3, <2>3 DEF TxHyp, AddPendingRamUsage, TypeInv, TypeOK
  <2>5. \A b \in Accounts : (usage'[b] = NoRow) <=> (usage[b] = NoRow)
    BY <1>3, <2>1, ConstantsAssumption
       DEF TxHyp, AddPendingRamUsage, TypeInv, TypeOK, UsageRow
  <2>. QED
    BY <1>3, <2>2, <2>4, <2>5
       DEF TxHyp, AddPendingRamUsage, TypeInv, TypeOK, RowsOk, Snapshot, InTx
<1>. QED
  BY <1>1, <1>2, <1>3
LEMMA VerifyAccountGstUsageTypeInv ==
  ASSUME TxHyp, NEW a \in Accounts, VerifyAccountGstUsage(a)
  PROVE  TypeInv'
<1>1. CASE \/ gas[a] = NoRow
           \/ gas[a].gst_bytes >= 0 /\ ~TollCovered(a)
  BY <1>1, RollbackTypeInv DEF VerifyAccountGstUsage, TxHyp
<1>2. CASE ~(\/ gas[a] = NoRow
             \/ gas[a].gst_bytes >= 0 /\ ~TollCovered(a))
  <2>1. gas' \in [Accounts -> GasRow \cup {NoRow}]
    BY <1>2, ConstantsAssumption
       DEF TxHyp, VerifyAccountGstUsage, TypeInv, TypeOK, GasRow
  <2>. QED
    BY <1>2, <2>1
       DEF TxHyp, VerifyAccountGstUsage, TypeInv, TypeOK, RowsOk, Snapshot,
           InTx
<1>. QED
  BY <1>1, <1>2

LEMMA SetAccountLimitsTypeInv ==
  ASSUME TxHyp, NEW a \in Accounts, NEW ram \in RamBytesChoices,
         NEW net \in WeightChoices, NEW cpu \in WeightChoices,
         SetAccountLimits(a, ram, net, cpu)
  PROVE  TypeInv'
<1>1. CASE ~Exists(a)
  BY <1>1, RollbackTypeInv DEF SetAccountLimits, TxHyp
<1>2. CASE Exists(a)
  <2> DEFINE row == [ram_bytes |-> ram, weight |-> [r \in Res |->
                                        IF r = "cpu" THEN cpu ELSE net]]
  <2>1. row \in LimitRow /\ row # NoRow
    BY ConstantsAssumption DEF LimitRow
  <2>2. pendingLimits' = [pendingLimits EXCEPT ![a] = row]
    BY <1>2 DEF SetAccountLimits
  <2>3. TypeOK'
    BY <1>2, <2>1, <2>2, Zenon
       DEF TxHyp, SetAccountLimits, TypeInv, TypeOK, InTx
  <2>4. RowsOk(Snapshot)'
    BY <1>2, <2>1, <2>2, Zenon
       DEF TxHyp, SetAccountLimits, TypeInv, TypeOK, RowsOk, Snapshot, Exists
  <2>5. (InTx => RowsOk(undo))'
    BY <1>2 DEF TxHyp, SetAccountLimits, TypeInv, InTx
  <2>. QED
    BY <2>3, <2>4, <2>5 DEF TypeInv
<1>. QED
  BY <1>1, <1>2

LEMMA SetGstLimitsTypeInv ==
  ASSUME TxHyp, NEW a \in Accounts, NEW bytes \in GstBytesChoices,
         SetGstLimits(a, bytes)
  PROVE  TypeInv'
<1> DEFINE row == IF gas[a] # NoRow THEN gas[a]
                  ELSE [gst_bytes |-> bytes, gst_usage |-> 0]
<1>1. row \in GasRow
  BY ConstantsAssumption DEF TxHyp, TypeInv, TypeOK, GasRow
<1>2. CASE row.gst_bytes > bytes /\ bytes >= 0 /\ bytes < row.gst_usage
  BY <1>2, RollbackTypeInv DEF SetGstLimits, TxHyp
<1>3. CASE ~(row.gst_bytes > bytes /\ bytes >= 0 /\ bytes < row.gst_usage)
  <2>1. [row EXCEPT !.gst_bytes = bytes] \in GasRow
    BY <1>1, ConstantsAssumption DEF GasRow
  <2>2. gas' = [gas EXCEPT ![a] = [row EXCEPT !.gst_bytes = bytes]]
    BY <1>3 DEF SetGstLimits
  <2>. QED
    BY <1>3, <2>1, <2>2
       DEF TxHyp, SetGstLimits, TypeInv, TypeOK, RowsOk, Snapshot, InTx
<1>. QED
  BY <1>2, <1>3

LEMMA SetGasLimitsTypeInv ==
  ASSUME TxHyp, NEW flag \in GasFlagChoices, SetGasLimits(flag)
  PROVE  TypeInv'
BY ConstantsAssumption, Zenon
   DEF TxHyp, SetGasLimits, TypeInv, TypeOK, RowsOk, Snapshot, InTx

LEMMA AbortTxTypeInv ==
  ASSUME TxHyp, AbortTx
  PROVE  TypeInv'
BY RollbackTypeInv DEF AbortTx, TxHyp
LEMMA FinishTxTypeInv ==
  ASSUME TxHyp, NEW accts \in SUBSET Accounts,
         NEW units \in [Res -> UsageChoices], FinishTx(accts, units)
  PROVE  TypeInv'
<1> DEFINE Fails == \/ \E a \in validate : ~VerifyAccountRamUsage(a)
                    \/ \E a \in accts : ~Exists(a)
                    \/ \E a \in accts : ~WithinShare(a, units)
                    \/ ~WithinBlock(units)
<1>1. CASE Fails
  BY <1>1, RollbackTypeInv DEF FinishTx, TxHyp
<1>2. CASE ~Fails
  <2>1. \A a \in accts : usage[a] \in UsageRow
    BY <1>2, Zenon DEF TxHyp, TypeInv, TypeOK, RowsOk, Snapshot, Exists
  <2>2. \A a \in accts : TxEma(a, units) \in [Res -> RL!Ema]
    <3>1. \A r \in Res : units[r] \in Nat /\ cfg.window[r] \in Nat \ {0}
      BY ConstantsAssumption, Zenon DEF TxHyp, TypeInv, TypeOK, ConfigRow
    <3>2. \A a \in accts, r \in Res : usage[a].ema[r] \in RL!Ema
      BY <2>1 DEF UsageRow
    <3>3. block \in Nat
      BY DEF TxHyp, TypeInv, TypeOK
    <3>4. \A a \in accts, r \in Res :
            RL!EmaAdd(usage[a].ema[r], units[r], block, cfg.window[r]) \in RL!Ema
      BY <3>1, <3>2, <3>3, EmaAddType
    <3>. QED
      BY <3>4, Zenon DEF TxEma
  <2>3. \A a \in accts : usage'[a] \in UsageRow
    BY <1>2, <2>1, <2>2 DEF FinishTx, UsageRow
  <2>4. \A a \in Accounts \ accts : usage'[a] = usage[a]
    BY <1>2 DEF FinishTx
  <2>5. usage' \in [Accounts -> UsageRow \cup {NoRow}]
    BY <1>2, <2>3, <2>4 DEF TxHyp, FinishTx, TypeInv, TypeOK
  <2>6. \A a \in Accounts : (usage'[a] = NoRow) <=> (usage[a] = NoRow)
    BY <2>1, <2>3, <2>4, ConstantsAssumption DEF UsageRow
  <2>7. rls' \in StateRow
    BY <1>2, ConstantsAssumption DEF TxHyp, FinishTx, TypeInv, TypeOK, StateRow
  <2>8. TypeOK'
    BY <1>2, <2>5, <2>7, NoTxAssumption
       DEF TxHyp, FinishTx, TypeInv, TypeOK
  <2>9. RowsOk(Snapshot)'
    BY <1>2, <2>6 DEF TxHyp, FinishTx, TypeInv, RowsOk, Snapshot
  <2>10. (InTx => RowsOk(undo))'
    BY <1>2 DEF FinishTx, InTx
  <2>. QED
    BY <2>8, <2>9, <2>10 DEF TypeInv
<1>. QED
  BY <1>1, <1>2

-----------------------------------------------------------------------------
(* The block boundary.                                                     *)

LEMMA StartFinalizeBlockTypeInv ==
  ASSUME TypeInv, StartFinalizeBlock, txOps' = txOps
  PROVE  TypeInv'
BY Zenon DEF StartFinalizeBlock, TypeInv, TypeOK, RowsOk, Snapshot, InTx

LEMMA ProcessAccountLimitUpdateTypeInv ==
  ASSUME TypeInv, NEW a \in Accounts, ProcessAccountLimitUpdate(a),
         txOps' = txOps
  PROVE  TypeInv'
<1> DEFINE old == limits[a]
           new == pendingLimits[a]
<1>1. old \in LimitRow /\ new \in LimitRow
  BY DEF ProcessAccountLimitUpdate, FirstPending, PendingOwners, TypeInv,
         TypeOK, RowsOk, Snapshot
<1>2. CommitOk(a)
  BY DEF ProcessAccountLimitUpdate
<1>3. UpdatedTotal(rls.total_ram_bytes, old.ram_bytes, new.ram_bytes) \in Nat
  BY <1>1, <1>2, UpdatedTotalType, Zenon
     DEF CommitOk, TypeInv, TypeOK, StateRow, LimitRow
<1>4. \A r \in Res :
        UpdatedTotal(rls.total_weight[r], old.weight[r], new.weight[r]) \in Nat
  BY <1>1, <1>2, UpdatedTotalType, Zenon
     DEF CommitOk, TypeInv, TypeOK, StateRow, LimitRow
<1>5. rls' \in StateRow
  BY <1>3, <1>4, Zenon DEF ProcessAccountLimitUpdate, TypeInv, TypeOK, StateRow
<1>6. TypeOK'
  BY <1>1, <1>5 DEF ProcessAccountLimitUpdate, CommittedRow, TypeInv, TypeOK
<1>7. RowsOk(Snapshot)'
  BY <1>1, ConstantsAssumption
     DEF ProcessAccountLimitUpdate, CommittedRow, TypeInv, TypeOK, RowsOk,
         Snapshot, LimitRow
<1>8. (InTx => RowsOk(undo))'
  BY DEF ProcessAccountLimitUpdate, TypeInv, InTx
<1>. QED
  BY <1>6, <1>7, <1>8 DEF TypeInv

LEMMA ProcessBlockUsageTypeInv ==
  ASSUME TypeInv, ProcessBlockUsage, txOps' = txOps
  PROVE  TypeInv'
<1> DEFINE avg == [r \in Res |-> RL!EmaAdd(rls.average_block[r],
                        rls.pending_usage[r], block, cfg.params[r].periods)]
<1>1. \A r \in Res : avg[r] \in RL!Ema
  BY EmaAddType DEF TypeInv, TypeOK, StateRow, ConfigRow, RL!ValidParams,
                    RL!ElasticParams
<1>2. \A r \in Res : RL!EmaAverage(avg[r]) \in Nat
  <2>1. \A e \in RL!Ema : RL!EmaAverage(e) \in Nat
    BY ConstantsAssumption DEF RL!EmaAverage, RL!Ema
  <2>. QED
    BY <1>1, <2>1
<1>3. \A r \in Res :
        RL!UpdateElasticLimit(rls.virtual_limit[r], RL!EmaAverage(avg[r]),
                              cfg.params[r]) \in Nat
  BY <1>2, ElasticType, Zenon DEF TypeInv, TypeOK, StateRow, ConfigRow
<1>4. rls' \in StateRow
  BY <1>1, <1>3, Zenon DEF ProcessBlockUsage, TypeInv, TypeOK, StateRow
<1>. QED
  BY <1>4 DEF ProcessBlockUsage, TypeInv, TypeOK, RowsOk, Snapshot, InTx
-----------------------------------------------------------------------------
(* The next-state relation.                                                *)

\* The call counter of TxCall stays within its bound.
LEMMA TxCallOps ==
  ASSUME TypeInv, txOps < MaxTxOps,
         txOps' = IF undo' = NoTx THEN 0 ELSE txOps + 1
  PROVE  TxHyp
BY ConstantsAssumption DEF TxHyp, TypeInv, TypeOK

LEMMA NextTypeInv == TypeInv /\ [Next]_vars => TypeInv'
<1> SUFFICES ASSUME TypeInv, [Next]_vars PROVE TypeInv'
  OBVIOUS
<1>1. CASE BeginTx /\ UNCHANGED txOps
  BY <1>1, BeginTxTypeInv
<1>2. ASSUME NEW a \in Accounts, TxCall(InitializeAccount(a))
      PROVE  TypeInv'
  BY <1>2, TxCallOps, InitializeAccountTypeInv DEF TxCall
<1>3. ASSUME NEW a \in Accounts, TxCall(VerifyAccountGstUsage(a))
      PROVE  TypeInv'
  BY <1>3, TxCallOps, VerifyAccountGstUsageTypeInv DEF TxCall
<1>4. ASSUME NEW a \in Accounts, NEW d \in RamDeltaChoices,
             TxCall(AddPendingRamUsage(a, d))
      PROVE  TypeInv'
  BY <1>4, TxCallOps, AddPendingRamUsageTypeInv DEF TxCall
<1>5. ASSUME NEW a \in Accounts, NEW b \in GstBytesChoices,
             TxCall(SetGstLimits(a, b))
      PROVE  TypeInv'
  BY <1>5, TxCallOps, SetGstLimitsTypeInv DEF TxCall
<1>6. ASSUME NEW a \in Accounts, NEW ram \in RamBytesChoices,
             NEW net \in WeightChoices, NEW cpu \in WeightChoices,
             TxCall(SetAccountLimits(a, ram, net, cpu))
      PROVE  TypeInv'
  BY <1>6, TxCallOps, SetAccountLimitsTypeInv DEF TxCall
<1>7. ASSUME NEW p \in ParamChoices, TxCall(SetBlockParameters(p))
      PROVE  TypeInv'
  BY <1>7, TxCallOps, SetBlockParametersTypeInv DEF TxCall
<1>8. ASSUME NEW f \in GasFlagChoices, TxCall(SetGasLimits(f))
      PROVE  TypeInv'
  BY <1>8, TxCallOps, SetGasLimitsTypeInv DEF TxCall
<1>9. ASSUME NEW accts \in SUBSET Accounts \ {{}},
             TxCall(UpdateAccountUsage(accts))
      PROVE  TypeInv'
  BY <1>9, TxCallOps, UpdateAccountUsageTypeInv DEF TxCall
<1>10. ASSUME NEW accts \in SUBSET Accounts \ {{}},
              NEW units \in [Res -> UsageChoices],
              FinishTx(accts, units), txOps' = 0
       PROVE  TypeInv'
  <2>1. TxHyp
    BY <1>10, ConstantsAssumption DEF TxHyp
  <2>. QED
    BY <1>10, <2>1, FinishTxTypeInv
<1>11. CASE AbortTx /\ txOps' = 0
  <2>1. TxHyp
    BY <1>11, ConstantsAssumption DEF TxHyp
  <2>. QED
    BY <1>11, <2>1, AbortTxTypeInv
<1>12. CASE StartFinalizeBlock /\ UNCHANGED txOps
  BY <1>12, StartFinalizeBlockTypeInv
<1>13. ASSUME NEW a \in Accounts, ProcessAccountLimitUpdate(a),
              UNCHANGED txOps
       PROVE  TypeInv'
  BY <1>13, ProcessAccountLimitUpdateTypeInv
<1>14. CASE ProcessBlockUsage /\ UNCHANGED txOps
  BY <1>14, ProcessBlockUsageTypeInv
<1>15. CASE UNCHANGED vars
  BY <1>15, Zenon DEF vars, TypeInv, TypeOK, RowsOk, Snapshot, InTx
<1>. QED
  BY <1>1, <1>2, <1>3, <1>4, <1>5, <1>6, <1>7, <1>8, <1>9, <1>10, <1>11, Zenon,
     <1>12, <1>13, <1>14, <1>15
  DEF Next, TxStep, BlockStep

LEMMA TypeInvariant == Spec => []TypeInv
BY InitTypeInv, NextTypeInv, PTL DEF Spec

\* Type correctness of the manager's tables, the undo snapshot and the
\* call counter: every table holds rows of its type or no row, the totals
\* and usages are natural numbers (no uint64 wrap below zero), and the
\* block parameters in force are ones validate() accepted, in every
\* reachable state.
THEOREM TypeCorrect == Spec => []TypeOK
<1>1. TypeInv => TypeOK
  BY DEF TypeInv
<1>. QED
  BY <1>1, TypeInvariant, PTL

-----------------------------------------------------------------------------
(* The RAM quota.                                                          *)

\* get_account_limits and verify_account_ram_usage's check, on a store d.
EffIn(d, a) ==
  IF d.pendingLimits[a] # NoRow THEN d.pendingLimits[a] ELSE d.limits[a]
RamOkIn(d, a) ==
  (d.limits[a] # NoRow /\ EffIn(d, a).ram_bytes >= 0)
    => d.usage[a].ram_usage <= EffIn(d, a).ram_bytes

\* The strengthening of RamUsageWithinLimit: during a transaction only the
\* accounts the transaction marked for verification may be over quota, and
\* the snapshot a rollback would restore has none over quota.
RamInv ==
  /\ \A a \in Accounts \ validate : RamOkIn(Snapshot, a)
  /\ ~InTx => validate = {}
  /\ InTx => \A a \in Accounts : RamOkIn(undo, a)
\* The hypotheses of a step proof of RamInv: the type invariant before and
\* after the step (NextTypeInv), and RamInv before it.
RHyp == TypeInv /\ TypeInv' /\ RamInv

\* The effective limits row of an account and its RAM quota, read from the
\* tables directly rather than through the snapshot record.
EffNow(a) == IF pendingLimits[a] # NoRow THEN pendingLimits[a] ELSE limits[a]
RamNow(a) ==
  (limits[a] # NoRow /\ EffNow(a).ram_bytes >= 0)
    => usage[a].ram_usage <= EffNow(a).ram_bytes

\* The quota of the store's snapshot is the quota of the tables, before and
\* after a step.
LEMMA RamOkSnapshot ==
  ASSUME NEW a
  PROVE  /\ RamOkIn(Snapshot, a) <=> RamNow(a)
         /\ RamOkIn(Snapshot, a)' <=> RamNow(a)'
BY Zenon DEF RamOkIn, EffIn, Snapshot, RamNow, EffNow

\* A step that keeps the limits rows, the RAM usage of existing accounts,
\* the accounts to verify and the snapshot keeps RamInv.
LEMMA RamFrame ==
  ASSUME RHyp, limits' = limits, pendingLimits' = pendingLimits,
         \A a \in Accounts :
           limits[a] # NoRow => usage'[a].ram_usage = usage[a].ram_usage,
         validate' = validate, undo' = undo
  PROVE  RamInv'
<1>1. \A a \in Accounts : RamOkIn(Snapshot, a) => RamOkIn(Snapshot, a)'
  BY Zenon DEF RamOkIn, EffIn, Snapshot
<1>. QED
  BY <1>1 DEF RHyp, RamInv, InTx

\* The same inside a transaction, for a step that may mark more accounts
\* for verification (set_gst_limits reporting a decreased balance).
LEMMA RamFrameGrow ==
  ASSUME RHyp, InTx, limits' = limits, pendingLimits' = pendingLimits,
         \A a \in Accounts :
           limits[a] # NoRow => usage'[a].ram_usage = usage[a].ram_usage,
         validate \subseteq validate', undo' = undo
  PROVE  RamInv'
<1>1. \A a \in Accounts : RamOkIn(Snapshot, a) => RamOkIn(Snapshot, a)'
  BY Zenon DEF RamOkIn, EffIn, Snapshot
<1>2. \A a \in Accounts \ validate' : RamOkIn(Snapshot, a)'
  BY <1>1 DEF RHyp, RamInv
<1>. QED
  BY <1>2 DEF RHyp, RamInv, InTx

LEMMA RollbackRam ==
  ASSUME RHyp, InTx, Rollback
  PROVE  RamInv'
<1>1. \A a \in Accounts : RamOkIn(undo, a)
  BY DEF RHyp, RamInv
<1>2. \A a \in Accounts : RamOkIn(Snapshot, a)'
  BY <1>1, Zenon DEF Rollback, RamOkIn, EffIn, Snapshot
<1>. QED
  BY <1>2 DEF Rollback, RamInv, InTx

LEMMA BeginTxRam ==
  ASSUME RHyp, BeginTx
  PROVE  RamInv'
<1>1. validate = {}
  BY DEF BeginTx, RHyp, RamInv
<1>2. \A a \in Accounts : RamOkIn(Snapshot, a)
  BY <1>1 DEF RHyp, RamInv
<1>3. \A a \in Accounts : RamOkIn(undo', a) /\ RamOkIn(Snapshot, a)'
  BY <1>2, Zenon DEF BeginTx, RamOkIn, EffIn, Snapshot
<1>. QED
  BY <1>3 DEF BeginTx, RamInv
LEMMA InitializeAccountRam ==
  ASSUME RHyp, NEW a \in Accounts, InitializeAccount(a)
  PROVE  RamInv'
<1>1. CASE Exists(a)
  BY <1>1, RollbackRam DEF InitializeAccount
<1>2. CASE ~Exists(a)
  <2>1. pendingLimits[a] = NoRow
    BY <1>2, Zenon DEF RHyp, TypeInv, RowsOk, Snapshot, Exists
  <2>2. RamOkIn(Snapshot, a)'
    <3>1. pendingLimits'[a] = NoRow /\ limits'[a] = DefaultLimits
      BY <1>2, <2>1, Zenon DEF InitializeAccount, RHyp, TypeInv, TypeOK
    <3>2. EffIn(Snapshot, a)' = DefaultLimits
      BY <3>1, Zenon DEF EffIn, Snapshot
    <3>3. DefaultLimits.ram_bytes = -1
      BY DEF DefaultLimits
    <3>. QED
      BY <3>2, <3>3, SMT DEF RamOkIn
  <2>3. \A b \in Accounts \ {a} : RamOkIn(Snapshot, b) => RamOkIn(Snapshot, b)'
    BY <1>2, Zenon DEF InitializeAccount, RamOkIn, EffIn, Snapshot, RHyp,
                       TypeInv, TypeOK
  <2>. QED
    BY <1>2, <2>2, <2>3 DEF InitializeAccount, RHyp, RamInv, InTx
<1>. QED
  BY <1>1, <1>2

LEMMA SetBlockParametersRam ==
  ASSUME RHyp, NEW p \in ParamChoices, SetBlockParameters(p)
  PROVE  RamInv'
<1>1. CASE ~\A r \in Res : RL!ValidParams(p[r])
  BY <1>1, RollbackRam DEF SetBlockParameters
<1>2. CASE \A r \in Res : RL!ValidParams(p[r])
  BY <1>2, RamFrame DEF SetBlockParameters
<1>. QED
  BY <1>1, <1>2

LEMMA UpdateAccountUsageRam ==
  ASSUME RHyp, NEW accts \in SUBSET Accounts, UpdateAccountUsage(accts)
  PROVE  RamInv'
<1>1. CASE \E a \in accts : usage[a] = NoRow
  BY <1>1, RollbackRam DEF UpdateAccountUsage
<1>2. CASE ~\E a \in accts : usage[a] = NoRow
  <2>1. \A a \in Accounts : usage'[a].ram_usage = usage[a].ram_usage
    BY <1>2 DEF UpdateAccountUsage, RHyp, TypeInv, TypeOK, UsageRow
  <2>. QED
    BY <1>2, <2>1, RamFrame DEF UpdateAccountUsage
<1>. QED
  BY <1>1, <1>2

LEMMA AddPendingRamUsageRam ==
  ASSUME RHyp, NEW a \in Accounts, NEW delta \in RamDeltaChoices,
         AddPendingRamUsage(a, delta)
  PROVE  RamInv'
<1>. delta \in Int
  BY ConstantsAssumption
<1>1. CASE delta = 0
  BY <1>1, RamFrame DEF AddPendingRamUsage, db
<1>2. CASE delta # 0 /\ ~RamDeltaOk(a, delta)
  BY <1>2, RollbackRam DEF AddPendingRamUsage
<1>3. CASE delta # 0 /\ RamDeltaOk(a, delta)
  <2>1. usage[a] \in UsageRow
    BY <1>3, Zenon DEF RamDeltaOk, RHyp, TypeInv, TypeOK
  <2>2. usage'[a].ram_usage = usage[a].ram_usage + delta
    BY <1>3, <2>1 DEF AddPendingRamUsage, RHyp, TypeInv, TypeOK, UsageRow
  <2>3. \A b \in Accounts \ {a} : usage'[b] = usage[b]
    BY <1>3 DEF AddPendingRamUsage, RHyp, TypeInv, TypeOK
  <2>4. CASE delta > 0
    <3>1. a \in validate'
      BY <1>3, <2>4 DEF AddPendingRamUsage
    <3>2. \A b \in Accounts \ {a} : RamOkIn(Snapshot, b) => RamOkIn(Snapshot, b)'
      BY <1>3, <2>3 DEF AddPendingRamUsage, RamOkIn, EffIn, Snapshot
    <3>. QED
      BY <1>3, <2>4, <3>1, <3>2 DEF AddPendingRamUsage, RHyp, RamInv, InTx
  <2>5. CASE delta < 0
    <3>1. RamOkIn(Snapshot, a) => RamOkIn(Snapshot, a)'
      <4>1. limits' = limits /\ pendingLimits' = pendingLimits
        BY <1>3 DEF AddPendingRamUsage
      <4>2. usage'[a].ram_usage <= usage[a].ram_usage
        BY <2>1, <2>2, <2>5 DEF UsageRow
      <4>3. limits[a] # NoRow => EffIn(Snapshot, a).ram_bytes \in Int
        BY Zenon DEF RHyp, TypeInv, TypeOK, RowsOk, EffIn, Snapshot, LimitRow
      <4>4. EffIn(Snapshot, a)' = EffIn(Snapshot, a)
        BY <4>1, Zenon DEF EffIn, Snapshot
      <4>5. usage[a].ram_usage \in Nat /\ usage'[a].ram_usage \in Int
        BY <2>1, <2>2 DEF UsageRow
      <4>6. EffNow(a)' = EffNow(a)
        BY <4>1 DEF EffNow
      <4>7. limits[a] # NoRow => EffNow(a).ram_bytes \in Int
        BY <4>3, Zenon DEF EffIn, EffNow, Snapshot
      <4>8. RamNow(a) => RamNow(a)'
        BY <4>1, <4>2, <4>5, <4>6, <4>7 DEF RamNow
      <4>. QED
        BY <4>8, RamOkSnapshot
    <3>2. \A b \in Accounts \ {a} : RamOkIn(Snapshot, b) => RamOkIn(Snapshot, b)'
      BY <1>3, <2>3 DEF AddPendingRamUsage, RamOkIn, EffIn, Snapshot
    <3>. QED
      BY <1>3, <2>5, <3>1, <3>2 DEF AddPendingRamUsage, RHyp, RamInv, InTx
  <2>. QED
    BY <1>3, <2>4, <2>5
<1>. QED
  BY <1>1, <1>2, <1>3

LEMMA VerifyAccountGstUsageRam ==
  ASSUME RHyp, NEW a \in Accounts, VerifyAccountGstUsage(a)
  PROVE  RamInv'
<1>1. CASE \/ gas[a] = NoRow
           \/ gas[a].gst_bytes >= 0 /\ ~TollCovered(a)
  BY <1>1, RollbackRam DEF VerifyAccountGstUsage
<1>2. CASE ~(\/ gas[a] = NoRow
             \/ gas[a].gst_bytes >= 0 /\ ~TollCovered(a))
  BY <1>2, RamFrame DEF VerifyAccountGstUsage
<1>. QED
  BY <1>1, <1>2

LEMMA SetGstLimitsRam ==
  ASSUME RHyp, NEW a \in Accounts, NEW bytes \in GstBytesChoices,
         SetGstLimits(a, bytes)
  PROVE  RamInv'
<1> DEFINE row == IF gas[a] # NoRow THEN gas[a]
                  ELSE [gst_bytes |-> bytes, gst_usage |-> 0]
<1>1. CASE row.gst_bytes > bytes /\ bytes >= 0 /\ bytes < row.gst_usage
  BY <1>1, RollbackRam DEF SetGstLimits
<1>2. CASE ~(row.gst_bytes > bytes /\ bytes >= 0 /\ bytes < row.gst_usage)
  <2>1. /\ InTx /\ limits' = limits /\ pendingLimits' = pendingLimits
        /\ usage' = usage /\ undo' = undo
    BY <1>2 DEF SetGstLimits
  <2>2. validate \subseteq validate'
    BY <1>2 DEF SetGstLimits
  <2>. QED
    BY <2>1, <2>2, RamFrameGrow
<1>. QED
  BY <1>1, <1>2

LEMMA SetGasLimitsRam ==
  ASSUME RHyp, NEW flag \in GasFlagChoices, SetGasLimits(flag)
  PROVE  RamInv'
BY RamFrame DEF SetGasLimits
LEMMA SetAccountLimitsRam ==
  ASSUME RHyp, NEW a \in Accounts, NEW ram \in RamBytesChoices,
         NEW net \in WeightChoices, NEW cpu \in WeightChoices,
         SetAccountLimits(a, ram, net, cpu)
  PROVE  RamInv'
<1>1. CASE ~Exists(a)
  BY <1>1, RollbackRam DEF SetAccountLimits
<1>2. CASE Exists(a)
  <2> DEFINE row == [ram_bytes |-> ram, weight |-> [r \in Res |->
                                        IF r = "cpu" THEN cpu ELSE net]]
             old == EffIn(Snapshot, a).ram_bytes
  <2>1. /\ pendingLimits' = [pendingLimits EXCEPT ![a] = row]
        /\ limits' = limits /\ usage' = usage /\ undo' = undo
    BY <1>2 DEF SetAccountLimits
  <2>0. InTx /\ InTx'
    BY <1>2 DEF SetAccountLimits, InTx
  <2>2. EffIn(Snapshot, a)' = row
    <3>1. row \in LimitRow
      BY ConstantsAssumption, Zenon DEF LimitRow
    <3>2. row # NoRow
      BY <3>1, ConstantsAssumption DEF LimitRow
    <3>3. pendingLimits'[a] = row
      BY <2>1, Zenon DEF RHyp, TypeInv, TypeOK
    <3>. QED
      BY <3>2, <3>3, Zenon DEF EffIn, Snapshot
  <2>3. \A b \in Accounts \ {a} : EffIn(Snapshot, b)' = EffIn(Snapshot, b)
    BY <2>1, Zenon DEF EffIn, Snapshot, RHyp, TypeInv, TypeOK
  <2>4. \A b \in Accounts \ {a} : RamOkIn(Snapshot, b) => RamOkIn(Snapshot, b)'
    BY <2>1, <2>3, Zenon DEF RamOkIn, Snapshot
  <2>5. old = EffectiveLimits(a).ram_bytes
    BY Zenon DEF EffIn, EffectiveLimits, Snapshot
  <2>6. CASE DecreasedLimit(old, ram)
    <3>1. validate' = validate \cup {a}
      BY <1>2, <2>5, <2>6, Zenon DEF SetAccountLimits
    <3>. QED
      BY <2>0, <2>1, <2>4, <3>1 DEF RHyp, RamInv
  <2>7. CASE ~DecreasedLimit(old, ram)
    <3>1. validate' = validate
      BY <1>2, <2>5, <2>7, Zenon DEF SetAccountLimits
    <3>2. a \notin validate => RamOkIn(Snapshot, a)'
      <4>1. ram \in Int /\ old \in Int
        BY <1>2, ConstantsAssumption, Zenon
           DEF RHyp, TypeInv, TypeOK, RowsOk, EffIn, Snapshot, LimitRow, Exists
      <4>2. usage[a] \in UsageRow
        BY <1>2, Zenon DEF RHyp, TypeInv, TypeOK, RowsOk, Snapshot, Exists
      <4>3. a \notin validate => (old >= 0 => usage[a].ram_usage <= old)
        BY <1>2, Zenon DEF RHyp, RamInv, RamOkIn, Snapshot, Exists
      <4>4. a \notin validate => (ram >= 0 => usage[a].ram_usage <= ram)
        <5>1. usage[a].ram_usage \in Int
          BY <4>2 DEF UsageRow
        <5>2. ram >= 0 => (old >= 0 /\ old <= ram)
          BY <2>7, <4>1 DEF DecreasedLimit
        <5>. QED
          BY <4>1, <4>3, <5>1, <5>2, SMT
      <4>5. EffIn(Snapshot, a)'.ram_bytes = ram
        <5>1. row.ram_bytes = ram
          OBVIOUS
        <5>. QED
          BY <2>2, <5>1
      <4>6. usage'[a].ram_usage = usage[a].ram_usage
        BY <2>1
      <4>. QED
        BY <4>4, <4>5, <4>6, Zenon DEF RamOkIn, Snapshot
    <3>. QED
      BY <2>0, <2>1, <2>4, <3>1, <3>2 DEF RHyp, RamInv
  <2>. QED
    BY <2>6, <2>7
<1>. QED
  BY <1>1, <1>2
LEMMA FinishTxRam ==
  ASSUME RHyp, NEW accts \in SUBSET Accounts,
         NEW units \in [Res -> UsageChoices], FinishTx(accts, units)
  PROVE  RamInv'
<1> DEFINE Fails == \/ \E a \in validate : ~VerifyAccountRamUsage(a)
                    \/ \E a \in accts : ~Exists(a)
                    \/ \E a \in accts : ~WithinShare(a, units)
                    \/ ~WithinBlock(units)
<1>1. CASE Fails
  BY <1>1, RollbackRam DEF FinishTx
<1>2. CASE ~Fails
  <2>1. \A a \in validate : RamOkIn(Snapshot, a)
    BY <1>2, Zenon DEF VerifyAccountRamUsage, RamUsageOk, RamOkIn, EffIn,
                EffectiveLimits, Exists, Snapshot
  <2>2. \A a \in Accounts : RamOkIn(Snapshot, a)
    BY <2>1 DEF RHyp, RamInv
  <2>3. \A a \in accts : usage'[a].ram_usage = usage[a].ram_usage
    <3>1. \A a \in accts : usage[a] \in UsageRow
      BY <1>2, Zenon DEF RHyp, TypeInv, TypeOK, RowsOk, Snapshot, Exists
    <3>. QED
      BY <1>2, <3>1 DEF FinishTx, UsageRow
  <2>4. \A a \in Accounts \ accts : usage'[a] = usage[a]
    BY <1>2 DEF FinishTx
  <2>5. limits' = limits /\ pendingLimits' = pendingLimits
    BY <1>2 DEF FinishTx
  <2>6. \A a \in Accounts : RamOkIn(Snapshot, a)'
    BY <2>2, <2>3, <2>4, <2>5, Zenon DEF RamOkIn, EffIn, Snapshot
  <2>. QED
    BY <1>2, <2>6 DEF FinishTx, RamInv, InTx
<1>. QED
  BY <1>1, <1>2

LEMMA AbortTxRam ==
  ASSUME RHyp, AbortTx
  PROVE  RamInv'
BY RollbackRam DEF AbortTx

LEMMA StartFinalizeBlockRam ==
  ASSUME RHyp, StartFinalizeBlock
  PROVE  RamInv'
BY RamFrame DEF StartFinalizeBlock

\* Folding a pending row into the committed one keeps every account's
\* effective limits, so no account crosses its quota at the block boundary.
LEMMA ProcessAccountLimitUpdateRam ==
  ASSUME RHyp, NEW a \in Accounts, ProcessAccountLimitUpdate(a)
  PROVE  RamInv'
<1>1. pendingLimits[a] # NoRow /\ limits[a] # NoRow
  BY DEF ProcessAccountLimitUpdate, FirstPending, PendingOwners, RHyp,
         TypeInv, RowsOk, Snapshot
<1>2. /\ limits' = [limits EXCEPT ![a] = pendingLimits[a]]
      /\ pendingLimits' = [pendingLimits EXCEPT ![a] = NoRow]
      /\ usage' = usage /\ validate' = validate /\ undo' = undo
  BY DEF ProcessAccountLimitUpdate, CommittedRow
<1>3. \A b \in Accounts : /\ EffIn(Snapshot, b)' = EffIn(Snapshot, b)
                          /\ (limits'[b] # NoRow) = (limits[b] # NoRow)
  BY <1>1, <1>2, Zenon DEF EffIn, Snapshot, RHyp, TypeInv, TypeOK
<1>4. \A b \in Accounts : RamOkIn(Snapshot, b) => RamOkIn(Snapshot, b)'
  <2>1. SUFFICES ASSUME NEW b \in Accounts PROVE RamNow(b) => RamNow(b)'
    BY RamOkSnapshot
  <2>2. EffNow(b)' = EffNow(b)
    BY <1>3, Zenon DEF EffIn, EffNow, Snapshot
  <2>3. (limits'[b] # NoRow) = (limits[b] # NoRow) /\ usage' = usage
    BY <1>2, <1>3
  <2>. QED
    BY <2>2, <2>3 DEF RamNow
<1>. QED
  BY <1>2, <1>4 DEF RHyp, RamInv, InTx

LEMMA ProcessBlockUsageRam ==
  ASSUME RHyp, ProcessBlockUsage
  PROVE  RamInv'
BY RamFrame DEF ProcessBlockUsage

LEMMA InitRamInv == Init => RamInv
<1> SUFFICES ASSUME Init PROVE RamInv
  OBVIOUS
<1>1. validate = {} /\ ~InTx
  BY DEF Init, InTx
<1>2. ASSUME NEW a \in Accounts PROVE RamOkIn(Snapshot, a)
  <2>1. pendingLimits[a] = NoRow
    BY DEF Init
  <2>2. limits[a] = NoRow \/ limits[a] = DefaultLimits
    BY DEF Init
  <2>3. EffIn(Snapshot, a) = limits[a]
    BY <2>1, Zenon DEF EffIn, Snapshot
  <2>4. DefaultLimits.ram_bytes = -1
    BY DEF DefaultLimits
  <2>5. Snapshot.limits[a] = limits[a]
    BY DEF Snapshot
  <2>. QED
    BY <2>2, <2>3, <2>4, <2>5 DEF RamOkIn
<1>. QED
  BY <1>1, <1>2 DEF RamInv

LEMMA NextRamInv == RHyp /\ [Next]_vars => RamInv'
<1> SUFFICES ASSUME RHyp, [Next]_vars PROVE RamInv'
  OBVIOUS
<1>1. CASE BeginTx /\ UNCHANGED txOps
  BY <1>1, BeginTxRam
<1>2. ASSUME NEW a \in Accounts, TxCall(InitializeAccount(a))
      PROVE  RamInv'
  BY <1>2, InitializeAccountRam DEF TxCall
<1>3. ASSUME NEW a \in Accounts, TxCall(VerifyAccountGstUsage(a))
      PROVE  RamInv'
  BY <1>3, VerifyAccountGstUsageRam DEF TxCall
<1>4. ASSUME NEW a \in Accounts, NEW d \in RamDeltaChoices,
             TxCall(AddPendingRamUsage(a, d))
      PROVE  RamInv'
  BY <1>4, AddPendingRamUsageRam DEF TxCall
<1>5. ASSUME NEW a \in Accounts, NEW b \in GstBytesChoices,
             TxCall(SetGstLimits(a, b))
      PROVE  RamInv'
  BY <1>5, SetGstLimitsRam DEF TxCall
<1>6. ASSUME NEW a \in Accounts, NEW ram \in RamBytesChoices,
             NEW net \in WeightChoices, NEW cpu \in WeightChoices,
             TxCall(SetAccountLimits(a, ram, net, cpu))
      PROVE  RamInv'
  BY <1>6, SetAccountLimitsRam DEF TxCall
<1>7. ASSUME NEW p \in ParamChoices, TxCall(SetBlockParameters(p))
      PROVE  RamInv'
  BY <1>7, SetBlockParametersRam DEF TxCall
<1>8. ASSUME NEW f \in GasFlagChoices, TxCall(SetGasLimits(f))
      PROVE  RamInv'
  BY <1>8, SetGasLimitsRam DEF TxCall
<1>9. ASSUME NEW accts \in SUBSET Accounts \ {{}},
             TxCall(UpdateAccountUsage(accts))
      PROVE  RamInv'
  BY <1>9, UpdateAccountUsageRam DEF TxCall
<1>10. ASSUME NEW accts \in SUBSET Accounts \ {{}},
              NEW units \in [Res -> UsageChoices], FinishTx(accts, units)
       PROVE  RamInv'
  BY <1>10, FinishTxRam
<1>11. CASE AbortTx
  BY <1>11, AbortTxRam
<1>12. CASE StartFinalizeBlock
  BY <1>12, StartFinalizeBlockRam
<1>13. ASSUME NEW a \in Accounts, ProcessAccountLimitUpdate(a)
       PROVE  RamInv'
  BY <1>13, ProcessAccountLimitUpdateRam
<1>14. CASE ProcessBlockUsage
  BY <1>14, ProcessBlockUsageRam
<1>15. CASE UNCHANGED vars
  BY <1>15, Zenon DEF vars, RHyp, RamInv, RamOkIn, EffIn, Snapshot, InTx
<1>. QED
  BY <1>1, <1>2, <1>3, <1>4, <1>5, <1>6, <1>7, <1>8, <1>9, <1>10, <1>11,
     <1>12, <1>13, <1>14, <1>15
  DEF Next, TxStep, BlockStep

\* Outside a transaction no account uses more RAM than its RAM limit (the
\* pending one if set), for every set of accounts, every bound and every
\* interleaving of transactions, rollbacks and block commits: growth of
\* RAM use (add_pending_ram_usage) and decreases of the limit
\* (set_account_limits) both put the account on the list that
\* transaction_context::finalize checks with verify_account_ram_usage.
THEOREM RamQuota == Spec => []RamUsageWithinLimit
<1>1. Init => TypeInv /\ RamInv
  BY InitTypeInv, InitRamInv
<1>2. TypeInv /\ RamInv /\ [Next]_vars => TypeInv' /\ RamInv'
  BY NextTypeInv, NextRamInv DEF RHyp
<1>3. TypeInv /\ RamInv => RamUsageWithinLimit
  BY Zenon DEF RamInv, RamOkIn, EffIn, Snapshot, RamUsageWithinLimit,
         EffectiveLimits, Exists
<1>. QED
  BY <1>1, <1>2, <1>3, PTL DEF Spec
-----------------------------------------------------------------------------
(* The block boundary keeps the effective limits.                          *)

\* finalize_block runs between transactions: no transaction is open while
\* the commit loop runs.
CommitInv == phase = "commit" => ~InTx

\* Every manager call runs inside a transaction and leaves the phase alone.
LEMMA TxStepShape ==
  ASSUME TxStep
  PROVE  InTx /\ phase' = phase
<1>1. ASSUME NEW a \in Accounts, InitializeAccount(a) PROVE phase' = phase
  BY <1>1, Zenon DEF InitializeAccount, Rollback
<1>2. ASSUME NEW a \in Accounts, VerifyAccountGstUsage(a) PROVE phase' = phase
  BY <1>2 DEF VerifyAccountGstUsage, Rollback
<1>3. ASSUME NEW a \in Accounts, NEW d \in RamDeltaChoices,
             AddPendingRamUsage(a, d)
      PROVE  phase' = phase
  BY <1>3 DEF AddPendingRamUsage, Rollback
<1>4. ASSUME NEW a \in Accounts, NEW b \in GstBytesChoices, SetGstLimits(a, b)
      PROVE  phase' = phase
  BY <1>4 DEF SetGstLimits, Rollback
<1>5. ASSUME NEW a \in Accounts, NEW ram \in RamBytesChoices,
             NEW net \in WeightChoices, NEW cpu \in WeightChoices,
             SetAccountLimits(a, ram, net, cpu)
      PROVE  phase' = phase
  BY <1>5 DEF SetAccountLimits, Rollback
<1>6. ASSUME NEW p \in ParamChoices, SetBlockParameters(p) PROVE phase' = phase
  BY <1>6 DEF SetBlockParameters, Rollback
<1>7. ASSUME NEW accts \in SUBSET Accounts, UpdateAccountUsage(accts)
      PROVE  phase' = phase
  BY <1>7 DEF UpdateAccountUsage, Rollback
<1>8. ASSUME NEW accts \in SUBSET Accounts, NEW units \in [Res -> UsageChoices],
             FinishTx(accts, units)
      PROVE  phase' = phase
  BY <1>8 DEF FinishTx, Rollback
<1>. QED
  BY <1>1, <1>2, <1>3, <1>4, <1>5, <1>6, <1>7, <1>8, Zenon
  DEF TxStep, TxCall, InitializeAccount, VerifyAccountGstUsage,
      AddPendingRamUsage, SetGstLimits, SetAccountLimits, SetBlockParameters,
      SetGasLimits, UpdateAccountUsage, FinishTx, AbortTx, Rollback

LEMMA CommitInvariant == Spec => []CommitInv
<1>1. Init => CommitInv
  BY DEF Init, CommitInv, InTx
<1>2. CommitInv /\ [Next]_vars => CommitInv'
  <2> SUFFICES ASSUME CommitInv, [Next]_vars, phase' = "commit"
               PROVE  ~InTx'
    BY DEF CommitInv
  <2>1. CASE TxStep
    BY <2>1, TxStepShape DEF CommitInv
  <2>2. CASE BeginTx /\ UNCHANGED txOps
    BY <2>2 DEF BeginTx
  <2>3. CASE BlockStep
    BY <2>3, Zenon DEF BlockStep, StartFinalizeBlock, ProcessAccountLimitUpdate,
                ProcessBlockUsage, CommitInv, InTx
  <2>4. CASE UNCHANGED vars
    BY <2>4 DEF vars, CommitInv, InTx
  <2>. QED
    BY <2>1, <2>2, <2>3, <2>4 DEF Next
<1>. QED
  BY <1>1, <1>2, PTL DEF Spec

\* No step of the commit phase changes what get_account_limits returns.
LEMMA CommitStepKeepsLimits ==
  ASSUME TypeInv, CommitInv, [Next]_vars, phase = "commit"
  PROVE  \A a \in Accounts : Exists(a) => EffectiveLimits(a)' = EffectiveLimits(a)
<1>1. CASE \E a \in Accounts : ProcessAccountLimitUpdate(a)
  <2>1. PICK a \in Accounts : ProcessAccountLimitUpdate(a)
    BY <1>1
  <2>2. pendingLimits[a] # NoRow
    BY <2>1 DEF ProcessAccountLimitUpdate, FirstPending, PendingOwners
  <2>3. /\ limits' = [limits EXCEPT ![a] = pendingLimits[a]]
        /\ pendingLimits' = [pendingLimits EXCEPT ![a] = NoRow]
    BY <2>1 DEF ProcessAccountLimitUpdate, CommittedRow
  <2>. QED
    BY <2>2, <2>3 DEF EffectiveLimits, TypeInv, TypeOK
<1>2. CASE ~\E a \in Accounts : ProcessAccountLimitUpdate(a)
  <2>1. ~TxStep
    BY TxStepShape DEF CommitInv
  <2>2. limits' = limits /\ pendingLimits' = pendingLimits
    BY <1>2, <2>1 DEF Next, BlockStep, BeginTx, StartFinalizeBlock,
                      ProcessBlockUsage, vars
  <2>. QED
    BY <2>2 DEF EffectiveLimits
<1>. QED
  BY <1>1, <1>2

\* A step of finalize_block never changes any account's effective limits:
\* the row-by-row commit loop of process_account_limit_updates moves each
\* pending row into the committed table without changing what
\* get_account_limits returns, and no transaction runs meanwhile.
THEOREM CommitKeepsLimits == Spec => CommitPreservesEffectiveLimits
<1>1. TypeInv /\ CommitInv /\ [Next]_vars
        => [phase = "commit" =>
              \A a \in Accounts : Exists(a) => EffectiveLimits(a)' = EffectiveLimits(a)]_vars
  BY CommitStepKeepsLimits
<1>. QED
  BY <1>1, TypeInvariant, CommitInvariant, PTL
     DEF Spec, CommitPreservesEffectiveLimits
====
