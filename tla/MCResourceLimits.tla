------------------------- MODULE MCResourceLimits -------------------------
(***************************************************************************)
(* Small instances of ResourceLimits for TLC.                              *)
(***************************************************************************)
EXTENDS ResourceLimitsRefinement

\* Some fixed order of the account names (the owner index order).
MCAccountRank ==
  CHOOSE f \in [Accounts -> 1..Cardinality(Accounts)] :
    \A a, b \in Accounts : f[a] = f[b] => a = b

\* One parameter set for both resources: target 1 of a block maximum of 3,
\* an average over 2 blocks, a virtual limit of up to twice the maximum,
\* contraction by 1/2 and expansion by 3/2.
MCBaseParams ==
  [target |-> 1, max |-> 3, periods |-> 2, max_multiplier |-> 2,
   contract_rate |-> [numerator |-> 1, denominator |-> 2],
   expand_rate |-> [numerator |-> 3, denominator |-> 2]]

MCInitParams == [r \in Res |-> MCBaseParams]

MCInitWindows == [r \in Res |-> 2]

\* set_block_parameters is offered the default set, one that lowers the
\* cpu maximum to 1, and one that validate() refuses (periods = 0).
MCParamChoices ==
  { MCInitParams,
    [MCInitParams EXCEPT !["cpu"].max = 1],
    [MCInitParams EXCEPT !["cpu"].periods = 0] }

\* set_block_parameters offered the parameters in force and a set that
\* validate() refuses.
MCKeepParamChoices ==
  { MCInitParams, [MCInitParams EXCEPT !["cpu"].periods = 0] }

\* -1 is the "unlimited" value of a limit or a weight.
MCLimitChoices == {-1, 1}
MCRamDeltaChoices == {-1, 0, 1}

\* Gas balances offered to set_gst_limits, -1 (unlimited) among them.
MCGstUnlimitedChoices == {-1, 1, 2}

\* set_block_parameters offered the parameters in force and a set that
\* validate() accepts whose max * max_multiplier (3 * 3) exceeds U64Max = 7.
MCWrapParamChoices ==
  { MCInitParams, [MCInitParams EXCEPT !["cpu"].max_multiplier = 3] }

\* A one-block usage window: the whole capacity of the window (at most
\* max * max_multiplier = 6) fits in int64_t (I64Max = 7 for U64Max = 15).
MCWindowOne == [r \in Res |-> 1]

\* A small weight and one near INT64_MAX.
MCWideWeightChoices == {1, 7}
=============================================================================
