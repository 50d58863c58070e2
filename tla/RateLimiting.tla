---------------------------- MODULE RateLimiting ----------------------------
(***************************************************************************)
(* The pure arithmetic the resource limits manager is built from:          *)
(*   - multiplication of a 64-bit value by a ratio (resource_limits_       *)
(*     private.hpp, not in this source tree: modelled from the spec §4.2,  *)
(*     "(x * numerator) / denominator in u128 space");                     *)
(*   - the exponential block-average accumulator (resource_limits_         *)
(*     private.hpp, modelled from the spec §4.1);                          *)
(*   - elastic_limit_parameters::validate and update_elastic_limit         *)
(*     (resource_limits.cpp lines 23-39).                                  *)
(* No variables: the manager module instantiates these operators.          *)
(***************************************************************************)
EXTENDS Naturals

CONSTANTS
  RatePrecision,   \* config::rate_limiting_precision
  U64Max           \* UINT64_MAX, scaled down for model checking

\* Both are positive (resource_limits.cpp line 21: static_assert(
\* rate_limiting_precision > 0)); the instantiating module ResourceLimits
\* states this in its ConstantsAssumption.

U64 == 0..U64Max

Ratio == [numerator : Nat, denominator : Nat]

ElasticParams ==
  [target : Nat, max : Nat, periods : Nat, max_multiplier : Nat,
   contract_rate : Ratio, expand_rate : Ratio]

\* value * ratio, computed as (value * numerator) / denominator.
RatioMul(value, r) == (value * r.numerator) \div r.denominator

\* elastic_limit_parameters::validate(): the checks that must hold for
\* set_block_parameters to accept a parameter set.
ValidParams(p) ==
  /\ p.periods > 0
  /\ p.contract_rate.denominator > 0
  /\ p.expand_rate.denominator > 0

\* Mutant: the clamp has no lower bound.
UpdateElasticLimitNoFloor(current, average, p) ==
  LET result == IF average > p.target
                  THEN RatioMul(current, p.contract_rate)
                  ELSE RatioMul(current, p.expand_rate)
      hi     == (p.max * p.max_multiplier) % (U64Max + 1)
  IN  IF result < hi THEN result ELSE hi

\* update_elastic_limit: contract when the average is above target, expand
\* otherwise, then clamp to [max, max * max_multiplier].  The product
\* max * max_multiplier is computed in uint64_t, hence the modulus.
UpdateElasticLimit(current, average, p) ==
  LET result == IF average > p.target
                  THEN RatioMul(current, p.contract_rate)
                  ELSE RatioMul(current, p.expand_rate)
      lo     == IF result > p.max THEN result ELSE p.max
      hi     == (p.max * p.max_multiplier) % (U64Max + 1)
  IN  IF lo < hi THEN lo ELSE hi

(***************************************************************************)
(* The exponential moving average (spec §4.1).  The raw "consumed" field   *)
(* is not read by any code of the manager and is left out.                 *)
(***************************************************************************)
Ema == [last_ordinal : Nat, value_ex : Nat]

EmaZero == [last_ordinal |-> 0, value_ex |-> 0]

\* Mutant: the average is never decayed.
EmaAddNoDecay(e, units, ordinal, window) ==
  [last_ordinal |-> ordinal,
   value_ex     |-> e.value_ex + (units * RatePrecision) \div window]

\* add(units, ordinal, window): decay by (W - delta)/W, or to zero when a
\* whole window has passed, then add units * RatePrecision / W.
EmaAdd(e, units, ordinal, window) ==
  LET delta   == ordinal - e.last_ordinal
      decayed == IF ordinal <= e.last_ordinal THEN e.value_ex
                 ELSE IF delta >= window THEN 0
                 ELSE (e.value_ex * (window - delta)) \div window
  IN  [last_ordinal |-> ordinal,
       value_ex     |-> decayed + (units * RatePrecision) \div window]

\* average(): value_ex / RatePrecision, rounded down.
EmaAverage(e) == e.value_ex \div RatePrecision

\* The usage in the current window, as add_transaction_usage computes it
\* (value_ex * window / RatePrecision, rounded down).
UsedInWindow(e, window) == (e.value_ex * window) \div RatePrecision

\* The largest use of the window an account of the given weight is entitled
\* to: capacity * weight / total_weight.
MaxUserUseInWindow(limit, window, weight, total) ==
  ((limit * window) * weight) \div total

\* The usage in the current window as get_account_cpu_limit_ex reports it:
\* impl::integer_divide_ceil(value_ex * window, RatePrecision).
UsedInWindowCeil(e, window) ==
  (e.value_ex * window + RatePrecision - 1) \div RatePrecision
=============================================================================
