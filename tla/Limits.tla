-------------------------------- MODULE Limits --------------------------------
(***************************************************************************)
(* Quota and spend cap of a tenant (limits.rs of mcp-usage-core), and the  *)
(* money a call costs (admission.rs of mcp-usage-edge).  Totals that do    *)
(* not fit the machine's word are refused; they never wrap.                *)
(***************************************************************************)
EXTENDS Naturals

CONSTANTS
  MaxWord,  \* the largest number a u64 holds
  Absent    \* no limit

Fits(n) == n <= MaxWord

IsOver(n, limit) == limit # Absent /\ n > limit

\* The totals if the units are granted: what a limit admits may reach it.
Granted(current, units, unit_price_micros) ==
  [units |-> current.units + units,
   spend_micros |-> current.spend_micros + units * unit_price_micros]

\* assess_limits(): in this order.
AssessLimits(current, units, unit_price_micros, limits) ==
  LET total == Granted(current, units, unit_price_micros) IN
  IF ~Fits(total.units) THEN "usage_unrepresentable"
  ELSE IF IsOver(total.units, limits.max_units) THEN "quota_exceeded"
  ELSE IF ~Fits(total.spend_micros) THEN "usage_unrepresentable"
  ELSE IF IsOver(total.spend_micros, limits.max_spend_micros) THEN "spend_cap_exceeded"
  ELSE "allowed"

MicrosPerMinor == 10000

\* minor_units(): rounded up, so that no call is sold for less than it costs.
MinorUnits(units, unit_price_micros, unpriced) ==
  IF Fits(units * unit_price_micros)
  THEN (units * unit_price_micros + MicrosPerMinor - 1) \div MicrosPerMinor
  ELSE unpriced
===============================================================================
