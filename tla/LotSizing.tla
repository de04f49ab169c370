----------------------------- MODULE LotSizing -----------------------------
(***************************************************************************)
(* The volume arithmetic of manager/engine/transform.py: how the manager   *)
(* sizes a slave's order (calculate_slave_lot, _snap_clamp) and how the    *)
(* worker splits one that exceeds the symbol's volume_max (split_volume).  *)
(*                                                                         *)
(* Volumes are whole numbers of a lot unit, LotUnits of which make one     *)
(* lot (100 units: volumes in hundredths of a lot); balances are whole     *)
(* numbers of the account currency.  The code computes in floats and adds  *)
(* 1e-9 before every floor so that a quotient a few ulps below a whole     *)
(* number counts as that number: its floors are the exact ones below.      *)
(* round(x, digits) rounds a tie to the even neighbour, as Python does for *)
(* ties a float represents exactly (halves and quarters of a lot); decimal *)
(* ties such as 0.15 are not exact in binary and may go either way in the  *)
(* code.  No property below depends on such a tie.                         *)
(***************************************************************************)
EXTENDS Integers, Sequences

LotUnits == 100

MinOf(a, b) == IF a <= b THEN a ELSE b
MaxOf(a, b) == IF a >= b THEN a ELSE b

Tenth(digits) == CASE digits = 0 -> LotUnits
                   [] digits = 1 -> LotUnits \div 10
                   [] OTHER      -> LotUnits \div 100

(* int(round(-log10(step))): the digit count _snap_clamp rounds to.        *)
SnapDigits(step) ==
  IF 10 * step * step >= LotUnits * LotUnits THEN 0
  ELSE IF 1000 * step * step >= LotUnits * LotUnits THEN 1 ELSE 2

(* int(ceil(-log10(step))): the digit count split_volume rounds to.        *)
SplitDigits(step) ==
  IF step >= LotUnits THEN 0 ELSE IF 10 * step >= LotUnits THEN 1 ELSE 2

(* round(x, digits), half to even.                                         *)
RoundTo(x, digits) ==
  LET q   == Tenth(digits)
      low == x \div q
      rem == x % q
  IN  IF 2 * rem < q \/ (2 * rem = q /\ low % 2 = 0) THEN low * q
                                                     ELSE (low + 1) * q

(* Mutants of SnapClamp: no cap; round to the nearest step.                *)
UncappedClamp(num, den, step, min, max) ==
  IF step <= 0 THEN 0
  ELSE RoundTo(MaxOf((num \div (den * step)) * step, min), SnapDigits(step))

NearestClamp(num, den, step, min, max) ==
  IF step <= 0 THEN 0
  ELSE LET snapped == ((2 * num + den * step) \div (2 * den * step)) * step
       IN  RoundTo(MinOf(MaxOf(snapped, min), max), SnapDigits(step))

(* Snap num/den lots down to the grid, clamp up to min, cap at max, round. *)
SnapClamp(num, den, step, min, max) ==
  IF step <= 0 THEN 0
  ELSE LET snapped == (num \div (den * step)) * step
       IN  RoundTo(MinOf(MaxOf(snapped, min), max), SnapDigits(step))

(* Mutant of CalculateSlaveLot: the base lot scales up as well as down.    *)
ScalesBothWays(cfg, master_volume, balance, info) ==
  LET Raw == (balance \div cfg.step_amount) * cfg.step_size
  IN  IF cfg.sizing_mode # "balance_step" \/ cfg.step_amount <= 0 THEN 0
      ELSE IF cfg.master_base_lot > 0
        THEN SnapClamp(Raw * master_volume, cfg.master_base_lot,
                       info.volume_step, info.volume_min, cfg.max_lot)
      ELSE SnapClamp(Raw, 1, info.volume_step, info.volume_min, cfg.max_lot)

(***************************************************************************)
(* cfg holds the sizing fields of SlaveConfig; info the volume fields of   *)
(* SymbolInfo.  0 means "skip the trade".                                  *)
(***************************************************************************)
CalculateSlaveLot(cfg, master_volume, balance, info) ==
  LET Snap(num, den) ==
        SnapClamp(num, den, info.volume_step, info.volume_min, cfg.max_lot)
      Raw    == (balance \div cfg.step_amount) * cfg.step_size
      Scaled == cfg.master_base_lot > 0 /\ master_volume < cfg.master_base_lot
  IN CASE cfg.sizing_mode = "balance_step" ->
            IF cfg.step_amount <= 0 \/ cfg.step_size <= 0 THEN 0
            ELSE IF Scaled THEN Snap(Raw * master_volume, cfg.master_base_lot)
                           ELSE Snap(Raw, 1)
       [] cfg.sizing_mode = "copy_master" -> Snap(master_volume, 1)
       [] cfg.sizing_mode = "fixed_lot" ->
            IF cfg.fixed_lot <= 0 THEN 0 ELSE Snap(cfg.fixed_lot, 1)
       [] OTHER -> 0

(* Mutant of SplitVolume: the remainder is sent, however small it is.      *)
SendsAnyRemainder(total, volume_max, volume_step, volume_min) ==
  [i \in 1..(total \div volume_max) |-> volume_max]
    \o (IF total % volume_max = 0 THEN << >> ELSE << total % volume_max >>)

(***************************************************************************)
(* The chunks an oversized OPEN is sent in.                                *)
(***************************************************************************)
SplitVolume(total, volume_max, volume_step, volume_min) ==
  IF total <= 0 \/ volume_step <= 0 \/ volume_max <= 0 THEN << total >>
  ELSE
  LET max_steps   == volume_max \div volume_step
      total_steps == total \div volume_step
  IN
  IF max_steps < 1 \/ total <= volume_max THEN << total >>
  ELSE
  LET n_fill    == total_steps \div max_steps
      rem_steps == total_steps - n_fill * max_steps
      Lots(steps) == RoundTo(steps * volume_step, SplitDigits(volume_step))
      Full(n)   == [i \in 1..n |-> Lots(max_steps)]
      n         == n_fill + 1
      base      == total_steps \div n
      extra     == total_steps - base * n
  IN CASE rem_steps = 0 -> Full(n_fill)
       [] rem_steps > 0 /\ rem_steps * volume_step >= volume_min ->
            Append(Full(n_fill), Lots(rem_steps))
       [] OTHER ->
            [i \in 1..n |-> Lots(base + IF i <= extra THEN 1 ELSE 0)]
=============================================================================
