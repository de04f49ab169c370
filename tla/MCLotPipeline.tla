--------------------------- MODULE MCLotPipeline ---------------------------
(* Small instances of LotPipeline: volumes in hundredths of a lot.         *)
EXTENDS LotPipeline

Cfg(mode, amount, size, base, fixed, cap) ==
  [sizing_mode |-> mode, step_amount |-> amount, step_size |-> size,
   master_base_lot |-> base, fixed_lot |-> fixed, max_lot |-> cap]

MCConfigs ==
  {Cfg("balance_step", 100, 10, base, 0, cap) : base \in {0, 50}, cap \in {30, 120}}
  \cup {Cfg("copy_master", 0, 0, 0, 0, cap) : cap \in {30, 36, 75, 120, 150, 300}}
  \cup {Cfg("fixed_lot", 0, 0, 0, fixed, 120) : fixed \in {0, 45, 110}}
  \cup {Cfg("balance_step", 0, 10, 0, 0, 30)}

Info(step, min, max) ==
  [volume_step |-> step, volume_min |-> min, volume_max |-> max]

(* Lot steps of 0.01, 0.1 and 1 lot; volume_max on and off the grid.       *)
MCDecimalInfos ==
  {Info(1, 1, 25), Info(1, 3, 25), Info(10, 10, 50), Info(10, 10, 45),
   Info(10, 20, 30), Info(100, 100, 100)}

(* Lot steps of half and quarter lots as well, which brokers use too.      *)
MCAllInfos == MCDecimalInfos \cup {Info(50, 50, 100), Info(25, 25, 100)}

MCVolumes == {1, 7, 20, 33, 50, 75, 110, 150}
MCBalances == {0, 90, 250, 1000}

(* Symbols with a volume_max on the grid only: the docstring's condition.  *)
MCOnGridInfos == {Info(10, 20, 30), Info(10, 30, 100), Info(1, 1, 25)}
=============================================================================
