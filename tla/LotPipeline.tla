----------------------------- MODULE LotPipeline -----------------------------
(***************************************************************************)
(* The way of one volume through the program: the engine sizes the slave's *)
(* order (derive_command, NEW), the worker splits it when the symbol's     *)
(* volume_max is smaller (execute_command, OPEN, hedging account).  The    *)
(* two steps run in two processes and meet only in CommandMsg.volume, so   *)
(* what the one guarantees is what the other has to start from.            *)
(***************************************************************************)
EXTENDS LotSizing, FiniteSets, FiniteSetsExt, SequencesExt

CONSTANTS
  SizingConfigs,   \* sizing fields of the slave configurations tried
  Infos,           \* volume_step, volume_min, volume_max of the symbols tried
  MasterVolumes,   \* volumes of the master position
  Balances         \* balances the slave account reports

ASSUME PipelineConstants ==
  /\ SizingConfigs \subseteq
       [sizing_mode : {"balance_step", "copy_master", "fixed_lot"},
        step_amount : Int, step_size : Int, master_base_lot : Int,
        fixed_lot : Int, max_lot : Nat]
  /\ Infos \subseteq [volume_step : Nat \ {0}, volume_min : Nat \ {0},
                      volume_max : Nat \ {0}]
  /\ MasterVolumes \subseteq Nat \ {0}
  /\ Balances \subseteq Int

VARIABLES
  phase,           \* "new", "sized", "skipped", "split"
  input,           \* what the engine sizes from
  lot,             \* CommandMsg.volume
  parts            \* the orders the worker sends for it

vars == << phase, input, lot, parts >>

Init ==
  /\ phase = "new"
  /\ input \in [cfg : SizingConfigs, info : Infos,
                master_volume : MasterVolumes, balance : Balances]
  /\ lot = 0
  /\ parts = << >>

(* derive_command: a lot of 0 or less skips the trade.                     *)
Size ==
  /\ phase = "new"
  /\ lot' = CalculateSlaveLot(input.cfg, input.master_volume, input.balance,
                              input.info)
  /\ phase' = IF lot' <= 0 THEN "skipped" ELSE "sized"
  /\ UNCHANGED << input, parts >>

(* execute_command, OPEN: only a volume above volume_max is split.         *)
Split ==
  /\ phase = "sized"
  /\ parts' = IF lot > input.info.volume_max
                THEN SplitVolume(lot, input.info.volume_max,
                                 input.info.volume_step, input.info.volume_min)
                ELSE << lot >>
  /\ phase' = "split"
  /\ UNCHANGED << input, lot >>

Next == Size \/ Split

Spec == Init /\ [][Next]_vars

-----------------------------------------------------------------------------
Total(s) == SumFunction(s)

(* The sizes a configuration and a symbol allow: multiples of volume_step  *)
(* from volume_min to the slave's max_lot.                                 *)
Allowed(cfg, info) ==
  {v \in info.volume_min..cfg.max_lot : v % info.volume_step = 0}

(* The slave's max_lot is itself a multiple of the symbol's volume_step.   *)
CapOnGrid == input.cfg.max_lot % input.info.volume_step = 0

(* README: the lot is "rounded down to the symbol's lot step, clamped to   *)
(* its min/max".  With a cap on the grid, a size that is sent is the       *)
(* largest allowed one that does not exceed what the sizing mode asks for, *)
(* or the smallest allowed one when it asks for less; the raw size is      *)
(* cross-multiplied, not divided.                                          *)
LargestAllowedFit ==
  (phase = "sized" /\ CapOnGrid) =>
    LET cfg == input.cfg
        mv  == input.master_volume
        ok  == Allowed(cfg, input.info)
        raw == (input.balance \div cfg.step_amount) * cfg.step_size
        Fits(v) ==
          CASE cfg.sizing_mode = "copy_master" -> v <= mv
            [] cfg.sizing_mode = "fixed_lot"   -> v <= cfg.fixed_lot
            [] cfg.sizing_mode = "balance_step" ->
                 IF cfg.master_base_lot > mv
                   THEN v * cfg.master_base_lot <= raw * mv
                   ELSE v <= raw
        fit == {v \in ok : Fits(v)}
    IN  lot = IF fit = {} THEN Min(ok) ELSE Max(fit)

(* "The per-slave max lot still caps the copied total" (README): no order  *)
(* is sized above the slave's max_lot.                                     *)
LotWithinCap == lot <= input.cfg.max_lot

(* ... where max_lot is a volume the symbol can be traded in: the rounding *)
(* after the cap must not leave it.                                        *)
LotWithinGridCap == CapOnGrid => LotWithinCap

(* calculate_slave_lot "never scales up": a base lot only ever makes an    *)
(* order smaller, and a bigger balance never makes it smaller.             *)
ScalingIsMonotone ==
  phase = "sized" =>
    LET Lot(cfg, b) == CalculateSlaveLot(cfg, input.master_volume, b, input.info)
    IN  /\ lot <= Lot([input.cfg EXCEPT !.master_base_lot = 0], input.balance)
        /\ \A b \in Balances : b >= input.balance => Lot(input.cfg, b) >= lot

Conserves == Total(parts) = lot

(* On the symbol's grid and between its volume_min and volume_max.         *)
Tradable(volume) ==
  /\ volume % input.info.volume_step = 0
  /\ volume \in input.info.volume_min..input.info.volume_max

LargestChunk ==
  (input.info.volume_max \div input.info.volume_step) * input.info.volume_step

(* The orders the worker sends add up to the volume the engine asked for   *)
(* (rounding, the remainder and the rebalanced split lose and add          *)
(* nothing), the broker can accept each of them, and they are as few as    *)
(* volume_max allows: one leg less could not hold the volume.              *)
SplitIsRight ==
  phase = "split" =>
    /\ Conserves
    /\ \A i \in DOMAIN parts : Tradable(parts[i])
    /\ (Len(parts) - 1) * LargestChunk < lot

(* split_volume's docstring: a remainder below volume_min is "only         *)
(* possible when volume_max is not a volume_step multiple"; otherwise the  *)
(* first chunk is a full volume_max.                                       *)
RebalanceOnlyOffGrid ==
  (phase = "split" /\ Len(parts) > 1
     /\ input.info.volume_max % input.info.volume_step = 0)
    => parts[1] = input.info.volume_max

=============================================================================
