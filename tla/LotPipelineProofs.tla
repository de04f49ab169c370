------------------------- MODULE LotPipelineProofs -------------------------
(***************************************************************************)
(* The sizes and chunks of orders, for every configuration, volume and     *)
(* balance.  What depends on a rounding holds on symbols whose lot step is *)
(* 1, 0.1 or 0.01 lots.                                                    *)
(***************************************************************************)
EXTENDS LotPipeline, LotSizingProofs

(* Symbols with a decimal lot step and a volume_min on their grid.         *)
DecimalSymbols ==
  \A info \in Infos : /\ info.volume_step \in DecimalSteps
                      /\ OnGrid(info.volume_min, info.volume_step)

(* What an order is sized from.                                            *)
InputOK ==
  input \in [cfg : SizingConfigs, info : Infos,
             master_volume : MasterVolumes, balance : Balances]

CapInv == InputOK /\ lot \in Int /\ LotWithinGridCap

LEMMA InitCapInv == Init => CapInv
<1> SUFFICES ASSUME Init PROVE CapInv
  OBVIOUS
<1>1. InputOK /\ lot = 0
  BY DEF Init, InputOK
<1>2. input.cfg.max_lot \in Nat
  BY <1>1, PipelineConstants DEF InputOK
<1> QED
  BY <1>1, <1>2 DEF CapInv, LotWithinGridCap, LotWithinCap

LEMMA NextCapInv ==
  ASSUME DecimalSymbols, CapInv, [Next]_vars
  PROVE  CapInv'
<1>1. CASE Size
  <2> DEFINE cfg == input.cfg
             info == input.info
             size == CalculateSlaveLot(cfg, input.master_volume, input.balance,
                                       info)
  <2>1. input' = input /\ lot' = size
    BY <1>1 DEF Size
  <2>2. /\ cfg \in SizingConfigs /\ info \in Infos
        /\ input.master_volume \in Int /\ input.balance \in Int
    <3>1. /\ cfg \in SizingConfigs /\ info \in Infos
          /\ input.master_volume \in MasterVolumes /\ input.balance \in Balances
      BY DEF CapInv, InputOK
    <3>2. MasterVolumes \subseteq Int /\ Balances \subseteq Int
      BY PipelineConstants
    <3> QED
      BY <3>1, <3>2
  <2>3. /\ cfg.sizing_mode \in {"balance_step", "copy_master", "fixed_lot"}
        /\ cfg.step_amount \in Int /\ cfg.step_size \in Int
        /\ cfg.master_base_lot \in Int /\ cfg.fixed_lot \in Int
        /\ cfg.max_lot \in Nat
    BY <2>2, PipelineConstants
  <2>4. /\ info.volume_step \in DecimalSteps /\ info.volume_min \in Int
        /\ OnGrid(info.volume_min, info.volume_step)
    BY <2>2, PipelineConstants DEF DecimalSymbols
  <2> HIDE DEF cfg, info
  <2>5. size \in Int
    BY <2>2, <2>3, <2>4, SlaveLotInt DEF DecimalSteps
  <2>6. OnGrid(cfg.max_lot, info.volume_step) => size <= cfg.max_lot
    BY <2>2, <2>3, <2>4, SlaveLotCapped
  <2> HIDE DEF size
  <2>7. (CapOnGrid => LotWithinCap)'
    BY <2>1, <2>6 DEF CapOnGrid, OnGrid, LotWithinCap, cfg, info
  <2> QED
    BY <2>1, <2>5, <2>7 DEF CapInv, InputOK, LotWithinGridCap
<1>2. CASE Split
  BY <1>2 DEF Split, CapInv, InputOK, LotWithinGridCap, LotWithinCap, CapOnGrid
<1>3. CASE UNCHANGED vars
  BY <1>3 DEF vars, CapInv, InputOK, LotWithinGridCap, LotWithinCap, CapOnGrid
<1> QED
  BY <1>1, <1>2, <1>3 DEF Next

(* No order is sized above the slave's max_lot where max_lot is a volume   *)
(* the symbol can be traded in.                                            *)
THEOREM CapHolds ==
  ASSUME DecimalSymbols
  PROVE  Spec => []LotWithinGridCap
<1>1. Init => CapInv
  BY InitCapInv
<1>2. CapInv /\ [Next]_vars => CapInv'
  BY NextCapInv
<1>3. CapInv => LotWithinGridCap
  BY DEF CapInv
<1> QED
  BY <1>1, <1>2, <1>3, PTL DEF Spec

-----------------------------------------------------------------------------
(* Each variable is what the step that sets it computes from the others.   *)
PipeInv ==
  /\ InputOK
  /\ phase \in {"new", "sized", "skipped", "split"}
  /\ phase \in {"sized", "split"} =>
       /\ lot = CalculateSlaveLot(input.cfg, input.master_volume, input.balance,
                                  input.info)
       /\ lot \in Int /\ lot > 0
  /\ phase = "split" =>
       parts = IF lot > input.info.volume_max
                 THEN SplitVolume(lot, input.info.volume_max,
                                  input.info.volume_step, input.info.volume_min)
                 ELSE << lot >>

(* What an input is made of.                                               *)
LEMMA InputTypes ==
  ASSUME InputOK
  PROVE  /\ input.cfg \in SizingConfigs /\ input.info \in Infos
         /\ SizingOK(input.cfg)
         /\ input.master_volume \in Nat \ {0} /\ input.balance \in Int
         /\ input.info.volume_step \in Nat \ {0}
         /\ input.info.volume_min \in Nat \ {0}
         /\ input.info.volume_max \in Nat \ {0}
<1>1. /\ input.cfg \in SizingConfigs /\ input.info \in Infos
      /\ input.master_volume \in MasterVolumes /\ input.balance \in Balances
  BY DEF InputOK
<1>2. /\ MasterVolumes \subseteq Nat \ {0} /\ Balances \subseteq Int
  BY PipelineConstants
<1>3. /\ input.info.volume_step \in Nat \ {0}
      /\ input.info.volume_min \in Nat \ {0}
      /\ input.info.volume_max \in Nat \ {0}
  BY <1>1, PipelineConstants
<1>4. SizingOK(input.cfg)
  BY <1>1, PipelineConstants DEF SizingOK
<1> QED
  BY <1>1, <1>2, <1>3, <1>4

LEMMA SizeIsInt ==
  ASSUME InputOK
  PROVE  CalculateSlaveLot(input.cfg, input.master_volume, input.balance,
                           input.info) \in Int
<1> DEFINE cfg == input.cfg
           info == input.info
<1>1. /\ SizingOK(cfg) /\ input.master_volume \in Int /\ input.balance \in Int
      /\ info.volume_step \in Int /\ info.volume_min \in Int
  BY InputTypes
<1> HIDE DEF cfg, info
<1>2. CalculateSlaveLot(cfg, input.master_volume, input.balance, info) \in Int
  BY <1>1, SlaveLotInt DEF SizingOK
<1> QED
  BY <1>2 DEF cfg, info

LEMMA PipeInvariant == Spec => []PipeInv
<1>1. Init => PipeInv
  BY DEF Init, PipeInv, InputOK
<1>2. PipeInv /\ [Next]_vars => PipeInv'
  <2> SUFFICES ASSUME PipeInv, [Next]_vars PROVE PipeInv'
    OBVIOUS
  <2> DEFINE size == CalculateSlaveLot(input.cfg, input.master_volume,
                                       input.balance, input.info)
  <2>1. size \in Int
    BY SizeIsInt DEF PipeInv
  <2> HIDE DEF size
  <2>2. CASE Size
    <3>1. /\ input' = input /\ lot' = size
          /\ phase' = IF size <= 0 THEN "skipped" ELSE "sized"
      BY <2>2 DEF Size, size
    <3>2. InputOK' /\ size' = size
      BY <3>1 DEF PipeInv, InputOK, size
    <3>3. phase' \in {"new", "sized", "skipped", "split"} /\ phase' # "split"
      BY <3>1
    <3>4. phase' = "sized" => lot' = size' /\ lot' \in Int /\ lot' > 0
      BY <2>1, <3>1, <3>2
    <3> QED
      BY <3>2, <3>3, <3>4 DEF PipeInv, size
  <2>3. CASE Split
    BY <2>3 DEF Split, PipeInv, InputOK
  <2>4. CASE UNCHANGED vars
    BY <2>4 DEF vars, PipeInv, InputOK
  <2> QED
    BY <2>2, <2>3, <2>4 DEF Next
<1> QED
  BY <1>1, <1>2, PTL DEF Spec

(* A bigger balance never makes an order smaller and a base lot never      *)
(* makes it bigger, on every symbol.                                       *)
THEOREM ScalingHolds == Spec => []ScalingIsMonotone
<1>1. PipeInv => ScalingIsMonotone
  <2> SUFFICES ASSUME PipeInv, phase = "sized" PROVE ScalingIsMonotone
    BY DEF ScalingIsMonotone
  <2> DEFINE cfg   == input.cfg
             plain == [input.cfg EXCEPT !.master_base_lot = 0]
             info  == input.info
             mv    == input.master_volume
             b     == input.balance
  <2>1. /\ InputOK
        /\ lot = CalculateSlaveLot(cfg, mv, b, info)
    BY DEF PipeInv
  <2>2. /\ SizingOK(cfg) /\ mv \in Nat /\ b \in Int
        /\ info.volume_step \in Nat \ {0} /\ info.volume_min \in Nat
    BY <2>1, InputTypes
  <2>3. /\ plain.sizing_mode = cfg.sizing_mode /\ plain.step_amount = cfg.step_amount
        /\ plain.step_size = cfg.step_size /\ plain.fixed_lot = cfg.fixed_lot
        /\ plain.max_lot = cfg.max_lot /\ plain.master_base_lot = 0
    <3>1. cfg \in [sizing_mode : {"balance_step", "copy_master", "fixed_lot"},
                   step_amount : Int, step_size : Int, master_base_lot : Int,
                   fixed_lot : Int, max_lot : Nat]
      BY <2>1, InputTypes, PipelineConstants
    <3> HIDE DEF cfg
    <3>2. plain = [cfg EXCEPT !.master_base_lot = 0]
      BY DEF cfg
    <3> QED
      BY <3>1, <3>2
  <2>4. SizingOK(plain)
    BY <2>2, <2>3 DEF SizingOK
  <2>5. Balances \subseteq Int
    BY PipelineConstants
  <2> HIDE DEF cfg, plain, info, mv, b
  <2>6. CalculateSlaveLot(cfg, mv, b, info) <= CalculateSlaveLot(plain, mv, b, info)
    BY <2>2, <2>3, <2>4, BaseLotNeverScalesUp
  <2>7. ASSUME NEW c \in Balances, c >= b
        PROVE  CalculateSlaveLot(cfg, mv, c, info) >= lot
    <3>1. c \in Int /\ b <= c
      BY <2>2, <2>5, <2>7
    <3>2. CalculateSlaveLot(cfg, mv, b, info) <= CalculateSlaveLot(cfg, mv, c, info)
      BY <2>2, <3>1, SlaveLotGrowsWithBalance
    <3> QED
      BY <2>1, <3>2
  <2> QED
    BY <2>1, <2>6, <2>7 DEF ScalingIsMonotone, cfg, plain, info, mv, b
<1> QED
  BY <1>1, PipeInvariant, PTL

(* volume_max holds volume_min, and when it does not hold it twice the     *)
(* difference is at most one lot step.                                     *)
SplittableSymbols ==
  \A info \in Infos : /\ info.volume_min <= info.volume_max
                      /\ 2 * info.volume_min <= info.volume_max + info.volume_step

(* No max_lot rounds to a volume below volume_min other than 0, for which  *)
(* the trade is skipped.                                                   *)
CapsReachMinimum ==
  \A cfg \in SizingConfigs, info \in Infos :
    RoundTo(cfg.max_lot, SnapDigits(info.volume_step))
      \notin 1..(info.volume_min - 1)

LEMMA SizeIsTradable ==
  ASSUME DecimalSymbols, CapsReachMinimum, PipeInv, phase \in {"sized", "split"}
  PROVE  OnGrid(lot, input.info.volume_step) /\ lot >= input.info.volume_min
<1> DEFINE cfg  == input.cfg
           info == input.info
           cap  == RoundTo(cfg.max_lot, SnapDigits(info.volume_step))
<1>1. /\ SizingOK(cfg) /\ input.master_volume \in Int /\ input.balance \in Int
      /\ info.volume_min \in Int /\ cfg.max_lot \in Int
      /\ cfg \in SizingConfigs /\ info \in Infos
  BY InputTypes DEF PipeInv, SizingOK
<1>2. /\ info.volume_step \in DecimalSteps
      /\ OnGrid(info.volume_min, info.volume_step)
  BY <1>1 DEF DecimalSymbols
<1>3. lot = CalculateSlaveLot(cfg, input.master_volume, input.balance, info)
      /\ lot \in Int /\ lot > 0
  BY DEF PipeInv
<1>4. cap \in Int /\ cap \notin 1..(info.volume_min - 1)
  BY <1>1, RoundToInt DEF CapsReachMinimum
<1> HIDE DEF cfg, info
<1>5. \/ lot = 0
      \/ OnGrid(lot, info.volume_step) /\ (lot >= info.volume_min \/ lot = cap)
  BY <1>1, <1>2, <1>3, SlaveLotRange
<1> HIDE DEF cap
<1>6. OnGrid(lot, info.volume_step) /\ lot >= info.volume_min
  BY <1>1, <1>3, <1>4, <1>5
<1> QED
  BY <1>6 DEF info

(* The orders sent for a volume add up to it, are each tradable and as few *)
(* as volume_max allows.                                                   *)
THEOREM SplitHolds ==
  ASSUME DecimalSymbols, SplittableSymbols, CapsReachMinimum
  PROVE  Spec => []SplitIsRight
<1>1. PipeInv => SplitIsRight
  <2> SUFFICES ASSUME PipeInv, phase = "split" PROVE SplitIsRight
    BY DEF SplitIsRight
  <2> DEFINE step == input.info.volume_step
             min  == input.info.volume_min
             max  == input.info.volume_max
  <2>1. /\ step \in DecimalSteps /\ OnGrid(min, step)
        /\ min \in Int /\ min > 0 /\ max \in Int /\ max > 0
        /\ min <= max /\ 2 * min <= max + step
    BY InputTypes DEF PipeInv, DecimalSymbols, SplittableSymbols
  <2>2. lot \in Int /\ lot > 0 /\ OnGrid(lot, step) /\ lot >= min
    BY SizeIsTradable DEF PipeInv
  <2>3. parts = IF lot > max THEN SplitVolume(lot, max, step, min) ELSE << lot >>
    BY DEF PipeInv
  <2> HIDE DEF step, min, max
  <2>4. IsSplit(parts, lot, step, min, max)
    <3>1. CASE lot > max
      BY <2>1, <2>2, <2>3, <3>1, SplitVolumeRight
    <3>2. CASE ~ (lot > max)
      <4>1. parts = << lot >>
        BY <2>3, <3>2
      <4>2. /\ parts \in Seq(Int) /\ Len(parts) = 1
            /\ \A i \in 1..1 : parts[i] = lot
            /\ parts = [i \in 1..1 |-> lot]
        BY <2>2, <4>1
      <4>3. SumFunctionOnSet(parts, 1..1) = 1 * lot
        BY <2>2, <4>2, FullChunks
      <4>4. (1 - 1) * ((max \div step) * step) = 0
        <5>1. (max \div step) * step \in Int
          BY <2>1, DivisionFacts DEF DecimalSteps
        <5> QED
          BY <5>1
      <4>5. \A i \in 1..1 : parts[i] % step = 0 /\ min <= parts[i] /\ parts[i] <= max
        BY <2>1, <2>2, <3>2, <4>2 DEF OnGrid
      <4> QED
        BY <2>2, <4>2, <4>3, <4>4, <4>5 DEF IsSplit
    <3> QED
      BY <3>1, <3>2
  <2>5. /\ parts \in Seq(Int) /\ DOMAIN parts = 1..Len(parts)
        /\ \A i \in 1..Len(parts) :
             parts[i] \in Int /\ parts[i] % step = 0 /\ min <= parts[i] /\ parts[i] <= max
    BY <2>4 DEF IsSplit
  <2>6. Conserves
    BY <2>4, <2>5 DEF IsSplit, Conserves, Total, SumFunction
  <2>7. ASSUME NEW i \in DOMAIN parts PROVE Tradable(parts[i])
    <3>1. parts[i] \in min..max /\ parts[i] % step = 0
      BY <2>1, <2>5
    <3> QED
      BY <3>1 DEF Tradable, step, min, max
  <2>8. (Len(parts) - 1) * LargestChunk < lot
    BY <2>4 DEF IsSplit, LargestChunk, step, max
  <2> QED
    BY <2>6, <2>7, <2>8 DEF SplitIsRight
<1> QED
  BY <1>1, PipeInvariant, PTL

(* Where max_lot is on the grid, a size is the largest allowed volume that *)
(* the sizing mode's raw size holds, or the smallest allowed one.          *)
THEOREM LargestFitHolds ==
  ASSUME DecimalSymbols, CapsReachMinimum
  PROVE  Spec => []LargestAllowedFit
<1>1. PipeInv => LargestAllowedFit
  <2> DEFINE cfg  == input.cfg
             mv   == input.master_volume
             step == input.info.volume_step
             min  == input.info.volume_min
             max  == input.cfg.max_lot
             ok   == Allowed(cfg, input.info)
             raw  == (input.balance \div cfg.step_amount) * cfg.step_size
             num  == AskedNum(cfg, mv, input.balance)
             den  == AskedDen(cfg, mv)
             Fits(v) ==
               CASE cfg.sizing_mode = "copy_master" -> v <= mv
                 [] cfg.sizing_mode = "fixed_lot"   -> v <= cfg.fixed_lot
                 [] cfg.sizing_mode = "balance_step" ->
                      IF cfg.master_base_lot > mv
                        THEN v * cfg.master_base_lot <= raw * mv
                        ELSE v <= raw
             fit == {v \in ok : Fits(v)}
  <2> SUFFICES ASSUME PipeInv, phase = "sized", CapOnGrid
               PROVE  lot = IF fit = {} THEN Min(ok) ELSE Max(fit)
    BY DEF LargestAllowedFit
  <2>1. /\ SizingOK(cfg) /\ mv \in Nat \ {0} /\ input.balance \in Int
        /\ cfg \in SizingConfigs /\ input.info \in Infos
        /\ min \in Int /\ min > 0 /\ max \in Int /\ max >= 0
    BY InputTypes DEF PipeInv, SizingOK
  <2>2. step \in DecimalSteps /\ OnGrid(min, step) /\ OnGrid(max, step)
    BY <2>1 DEF DecimalSymbols, CapOnGrid, OnGrid
  <2>3. /\ lot = CalculateSlaveLot(cfg, mv, input.balance, input.info)
        /\ lot \in Int /\ lot > 0
    BY DEF PipeInv
  <2>4. ~ AsksNothing(cfg) /\ lot = SnapClamp(num, den, step, min, max)
    BY <2>1, <2>3, SlaveLotIs
  <2>5. num \in Int /\ den \in Int /\ den > 0
    BY <2>1, <2>4, AskedIsFraction
  <2>6. min <= max
    <3>1. RoundTo(max, SnapDigits(step)) = max
      BY <2>1, <2>2, DecimalStepDigits, RoundOnGrid
    <3>2. max \notin 1..(min - 1)
      BY <2>1, <3>1 DEF CapsReachMinimum
    <3>3. max # 0
      <4>1. lot <= max
        BY <2>1, <2>2, <2>4, <2>5, SnapClampOnGrid
      <4> QED
        BY <2>1, <2>3, <4>1
    <3> QED
      BY <2>1, <3>2, <3>3
  <2>7. \A v : v \in ok <=> v \in min..max /\ OnGrid(v, step)
    BY DEF Allowed, OnGrid
  <2>8. \A v \in ok : Fits(v) <=> v * den <= num
    <3> SUFFICES ASSUME NEW v \in ok PROVE Fits(v) <=> v * den <= num
      OBVIOUS
    <3>1. v \in Int /\ v * 1 = v
      BY <2>7
    <3>2. CASE cfg.sizing_mode = "copy_master"
      <4>1. num = mv /\ den = 1
        BY <3>2 DEF AskedNum, AskedDen, ScalesDown
      <4>2. Fits(v) <=> v <= mv
        BY <3>2
      <4> QED
        BY <3>1, <4>1, <4>2
    <3>3. CASE cfg.sizing_mode = "fixed_lot"
      <4>1. num = cfg.fixed_lot /\ den = 1
        BY <3>3 DEF AskedNum, AskedDen, ScalesDown
      <4>2. Fits(v) <=> v <= cfg.fixed_lot
        BY <3>3
      <4> QED
        BY <3>1, <4>1, <4>2
    <3>4. CASE cfg.sizing_mode = "balance_step"
      <4>1. Fits(v) <=> IF cfg.master_base_lot > mv
                          THEN v * cfg.master_base_lot <= raw * mv ELSE v <= raw
        BY <3>4
      <4>2. ScalesDown(cfg, mv) <=> cfg.master_base_lot > mv
        BY <2>1, <3>4 DEF ScalesDown, SizingOK
      <4>3. CASE cfg.master_base_lot > mv
        <5>1. num = raw * mv /\ den = cfg.master_base_lot
          BY <3>4, <4>2, <4>3 DEF AskedNum, AskedDen, RawSize
        <5> HIDE DEF Fits, num, den, raw
        <5> QED
          BY <4>1, <4>3, <5>1
      <4>4. CASE ~ (cfg.master_base_lot > mv)
        <5>1. num = raw /\ den = 1
          BY <3>4, <4>2, <4>4 DEF AskedNum, AskedDen, RawSize
        <5> HIDE DEF Fits, num, den, raw
        <5> QED
          BY <3>1, <4>1, <4>4, <5>1
      <4> QED
        BY <4>3, <4>4
    <3> QED
      BY <2>1, <3>2, <3>3, <3>4 DEF SizingOK
  <2> HIDE DEF Fits, num, den, step, min, max, ok
  <2>9. /\ lot \in min..max /\ OnGrid(lot, step)
        /\ \A v \in min..max : OnGrid(v, step) /\ Holds(num, den, v) => v <= lot
        /\ Holds(num, den, lot) \/ lot = min
    <3>1. min \in Int /\ max \in Int
      BY <2>1
    <3>2. LET size == SnapClamp(num, den, step, min, max)
          IN  /\ size \in min..max /\ OnGrid(size, step)
              /\ \A v \in min..max :
                   OnGrid(v, step) /\ Holds(num, den, v) => v <= size
              /\ Holds(num, den, size) \/ size = min
      BY ONLY <2>2, <2>5, <2>6, <3>1, SnapClampFits
    <3> QED
      BY <2>4, <3>2
  <2>10. /\ lot \in ok /\ \A v \in ok : Fits(v) => v <= lot
         /\ Fits(lot) \/ \A v \in ok : lot <= v
    <3>1. \A v \in ok : Fits(v) <=> Holds(num, den, v)
      BY <2>8 DEF Holds
    <3>2. lot \in ok
      BY <2>7, <2>9
    <3>3. \A v \in ok : Fits(v) => v <= lot
      BY <2>7, <2>9, <3>1
    <3>4. lot = min => \A v \in ok : lot <= v
      BY <2>7
    <3> QED
      BY <2>9, <3>1, <3>2, <3>3, <3>4
  <2>11. ok \subseteq Int /\ fit \subseteq Int
    BY <2>7
  <2> HIDE DEF fit
  <2>12. CASE fit = {}
    <3>1. lot \in ok /\ \A v \in ok : lot <= v
      BY <2>10, <2>12 DEF fit
    <3>2. \A x \in ok : (\A v \in ok : x <= v) => x = lot
      BY <2>11, <3>1
    <3>3. Min(ok) = lot
      BY <3>1, <3>2 DEF Min
    <3> QED
      BY <2>12, <3>3
  <2>13. CASE fit # {}
    <3>1. PICK w \in ok : Fits(w)
      BY <2>13 DEF fit
    <3>2. Fits(lot)
      <4>1. CASE \A v \in ok : lot <= v
        <5>1. w <= lot /\ lot <= w /\ w \in Int /\ lot \in Int
          BY <2>10, <2>11, <3>1, <4>1
        <5> QED
          BY <3>1, <5>1
      <4> QED
        BY <2>10, <4>1
    <3>3. lot \in fit /\ \A v \in fit : lot >= v
      BY <2>10, <2>11, <3>2 DEF fit
    <3>4. \A x \in fit : (\A v \in fit : x >= v) => x = lot
      BY <2>11, <3>3
    <3>5. Max(fit) = lot
      BY <3>3, <3>4 DEF Max
    <3> QED
      BY <2>13, <3>5
  <2> QED
    BY <2>12, <2>13
<1> QED
  BY <1>1, PipeInvariant, PTL
=============================================================================
