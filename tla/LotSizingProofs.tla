-------------------------- MODULE LotSizingProofs --------------------------
(***************************************************************************)
(* Facts about the volume arithmetic: every size is a whole number of lot  *)
(* units; a bigger balance never makes it smaller, nor a base lot bigger;  *)
(* on a symbol whose lot step is a power of ten it is on the symbol's grid *)
(* and the largest one allowed that fits; and the chunks an oversized      *)
(* order is split in add up to it.                                         *)
(***************************************************************************)
EXTENDS LotSizing, Functions, FiniteSetTheorems, NaturalsInduction, TLAPS

LEMMA TenthIsPower == ASSUME NEW digits PROVE Tenth(digits) \in {1, 10, 100}
  BY DEF Tenth, LotUnits

LEMMA DivisionFacts ==
  ASSUME NEW a \in Int, NEW b \in Int, b > 0
  PROVE  /\ a \div b \in Int
         /\ (a % b) \in 0..(b - 1)
         /\ a = b * (a \div b) + (a % b)
  OBVIOUS

LEMMA RoundToInt ==
  ASSUME NEW x \in Int, NEW digits
  PROVE  RoundTo(x, digits) \in Int
<1>1. Tenth(digits) \in Int /\ Tenth(digits) > 0
  BY TenthIsPower
<1>2. x \div Tenth(digits) \in Int
  BY <1>1, DivisionFacts
<1> QED
  BY <1>1, <1>2 DEF RoundTo

LEMMA SnapClampInt ==
  ASSUME NEW num \in Int, NEW den \in Int, den > 0, NEW step \in Int,
         NEW min \in Int, NEW max \in Int
  PROVE  SnapClamp(num, den, step, min, max) \in Int
<1>1. CASE step <= 0
  BY <1>1 DEF SnapClamp
<1>2. CASE step > 0
  <2>1. den * step \in Int /\ den * step > 0
    BY <1>2
  <2>2. (num \div (den * step)) * step \in Int
    BY <2>1, DivisionFacts
  <2>3. MinOf(MaxOf((num \div (den * step)) * step, min), max) \in Int
    BY <2>2 DEF MinOf, MaxOf
  <2> QED
    BY <1>2, <2>3, RoundToInt DEF SnapClamp
<1> QED
  BY <1>1, <1>2

(* calculate_slave_lot always returns a number of lot units.               *)
THEOREM SlaveLotInt ==
  ASSUME NEW cfg, NEW info, NEW mv \in Int, NEW balance \in Int,
         cfg.sizing_mode \in {"balance_step", "copy_master", "fixed_lot"},
         cfg.step_amount \in Int, cfg.step_size \in Int,
         cfg.master_base_lot \in Int, cfg.fixed_lot \in Int,
         cfg.max_lot \in Int,
         info.volume_step \in Int, info.volume_min \in Int
  PROVE  CalculateSlaveLot(cfg, mv, balance, info) \in Int
<1> DEFINE Snap(num, den) ==
             SnapClamp(num, den, info.volume_step, info.volume_min, cfg.max_lot)
           Raw == (balance \div cfg.step_amount) * cfg.step_size
<1>1. ASSUME NEW num \in Int, NEW den \in Int, den > 0
      PROVE  Snap(num, den) \in Int
  BY <1>1, SnapClampInt
<1>2. CASE cfg.sizing_mode = "balance_step"
  <2>1. CASE cfg.step_amount <= 0 \/ cfg.step_size <= 0
    BY <1>2, <2>1 DEF CalculateSlaveLot
  <2>2. CASE cfg.step_amount > 0 /\ cfg.step_size > 0
    <3>1. Raw \in Int
      BY <2>2, DivisionFacts
    <3>2. Raw * mv \in Int
      BY <3>1
    <3>3. Snap(Raw, 1) \in Int
      BY <3>1, <1>1
    <3>4. cfg.master_base_lot > 0 => Snap(Raw * mv, cfg.master_base_lot) \in Int
      BY <3>2, <1>1
    <3> QED
      BY <1>2, <2>2, <3>3, <3>4 DEF CalculateSlaveLot
  <2> QED
    BY <2>1, <2>2
<1>3. CASE cfg.sizing_mode = "copy_master"
  BY <1>1, <1>3 DEF CalculateSlaveLot
<1>4. CASE cfg.sizing_mode = "fixed_lot"
  BY <1>1, <1>4 DEF CalculateSlaveLot
<1> QED
  BY <1>2, <1>3, <1>4

OnGrid(volume, step) == volume % step = 0

(* Lot steps of 0.01, 0.1 and 1 lot.                                       *)
DecimalSteps == {1, 10, 100}

(* Such a lot step is the unit _snap_clamp rounds to.                      *)
LEMMA DecimalStepDigits ==
  ASSUME NEW step \in DecimalSteps
  PROVE  Tenth(SnapDigits(step)) = step
<1>1. CASE step = 1
  BY <1>1 DEF Tenth, SnapDigits, LotUnits
<1>2. CASE step = 10
  BY <1>2 DEF Tenth, SnapDigits, LotUnits
<1>3. CASE step = 100
  BY <1>3 DEF Tenth, SnapDigits, LotUnits
<1> QED
  BY <1>1, <1>2, <1>3 DEF DecimalSteps

(* Rounding leaves a volume that is on the grid alone.                     *)
LEMMA RoundOnGrid ==
  ASSUME NEW x \in Int, NEW digits, OnGrid(x, Tenth(digits))
  PROVE  RoundTo(x, digits) = x
<1>1. Tenth(digits) \in Int /\ Tenth(digits) > 0
  BY TenthIsPower
<1>2. x = Tenth(digits) * (x \div Tenth(digits)) + (x % Tenth(digits))
  BY <1>1, DivisionFacts
<1>3. x \div Tenth(digits) \in Int
  BY <1>1, DivisionFacts
<1>4. (x % Tenth(digits)) = 0
  BY DEF OnGrid
<1>5. x = (x \div Tenth(digits)) * Tenth(digits)
  BY <1>1, <1>2, <1>3, <1>4
<1>6. 2 * (x % Tenth(digits)) < Tenth(digits)
  BY <1>1, <1>4
<1> QED
  BY <1>5, <1>6 DEF RoundTo

(* On a decimal grid, with volume_min and max_lot on it, the snapped and   *)
(* clamped size stays on the grid and under the cap.                       *)
LEMMA SnapClampOnGrid ==
  ASSUME NEW num \in Int, NEW den \in Int, den > 0, NEW step \in DecimalSteps,
         NEW min \in Int, OnGrid(min, step), NEW max \in Int, OnGrid(max, step)
  PROVE  /\ SnapClamp(num, den, step, min, max) <= max
         /\ OnGrid(SnapClamp(num, den, step, min, max), step)
<1> DEFINE snapped == (num \div (den * step)) * step
           clamped == MinOf(MaxOf(snapped, min), max)
<1>1. den * step \in Int /\ den * step > 0
  BY DEF DecimalSteps
<1>2. num \div (den * step) \in Int
  BY <1>1, DivisionFacts
<1>3. snapped \in Int /\ OnGrid(snapped, step)
  <2> DEFINE k == num \div (den * step)
  <2>1. k \in Int
    BY <1>2
  <2>2. snapped = k * step
    OBVIOUS
  <2> HIDE DEF k, snapped
  <2>3. CASE step = 1
    BY <2>1, <2>2, <2>3 DEF OnGrid
  <2>4. CASE step = 10
    BY <2>1, <2>2, <2>4 DEF OnGrid
  <2>5. CASE step = 100
    BY <2>1, <2>2, <2>5 DEF OnGrid
  <2> QED
    BY <2>3, <2>4, <2>5 DEF DecimalSteps
<1>4. SnapClamp(num, den, step, min, max) = RoundTo(clamped, SnapDigits(step))
  BY DEF SnapClamp, DecimalSteps
<1> HIDE DEF snapped
<1>5. clamped \in Int /\ OnGrid(clamped, step) /\ clamped <= max
  BY <1>3 DEF MinOf, MaxOf
<1> HIDE DEF clamped
<1>6. RoundTo(clamped, SnapDigits(step)) = clamped
  BY <1>5, DecimalStepDigits, RoundOnGrid
<1> QED
  BY <1>4, <1>5, <1>6

(* calculate_slave_lot keeps an order under the slave's max_lot, in every  *)
(* sizing mode, on symbols with a decimal lot step.                        *)
THEOREM SlaveLotCapped ==
  ASSUME NEW cfg, NEW info, NEW mv \in Int, NEW balance \in Int,
         cfg.sizing_mode \in {"balance_step", "copy_master", "fixed_lot"},
         cfg.step_amount \in Int, cfg.step_size \in Int,
         cfg.master_base_lot \in Int, cfg.fixed_lot \in Int,
         cfg.max_lot \in Nat,
         info.volume_step \in DecimalSteps, info.volume_min \in Int,
         OnGrid(info.volume_min, info.volume_step),
         OnGrid(cfg.max_lot, info.volume_step)
  PROVE  CalculateSlaveLot(cfg, mv, balance, info) <= cfg.max_lot
<1> DEFINE Snap(num, den) ==
             SnapClamp(num, den, info.volume_step, info.volume_min, cfg.max_lot)
           Raw == (balance \div cfg.step_amount) * cfg.step_size
<1>1. ASSUME NEW num \in Int, NEW den \in Int, den > 0
      PROVE  Snap(num, den) <= cfg.max_lot
  BY <1>1, SnapClampOnGrid
<1>2. CASE cfg.sizing_mode = "balance_step"
  <2>1. CASE cfg.step_amount <= 0 \/ cfg.step_size <= 0
    BY <1>2, <2>1 DEF CalculateSlaveLot
  <2>2. CASE cfg.step_amount > 0 /\ cfg.step_size > 0
    <3>1. Raw \in Int
      BY <2>2, DivisionFacts
    <3>2. Raw * mv \in Int
      BY <3>1
    <3>3. Snap(Raw, 1) <= cfg.max_lot
      BY <3>1, <1>1
    <3>4. cfg.master_base_lot > 0 =>
            Snap(Raw * mv, cfg.master_base_lot) <= cfg.max_lot
      BY <3>2, <1>1
    <3> QED
      BY <1>2, <2>2, <3>3, <3>4 DEF CalculateSlaveLot
  <2> QED
    BY <2>1, <2>2
<1>3. CASE cfg.sizing_mode = "copy_master"
  BY <1>1, <1>3 DEF CalculateSlaveLot
<1>4. CASE cfg.sizing_mode = "fixed_lot"
  BY <1>1, <1>4 DEF CalculateSlaveLot
<1> QED
  BY <1>2, <1>3, <1>4

-----------------------------------------------------------------------------
(* Multiplication by a number that is not negative keeps the order.        *)
LEMMA TimesMono ==
  ASSUME NEW a \in Int, NEW b \in Int, NEW d \in Int, d >= 0, a <= b
  PROVE  a * d <= b * d /\ d * a <= d * b
<1>1. (b - a) * d >= 0
  OBVIOUS
<1>2. (b - a) * d = b * d - a * d
  OBVIOUS
<1>3. a * d \in Int /\ b * d \in Int /\ d * a = a * d /\ d * b = b * d
  OBVIOUS
<1> QED
  BY <1>1, <1>2, <1>3

(* A whole number is at most a quotient exactly when its product fits.     *)
LEMMA FitsQuotient ==
  ASSUME NEW a \in Int, NEW d \in Int, d > 0, NEW k \in Int
  PROVE  k <= a \div d <=> k * d <= a
<1> DEFINE q == a \div d
           m == a % d
<1>1. q \in Int /\ m \in Int /\ 0 <= m /\ m < d /\ a = d * q + m
  BY DivisionFacts
<1> HIDE DEF q, m
<1>2. k <= q => k * d <= a
  <2> SUFFICES ASSUME k <= q PROVE k * d <= a
    OBVIOUS
  <2>1. k * d <= q * d
    BY <1>1, TimesMono
  <2> QED
    BY <1>1, <2>1
<1>3. k > q => k * d > a
  <2> SUFFICES ASSUME k > q PROVE k * d > a
    OBVIOUS
  <2>1. (q + 1) * d <= k * d
    BY <1>1, TimesMono
  <2>2. (q + 1) * d = d * q + d
    BY <1>1
  <2>3. k * d \in Int /\ d * q \in Int
    BY <1>1
  <2> QED
    BY <1>1, <2>1, <2>2, <2>3
<1>4. k * d \in Int
  OBVIOUS
<1> QED
  BY <1>1, <1>2, <1>3, <1>4 DEF q

LEMMA QuotientMono ==
  ASSUME NEW a \in Int, NEW b \in Int, NEW d \in Int, d > 0, a <= b
  PROVE  a \div d <= b \div d
<1>1. a \div d \in Int /\ b \div d \in Int
  BY DivisionFacts
<1>2. (a \div d) * d <= a
  BY <1>1, FitsQuotient
<1>3. (a \div d) * d <= b
  BY <1>1, <1>2
<1> QED
  BY <1>1, <1>3, FitsQuotient

LEMMA RoundToMono ==
  ASSUME NEW x \in Int, NEW y \in Int, x <= y, NEW digits
  PROVE  RoundTo(x, digits) <= RoundTo(y, digits)
<1> DEFINE q == Tenth(digits)
           a == x \div q
           b == y \div q
           m == x % q
           n == y % q
<1>1. q \in {1, 10, 100}
  BY TenthIsPower
<1>2. /\ a \in Int /\ m \in Int /\ 0 <= m /\ m < q /\ x = q * a + m
      /\ b \in Int /\ n \in Int /\ 0 <= n /\ n < q /\ y = q * b + n
  <2>1. q \in Int /\ q > 0
    BY <1>1
  <2> HIDE DEF q
  <2> QED
    BY <2>1, DivisionFacts
<1>3. a <= b
  BY <1>1, QuotientMono
<1>4. /\ RoundTo(x, digits) = IF 2 * m < q \/ (2 * m = q /\ a % 2 = 0)
                                THEN a * q ELSE (a + 1) * q
      /\ RoundTo(y, digits) = IF 2 * n < q \/ (2 * n = q /\ b % 2 = 0)
                                THEN b * q ELSE (b + 1) * q
  BY DEF RoundTo
<1> HIDE DEF q, a, b, m, n
<1>5. CASE a = b
  <2>1. m <= n
    BY <1>2, <1>5, <1>1
  <2>2. a * q \in Int /\ (a + 1) * q = a * q + q /\ q > 0 /\ q \in Int
    BY <1>1, <1>2
  <2>3. (2 * n < q \/ (2 * n = q /\ b % 2 = 0))
          => (2 * m < q \/ (2 * m = q /\ a % 2 = 0))
    <3>1. 2 * n < q => 2 * m < q
      BY <1>2, <2>1, <2>2
    <3>2. 2 * n = q => 2 * m < q \/ 2 * m = q
      BY <1>2, <2>1, <2>2
    <3> QED
      BY <1>5, <3>1, <3>2
  <2>4. /\ RoundTo(x, digits) \in {a * q, a * q + q}
        /\ RoundTo(y, digits) \in {a * q, a * q + q}
        /\ RoundTo(y, digits) = a * q => RoundTo(x, digits) = a * q
    <3>1. a * q # a * q + q
      BY <2>2
    <3> QED
      BY <1>4, <1>5, <2>2, <2>3, <3>1
  <2> DEFINE rx == RoundTo(x, digits)
             ry == RoundTo(y, digits)
             z  == a * q
  <2>5. z \in Int /\ rx \in {z, z + q} /\ ry \in {z, z + q} /\ (ry = z => rx = z)
    BY <2>2, <2>4
  <2> HIDE DEF rx, ry, z
  <2>6. rx <= ry
    BY <2>2, <2>5
  <2> QED
    BY <2>6 DEF rx, ry
<1>6. CASE a < b
  <2>1. /\ a * q \in Int /\ (a + 1) * q = a * q + q /\ q > 0
        /\ b * q \in Int /\ (b + 1) * q = b * q + q
    BY <1>1, <1>2
  <2>2. (a + 1) * q <= b * q
    BY <1>1, <1>2, <1>6, TimesMono
  <2>3. /\ RoundTo(x, digits) \in {a * q, (a + 1) * q}
        /\ RoundTo(y, digits) \in {b * q, (b + 1) * q}
    BY <1>4
  <2> DEFINE rx == RoundTo(x, digits)
             ry == RoundTo(y, digits)
             z  == a * q
             w  == b * q
  <2>4. /\ z \in Int /\ w \in Int /\ z + q <= w /\ q > 0 /\ q \in Int
        /\ rx \in {z, z + q} /\ ry \in {w, w + q}
    BY <1>1, <2>1, <2>2, <2>3
  <2> HIDE DEF rx, ry, z, w
  <2>5. rx <= ry
    BY <2>4
  <2> QED
    BY <2>5 DEF rx, ry
<1> QED
  BY <1>2, <1>3, <1>5, <1>6

(* The bigger size stays the bigger one: snapping, clamping and rounding   *)
(* keep the order, whatever the lot step.                                  *)
LEMMA SnapClampMono ==
  ASSUME NEW num1 \in Int, NEW den1 \in Int, den1 > 0,
         NEW num2 \in Int, NEW den2 \in Int, den2 > 0,
         NEW step \in Int, step > 0, NEW min \in Int, NEW max \in Int,
         \/ num1 \div (den1 * step) <= num2 \div (den2 * step)
         \/ num1 <= 0 /\ min >= 0
  PROVE  SnapClamp(num1, den1, step, min, max) <= SnapClamp(num2, den2, step, min, max)
<1> DEFINE k1 == num1 \div (den1 * step)
           k2 == num2 \div (den2 * step)
           c1 == MinOf(MaxOf(k1 * step, min), max)
           c2 == MinOf(MaxOf(k2 * step, min), max)
<1>1. /\ den1 * step \in Int /\ den1 * step > 0
      /\ den2 * step \in Int /\ den2 * step > 0
  OBVIOUS
<1>2. k1 \in Int /\ k2 \in Int
  BY <1>1, DivisionFacts
<1>3. /\ SnapClamp(num1, den1, step, min, max) = RoundTo(c1, SnapDigits(step))
      /\ SnapClamp(num2, den2, step, min, max) = RoundTo(c2, SnapDigits(step))
  BY DEF SnapClamp
<1>4. k1 * step \in Int /\ k2 * step \in Int
  BY <1>2
<1>5. k1 * step <= k2 * step \/ k1 * step <= min
  <2>1. CASE k1 <= k2
    BY <1>2, <2>1, TimesMono
  <2>2. CASE num1 <= 0 /\ min >= 0
    <3>1. 0 \div (den1 * step) = 0
      BY <1>1
    <3>2. k1 <= 0
      BY <1>1, <2>2, <3>1, QuotientMono
    <3>3. k1 * step <= 0 * step
      BY <1>2, <3>2, TimesMono
    <3> QED
      BY <1>4, <2>2, <3>3
  <2> QED
    BY <2>1, <2>2
<1> DEFINE s1 == k1 * step
           s2 == k2 * step
<1>6. s1 \in Int /\ s2 \in Int /\ (s1 <= s2 \/ s1 <= min)
  BY <1>4, <1>5
<1> HIDE DEF k1, k2
<1>7. c1 \in Int /\ c2 \in Int /\ c1 <= c2
  <2> HIDE DEF s1, s2
  <2> QED
    BY <1>6 DEF MinOf, MaxOf, s1, s2
<1> HIDE DEF c1, c2
<1> QED
  BY <1>3, <1>7, RoundToMono

(* A rounded volume is on the grid it is rounded to.                       *)
LEMMA RoundToGrid ==
  ASSUME NEW x \in Int, NEW digits
  PROVE  OnGrid(RoundTo(x, digits), Tenth(digits))
<1> DEFINE q == Tenth(digits)
           a == x \div q
<1>1. q \in {1, 10, 100}
  BY TenthIsPower
<1>2. a \in Int
  BY <1>1, DivisionFacts
<1>3. RoundTo(x, digits) \in {a * q, (a + 1) * q}
  BY DEF RoundTo
<1> HIDE DEF q, a
<1>4. ASSUME NEW k \in Int PROVE (k * q) % q = 0
  <2>1. CASE q = 1
    BY <2>1
  <2>2. CASE q = 10
    BY <2>2
  <2>3. CASE q = 100
    BY <2>3
  <2> QED
    BY <1>1, <2>1, <2>2, <2>3
<1>5. RoundTo(x, digits) % q = 0
  BY <1>2, <1>3, <1>4
<1> QED
  BY <1>5 DEF OnGrid, q

(* On a decimal grid a size is on the grid, and below volume_min only if   *)
(* it is the rounded cap.                                                  *)
LEMMA SnapClampRange ==
  ASSUME NEW num \in Int, NEW den \in Int, den > 0, NEW step \in DecimalSteps,
         NEW min \in Int, OnGrid(min, step), NEW max \in Int
  PROVE  LET size == SnapClamp(num, den, step, min, max)
         IN  /\ OnGrid(size, step)
             /\ size >= min \/ size = RoundTo(max, SnapDigits(step))
<1> DEFINE s == (num \div (den * step)) * step
           c == MinOf(MaxOf(s, min), max)
<1>1. den * step \in Int /\ den * step > 0
  BY DEF DecimalSteps
<1>2. s \in Int
  BY <1>1, DivisionFacts DEF DecimalSteps
<1>3. SnapClamp(num, den, step, min, max) = RoundTo(c, SnapDigits(step))
  BY DEF SnapClamp, DecimalSteps
<1> HIDE DEF s
<1>4. c \in Int /\ (c >= min \/ c = max)
  BY <1>2 DEF MinOf, MaxOf
<1> HIDE DEF c
<1>5. OnGrid(RoundTo(c, SnapDigits(step)), step)
  BY <1>4, RoundToGrid, DecimalStepDigits
<1>6. RoundTo(min, SnapDigits(step)) = min
  BY RoundOnGrid, DecimalStepDigits
<1>7. c >= min => RoundTo(c, SnapDigits(step)) >= min
  <2>1. c >= min => RoundTo(min, SnapDigits(step)) <= RoundTo(c, SnapDigits(step))
    BY <1>4, RoundToMono
  <2>2. RoundTo(c, SnapDigits(step)) \in Int
    BY <1>4, RoundToInt
  <2> QED
    BY <1>6, <2>1, <2>2
<1> QED
  BY <1>3, <1>4, <1>5, <1>7

(* What a sizing mode asks for, num / den lots, and when it asks nothing.  *)
SizingOK(cfg) ==
  /\ cfg.sizing_mode \in {"balance_step", "copy_master", "fixed_lot"}
  /\ cfg.step_amount \in Int /\ cfg.step_size \in Int
  /\ cfg.master_base_lot \in Int /\ cfg.fixed_lot \in Int /\ cfg.max_lot \in Nat

AsksNothing(cfg) ==
  \/ cfg.sizing_mode = "balance_step" /\ (cfg.step_amount <= 0 \/ cfg.step_size <= 0)
  \/ cfg.sizing_mode = "fixed_lot" /\ cfg.fixed_lot <= 0

ScalesDown(cfg, mv) ==
  /\ cfg.sizing_mode = "balance_step"
  /\ cfg.master_base_lot > 0 /\ mv < cfg.master_base_lot

RawSize(cfg, balance) == (balance \div cfg.step_amount) * cfg.step_size

AskedNum(cfg, mv, balance) ==
  IF cfg.sizing_mode = "copy_master" THEN mv
  ELSE IF cfg.sizing_mode = "fixed_lot" THEN cfg.fixed_lot
  ELSE IF ScalesDown(cfg, mv) THEN RawSize(cfg, balance) * mv
  ELSE RawSize(cfg, balance)

AskedDen(cfg, mv) == IF ScalesDown(cfg, mv) THEN cfg.master_base_lot ELSE 1

LEMMA SlaveLotIs ==
  ASSUME NEW cfg, SizingOK(cfg), NEW info, NEW mv \in Int, NEW balance \in Int
  PROVE  CalculateSlaveLot(cfg, mv, balance, info)
           = IF AsksNothing(cfg) THEN 0
             ELSE SnapClamp(AskedNum(cfg, mv, balance), AskedDen(cfg, mv),
                            info.volume_step, info.volume_min, cfg.max_lot)
<1>1. CASE cfg.sizing_mode = "balance_step"
  <2>1. CASE cfg.step_amount <= 0 \/ cfg.step_size <= 0
    BY <1>1, <2>1 DEF CalculateSlaveLot, AsksNothing
  <2>2. CASE ~ (cfg.step_amount <= 0 \/ cfg.step_size <= 0)
    BY <1>1, <2>2 DEF CalculateSlaveLot, AsksNothing, AskedNum, AskedDen,
                      ScalesDown, RawSize
  <2> QED
    BY <2>1, <2>2
<1>2. CASE cfg.sizing_mode = "copy_master"
  BY <1>2 DEF CalculateSlaveLot, AsksNothing, AskedNum, AskedDen, ScalesDown
<1>3. CASE cfg.sizing_mode = "fixed_lot"
  BY <1>3 DEF CalculateSlaveLot, AsksNothing, AskedNum, AskedDen, ScalesDown
<1> QED
  BY <1>1, <1>2, <1>3 DEF SizingOK

LEMMA AskedIsFraction ==
  ASSUME NEW cfg, SizingOK(cfg), ~ AsksNothing(cfg), NEW mv \in Int, NEW balance \in Int
  PROVE  /\ AskedNum(cfg, mv, balance) \in Int
         /\ AskedDen(cfg, mv) \in Int /\ AskedDen(cfg, mv) > 0
<1>1. cfg.sizing_mode = "balance_step" => RawSize(cfg, balance) \in Int
  <2> SUFFICES ASSUME cfg.sizing_mode = "balance_step"
               PROVE  RawSize(cfg, balance) \in Int
    OBVIOUS
  <2>1. cfg.step_amount \in Int /\ cfg.step_amount > 0 /\ cfg.step_size \in Int
    BY DEF SizingOK, AsksNothing
  <2>2. balance \div cfg.step_amount \in Int
    BY <2>1, DivisionFacts
  <2> QED
    BY <2>1, <2>2 DEF RawSize
<1>2. cfg.sizing_mode = "balance_step" => RawSize(cfg, balance) * mv \in Int
  BY <1>1
<1> QED
  BY <1>1, <1>2 DEF SizingOK, AskedNum, AskedDen, ScalesDown

(* A size that is sent is on a decimal grid, and at least volume_min       *)
(* unless the cap itself is smaller.                                       *)
THEOREM SlaveLotRange ==
  ASSUME NEW cfg, SizingOK(cfg), NEW info, NEW mv \in Int, NEW balance \in Int,
         info.volume_step \in DecimalSteps, info.volume_min \in Int,
         OnGrid(info.volume_min, info.volume_step)
  PROVE  LET size == CalculateSlaveLot(cfg, mv, balance, info)
         IN  \/ size = 0
             \/ /\ OnGrid(size, info.volume_step)
                /\ \/ size >= info.volume_min
                   \/ size = RoundTo(cfg.max_lot, SnapDigits(info.volume_step))
<1>1. CASE AsksNothing(cfg)
  BY <1>1, SlaveLotIs
<1>2. CASE ~ AsksNothing(cfg)
  <2>1. /\ AskedNum(cfg, mv, balance) \in Int
        /\ AskedDen(cfg, mv) \in Int /\ AskedDen(cfg, mv) > 0
    BY <1>2, AskedIsFraction
  <2>2. cfg.max_lot \in Int
    BY DEF SizingOK
  <2> DEFINE size == SnapClamp(AskedNum(cfg, mv, balance), AskedDen(cfg, mv),
                               info.volume_step, info.volume_min, cfg.max_lot)
  <2>3. CalculateSlaveLot(cfg, mv, balance, info) = size
    BY <1>2, SlaveLotIs
  <2>4. /\ OnGrid(size, info.volume_step)
        /\ \/ size >= info.volume_min
           \/ size = RoundTo(cfg.max_lot, SnapDigits(info.volume_step))
    BY <2>1, <2>2, SnapClampRange
  <2> QED
    BY <2>3, <2>4
<1> QED
  BY <1>1, <1>2

(* A bigger balance never makes an order smaller.                          *)
THEOREM SlaveLotGrowsWithBalance ==
  ASSUME NEW cfg, SizingOK(cfg), NEW info, NEW mv \in Nat,
         NEW balance \in Int, NEW bigger \in Int, balance <= bigger,
         info.volume_step \in Nat \ {0}, info.volume_min \in Nat
  PROVE  CalculateSlaveLot(cfg, mv, balance, info)
           <= CalculateSlaveLot(cfg, mv, bigger, info)
<1>1. CASE AsksNothing(cfg)
  BY <1>1, SlaveLotIs
<1>2. CASE ~ AsksNothing(cfg)
  <2> DEFINE num1 == AskedNum(cfg, mv, balance)
             num2 == AskedNum(cfg, mv, bigger)
             den  == AskedDen(cfg, mv)
  <2>1. num1 \in Int /\ num2 \in Int /\ den \in Int /\ den > 0
    BY <1>2, AskedIsFraction
  <2>2. cfg.sizing_mode = "balance_step"
          => /\ RawSize(cfg, balance) \in Int /\ RawSize(cfg, bigger) \in Int
             /\ RawSize(cfg, balance) <= RawSize(cfg, bigger)
    <3> SUFFICES ASSUME cfg.sizing_mode = "balance_step"
                 PROVE  /\ RawSize(cfg, balance) \in Int /\ RawSize(cfg, bigger) \in Int
                        /\ RawSize(cfg, balance) <= RawSize(cfg, bigger)
      OBVIOUS
    <3>1. /\ cfg.step_amount \in Int /\ cfg.step_amount > 0
          /\ cfg.step_size \in Int /\ cfg.step_size >= 0
      BY <1>2 DEF SizingOK, AsksNothing
    <3>2. /\ balance \div cfg.step_amount \in Int
          /\ bigger \div cfg.step_amount \in Int
          /\ balance \div cfg.step_amount <= bigger \div cfg.step_amount
      BY <3>1, DivisionFacts, QuotientMono
    <3> QED
      BY <3>1, <3>2, TimesMono DEF RawSize
  <2>3. num1 <= num2
    <3>1. CASE ScalesDown(cfg, mv)
      <4>1. RawSize(cfg, balance) * mv <= RawSize(cfg, bigger) * mv
        BY <2>2, <3>1, TimesMono DEF ScalesDown
      <4> QED
        BY <3>1, <4>1 DEF AskedNum, ScalesDown
    <3>2. CASE ~ ScalesDown(cfg, mv)
      BY <2>2, <3>2 DEF AskedNum, SizingOK
    <3> QED
      BY <3>1, <3>2
  <2>4. den * info.volume_step \in Int /\ den * info.volume_step > 0
    BY <2>1
  <2>5. num1 \div (den * info.volume_step) <= num2 \div (den * info.volume_step)
    BY <2>1, <2>3, <2>4, QuotientMono
  <2>6. cfg.max_lot \in Int
    BY DEF SizingOK
  <2>7. SnapClamp(num1, den, info.volume_step, info.volume_min, cfg.max_lot)
          <= SnapClamp(num2, den, info.volume_step, info.volume_min, cfg.max_lot)
    <3> DEFINE step == info.volume_step
               min  == info.volume_min
               max  == cfg.max_lot
    <3>1. /\ step \in Int /\ step > 0 /\ min \in Int /\ max \in Int
          /\ num1 \div (den * step) <= num2 \div (den * step)
      BY <2>5, <2>6
    <3>2. num1 \in Int /\ num2 \in Int /\ den \in Int /\ den > 0
      BY <2>1
    <3> HIDE DEF num1, num2, den, step, min, max
    <3>3. SnapClamp(num1, den, step, min, max) <= SnapClamp(num2, den, step, min, max)
      BY ONLY <3>1, <3>2, SnapClampMono
    <3> QED
      BY <3>3 DEF step, min, max
  <2> QED
    BY <1>2, <2>7, SlaveLotIs
<1> QED
  BY <1>1, <1>2

(* A base lot never makes an order bigger.                                 *)
THEOREM BaseLotNeverScalesUp ==
  ASSUME NEW cfg, SizingOK(cfg), NEW plain, SizingOK(plain),
         plain.sizing_mode = cfg.sizing_mode, plain.step_amount = cfg.step_amount,
         plain.step_size = cfg.step_size, plain.fixed_lot = cfg.fixed_lot,
         plain.max_lot = cfg.max_lot, plain.master_base_lot = 0,
         NEW info, NEW mv \in Nat, NEW balance \in Int,
         info.volume_step \in Nat \ {0}, info.volume_min \in Nat
  PROVE  CalculateSlaveLot(cfg, mv, balance, info)
           <= CalculateSlaveLot(plain, mv, balance, info)
<1>1. AsksNothing(plain) <=> AsksNothing(cfg)
  BY DEF AsksNothing
<1>2. CASE AsksNothing(cfg)
  BY <1>1, <1>2, SlaveLotIs
<1>3. CASE ~ AsksNothing(cfg)
  <2> DEFINE num1 == AskedNum(cfg, mv, balance)
             num2 == AskedNum(plain, mv, balance)
             den  == AskedDen(cfg, mv)
             step == info.volume_step
  <2>1. /\ num1 \in Int /\ num2 \in Int /\ den \in Int /\ den > 0
        /\ AskedDen(plain, mv) = 1
    BY <1>1, <1>3, AskedIsFraction DEF AskedDen, ScalesDown
  <2>2. /\ den * step \in Int /\ den * step > 0
        /\ 1 * step \in Int /\ 1 * step > 0
    BY <2>1
  <2>3. \/ num1 \div (den * step) <= num2 \div (1 * step)
        \/ num1 <= 0
    <3>1. CASE ~ ScalesDown(cfg, mv)
      <4>1. num1 = num2 /\ den = 1
        BY <3>1 DEF AskedNum, AskedDen, ScalesDown, RawSize
      <4>2. num1 \div (den * step) = num2 \div (1 * step)
        BY <4>1
      <4>3. num2 \div (1 * step) \in Int
        BY <2>1, <2>2, DivisionFacts
      <4> HIDE DEF num1, num2, den, step
      <4> QED
        BY <4>2, <4>3
    <3>2. CASE ScalesDown(cfg, mv)
      <4> DEFINE raw == RawSize(cfg, balance)
                 base == cfg.master_base_lot
      <4>1. num1 = raw * mv /\ num2 = raw /\ den = base /\ mv < base /\ base \in Int
        BY <3>2 DEF AskedNum, AskedDen, ScalesDown, SizingOK, RawSize
      <4>2. raw \in Int
        BY <2>1, <4>1
      <4> HIDE DEF num1, num2, den, raw, base
      <4>3. CASE raw < 0
        <5>1. raw * mv <= 0 * mv
          BY <4>2, <4>3, TimesMono
        <5> QED
          BY <4>1, <5>1
      <4>4. CASE raw >= 0
        <5> DEFINE k == num1 \div (den * step)
        <5>1. k \in Int /\ k * (den * step) <= num1
          BY <2>1, <2>2, DivisionFacts, FitsQuotient
        <5> HIDE DEF k
        <5>2. raw * mv <= raw * base
          BY <4>1, <4>2, <4>4, TimesMono
        <5>3. k * (den * step) = (k * step) * base
          BY <2>1, <4>1, <5>1 DEF step
        <5>4. raw * mv \in Int /\ raw * base \in Int /\ k * step \in Int
          BY <4>1, <4>2, <5>1 DEF step
        <5>5. (k * step) * base <= raw * base
          <6>1. (k * step) * base \in Int
            BY <4>1, <5>4
          <6> QED
            BY <4>1, <5>1, <5>2, <5>3, <5>4, <6>1
        <5>6. k * step <= raw
          <6> SUFFICES ASSUME k * step > raw PROVE FALSE
            BY <4>2, <5>4
          <6>1. (raw + 1) * base <= (k * step) * base
            BY <2>1, <4>1, <4>2, <5>4, TimesMono
          <6>2. (raw + 1) * base = raw * base + base /\ base > 0
            BY <2>1, <4>1, <4>2
          <6>3. (k * step) * base \in Int
            BY <4>1, <5>4
          <6> QED
            BY <4>1, <5>4, <5>5, <6>1, <6>2, <6>3
        <5>7. k <= num2 \div (1 * step)
          <6>1. k * (1 * step) = k * step
            BY <5>1 DEF step
          <6>2. k * (1 * step) <= num2
            BY <4>1, <5>6, <6>1
          <6> QED
            BY <2>1, <2>2, <5>1, <6>2, FitsQuotient
        <5> QED
          BY <5>7 DEF k
      <4> QED
        BY <4>2, <4>3, <4>4
    <3> QED
      BY <3>1, <3>2
  <2>4. cfg.max_lot \in Int /\ step \in Int /\ step > 0 /\ info.volume_min \in Int
        /\ info.volume_min >= 0
    BY DEF SizingOK
  <2>5. SnapClamp(num1, den, step, info.volume_min, cfg.max_lot)
          <= SnapClamp(num2, 1, step, info.volume_min, cfg.max_lot)
    <3> DEFINE min == info.volume_min
               max == cfg.max_lot
               one == 1
    <3>1. /\ step \in Int /\ step > 0 /\ min \in Int /\ max \in Int
          /\ \/ num1 \div (den * step) <= num2 \div (one * step)
             \/ num1 <= 0 /\ min >= 0
      BY <2>3, <2>4
    <3>2. /\ num1 \in Int /\ num2 \in Int /\ den \in Int /\ den > 0
          /\ one \in Int /\ one > 0
      BY <2>1
    <3> HIDE DEF num1, num2, den, step, min, max, one
    <3>3. SnapClamp(num1, den, step, min, max) <= SnapClamp(num2, one, step, min, max)
      BY ONLY <3>1, <3>2, SnapClampMono
    <3> QED
      BY <3>3 DEF min, max, one
  <2>6. /\ CalculateSlaveLot(cfg, mv, balance, info)
             = SnapClamp(num1, den, step, info.volume_min, cfg.max_lot)
        /\ CalculateSlaveLot(plain, mv, balance, info)
             = SnapClamp(num2, 1, step, info.volume_min, cfg.max_lot)
    BY <1>1, <1>3, <2>1, SlaveLotIs
  <2> QED
    BY <2>5, <2>6
<1> QED
  BY <1>2, <1>3

(* On a decimal grid a volume is a whole number of steps.                  *)
LEMMA GridSteps ==
  ASSUME NEW x \in Int, NEW step \in DecimalSteps, OnGrid(x, step)
  PROVE  /\ x \div step \in Int
         /\ x = (x \div step) * step
  BY DEF OnGrid, DecimalSteps

LEMMA StepsOnGrid ==
  ASSUME NEW k \in Int, NEW step \in DecimalSteps
  PROVE  (k * step) % step = 0
<1>1. CASE step = 1
  BY <1>1
<1>2. CASE step = 10
  BY <1>2
<1>3. CASE step = 100
  BY <1>3
<1> QED
  BY <1>1, <1>2, <1>3 DEF DecimalSteps

(* v lots fit into num / den lots.                                         *)
Holds(num, den, v) == v * den <= num

(* With volume_min and max_lot on a decimal grid, a size is an allowed     *)
(* volume, no allowed volume that num / den holds is larger, and num / den *)
(* holds it unless it is volume_min.                                       *)
THEOREM SnapClampFits ==
  ASSUME NEW num \in Int, NEW den \in Int, den > 0, NEW step \in DecimalSteps,
         NEW min \in Int, OnGrid(min, step), NEW max \in Int, OnGrid(max, step),
         min <= max
  PROVE  LET size == SnapClamp(num, den, step, min, max)
         IN  /\ size \in min..max /\ OnGrid(size, step)
             /\ \A v \in min..max :
                  OnGrid(v, step) /\ Holds(num, den, v) => v <= size
             /\ Holds(num, den, size) \/ size = min
<1> DEFINE k    == num \div (den * step)
           s    == k * step
           c    == MinOf(MaxOf(s, min), max)
           size == SnapClamp(num, den, step, min, max)
<1>1. den * step \in Int /\ den * step > 0
  BY DEF DecimalSteps
<1>2. k \in Int
  BY <1>1, DivisionFacts
<1>3. ASSUME NEW v \in Int, OnGrid(v, step)
      PROVE  Holds(num, den, v) <=> v <= s
  <2> DEFINE j == v \div step
  <2>1. j \in Int /\ v = j * step
    BY <1>3, GridSteps
  <2>2. j <= k <=> j * (den * step) <= num
    BY <1>1, <2>1, FitsQuotient
  <2> HIDE DEF j, k
  <2>3. j * (den * step) = v * den
    BY <2>1 DEF DecimalSteps
  <2>4. j <= k <=> j * step <= k * step
    BY <1>2, <2>1 DEF DecimalSteps
  <2> QED
    BY <2>1, <2>2, <2>3, <2>4 DEF Holds
<1> HIDE DEF k
<1>4. s \in Int /\ OnGrid(s, step)
  <2>1. s = k * step /\ s \in Int
    BY <1>2 DEF DecimalSteps
  <2> HIDE DEF s
  <2> QED
    BY <1>2, <2>1, StepsOnGrid DEF OnGrid
<1>5. size = RoundTo(c, SnapDigits(step))
  BY DEF SnapClamp, k, DecimalSteps
<1> HIDE DEF s
<1>6. c \in Int /\ OnGrid(c, step) /\ min <= c /\ c <= max
  BY <1>4 DEF MinOf, MaxOf
<1>7. size = c
  <2> HIDE DEF c
  <2> QED
    BY <1>5, <1>6, RoundOnGrid, DecimalStepDigits
<1> HIDE DEF size
<1>8. size \in min..max /\ OnGrid(size, step)
  <2> HIDE DEF c
  <2> QED
    BY <1>6, <1>7
<1>9. \A v \in min..max : v <= s => v <= c
  BY <1>4 DEF MinOf, MaxOf
<1>10. c <= s \/ c = min
  BY <1>4 DEF MinOf, MaxOf
<1> HIDE DEF c
<1>11. ASSUME NEW v \in min..max, OnGrid(v, step), Holds(num, den, v)
       PROVE  v <= size
  <2>1. v <= s
    BY <1>3, <1>11
  <2> QED
    BY <1>7, <1>9, <2>1
<1>12. Holds(num, den, size) \/ size = min
  BY <1>3, <1>6, <1>7, <1>10
<1> QED
  BY <1>8, <1>11, <1>12 DEF size

-----------------------------------------------------------------------------
(* A set of numbers that is not empty has a least element.                 *)
LEMMA LeastIn ==
  ASSUME NEW R, IsWellFoundedOn(R, Nat),
         \A x, y \in Nat : << y, x >> \in R <=> y < x,
         NEW T \in SUBSET Nat, T # {}
  PROVE  \E x \in T : \A y \in T : x <= y
<1>1. PICK x \in T : \A y \in T : ~ (<< y, x >> \in R)
  BY WFMin
<1>2. \A y \in T : ~ (y < x)
  BY <1>1
<1> QED
  BY <1>2

(* Induction on numbers, for those of a set.                               *)
LEMMA Upwards ==
  ASSUME NEW T, 0 \in T, \A n \in Nat : n \in T => n + 1 \in T
  PROVE  \A n \in Nat : n \in T
<1> DEFINE U == Nat \ T
<1> SUFFICES ASSUME U # {} PROVE FALSE
  OBVIOUS
<1>1. /\ IsWellFoundedOn(OpToRel(<, Nat), Nat)
      /\ \A x, y \in Nat : << y, x >> \in OpToRel(<, Nat) <=> y < x
  BY NatLessThanWellFounded DEF OpToRel
<1>2. PICK k \in U : \A m \in U : k <= m
  <2>1. U \in SUBSET Nat
    OBVIOUS
  <2> HIDE DEF U
  <2> QED
    BY <1>1, <2>1, LeastIn
<1>3. k \in Nat /\ k # 0 /\ k - 1 \in Nat /\ k \notin T
  OBVIOUS
<1>4. k - 1 \notin U
  <2> HIDE DEF U
  <2> QED
    BY <1>2, <1>3
<1>5. (k - 1) + 1 = k
  BY <1>3
<1> QED
  BY <1>3, <1>4, <1>5

-----------------------------------------------------------------------------
(* Sums.  IsSum: g adds the values of f up over each subset of S, taking   *)
(* the indices one by one in the order CHOOSE gives.                       *)
Pick(u) == CHOOSE x \in u : TRUE

IsSum(f, S, g) ==
  g = [u \in SUBSET S |-> IF u = {} THEN 0 ELSE f[Pick(u)] + g[u \ {Pick(u)}]]

LEMMA PickIn == ASSUME NEW u, u # {} PROVE Pick(u) \in u
  BY DEF Pick

(* Induction on the size of the subsets of a finite set.                   *)
LEMMA BySize ==
  ASSUME NEW S, IsFiniteSet(S), NEW Good,
         \A u \in SUBSET S : (\A x \in u : u \ {x} \in Good) => u \in Good
  PROVE  \A u \in SUBSET S : u \in Good
<1> DEFINE T == {n \in Nat : \A u \in SUBSET S : Cardinality(u) = n => u \in Good}
<1>0. \A u \in SUBSET S : IsFiniteSet(u) /\ Cardinality(u) \in Nat
  BY FS_Subset, FS_CardinalityType
<1>1. 0 \in T
  BY <1>0, FS_EmptySet
<1>2. ASSUME NEW n \in Nat, n \in T PROVE n + 1 \in T
  <2> SUFFICES ASSUME NEW u \in SUBSET S, Cardinality(u) = n + 1 PROVE u \in Good
    OBVIOUS
  <2>1. ASSUME NEW x \in u
        PROVE  u \ {x} \in SUBSET S /\ Cardinality(u \ {x}) = n
    <3>1. IsFiniteSet(u)
      BY <1>0
    <3>2. Cardinality(u \ {x}) = Cardinality(u) - 1
      BY <3>1, FS_RemoveElement
    <3> QED
      BY <3>2
  <2> QED
    BY <1>2, <2>1
<1> HIDE DEF T
<1>3. \A n \in Nat : n \in T
  BY <1>1, <1>2, Upwards
<1> QED
  BY <1>0, <1>3 DEF T

LEMMA SumExists ==
  ASSUME NEW S, IsFiniteSet(S), NEW f, \A x \in S : f[x] \in Int
  PROVE  \E g : IsSum(f, S, g)
<1> DEFINE Sz(n) == {u \in SUBSET S : Cardinality(u) <= n}
           Rec(g, u) == IF u = {} THEN 0 ELSE f[Pick(u)] + g[u \ {Pick(u)}]
           T == {n \in Nat : \E g : g = [u \in Sz(n) |-> Rec(g, u)]}
<1>0. \A u \in SUBSET S :
        /\ IsFiniteSet(u) /\ Cardinality(u) \in Nat
        /\ Cardinality(u) = 0 <=> u = {}
        /\ u # {} => /\ Pick(u) \in u /\ u \ {Pick(u)} \in SUBSET S
                     /\ Cardinality(u \ {Pick(u)}) = Cardinality(u) - 1
  <2> SUFFICES ASSUME NEW u \in SUBSET S
               PROVE  /\ IsFiniteSet(u) /\ Cardinality(u) \in Nat
                      /\ Cardinality(u) = 0 <=> u = {}
                      /\ u # {} => /\ Pick(u) \in u /\ u \ {Pick(u)} \in SUBSET S
                                   /\ Cardinality(u \ {Pick(u)}) = Cardinality(u) - 1
    OBVIOUS
  <2>1. IsFiniteSet(u) /\ Cardinality(u) \in Nat
    BY FS_Subset, FS_CardinalityType
  <2>2. Cardinality(u) = 0 <=> u = {}
    BY <2>1, FS_EmptySet
  <2>3. u # {} => Pick(u) \in u /\ u \ {Pick(u)} \in SUBSET S
    BY PickIn
  <2>4. u # {} => Cardinality(u \ {Pick(u)}) = Cardinality(u) - 1
    BY <2>1, <2>3, FS_RemoveElement
  <2> QED
    BY <2>1, <2>2, <2>3, <2>4
<1>1. 0 \in T
  <2> DEFINE g == [u \in Sz(0) |-> 0]
  <2>1. \A u \in Sz(0) : Rec(g, u) = 0
    BY <1>0
  <2>2. g = [u \in Sz(0) |-> Rec(g, u)]
    BY <2>1
  <2> QED
    BY <2>2
<1>2. ASSUME NEW n \in Nat, n \in T PROVE n + 1 \in T
  <2>1. PICK g : g = [u \in Sz(n) |-> Rec(g, u)]
    BY <1>2
  <2> DEFINE h == [u \in Sz(n + 1) |-> Rec(g, u)]
  <2>2. \A u \in Sz(n + 1) : u # {} => u \ {Pick(u)} \in Sz(n)
    BY <1>0
  <2>3. \A u \in Sz(n) : u \in Sz(n + 1) /\ h[u] = g[u]
    <3>1. ASSUME NEW u \in Sz(n) PROVE u \in Sz(n + 1)
      <4>1. u \in SUBSET S /\ Cardinality(u) \in Nat /\ Cardinality(u) <= n
        BY <1>0
      <4> QED
        BY <4>1
    <3>2. \A u \in Sz(n) : g[u] = Rec(g, u)
      <4> HIDE DEF Sz, Rec
      <4> QED
        BY <2>1
    <3> HIDE DEF Rec, Sz
    <3> QED
      BY <3>1, <3>2
  <2>4. \A u \in Sz(n + 1) : Rec(h, u) = Rec(g, u)
    <3> HIDE DEF h, Sz
    <3> QED
      BY <2>2, <2>3
  <2>5. h = [u \in Sz(n + 1) |-> Rec(h, u)]
    <3> HIDE DEF Rec, Sz
    <3> QED
      BY <2>4
  <2> HIDE DEF h, Sz, Rec
  <2> QED
    BY <2>5
<1>3. Cardinality(S) \in T /\ Cardinality(S) \in Nat
  <2>1. Cardinality(S) \in Nat
    BY FS_CardinalityType
  <2> HIDE DEF T
  <2> QED
    BY <2>1, <1>1, <1>2, Upwards
<1>4. Sz(Cardinality(S)) = SUBSET S
  BY FS_Subset
<1>5. PICK g : g = [u \in SUBSET S |-> Rec(g, u)]
  BY <1>3, <1>4
<1> QED
  BY <1>5 DEF IsSum

(* Whatever is chosen first, a sum is a value and the sum of the others.   *)
LEMMA SumAnyOrder ==
  ASSUME NEW S, IsFiniteSet(S), NEW f, \A x \in S : f[x] \in Int,
         NEW g, IsSum(f, S, g)
  PROVE  \A u \in SUBSET S :
           /\ g[u] \in Int
           /\ u = {} => g[u] = 0
           /\ \A x \in u : g[u] = f[x] + g[u \ {x}]
<1> DEFINE P(u) == /\ g[u] \in Int
                   /\ u = {} => g[u] = 0
                   /\ \A x \in u : g[u] = f[x] + g[u \ {x}]
           Good == {u \in SUBSET S : \A w \in SUBSET u : P(w)}
<1>1. \A u \in SUBSET S :
        g[u] = IF u = {} THEN 0 ELSE f[Pick(u)] + g[u \ {Pick(u)}]
  BY DEF IsSum
<1>2. ASSUME NEW u \in SUBSET S, \A x \in u : u \ {x} \in Good
      PROVE  u \in Good
  <2>1. CASE u = {}
    <3>1. g[u] = 0
      BY <1>1, <2>1
    <3>2. P(u)
      BY <2>1, <3>1
    <3> HIDE DEF P
    <3> QED
      BY <2>1, <3>2
  <2>2. CASE u # {}
    <3> DEFINE c == Pick(u)
    <3>1. c \in u /\ g[u] = f[c] + g[u \ {c}]
      BY <1>1, <2>2, PickIn
    <3> HIDE DEF c
    <3>2. \A x \in u : P(u \ {x})
      BY <1>2
    <3>3. \A x, y \in u : x # y => g[u \ {x}] = f[y] + g[(u \ {x}) \ {y}]
      <4> SUFFICES ASSUME NEW x \in u, NEW y \in u, x # y
                   PROVE  g[u \ {x}] = f[y] + g[(u \ {x}) \ {y}]
        OBVIOUS
      <4>1. P(u \ {x}) /\ y \in u \ {x}
        BY <3>2
      <4> QED
        BY <4>1
    <3>4. \A x, y \in u : g[(u \ {x}) \ {y}] \in Int
      <4> SUFFICES ASSUME NEW x \in u, NEW y \in u
                   PROVE  g[(u \ {x}) \ {y}] \in Int
        OBVIOUS
      <4>1. (u \ {x}) \ {y} \in SUBSET (u \ {x})
        OBVIOUS
      <4> QED
        BY <4>1, <1>2
    <3>5. ASSUME NEW x \in u PROVE g[u] = f[x] + g[u \ {x}]
      <4>1. CASE x = c
        BY <3>1, <4>1
      <4>2. CASE x # c
        <5>1. (u \ {c}) \ {x} = (u \ {x}) \ {c}
          OBVIOUS
        <5>2. f[x] \in Int /\ f[c] \in Int
          BY <3>1
        <5>3. g[u \ {c}] = f[x] + g[(u \ {x}) \ {c}]
          BY <3>1, <3>3, <4>2, <5>1
        <5>4. g[u \ {x}] = f[c] + g[(u \ {x}) \ {c}]
          BY <3>1, <3>3, <4>2
        <5>5. g[(u \ {x}) \ {c}] \in Int
          BY <3>1, <3>4
        <5> QED
          BY <3>1, <5>2, <5>3, <5>4, <5>5
      <4> QED
        BY <4>1, <4>2
    <3>6. g[u] \in Int
      <4>1. f[c] \in Int /\ g[u \ {c}] \in Int
        BY <3>1, <3>2
      <4> QED
        BY <3>1, <4>1
    <3>7. P(u)
      BY <2>2, <3>5, <3>6
    <3>8. ASSUME NEW w \in SUBSET u, w # u PROVE P(w)
      <4>1. PICK x \in u : w \in SUBSET (u \ {x})
        BY <3>8
      <4> QED
        BY <4>1, <1>2
    <3> HIDE DEF P
    <3> QED
      BY <3>7, <3>8
  <2> QED
    BY <2>1, <2>2
<1> HIDE DEF Good
<1>3. \A u \in SUBSET S : u \in Good
  BY <1>2, BySize
<1> QED
  BY <1>3 DEF Good

(* The library's sum is such a g.                                          *)
LEMMA SumIs ==
  ASSUME NEW S, IsFiniteSet(S), NEW f, \A x \in S : f[x] \in Int
  PROVE  \E g : IsSum(f, S, g) /\ SumFunctionOnSet(f, S) = g[S]
<1> DEFINE sums == CHOOSE g : IsSum(f, S, g)
<1>1. IsSum(f, S, sums)
  BY SumExists
<1>2. SumFunctionOnSet(f, S) = sums[S]
  BY DEF SumFunctionOnSet, FoldFunctionOnSet, MapThenFoldSet, IsSum, Pick
<1> HIDE DEF sums
<1> QED
  BY <1>1, <1>2

(* Two sums agree on every set both of them cover.                         *)
LEMMA SumsAgree ==
  ASSUME NEW S, IsFiniteSet(S), NEW T, IsFiniteSet(T), NEW f, NEW h,
         \A x \in S : f[x] \in Int, \A x \in T : h[x] \in Int,
         NEW U, U \subseteq S, U \subseteq T, \A x \in U : f[x] = h[x],
         NEW g, IsSum(f, S, g), NEW k, IsSum(h, T, k)
  PROVE  g[U] = k[U]
<1> DEFINE Good == {u \in SUBSET U : g[u] = k[u]}
<1>g. \A u \in SUBSET S : /\ g[u] \in Int
                          /\ u = {} => g[u] = 0
                          /\ \A x \in u : g[u] = f[x] + g[u \ {x}]
  <2>1. (\A x \in S : f[x] \in Int) /\ IsFiniteSet(S) /\ IsSum(f, S, g)
    OBVIOUS
  <2> QED
    BY ONLY <2>1, SumAnyOrder
<1>k. \A u \in SUBSET T : /\ k[u] \in Int
                          /\ u = {} => k[u] = 0
                          /\ \A x \in u : k[u] = h[x] + k[u \ {x}]
  <2>1. (\A x \in T : h[x] \in Int) /\ IsFiniteSet(T) /\ IsSum(h, T, k)
    OBVIOUS
  <2> QED
    BY ONLY <2>1, SumAnyOrder
<1>1. IsFiniteSet(U)
  BY FS_Subset
<1>2. ASSUME NEW u \in SUBSET U, \A x \in u : u \ {x} \in Good
      PROVE  u \in Good
  <2>0. u \in SUBSET S /\ u \in SUBSET T
    OBVIOUS
  <2>1. /\ u = {} => g[u] = 0
        /\ \A x \in u : g[u] = f[x] + g[u \ {x}]
    BY <1>g, <2>0
  <2>2. /\ u = {} => k[u] = 0
        /\ \A x \in u : k[u] = h[x] + k[u \ {x}]
    BY <1>k, <2>0
  <2>3. \A x \in u : g[u \ {x}] = k[u \ {x}]
    BY <1>2
  <2> QED
    BY <2>1, <2>2, <2>3
<1> HIDE DEF Good
<1>3. \A u \in SUBSET U : u \in Good
  BY <1>1, <1>2, BySize
<1> QED
  BY <1>3 DEF Good

(* The sum of the values of f over S, element by element.                  *)
LEMMA SumOver ==
  ASSUME NEW S, IsFiniteSet(S), NEW f, \A x \in S : f[x] \in Int
  PROVE  /\ SumFunctionOnSet(f, S) \in Int
         /\ S = {} => SumFunctionOnSet(f, S) = 0
         /\ \A x \in S : SumFunctionOnSet(f, S)
                           = f[x] + SumFunctionOnSet(f, S \ {x})
<1>1. PICK g : IsSum(f, S, g) /\ SumFunctionOnSet(f, S) = g[S]
  BY SumIs
<1>2. /\ g[S] \in Int
      /\ S = {} => g[S] = 0
      /\ \A x \in S : g[S] = f[x] + g[S \ {x}]
  <2>1. \A u \in SUBSET S : /\ g[u] \in Int
                            /\ u = {} => g[u] = 0
                            /\ \A x \in u : g[u] = f[x] + g[u \ {x}]
    BY <1>1, SumAnyOrder
  <2> QED
    BY <2>1
<1>3. ASSUME NEW x \in S PROVE SumFunctionOnSet(f, S \ {x}) = g[S \ {x}]
  <2>1. IsFiniteSet(S \ {x})
    BY FS_Subset
  <2>2. PICK k : /\ IsSum(f, S \ {x}, k)
                 /\ SumFunctionOnSet(f, S \ {x}) = k[S \ {x}]
    BY <2>1, SumIs
  <2>3. g[S \ {x}] = k[S \ {x}]
    BY <1>1, <2>1, <2>2, SumsAgree
  <2> QED
    BY <2>2, <2>3
<1> QED
  BY <1>1, <1>2, <1>3

LEMMA SumSame ==
  ASSUME NEW S, IsFiniteSet(S), NEW f, NEW h,
         \A x \in S : f[x] \in Int /\ h[x] = f[x]
  PROVE  SumFunctionOnSet(f, S) = SumFunctionOnSet(h, S)
<1>0. \A x \in S : h[x] \in Int
  OBVIOUS
<1>1. PICK g : IsSum(f, S, g) /\ SumFunctionOnSet(f, S) = g[S]
  BY SumIs
<1>2. PICK k : IsSum(h, S, k) /\ SumFunctionOnSet(h, S) = k[S]
  BY <1>0, SumIs
<1>3. g[S] = k[S]
  BY <1>0, <1>1, <1>2, SumsAgree
<1> QED
  BY <1>1, <1>2, <1>3

(* The sum of a sequence, from its partial sums.                           *)
LEMMA SumBySteps ==
  ASSUME NEW n \in Nat, NEW s, \A i \in 1..n : s[i] \in Int,
         NEW p, p[0] = 0, \A i \in 1..n : p[i] = p[i - 1] + s[i]
  PROVE  SumFunctionOnSet(s, 1..n) = p[n]
<1> DEFINE T == {k \in Nat : k <= n => SumFunctionOnSet(s, 1..k) = p[k]}
<1>1. 0 \in T
  <2>1. 1..0 = {} /\ IsFiniteSet(1..0)
    BY FS_EmptySet
  <2>2. SumFunctionOnSet(s, 1..0) = 0
    BY <2>1, SumOver
  <2> QED
    BY <2>2
<1>2. ASSUME NEW k \in Nat, k \in T PROVE k + 1 \in T
  <2> SUFFICES ASSUME k + 1 <= n
               PROVE  SumFunctionOnSet(s, 1..(k + 1)) = p[k + 1]
    OBVIOUS
  <2>1. IsFiniteSet(1..(k + 1)) /\ \A i \in 1..(k + 1) : s[i] \in Int
    BY FS_Interval
  <2>2. k + 1 \in 1..(k + 1) /\ (1..(k + 1)) \ {k + 1} = 1..k
    OBVIOUS
  <2>3. SumFunctionOnSet(s, 1..(k + 1)) = s[k + 1] + SumFunctionOnSet(s, 1..k)
    <3>1. SumFunctionOnSet(s, 1..(k + 1))
            = s[k + 1] + SumFunctionOnSet(s, (1..(k + 1)) \ {k + 1})
      BY <2>1, <2>2, SumOver, ZenonT(40)
    <3> QED
      BY <2>2, <3>1
  <2>4. SumFunctionOnSet(s, 1..k) = p[k] /\ SumFunctionOnSet(s, 1..k) \in Int
    <3>1. IsFiniteSet(1..k) /\ \A i \in 1..k : s[i] \in Int
      BY FS_Interval
    <3> QED
      BY <1>2, <3>1, SumOver
  <2>5. p[k + 1] = p[k] + s[k + 1] /\ s[k + 1] \in Int
    <3>1. k + 1 \in 1..n /\ (k + 1) - 1 = k
      OBVIOUS
    <3> QED
      BY <3>1
  <2> QED
    BY <2>3, <2>4, <2>5
<1> HIDE DEF T
<1>3. n \in T
  BY <1>1, <1>2, Upwards
<1> QED
  BY <1>3 DEF T

-----------------------------------------------------------------------------
LEMMA SplitDigitsDecimal ==
  ASSUME NEW step \in DecimalSteps
  PROVE  Tenth(SplitDigits(step)) = step
<1>1. CASE step = 1
  BY <1>1 DEF Tenth, SplitDigits, LotUnits
<1>2. CASE step = 10
  BY <1>2 DEF Tenth, SplitDigits, LotUnits
<1>3. CASE step = 100
  BY <1>3 DEF Tenth, SplitDigits, LotUnits
<1> QED
  BY <1>1, <1>2, <1>3 DEF DecimalSteps

(* Chunks of whole steps are rounded to themselves.                        *)
LEMMA StepsNotRounded ==
  ASSUME NEW k \in Int, NEW step \in DecimalSteps, NEW x, x = k * step
  PROVE  RoundTo(x, SplitDigits(step)) = x
<1>1. x \in Int /\ x % step = 0
  BY StepsOnGrid
<1>2. OnGrid(x, Tenth(SplitDigits(step)))
  BY <1>1, SplitDigitsDecimal DEF OnGrid
<1> QED
  BY <1>1, <1>2, RoundOnGrid

(* An even split: T steps over n chunks, the first T % n of which take one *)
(* more than the others.                                                   *)
LEMMA EvenShare ==
  ASSUME NEW T \in Nat, NEW n \in Nat, n > 0,
         NEW m \in Nat, m * n <= T, NEW M \in Nat, T < n * M
  PROVE  LET base  == T \div n
             extra == T - base * n
         IN  /\ base \in Nat /\ m <= base /\ base < M
             /\ extra \in 0..(n - 1) /\ T = base * n + extra
<1> DEFINE base == T \div n
           extra == T % n
<1>1. base \in Int /\ extra \in 0..(n - 1) /\ T = n * base + extra
  BY DivisionFacts
<1>2. T - base * n = extra /\ T = base * n + extra
  <2> HIDE DEF base, extra
  <2>1. n * base = base * n /\ base * n \in Int
    BY <1>1
  <2> QED
    BY <1>1, <2>1
<1>3. m <= base
  BY FitsQuotient
<1>4. base < M
  <2>1. M <= base <=> M * n <= T
    BY FitsQuotient
  <2>2. M * n = n * M /\ M * n \in Int
    OBVIOUS
  <2> HIDE DEF base
  <2> QED
    BY <1>1, <2>1, <2>2
<1> HIDE DEF base, extra
<1>5. base \in Nat
  BY <1>1, <1>3
<1> QED
  BY <1>1, <1>2, <1>3, <1>4, <1>5 DEF base

(* What the chunks of an order have to be.                                 *)
IsSplit(s, total, step, min, max) ==
  /\ s \in Seq(Int)
  /\ \A i \in 1..Len(s) : s[i] % step = 0 /\ min <= s[i] /\ s[i] <= max
  /\ SumFunctionOnSet(s, 1..Len(s)) = total
  /\ (Len(s) - 1) * ((max \div step) * step) < total

LEMMA FullChunks ==
  ASSUME NEW n \in Nat, NEW c \in Int, NEW s, s = [i \in 1..n |-> c]
  PROVE  SumFunctionOnSet(s, 1..n) = n * c
<1> DEFINE p == [k \in 0..n |-> k * c]
<1>1. p[0] = 0
  OBVIOUS
<1>2. \A i \in 1..n : p[i] = p[i - 1] + s[i]
  <2> SUFFICES ASSUME NEW i \in 1..n PROVE p[i] = p[i - 1] + s[i]
    OBVIOUS
  <2>1. i \in 0..n /\ i - 1 \in 0..n
    OBVIOUS
  <2>2. p[i] = i * c /\ p[i - 1] = (i - 1) * c /\ s[i] = c
    BY <2>1
  <2>3. (i - 1) * c = i * c - c /\ i * c \in Int
    OBVIOUS
  <2> QED
    BY <2>2, <2>3
<1>3. p[n] = n * c
  OBVIOUS
<1> HIDE DEF p
<1>4. \A i \in 1..n : s[i] \in Int
  OBVIOUS
<1> QED
  BY <1>1, <1>2, <1>3, <1>4, SumBySteps

LEMMA FullAndRest ==
  ASSUME NEW n \in Nat, NEW c \in Int, NEW r \in Int, NEW s,
         s = [i \in 1..(n + 1) |-> IF i <= n THEN c ELSE r]
  PROVE  SumFunctionOnSet(s, 1..(n + 1)) = n * c + r
<1> DEFINE p == [k \in 0..(n + 1) |-> IF k <= n THEN k * c ELSE n * c + r]
<1>1. p[0] = 0
  OBVIOUS
<1>2. \A i \in 1..(n + 1) : p[i] = p[i - 1] + s[i]
  <2> SUFFICES ASSUME NEW i \in 1..(n + 1) PROVE p[i] = p[i - 1] + s[i]
    OBVIOUS
  <2>1. i \in 0..(n + 1) /\ i - 1 \in 0..(n + 1) /\ i - 1 <= n
    OBVIOUS
  <2>2. p[i - 1] = (i - 1) * c
    BY <2>1
  <2>3. (i - 1) * c = i * c - c /\ i * c \in Int
    OBVIOUS
  <2>4. CASE i <= n
    <3>1. p[i] = i * c /\ s[i] = c
      BY <2>1, <2>4
    <3> QED
      BY <2>2, <2>3, <3>1
  <2>5. CASE i > n
    <3>1. p[i] = n * c + r /\ s[i] = r /\ i - 1 = n
      BY <2>1, <2>5
    <3> QED
      BY <2>2, <3>1
  <2> QED
    BY <2>4, <2>5
<1>3. p[n + 1] = n * c + r
  OBVIOUS
<1> HIDE DEF p
<1>4. \A i \in 1..(n + 1) : s[i] \in Int
  OBVIOUS
<1> DEFINE N == n + 1
<1>5. /\ N \in Nat /\ p[0] = 0
      /\ \A i \in 1..N : p[i] = p[i - 1] + s[i]
      /\ \A i \in 1..N : s[i] \in Int
  BY <1>1, <1>2, <1>4
<1> HIDE DEF N
<1>6. SumFunctionOnSet(s, 1..N) = p[N]
  BY ONLY <1>5, SumBySteps
<1> QED
  BY <1>3, <1>6 DEF N

(* n chunks of base steps, the first extra of them one step larger.        *)
EvenSteps(base, extra, n) == [i \in 1..n |-> base + IF i <= extra THEN 1 ELSE 0]
EvenVolumes(base, extra, n, step) ==
  [i \in 1..n |-> EvenSteps(base, extra, n)[i] * step]
EvenTotal(base, extra, n, step) == (base * n + extra) * step

LEMMA EvenChunks ==
  ASSUME NEW n \in Nat, NEW base \in Nat, NEW extra \in 0..n, NEW step \in Int
  PROVE  SumFunctionOnSet(EvenVolumes(base, extra, n, step), 1..n)
           = EvenTotal(base, extra, n, step)
<1> DEFINE d == EvenSteps(base, extra, n)
           s == EvenVolumes(base, extra, n, step)
           q(k) == base * k + MinOf(k, extra)
           p == [k \in 0..n |-> q(k) * step]
<1>1. p[0] = 0
  BY DEF MinOf
<1>2. \A i \in 1..n : p[i] = p[i - 1] + s[i]
  <2> SUFFICES ASSUME NEW i \in 1..n PROVE p[i] = p[i - 1] + s[i]
    OBVIOUS
  <2>1. i \in 0..n /\ i - 1 \in 0..n
    OBVIOUS
  <2>2. p[i] = q(i) * step /\ p[i - 1] = q(i - 1) * step
    BY <2>1
  <2>3. s[i] = d[i] * step
    BY DEF EvenVolumes
  <2>4. q(i) = q(i - 1) + d[i] /\ q(i) \in Int /\ q(i - 1) \in Int /\ d[i] \in Int
    <3>1. base * (i - 1) = base * i - base /\ base * i \in Int
      OBVIOUS
    <3>2. MinOf(i, extra) = MinOf(i - 1, extra) + IF i <= extra THEN 1 ELSE 0
      BY DEF MinOf
    <3>3. MinOf(i, extra) \in Int /\ MinOf(i - 1, extra) \in Int
      BY DEF MinOf
    <3>4. d[i] \in Int /\ d[i] = base + IF i <= extra THEN 1 ELSE 0
      BY DEF EvenSteps
    <3> DEFINE a == MinOf(i, extra)
               b == MinOf(i - 1, extra)
               x == base * i
               y == base * (i - 1)
               e == IF i <= extra THEN 1 ELSE 0
    <3>5. /\ a \in Int /\ b \in Int /\ x \in Int /\ y = x - base /\ e \in Int
          /\ a = b + e /\ d[i] = base + e
      BY <3>1, <3>2, <3>3, <3>4
    <3>6. q(i) = x + a /\ q(i - 1) = y + b
      OBVIOUS
    <3> HIDE DEF a, b, x, y, e, q, d
    <3> QED
      BY <3>4, <3>5, <3>6
  <2> HIDE DEF q, p
  <2>5. q(i) * step = q(i - 1) * step + d[i] * step
    BY <2>4
  <2> QED
    BY <2>2, <2>3, <2>5
<1>3. p[n] = (base * n + extra) * step
  BY DEF MinOf
<1>4. \A i \in 1..n : s[i] \in Int
  BY DEF EvenVolumes, EvenSteps
<1> HIDE DEF p, s
<1>5. n \in Nat
  OBVIOUS
<1>6. SumFunctionOnSet(s, 1..n) = p[n]
  BY ONLY <1>1, <1>2, <1>4, <1>5, SumBySteps
<1> QED
  BY <1>3, <1>6 DEF s, EvenTotal

(* split_volume on a decimal grid: whatever the remainder, the chunks add  *)
(* up to the order, each is tradable, and they are as few as volume_max    *)
(* allows.  In steps: the order has T of them, volume_max M, volume_min m. *)
(* A remainder below m is shared out evenly, which leaves every chunk at m *)
(* or more because two volume_min exceed volume_max by a step at most.     *)
THEOREM SplitVolumeRight ==
  ASSUME NEW step \in DecimalSteps, NEW total \in Int, OnGrid(total, step),
         NEW max \in Int, max > 0, total > max,
         NEW min \in Int, min > 0, OnGrid(min, step), min <= max,
         2 * min <= max + step
  PROVE  IsSplit(SplitVolume(total, max, step, min), total, step, min, max)
<1> DEFINE T == total \div step
           M == max \div step
           m == min \div step
           nf  == T \div M
           rem == T - nf * M
           n   == nf + 1
           base  == T \div n
           extra == T - base * n
           Lots(k) == RoundTo(k * step, SplitDigits(step))
           full(k) == [i \in 1..k |-> Lots(M)]
           s == SplitVolume(total, max, step, min)
<1>0. /\ M \in Nat /\ T \in Nat /\ m \in Nat /\ M >= 1 /\ m >= 1
      /\ total = T * step /\ min = m * step /\ M < T /\ 2 * m <= M + 1
      /\ step > 0 /\ step \in Int
      /\ \A k \in Int : k <= M => k * step <= max
  <2>1. /\ T \in Int /\ total = T * step /\ m \in Int /\ min = m * step
        /\ M \in Int /\ step > 0 /\ step \in Int
    BY GridSteps, DivisionFacts DEF DecimalSteps
  <2>2. \A k \in Int : k <= M <=> k * step <= max
    <3>1. ASSUME NEW k \in Int PROVE k <= M <=> k * step <= max
      BY <2>1, FitsQuotient
    <3> QED
      BY <3>1
  <2> HIDE DEF T, M, m
  <2>3. m >= 1
    BY <2>1
  <2>4. m <= M
    BY <2>1, <2>2
  <2>5. M < T
    BY <2>1, <2>2
  <2>6. 2 * m - 1 <= M
    <3>1. (2 * m - 1) * step = 2 * min - step
      BY <2>1
    <3> QED
      BY <2>1, <2>2, <3>1
  <2> QED
    BY <2>1, <2>2, <2>3, <2>4, <2>5, <2>6
<1>s. s = IF rem = 0 THEN full(nf)
          ELSE IF rem > 0 /\ rem * step >= min THEN Append(full(nf), Lots(rem))
          ELSE [i \in 1..n |-> Lots(base + IF i <= extra THEN 1 ELSE 0)]
  <2>1. ~ (total <= 0 \/ step <= 0 \/ max <= 0)
    BY DEF DecimalSteps
  <2>2. ~ (M < 1 \/ total <= max)
    BY <1>0
  <2>3. s = CASE rem = 0 -> full(nf)
              [] rem > 0 /\ rem * step >= min -> Append(full(nf), Lots(rem))
              [] OTHER ->
                   [i \in 1..n |-> Lots(base + IF i <= extra THEN 1 ELSE 0)]
    BY <2>1, <2>2, Zenon DEF SplitVolume
  <2>4. rem = 0 => ~ (rem > 0)
    OBVIOUS
  <2> HIDE DEF s, full, Lots, rem, n
  <2> QED
    BY <2>3, <2>4
<1>4. \A k \in Int : Lots(k) = k * step
  <2> SUFFICES ASSUME NEW k \in Int PROVE Lots(k) = k * step
    OBVIOUS
  <2> DEFINE x == k * step
  <2>1. x = k * step
    OBVIOUS
  <2> HIDE DEF x
  <2>2. RoundTo(x, SplitDigits(step)) = x
    BY <2>1, StepsNotRounded
  <2> QED
    BY <2>2 DEF x
<1> HIDE DEF T, M, m
<1>1. nf \in Int /\ rem \in Int /\ 0 <= rem /\ rem < M /\ T = nf * M + rem /\ nf * M \in Int
  <2>1. nf \in Int /\ (T % M) \in 0..(M - 1) /\ T = M * nf + (T % M)
    BY <1>0, DivisionFacts
  <2> HIDE DEF nf
  <2>2. M * nf = nf * M /\ nf * M \in Int
    BY <1>0, <2>1
  <2> QED
    BY <1>0, <2>1, <2>2
<1>2. nf >= 1
  BY <1>0, FitsQuotient
<1> HIDE DEF nf, rem, s, Lots, full
<1> USE <1>0, <1>1, <1>2
<1>6. /\ \A k \in Int : k * step \in Int /\ (k * step) % step = 0
      /\ \A k \in Int : k >= m => k * step >= min
      /\ \A k \in Int : k <= M => k * step <= max
  <2>1. ASSUME NEW k \in Int PROVE k * step \in Int /\ (k * step) % step = 0
    BY StepsOnGrid
  <2>2. ASSUME NEW k \in Int, k >= m PROVE k * step >= min
    BY <2>2, TimesMono
  <2> QED
    BY <2>1, <2>2
<1>7. CASE rem = 0
  <2> DEFINE c == M * step
  <2>2. c \in Int /\ c % step = 0 /\ min <= c /\ c <= max
    BY <1>6
  <2>3. nf * c = total /\ (nf - 1) * c < total
    <3>1. nf * c = (nf * M) * step /\ (nf - 1) * c = nf * c - c /\ nf * c \in Int
      BY <2>2
    <3>2. c > 0
      OBVIOUS
    <3> QED
      BY <1>7, <2>2, <3>1, <3>2
  <2> HIDE DEF c
  <2>1. s = [i \in 1..nf |-> c]
    BY <1>4, <1>s, <1>7 DEF full, c
  <2>4. s \in Seq(Int) /\ Len(s) = nf /\ \A i \in 1..nf : s[i] = c
    BY <2>1, <2>2
  <2>5. SumFunctionOnSet(s, 1..nf) = nf * c
    <3>1. nf \in Nat /\ c \in Int
      BY <2>2
    <3> QED
      BY ONLY <2>1, <3>1, FullChunks
  <2> QED
    BY <2>2, <2>3, <2>4, <2>5 DEF IsSplit, s, c, M
<1>8. CASE rem > 0 /\ rem * step >= min
  <2> DEFINE c == M * step
             r == rem * step
  <2>2. /\ c \in Int /\ c % step = 0 /\ min <= c /\ c <= max
        /\ r \in Int /\ r % step = 0 /\ min <= r /\ r <= max
    BY <1>6, <1>8
  <2>3. nf * c + r = total /\ nf * c < total
    <3>1. nf * c = (nf * M) * step /\ nf * c \in Int
      BY <2>2
    <3>2. total = (nf * M) * step + rem * step
      OBVIOUS
    <3>3. r > 0
      BY <1>8
    <3> QED
      BY <2>2, <3>1, <3>2, <3>3
  <2> HIDE DEF c, r
  <2>4. s = Append([i \in 1..nf |-> c], r)
    <3>1. Lots(M) = c /\ Lots(rem) = r
      BY <1>4 DEF c, r
    <3>2. s = Append(full(nf), Lots(rem))
      BY <1>s, <1>8
    <3> QED
      BY <3>1, <3>2 DEF full
  <2>5. /\ s \in Seq(Int) /\ Len(s) = n
        /\ s = [i \in 1..n |-> IF i <= nf THEN c ELSE r]
    BY <2>2, <2>4
  <2>6. SumFunctionOnSet(s, 1..n) = nf * c + r
    <3>1. nf \in Nat /\ c \in Int /\ r \in Int
      BY <2>2
    <3>2. s = [i \in 1..(nf + 1) |-> IF i <= nf THEN c ELSE r]
      BY <2>5
    <3> QED
      BY ONLY <3>1, <3>2, FullAndRest DEF n
  <2>7. \A i \in 1..n : s[i] \in {c, r}
    BY <2>5
  <2>8. (n - 1) * c < total
    BY <2>3
  <2> HIDE DEF n
  <2> QED
    BY <2>2, <2>3, <2>5, <2>6, <2>7, <2>8 DEF IsSplit, s, c, M
<1>9. CASE rem > 0 /\ ~ (rem * step >= min)
  <2>1. s = [i \in 1..n |-> Lots(base + IF i <= extra THEN 1 ELSE 0)]
    BY <1>s, <1>9
  <2>2. n \in Nat /\ n > 0
    OBVIOUS
  <2>3. T < n * M
    BY <1>9
  <2>4. m * n <= T
    <3>1. (m - 1) * (nf - 1) >= 0
      OBVIOUS
    <3>2. m * n <= nf * (2 * m - 1) + 1
      BY <3>1
    <3>3. nf * (2 * m - 1) <= nf * M
      BY TimesMono
    <3>4. m * n \in Int /\ nf * (2 * m - 1) \in Int
      OBVIOUS
    <3> HIDE DEF n
    <3> QED
      BY <1>9, <3>2, <3>3, <3>4
  <2>5. /\ base \in Nat /\ m <= base /\ base < M
        /\ extra \in 0..(n - 1) /\ T = base * n + extra
    <3> HIDE DEF n
    <3> QED
      BY <2>2, <2>3, <2>4, EvenShare
  <2> HIDE DEF base, extra
  <2> DEFINE d == EvenSteps(base, extra, n)
  <2>6. \A i \in 1..n : /\ d[i] = base + IF i <= extra THEN 1 ELSE 0
                        /\ d[i] \in Int /\ m <= d[i] /\ d[i] <= M
    BY <2>5 DEF EvenSteps
  <2> HIDE DEF d
  <2>7. \A i \in 1..n :
          Lots(base + IF i <= extra THEN 1 ELSE 0) = d[i] * step
    BY <1>4, <2>6
  <2>8. s = EvenVolumes(base, extra, n, step)
    BY <2>1, <2>7 DEF EvenVolumes, d
  <2>9. \A i \in 1..n : /\ d[i] * step \in Int /\ (d[i] * step) % step = 0
                        /\ min <= d[i] * step /\ d[i] * step <= max
    BY <1>6, <2>6
  <2>13. total = (base * n + extra) * step
    BY <2>5
  <2>10. SumFunctionOnSet(s, 1..n) = total
    <3>1. extra \in 0..n /\ n \in Nat /\ base \in Nat /\ step \in Int
      BY <2>2, <2>5
    <3> HIDE DEF n
    <3>2. SumFunctionOnSet(EvenVolumes(base, extra, n, step), 1..n)
            = EvenTotal(base, extra, n, step)
      BY ONLY <3>1, EvenChunks
    <3> QED
      BY <2>8, <2>13, <3>2 DEF EvenTotal
  <2>11. nf * (M * step) < total
    <3>1. nf * (M * step) = (nf * M) * step
      OBVIOUS
    <3>2. total = (nf * M) * step + rem * step
      OBVIOUS
    <3>3. rem * step > 0 /\ rem * step \in Int /\ (nf * M) * step \in Int
      BY <1>9
    <3> QED
      BY <3>1, <3>2, <3>3
  <2>12. s \in Seq(Int) /\ Len(s) = n /\ \A i \in 1..n : s[i] = d[i] * step
    BY <2>2, <2>8, <2>9 DEF EvenVolumes, d
  <2>14. (n - 1) * (M * step) < total
    BY <2>11
  <2>15. \A i \in 1..n : s[i] % step = 0 /\ min <= s[i] /\ s[i] <= max
    BY <2>9, <2>12
  <2> HIDE DEF n
  <2> QED
    BY <2>10, <2>12, <2>14, <2>15 DEF IsSplit, s, M
<1> QED
  BY <1>7, <1>8, <1>9
=============================================================================
