------------------------- MODULE SlaveWorkerProofs -------------------------
(***************************************************************************)
(* Theorems about SlaveWorker, and their proofs.                           *)
(***************************************************************************)
EXTENDS SlaveWorker, LotSizingProofs

-----------------------------------------------------------------------------
(* Types.                                                                  *)

(* The job is for the command that is outstanding for its ticket, and its  *)
(* orders are for positions that exist.                                    *)
JobOK ==
  job # None =>
    /\ job \in Job
    /\ sent[job.cmd.ticket] # None /\ job.cmd = sent[job.cmd.ticket]
    /\ job.cmd.action # "OPEN" =>
         \A k \in DOMAIN job.todo : job.todo[k].leg \in DOMAIN positions

(* The engine makes its record with the OPEN it sends.                     *)
SentOK ==
  /\ sent \in [Tickets -> Command \cup {None}]
  /\ \A t \in Tickets : sent[t] # None =>
       /\ sent[t].ticket = t
       /\ sent[t].action = "OPEN" => record[t] \in Record

(* A worker executes nothing before it has recovered.                      *)
TypeInv ==
  /\ mvol \in [Tickets -> MasterVolumes \cup {0}]
  /\ seen \in SUBSET Tickets
  /\ record \in [Tickets -> Record \cup {None}]
  /\ starting \in BOOLEAN /\ ready \in BOOLEAN
  /\ ~ ready => job = None
  /\ positions \in Seq(Leg)
  /\ SentOK
  /\ JobOK

LEMMA Constants ==
  /\ MasterVolumes \in SUBSET (Nat \ {0})
  /\ Info.volume_step \in Nat /\ Info.volume_step > 0
  /\ Info.volume_min \in Nat /\ Info.volume_min > 0
  /\ Info.volume_max \in Nat /\ Info.volume_max > 0
  /\ RetryCount \in Nat /\ RetryCount > 0
  /\ None \notin Record /\ None \notin Command /\ None \notin Job
BY WorkerConstants

(* Chunks are natural numbers, whatever the symbol.                        *)
LEMMA RoundToNat ==
  ASSUME NEW x \in Nat, NEW digits
  PROVE  RoundTo(x, digits) \in Nat
<1> DEFINE q == Tenth(digits)
<1>1. q \in Int /\ q > 0
  BY TenthIsPower
<1>2. x \div q \in Int /\ 0 <= x \div q
  <2>1. 0 * q <= x /\ 0 <= x \div q <=> 0 * q <= x
    BY <1>1, FitsQuotient
  <2> QED
    BY <1>1, <2>1, DivisionFacts
<1> DEFINE low == x \div q
<1>3. low \in Nat
  BY <1>2
<1>4. RoundTo(x, digits) = low * q \/ RoundTo(x, digits) = (low + 1) * q
  BY DEF RoundTo
<1> HIDE DEF low, q
<1> QED
  BY <1>1, <1>3, <1>4

LEMMA QuotientNat ==
  ASSUME NEW a \in Nat, NEW d \in Nat, d > 0
  PROVE  a \div d \in Nat
<1>1. a \div d \in Int
  BY DivisionFacts
<1>2. 0 <= a \div d <=> 0 * d <= a
  BY FitsQuotient
<1> QED
  BY <1>1, <1>2

LEMMA SplitVolumeNat ==
  ASSUME NEW total \in Nat, NEW max \in Nat, NEW step \in Nat, NEW min \in Nat
  PROVE  SplitVolume(total, max, step, min) \in Seq(Nat)
<1> DEFINE max_steps   == max \div step
           total_steps == total \div step
           n_fill    == total_steps \div max_steps
           rem_steps == total_steps - n_fill * max_steps
           Lots(steps) == RoundTo(steps * step, SplitDigits(step))
           Full(k)   == [i \in 1..k |-> Lots(max_steps)]
           n         == n_fill + 1
           base      == total_steps \div n
           extra     == total_steps - base * n
           s         == SplitVolume(total, max, step, min)
<1>1. CASE total <= 0 \/ step <= 0 \/ max <= 0
  <2>1. s = << total >>
    BY <1>1 DEF SplitVolume
  <2> QED
    BY <2>1
<1>2. CASE ~(total <= 0 \/ step <= 0 \/ max <= 0) /\ (max_steps < 1 \/ total <= max)
  <2>1. s = << total >>
    BY <1>2 DEF SplitVolume
  <2> QED
    BY <2>1
<1>3. CASE ~(total <= 0 \/ step <= 0 \/ max <= 0) /\ ~(max_steps < 1 \/ total <= max)
  <2>1. max_steps \in Nat /\ total_steps \in Nat /\ max_steps > 0
    BY <1>3, QuotientNat
  <2>2. n_fill \in Nat
    <3> HIDE DEF max_steps, total_steps
    <3> QED
      BY <2>1, QuotientNat
  <2>3. n \in Nat /\ n > 0 /\ base \in Nat
    <3>1. n \in Nat /\ n > 0
      BY <2>2
    <3> HIDE DEF total_steps, n
    <3> QED
      BY <2>1, <3>1, QuotientNat
  <2>4. \A k \in Nat : Lots(k) \in Nat
    <3> SUFFICES ASSUME NEW k \in Nat PROVE Lots(k) \in Nat
      OBVIOUS
    <3>1. k * step \in Nat
      OBVIOUS
    <3> QED
      BY <3>1, RoundToNat
  <2>5. rem_steps \in Int
    <3> HIDE DEF max_steps, total_steps, n_fill
    <3> QED
      BY <2>1, <2>2
  <2>6. \A k \in Nat : Full(k) \in Seq(Nat)
    <3>1. Lots(max_steps) \in Nat
      BY <2>1, <2>4
    <3> HIDE DEF Lots, max_steps
    <3> QED
      BY <3>1
  <2>10. CASE rem_steps = 0
    <3>1. s = Full(n_fill)
      BY <1>3, <2>10 DEF SplitVolume
    <3> HIDE DEF s, Full, n_fill
    <3> QED
      BY <2>2, <2>6, <3>1 DEF s
  <2>11. CASE ~ (rem_steps = 0) /\ rem_steps > 0 /\ rem_steps * step >= min
    <3>1. s = Append(Full(n_fill), Lots(rem_steps))
      BY <1>3, <2>11 DEF SplitVolume
    <3>2. Lots(rem_steps) \in Nat
      <4> HIDE DEF Lots, rem_steps
      <4> QED
        BY <2>4, <2>5, <2>11
    <3> HIDE DEF s, Full, n_fill, Lots, rem_steps
    <3> QED
      BY <2>2, <2>6, <3>1, <3>2 DEF s
  <2>12. CASE ~ (rem_steps = 0) /\ ~ (rem_steps > 0 /\ rem_steps * step >= min)
    <3>1. s = [i \in 1..n |-> Lots(base + IF i <= extra THEN 1 ELSE 0)]
      BY <1>3, <2>12 DEF SplitVolume
    <3> HIDE DEF s, n, base, extra, Lots
    <3>2. \A i \in 1..n : Lots(base + IF i <= extra THEN 1 ELSE 0) \in Nat
      BY <2>3, <2>4
    <3> QED
      BY <2>3, <3>1, <3>2 DEF s
  <2> QED
    BY <2>10, <2>11, <2>12
<1> QED
  BY <1>1, <1>2, <1>3

LEMMA ChunksNat ==
  ASSUME NEW volume \in Nat
  PROVE  Chunks(volume) \in Seq(Nat)
<1>1. << volume >> \in Seq(Nat) /\ << Info.volume_max >> \in Seq(Nat)
  BY Constants
<1>2. SplitVolume(volume, Info.volume_max, Info.volume_step, Info.volume_min)
        \in Seq(Nat)
  BY Constants, SplitVolumeNat
<1> QED
  BY <1>1, <1>2 DEF Chunks

-----------------------------------------------------------------------------
(* Sums of natural numbers.                                                *)

LEMMA SumNat ==
  ASSUME NEW S, IsFiniteSet(S), NEW f, \A x \in S : f[x] \in Nat
  PROVE  SumFunctionOnSet(f, S) \in Nat
<1> DEFINE Good == {u \in SUBSET S : SumFunctionOnSet(f, u) \in Nat}
<1>1. ASSUME NEW u \in SUBSET S, \A x \in u : u \ {x} \in Good
      PROVE  u \in Good
  <2>1. IsFiniteSet(u) /\ \A x \in u : f[x] \in Int
    BY FS_Subset
  <2>2. /\ u = {} => SumFunctionOnSet(f, u) = 0
        /\ \A x \in u : SumFunctionOnSet(f, u)
                          = f[x] + SumFunctionOnSet(f, u \ {x})
    BY <2>1, SumOver
  <2>3. SumFunctionOnSet(f, u) \in Nat
    <3>1. CASE u = {}
      BY <2>2, <3>1
    <3>2. CASE u # {}
      <4>1. PICK x \in u : TRUE
        BY <3>2
      <4>2. SumFunctionOnSet(f, u \ {x}) \in Nat /\ f[x] \in Nat
        BY <1>1
      <4> QED
        BY <2>2, <4>2
    <3> QED
      BY <3>1, <3>2
  <2> QED
    BY <2>3
<1> HIDE DEF Good
<1>2. \A u \in SUBSET S : u \in Good
  BY <1>1, BySize
<1> QED
  BY <1>2 DEF Good

(* The fewer the terms, the smaller the sum.                               *)
LEMMA SumSubset ==
  ASSUME NEW S, IsFiniteSet(S), NEW f, \A x \in S : f[x] \in Nat,
         NEW R \in SUBSET S
  PROVE  SumFunctionOnSet(f, R) <= SumFunctionOnSet(f, S)
<1> DEFINE Good == {u \in SUBSET S : SumFunctionOnSet(f, u \cap R)
                                       <= SumFunctionOnSet(f, u)}
<1>1. ASSUME NEW u \in SUBSET S, \A x \in u : u \ {x} \in Good
      PROVE  u \in Good
  <2>1. /\ IsFiniteSet(u) /\ \A x \in u : f[x] \in Int
        /\ IsFiniteSet(u \cap R) /\ \A x \in u \cap R : f[x] \in Int
    BY FS_Subset
  <2>2. /\ SumFunctionOnSet(f, u) \in Int
        /\ u = {} => SumFunctionOnSet(f, u) = 0
        /\ \A x \in u : SumFunctionOnSet(f, u)
                          = f[x] + SumFunctionOnSet(f, u \ {x})
    BY <2>1, SumOver
  <2>3. /\ SumFunctionOnSet(f, u \cap R) \in Int
        /\ u \cap R = {} => SumFunctionOnSet(f, u \cap R) = 0
        /\ \A x \in u \cap R : SumFunctionOnSet(f, u \cap R)
                          = f[x] + SumFunctionOnSet(f, (u \cap R) \ {x})
    BY <2>1, SumOver
  <2>4. SumFunctionOnSet(f, u \cap R) <= SumFunctionOnSet(f, u)
    <3>1. CASE u = {}
      <4>1. u \cap R = {}
        BY <3>1
      <4> QED
        BY <2>2, <2>3, <3>1, <4>1
    <3>2. CASE u # {}
      <4>1. PICK x \in u : TRUE
        BY <3>2
      <4> DEFINE v == u \ {x}
      <4>2. /\ SumFunctionOnSet(f, v \cap R) <= SumFunctionOnSet(f, v)
            /\ f[x] \in Nat
        BY <1>1
      <4>3. IsFiniteSet(v) /\ IsFiniteSet(v \cap R)
        BY <2>1, FS_Subset
      <4>4. SumFunctionOnSet(f, v) \in Nat /\ SumFunctionOnSet(f, v \cap R) \in Nat
        BY <4>3, SumNat
      <4>5. SumFunctionOnSet(f, u) = f[x] + SumFunctionOnSet(f, v)
        BY <2>2
      <4>6. CASE x \in R
        <5>1. (u \cap R) \ {x} = v \cap R
          OBVIOUS
        <5>2. SumFunctionOnSet(f, u \cap R)
                = f[x] + SumFunctionOnSet(f, (u \cap R) \ {x})
          BY <2>3, <4>6
        <5> HIDE DEF v
        <5>3. SumFunctionOnSet(f, u \cap R) = f[x] + SumFunctionOnSet(f, v \cap R)
          BY <5>1, <5>2
        <5> QED
          BY <4>2, <4>4, <4>5, <5>3
      <4>7. CASE x \notin R
        <5>1. u \cap R = v \cap R
          BY <4>7
        <5>2. SumFunctionOnSet(f, u \cap R) = SumFunctionOnSet(f, v \cap R)
          BY <5>1
        <5> HIDE DEF v
        <5> QED
          BY <4>2, <4>4, <4>5, <5>2
      <4> QED
        BY <4>6, <4>7
    <3> QED
      BY <3>1, <3>2
  <2> QED
    BY <2>4
<1> HIDE DEF Good
<1>2. \A u \in SUBSET S : u \in Good
  BY <1>1, BySize
<1>3. SumFunctionOnSet(f, S \cap R) <= SumFunctionOnSet(f, S)
  BY <1>2 DEF Good
<1>4. S \cap R = R
  OBVIOUS
<1> QED
  BY <1>3, <1>4

(* The sum of a sequence is its head and the sum of its tail.              *)
LEMMA SumTail ==
  ASSUME NEW n \in Nat, NEW f, \A k \in 1..(n + 1) : f[k] \in Nat,
         NEW g, \A k \in 1..n : g[k] = f[k + 1]
  PROVE  SumFunctionOnSet(f, 1..(n + 1)) = f[1] + SumFunctionOnSet(g, 1..n)
<1> DEFINE T == {m \in Nat : m <= n =>
                   SumFunctionOnSet(f, 1..(m + 1)) = f[1] + SumFunctionOnSet(g, 1..m)}
<1>0. ASSUME NEW m \in Nat, m <= n
      PROVE  /\ IsFiniteSet(1..(m + 1)) /\ \A k \in 1..(m + 1) : f[k] \in Int
             /\ IsFiniteSet(1..m) /\ \A k \in 1..m : g[k] \in Int
  <2>1. /\ m + 1 \in Int /\ 1..(m + 1) \in SUBSET 1..(n + 1)
        /\ 1..m \in SUBSET 1..n
    BY <1>0
  <2>2. \A k \in 1..n : g[k] \in Nat
    OBVIOUS
  <2>3. IsFiniteSet(1..(m + 1)) /\ IsFiniteSet(1..m)
    BY <2>1, FS_Interval
  <2> QED
    BY <2>1, <2>2, <2>3
<1>1. 0 \in T
  <2>1. 1..(0 + 1) = {1} /\ 1..0 = {} /\ {1} \ {1} = {}
    OBVIOUS
  <2>2. IsFiniteSet({1}) /\ IsFiniteSet({}) /\ \A k \in {1} : f[k] \in Int
    <3>1. 1 \in 1..(n + 1)
      OBVIOUS
    <3>2. IsFiniteSet({1}) /\ IsFiniteSet({})
      BY ONLY FS_Singleton, FS_EmptySet
    <3> QED
      BY <3>1, <3>2
  <2>3. SumFunctionOnSet(g, {}) = 0 /\ SumFunctionOnSet(f, {}) = 0
    <3>1. \A k \in {} : g[k] \in Int /\ f[k] \in Int
      OBVIOUS
    <3> QED
      BY <2>2, <3>1, SumOver
  <2>4. SumFunctionOnSet(f, {1}) = f[1] + SumFunctionOnSet(f, {1} \ {1})
    BY <2>2, SumOver
  <2> QED
    BY <2>1, <2>3, <2>4
<1>2. ASSUME NEW m \in Nat, m \in T PROVE m + 1 \in T
  <2> SUFFICES ASSUME m + 1 <= n
               PROVE  SumFunctionOnSet(f, 1..((m + 1) + 1))
                        = f[1] + SumFunctionOnSet(g, 1..(m + 1))
    OBVIOUS
  <2>1. /\ IsFiniteSet(1..((m + 1) + 1)) /\ \A k \in 1..((m + 1) + 1) : f[k] \in Int
        /\ IsFiniteSet(1..(m + 1)) /\ \A k \in 1..(m + 1) : g[k] \in Int
        /\ IsFiniteSet(1..m) /\ \A k \in 1..m : g[k] \in Int
    BY <1>0
  <2>2. /\ (m + 1) + 1 \in 1..((m + 1) + 1)
        /\ (1..((m + 1) + 1)) \ {(m + 1) + 1} = 1..(m + 1)
        /\ m + 1 \in 1..(m + 1) /\ (1..(m + 1)) \ {m + 1} = 1..m
    OBVIOUS
  <2>3. SumFunctionOnSet(f, 1..((m + 1) + 1))
          = f[(m + 1) + 1] + SumFunctionOnSet(f, 1..(m + 1))
    <3> DEFINE S == 1..((m + 1) + 1)
    <3>1. /\ IsFiniteSet(S) /\ \A k \in S : f[k] \in Int
          /\ (m + 1) + 1 \in S /\ S \ {(m + 1) + 1} = 1..(m + 1)
      BY <2>1, <2>2
    <3> HIDE DEF S
    <3>2. SumFunctionOnSet(f, S)
            = f[(m + 1) + 1] + SumFunctionOnSet(f, S \ {(m + 1) + 1})
      BY ONLY <3>1, SumOver
    <3> QED
      BY <3>1, <3>2 DEF S
  <2>4. SumFunctionOnSet(g, 1..(m + 1)) = g[m + 1] + SumFunctionOnSet(g, 1..m)
    <3> DEFINE S == 1..(m + 1)
    <3>1. /\ IsFiniteSet(S) /\ \A k \in S : g[k] \in Int
          /\ m + 1 \in S /\ S \ {m + 1} = 1..m
      BY <2>1, <2>2
    <3> HIDE DEF S
    <3>2. SumFunctionOnSet(g, S) = g[m + 1] + SumFunctionOnSet(g, S \ {m + 1})
      BY ONLY <3>1, SumOver
    <3> QED
      BY <3>1, <3>2 DEF S
  <2>5. SumFunctionOnSet(f, 1..(m + 1)) = f[1] + SumFunctionOnSet(g, 1..m)
    BY <1>2
  <2>6. g[m + 1] = f[(m + 1) + 1] /\ g[m + 1] \in Int /\ f[1] \in Int
    BY <2>1
  <2>7. SumFunctionOnSet(g, 1..m) \in Int
    BY <2>1, SumOver
  <2> QED
    BY <2>3, <2>4, <2>5, <2>6, <2>7
<1> HIDE DEF T
<1>3. n \in T
  BY <1>1, <1>2, Upwards
<1> QED
  BY <1>3 DEF T

-----------------------------------------------------------------------------
(* The orders of a command.                                                *)

LEMMA IsASequence ==
  ASSUME NEW R, NEW n \in Nat, NEW s \in [1..n -> R]
  PROVE  s \in Seq(R) /\ Len(s) = n
OBVIOUS

LEMMA InSequence ==
  ASSUME NEW R, NEW s \in Seq(R), NEW i \in DOMAIN s
  PROVE  s[i] \in R
OBVIOUS

LEMMA LegTyped ==
  ASSUME positions \in Seq(Leg), NEW i \in DOMAIN positions
  PROVE  /\ positions[i] \in Leg /\ i \in Nat
         /\ positions[i].of \in Tickets
         /\ positions[i].mv \in Nat /\ positions[i].mv > 0
         /\ positions[i].mv \in MasterVolumes
         /\ positions[i].sv \in Nat /\ positions[i].opened \in Nat
         /\ positions[i].volume \in Nat /\ positions[i].ended \in BOOLEAN
<1>1. positions[i] \in Leg /\ i \in Nat
  OBVIOUS
<1>2. \A p \in Leg :
         /\ p.of \in Tickets /\ p.mv \in MasterVolumes /\ p.sv \in Nat
         /\ p.opened \in Nat /\ p.volume \in Nat /\ p.ended \in BOOLEAN
  BY DEF Leg
<1>3. \A v \in MasterVolumes : v \in Nat /\ v > 0
  BY Constants
<1> QED
  BY <1>1, <1>2, <1>3

LEMMA LegsFinite ==
  ASSUME positions \in Seq(Leg), NEW legs \in SUBSET DOMAIN positions
  PROVE  IsFiniteSet(legs) /\ Cardinality(legs) \in Nat /\ legs \in SUBSET Nat
<1>1. DOMAIN positions = 1..Len(positions) /\ Len(positions) \in Nat
  OBVIOUS
<1>2. IsFiniteSet(1..Len(positions))
  BY <1>1, FS_Interval
<1> QED
  BY <1>1, <1>2, FS_Subset, FS_CardinalityType

(* An order for each leg that is due one, and for no other.                *)
LEMMA OrdersAre ==
  ASSUME positions \in Seq(Leg), NEW cmd, cmd.action # "OPEN",
         NEW legs \in SUBSET DOMAIN positions, NEW todo \in Orders(cmd, legs)
  PROVE  /\ \E n \in Nat : DOMAIN todo = 1..n /\ todo = [k \in 1..n |-> todo[k]]
         /\ \A k \in DOMAIN todo :
              /\ todo[k] = Order(todo[k].leg, todo[k].volume)
              /\ todo[k].leg \in Due(cmd, legs)
              /\ todo[k].volume = VolumeFor(todo[k].leg, cmd, legs)
         /\ \A i \in Due(cmd, legs) : \E k \in DOMAIN todo : todo[k].leg = i
         /\ \A k, m \in DOMAIN todo : todo[k].leg = todo[m].leg => k = m
<1> DEFINE due == Due(cmd, legs)
           n   == Cardinality(due)
<1>1. due \in SUBSET DOMAIN positions
  BY DEF Due
<1>2. n \in Nat
  BY <1>1, LegsFinite
<1>3. PICK visit \in Visits(due) :
        todo = [k \in DOMAIN visit |->
                  Order(visit[k], VolumeFor(visit[k], cmd, legs))]
  BY DEF Orders
<1>4. /\ visit \in [1..n -> due]
      /\ \A k, m \in 1..n : visit[k] = visit[m] => k = m
      /\ \A i \in due : \E k \in 1..n : visit[k] = i
  <2> HIDE DEF due
  <2>1. visit \in Bijection(1..n, due)
    BY <1>3 DEF Visits
  <2> HIDE DEF n
  <2>2. visit \in [1..n -> due] /\ IsInjective(visit)
    BY <2>1 DEF Bijection, Injection
  <2>3. \A i \in due : \E k \in 1..n : visit[k] = i
    BY <2>1 DEF Bijection, Surjection
  <2> QED
    BY <2>2, <2>3 DEF IsInjective
<1> HIDE DEF due, n
<1>5. DOMAIN todo = 1..n /\ todo = [k \in 1..n |-> todo[k]]
  BY <1>3, <1>4
<1>6. \A k \in 1..n :
        /\ todo[k].leg = visit[k]
        /\ todo[k].volume = VolumeFor(visit[k], cmd, legs)
        /\ todo[k] = Order(visit[k], VolumeFor(visit[k], cmd, legs))
  BY <1>3, <1>4 DEF Order
<1>7. \A k \in 1..n : visit[k] \in due
  BY <1>4
<1>8. \A k \in DOMAIN todo :
        /\ todo[k] = Order(todo[k].leg, todo[k].volume)
        /\ todo[k].leg \in due
        /\ todo[k].volume = VolumeFor(todo[k].leg, cmd, legs)
  BY <1>5, <1>6, <1>7
<1>9. \A i \in due : \E k \in DOMAIN todo : todo[k].leg = i
  BY <1>4, <1>5, <1>6
<1>10. \A k, m \in DOMAIN todo : todo[k].leg = todo[m].leg => k = m
  BY <1>4, <1>5, <1>6
<1> QED
  BY <1>2, <1>5, <1>8, <1>9, <1>10 DEF due

LEMMA SumsOfLegs ==
  ASSUME positions \in Seq(Leg), NEW legs \in SUBSET DOMAIN positions
  PROVE  Sum(CommentSV, legs) \in Nat /\ Sum(Opened, legs) \in Nat
<1>1. IsFiniteSet(legs)
  BY LegsFinite
<1>2. \A i \in legs : CommentSV[i] \in Nat /\ Opened[i] \in Nat
  BY LegTyped DEF CommentSV, Opened
<1> QED
  BY <1>1, <1>2, SumNat DEF Sum

LEMMA ExcessInt ==
  ASSUME positions \in Seq(Leg), NEW cmd \in PartialCommand,
         NEW legs \in SUBSET DOMAIN positions, NEW i \in legs
  PROVE  Excess(i, cmd, legs) \in Int
<1> DEFINE share == ShareOf(i, cmd, legs)
           mo    == cmd.master_open_volume
           new   == cmd.new_master_volume
           vol   == positions[i].volume
           step  == Info.volume_step
           num   == vol * mo - share * new
<1>1. /\ mo \in Nat /\ mo > 0 /\ new \in Nat /\ cmd.slave_open_volume \in Nat
      /\ step \in Nat /\ step > 0
  <2>1. \A v \in MasterVolumes : v \in Nat /\ v > 0
    BY Constants
  <2>2. /\ mo \in MasterVolumes /\ new \in MasterVolumes
        /\ cmd.slave_open_volume \in Nat
    BY DEF PartialCommand
  <2> QED
    BY <2>1, <2>2, Constants
<1>2. vol \in Nat /\ positions[i].sv \in Nat
  <2>1. i \in DOMAIN positions
    OBVIOUS
  <2> QED
    BY <2>1, LegTyped
<1>3. share \in Int
  <2>1. {j \in legs \ {i} : Intact(j)} \in SUBSET DOMAIN positions
    OBVIOUS
  <2>2. Sum(CommentSV, {j \in legs \ {i} : Intact(j)}) \in Nat
    BY <2>1, SumsOfLegs
  <2>3. CommentSV[i] = positions[i].sv
    BY DEF CommentSV
  <2> HIDE DEF mo, new, vol
  <2> QED
    BY <1>1, <1>2, <2>2, <2>3 DEF ShareOf
<1>4. mo * step \in Int /\ mo * step > 0
  <2> HIDE DEF mo, step
  <2> QED
    BY <1>1
<1>5. num \in Int
  <2> HIDE DEF mo, new, vol, share
  <2> QED
    BY <1>1, <1>2, <1>3
<1>6. num \div (mo * step) \in Int
  <2> DEFINE d == mo * step
  <2> HIDE DEF num, d
  <2> QED
    BY <1>4, <1>5, DivisionFacts DEF d
<1>7. (num \div (mo * step)) * step \in Int
  <2> DEFINE q == num \div (mo * step)
  <2> HIDE DEF q, step
  <2> QED
    BY <1>1, <1>6 DEF q
<1>8. \/ Excess(i, cmd, legs) = 0
      \/ Excess(i, cmd, legs) = MinOf(vol, (num \div (mo * step)) * step)
  BY DEF Excess
<1> DEFINE fl == (num \div (mo * step)) * step
<1> HIDE DEF fl, vol
<1> QED
  BY <1>2, <1>7, <1>8 DEF MinOf, fl

LEMMA OrdersTyped ==
  ASSUME positions \in Seq(Leg), NEW cmd \in Command,
         NEW legs \in SUBSET DOMAIN positions, NEW todo \in Orders(cmd, legs)
  PROVE  /\ todo \in Seq([leg : Nat, volume : Nat])
         /\ cmd.action # "OPEN" =>
              \A k \in DOMAIN todo : todo[k].leg \in DOMAIN positions
<1>1. CASE cmd.action = "OPEN"
  <2>1. cmd \in OpenCommand
    BY <1>1 DEF Command, OpenCommand, ModifyCommand, PartialCommand, CloseCommand
  <2>2. cmd.volume \in Nat
    BY <2>1, Constants DEF OpenCommand
  <2> DEFINE c == Chunks(cmd.volume)
  <2>3. c \in Seq(Nat)
    BY <2>2, ChunksNat
  <2>4. todo = [k \in DOMAIN c |-> Order(0, c[k])]
    BY <1>1 DEF Orders
  <2> HIDE DEF c
  <2>5. \A k \in DOMAIN c : c[k] \in Nat /\ Order(0, c[k]) \in [leg : Nat, volume : Nat]
    BY <2>3 DEF Order
  <2>6. DOMAIN c = 1..Len(c) /\ Len(c) \in Nat
    BY <2>3
  <2> QED
    BY <1>1, <2>4, <2>5, <2>6
<1>2. CASE cmd.action # "OPEN"
  <2>1. PICK n \in Nat : DOMAIN todo = 1..n /\ todo = [k \in 1..n |-> todo[k]]
    BY <1>2, OrdersAre
  <2>2. \A k \in DOMAIN todo :
          /\ todo[k] = Order(todo[k].leg, todo[k].volume)
          /\ todo[k].leg \in Due(cmd, legs)
          /\ todo[k].volume = VolumeFor(todo[k].leg, cmd, legs)
    BY <1>2, OrdersAre
  <2>3. Due(cmd, legs) \in SUBSET legs
    BY DEF Due
  <2>4. ASSUME NEW i \in Due(cmd, legs)
        PROVE  i \in Nat /\ i \in DOMAIN positions /\ VolumeFor(i, cmd, legs) \in Nat
    <3>1. i \in legs /\ i \in DOMAIN positions /\ i \in Nat
      BY <2>3, LegsFinite
    <3>2. positions[i].volume \in Nat
      BY <3>1, LegTyped
    <3>3. CASE cmd.action = "PARTIAL_CLOSE"
      <4>1. cmd \in PartialCommand
        BY <3>3 DEF Command, OpenCommand, ModifyCommand, PartialCommand, CloseCommand
      <4>2. Excess(i, cmd, legs) \in Int /\ Excess(i, cmd, legs) > 0
        BY <3>1, <3>3, <4>1, ExcessInt DEF Due
      <4>3. VolumeFor(i, cmd, legs) = Excess(i, cmd, legs)
        BY <3>3 DEF VolumeFor
      <4> QED
        BY <3>1, <4>2, <4>3
    <3>4. CASE cmd.action # "PARTIAL_CLOSE"
      BY <3>1, <3>2, <3>4 DEF VolumeFor
    <3> QED
      BY <3>3, <3>4
  <2>5. \A k \in DOMAIN todo : /\ todo[k] \in [leg : Nat, volume : Nat]
                               /\ todo[k].leg \in DOMAIN positions
    <3> SUFFICES ASSUME NEW k \in DOMAIN todo
                 PROVE  /\ todo[k] \in [leg : Nat, volume : Nat]
                        /\ todo[k].leg \in DOMAIN positions
      OBVIOUS
    <3>1. todo[k].leg \in Nat /\ todo[k].leg \in DOMAIN positions /\ todo[k].volume \in Nat
      BY <2>2, <2>4
    <3>2. todo[k] = Order(todo[k].leg, todo[k].volume)
      BY <2>2
    <3> QED
      BY <3>1, <3>2 DEF Order
  <2>6. todo \in Seq([leg : Nat, volume : Nat])
    <3>1. \A k \in 1..n : todo[k] \in [leg : Nat, volume : Nat]
      BY <2>1, <2>5
    <3>2. todo \in [1..n -> [leg : Nat, volume : Nat]]
      BY <2>1, <3>1
    <3> QED
      BY <3>2, IsASequence
  <2> QED
    BY <2>5, <2>6
<1> QED
  BY <1>1, <1>2

-----------------------------------------------------------------------------
(* What one order_send does.                                               *)

Executing == {"done", "partial", "lost"}

NewLeg(j, order, v) ==
  [of |-> j.cmd.ticket, mv |-> j.cmd.master_volume,
   sv |-> IF j.split THEN order.volume ELSE j.cmd.volume,
   opened |-> v, volume |-> v, sltp |-> j.cmd.sltp, ended |-> FALSE]

(* The order came to result r and was executed for volume v: what it did   *)
(* to the positions ...                                                    *)
Touches(order, r, v) ==
  \/ r \in {"rejected", "no_tick"} /\ positions' = positions
  \/ /\ r \in Executing /\ job.cmd.action = "OPEN"
     /\ positions' = Append(positions, NewLeg(job, order, v))
  \/ /\ r \in Executing \ {"partial"} /\ job.cmd.action = "MODIFY"
     /\ order.leg \in LiveLegs
     /\ positions' = [positions EXCEPT ![order.leg].sltp = job.cmd.sltp]
  \/ /\ r \in Executing /\ job.cmd.action \in {"PARTIAL_CLOSE", "CLOSE"}
     /\ order.volume <= positions[order.leg].volume
     /\ positions' = [positions EXCEPT ![order.leg].volume = @ - v]

(* ... which volume it can have been ...                                   *)
Fills(order, r, v) ==
  /\ v <= order.volume
  /\ r \in {"done", "lost"} => v = order.volume
  /\ r = "partial" => 1 <= v /\ v < order.volume
  /\ r = "lost" => job.cmd.action \in LostOn
  /\ r \in {"partial", "no_tick"} =>
       IF job.cmd.action = "OPEN" THEN r \in OpenResults
       ELSE IF job.cmd.action = "MODIFY" THEN r \in ModifyResults
       ELSE r \in CloseResults

(* ... and how the worker goes on.                                         *)
Continues(r, v) ==
  \/ /\ r = "done" \/ (r = "partial" /\ job.cmd.action = "OPEN" /\ job.split)
     /\ job' = Accepted(job, v)
  \/ /\ r # "done" /\ ~ (r = "partial" /\ job.cmd.action = "OPEN" /\ job.split)
     /\ \/ r # "no_tick" /\ job.tries + 1 < RetryCount
             /\ job' = [job EXCEPT !.tries = @ + 1]
        \/ job' = GivenUp(job, r)

Sends(order, r, v) == Touches(order, r, v) /\ Fills(order, r, v) /\ Continues(r, v)

LEMMA JobTyped ==
  ASSUME TypeInv, job # None
  PROVE  /\ job \in Job /\ job.cmd \in Command /\ job.cmd.ticket \in Tickets
         /\ job.cmd.action \in {"OPEN", "MODIFY", "PARTIAL_CLOSE", "CLOSE"}
         /\ sent[job.cmd.ticket] # None /\ job.cmd = sent[job.cmd.ticket]
         /\ job.todo \in Seq([leg : Nat, volume : Nat])
         /\ job.tries \in 0..(RetryCount - 1) /\ job.filled \in Nat
         /\ job.first \in Nat /\ job.before \in Nat
         /\ job.split \in BOOLEAN /\ job.failed \in BOOLEAN
<1>1. job \in Job /\ sent[job.cmd.ticket] # None /\ job.cmd = sent[job.cmd.ticket]
  BY DEF TypeInv, JobOK
<1>2. /\ job.cmd \in Command
      /\ job.todo \in Seq([leg : Nat, volume : Nat])
      /\ job.tries \in 0..(RetryCount - 1) /\ job.filled \in Nat
      /\ job.first \in Nat /\ job.before \in Nat
      /\ job.split \in BOOLEAN /\ job.failed \in BOOLEAN
  BY <1>1 DEF Job
<1>3. /\ job.cmd.ticket \in Tickets
      /\ job.cmd.action \in {"OPEN", "MODIFY", "PARTIAL_CLOSE", "CLOSE"}
  BY <1>2 DEF Command, OpenCommand, ModifyCommand, PartialCommand, CloseCommand
<1> QED
  BY <1>1, <1>2, <1>3

LEMMA CommandKinds ==
  ASSUME NEW cmd \in Command
  PROVE  /\ cmd.action = "OPEN" => cmd \in OpenCommand
         /\ cmd.action = "MODIFY" => cmd \in ModifyCommand
         /\ cmd.action = "PARTIAL_CLOSE" => cmd \in PartialCommand
         /\ cmd.action = "CLOSE" => cmd \in CloseCommand
         /\ cmd.ticket \in Tickets
         /\ cmd.action # "OPEN" => cmd.slave_ticket \in Nat
BY DEF Command, OpenCommand, ModifyCommand, PartialCommand, CloseCommand

LEMMA HeadTail ==
  ASSUME NEW R, NEW s \in Seq(R), s # << >>
  PROVE  /\ Head(s) = s[1] /\ Head(s) \in R /\ 1 \in DOMAIN s
         /\ Tail(s) \in Seq(R) /\ Len(s) > 0 /\ Len(s) \in Nat
         /\ Len(Tail(s)) = Len(s) - 1
         /\ DOMAIN s = 1..Len(s) /\ DOMAIN Tail(s) = 1..(Len(s) - 1)
         /\ \A k \in DOMAIN Tail(s) : k + 1 \in DOMAIN s /\ Tail(s)[k] = s[k + 1]
OBVIOUS

(* An attempt is one order_send with a result and a volume.                *)
LEMMA AttemptSends ==
  ASSUME TypeInv, Attempt
  PROVE  /\ job # None /\ job.todo # << >>
         /\ Head(job.todo) \in [leg : Nat, volume : Nat]
         /\ UNCHANGED engineVars
         /\ \E r \in Executing \cup {"rejected", "no_tick"} : \E v \in Nat :
              Sends(Head(job.todo), r, v)
<1> DEFINE order == Head(job.todo)
<1>1. job # None /\ job.todo # << >> /\ UNCHANGED engineVars
  BY DEF Attempt
<1>2. /\ job.todo \in Seq([leg : Nat, volume : Nat])
      /\ job.cmd.action \in {"OPEN", "MODIFY", "PARTIAL_CLOSE", "CLOSE"}
  BY <1>1, JobTyped
<1>3. order \in [leg : Nat, volume : Nat] /\ order.volume \in Nat
  <2>1. order \in [leg : Nat, volume : Nat]
    BY <1>1, <1>2, HeadTail
  <2> QED
    BY <2>1
<1>4. PICK r \in CanHappen(job, order) :
        /\ r = "no_tick" => job.tries = 0
        /\ \E v \in VolumesDone(order, r) :
             /\ positions' = Executed(job, order, r, v)
             /\ job' = IF r \in OkCodes(job) THEN Accepted(job, v)
                                             ELSE Retried(job, r)
  BY DEF Attempt
<1>5. PICK v \in VolumesDone(order, r) :
        /\ positions' = Executed(job, order, r, v)
        /\ job' = IF r \in OkCodes(job) THEN Accepted(job, v)
                                        ELSE Retried(job, r)
  BY <1>4
<1> HIDE DEF order
<1>6. r \in Executing \cup {"rejected", "no_tick"}
  BY WorkerConstants DEF CanHappen, Results, Executing
<1>7. /\ v \in Nat /\ v <= order.volume /\ (r \in {"done", "lost"} => v = order.volume)
      /\ r = "partial" => v < order.volume /\ 1 <= v
  <2>1. CASE r \in {"done", "lost"}
    BY <1>3, <2>1 DEF VolumesDone
  <2>2. CASE r = "partial"
    <3>1. v \in 1..(order.volume - 1)
      BY <2>2 DEF VolumesDone
    <3> QED
      BY <1>3, <2>2, <3>1
  <2>3. CASE r \in {"rejected", "no_tick"}
    <3>1. v = 0
      BY <2>3 DEF VolumesDone
    <3> QED
      BY <1>3, <2>3, <3>1
  <2> QED
    BY <1>6, <2>1, <2>2, <2>3 DEF Executing
<1>8. /\ r = "lost" => job.cmd.action \in LostOn
      /\ r \in {"partial", "no_tick"} =>
           IF job.cmd.action = "OPEN" THEN r \in OpenResults
           ELSE IF job.cmd.action = "MODIFY" THEN r \in ModifyResults
           ELSE r \in CloseResults
  BY WorkerConstants DEF CanHappen, Results
<1>9. Touches(order, r, v)
  <2>1. CASE r \in {"rejected", "no_tick"}
    BY <1>5, <2>1 DEF Touches, Executed
  <2>2. CASE r \in Executing
    <3>1. CASE job.cmd.action = "OPEN"
      BY <1>5, <2>2, <3>1 DEF Touches, Executed, Executing, NewLeg
    <3>2. CASE job.cmd.action = "MODIFY"
      <4>1. order.leg \in LiveLegs /\ r # "partial"
        BY <2>2, <3>2, WorkerConstants DEF CanHappen, Executing
      <4> QED
        BY <1>5, <2>2, <3>2, <4>1 DEF Touches, Executed, Executing
    <3>3. CASE job.cmd.action \in {"PARTIAL_CLOSE", "CLOSE"}
      <4>1. order.volume <= positions[order.leg].volume
        BY <2>2, <3>3 DEF CanHappen, Executing
      <4>2. positions' = [positions EXCEPT ![order.leg].volume = @ - v]
        BY <1>5, <2>2, <3>3 DEF Executed, Executing
      <4> QED
        BY <2>2, <3>3, <4>1, <4>2 DEF Touches
    <3> QED
      BY <1>2, <3>1, <3>2, <3>3
  <2> QED
    BY <1>6, <2>1, <2>2
<1>10. Continues(r, v)
  <2>1. r \in OkCodes(job)
          <=> r = "done" \/ (r = "partial" /\ job.cmd.action = "OPEN" /\ job.split)
    BY DEF OkCodes
  <2>2. CASE r \in OkCodes(job)
    BY <1>5, <2>1, <2>2 DEF Continues
  <2>3. CASE r \notin OkCodes(job)
    <3>1. job' = Retried(job, r)
      BY <1>5, <2>3
    <3> QED
      BY <2>1, <2>3, <3>1 DEF Continues, Retried
  <2> QED
    BY <2>2, <2>3
<1> QED
  BY <1>1, <1>3, <1>6, <1>7, <1>8, <1>9, <1>10 DEF Sends, Fills, order

(* What no step does to a position: it stays the copy of its ticket, and   *)
(* is never opened further.                                                *)
SameLegs ==
  \A i \in DOMAIN positions :
    /\ i \in DOMAIN positions'
    /\ positions'[i].of = positions[i].of
    /\ positions'[i].mv = positions[i].mv
    /\ positions'[i].sv = positions[i].sv
    /\ positions'[i].opened = positions[i].opened
    /\ positions'[i].volume <= positions[i].volume
    /\ positions[i].ended => positions'[i].ended

LEMMA AppendFacts ==
  ASSUME NEW R, NEW s \in Seq(R), NEW e \in R
  PROVE  /\ Append(s, e) \in Seq(R) /\ Len(Append(s, e)) = Len(s) + 1
         /\ DOMAIN Append(s, e) = (DOMAIN s) \cup {Len(s) + 1}
         /\ Len(s) + 1 \notin DOMAIN s
         /\ Append(s, e)[Len(s) + 1] = e
         /\ \A i \in DOMAIN s : Append(s, e)[i] = s[i]
OBVIOUS

LEMMA UpdateFacts ==
  ASSUME NEW R, NEW s \in Seq(R), NEW k, NEW e, k \in DOMAIN s => e \in R
  PROVE  /\ [s EXCEPT ![k] = e] \in Seq(R)
         /\ Len([s EXCEPT ![k] = e]) = Len(s)
         /\ DOMAIN [s EXCEPT ![k] = e] = DOMAIN s
         /\ k \in DOMAIN s => [s EXCEPT ![k] = e][k] = e
         /\ \A i \in DOMAIN s : i # k => [s EXCEPT ![k] = e][i] = s[i]
<1>1. DOMAIN s = 1..Len(s) /\ Len(s) \in Nat /\ s \in [1..Len(s) -> R]
  OBVIOUS
<1>2. [s EXCEPT ![k] = e] \in [1..Len(s) -> R]
  BY <1>1
<1>3. [s EXCEPT ![k] = e] \in Seq(R) /\ Len([s EXCEPT ![k] = e]) = Len(s)
  BY <1>1, <1>2, IsASequence
<1> QED
  BY <1>1, <1>3

LEMMA TouchesLegs ==
  ASSUME TypeInv, job # None, NEW order \in [leg : Nat, volume : Nat],
         NEW r, NEW v \in Nat, v <= order.volume, Touches(order, r, v)
  PROVE  /\ positions' \in Seq(Leg) /\ SameLegs
         /\ Len(positions') >= Len(positions)
         /\ \A i \in DOMAIN positions' : i \notin DOMAIN positions =>
              /\ i = Len(positions) + 1
              /\ r \in Executing /\ job.cmd.action = "OPEN"
              /\ positions'[i] = NewLeg(job, order, v)
<1>1. positions \in Seq(Leg) /\ job.cmd \in Command
  BY JobTyped DEF TypeInv
<1>2. \A i \in DOMAIN positions : positions[i].volume \in Nat
  BY <1>1, LegTyped
<1>3. CASE positions' = positions
  BY <1>1, <1>2, <1>3 DEF SameLegs
<1>4. CASE /\ r \in Executing /\ job.cmd.action = "OPEN"
           /\ positions' = Append(positions, NewLeg(job, order, v))
  <2>1. NewLeg(job, order, v) \in Leg
    <3>1. job.cmd \in OpenCommand
      BY <1>1, <1>4, CommandKinds
    <3>2. /\ job.cmd.ticket \in Tickets /\ job.cmd.master_volume \in MasterVolumes
          /\ job.cmd.volume \in Nat /\ job.cmd.sltp \in Levels
      BY <3>1, Constants DEF OpenCommand
    <3>3. order.volume \in Nat
      OBVIOUS
    <3> QED
      BY <3>2, <3>3 DEF NewLeg, Leg
  <2>2. Len(positions) \in Nat
    BY <1>1
  <2> DEFINE e == NewLeg(job, order, v)
  <2> HIDE DEF e
  <2>3. /\ positions' \in Seq(Leg) /\ Len(positions') = Len(positions) + 1
        /\ DOMAIN positions' = (DOMAIN positions) \cup {Len(positions) + 1}
        /\ positions'[Len(positions) + 1] = e
        /\ \A i \in DOMAIN positions : positions'[i] = positions[i]
    BY <1>1, <1>4, <2>1, AppendFacts DEF e
  <2> QED
    BY <1>2, <1>4, <2>2, <2>3 DEF SameLegs, e
<1>5. CASE /\ order.leg \in LiveLegs /\ job.cmd.action = "MODIFY"
           /\ positions' = [positions EXCEPT ![order.leg].sltp = job.cmd.sltp]
  <2> DEFINE p == positions[order.leg]
             e == [p EXCEPT !.sltp = job.cmd.sltp]
  <2>1. order.leg \in DOMAIN positions
    BY <1>5 DEF LiveLegs
  <2>2. p \in Leg
    BY <1>1, <2>1, LegTyped
  <2>3. job.cmd.sltp \in Levels
    BY <1>1, <1>5, CommandKinds DEF ModifyCommand
  <2>4. e \in Leg /\ e.of = p.of /\ e.mv = p.mv /\ e.sv = p.sv /\ e.opened = p.opened
        /\ e.volume = p.volume /\ e.ended = p.ended
    <3> HIDE DEF p
    <3> QED
      BY <2>2, <2>3 DEF Leg
  <2>5. positions' = [positions EXCEPT ![order.leg] = e]
    BY <1>5
  <2> HIDE DEF e
  <2>6. /\ positions' \in Seq(Leg) /\ Len(positions') = Len(positions)
        /\ DOMAIN positions' = DOMAIN positions /\ positions'[order.leg] = e
        /\ \A i \in DOMAIN positions : i # order.leg => positions'[i] = positions[i]
    BY <1>1, <2>1, <2>4, <2>5, UpdateFacts
  <2>7. Len(positions) \in Nat
    BY <1>1
  <2> QED
    BY <1>2, <2>1, <2>4, <2>6, <2>7, SMTT(20) DEF SameLegs
<1>6. CASE /\ r \in Executing /\ job.cmd.action \in {"PARTIAL_CLOSE", "CLOSE"}
           /\ order.volume <= positions[order.leg].volume
           /\ positions' = [positions EXCEPT ![order.leg].volume = @ - v]
  <2> DEFINE p == positions[order.leg]
             e == [p EXCEPT !.volume = @ - v]
  <2>1. ASSUME order.leg \in DOMAIN positions
        PROVE  /\ e \in Leg /\ e.of = p.of /\ e.mv = p.mv /\ e.sv = p.sv
               /\ e.opened = p.opened /\ e.volume <= p.volume /\ e.ended = p.ended
    <3>1. p \in Leg /\ p.volume \in Nat /\ order.volume \in Nat
      BY <1>1, <2>1, LegTyped
    <3>2. p.volume - v \in Nat /\ p.volume - v <= p.volume
      BY <1>6, <3>1
    <3> HIDE DEF p
    <3>3. e.volume = p.volume - v
      BY <3>1 DEF Leg
    <3> QED
      BY <3>1, <3>2, <3>3 DEF Leg
  <2>2. positions' = [positions EXCEPT ![order.leg] = e]
    BY <1>6
  <2> HIDE DEF e, p
  <2>3. /\ positions' \in Seq(Leg) /\ Len(positions') = Len(positions)
        /\ DOMAIN positions' = DOMAIN positions
        /\ order.leg \in DOMAIN positions => positions'[order.leg] = e
        /\ \A i \in DOMAIN positions : i # order.leg => positions'[i] = positions[i]
    BY <1>1, <2>1, <2>2, UpdateFacts
  <2>4. Len(positions) \in Nat
    BY <1>1
  <2> QED
    BY <1>2, <2>1, <2>3, <2>4 DEF SameLegs, p
<1> QED
  BY <1>3, <1>4, <1>5, <1>6 DEF Touches

(* The job after an order: the same command, and the rest of the orders,   *)
(* all of them, or none.                                                   *)
LEMMA JobAfter ==
  ASSUME TypeInv, job # None, job.todo # << >>,
         NEW r, NEW v \in Nat, Continues(r, v)
  PROVE  /\ job' \in Job /\ job'.cmd = job.cmd
         /\ job'.split = job.split /\ job'.before = job.before
         /\ \/ /\ r = "done" \/ (r = "partial" /\ job.cmd.action = "OPEN" /\ job.split)
               /\ job'.todo = Tail(job.todo) /\ job'.failed = job.failed
               /\ job'.filled = job.filled + v
               /\ job'.first = IF job.first = 0 THEN Len(positions) + 1 ELSE job.first
            \/ /\ r # "done"
               /\ ~ (r = "partial" /\ job.cmd.action = "OPEN" /\ job.split)
               /\ job'.filled = job.filled /\ job'.first = job.first
               /\ \/ job'.todo = job.todo /\ job'.failed = job.failed
                  \/ /\ job.cmd.action = "OPEN"
                     /\ job'.todo = << >>
                     /\ job'.failed <=> job.failed \/ r = "no_tick"
                  \/ /\ job.cmd.action # "OPEN"
                     /\ job'.todo = Tail(job.todo) /\ job'.failed
<1>1. /\ job \in Job
      /\ job.todo \in Seq([leg : Nat, volume : Nat])
      /\ job.tries \in 0..(RetryCount - 1) /\ job.filled \in Nat /\ job.first \in Nat
      /\ job.failed \in BOOLEAN
  BY JobTyped
<1>2. Tail(job.todo) \in Seq([leg : Nat, volume : Nat])
  BY <1>1, HeadTail
<1>3. RetryCount \in Nat /\ RetryCount > 0 /\ Len(positions) \in Nat
  BY Constants DEF TypeInv
<1>4. 0 \in 0..(RetryCount - 1)
  BY <1>3
<1>5. CASE /\ r = "done" \/ (r = "partial" /\ job.cmd.action = "OPEN" /\ job.split)
           /\ job' = Accepted(job, v)
  <2>1. job.filled + v \in Nat /\ Len(positions) + 1 \in Nat
    BY <1>1, <1>3, SMTT(20)
  <2>2. /\ job'.todo = Tail(job.todo) /\ job'.failed = job.failed
        /\ job'.filled = job.filled + v
        /\ job'.first = IF job.first = 0 THEN Len(positions) + 1 ELSE job.first
        /\ job'.cmd = job.cmd /\ job'.split = job.split /\ job'.before = job.before
    BY <1>1, <1>5 DEF Accepted, Job
  <2>3. job' \in Job
    BY <1>1, <1>2, <1>4, <1>5, <2>1 DEF Accepted, Job
  <2> QED
    BY <1>5, <2>2, <2>3
<1>6. CASE /\ r # "done" /\ ~ (r = "partial" /\ job.cmd.action = "OPEN" /\ job.split)
           /\ r # "no_tick" /\ job.tries + 1 < RetryCount
           /\ job' = [job EXCEPT !.tries = @ + 1]
  <2>1. job.tries + 1 \in 0..(RetryCount - 1)
    BY <1>1, <1>3, <1>6
  <2>2. /\ job'.todo = job.todo /\ job'.failed = job.failed
        /\ job'.filled = job.filled /\ job'.first = job.first
        /\ job'.cmd = job.cmd /\ job'.split = job.split /\ job'.before = job.before
    BY <1>1, <1>6 DEF Job
  <2>3. job' \in Job
    BY <1>1, <1>6, <2>1 DEF Job
  <2> QED
    BY <1>6, <2>2, <2>3
<1>7. CASE /\ r # "done" /\ ~ (r = "partial" /\ job.cmd.action = "OPEN" /\ job.split)
           /\ job' = GivenUp(job, r)
  <2>1. CASE job.cmd.action = "OPEN"
    <3>1. job' = [job EXCEPT !.todo = << >>, !.failed = @ \/ r = "no_tick"]
      BY <1>7, <2>1 DEF GivenUp
    <3>2. /\ job'.todo = << >>
          /\ job'.failed <=> (job.failed \/ r = "no_tick")
          /\ job'.filled = job.filled /\ job'.first = job.first
          /\ job'.cmd = job.cmd /\ job'.split = job.split /\ job'.before = job.before
      BY <1>1, <3>1 DEF Job
    <3>3. << >> \in Seq([leg : Nat, volume : Nat])
      OBVIOUS
    <3>4. job' \in Job
      BY <1>1, <3>1, <3>3, Zenon DEF Job
    <3> QED
      BY <1>7, <2>1, <3>2, <3>4
  <2>2. CASE job.cmd.action # "OPEN"
    <3>1. job' = [job EXCEPT !.todo = Tail(@), !.tries = 0, !.failed = TRUE]
      BY <1>7, <2>2 DEF GivenUp
    <3>2. /\ job'.todo = Tail(job.todo) /\ job'.failed
          /\ job'.filled = job.filled /\ job'.first = job.first
          /\ job'.cmd = job.cmd /\ job'.split = job.split /\ job'.before = job.before
      BY <1>1, <3>1 DEF Job
    <3>3. job' \in Job
      BY <1>1, <1>2, <1>4, <3>1 DEF Job
    <3> QED
      BY <1>7, <2>2, <3>2, <3>3
  <2> QED
    BY <2>1, <2>2
<1> QED
  BY <1>5, <1>6, <1>7 DEF Continues

-----------------------------------------------------------------------------
(* Type correctness, action by action.                                     *)

(* A command is only sent for a ticket that has none, which no job has.    *)
LEMMA JobElsewhere ==
  ASSUME TypeInv, NEW t \in Tickets, sent[t] = None,
         \A u \in Tickets : u # t => sent'[u] = sent[u],
         job' = job, DOMAIN positions' = DOMAIN positions
  PROVE  JobOK'
<1> SUFFICES ASSUME job # None
             PROVE  /\ job \in Job
                    /\ sent'[job.cmd.ticket] # None /\ job.cmd = sent'[job.cmd.ticket]
                    /\ job.cmd.action # "OPEN" =>
                         \A k \in DOMAIN job.todo : job.todo[k].leg \in DOMAIN positions
  BY DEF JobOK
<1>1. /\ job \in Job /\ job.cmd.ticket \in Tickets
      /\ sent[job.cmd.ticket] # None /\ job.cmd = sent[job.cmd.ticket]
      /\ job.cmd.action # "OPEN" =>
           \A k \in DOMAIN job.todo : job.todo[k].leg \in DOMAIN positions
  BY JobTyped DEF TypeInv, JobOK
<1>2. job.cmd.ticket # t
  BY <1>1
<1> QED
  BY <1>1, <1>2

LEMMA ReceiveType ==
  ASSUME TypeInv, NEW t \in Tickets, Receive(t)
  PROVE  TypeInv'
<1>1. PICK scan \in Scans :
        LET cmd  == sent[t]
            legs == IF cmd.action = "OPEN" THEN {} ELSE FindLegs(cmd, scan)
        IN  \E todo \in Orders(cmd, legs) :
              job' = [cmd |-> cmd, todo |-> todo, tries |-> 0,
                      split |-> Len(todo) > 1, filled |-> 0,
                      first |-> 0, before |-> Len(positions),
                      failed |-> cmd.action \in {"MODIFY", "PARTIAL_CLOSE"}
                                   /\ legs = {}]
  BY DEF Receive
<1> DEFINE cmd  == sent[t]
           legs == IF cmd.action = "OPEN" THEN {} ELSE FindLegs(cmd, scan)
<1>2. PICK todo \in Orders(cmd, legs) :
        job' = [cmd |-> cmd, todo |-> todo, tries |-> 0,
                split |-> Len(todo) > 1, filled |-> 0,
                first |-> 0, before |-> Len(positions),
                failed |-> cmd.action \in {"MODIFY", "PARTIAL_CLOSE"} /\ legs = {}]
  BY <1>1
<1>3. /\ cmd \in Command /\ cmd # None /\ cmd.ticket = t
      /\ positions \in Seq(Leg) /\ Len(positions) \in Nat
  BY DEF Receive, TypeInv, SentOK
<1>4. legs \in SUBSET DOMAIN positions
  BY DEF FindLegs, Commented, Scans, LiveLegs
<1>5. /\ todo \in Seq([leg : Nat, volume : Nat])
      /\ cmd.action # "OPEN" =>
           \A k \in DOMAIN todo : todo[k].leg \in DOMAIN positions
  BY <1>3, <1>4, OrdersTyped
<1>6. UNCHANGED << engineVars, positions >>
  BY DEF Receive
<1>7. 0 \in 0..(RetryCount - 1)
  BY Constants
<1>8. JobOK'
  <2>1. job' \in Job
    <3> HIDE DEF cmd, legs
    <3> QED
      BY <1>2, <1>3, <1>5, <1>7 DEF Job
  <2>2. job'.cmd = cmd /\ job'.todo = todo
    BY <1>2
  <2>3. sent'[t] = cmd /\ positions' = positions
    BY <1>6 DEF engineVars
  <2> HIDE DEF cmd
  <2> QED
    BY <1>3, <1>5, <2>1, <2>2, <2>3 DEF JobOK
<1>9. ready
  BY DEF Receive
<1> QED
  BY <1>6, <1>8, <1>9 DEF TypeInv, SentOK, engineVars

LEMMA AttemptType ==
  ASSUME TypeInv, Attempt
  PROVE  TypeInv'
<1> DEFINE order == Head(job.todo)
<1>1. /\ job # None /\ job.todo # << >> /\ UNCHANGED engineVars
      /\ order \in [leg : Nat, volume : Nat]
      /\ \E r \in Executing \cup {"rejected", "no_tick"} : \E v \in Nat : Sends(order, r, v)
  BY AttemptSends
<1>2. PICK r, v : v \in Nat /\ Sends(order, r, v)
  BY <1>1
<1>3. positions' \in Seq(Leg) /\ SameLegs
  BY <1>1, <1>2, TouchesLegs DEF Sends, Fills
<1>4. /\ job' \in Job /\ job'.cmd = job.cmd
      /\ job'.todo \in {Tail(job.todo), job.todo, << >>}
  <2> HIDE DEF order
  <2> QED
    BY <1>1, <1>2, JobAfter DEF Sends
<1>5. job.todo \in Seq([leg : Nat, volume : Nat])
  BY <1>1, JobTyped
<1>6. \A k \in DOMAIN job'.todo : \E m \in DOMAIN job.todo : job'.todo[k] = job.todo[m]
  <2>1. CASE job'.todo = Tail(job.todo)
    BY <1>1, <1>5, <2>1, HeadTail
  <2>2. CASE job'.todo = job.todo
    BY <2>2
  <2>3. CASE job'.todo = << >>
    BY <2>3
  <2> QED
    BY <1>4, <2>1, <2>2, <2>3
<1>7. JobOK'
  <2>1. /\ sent[job.cmd.ticket] # None /\ job.cmd = sent[job.cmd.ticket]
        /\ job.cmd.action # "OPEN" =>
             \A k \in DOMAIN job.todo : job.todo[k].leg \in DOMAIN positions
    BY <1>1 DEF TypeInv, JobOK
  <2>2. sent' = sent
    BY <1>1 DEF engineVars
  <2>3. \A i \in DOMAIN positions : i \in DOMAIN positions'
    BY <1>3 DEF SameLegs
  <2>4. job.cmd.action # "OPEN" =>
          \A k \in DOMAIN job'.todo : job'.todo[k].leg \in DOMAIN positions'
    BY <1>6, <2>1, <2>3
  <2> QED
    BY <1>4, <2>1, <2>2, <2>4 DEF JobOK
<1> QED
  BY <1>1, <1>3, <1>7 DEF TypeInv, SentOK, engineVars

LEMMA AnswerType ==
  ASSUME TypeInv, Answer
  PROVE  TypeInv'
<1> DEFINE t == job.cmd.ticket
<1>1. /\ job # None /\ job' = None
      /\ sent' = [sent EXCEPT ![t] = None]
      /\ UNCHANGED << mvol, seen, starting, ready, positions >>
  BY DEF Answer
<1>2. t \in Tickets /\ job.cmd = sent[t] /\ sent[t] # None
      /\ job.first \in Nat /\ job.filled \in Nat
  BY <1>1, JobTyped
<1>3. AckFill(job) \in Nat
  BY <1>2 DEF AckFill
<1>4. record' \in [Tickets -> Record \cup {None}]
  <2>1. CASE Ok(job) /\ job.cmd.action = "OPEN"
    <3>1. record' = [record EXCEPT ![t].slave_ticket = job.first,
                                   ![t].slave_open_volume = AckFill(job)]
      BY <2>1 DEF Answer
    <3>2. record[t] \in Record
      BY <1>2, <2>1 DEF TypeInv, SentOK
    <3> DEFINE e == [[record[t] EXCEPT !.slave_ticket = job.first]
                       EXCEPT !.slave_open_volume = AckFill(job)]
    <3>3. e \in Record
      BY <1>2, <1>3, <3>2 DEF Record
    <3>4. record' = [record EXCEPT ![t] = e]
      BY <1>2, <3>1 DEF TypeInv
    <3> HIDE DEF e
    <3> QED
      BY <1>2, <3>3, <3>4 DEF TypeInv
  <2>2. CASE Ok(job) /\ job.cmd.action = "CLOSE"
    <3>1. record' = [record EXCEPT ![t] = None]
      BY <2>2 DEF Answer
    <3> QED
      BY <3>1 DEF TypeInv
  <2>3. CASE ~ (Ok(job) /\ job.cmd.action \in {"OPEN", "CLOSE"})
    <3>1. record' = record
      BY <2>3 DEF Answer
    <3> QED
      BY <3>1 DEF TypeInv
  <2> QED
    BY <2>1, <2>2, <2>3
<1>5. \A u \in Tickets : u # t => record'[u] = record[u]
  BY DEF Answer, TypeInv
<1>6. SentOK'
  <2>1. sent' \in [Tickets -> Command \cup {None}]
    BY <1>1 DEF TypeInv, SentOK
  <2>2. sent'[t] = None /\ \A u \in Tickets : u # t => sent'[u] = sent[u]
    BY <1>1, <1>2 DEF TypeInv, SentOK
  <2> HIDE DEF t
  <2>3. ASSUME NEW u \in Tickets, sent'[u] # None
        PROVE  sent'[u].ticket = u /\ (sent'[u].action = "OPEN" => record'[u] \in Record)
    <3>1. u # t /\ sent'[u] = sent[u] /\ record'[u] = record[u]
      BY <1>5, <2>2, <2>3
    <3> QED
      BY <2>3, <3>1 DEF TypeInv, SentOK
  <2> QED
    BY <1>1, <1>2, <2>1, <2>3 DEF SentOK, TypeInv
<1> QED
  BY <1>1, <1>4, <1>6 DEF TypeInv, JobOK

LEMMA BrokerClosesLegs ==
  ASSUME TypeInv, NEW i, BrokerCloses(i)
  PROVE  /\ positions' \in Seq(Leg) /\ SameLegs
         /\ DOMAIN positions' = DOMAIN positions /\ Len(positions') = Len(positions)
         /\ i \in LiveLegs /\ positions'[i].volume = 0 /\ positions'[i].ended
         /\ \A j \in DOMAIN positions : j # i => positions'[j] = positions[j]
         /\ UNCHANGED << engineVars, job >>
<1> DEFINE p == positions[i]
           e == [[p EXCEPT !.volume = 0] EXCEPT !.ended = TRUE]
<1>1. i \in LiveLegs /\ i \in DOMAIN positions /\ UNCHANGED << engineVars, job >>
  BY DEF BrokerCloses, LiveLegs
<1>2. positions \in Seq(Leg) /\ p \in Leg /\ p.volume \in Nat
  BY <1>1, LegTyped DEF TypeInv
<1>3. positions' = [positions EXCEPT ![i] = e]
  BY <1>1, <1>2 DEF BrokerCloses
<1>4. /\ e \in Leg /\ e.of = p.of /\ e.mv = p.mv /\ e.sv = p.sv /\ e.opened = p.opened
      /\ e.volume = 0 /\ e.ended
  <2> HIDE DEF p
  <2> QED
    BY <1>2 DEF Leg
<1> HIDE DEF e
<1>5. /\ positions' \in Seq(Leg) /\ Len(positions') = Len(positions)
      /\ DOMAIN positions' = DOMAIN positions /\ positions'[i] = e
      /\ \A j \in DOMAIN positions : j # i => positions'[j] = positions[j]
  BY <1>1, <1>2, <1>3, <1>4, UpdateFacts
<1>6. \A j \in DOMAIN positions : positions[j].volume \in Nat
  BY <1>2, LegTyped
<1> QED
  BY <1>1, <1>2, <1>4, <1>5, <1>6 DEF SameLegs

LEMMA BrokerClosesType ==
  ASSUME TypeInv, NEW i, BrokerCloses(i)
  PROVE  TypeInv'
<1>1. /\ positions' \in Seq(Leg) /\ DOMAIN positions' = DOMAIN positions
      /\ UNCHANGED << engineVars, job >>
  BY BrokerClosesLegs
<1> QED
  BY <1>1 DEF TypeInv, SentOK, JobOK, engineVars

(* What a new command for t leaves alone.                                  *)
LEMMA SendType ==
  ASSUME TypeInv, NEW t \in Tickets, Hears(t),
         NEW cmd, cmd \in Command \cup {None},
         cmd # None => cmd.ticket = t /\ (cmd.action = "OPEN" => record'[t] \in Record),
         sent' = [sent EXCEPT ![t] = cmd],
         record' \in [Tickets -> Record \cup {None}],
         \A u \in Tickets : u # t => record'[u] = record[u],
         mvol' \in [Tickets -> MasterVolumes \cup {0}],
         seen' \in SUBSET Tickets, UNCHANGED << starting, ready, job, positions >>
  PROVE  TypeInv'
<1>1. sent[t] = None
  BY DEF Hears
<1>2. /\ sent' \in [Tickets -> Command \cup {None}] /\ sent'[t] = cmd
      /\ \A u \in Tickets : u # t => sent'[u] = sent[u]
  BY DEF TypeInv, SentOK
<1>3. JobOK'
  BY <1>1, <1>2, JobElsewhere
<1>4. SentOK'
  <2>1. ASSUME NEW u \in Tickets, sent'[u] # None
        PROVE  sent'[u].ticket = u /\ (sent'[u].action = "OPEN" => record'[u] \in Record)
    <3>1. CASE u = t
      BY <1>2, <2>1, <3>1
    <3>2. CASE u # t
      <4>1. sent'[u] = sent[u] /\ record'[u] = record[u]
        BY <1>2, <3>2
      <4> QED
        BY <2>1, <4>1 DEF TypeInv, SentOK
    <3> QED
      BY <3>1, <3>2
  <2> QED
    BY <1>2, <2>1 DEF SentOK, Hears
<1> QED
  BY <1>3, <1>4 DEF TypeInv

LEMMA SendOpenType ==
  ASSUME TypeInv, NEW t \in Tickets, SendOpen(t)
  PROVE  TypeInv'
<1>1. /\ Hears(t) /\ mvol[t] > 0 /\ seen' = seen \cup {t}
      /\ UNCHANGED << mvol, starting, ready, job, positions >>
  BY DEF SendOpen
<1>2. /\ mvol[t] \in MasterVolumes \cup {0} /\ mvol[t] \in MasterVolumes
      /\ mvol[t] \in Nat
  <2>1. mvol[t] \in MasterVolumes \cup {0}
    BY DEF TypeInv
  <2>2. mvol[t] # 0
    BY <1>1
  <2> QED
    BY <2>1, <2>2, Constants
<1>3. CASE record[t] = None
  <2> DEFINE e == [slave_ticket |-> 0, master_open_volume |-> mvol[t],
                   slave_open_volume |-> mvol[t]]
  <2>1. record' = [record EXCEPT ![t] = e]
    BY <1>3 DEF SendOpen
  <2>2. PICK l \in Levels :
          sent' = [sent EXCEPT ![t] =
                   [action |-> "OPEN", ticket |-> t, volume |-> mvol[t],
                    master_volume |-> mvol[t], sltp |-> l]]
    BY <1>3 DEF SendOpen
  <2> DEFINE cmd == [action |-> "OPEN", ticket |-> t, volume |-> mvol[t],
                     master_volume |-> mvol[t], sltp |-> l]
  <2>3. e \in Record
    BY <1>2 DEF Record
  <2>4. cmd \in Command /\ cmd.ticket = t
    BY <1>2 DEF Command, OpenCommand
  <2>5. sent' = [sent EXCEPT ![t] = cmd]
    BY <2>2
  <2> HIDE DEF e, cmd
  <2>6. /\ record' \in [Tickets -> Record \cup {None}] /\ record'[t] = e
        /\ \A u \in Tickets : u # t => record'[u] = record[u]
    BY <2>1, <2>3 DEF TypeInv
  <2>7. /\ mvol' \in [Tickets -> MasterVolumes \cup {0}] /\ seen' \in SUBSET Tickets
        /\ UNCHANGED << starting, ready, job, positions >>
    BY <1>1 DEF TypeInv
  <2> QED
    BY <1>1, <2>3, <2>4, <2>5, <2>6, <2>7, SendType
<1>4. CASE record[t] # None
  <2>1. UNCHANGED << record, sent >>
    BY <1>4 DEF SendOpen
  <2> QED
    BY <1>1, <2>1 DEF TypeInv, SentOK, JobOK
<1> QED
  BY <1>3, <1>4

LEMMA LinkedRecord ==
  ASSUME TypeInv, NEW t \in Tickets, Linked(t)
  PROVE  /\ record[t] \in Record /\ record[t].slave_ticket \in Nat
         /\ record[t].master_open_volume \in MasterVolumes
         /\ record[t].slave_open_volume \in Nat
<1>1. record[t] \in Record
  BY DEF TypeInv, Linked
<1> QED
  BY <1>1 DEF Record

LEMMA SendModifyType ==
  ASSUME TypeInv, NEW t \in Tickets, NEW l \in Levels, SendModify(t, l)
  PROVE  TypeInv'
<1> DEFINE cmd == [action |-> "MODIFY", ticket |-> t, sltp |-> l,
                   slave_ticket |-> record[t].slave_ticket]
<1>1. /\ Hears(t) /\ Linked(t) /\ sent' = [sent EXCEPT ![t] = cmd]
      /\ UNCHANGED << mvol, seen, record, starting, ready, job, positions >>
  BY DEF SendModify
<1>2. cmd \in Command /\ cmd.ticket = t /\ cmd.action # "OPEN"
  BY <1>1, LinkedRecord DEF Command, ModifyCommand
<1> HIDE DEF cmd
<1> QED
  BY <1>1, <1>2, SendType DEF TypeInv

LEMMA SendPartialType ==
  ASSUME TypeInv, NEW t \in Tickets, NEW v \in MasterVolumes, SendPartial(t, v)
  PROVE  TypeInv'
<1> DEFINE cmd == [action |-> "PARTIAL_CLOSE", ticket |-> t, new_master_volume |-> v,
                   slave_ticket |-> record[t].slave_ticket,
                   master_open_volume |-> record[t].master_open_volume,
                   slave_open_volume |-> record[t].slave_open_volume]
<1>1. /\ Hears(t) /\ mvol' = [mvol EXCEPT ![t] = v]
      /\ Linked(t) => sent' = [sent EXCEPT ![t] = cmd]
      /\ ~ Linked(t) => sent' = sent
      /\ UNCHANGED << seen, record, starting, ready, job, positions >>
  BY DEF SendPartial
<1>2. Linked(t) => cmd \in Command /\ cmd.ticket = t /\ cmd.action # "OPEN"
  BY LinkedRecord DEF Command, PartialCommand
<1>3. mvol' \in [Tickets -> MasterVolumes \cup {0}]
  BY <1>1 DEF TypeInv
<1> HIDE DEF cmd
<1>4. CASE Linked(t)
  BY <1>1, <1>2, <1>3, <1>4, SendType DEF TypeInv
<1>5. CASE ~ Linked(t)
  BY <1>1, <1>3, <1>5 DEF TypeInv, SentOK, JobOK
<1> QED
  BY <1>4, <1>5

LEMMA SendCloseType ==
  ASSUME TypeInv, NEW t \in Tickets, SendClose(t)
  PROVE  TypeInv'
<1>1. /\ Hears(t) /\ mvol' = [mvol EXCEPT ![t] = 0]
      /\ UNCHANGED << seen, starting, ready, job, positions >>
  BY DEF SendClose
<1>2. mvol' \in [Tickets -> MasterVolumes \cup {0}]
  BY <1>1 DEF TypeInv
<1>3. CASE Linked(t)
  <2> DEFINE cmd == [action |-> "CLOSE", ticket |-> t,
                     slave_ticket |-> record[t].slave_ticket]
  <2>1. sent' = [sent EXCEPT ![t] = cmd] /\ record' = record
    BY <1>3 DEF SendClose
  <2>2. cmd \in Command /\ cmd.ticket = t /\ cmd.action # "OPEN"
    BY <1>3, LinkedRecord DEF Command, CloseCommand
  <2> HIDE DEF cmd
  <2> QED
    BY <1>1, <1>2, <2>1, <2>2, SendType DEF TypeInv
<1>4. CASE ~ Linked(t)
  <2>1. record' = [record EXCEPT ![t] = None] /\ sent' = sent
    BY <1>4 DEF SendClose
  <2>2. /\ sent[t] = None /\ sent' = [sent EXCEPT ![t] = None]
        /\ record' \in [Tickets -> Record \cup {None}]
        /\ \A u \in Tickets : u # t => record'[u] = record[u]
    BY <1>1, <2>1 DEF Hears, TypeInv, SentOK
  <2> QED
    BY <1>1, <1>2, <2>2, SendType DEF TypeInv
<1> QED
  BY <1>3, <1>4

LEMMA RestartType ==
  ASSUME TypeInv, NEW what \in Restarts, Restart(what)
  PROVE  TypeInv'
BY DEF TypeInv, SentOK, JobOK, Restart

LEMMA ScanLegs ==
  ASSUME NEW scan \in Scans, NEW t
  PROVE  /\ Commented(t, scan) \in SUBSET DOMAIN positions
         /\ Commented(t, scan) \in SUBSET LegsOf(t)
BY DEF Scans, LiveLegs, LegsOf, Commented

(* Recovery makes a record for the tickets that have commented legs and no *)
(* record yet.                                                             *)
LEMMA RecoverRecords ==
  ASSUME TypeInv, Recover
  PROVE  /\ \A t \in Tickets : record[t] # None => record'[t] = record[t]
         /\ \E scan \in Scans : \A t \in Tickets : record[t] = None =>
              LET legs == Commented(t, scan)
              IN  /\ legs = {} => record'[t] = None
                  /\ legs # {} =>
                       /\ record'[t] \in Record
                       /\ record'[t].slave_ticket \in legs
                       /\ record'[t].master_open_volume
                            = positions[record'[t].slave_ticket].mv
                       /\ record'[t].slave_open_volume = Sum(CommentSV, legs)
         /\ record' \in [Tickets -> Record \cup {None}]
<1>1. PICK scan \in Scans : \E first \in [Tickets -> scan \cup {0}] :
        /\ \A t \in Tickets : Commented(t, scan) # {} => first[t] \in Commented(t, scan)
        /\ record' = [t \in Tickets |->
             IF record[t] # None THEN record[t]
                                 ELSE Recovered(Commented(t, scan), first[t])]
  BY DEF Recover
<1>2. PICK first \in [Tickets -> scan \cup {0}] :
        /\ \A t \in Tickets : Commented(t, scan) # {} => first[t] \in Commented(t, scan)
        /\ record' = [t \in Tickets |->
             IF record[t] # None THEN record[t]
                                 ELSE Recovered(Commented(t, scan), first[t])]
  BY <1>1
<1>3. ASSUME NEW t \in Tickets, record[t] = None
      PROVE  LET legs == Commented(t, scan)
             IN  /\ legs = {} => record'[t] = None
                 /\ legs # {} =>
                      /\ record'[t] \in Record
                      /\ record'[t].slave_ticket \in legs
                      /\ record'[t].master_open_volume
                           = positions[record'[t].slave_ticket].mv
                      /\ record'[t].slave_open_volume = Sum(CommentSV, legs)
  <2> DEFINE legs == Commented(t, scan)
             f == first[t]
  <2>1. record'[t] = Recovered(legs, f)
    BY <1>2, <1>3
  <2>2. legs \in SUBSET DOMAIN positions /\ positions \in Seq(Leg)
    BY ScanLegs DEF TypeInv
  <2>3. Sum(CommentSV, legs) \in Nat
    BY <2>2, SumsOfLegs
  <2>4. legs # {} => f \in legs
    BY <1>2
  <2> HIDE DEF legs, f
  <2>5. CASE legs = {}
    BY <2>1, <2>5 DEF Recovered, legs
  <2>6. CASE legs # {}
    <3>1. f \in legs /\ f \in Nat /\ positions[f].mv \in MasterVolumes
      <4>1. f \in legs /\ f \in DOMAIN positions
        BY <2>2, <2>4, <2>6
      <4> QED
        BY <2>2, <4>1, LegTyped
    <3>2. record'[t] = [slave_ticket |-> f, master_open_volume |-> positions[f].mv,
                        slave_open_volume |-> Sum(CommentSV, legs)]
      BY <2>1, <2>6 DEF Recovered
    <3> QED
      BY <2>3, <2>6, <3>1, <3>2 DEF Record, legs
  <2> QED
    BY <2>5, <2>6
<1>4. record' \in [Tickets -> Record \cup {None}]
  <2>1. \A t \in Tickets : record'[t] \in Record \cup {None}
    <3>1. \A t \in Tickets : record[t] # None => record'[t] \in Record \cup {None}
      BY <1>2 DEF TypeInv
    <3> QED
      BY <1>3, <3>1
  <2>2. DOMAIN record' = Tickets /\ record' = [t \in Tickets |-> record'[t]]
    BY <1>2
  <2> QED
    BY <2>1, <2>2
<1>5. \A t \in Tickets : record[t] # None => record'[t] = record[t]
  BY <1>2
<1> QED
  BY <1>3, <1>4, <1>5

LEMMA RecoverType ==
  ASSUME TypeInv, Recover
  PROVE  TypeInv'
<1>1. /\ ~ ready /\ ready' = TRUE /\ starting' = FALSE
      /\ UNCHANGED << mvol, seen, sent, job, positions >>
  BY DEF Recover
<1>2. /\ record' \in [Tickets -> Record \cup {None}]
      /\ \A t \in Tickets : record[t] # None => record'[t] = record[t]
  BY RecoverRecords
<1>3. SentOK'
  <2>1. \A t \in Tickets : record[t] \in Record => record'[t] = record[t]
    BY <1>2, Constants
  <2> QED
    BY <1>1, <2>1 DEF TypeInv, SentOK
<1> QED
  BY <1>1, <1>2, <1>3 DEF TypeInv, JobOK

LEMMA TypeInit == Init => TypeInv
<1> SUFFICES ASSUME Init PROVE TypeInv
  OBVIOUS
<1>1. positions \in Seq(Leg)
  BY DEF Init
<1> QED
  BY <1>1, Constants DEF Init, TypeInv, SentOK, JobOK

LEMMA TypeStep ==
  ASSUME TypeInv, [Next]_vars
  PROVE  TypeInv'
<1>1. CASE UNCHANGED vars
  BY <1>1 DEF vars, TypeInv, SentOK, JobOK
<1>2. CASE Next
  BY <1>2, AttemptType, AnswerType, RecoverType, RestartType, BrokerClosesType,
     ReceiveType, SendOpenType, SendModifyType, SendPartialType, SendCloseType
     DEF Next
<1> QED
  BY <1>1, <1>2

THEOREM TypeInvariant == Spec => []TypeInv
<1>1. Init => TypeInv
  BY TypeInit
<1>2. TypeInv /\ [Next]_vars => TypeInv'
  BY TypeStep
<1> QED
  BY <1>1, <1>2, PTL DEF Spec

(* Type correctness: a job is always for the command outstanding for its   *)
(* ticket, its attempts are within the retry limit, and no volume becomes  *)
(* negative, whatever is answered, lost, closed by the broker or restarted *)
(* in between (mt5_worker.py, execute_command).                            *)
THEOREM TypeCorrect == Spec => []TypeOK
<1>1. TypeInv => TypeOK
  <2> SUFFICES ASSUME TypeInv PROVE TypeOK
    OBVIOUS
  <2> QED
    BY DEF TypeInv, SentOK, JobOK, TypeOK
<1> QED
  BY <1>1, TypeInvariant, PTL

-----------------------------------------------------------------------------
(* What an ok answer says of the legs.                                     *)

(* While nothing has failed, a CLOSE has an order for all that is left of  *)
(* each leg it can reach, and a MODIFY one for each leg it has not changed.*)
CloseReaches(i) ==
  \E k \in DOMAIN job.todo :
    job.todo[k].leg = i /\ positions[i].volume <= job.todo[k].volume
ModifyReaches(i) ==
  \/ positions[i].sltp = job.cmd.sltp
  \/ \E k \in DOMAIN job.todo : job.todo[k].leg = i

ReachInv ==
  (job # None /\ ~ job.failed) =>
    \A i \in Reachable(job.cmd) :
      /\ job.cmd.action = "CLOSE"  => CloseReaches(i)
      /\ job.cmd.action = "MODIFY" => ModifyReaches(i)

LEMMA ReachableIs ==
  ASSUME NEW i, NEW cmd
  PROVE  i \in Reachable(cmd) <=>
           /\ i \in DOMAIN positions /\ positions[i].volume > 0
           /\ positions[i].of = cmd.ticket
           /\ i \notin Mangled \/ i = cmd.slave_ticket
BY DEF Reachable, LegsOf, LiveLegs, Intact

LEMMA ReachableFound ==
  ASSUME NEW cmd
  PROVE  Reachable(cmd) \in SUBSET FindLegs(cmd, LiveLegs)
BY DEF Reachable, FindLegs, Commented, LegsOf

LEMMA ReceiveReach ==
  ASSUME ~ ScansFail, TypeInv, NEW t \in Tickets, Receive(t)
  PROVE  ReachInv'
<1> DEFINE cmd  == sent[t]
           legs == IF cmd.action = "OPEN" THEN {} ELSE FindLegs(cmd, LiveLegs)
<1>1. PICK todo \in Orders(cmd, legs) : job'.cmd = cmd /\ job'.todo = todo
  BY DEF Receive, Scans
<1>2. positions' = positions /\ positions \in Seq(Leg)
  BY DEF Receive, TypeInv
<1> SUFFICES ASSUME NEW i, i \in Reachable(job.cmd)'
             PROVE  /\ cmd.action = "CLOSE"  => CloseReaches(i)'
                    /\ cmd.action = "MODIFY" => ModifyReaches(i)'
  BY <1>1 DEF ReachInv
<1>3. i \in Reachable(cmd)
  BY <1>1, <1>2, ReachableIs DEF Reachable, LegsOf, LiveLegs, Intact
<1>4. ASSUME cmd.action \in {"CLOSE", "MODIFY"}
      PROVE  \E k \in DOMAIN todo :
               todo[k].leg = i /\ todo[k].volume = VolumeFor(i, cmd, legs)
  <2>1. cmd.action # "OPEN" /\ legs \in SUBSET DOMAIN positions
    BY <1>4 DEF FindLegs, Commented, LiveLegs
  <2>2. i \in Due(cmd, legs)
    BY <1>3, <1>4, ReachableFound DEF Due
  <2> HIDE DEF cmd, legs
  <2> QED
    BY <1>2, <2>1, <2>2, OrdersAre
<1>5. cmd.action = "CLOSE" => VolumeFor(i, cmd, legs) = positions[i].volume
  BY DEF VolumeFor
<1>6. positions[i].volume \in Nat
  BY <1>2, <1>3, ReachableIs, LegTyped
<1> HIDE DEF cmd, legs
<1> QED
  BY <1>1, <1>2, <1>4, <1>5, <1>6 DEF CloseReaches, ModifyReaches

(* A command that closes or changes legs opens none.                       *)
LEMMA ReachableShrinks ==
  ASSUME TypeInv, job # None, job.cmd.action # "OPEN",
         NEW order \in [leg : Nat, volume : Nat], NEW r, NEW v \in Nat,
         v <= order.volume, Touches(order, r, v), job'.cmd = job.cmd,
         NEW i, i \in Reachable(job.cmd)'
  PROVE  /\ i \in Reachable(job.cmd) /\ i \in DOMAIN positions
         /\ positions'[i].volume <= positions[i].volume
         /\ positions'[i].volume \in Nat /\ positions[i].volume \in Nat
         /\ positions'[i].volume > 0
<1>1. /\ i \in DOMAIN positions' /\ positions'[i].volume > 0
      /\ positions'[i].of = job.cmd.ticket
      /\ i \notin Mangled \/ i = job.cmd.slave_ticket
  BY DEF Reachable, LegsOf, LiveLegs, Intact
<1>2. SameLegs /\ positions' \in Seq(Leg) /\ i \in DOMAIN positions
  BY <1>1, TouchesLegs
<1>3. /\ positions'[i].volume <= positions[i].volume
      /\ positions[i].of = job.cmd.ticket
  BY <1>1, <1>2 DEF SameLegs
<1>4. positions'[i].volume \in Nat /\ positions[i].volume \in Nat
  <2>1. positions \in Seq(Leg)
    BY DEF TypeInv
  <2>2. \A p \in Leg : p.volume \in Nat
    BY DEF Leg
  <2>3. positions'[i] \in Leg /\ positions[i] \in Leg
    BY <1>1, <1>2, <2>1, InSequence
  <2> QED
    BY <2>2, <2>3
<1>5. positions[i].volume > 0
  BY <1>1, <1>3, <1>4
<1> QED
  BY <1>1, <1>2, <1>3, <1>4, <1>5, ReachableIs

LEMMA AttemptReach ==
  ASSUME TypeInv, ReachInv, Attempt
  PROVE  ReachInv'
<1> DEFINE order == Head(job.todo)
<1>1. /\ job # None /\ job.todo # << >>
      /\ order \in [leg : Nat, volume : Nat]
      /\ \E r \in Executing \cup {"rejected", "no_tick"} : \E v \in Nat : Sends(order, r, v)
  BY AttemptSends
<1>2. PICK r, v : v \in Nat /\ Sends(order, r, v)
  BY <1>1
<1>3. job.todo \in Seq([leg : Nat, volume : Nat]) /\ job.failed \in BOOLEAN
  BY <1>1, JobTyped
<1>4. /\ order = job.todo[1] /\ 1 \in DOMAIN job.todo
      /\ DOMAIN job.todo = 1..Len(job.todo) /\ Len(job.todo) \in Nat
      /\ DOMAIN Tail(job.todo) = 1..(Len(job.todo) - 1)
      /\ \A k \in DOMAIN Tail(job.todo) : Tail(job.todo)[k] = job.todo[k + 1]
  BY <1>1, <1>3, HeadTail
<1>5. /\ Touches(order, r, v) /\ Continues(r, v) /\ v <= order.volume
      /\ r \in {"done", "lost"} => v = order.volume
  BY <1>2 DEF Sends, Fills
<1> HIDE DEF order
<1>6. job'.cmd = job.cmd
  BY <1>1, <1>2, <1>5, JobAfter
<1> SUFFICES ASSUME ~ job'.failed, NEW i, i \in Reachable(job.cmd)',
                    job.cmd.action \in {"CLOSE", "MODIFY"}
             PROVE  /\ job.cmd.action = "CLOSE"  => CloseReaches(i)'
                    /\ job.cmd.action = "MODIFY" => ModifyReaches(i)'
  BY <1>6 DEF ReachInv
<1>7. \/ r = "done" /\ job'.todo = Tail(job.todo) /\ job'.failed = job.failed
      \/ r # "done" /\ job'.todo = job.todo /\ job'.failed = job.failed
  BY <1>1, <1>2, <1>5, JobAfter
<1>8. ~ job.failed
  BY <1>7
<1>9. /\ i \in Reachable(job.cmd) /\ i \in DOMAIN positions
      /\ positions'[i].volume <= positions[i].volume
      /\ positions'[i].volume \in Nat /\ positions[i].volume \in Nat
      /\ positions'[i].volume > 0
  BY <1>1, <1>2, <1>5, <1>6, ReachableShrinks
<1>10. CASE job.cmd.action = "CLOSE"
  <2>1. PICK k \in DOMAIN job.todo :
          job.todo[k].leg = i /\ positions[i].volume <= job.todo[k].volume
    BY <1>1, <1>8, <1>9, <1>10 DEF ReachInv, CloseReaches
  <2>2. job.todo[k].volume \in Nat
    <3>1. job.todo[k] \in [leg : Nat, volume : Nat]
      BY <1>3, <2>1, InSequence
    <3> QED
      BY <3>1
  <2>3. positions'[i].volume <= job.todo[k].volume
    BY <1>9, <2>1, <2>2
  <2>4. CASE r # "done" /\ job'.todo = job.todo
    BY <1>10, <2>1, <2>3, <2>4 DEF CloseReaches
  <2>5. CASE r = "done" /\ job'.todo = Tail(job.todo)
    <3>1. k # 1
      <4> SUFFICES ASSUME k = 1 PROVE FALSE
        OBVIOUS
      <4>1. order.leg = i /\ positions[i].volume <= order.volume
        BY <1>4, <2>1
      <4>2. /\ order.volume <= positions[i].volume
            /\ positions' = [positions EXCEPT ![i].volume = @ - order.volume]
        BY <1>5, <1>10, <2>5, <4>1 DEF Touches
      <4>3. positions'[i].volume = positions[i].volume - order.volume
        <5>1. positions[i] \in Leg
          BY <1>9, LegTyped DEF TypeInv
        <5> QED
          BY <1>9, <4>2, <5>1 DEF Leg
      <4>4. order.volume \in Nat
        BY <1>1
      <4> QED
        BY <1>9, <4>1, <4>3, <4>4
    <3>2. k - 1 \in DOMAIN job'.todo /\ job'.todo[k - 1] = job.todo[k]
      BY <1>4, <2>5, <3>1
    <3> QED
      BY <1>10, <2>1, <2>3, <3>2 DEF CloseReaches
  <2> QED
    BY <1>7, <2>4, <2>5
<1>11. CASE job.cmd.action = "MODIFY"
  <2>1. ModifyReaches(i)
    BY <1>1, <1>8, <1>9, <1>11 DEF ReachInv
  <2>2. \/ positions' = positions
        \/ positions' = [positions EXCEPT ![order.leg].sltp = job.cmd.sltp]
    BY <1>5, <1>11 DEF Touches
  <2>3. positions[i] \in Leg
    BY <1>9, LegTyped DEF TypeInv
  <2>4. positions'[i].sltp = positions[i].sltp \/ positions'[i].sltp = job.cmd.sltp
    BY <1>9, <2>2, <2>3 DEF Leg
  <2>5. CASE positions[i].sltp = job.cmd.sltp
    BY <1>6, <1>11, <2>4, <2>5 DEF ModifyReaches
  <2>6. CASE \E k \in DOMAIN job.todo : job.todo[k].leg = i
    <3>1. PICK k \in DOMAIN job.todo : job.todo[k].leg = i
      BY <2>6
    <3>2. CASE r # "done" /\ job'.todo = job.todo
      BY <1>11, <3>1, <3>2 DEF ModifyReaches
    <3>3. CASE r = "done" /\ job'.todo = Tail(job.todo) /\ k # 1
      <4>1. k - 1 \in DOMAIN job'.todo /\ job'.todo[k - 1] = job.todo[k]
        BY <1>4, <3>3
      <4> QED
        BY <1>11, <3>1, <4>1 DEF ModifyReaches
    <3>4. CASE r = "done" /\ k = 1
      <4>1. order.leg = i
        BY <1>4, <3>1, <3>4
      <4>2. positions' = [positions EXCEPT ![i].sltp = job.cmd.sltp]
        BY <1>5, <1>11, <3>4, <4>1 DEF Touches
      <4>3. positions'[i].sltp = job.cmd.sltp
        BY <1>9, <2>3, <4>2 DEF Leg
      <4> QED
        BY <1>6, <1>11, <4>3 DEF ModifyReaches
    <3> QED
      BY <1>7, <3>2, <3>3, <3>4
  <2> QED
    BY <2>1, <2>5, <2>6 DEF ModifyReaches
<1> QED
  BY <1>10, <1>11

LEMMA BrokerClosesReach ==
  ASSUME TypeInv, ReachInv, NEW j, BrokerCloses(j)
  PROVE  ReachInv'
<1>1. /\ DOMAIN positions' = DOMAIN positions /\ positions'[j].volume = 0
      /\ \A i \in DOMAIN positions : i # j => positions'[i] = positions[i]
      /\ job' = job
  BY BrokerClosesLegs
<1> SUFFICES ASSUME job # None, ~ job.failed, NEW i, i \in Reachable(job.cmd)'
             PROVE  /\ job.cmd.action = "CLOSE"  => CloseReaches(i)'
                    /\ job.cmd.action = "MODIFY" => ModifyReaches(i)'
  BY <1>1 DEF ReachInv
<1>2. /\ i \in DOMAIN positions' /\ positions'[i].volume > 0
      /\ positions'[i].of = job.cmd.ticket
      /\ i \notin Mangled \/ i = job.cmd.slave_ticket
  BY <1>1 DEF Reachable, LegsOf, LiveLegs, Intact
<1>3. i # j /\ positions'[i] = positions[i] /\ i \in DOMAIN positions
  BY <1>1, <1>2
<1>4. i \in Reachable(job.cmd)
  BY <1>2, <1>3, ReachableIs
<1>5. /\ job.cmd.action = "CLOSE"  => CloseReaches(i)
      /\ job.cmd.action = "MODIFY" => ModifyReaches(i)
  BY <1>4 DEF ReachInv
<1> QED
  BY <1>1, <1>3, <1>5 DEF CloseReaches, ModifyReaches

THEOREM ReachInvariant == ~ ScansFail => (Spec => []ReachInv)
<1> SUFFICES ASSUME ~ ScansFail PROVE Spec => []ReachInv
  OBVIOUS
<1>1. Init => ReachInv
  BY DEF Init, ReachInv
<1>2. TypeInv /\ ReachInv /\ [Next]_vars => ReachInv'
  <2> SUFFICES ASSUME TypeInv, ReachInv, [Next]_vars PROVE ReachInv'
    OBVIOUS
  <2>1. CASE job' = None
    BY <2>1 DEF ReachInv
  <2>2. CASE job' = job /\ positions' = positions
    BY <2>2 DEF ReachInv, Reachable, LegsOf, LiveLegs, CloseReaches, ModifyReaches
  <2>3. CASE Attempt
    BY <2>3, AttemptReach
  <2>4. ASSUME NEW t \in Tickets, Receive(t) PROVE ReachInv'
    BY <2>4, ReceiveReach
  <2>5. ASSUME NEW j, BrokerCloses(j) PROVE ReachInv'
    BY <2>5, BrokerClosesReach
  <2> QED
    BY <2>1, <2>2, <2>3, <2>4, <2>5
    DEF Next, vars, Answer, Recover, Restart, SendOpen, SendModify, SendPartial,
        SendClose
<1> QED
  BY <1>1, <1>2, TypeInvariant, PTL DEF Spec

(* With scans that do not fail, an ok answer to a CLOSE means that no leg  *)
(* of the trade that the manager can reach is left, whatever was retried,  *)
(* lost, filled in part or closed by the broker meanwhile                  *)
(* (mt5_worker.py:400-439).                                                *)
THEOREM CloseIsComplete == ~ ScansFail => (Spec => []CloseLeavesNothing)
<1> SUFFICES ASSUME ~ ScansFail PROVE Spec => []CloseLeavesNothing
  OBVIOUS
<1>1. ReachInv => CloseLeavesNothing
  BY DEF ReachInv, CloseReaches, CloseLeavesNothing, Finished, Ok
<1> QED
  BY <1>1, ReachInvariant, PTL

(* ... and an ok answer to a MODIFY that every such leg has the new SL/TP  *)
(* (mt5_worker.py:287-322).                                                *)
THEOREM ModifyIsComplete == ~ ScansFail => (Spec => []ModifyReachesEveryLeg)
<1> SUFFICES ASSUME ~ ScansFail PROVE Spec => []ModifyReachesEveryLeg
  OBVIOUS
<1>1. ReachInv => ModifyReachesEveryLeg
  BY DEF ReachInv, ModifyReaches, ModifyReachesEveryLeg, Finished, Ok
<1> QED
  BY <1>1, ReachInvariant, PTL

-----------------------------------------------------------------------------
(* Partial closes.                                                         *)

(* The legs that the comments on p tie to t, and what their comments say   *)
(* they were opened for.                                                   *)
Owned(p, t) == {i \in DOMAIN p : p[i].volume > 0 /\ p[i].of = t /\ i \notin Mangled}
SVs(p) == [i \in DOMAIN p |-> p[i].sv]

(* A total that leaves leg x its volume when the other legs take theirs:   *)
(* what the share of a leg with a rewritten comment is computed from.      *)
Covers(p, t, x, total) ==
  p[x].opened + SumFunctionOnSet(SVs(p), Owned(p, t) \ {x}) <= total

Names(p, t, x) == x \in DOMAIN p /\ p[x].of = t

(* Ticket x, master volume mo and total volume are true of the copy of t.  *)
Link(p, t, x, mo, total) ==
  /\ Names(p, t, x) /\ p[x].mv = mo
  /\ \A i \in Owned(p, t) : p[i].mv = mo
  /\ x \in Mangled => Covers(p, t, x, total)

(* A leg keeps at least the fraction new / mv of what it was opened with,  *)
(* unless a partial close that was executed may be sent again.             *)
ClosesAnswered == "partial" \notin CloseResults /\ "PARTIAL_CLOSE" \notin LostOn

Keeps(volume, mv, opened, new) ==
  ClosesAnswered => volume * mv >= opened * new

LegInv ==
  \A i \in DOMAIN positions :
    /\ positions[i].opened <= positions[i].sv
    /\ ~ positions[i].ended =>
         Keeps(positions[i].volume, positions[i].mv, positions[i].opened,
               mvol[positions[i].of])

FreshInv ==
  \A t \in Tickets :
    ~ starting /\ mvol[t] > 0 /\ t \notin seen /\ record[t] = None
      => Owned(positions, t) = {}

OneVolume ==
  \A t \in Tickets : \A i, j \in Owned(positions, t) : positions[i].mv = positions[j].mv

RecordInv ==
  \A t \in Tickets : record[t] # None =>
    /\ \A i \in Owned(positions, t) : positions[i].mv = record[t].master_open_volume
    /\ record[t].slave_ticket # 0 =>
         Link(positions, t, record[t].slave_ticket, record[t].master_open_volume,
              record[t].slave_open_volume)

SentInv ==
  \A t \in Tickets : sent[t] # None =>
    /\ t \in seen
    /\ sent[t].action = "OPEN" =>
         /\ sent[t].master_volume = mvol[t] /\ sent[t].volume = mvol[t]
         /\ record[t].slave_ticket = 0 /\ record[t].master_open_volume = mvol[t]
         /\ (job # None => job.cmd.ticket # t) => Owned(positions, t) = {}
    /\ sent[t].action = "PARTIAL_CLOSE" =>
         /\ sent[t].new_master_volume = mvol[t]
         /\ Link(positions, t, sent[t].slave_ticket, sent[t].master_open_volume,
                 sent[t].slave_open_volume)
    /\ sent[t].action = "CLOSE" =>
         mvol[t] = 0 /\ Names(positions, t, sent[t].slave_ticket)

OpeningInv ==
  (job # None /\ job.cmd.action = "OPEN") =>
    LET t == job.cmd.ticket
    IN  /\ job.filled > 0 => job.first # 0
        /\ job.first # 0 =>
             Link(positions, t, job.first, job.cmd.master_volume, job.filled)
        /\ Mangled # {} /\ job.first = 0 => Owned(positions, t) = {} /\ job.filled = 0
        /\ ~ job.split => \A k \in DOMAIN job.todo :
             /\ job.todo[k].volume <= job.cmd.volume
             /\ Hedging => job.todo[k].volume = job.cmd.volume

ClosingInv ==
  job # None =>
    /\ job.cmd.action \in {"PARTIAL_CLOSE", "CLOSE"} =>
         \A k \in DOMAIN job.todo : positions[job.todo[k].leg].of = job.cmd.ticket
    /\ job.cmd.action = "PARTIAL_CLOSE" =>
         /\ \A k \in DOMAIN job.todo :
              LET i == job.todo[k].leg
              IN  ~ positions[i].ended =>
                    Keeps(positions[i].volume - job.todo[k].volume, positions[i].mv,
                          positions[i].opened, job.cmd.new_master_volume)
         /\ \A k, m \in DOMAIN job.todo : job.todo[k].leg = job.todo[m].leg => k = m

TradeInv ==
  LegInv /\ FreshInv /\ OneVolume /\ RecordInv /\ SentInv /\ OpeningInv /\ ClosingInv

(* Copies of t are opened within its volume, and as large as they say when *)
(* orders are not clamped.                                                 *)
SplittableSymbol ==
  /\ Info.volume_step \in DecimalSteps
  /\ OnGrid(Info.volume_min, Info.volume_step)
  /\ Info.volume_min <= Info.volume_max
  /\ 2 * Info.volume_min <= Info.volume_max + Info.volume_step
  /\ \A v \in MasterVolumes : OnGrid(v, Info.volume_step)

LEMMA ChunksRight ==
  ASSUME SplittableSymbol, NEW volume \in MasterVolumes
  PROVE  LET c == Chunks(volume)
         IN  /\ c \in Seq(Nat) /\ SumFunctionOnSet(c, 1..Len(c)) <= volume
             /\ Hedging => SumFunctionOnSet(c, 1..Len(c)) = volume
             /\ Len(c) <= 1 => \A k \in 1..Len(c) :
                  c[k] <= volume /\ (Hedging => c[k] = volume)
<1> DEFINE c == Chunks(volume)
           max == Info.volume_max
<1>1. /\ volume \in Nat /\ volume > 0 /\ OnGrid(volume, Info.volume_step)
      /\ max \in Nat /\ max > 0
  BY Constants DEF SplittableSymbol
<1>2. c \in Seq(Nat) /\ Len(c) \in Nat /\ \A k \in 1..Len(c) : c[k] \in Nat
  <2>1. c \in Seq(Nat)
    BY <1>1, ChunksNat
  <2> HIDE DEF c
  <2> QED
    BY <2>1, InSequence
<1>3. /\ SumFunctionOnSet(c, 1..Len(c)) <= volume
      /\ Hedging => SumFunctionOnSet(c, 1..Len(c)) = volume
  <2>1. ASSUME NEW x \in Nat
        PROVE  SumFunctionOnSet(<< x >>, 1..Len(<< x >>)) = x
    <3> DEFINE s == << x >>
    <3>1. 1..Len(s) = {1} /\ s[1] = x
      OBVIOUS
    <3> HIDE DEF s
    <3>2. IsFiniteSet({1}) /\ IsFiniteSet({})
      BY ONLY FS_Singleton, FS_EmptySet
    <3>3. SumFunctionOnSet(s, {}) = 0
      <4>1. \A k \in {} : s[k] \in Int
        OBVIOUS
      <4> QED
        BY <3>2, <4>1, SumOver
    <3>4. SumFunctionOnSet(s, {1}) = s[1] + SumFunctionOnSet(s, {1} \ {1})
      <4>1. \A k \in {1} : s[k] \in Int
        BY <3>1
      <4> QED
        BY <3>2, <4>1, SumOver
    <3>5. SumFunctionOnSet(s, {1} \ {1}) = 0
      <4>1. {1} \ {1} = {}
        OBVIOUS
      <4> QED
        BY ONLY <4>1, <3>3
    <3>6. SumFunctionOnSet(s, {1}) = x
      BY ONLY <3>1, <3>4, <3>5, x \in Nat
    <3> QED
      BY <3>1, <3>6 DEF s
  <2>2. CASE volume <= max
    <3>1. c = << volume >>
      BY <2>2 DEF Chunks
    <3> HIDE DEF c
    <3>2. SumFunctionOnSet(c, 1..Len(c)) = volume
      BY <1>1, <2>1, <3>1
    <3> QED
      BY <1>1, <3>2
  <2>3. CASE volume > max /\ Hedging
    <3>1. c = SplitVolume(volume, max, Info.volume_step, Info.volume_min)
      BY <1>1, <2>3 DEF Chunks
    <3>2. IsSplit(SplitVolume(volume, max, Info.volume_step, Info.volume_min),
                  volume, Info.volume_step, Info.volume_min, max)
      BY <1>1, <2>3, Constants, SplitVolumeRight DEF SplittableSymbol
    <3> HIDE DEF c
    <3>3. SumFunctionOnSet(c, 1..Len(c)) = volume
      BY <3>1, <3>2 DEF IsSplit
    <3> QED
      BY <1>1, <3>3
  <2>4. CASE volume > max /\ ~ Hedging
    <3>1. c = << max >>
      BY <1>1, <2>4 DEF Chunks
    <3> HIDE DEF c
    <3>2. SumFunctionOnSet(c, 1..Len(c)) = max
      BY <1>1, <2>1, <3>1
    <3> QED
      BY <1>1, <2>4, <3>2
  <2> HIDE DEF c, max
  <2> QED
    BY <1>1, <2>2, <2>3, <2>4
<1>4. ASSUME Len(c) <= 1, NEW k \in 1..Len(c)
      PROVE  SumFunctionOnSet(c, 1..Len(c)) = c[k]
  <2> HIDE DEF c
  <2>1. k = 1 /\ 1..Len(c) = {1} /\ c[1] \in Int
    BY <1>2, <1>4
  <2>2. IsFiniteSet({1}) /\ IsFiniteSet({})
    BY ONLY FS_Singleton, FS_EmptySet
  <2>3. SumFunctionOnSet(c, {}) = 0
    <3>1. \A m \in {} : c[m] \in Int
      OBVIOUS
    <3> QED
      BY <2>2, <3>1, SumOver
  <2>4. SumFunctionOnSet(c, {1}) = c[1] + SumFunctionOnSet(c, {1} \ {1})
    <3>1. \A m \in {1} : c[m] \in Int
      BY <2>1
    <3> QED
      BY <2>2, <3>1, SumOver
  <2>5. SumFunctionOnSet(c, {1} \ {1}) = 0
    <3>1. {1} \ {1} = {}
      OBVIOUS
    <3> QED
      BY ONLY <3>1, <2>3
  <2>6. SumFunctionOnSet(c, {1}) = c[1]
    BY ONLY <2>1, <2>4, <2>5
  <2> QED
    BY ONLY <2>1, <2>6
<1> HIDE DEF c
<1>5. ASSUME Len(c) <= 1, NEW k \in 1..Len(c)
      PROVE  c[k] <= volume /\ (Hedging => c[k] = volume)
  BY <1>3, <1>4, <1>5
<1> QED
  BY <1>2, <1>3, <1>5 DEF c

(* What a link is true of stays true when legs close or shrink, ...        *)
Shrinks(p, q) ==
  /\ DOMAIN q = DOMAIN p
  /\ \A i \in DOMAIN p :
       /\ q[i].of = p[i].of /\ q[i].mv = p[i].mv /\ q[i].sv = p[i].sv
       /\ q[i].opened = p[i].opened /\ q[i].volume <= p[i].volume

LEMMA OwnedTyped ==
  ASSUME NEW p \in Seq(Leg), NEW t
  PROVE  /\ IsFiniteSet(Owned(p, t)) /\ Owned(p, t) \in SUBSET DOMAIN p
         /\ \A x : IsFiniteSet(Owned(p, t) \ {x})
         /\ \A i \in DOMAIN p : SVs(p)[i] = p[i].sv /\ SVs(p)[i] \in Nat
                                /\ p[i].opened \in Nat /\ p[i].volume \in Nat
<1>1. DOMAIN p = 1..Len(p) /\ Len(p) \in Nat
  OBVIOUS
<1>2. IsFiniteSet(DOMAIN p)
  BY <1>1, FS_Interval
<1>3. Owned(p, t) \in SUBSET DOMAIN p
  BY DEF Owned
<1>4. \A l \in Leg : l.sv \in Nat /\ l.opened \in Nat /\ l.volume \in Nat
  BY DEF Leg
<1>5. \A i \in DOMAIN p : SVs(p)[i] = p[i].sv
  BY DEF SVs
<1>6. \A i \in DOMAIN p : p[i] \in Leg
  BY InSequence
<1> QED
  BY <1>2, <1>3, <1>4, <1>5, <1>6, FS_Subset

LEMMA OwnedShrinks ==
  ASSUME NEW p \in Seq(Leg), NEW q \in Seq(Leg), Shrinks(p, q), NEW t
  PROVE  Owned(q, t) \in SUBSET Owned(p, t)
<1>1. \A i \in DOMAIN p : q[i].volume \in Nat /\ p[i].volume \in Nat
  BY OwnedTyped DEF Shrinks
<1> QED
  BY <1>1 DEF Shrinks, Owned

LEMMA LinkShrinks ==
  ASSUME NEW p \in Seq(Leg), NEW q \in Seq(Leg), Shrinks(p, q),
         NEW t, NEW x, NEW mo, NEW total \in Nat, Link(p, t, x, mo, total)
  PROVE  Link(q, t, x, mo, total)
<1>1. Owned(q, t) \in SUBSET Owned(p, t) /\ Owned(p, t) \in SUBSET DOMAIN p
  BY OwnedShrinks, OwnedTyped
<1>2. Names(q, t, x) /\ q[x].mv = mo /\ x \in DOMAIN p
  BY DEF Link, Names, Shrinks
<1>3. \A i \in Owned(q, t) : q[i].mv = mo
  BY <1>1 DEF Link, Shrinks
<1>4. ASSUME x \in Mangled PROVE Covers(q, t, x, total)
  <2> DEFINE S == Owned(p, t) \ {x}
             R == Owned(q, t) \ {x}
  <2>1. IsFiniteSet(S) /\ IsFiniteSet(R) /\ R \in SUBSET S /\ S \in SUBSET DOMAIN p
    BY <1>1, OwnedTyped
  <2>2. /\ \A i \in S : SVs(p)[i] \in Nat
        /\ \A i \in R : SVs(p)[i] \in Int /\ SVs(q)[i] = SVs(p)[i]
    <3>1. \A i \in DOMAIN p : SVs(p)[i] \in Nat /\ SVs(p)[i] = p[i].sv
      BY OwnedTyped
    <3>2. \A i \in DOMAIN p : SVs(q)[i] = q[i].sv /\ q[i].sv = p[i].sv
      BY OwnedTyped DEF Shrinks
    <3> QED
      BY <2>1, <3>1, <3>2
  <2>3. p[x].opened + SumFunctionOnSet(SVs(p), S) <= total
    BY <1>4 DEF Link, Covers
  <2>4. q[x].opened = p[x].opened /\ p[x].opened \in Nat
    BY <1>2, OwnedTyped DEF Shrinks
  <2> HIDE DEF S, R
  <2>5. SumFunctionOnSet(SVs(p), R) <= SumFunctionOnSet(SVs(p), S)
    BY <2>1, <2>2, SumSubset
  <2>6. SumFunctionOnSet(SVs(q), R) = SumFunctionOnSet(SVs(p), R)
    BY <2>1, <2>2, SumSame
  <2>7. SumFunctionOnSet(SVs(p), S) \in Int /\ SumFunctionOnSet(SVs(p), R) \in Int
    BY <2>1, <2>2, SumOver
  <2>8. q[x].opened + SumFunctionOnSet(SVs(q), R) <= total
    BY <2>3, <2>4, <2>5, <2>6, <2>7
  <2> QED
    BY <2>8 DEF Covers, R
<1> QED
  BY <1>2, <1>3, <1>4 DEF Link

(* ... and when a leg of another ticket is opened.                         *)
LEMMA OwnedAppend ==
  ASSUME NEW p \in Seq(Leg), NEW e \in Leg, NEW t
  PROVE  LET q == Append(p, e)
         IN  /\ q \in Seq(Leg) /\ Len(p) + 1 \notin DOMAIN p
             /\ \A i \in DOMAIN p : i \in DOMAIN q /\ q[i] = p[i]
             /\ q[Len(p) + 1] = e /\ Len(p) + 1 \in DOMAIN q
             /\ DOMAIN q = DOMAIN p \cup {Len(p) + 1}
             /\ Owned(q, t) = Owned(p, t) \/ Owned(q, t) = Owned(p, t) \cup {Len(p) + 1}
             /\ e.of # t => Owned(q, t) = Owned(p, t)
<1> DEFINE q == Append(p, e)
           n == Len(p) + 1
<1>1. /\ q \in Seq(Leg) /\ DOMAIN q = (DOMAIN p) \cup {n} /\ n \notin DOMAIN p
      /\ q[n] = e /\ \A i \in DOMAIN p : q[i] = p[i]
  BY AppendFacts
<1> HIDE DEF q, n
<1>2. Owned(q, t) = Owned(p, t) \/ Owned(q, t) = Owned(p, t) \cup {n}
  BY <1>1 DEF Owned
<1>3. e.of # t => Owned(q, t) = Owned(p, t)
  BY <1>1 DEF Owned
<1> QED
  BY <1>1, <1>2, <1>3 DEF q, n

LEMMA LinkOther ==
  ASSUME NEW p \in Seq(Leg), NEW e \in Leg, NEW t, e.of # t,
         NEW x, NEW mo, NEW total \in Nat, Link(p, t, x, mo, total)
  PROVE  Link(Append(p, e), t, x, mo, total)
<1> DEFINE q == Append(p, e)
<1>1. /\ q \in Seq(Leg) /\ Owned(q, t) = Owned(p, t)
      /\ \A i \in DOMAIN p : i \in DOMAIN q /\ q[i] = p[i]
  BY OwnedAppend
<1> HIDE DEF q
<1>2. Owned(p, t) \in SUBSET DOMAIN p /\ x \in DOMAIN p
  BY OwnedTyped DEF Link, Names
<1>3. Names(q, t, x) /\ q[x].mv = mo /\ \A i \in Owned(q, t) : q[i].mv = mo
  BY <1>1, <1>2 DEF Link, Names
<1>4. ASSUME x \in Mangled PROVE Covers(q, t, x, total)
  <2> DEFINE S == Owned(p, t) \ {x}
  <2>1. IsFiniteSet(S) /\ S \in SUBSET DOMAIN p
    BY OwnedTyped
  <2>2. \A i \in S : SVs(p)[i] \in Int /\ SVs(q)[i] = SVs(p)[i]
    BY <1>1, <2>1, OwnedTyped, SMTT(20)
  <2>3. p[x].opened + SumFunctionOnSet(SVs(p), S) <= total
    BY <1>4 DEF Link, Covers
  <2> HIDE DEF S
  <2>4. SumFunctionOnSet(SVs(q), S) = SumFunctionOnSet(SVs(p), S)
    BY <2>1, <2>2, SumSame
  <2>5. q[x].opened + SumFunctionOnSet(SVs(q), S) <= total
    BY <1>1, <1>2, <2>3, <2>4
  <2> QED
    BY <1>1, <2>5 DEF Covers, S
<1> QED
  BY <1>3, <1>4 DEF Link, q

(* A leg of the ticket itself adds what its comment says to the total.     *)
LEMMA LinkAppend ==
  ASSUME NEW p \in Seq(Leg), NEW e \in Leg, NEW t, e.of = t,
         NEW x, NEW mo, NEW total \in Nat, NEW v \in Nat, e.mv = mo, e.opened = v,
         \A i \in Owned(p, t) : p[i].mv = mo,
         x # Len(p) + 1 => Link(p, t, x, mo, total) /\ (Mangled # {} => e.sv = v),
         x = Len(p) + 1 => (Mangled # {} => Owned(p, t) = {})
  PROVE  Link(Append(p, e), t, x, mo, total + v)
<1> DEFINE q == Append(p, e)
           n == Len(p) + 1
<1>1. /\ q \in Seq(Leg) /\ n \notin DOMAIN p /\ n \in DOMAIN q /\ q[n] = e
      /\ \A i \in DOMAIN p : i \in DOMAIN q /\ q[i] = p[i]
      /\ Owned(q, t) = Owned(p, t) \/ Owned(q, t) = Owned(p, t) \cup {n}
  BY OwnedAppend
<1> HIDE DEF q
<1>2. Owned(p, t) \in SUBSET DOMAIN p /\ IsFiniteSet(Owned(p, t))
      /\ IsFiniteSet(Owned(q, t))
  BY <1>1, OwnedTyped
<1>3. \A i \in Owned(q, t) : q[i].mv = mo
  <2> HIDE DEF n
  <2> QED
    BY <1>1, <1>2
<1>4. CASE x = n
  <2>1. Names(q, t, x) /\ q[x].mv = mo
    BY <1>1, <1>4 DEF Names
  <2>2. ASSUME x \in Mangled PROVE Covers(q, t, x, total + v)
    <3>1. Owned(q, t) \ {x} = {}
      BY <1>1, <1>4, <2>2
    <3>2. SumFunctionOnSet(SVs(q), {}) = 0
      <4>1. IsFiniteSet({}) /\ \A i \in {} : SVs(q)[i] \in Int
        BY FS_EmptySet
      <4> QED
        BY <4>1, SumOver
    <3>3. q[x].opened = v
      BY <1>1, <1>4
    <3>4. SumFunctionOnSet(SVs(q), Owned(q, t) \ {x}) = 0
      BY <3>1, <3>2
    <3> QED
      BY <3>3, <3>4 DEF Covers
  <2> HIDE DEF n
  <2>3. Link(q, t, x, mo, total + v)
    BY ONLY <1>3, <2>1, <2>2 DEF Link
  <2> QED
    BY <2>3 DEF q
<1>5. CASE x # n
  <2>1. Link(p, t, x, mo, total) /\ x \in DOMAIN p
    BY <1>5 DEF Link, Names
  <2>2. Names(q, t, x) /\ q[x].mv = mo
    BY <1>1, <2>1 DEF Link, Names
  <2>3. ASSUME x \in Mangled PROVE Covers(q, t, x, total + v)
    <3> DEFINE S == Owned(p, t) \ {x}
               R == Owned(q, t) \ {x}
    <3>1. IsFiniteSet(S) /\ S \in SUBSET DOMAIN p /\ IsFiniteSet(R)
          /\ (R = S \/ (n \in R /\ R \ {n} = S))
      BY <1>1, <1>2, <1>5, OwnedTyped, ZenonT(40)
    <3>2. \A i \in S : SVs(p)[i] \in Int /\ SVs(q)[i] = SVs(p)[i]
      <4>1. \A i \in DOMAIN p : SVs(p)[i] = p[i].sv /\ SVs(p)[i] \in Nat
        BY OwnedTyped
      <4>2. \A i \in DOMAIN q : SVs(q)[i] = q[i].sv
        BY <1>1, OwnedTyped
      <4> HIDE DEF S, R
      <4> QED
        BY <1>1, <3>1, <4>1, <4>2
    <3>3. SVs(q)[n] = v
      BY <1>1, <1>5, <2>3, OwnedTyped
    <3>4. p[x].opened + SumFunctionOnSet(SVs(p), S) <= total
      BY <2>1, <2>3 DEF Link, Covers
    <3>5. q[x].opened = p[x].opened /\ p[x].opened \in Nat
      BY <1>1, <2>1, OwnedTyped
    <3> HIDE DEF S, R, n
    <3>6. /\ SumFunctionOnSet(SVs(q), S) = SumFunctionOnSet(SVs(p), S)
          /\ SumFunctionOnSet(SVs(p), S) \in Int
      BY <3>1, <3>2, SumSame, SumOver
    <3>7. CASE R = S
      <4>1. q[x].opened + SumFunctionOnSet(SVs(q), R) <= total + v
        BY <3>4, <3>5, <3>6, <3>7
      <4> QED
        BY <4>1 DEF Covers, R
    <3>8. CASE n \in R /\ R \ {n} = S
      <4>1. \A i \in R : SVs(q)[i] \in Int
        BY <3>2, <3>3, <3>8
      <4>2. SumFunctionOnSet(SVs(q), R) = SVs(q)[n] + SumFunctionOnSet(SVs(q), R \ {n})
        BY <3>1, <3>8, <4>1, SumOver
      <4>3. SumFunctionOnSet(SVs(q), R) = v + SumFunctionOnSet(SVs(p), S)
        BY <3>3, <3>6, <3>8, <4>2
      <4>4. q[x].opened + SumFunctionOnSet(SVs(q), R) <= total + v
        BY <3>4, <3>5, <3>6, <4>3
      <4> QED
        BY <4>4 DEF Covers, R
    <3> QED
      BY <3>1, <3>7, <3>8
  <2> HIDE DEF n
  <2>4. Link(q, t, x, mo, total + v)
    BY ONLY <1>3, <2>2, <2>3 DEF Link
  <2> QED
    BY <2>4 DEF q
<1> QED
  BY <1>4, <1>5 DEF q

(* A command that only closes or changes legs leaves the links true, and   *)
(* so does the broker.                                                     *)
SameEngine ==
  /\ UNCHANGED engineVars
  /\ job # None <=> job' # None
  /\ job # None => job'.cmd = job.cmd

LEMMA OwnedShrinksAll ==
  ASSUME TypeInv, positions' \in Seq(Leg), Shrinks(positions, positions'), NEW t
  PROVE  /\ Owned(positions, t)' \in SUBSET Owned(positions, t)
         /\ Owned(positions, t) \in SUBSET DOMAIN positions
         /\ \A i \in DOMAIN positions : positions'[i].mv = positions[i].mv
         /\ \A x, mo : \A total \in Nat :
              Link(positions, t, x, mo, total) => Link(positions, t, x, mo, total)'
         /\ \A x : Names(positions, t, x) => Names(positions, t, x)'
<1>1. positions \in Seq(Leg)
  BY DEF TypeInv
<1>2. \A x : Names(positions, t, x) => Names(positions', t, x)
  BY DEF Names, Shrinks
<1>3. Owned(positions', t) \in SUBSET Owned(positions, t)
  BY <1>1, OwnedShrinks
<1>4. ASSUME NEW x, NEW mo, NEW total \in Nat, Link(positions, t, x, mo, total)
      PROVE  Link(positions', t, x, mo, total)
  BY <1>1, <1>4, LinkShrinks
<1>5. Owned(positions, t) \in SUBSET DOMAIN positions
  BY <1>1, OwnedTyped
<1>6. \A i \in DOMAIN positions : positions'[i].mv = positions[i].mv
  BY DEF Shrinks
<1> QED
  BY <1>2, <1>3, <1>4, <1>5, <1>6

(* The volumes the links speak of.                                         *)
LEMMA LinkVolumes ==
  ASSUME TypeInv, NEW t \in Tickets
  PROVE  /\ record[t] # None => record[t].slave_open_volume \in Nat
         /\ sent[t] # None /\ sent[t].action = "PARTIAL_CLOSE" =>
              /\ sent[t] \in PartialCommand
              /\ sent[t].slave_open_volume \in Nat
              /\ sent[t].new_master_volume \in Nat
              /\ sent[t].new_master_volume > 0
              /\ sent[t].master_open_volume \in Nat
              /\ sent[t].master_open_volume > 0
         /\ mvol[t] \in Nat
<1>1. record[t] # None => record[t] \in Record
  BY DEF TypeInv
<1>2. record[t] # None => record[t].slave_open_volume \in Nat
  BY <1>1 DEF Record
<1>3. \A v \in MasterVolumes : v \in Nat /\ v > 0
  BY Constants
<1>4. mvol[t] \in Nat
  BY <1>3 DEF TypeInv
<1>5. ASSUME sent[t] # None, sent[t].action = "PARTIAL_CLOSE"
      PROVE  /\ sent[t] \in PartialCommand
             /\ sent[t].slave_open_volume \in Nat
             /\ sent[t].new_master_volume \in MasterVolumes
             /\ sent[t].master_open_volume \in MasterVolumes
  <2>1. sent[t] \in Command
    BY <1>5 DEF TypeInv, SentOK
  <2>2. sent[t] \in PartialCommand
    BY <1>5, <2>1, CommandKinds
  <2> QED
    BY <2>2 DEF PartialCommand
<1> QED
  BY <1>2, <1>3, <1>4, <1>5

LEMMA TradeShrinks ==
  ASSUME TypeInv, FreshInv, OneVolume, RecordInv, SentInv, SameEngine,
         positions' \in Seq(Leg), Shrinks(positions, positions')
  PROVE  FreshInv' /\ OneVolume' /\ RecordInv' /\ SentInv'
<1>1. UNCHANGED << mvol, seen, record, sent, starting, ready >>
  BY DEF SameEngine, engineVars
<1>2. FreshInv'
  <2> SUFFICES ASSUME NEW t \in Tickets, ~ starting, mvol[t] > 0, t \notin seen,
                      record[t] = None
               PROVE  Owned(positions, t)' = {}
    BY <1>1 DEF FreshInv
  <2> QED
    BY OwnedShrinksAll DEF FreshInv
<1>3. OneVolume'
  <2> SUFFICES ASSUME NEW t \in Tickets, NEW i \in Owned(positions, t)',
                      NEW j \in Owned(positions, t)'
               PROVE  positions'[i].mv = positions'[j].mv
    BY DEF OneVolume
  <2>1. i \in Owned(positions, t) /\ j \in Owned(positions, t)
        /\ i \in DOMAIN positions /\ j \in DOMAIN positions
    BY OwnedShrinksAll
  <2>2. positions[i].mv = positions[j].mv
    BY <2>1 DEF OneVolume
  <2> QED
    BY <2>1, <2>2, OwnedShrinksAll
<1>4. RecordInv'
  <2> SUFFICES ASSUME NEW t \in Tickets, record[t] # None
               PROVE  /\ \A i \in Owned(positions, t)' :
                           positions'[i].mv = record[t].master_open_volume
                      /\ record[t].slave_ticket # 0 =>
                           Link(positions, t, record[t].slave_ticket,
                                record[t].master_open_volume,
                                record[t].slave_open_volume)'
    BY <1>1 DEF RecordInv
  <2>1. /\ \A i \in Owned(positions, t) : positions[i].mv = record[t].master_open_volume
        /\ record[t].slave_ticket # 0 =>
             Link(positions, t, record[t].slave_ticket, record[t].master_open_volume,
                  record[t].slave_open_volume)
    BY DEF RecordInv
  <2>2. record[t].slave_open_volume \in Nat
    BY LinkVolumes
  <2>3. \A i \in Owned(positions, t)' : positions'[i].mv = record[t].master_open_volume
    BY <2>1, OwnedShrinksAll
  <2>4. record[t].slave_ticket # 0 =>
          Link(positions', t, record[t].slave_ticket, record[t].master_open_volume,
               record[t].slave_open_volume)
    BY <2>1, <2>2, LinkShrinks DEF TypeInv
  <2> QED
    BY <1>1, <2>3, <2>4
<1>5. SentInv'
  <2> SUFFICES ASSUME NEW t \in Tickets, sent[t] # None
               PROVE  /\ t \in seen
                      /\ sent[t].action = "OPEN" =>
                           /\ sent[t].master_volume = mvol[t] /\ sent[t].volume = mvol[t]
                           /\ record[t].slave_ticket = 0
                           /\ record[t].master_open_volume = mvol[t]
                           /\ (job' # None => job'.cmd.ticket # t) =>
                                Owned(positions', t) = {}
                      /\ sent[t].action = "PARTIAL_CLOSE" =>
                           /\ sent[t].new_master_volume = mvol[t]
                           /\ Link(positions', t, sent[t].slave_ticket,
                                   sent[t].master_open_volume,
                                   sent[t].slave_open_volume)
                      /\ sent[t].action = "CLOSE" =>
                           mvol[t] = 0 /\ Names(positions', t, sent[t].slave_ticket)
    BY <1>1 DEF SentInv
  <2>1. /\ t \in seen
        /\ sent[t].action = "OPEN" =>
             /\ sent[t].master_volume = mvol[t] /\ sent[t].volume = mvol[t]
             /\ record[t].slave_ticket = 0 /\ record[t].master_open_volume = mvol[t]
             /\ (job # None => job.cmd.ticket # t) => Owned(positions, t) = {}
        /\ sent[t].action = "PARTIAL_CLOSE" =>
             /\ sent[t].new_master_volume = mvol[t]
             /\ Link(positions, t, sent[t].slave_ticket, sent[t].master_open_volume,
                     sent[t].slave_open_volume)
        /\ sent[t].action = "CLOSE" =>
             mvol[t] = 0 /\ Names(positions, t, sent[t].slave_ticket)
    BY DEF SentInv
  <2>2. (job' # None => job'.cmd.ticket # t) => (job # None => job.cmd.ticket # t)
    BY DEF SameEngine
  <2>3. Owned(positions', t) \in SUBSET Owned(positions, t)
    BY OwnedShrinks DEF TypeInv
  <2>4. sent[t].action = "PARTIAL_CLOSE" =>
          Link(positions', t, sent[t].slave_ticket, sent[t].master_open_volume,
               sent[t].slave_open_volume)
    BY <2>1, LinkVolumes, LinkShrinks DEF TypeInv
  <2>5. sent[t].action = "CLOSE" => Names(positions', t, sent[t].slave_ticket)
    BY <2>1 DEF Names, Shrinks
  <2> QED
    BY <2>1, <2>2, <2>3, <2>4, <2>5
<1> QED
  BY <1>2, <1>3, <1>4, <1>5

LEMMA BrokerClosesTrade ==
  ASSUME TypeInv, TradeInv, NEW j, BrokerCloses(j)
  PROVE  TradeInv'
<1>1. /\ positions' \in Seq(Leg) /\ SameLegs /\ DOMAIN positions' = DOMAIN positions
      /\ positions'[j].ended /\ job' = job /\ UNCHANGED engineVars
      /\ \A i \in DOMAIN positions : i # j => positions'[i] = positions[i]
  BY BrokerClosesLegs
<1>2. Shrinks(positions, positions') /\ SameEngine
  BY <1>1 DEF SameLegs, Shrinks, SameEngine
<1>3. FreshInv' /\ OneVolume' /\ RecordInv' /\ SentInv'
  BY <1>1, <1>2, TradeShrinks DEF TradeInv
<1>4. LegInv'
  <2> SUFFICES ASSUME NEW i \in DOMAIN positions
               PROVE  /\ positions'[i].opened <= positions'[i].sv
                      /\ ~ positions'[i].ended =>
                           Keeps(positions'[i].volume, positions'[i].mv,
                                 positions'[i].opened, mvol[positions'[i].of])
    BY <1>1 DEF LegInv, engineVars
  <2>1. /\ positions[i].opened <= positions[i].sv
        /\ ~ positions[i].ended =>
             Keeps(positions[i].volume, positions[i].mv, positions[i].opened,
                   mvol[positions[i].of])
    BY DEF TradeInv, LegInv
  <2>2. CASE i = j
    BY <1>1, <2>1, <2>2 DEF SameLegs
  <2>3. CASE i # j
    BY <1>1, <2>1, <2>3
  <2> QED
    BY <2>2, <2>3
<1>5. OpeningInv'
  <2> SUFFICES ASSUME job # None, job.cmd.action = "OPEN"
               PROVE  LET t == job.cmd.ticket
                      IN  /\ job.filled > 0 => job.first # 0
                          /\ job.first # 0 =>
                               Link(positions', t, job.first, job.cmd.master_volume,
                                    job.filled)
                          /\ Mangled # {} /\ job.first = 0 =>
                               Owned(positions', t) = {} /\ job.filled = 0
                          /\ ~ job.split => \A k \in DOMAIN job.todo :
                               /\ job.todo[k].volume <= job.cmd.volume
                               /\ Hedging => job.todo[k].volume = job.cmd.volume
    BY <1>1 DEF OpeningInv
  <2> DEFINE t == job.cmd.ticket
  <2>1. /\ job.filled > 0 => job.first # 0
        /\ job.first # 0 =>
             Link(positions, t, job.first, job.cmd.master_volume, job.filled)
        /\ Mangled # {} /\ job.first = 0 => Owned(positions, t) = {} /\ job.filled = 0
        /\ ~ job.split => \A k \in DOMAIN job.todo :
             /\ job.todo[k].volume <= job.cmd.volume
             /\ Hedging => job.todo[k].volume = job.cmd.volume
    BY DEF TradeInv, OpeningInv
  <2>2. job.filled \in Nat /\ positions \in Seq(Leg)
    BY JobTyped DEF TypeInv
  <2>3. Owned(positions', t) \in SUBSET Owned(positions, t)
    BY <1>1, <1>2, <2>2, OwnedShrinks
  <2>4. job.first # 0 =>
          Link(positions', t, job.first, job.cmd.master_volume, job.filled)
    BY <1>1, <1>2, <2>1, <2>2, LinkShrinks
  <2> QED
    BY <2>1, <2>3, <2>4
<1>6. ClosingInv'
  <2> SUFFICES ASSUME job # None
               PROVE  ClosingInv'
    BY <1>1 DEF ClosingInv
  <2>1. ASSUME job.cmd.action # "OPEN", NEW k \in DOMAIN job.todo
        PROVE  LET i == job.todo[k].leg
               IN  /\ i \in DOMAIN positions /\ positions'[i].of = positions[i].of
                   /\ ~ positions'[i].ended =>
                        ~ positions[i].ended /\ positions'[i] = positions[i]
    <3>1. job.todo[k].leg \in DOMAIN positions
      BY <2>1 DEF TypeInv, JobOK
    <3> QED
      BY <1>1, <3>1 DEF SameLegs
  <2> QED
    BY <1>1, <2>1 DEF TradeInv, ClosingInv
<1> QED
  BY <1>3, <1>4, <1>5, <1>6 DEF TradeInv

(* The share a partial close computes for a leg is not below what the leg  *)
(* was opened with, ...                                                    *)
LEMMA ShareCovers ==
  ASSUME positions \in Seq(Leg), LegInv, NEW cmd \in PartialCommand,
         Link(positions, cmd.ticket, cmd.slave_ticket, cmd.master_open_volume,
              cmd.slave_open_volume),
         NEW i \in FindLegs(cmd, LiveLegs)
  PROVE  /\ positions[i].of = cmd.ticket /\ positions[i].mv = cmd.master_open_volume
         /\ ShareOf(i, cmd, FindLegs(cmd, LiveLegs)) \in Int
         /\ positions[i].opened <= ShareOf(i, cmd, FindLegs(cmd, LiveLegs))
<1> DEFINE t == cmd.ticket
           x == cmd.slave_ticket
           own == Owned(positions, t)
           legs == FindLegs(cmd, LiveLegs)
<1>1. own = Commented(t, LiveLegs) /\ own \in SUBSET DOMAIN positions
  BY DEF Owned, Commented, LiveLegs, Intact
<1>2. legs = own \cup (LiveLegs \cap {x})
  BY <1>1 DEF FindLegs
<1>3. i \in own \/ i = x
  BY <1>2
<1>4. /\ i \in DOMAIN positions /\ positions[i].of = t
      /\ positions[i].mv = cmd.master_open_volume
  BY <1>3 DEF Owned, Link, Names
<1>5. positions[i].opened <= positions[i].sv /\ positions[i].opened \in Nat
      /\ positions[i].sv \in Nat
  BY <1>4, LegTyped DEF LegInv
<1>6. CASE i \notin Mangled
  <2>1. ShareOf(i, cmd, legs) = positions[i].sv
    BY <1>4, <1>6 DEF ShareOf, Intact, CommentSV
  <2> QED
    BY <1>4, <1>5, <2>1
<1>7. CASE i \in Mangled
  <2>1. i = x /\ i \notin own
    BY <1>3, <1>7 DEF Owned
  <2>2. {j \in legs \ {i} : Intact(j)} = own \ {i}
    <3>1. \A j \in own : j \notin Mangled
      BY DEF Owned
    <3> QED
      BY <1>2, <2>1, <3>1 DEF Intact
  <2>3. ShareOf(i, cmd, legs)
          = cmd.slave_open_volume - Sum(CommentSV, own \ {i})
    <3>1. ShareOf(i, cmd, legs)
            = cmd.slave_open_volume - Sum(CommentSV, {j \in legs \ {i} : Intact(j)})
      BY <1>7 DEF ShareOf, Intact
    <3> HIDE DEF own, legs
    <3> QED
      BY <2>2, <3>1
  <2>4. Sum(CommentSV, own \ {i}) = SumFunctionOnSet(SVs(positions), own \ {i})
    BY DEF Sum, CommentSV, SVs
  <2>5. positions[i].opened + SumFunctionOnSet(SVs(positions), own \ {i})
          <= cmd.slave_open_volume
    <3>1. Covers(positions, t, x, cmd.slave_open_volume)
      BY <1>7, <2>1 DEF Link
    <3> QED
      BY <2>1, <3>1 DEF Covers
  <2>6. Sum(CommentSV, own \ {i}) \in Nat
    <3>1. own \ {i} \in SUBSET DOMAIN positions
      BY <1>1
    <3> HIDE DEF own
    <3> QED
      BY <3>1, SumsOfLegs
  <2>7. cmd.slave_open_volume \in Nat
    BY DEF PartialCommand
  <2> HIDE DEF own
  <2>8. /\ ShareOf(i, cmd, legs) \in Int
        /\ positions[i].opened <= ShareOf(i, cmd, legs)
    BY <1>5, <2>3, <2>4, <2>5, <2>6, <2>7
  <2> QED
    BY <1>4, <2>8
<1> QED
  BY <1>6, <1>7

(* ... so that what is closed of the leg leaves it its fraction.           *)
LEMMA FloorKeeps ==
  ASSUME NEW vol \in Nat, NEW mo \in Nat, mo > 0, NEW new \in Nat,
         NEW step \in Nat, step > 0, NEW opened \in Nat,
         NEW share \in Int, opened <= share,
         NEW e \in Int, e <= ((vol * mo - share * new) \div (mo * step)) * step
  PROVE  Keeps(vol - e, mo, opened, new)
<1> DEFINE a == vol * mo - share * new
           d == mo * step
           q == a \div d
<1>1. a \in Int /\ d \in Int /\ d > 0
  BY TimesMono
<1>2. q \in Int
  <2> HIDE DEF a, d
  <2> QED
    BY <1>1, DivisionFacts
<1>3. q * d <= a
  <2>1. q <= a \div d <=> q * d <= a
    <3> HIDE DEF a, d, q
    <3> QED
      BY <1>1, <1>2, FitsQuotient
  <2>2. q <= a \div d
    <3> HIDE DEF a, d
    <3> QED
      BY <1>2
  <2> QED
    BY <2>1, <2>2
<1>4. e <= q * step
  OBVIOUS
<1> HIDE DEF q, a, d
<1>5. e * mo <= (q * step) * mo
  <2>1. q * step \in Int
    BY <1>2
  <2> DEFINE b == q * step
  <2> HIDE DEF b
  <2> QED
    BY <1>4, <2>1, TimesMono DEF b
<1>6. (q * step) * mo = q * d
  BY <1>2 DEF d
<1>7. opened * new <= share * new
  BY TimesMono
<1>8. e * mo <= vol * mo - share * new
  <2>1. (q * step) * mo \in Int
    BY <1>2
  <2>2. e * mo \in Int /\ q * d \in Int
    BY <1>1, <1>2
  <2> QED
    BY <1>1, <1>3, <1>5, <1>6, <2>1, <2>2 DEF a
<1>9. (vol - e) * mo = vol * mo - e * mo
  OBVIOUS
<1>10. (vol - e) * mo >= opened * new
  <2>1. /\ vol * mo \in Int /\ e * mo \in Int /\ share * new \in Int
        /\ opened * new \in Int
    OBVIOUS
  <2> QED
    BY <1>7, <1>8, <1>9, <2>1
<1> QED
  BY <1>10 DEF Keeps

LEMMA ExcessKeeps ==
  ASSUME positions \in Seq(Leg), LegInv, NEW cmd \in PartialCommand,
         Link(positions, cmd.ticket, cmd.slave_ticket, cmd.master_open_volume,
              cmd.slave_open_volume),
         NEW i \in FindLegs(cmd, LiveLegs)
  PROVE  Keeps(positions[i].volume - Excess(i, cmd, FindLegs(cmd, LiveLegs)),
               positions[i].mv, positions[i].opened, cmd.new_master_volume)
<1> DEFINE legs  == FindLegs(cmd, LiveLegs)
           share == ShareOf(i, cmd, legs)
           mo    == cmd.master_open_volume
           new   == cmd.new_master_volume
           vol   == positions[i].volume
           op    == positions[i].opened
           step  == Info.volume_step
           fl    == ((vol * mo - share * new) \div (mo * step)) * step
           e     == Excess(i, cmd, legs)
<1>1. positions[i].mv = mo /\ share \in Int /\ op <= share
  BY ShareCovers
<1>2. i \in DOMAIN positions /\ legs \in SUBSET DOMAIN positions
  BY DEF FindLegs, Commented, LiveLegs
<1>3. vol \in Nat /\ op \in Nat
  BY <1>2, LegTyped
<1>4. mo \in Nat /\ mo > 0 /\ new \in Nat /\ step \in Nat /\ step > 0
  <2>1. mo \in MasterVolumes /\ new \in MasterVolumes
    BY DEF PartialCommand
  <2>2. \A u \in MasterVolumes : u \in Nat /\ u > 0
    BY Constants
  <2> HIDE DEF mo, new
  <2> QED
    BY <2>1, <2>2, Constants
<1>5. e \in Int
  BY <1>2, ExcessInt
<1>6. CASE share <= 0
  <2>1. e = 0
    BY <1>6 DEF Excess
  <2>2. op = 0
    BY <1>1, <1>3, <1>6
  <2> HIDE DEF e, vol, op, mo, new
  <2>3. Keeps(vol - e, mo, op, new)
    <3>1. vol - e = vol /\ vol * mo >= 0 /\ op * new = 0
      BY <1>3, <1>4, <2>1, <2>2
    <3> QED
      BY <3>1 DEF Keeps
  <2> QED
    BY <1>1, <2>3 DEF e, vol, op, mo, new
<1>7. CASE ~ (share <= 0)
  <2>1. e = MinOf(vol, fl)
    BY <1>7 DEF Excess
  <2>2. fl \in Int
    <3> DEFINE a == vol * mo - share * new
               d == mo * step
    <3>1. a \in Int /\ d \in Int /\ d > 0
      <4> HIDE DEF vol, mo, share, new, step
      <4> QED
        BY <1>1, <1>3, <1>4
    <3>2. a \div d \in Int
      <4> HIDE DEF a, d
      <4> QED
        BY <3>1, DivisionFacts
    <3> DEFINE q == a \div d
    <3> HIDE DEF q, step
    <3> QED
      BY <1>4, <3>2 DEF q
  <2> HIDE DEF fl, vol, e
  <2>3. e <= fl
    BY <1>3, <2>1, <2>2 DEF MinOf
  <2> HIDE DEF share, mo, new, op, step
  <2>4. Keeps(vol - e, mo, op, new)
    BY <1>1, <1>3, <1>4, <1>5, <2>3, FloorKeeps DEF fl
  <2> QED
    BY <1>1, <2>4 DEF e, vol, op, mo, new, share
<1> QED
  BY <1>6, <1>7

LEMMA ReceiveTrade ==
  ASSUME ~ ScansFail, SplittableSymbol, TypeInv, TradeInv,
         NEW t \in Tickets, Receive(t)
  PROVE  TradeInv'
<1> DEFINE cmd  == sent[t]
           legs == IF cmd.action = "OPEN" THEN {} ELSE FindLegs(cmd, LiveLegs)
<1>1. PICK todo \in Orders(cmd, legs) :
        job' = [cmd |-> cmd, todo |-> todo, tries |-> 0,
                split |-> Len(todo) > 1, filled |-> 0,
                first |-> 0, before |-> Len(positions),
                failed |-> cmd.action \in {"MODIFY", "PARTIAL_CLOSE"} /\ legs = {}]
  BY DEF Receive, Scans
<1>2. /\ job'.cmd = cmd /\ job'.todo = todo /\ job'.split = (Len(todo) > 1)
      /\ job'.filled = 0 /\ job'.first = 0
  BY <1>1
<1>3. /\ cmd \in Command /\ cmd # None /\ cmd.ticket = t /\ job = None
      /\ positions \in Seq(Leg) /\ job' # None
  <2>1. job' # None
    <3>1. JobOK' /\ TypeInv'
      BY ReceiveType DEF TypeInv
    <3>2. job' \in Job
      <4>1. legs \in SUBSET DOMAIN positions
        BY DEF FindLegs, Commented, LiveLegs
      <4>2. cmd \in Command /\ positions \in Seq(Leg) /\ Len(positions) \in Nat
        BY DEF Receive, TypeInv, SentOK
      <4>3. todo \in Seq([leg : Nat, volume : Nat])
        BY <4>1, <4>2, OrdersTyped
      <4>4. 0 \in 0..(RetryCount - 1)
        BY Constants
      <4> HIDE DEF cmd, legs
      <4> QED
        BY <1>1, <4>2, <4>3, <4>4 DEF Job
    <3> QED
      BY <3>2, Constants
  <2> QED
    BY <2>1 DEF Receive, TypeInv, SentOK
<1>4. UNCHANGED << mvol, seen, record, sent, starting, ready, positions >>
  BY DEF Receive, engineVars
<1>5. LegInv' /\ FreshInv' /\ OneVolume' /\ RecordInv'
  BY <1>4 DEF TradeInv, LegInv, FreshInv, OneVolume, RecordInv
<1>6. SentInv'
  <2>1. SentInv
    BY DEF TradeInv
  <2> QED
    BY <1>3, <1>4, <2>1 DEF SentInv
<1>7. OpeningInv'
  <2> SUFFICES ASSUME cmd.action = "OPEN" PROVE OpeningInv'
    BY <1>2 DEF OpeningInv
  <2>1. Owned(positions, t) = {}
    BY <1>3 DEF TradeInv, SentInv
  <2>2. cmd \in OpenCommand /\ cmd.volume \in MasterVolumes
    <3>1. cmd \in OpenCommand
      BY <1>3, CommandKinds
    <3> QED
      BY <3>1 DEF OpenCommand
  <2> DEFINE c == Chunks(cmd.volume)
  <2>3. /\ c \in Seq(Nat) /\ Len(c) <= 1 => \A k \in 1..Len(c) :
             c[k] <= cmd.volume /\ (Hedging => c[k] = cmd.volume)
    BY <2>2, ChunksRight
  <2>4. todo = [k \in DOMAIN c |-> Order(0, c[k])]
    BY <1>1 DEF Orders
  <2>5. c \in Seq(Nat)
    BY <2>2, ChunksRight
  <2> HIDE DEF c
  <2>6. DOMAIN todo = 1..Len(c) /\ Len(todo) = Len(c)
        /\ \A k \in DOMAIN todo : todo[k].volume = c[k]
    BY <2>4, <2>5 DEF Order
  <2>7. ~ (Len(todo) > 1) => \A k \in DOMAIN todo :
          todo[k].volume <= cmd.volume /\ (Hedging => todo[k].volume = cmd.volume)
    <3>1. Len(c) \in Nat
      BY <2>5
    <3>2. ~ (Len(todo) > 1) => Len(c) <= 1
      BY <2>6, <3>1
    <3> QED
      BY <2>3, <2>5, <2>6, <3>2
  <2>8. /\ job'.cmd.ticket = t /\ job'.filled = 0 /\ job'.first = 0
        /\ positions' = positions
    BY <1>2, <1>3, <1>4
  <2>9. ~ job'.split => \A k \in DOMAIN job'.todo :
          /\ job'.todo[k].volume <= job'.cmd.volume
          /\ Hedging => job'.todo[k].volume = job'.cmd.volume
    BY <1>2, <2>7
  <2>10. Mangled # {} => Owned(positions', t) = {}
    BY <2>1, <2>8
  <2> HIDE DEF cmd
  <2> QED
    BY <2>8, <2>9, <2>10 DEF OpeningInv
<1>8. ClosingInv'
  <2>1. ASSUME cmd.action \in {"PARTIAL_CLOSE", "CLOSE"}, NEW k \in DOMAIN todo
        PROVE  /\ todo[k].leg \in FindLegs(cmd, LiveLegs)
               /\ todo[k].volume = VolumeFor(todo[k].leg, cmd, legs)
               /\ todo[k].leg \in DOMAIN positions
               /\ positions[todo[k].leg].of = t
    <3>1. legs = FindLegs(cmd, LiveLegs) /\ legs \in SUBSET DOMAIN positions
          /\ cmd.action # "OPEN"
      BY <2>1 DEF FindLegs, Commented, LiveLegs
    <3>2. todo[k].leg \in Due(cmd, legs) /\ todo[k].volume = VolumeFor(todo[k].leg, cmd, legs)
      <4> HIDE DEF cmd, legs
      <4> QED
        BY <1>3, <2>1, <3>1, OrdersAre
    <3>3. todo[k].leg \in legs
      BY <3>2 DEF Due
    <3>4. Names(positions, t, cmd.slave_ticket)
      BY <1>3, <2>1 DEF TradeInv, SentInv, Link
    <3>5. positions[todo[k].leg].of = t
      BY <1>3, <3>1, <3>3, <3>4 DEF FindLegs, Commented, Names
    <3> QED
      BY <3>1, <3>2, <3>3, <3>5
  <2>2. ASSUME cmd.action = "PARTIAL_CLOSE", NEW k \in DOMAIN todo
        PROVE  LET i == todo[k].leg
               IN  Keeps(positions[i].volume - todo[k].volume, positions[i].mv,
                         positions[i].opened, cmd.new_master_volume)
    <3>1. /\ cmd \in PartialCommand
          /\ Link(positions, cmd.ticket, cmd.slave_ticket, cmd.master_open_volume,
                  cmd.slave_open_volume)
      BY <1>3, <2>2, CommandKinds DEF TradeInv, SentInv
    <3>2. /\ todo[k].leg \in FindLegs(cmd, LiveLegs)
          /\ todo[k].volume = Excess(todo[k].leg, cmd, FindLegs(cmd, LiveLegs))
      BY <2>1, <2>2 DEF VolumeFor
    <3> HIDE DEF cmd, legs
    <3>3. Keeps(positions[todo[k].leg].volume
                  - Excess(todo[k].leg, cmd, FindLegs(cmd, LiveLegs)),
                positions[todo[k].leg].mv, positions[todo[k].leg].opened,
                cmd.new_master_volume)
      BY <1>3, <3>1, <3>2, ExcessKeeps DEF TradeInv
    <3> QED
      BY <3>2, <3>3
  <2>3. ASSUME cmd.action = "PARTIAL_CLOSE"
        PROVE  \A k, m \in DOMAIN todo : todo[k].leg = todo[m].leg => k = m
    <3>1. legs \in SUBSET DOMAIN positions /\ cmd.action # "OPEN"
      BY <2>3 DEF FindLegs, Commented, LiveLegs
    <3> HIDE DEF cmd, legs
    <3> QED
      BY <1>3, <3>1, OrdersAre
  <2> HIDE DEF cmd, legs
  <2> QED
    BY <1>2, <1>3, <1>4, <2>1, <2>2, <2>3 DEF ClosingInv
<1> QED
  BY <1>5, <1>6, <1>7, <1>8 DEF TradeInv

LEMMA RestartTrade ==
  ASSUME ~ EarlyLoss, TypeInv, TradeInv, NEW what \in Restarts, Restart(what)
  PROVE  TradeInv'
<1>1. /\ record' = [t \in Tickets |-> None]
      /\ sent' = [t \in Tickets |-> None] /\ job' = None
      /\ UNCHANGED << mvol, positions >>
  BY DEF Restart
<1>2. LegInv' /\ OneVolume'
  BY <1>1 DEF TradeInv, LegInv, OneVolume
<1>3. RecordInv' /\ SentInv' /\ OpeningInv' /\ ClosingInv'
  BY <1>1 DEF RecordInv, SentInv, OpeningInv, ClosingInv
<1>4. FreshInv'
  <2> SUFFICES ASSUME ~ starting', NEW t \in Tickets, mvol[t] > 0, t \notin seen'
               PROVE  Owned(positions, t) = {}
    BY <1>1 DEF FreshInv
  <2>1. what = "worker" /\ ~ starting /\ SnapshotRead /\ seen' = seen
    BY WorkerConstants DEF Restart
  <2>2. LegsOf(t) = {}
    BY <2>1 DEF SnapshotRead
  <2> QED
    BY <2>2 DEF LegsOf, LiveLegs, Owned
<1> QED
  BY <1>2, <1>3, <1>4 DEF TradeInv

LEMMA RecoverTrade ==
  ASSUME ~ ScansFail, TypeInv, TradeInv, Recover
  PROVE  TradeInv'
<1>1. /\ ~ ready /\ UNCHANGED << mvol, seen, sent, job, positions >>
  BY DEF Recover
<1>2. \A t \in Tickets : record[t] # None => record'[t] = record[t]
  BY RecoverRecords
<1>3. job = None
  BY <1>1 DEF TypeInv
<1>4. \A t \in Tickets : Commented(t, LiveLegs) = Owned(positions, t)
  BY DEF Commented, LiveLegs, Intact, Owned
<1>5. \A t \in Tickets : record[t] = None =>
        LET legs == Owned(positions, t)
        IN  /\ legs = {} => record'[t] = None
            /\ legs # {} =>
                 /\ record'[t] \in Record /\ record'[t].slave_ticket \in legs
                 /\ record'[t].master_open_volume
                      = positions[record'[t].slave_ticket].mv
  <2>1. Scans = {LiveLegs}
    BY DEF Scans
  <2> QED
    BY <1>4, <2>1, RecoverRecords
<1>6. LegInv' /\ OneVolume' /\ OpeningInv' /\ ClosingInv'
  BY <1>1, <1>3 DEF TradeInv, LegInv, OneVolume, OpeningInv, ClosingInv
<1>9. SentInv'
  <2>1. \A t \in Tickets : sent[t] # None /\ sent[t].action = "OPEN" =>
          record'[t] = record[t]
    BY <1>2, Constants DEF TypeInv, SentOK
  <2> QED
    BY <1>1, <1>3, <2>1 DEF TradeInv, SentInv
<1>7. FreshInv'
  <2>1. \A t \in Tickets : record'[t] = None => Owned(positions, t) = {}
    BY <1>2, <1>5, Constants
  <2> QED
    BY <1>1, <2>1 DEF FreshInv
<1>8. RecordInv'
  <2> SUFFICES ASSUME NEW t \in Tickets, record'[t] # None
               PROVE  /\ \A i \in Owned(positions, t) :
                           positions[i].mv = record'[t].master_open_volume
                      /\ record'[t].slave_ticket # 0 =>
                           Link(positions, t, record'[t].slave_ticket,
                                record'[t].master_open_volume,
                                record'[t].slave_open_volume)
    BY <1>1 DEF RecordInv
  <2>4. CASE record[t] # None
    BY <1>2, <2>4 DEF TradeInv, RecordInv
  <2> SUFFICES ASSUME record[t] = None
               PROVE  /\ \A i \in Owned(positions, t) :
                           positions[i].mv = record'[t].master_open_volume
                      /\ Link(positions, t, record'[t].slave_ticket,
                              record'[t].master_open_volume,
                              record'[t].slave_open_volume)
    BY <2>4
  <2> DEFINE x == record'[t].slave_ticket
  <2>1. x \in Owned(positions, t)
        /\ record'[t].master_open_volume = positions[x].mv
    BY <1>5
  <2> HIDE DEF x
  <2>2. \A i \in Owned(positions, t) : positions[i].mv = positions[x].mv
    BY <2>1 DEF TradeInv, OneVolume
  <2>3. x \notin Mangled /\ Names(positions, t, x)
    BY <2>1 DEF Owned, Names
  <2> QED
    BY <2>1, <2>2, <2>3 DEF Link, x
<1> QED
  BY <1>6, <1>7, <1>8, <1>9 DEF TradeInv

(* What the engine does for t leaves the other tickets' commands as they   *)
(* were: only their own master volume and record matter to them.           *)
LEMMA SendTrade ==
  ASSUME TypeInv, TradeInv, NEW t \in Tickets,
         UNCHANGED << starting, ready, job, positions >>,
         \A u \in Tickets : u # t =>
           /\ mvol'[u] = mvol[u] /\ record'[u] = record[u] /\ sent'[u] = sent[u]
           /\ u \in seen' <=> u \in seen,
         t \in seen', mvol'[t] \in Nat, mvol'[t] <= mvol[t],
         record'[t] # None =>
           /\ \A i \in Owned(positions, t) :
                positions[i].mv = record'[t].master_open_volume
           /\ record'[t].slave_ticket # 0 =>
                Link(positions, t, record'[t].slave_ticket,
                     record'[t].master_open_volume, record'[t].slave_open_volume),
         sent'[t] # None =>
           /\ sent'[t].action = "OPEN" =>
                /\ sent'[t].master_volume = mvol'[t] /\ sent'[t].volume = mvol'[t]
                /\ record'[t].slave_ticket = 0
                /\ record'[t].master_open_volume = mvol'[t]
                /\ Owned(positions, t) = {}
           /\ sent'[t].action = "PARTIAL_CLOSE" =>
                /\ sent'[t].new_master_volume = mvol'[t]
                /\ Link(positions, t, sent'[t].slave_ticket,
                        sent'[t].master_open_volume, sent'[t].slave_open_volume)
           /\ sent'[t].action = "CLOSE" =>
                mvol'[t] = 0 /\ Names(positions, t, sent'[t].slave_ticket)
  PROVE  TradeInv'
<1>1. positions' = positions /\ job' = job /\ starting' = starting
  OBVIOUS
<1>2. LegInv'
  <2> SUFFICES ASSUME NEW i \in DOMAIN positions
               PROVE  /\ positions[i].opened <= positions[i].sv
                      /\ ~ positions[i].ended =>
                           Keeps(positions[i].volume, positions[i].mv,
                                 positions[i].opened, mvol'[positions[i].of])
    BY <1>1 DEF LegInv
  <2> DEFINE u == positions[i].of
             op == positions[i].opened
  <2>1. /\ positions[i].opened <= positions[i].sv
        /\ ~ positions[i].ended =>
             Keeps(positions[i].volume, positions[i].mv, op, mvol[u])
    BY DEF TradeInv, LegInv
  <2>2. u \in Tickets /\ op \in Nat /\ positions[i].volume \in Nat
        /\ positions[i].mv \in Nat
    BY LegTyped DEF TypeInv
  <2>3. mvol[u] \in Nat /\ mvol'[u] \in Nat /\ mvol'[u] <= mvol[u]
    BY <2>2, LinkVolumes
  <2> HIDE DEF u, op
  <2>4. op * mvol'[u] <= op * mvol[u]
    BY <2>2, <2>3, TimesMono
  <2>5. ~ positions[i].ended =>
          Keeps(positions[i].volume, positions[i].mv, op, mvol'[u])
    <3> DEFINE a == positions[i].volume * positions[i].mv
               b == op * mvol[u]
               d == op * mvol'[u]
    <3>1. a \in Int /\ b \in Int /\ d \in Int
      BY <2>2, <2>3
    <3>2. ~ positions[i].ended => (ClosesAnswered => a >= b)
      BY <2>1 DEF Keeps
    <3>3. d <= b
      BY <2>4
    <3> HIDE DEF a, b, d
    <3>4. ~ positions[i].ended => (ClosesAnswered => a >= d)
      BY <3>1, <3>2, <3>3
    <3> QED
      BY <3>4 DEF Keeps, a, d
  <2> QED
    BY <2>1, <2>5 DEF u, op
<1>3. FreshInv'
  <2>1. FreshInv
    BY DEF TradeInv
  <2> QED
    BY <1>1, <2>1 DEF FreshInv
<1>4. OneVolume' /\ OpeningInv' /\ ClosingInv'
  BY <1>1 DEF TradeInv, OneVolume, OpeningInv, ClosingInv
<1>5. RecordInv'
  <2>1. RecordInv
    BY DEF TradeInv
  <2> QED
    BY <1>1, <2>1 DEF RecordInv
<1>6. SentInv'
  <2> SUFFICES ASSUME NEW u \in Tickets, sent'[u] # None
               PROVE  /\ u \in seen'
                      /\ sent'[u].action = "OPEN" =>
                           /\ sent'[u].master_volume = mvol'[u]
                           /\ sent'[u].volume = mvol'[u]
                           /\ record'[u].slave_ticket = 0
                           /\ record'[u].master_open_volume = mvol'[u]
                           /\ (job # None => job.cmd.ticket # u) =>
                                Owned(positions, u) = {}
                      /\ sent'[u].action = "PARTIAL_CLOSE" =>
                           /\ sent'[u].new_master_volume = mvol'[u]
                           /\ Link(positions, u, sent'[u].slave_ticket,
                                   sent'[u].master_open_volume,
                                   sent'[u].slave_open_volume)
                      /\ sent'[u].action = "CLOSE" =>
                           mvol'[u] = 0 /\ Names(positions, u, sent'[u].slave_ticket)
    BY <1>1 DEF SentInv
  <2>1. CASE u = t
    BY <2>1
  <2>2. CASE u # t
    <3>1. SentInv
      BY DEF TradeInv
    <3> QED
      BY <2>2, <3>1 DEF SentInv
  <2> QED
    BY <2>1, <2>2
<1> QED
  BY <1>2, <1>3, <1>4, <1>5, <1>6 DEF TradeInv

LEMMA SendOpenTrade ==
  ASSUME TypeInv, TradeInv, NEW t \in Tickets, SendOpen(t)
  PROVE  TradeInv'
<1>1. /\ Hears(t) /\ t \notin seen /\ mvol[t] > 0 /\ seen' = seen \cup {t}
      /\ UNCHANGED << mvol, starting, ready, job, positions >>
  BY DEF SendOpen
<1>2. mvol'[t] \in Nat /\ mvol'[t] <= mvol[t] /\ sent[t] = None
  BY <1>1, LinkVolumes DEF Hears
<1>3. CASE record[t] = None
  <2> DEFINE rec == [slave_ticket |-> 0, master_open_volume |-> mvol[t],
                     slave_open_volume |-> mvol[t]]
  <2>1. PICK l \in Levels :
          sent' = [sent EXCEPT ![t] =
            [action |-> "OPEN", ticket |-> t, volume |-> mvol[t],
             master_volume |-> mvol[t], sltp |-> l]]
    BY <1>3 DEF SendOpen
  <2>2. record' = [record EXCEPT ![t] = rec]
    BY <1>3 DEF SendOpen
  <2>3. /\ sent'[t] = [action |-> "OPEN", ticket |-> t, volume |-> mvol[t],
                       master_volume |-> mvol[t], sltp |-> l]
        /\ record'[t] = rec
        /\ \A u \in Tickets : u # t => record'[u] = record[u] /\ sent'[u] = sent[u]
    BY <2>1, <2>2 DEF TypeInv, SentOK
  <2>4. Owned(positions, t) = {}
    BY <1>1, <1>3 DEF TradeInv, FreshInv, Hears
  <2>5. /\ rec.slave_ticket = 0 /\ rec.master_open_volume = mvol[t]
        /\ sent'[t].action = "OPEN" /\ sent'[t].volume = mvol[t]
        /\ sent'[t].master_volume = mvol[t]
    BY <2>3
  <2> HIDE DEF rec
  <2> QED
    BY <1>1, <1>2, <2>3, <2>4, <2>5, SendTrade
<1>4. CASE record[t] # None
  <2>1. record' = record /\ sent' = sent
    BY <1>4 DEF SendOpen
  <2>2. /\ \A i \in Owned(positions, t) : positions[i].mv = record[t].master_open_volume
        /\ record[t].slave_ticket # 0 =>
             Link(positions, t, record[t].slave_ticket, record[t].master_open_volume,
                  record[t].slave_open_volume)
    BY <1>4 DEF TradeInv, RecordInv
  <2> QED
    BY <1>1, <1>2, <2>1, <2>2, SendTrade
<1> QED
  BY <1>3, <1>4

LEMMA RecordLinks ==
  ASSUME TradeInv, NEW t \in Tickets
  PROVE  record[t] # None =>
           /\ \A i \in Owned(positions, t) :
                positions[i].mv = record[t].master_open_volume
           /\ record[t].slave_ticket # 0 =>
                Link(positions, t, record[t].slave_ticket, record[t].master_open_volume,
                     record[t].slave_open_volume)
BY DEF TradeInv, RecordInv

LEMMA SendModifyTrade ==
  ASSUME TypeInv, TradeInv, NEW t \in Tickets, NEW l \in Levels, SendModify(t, l)
  PROVE  TradeInv'
<1>1. /\ t \in seen
      /\ sent' = [sent EXCEPT ![t] =
           [action |-> "MODIFY", ticket |-> t, sltp |-> l,
            slave_ticket |-> record[t].slave_ticket]]
      /\ UNCHANGED << mvol, seen, record, starting, ready, job, positions >>
  BY DEF SendModify
<1>2. sent'[t].action = "MODIFY" /\ \A u \in Tickets : u # t => sent'[u] = sent[u]
  BY <1>1 DEF TypeInv, SentOK
<1>3. mvol[t] \in Nat
  BY LinkVolumes
<1> QED
  BY <1>1, <1>2, <1>3, RecordLinks, SendTrade

LEMMA SendPartialTrade ==
  ASSUME TypeInv, TradeInv, NEW t \in Tickets, NEW v \in MasterVolumes, SendPartial(t, v)
  PROVE  TradeInv'
<1> DEFINE cmd == [action |-> "PARTIAL_CLOSE", ticket |-> t, new_master_volume |-> v,
                   slave_ticket |-> record[t].slave_ticket,
                   master_open_volume |-> record[t].master_open_volume,
                   slave_open_volume |-> record[t].slave_open_volume]
<1>1. /\ Hears(t) /\ t \in seen /\ v < mvol[t]
      /\ mvol' = [mvol EXCEPT ![t] = v]
      /\ Linked(t) => sent' = [sent EXCEPT ![t] = cmd]
      /\ ~ Linked(t) => sent' = sent
      /\ UNCHANGED << seen, record, starting, ready, job, positions >>
  BY DEF SendPartial
<1>2. /\ mvol'[t] = v /\ sent[t] = None
      /\ Linked(t) => sent'[t] = cmd
      /\ ~ Linked(t) => sent'[t] = None
      /\ \A u \in Tickets : u # t => sent'[u] = sent[u] /\ mvol'[u] = mvol[u]
  BY <1>1 DEF TypeInv, SentOK, Hears
<1>3. mvol[t] \in Nat /\ v \in Nat
  BY LinkVolumes, Constants
<1>4. Linked(t) =>
        Link(positions, t, record[t].slave_ticket, record[t].master_open_volume,
                record[t].slave_open_volume)
  BY <1>1, RecordLinks DEF Linked
<1>5. /\ cmd.action = "PARTIAL_CLOSE" /\ cmd.new_master_volume = v
      /\ cmd.slave_ticket = record[t].slave_ticket
      /\ cmd.master_open_volume = record[t].master_open_volume
      /\ cmd.slave_open_volume = record[t].slave_open_volume
  OBVIOUS
<1> HIDE DEF cmd
<1>6. v <= mvol[t]
  BY <1>1, <1>3
<1>7. CASE Linked(t)
  BY <1>1, <1>2, <1>3, <1>4, <1>5, <1>6, <1>7, RecordLinks, SendTrade
<1>8. CASE ~ Linked(t)
  BY <1>1, <1>2, <1>3, <1>6, <1>8, RecordLinks, SendTrade
<1> QED
  BY <1>7, <1>8

LEMMA SendCloseTrade ==
  ASSUME TypeInv, TradeInv, NEW t \in Tickets, SendClose(t)
  PROVE  TradeInv'
<1>1. /\ Hears(t) /\ t \in seen /\ mvol' = [mvol EXCEPT ![t] = 0]
      /\ UNCHANGED << seen, starting, ready, job, positions >>
  BY DEF SendClose
<1>2. /\ mvol'[t] = 0 /\ mvol'[t] \in Nat /\ mvol'[t] <= mvol[t]
      /\ \A u \in Tickets : u # t => mvol'[u] = mvol[u]
  <2>1. mvol[t] \in Nat
    BY LinkVolumes
  <2> QED
    BY <1>1, <2>1 DEF TypeInv
<1>3. CASE Linked(t)
  <2> DEFINE cmd == [action |-> "CLOSE", ticket |-> t,
                     slave_ticket |-> record[t].slave_ticket]
  <2>1. sent' = [sent EXCEPT ![t] = cmd] /\ record' = record
    BY <1>3 DEF SendClose
  <2>2. sent'[t] = cmd /\ \A u \in Tickets : u # t => sent'[u] = sent[u]
    BY <2>1 DEF TypeInv, SentOK
  <2>3. cmd.action = "CLOSE" /\ cmd.slave_ticket = record[t].slave_ticket
    OBVIOUS
  <2>4. Names(positions, t, record[t].slave_ticket)
    BY <1>3, RecordLinks DEF Linked, Link
  <2> HIDE DEF cmd
  <2> QED
    BY <1>1, <1>2, <2>1, <2>2, <2>3, <2>4, RecordLinks, SendTrade
<1>4. CASE ~ Linked(t)
  <2>1. record' = [record EXCEPT ![t] = None] /\ sent' = sent
    BY <1>4 DEF SendClose
  <2>2. /\ sent'[t] = None /\ record'[t] = None
        /\ \A u \in Tickets : u # t => record'[u] = record[u] /\ sent'[u] = sent[u]
    BY <1>1, <2>1 DEF Hears, TypeInv
  <2> QED
    BY <1>1, <1>2, <2>2, SendTrade
<1> QED
  BY <1>3, <1>4

LEMMA AnswerTrade ==
  ASSUME TypeInv, TradeInv, Answer
  PROVE  TradeInv'
<1> DEFINE t == job.cmd.ticket
<1>1. /\ job # None /\ job' = None
      /\ sent' = [sent EXCEPT ![t] = None]
      /\ UNCHANGED << mvol, seen, starting, ready, positions >>
  BY DEF Answer
<1>2. /\ t \in Tickets /\ sent[t] # None /\ job.cmd = sent[t]
      /\ job.filled \in Nat /\ job.first \in Nat
  BY <1>1, JobTyped
<1>3. t \in seen /\ sent'[t] = None
      /\ \A u \in Tickets : u # t => sent'[u] = sent[u] /\ record'[u] = record[u]
  <2>1. t \in seen
    BY <1>2 DEF TradeInv, SentInv
  <2>2. \A u \in Tickets : u # t => record'[u] = record[u]
    BY DEF Answer, TypeInv
  <2> QED
    BY <1>1, <1>2, <2>1, <2>2 DEF TypeInv, SentOK
<1>4. record'[t] # None =>
        /\ \A i \in Owned(positions, t) :
             positions[i].mv = record'[t].master_open_volume
        /\ record'[t].slave_ticket # 0 =>
             Link(positions, t, record'[t].slave_ticket,
                  record'[t].master_open_volume, record'[t].slave_open_volume)
  <2>1. CASE Ok(job) /\ job.cmd.action = "OPEN"
    <3>1. record' = [record EXCEPT ![t].slave_ticket = job.first,
                                   ![t].slave_open_volume = AckFill(job)]
      BY <2>1 DEF Answer
    <3>2. record[t] \in Record
      BY <1>2, <2>1 DEF TypeInv, SentOK
    <3>3. AckFill(job) = job.filled /\ job.filled > 0
      BY <2>1 DEF AckFill, Ok
    <3> DEFINE e == [[record[t] EXCEPT !.slave_ticket = job.first]
                       EXCEPT !.slave_open_volume = AckFill(job)]
    <3>4. record'[t] = e
      BY <1>2, <3>1 DEF TypeInv
    <3>5. /\ e.slave_ticket = job.first /\ e.slave_open_volume = job.filled
          /\ e.master_open_volume = record[t].master_open_volume
      BY <3>2, <3>3 DEF Record
    <3>6. record[t].master_open_volume = mvol[t] /\ job.cmd.master_volume = mvol[t]
      BY <1>2, <2>1 DEF TradeInv, SentInv
    <3>7. Link(positions, t, job.first, job.cmd.master_volume, job.filled)
      BY <1>1, <2>1, <3>3 DEF TradeInv, OpeningInv
    <3> HIDE DEF e, t
    <3> QED
      BY <3>4, <3>5, <3>6, <3>7 DEF Link
  <2>2. CASE Ok(job) /\ job.cmd.action = "CLOSE"
    <3>1. record'[t] = None
      BY <1>2, <2>2 DEF Answer, TypeInv
    <3> QED
      BY <3>1
  <2>3. CASE ~ (Ok(job) /\ job.cmd.action \in {"OPEN", "CLOSE"})
    <3>1. record' = record
      BY <2>3 DEF Answer
    <3> QED
      BY <1>2, <3>1, RecordLinks
  <2> QED
    BY <2>1, <2>2, <2>3
<1> HIDE DEF t
<1>5. LegInv' /\ OneVolume' /\ OpeningInv' /\ ClosingInv'
  BY <1>1 DEF TradeInv, LegInv, OneVolume, OpeningInv, ClosingInv
<1>6. FreshInv'
  BY <1>1, <1>3 DEF TradeInv, FreshInv
<1>7. RecordInv'
  <2> SUFFICES ASSUME NEW u \in Tickets, record'[u] # None
               PROVE  /\ \A i \in Owned(positions, u) :
                           positions[i].mv = record'[u].master_open_volume
                      /\ record'[u].slave_ticket # 0 =>
                           Link(positions, u, record'[u].slave_ticket,
                                record'[u].master_open_volume,
                                record'[u].slave_open_volume)
    BY <1>1 DEF RecordInv
  <2>1. CASE u = t
    BY <1>4, <2>1
  <2>2. CASE u # t
    BY <1>3, <2>2, RecordLinks
  <2> QED
    BY <2>1, <2>2
<1>8. SentInv'
  <2> SUFFICES ASSUME NEW u \in Tickets, sent'[u] # None
               PROVE  /\ u \in seen
                      /\ sent'[u].action = "OPEN" =>
                           /\ sent'[u].master_volume = mvol[u]
                           /\ sent'[u].volume = mvol[u]
                           /\ record'[u].slave_ticket = 0
                           /\ record'[u].master_open_volume = mvol[u]
                           /\ Owned(positions, u) = {}
                      /\ sent'[u].action = "PARTIAL_CLOSE" =>
                           /\ sent'[u].new_master_volume = mvol[u]
                           /\ Link(positions, u, sent'[u].slave_ticket,
                                   sent'[u].master_open_volume,
                                   sent'[u].slave_open_volume)
                      /\ sent'[u].action = "CLOSE" =>
                           mvol[u] = 0 /\ Names(positions, u, sent'[u].slave_ticket)
    BY <1>1 DEF SentInv
  <2>1. u # t /\ sent'[u] = sent[u] /\ record'[u] = record[u]
    BY <1>3
  <2>2. job # None => job.cmd.ticket # u
    BY <2>1 DEF t
  <2> QED
    BY <2>1, <2>2 DEF TradeInv, SentInv
<1> QED
  BY <1>5, <1>6, <1>7, <1>8 DEF TradeInv

(* An order that closes or changes a leg.                                  *)
LEMMA OrderShrinks ==
  ASSUME TypeInv, job # None, job.cmd.action # "OPEN",
         NEW order \in [leg : Nat, volume : Nat], NEW r, NEW v \in Nat,
         v <= order.volume, Touches(order, r, v)
  PROVE  /\ positions' \in Seq(Leg) /\ Shrinks(positions, positions')
         /\ \A i \in DOMAIN positions :
              /\ positions'[i].ended = positions[i].ended
              /\ job.cmd.action = "MODIFY" \/ i # order.leg \/ r \notin Executing =>
                   positions'[i].volume = positions[i].volume
              /\ job.cmd.action # "MODIFY" /\ i = order.leg /\ r \in Executing =>
                   positions'[i].volume = positions[i].volume - v
<1>1. /\ positions' \in Seq(Leg) /\ SameLegs
      /\ \A i \in DOMAIN positions' : i \in DOMAIN positions
  BY TouchesLegs
<1>2. Shrinks(positions, positions')
  BY <1>1 DEF SameLegs, Shrinks
<1>3. positions \in Seq(Leg) /\ \A i \in DOMAIN positions : positions[i] \in Leg
  BY LegTyped DEF TypeInv
<1>4. ASSUME NEW i \in DOMAIN positions
      PROVE  /\ positions'[i].ended = positions[i].ended
             /\ job.cmd.action = "MODIFY" \/ i # order.leg \/ r \notin Executing =>
                  positions'[i].volume = positions[i].volume
             /\ job.cmd.action # "MODIFY" /\ i = order.leg /\ r \in Executing =>
                  positions'[i].volume = positions[i].volume - v
  <2> DEFINE p == positions[i]
  <2>1. p \in Leg
    BY <1>3
  <2>2. CASE r \in {"rejected", "no_tick"} /\ positions' = positions
    BY <2>2 DEF Executing
  <2>3. CASE /\ job.cmd.action = "MODIFY"
             /\ positions' = [positions EXCEPT ![order.leg].sltp = job.cmd.sltp]
    <3>1. positions'[i] = IF i = order.leg THEN [p EXCEPT !.sltp = job.cmd.sltp] ELSE p
      BY <2>3
    <3> HIDE DEF p
    <3>2. positions'[i].ended = p.ended /\ positions'[i].volume = p.volume
      BY <2>1, <3>1 DEF Leg
    <3> QED
      BY <2>3, <3>2 DEF p
  <2>4. CASE /\ r \in Executing /\ job.cmd.action \in {"PARTIAL_CLOSE", "CLOSE"}
             /\ positions' = [positions EXCEPT ![order.leg].volume = @ - v]
    <3>1. positions'[i] = IF i = order.leg THEN [p EXCEPT !.volume = @ - v] ELSE p
      BY <2>4
    <3> HIDE DEF p
    <3>2. /\ positions'[i].ended = p.ended
          /\ i = order.leg => positions'[i].volume = p.volume - v
          /\ i # order.leg => positions'[i].volume = p.volume
      BY <2>1, <3>1 DEF Leg
    <3> QED
      BY <2>4, <3>2 DEF p
  <2> QED
    BY <2>2, <2>3, <2>4 DEF Touches
<1> QED
  BY <1>1, <1>2, <1>4

LEMMA AttemptCloses ==
  ASSUME TypeInv, TradeInv, Attempt, job.cmd.action # "OPEN"
  PROVE  TradeInv'
<1> DEFINE order == Head(job.todo)
           t == job.cmd.ticket
<1>1. /\ job # None /\ job.todo # << >> /\ UNCHANGED engineVars
      /\ order \in [leg : Nat, volume : Nat]
      /\ \E r \in Executing \cup {"rejected", "no_tick"} : \E v \in Nat : Sends(order, r, v)
  BY AttemptSends
<1>2. PICK r, v : v \in Nat /\ Sends(order, r, v)
  BY <1>1
<1>3. /\ job.todo \in Seq([leg : Nat, volume : Nat]) /\ t \in Tickets
      /\ job.cmd.action \in {"OPEN", "MODIFY", "PARTIAL_CLOSE", "CLOSE"}
      /\ sent[t] # None /\ job.cmd = sent[t]
  BY <1>1, JobTyped
<1>4. /\ order = job.todo[1] /\ 1 \in DOMAIN job.todo
      /\ DOMAIN job.todo = 1..Len(job.todo) /\ Len(job.todo) \in Nat
      /\ DOMAIN Tail(job.todo) = 1..(Len(job.todo) - 1)
      /\ \A k \in DOMAIN Tail(job.todo) : Tail(job.todo)[k] = job.todo[k + 1]
  BY <1>1, <1>3, HeadTail
<1>5. /\ Touches(order, r, v) /\ Continues(r, v) /\ v <= order.volume
      /\ Fills(order, r, v)
  BY <1>2 DEF Sends, Fills
<1> HIDE DEF order
<1>6. /\ job' \in Job /\ job'.cmd = job.cmd
      /\ \/ r = "done" /\ job'.todo = Tail(job.todo)
         \/ r # "done" /\ job'.todo \in {job.todo, Tail(job.todo)}
  BY <1>1, <1>2, <1>5, JobAfter
<1>7. job' # None
  BY <1>6, Constants
<1>8. /\ positions' \in Seq(Leg) /\ Shrinks(positions, positions')
      /\ \A i \in DOMAIN positions :
           /\ positions'[i].ended = positions[i].ended
           /\ job.cmd.action = "MODIFY" \/ i # order.leg \/ r \notin Executing =>
                positions'[i].volume = positions[i].volume
           /\ job.cmd.action # "MODIFY" /\ i = order.leg /\ r \in Executing =>
                positions'[i].volume = positions[i].volume - v
  BY <1>1, <1>2, <1>5, OrderShrinks
<1>9. FreshInv' /\ OneVolume' /\ RecordInv' /\ SentInv'
  BY <1>1, <1>6, <1>7, <1>8, TradeShrinks DEF TradeInv, SameEngine
<1>10. mvol' = mvol
  BY <1>1 DEF engineVars
<1>11. ClosesAnswered /\ job.cmd.action = "PARTIAL_CLOSE" /\ r \in Executing =>
         r = "done" /\ v = order.volume
  BY <1>5 DEF Fills, ClosesAnswered, Executing
<1>18. ~ ClosesAnswered => \A a, b, c, d : Keeps(a, b, c, d)
  BY DEF Keeps
<1>12. ASSUME job.cmd.action \in {"PARTIAL_CLOSE", "CLOSE"}
       PROVE  /\ \A k \in DOMAIN job.todo :
                   /\ job.todo[k].leg \in DOMAIN positions
                   /\ positions[job.todo[k].leg].of = t
              /\ order.leg \in DOMAIN positions /\ positions[order.leg].of = t
  <2>1. \A k \in DOMAIN job.todo : job.todo[k].leg \in DOMAIN positions
    BY <1>1, <1>12 DEF TypeInv, JobOK
  <2>2. \A k \in DOMAIN job.todo : positions[job.todo[k].leg].of = t
    BY <1>1, <1>12 DEF TradeInv, ClosingInv
  <2> QED
    BY <1>4, <2>1, <2>2
<1>13. ASSUME job.cmd.action = "PARTIAL_CLOSE"
       PROVE  /\ \A k \in DOMAIN job.todo :
                   LET i == job.todo[k].leg
                   IN  ~ positions[i].ended =>
                         Keeps(positions[i].volume - job.todo[k].volume,
                               positions[i].mv, positions[i].opened,
                               job.cmd.new_master_volume)
              /\ \A k, m \in DOMAIN job.todo :
                   job.todo[k].leg = job.todo[m].leg => k = m
  BY <1>1, <1>13 DEF TradeInv, ClosingInv
<1>14. LegInv'
  <2> SUFFICES ASSUME NEW i \in DOMAIN positions
               PROVE  /\ positions'[i].opened <= positions'[i].sv
                      /\ ~ positions'[i].ended =>
                           Keeps(positions'[i].volume, positions'[i].mv,
                                 positions'[i].opened, mvol[positions'[i].of])
    BY <1>8, <1>10 DEF LegInv, Shrinks
  <2>1. /\ positions[i].opened <= positions[i].sv
        /\ ~ positions[i].ended =>
             Keeps(positions[i].volume, positions[i].mv, positions[i].opened,
                   mvol[positions[i].of])
    BY DEF TradeInv, LegInv
  <2>2. /\ positions'[i].of = positions[i].of /\ positions'[i].mv = positions[i].mv
        /\ positions'[i].sv = positions[i].sv /\ positions'[i].opened = positions[i].opened
        /\ positions'[i].ended = positions[i].ended
    BY <1>8 DEF Shrinks
  <2>3. CASE job.cmd.action = "MODIFY" \/ i # order.leg \/ r \notin Executing
    <3>1. positions'[i].volume = positions[i].volume
      BY <1>8, <2>3
    <3> QED
      BY <2>1, <2>2, <3>1
  <2>4. CASE /\ job.cmd.action = "PARTIAL_CLOSE" /\ i = order.leg /\ r \in Executing
             /\ ClosesAnswered
    <3>1. positions'[i].volume = positions[i].volume - order.volume
      BY <1>8, <1>11, <2>4
    <3>2. ~ positions[i].ended =>
            Keeps(positions[i].volume - order.volume, positions[i].mv,
                  positions[i].opened, job.cmd.new_master_volume)
      BY <1>4, <1>13, <2>4
    <3>3. job.cmd.new_master_volume = mvol[t] /\ positions[i].of = t
      BY <1>3, <1>12, <2>4 DEF TradeInv, SentInv
    <3> HIDE DEF t
    <3> QED
      BY <2>1, <2>2, <3>1, <3>2, <3>3
  <2>5. CASE job.cmd.action = "CLOSE" /\ i = order.leg /\ r \in Executing
    <3>1. mvol[t] = 0 /\ positions[i].of = t
      BY <1>3, <1>12, <2>5 DEF TradeInv, SentInv
    <3>2. /\ positions'[i].volume \in Nat /\ positions'[i].mv \in Nat
          /\ positions'[i].opened \in Nat
      <4>1. i \in DOMAIN positions'
        BY <1>8 DEF Shrinks
      <4>2. positions'[i] \in Leg
        BY <1>8, <4>1, InSequence
      <4>3. \A u \in MasterVolumes : u \in Nat
        BY Constants
      <4> QED
        BY <4>2, <4>3 DEF Leg
    <3>3. Keeps(positions'[i].volume, positions'[i].mv, positions'[i].opened, 0)
      <4> DEFINE a == positions'[i].volume
                 b == positions'[i].mv
                 c == positions'[i].opened
      <4>1. a \in Nat /\ b \in Nat /\ c \in Nat
        BY <3>2
      <4> HIDE DEF a, b, c
      <4>2. a * b >= c * 0
        BY <4>1
      <4> QED
        BY <4>2 DEF Keeps, a, b, c
    <3> HIDE DEF t
    <3> QED
      BY <2>1, <2>2, <3>1, <3>3
  <2>6. CASE ~ ClosesAnswered
    BY <1>18, <2>1, <2>2, <2>6
  <2> QED
    BY <1>3, <2>3, <2>4, <2>5, <2>6
<1>15. OpeningInv'
  BY <1>6 DEF OpeningInv
<1>16. ASSUME NEW k \in DOMAIN job'.todo
       PROVE  \E m \in DOMAIN job.todo : job'.todo[k] = job.todo[m]
  <2>1. CASE job'.todo = job.todo
    BY <2>1
  <2>2. CASE job'.todo = Tail(job.todo)
    <3>1. k + 1 \in DOMAIN job.todo /\ job'.todo[k] = job.todo[k + 1]
      BY <1>4, <2>2
    <3> QED
      BY <3>1
  <2> QED
    BY <1>6, <2>1, <2>2
<1>17. ClosingInv'
  <2>1. ASSUME job.cmd.action \in {"PARTIAL_CLOSE", "CLOSE"}, NEW k \in DOMAIN job'.todo
        PROVE  positions'[job'.todo[k].leg].of = t
    <3>1. PICK m \in DOMAIN job.todo : job'.todo[k] = job.todo[m]
      BY <1>16
    <3>2. job.todo[m].leg \in DOMAIN positions /\ positions[job.todo[m].leg].of = t
      BY <1>12, <2>1
    <3> QED
      BY <1>8, <3>1, <3>2 DEF Shrinks
  <2>2. ASSUME job.cmd.action = "PARTIAL_CLOSE", NEW k \in DOMAIN job'.todo
        PROVE  LET i == job'.todo[k].leg
               IN  ~ positions'[i].ended =>
                     Keeps(positions'[i].volume - job'.todo[k].volume,
                           positions'[i].mv, positions'[i].opened,
                           job.cmd.new_master_volume)
    <3> SUFFICES ASSUME ClosesAnswered
                 PROVE  LET i == job'.todo[k].leg
                        IN  ~ positions'[i].ended =>
                              Keeps(positions'[i].volume - job'.todo[k].volume,
                                    positions'[i].mv, positions'[i].opened,
                                    job.cmd.new_master_volume)
      BY <1>18
    <3>1. PICK m \in DOMAIN job.todo :
            job'.todo[k] = job.todo[m] /\ (r \in Executing => m # 1)
      <4>1. CASE r \in Executing
        <5>1. job'.todo = Tail(job.todo)
          BY <1>6, <1>11, <2>2, <4>1
        <5>2. k + 1 \in DOMAIN job.todo /\ job'.todo[k] = job.todo[k + 1] /\ k + 1 # 1
          BY <1>4, <5>1
        <5> QED
          BY <5>2
      <4>2. CASE r \notin Executing
        BY <1>16, <4>2
      <4> QED
        BY <4>1, <4>2
    <3> DEFINE i == job.todo[m].leg
    <3>2. i \in DOMAIN positions
      BY <1>12, <2>2
    <3>3. r \in Executing => i # order.leg
      BY <1>4, <1>13, <2>2, <3>1
    <3>4. positions'[i].volume = positions[i].volume
          /\ positions'[i].ended = positions[i].ended
      BY <1>8, <3>2, <3>3
    <3>5. positions'[i].mv = positions[i].mv /\ positions'[i].opened = positions[i].opened
      BY <1>8, <3>2 DEF Shrinks
    <3>6. ~ positions[i].ended =>
            Keeps(positions[i].volume - job.todo[m].volume, positions[i].mv,
                  positions[i].opened, job.cmd.new_master_volume)
      BY <1>13, <2>2
    <3>7. job'.todo[k].leg = i /\ job'.todo[k].volume = job.todo[m].volume
      BY <3>1
    <3> HIDE DEF i
    <3> QED
      BY <3>4, <3>5, <3>6, <3>7
  <2>3. ASSUME job.cmd.action = "PARTIAL_CLOSE", NEW k \in DOMAIN job'.todo,
               NEW m \in DOMAIN job'.todo, job'.todo[k].leg = job'.todo[m].leg
        PROVE  k = m
    <3>1. CASE job'.todo = job.todo
      BY <1>13, <2>3, <3>1
    <3>2. CASE job'.todo = Tail(job.todo)
      <4>1. /\ k + 1 \in DOMAIN job.todo /\ job'.todo[k] = job.todo[k + 1]
            /\ m + 1 \in DOMAIN job.todo /\ job'.todo[m] = job.todo[m + 1]
            /\ k \in Nat /\ m \in Nat
        BY <1>4, <3>2
      <4>2. k + 1 = m + 1
        BY <1>13, <2>3, <4>1
      <4> QED
        BY <4>1, <4>2
    <3> QED
      BY <1>6, <3>1, <3>2
  <2> QED
    BY <1>6, <2>1, <2>2, <2>3 DEF ClosingInv
<1> QED
  BY <1>9, <1>14, <1>15, <1>17 DEF TradeInv

(* An order that opens a leg: of the ticket, nothing but its record's      *)
(* volume is known yet; the other tickets are not touched.                 *)
LEMMA OpeningFacts ==
  ASSUME TypeInv, TradeInv, job # None, job.cmd.action = "OPEN"
  PROVE  LET t == job.cmd.ticket
         IN  /\ t \in Tickets /\ sent[t] # None /\ sent[t] = job.cmd /\ t \in seen
             /\ record[t] # None /\ record[t].slave_ticket = 0
             /\ record[t].master_open_volume = mvol[t]
             /\ job.cmd.master_volume = mvol[t] /\ job.cmd.volume = mvol[t]
             /\ \A i \in Owned(positions, t) : positions[i].mv = mvol[t]
<1> DEFINE t == job.cmd.ticket
<1>1. t \in Tickets /\ sent[t] # None /\ job.cmd = sent[t]
  BY JobTyped
<1>2. record[t] \in Record /\ record[t] # None
  BY <1>1, Constants DEF TypeInv, SentOK
<1>3. /\ t \in seen
      /\ sent[t].master_volume = mvol[t] /\ sent[t].volume = mvol[t]
      /\ record[t].slave_ticket = 0 /\ record[t].master_open_volume = mvol[t]
  BY <1>1 DEF TradeInv, SentInv
<1>4. \A i \in Owned(positions, t) : positions[i].mv = record[t].master_open_volume
  BY <1>1, <1>2, RecordLinks
<1> QED
  BY <1>1, <1>2, <1>3, <1>4

LEMMA OpenOther ==
  ASSUME TypeInv, NEW e \in Leg, positions' = Append(positions, e), NEW u, e.of # u
  PROVE  /\ Owned(positions', u) = Owned(positions, u)
         /\ \A i \in Owned(positions, u) : positions'[i] = positions[i]
         /\ \A x, mo : \A total \in Nat :
              Link(positions, u, x, mo, total) => Link(positions', u, x, mo, total)
         /\ \A x : Names(positions, u, x) => Names(positions', u, x)
<1>1. positions \in Seq(Leg)
  BY DEF TypeInv
<1>2. /\ Owned(positions', u) = Owned(positions, u)
      /\ \A i \in DOMAIN positions : i \in DOMAIN positions' /\ positions'[i] = positions[i]
  BY <1>1, OwnedAppend
<1>3. Owned(positions, u) \in SUBSET DOMAIN positions
  BY <1>1, OwnedTyped
<1>4. ASSUME NEW x, NEW mo, NEW total \in Nat, Link(positions, u, x, mo, total)
      PROVE  Link(positions', u, x, mo, total)
  BY <1>1, <1>4, LinkOther
<1>5. \A x : Names(positions, u, x) => Names(positions', u, x)
  BY <1>2 DEF Names
<1> QED
  BY <1>2, <1>3, <1>4, <1>5

LEMMA TradeOpens ==
  ASSUME TypeInv, TradeInv, SameEngine, job # None, job.cmd.action = "OPEN",
         NEW e \in Leg, positions' = Append(positions, e),
         e.of = job.cmd.ticket, e.mv = job.cmd.master_volume
  PROVE  FreshInv' /\ OneVolume' /\ RecordInv' /\ SentInv'
<1> DEFINE t == job.cmd.ticket
<1>1. /\ UNCHANGED << mvol, seen, record, sent, starting, ready >>
      /\ job' # None /\ job'.cmd.ticket = t
  BY DEF SameEngine, engineVars
<1>2. /\ t \in Tickets /\ sent[t].action = "OPEN" /\ t \in seen
      /\ record[t].slave_ticket = 0 /\ record[t].master_open_volume = mvol[t]
      /\ sent[t].master_volume = mvol[t] /\ sent[t].volume = mvol[t]
      /\ e.mv = mvol[t]
      /\ \A i \in Owned(positions, t) : positions[i].mv = mvol[t]
  BY OpeningFacts
<1> HIDE DEF t
<1>3. \A i \in Owned(positions', t) : positions'[i].mv = mvol[t]
  <2> DEFINE n == Len(positions) + 1
  <2>1. /\ \A i \in DOMAIN positions : positions'[i] = positions[i]
        /\ positions'[n] = e
        /\ \/ Owned(positions', t) = Owned(positions, t)
           \/ Owned(positions', t) = Owned(positions, t) \cup {n}
        /\ Owned(positions, t) \in SUBSET DOMAIN positions
    BY OwnedAppend, OwnedTyped DEF TypeInv
  <2> HIDE DEF n
  <2> QED
    BY <1>2, <2>1
<1>4. \A u \in Tickets : u # t =>
        /\ Owned(positions', u) = Owned(positions, u)
        /\ \A i \in Owned(positions, u) : positions'[i] = positions[i]
  BY OpenOther DEF t
<1>5. FreshInv'
  <2> SUFFICES ASSUME NEW u \in Tickets, ~ starting, mvol[u] > 0, u \notin seen,
                      record[u] = None
               PROVE  Owned(positions', u) = {}
    BY <1>1 DEF FreshInv
  <2> QED
    BY <1>2, <1>4 DEF TradeInv, FreshInv
<1>6. OneVolume'
  <2> SUFFICES ASSUME NEW u \in Tickets, NEW i \in Owned(positions', u),
                      NEW j \in Owned(positions', u)
               PROVE  positions'[i].mv = positions'[j].mv
    BY DEF OneVolume
  <2>1. CASE u = t
    BY <1>3, <2>1
  <2>2. CASE u # t
    <3>1. positions[i].mv = positions[j].mv
      BY <1>4, <2>2 DEF TradeInv, OneVolume
    <3> QED
      BY <1>4, <2>2, <3>1
  <2> QED
    BY <2>1, <2>2
<1>7. RecordInv'
  <2> SUFFICES ASSUME NEW u \in Tickets, record[u] # None
               PROVE  /\ \A i \in Owned(positions', u) :
                           positions'[i].mv = record[u].master_open_volume
                      /\ record[u].slave_ticket # 0 =>
                           Link(positions', u, record[u].slave_ticket,
                                record[u].master_open_volume,
                                record[u].slave_open_volume)
    BY <1>1 DEF RecordInv
  <2>1. CASE u = t
    BY <1>2, <1>3, <2>1
  <2>2. CASE u # t
    <3>1. record[u].slave_open_volume \in Nat /\ e.of # u
      BY <2>2, LinkVolumes DEF t
    <3>2. /\ \A i \in Owned(positions, u) : positions[i].mv = record[u].master_open_volume
          /\ record[u].slave_ticket # 0 =>
               Link(positions, u, record[u].slave_ticket,
                    record[u].master_open_volume, record[u].slave_open_volume)
      BY RecordLinks
    <3>3. record[u].slave_ticket # 0 =>
            Link(positions', u, record[u].slave_ticket,
                 record[u].master_open_volume, record[u].slave_open_volume)
      BY <3>1, <3>2, OpenOther
    <3> QED
      BY <1>4, <2>2, <3>2, <3>3
  <2> QED
    BY <2>1, <2>2
<1>8. SentInv'
  <2> SUFFICES ASSUME NEW u \in Tickets, sent[u] # None
               PROVE  /\ u \in seen
                      /\ sent[u].action = "OPEN" =>
                           /\ sent[u].master_volume = mvol[u] /\ sent[u].volume = mvol[u]
                           /\ record[u].slave_ticket = 0
                           /\ record[u].master_open_volume = mvol[u]
                           /\ t # u => Owned(positions', u) = {}
                      /\ sent[u].action = "PARTIAL_CLOSE" =>
                           /\ sent[u].new_master_volume = mvol[u]
                           /\ Link(positions', u, sent[u].slave_ticket,
                                   sent[u].master_open_volume,
                                   sent[u].slave_open_volume)
                      /\ sent[u].action = "CLOSE" =>
                           mvol[u] = 0 /\ Names(positions', u, sent[u].slave_ticket)
    BY <1>1 DEF SentInv
  <2>1. CASE u = t
    BY <1>2, <2>1
  <2>2. CASE u # t
    <3>1. /\ u \in seen
          /\ sent[u].action = "OPEN" =>
               /\ sent[u].master_volume = mvol[u] /\ sent[u].volume = mvol[u]
               /\ record[u].slave_ticket = 0 /\ record[u].master_open_volume = mvol[u]
               /\ Owned(positions, u) = {}
          /\ sent[u].action = "PARTIAL_CLOSE" =>
               /\ sent[u].new_master_volume = mvol[u]
               /\ Link(positions, u, sent[u].slave_ticket, sent[u].master_open_volume,
                       sent[u].slave_open_volume)
          /\ sent[u].action = "CLOSE" =>
               mvol[u] = 0 /\ Names(positions, u, sent[u].slave_ticket)
      BY <2>2 DEF TradeInv, SentInv, t
    <3>2. e.of # u
      BY <2>2 DEF t
    <3>3. sent[u].action = "PARTIAL_CLOSE" =>
            Link(positions', u, sent[u].slave_ticket, sent[u].master_open_volume,
                 sent[u].slave_open_volume)
      BY <3>1, <3>2, LinkVolumes, OpenOther
    <3>4. sent[u].action = "CLOSE" => Names(positions', u, sent[u].slave_ticket)
      BY <3>1, <3>2, OpenOther
    <3> QED
      BY <1>4, <2>2, <3>1, <3>3, <3>4
  <2> QED
    BY <2>1, <2>2
<1> QED
  BY <1>5, <1>6, <1>7, <1>8

(* What the record says of the copy is enough to tell the share of a leg   *)
(* whose comment was rewritten.                                            *)
SharesKnown ==
  \/ Mangled = {}
  \/ "partial" \notin OpenResults /\ "OPEN" \notin LostOn /\ Hedging

LEMMA AttemptOpens ==
  ASSUME SharesKnown, TypeInv, TradeInv, Attempt, job.cmd.action = "OPEN"
  PROVE  TradeInv'
<1> DEFINE order == Head(job.todo)
           t == job.cmd.ticket
           mo == job.cmd.master_volume
<1>1. /\ job # None /\ job.todo # << >> /\ UNCHANGED engineVars
      /\ order \in [leg : Nat, volume : Nat]
      /\ \E r \in Executing \cup {"rejected", "no_tick"} : \E v \in Nat : Sends(order, r, v)
  BY AttemptSends
<1>2. PICK r \in Executing \cup {"rejected", "no_tick"} :
        \E v \in Nat : Sends(order, r, v)
  BY <1>1
<1>20. PICK v \in Nat : Sends(order, r, v)
  BY <1>2
<1>3. /\ job.todo \in Seq([leg : Nat, volume : Nat]) /\ t \in Tickets
      /\ job.cmd \in OpenCommand /\ job.filled \in Nat /\ job.first \in Nat
      /\ job.split \in BOOLEAN
  BY <1>1, JobTyped, CommandKinds
<1>4. /\ order = job.todo[1] /\ 1 \in DOMAIN job.todo
      /\ DOMAIN job.todo = 1..Len(job.todo) /\ Len(job.todo) \in Nat
      /\ DOMAIN Tail(job.todo) = 1..(Len(job.todo) - 1)
      /\ \A k \in DOMAIN Tail(job.todo) : Tail(job.todo)[k] = job.todo[k + 1]
  BY <1>1, <1>3, HeadTail
<1>5. /\ Touches(order, r, v) /\ Continues(r, v) /\ v <= order.volume
      /\ Fills(order, r, v)
  BY <1>20 DEF Sends, Fills
<1>6. order.volume \in Nat
  BY <1>1
<1> HIDE DEF order
<1>7. /\ job' \in Job /\ job'.cmd = job.cmd /\ job'.split = job.split
      /\ \/ /\ r = "done" \/ (r = "partial" /\ job.split)
            /\ job'.todo = Tail(job.todo) /\ job'.filled = job.filled + v
            /\ job'.first = IF job.first = 0 THEN Len(positions) + 1 ELSE job.first
         \/ /\ r # "done" /\ ~ (r = "partial" /\ job.split)
            /\ job'.filled = job.filled /\ job'.first = job.first
            /\ job'.todo \in {job.todo, << >>}
  BY <1>1, <1>5, JobAfter
<1>8. job' # None /\ SameEngine
  BY <1>1, <1>7, Constants DEF SameEngine
<1>9. /\ job.filled > 0 => job.first # 0
      /\ job.first # 0 => Link(positions, t, job.first, mo, job.filled)
      /\ Mangled # {} /\ job.first = 0 => Owned(positions, t) = {} /\ job.filled = 0
      /\ ~ job.split => \A k \in DOMAIN job.todo :
           /\ job.todo[k].volume <= job.cmd.volume
           /\ Hedging => job.todo[k].volume = job.cmd.volume
  BY <1>1 DEF TradeInv, OpeningInv
<1>10. ~ job.split => \A k \in DOMAIN job'.todo :
         /\ job'.todo[k].volume <= job.cmd.volume
         /\ Hedging => job'.todo[k].volume = job.cmd.volume
  <2>1. \A k \in DOMAIN job'.todo : \E m \in DOMAIN job.todo : job'.todo[k] = job.todo[m]
    <3>1. CASE job'.todo = Tail(job.todo)
      <4> SUFFICES ASSUME NEW k \in DOMAIN job'.todo
                   PROVE  \E m \in DOMAIN job.todo : job'.todo[k] = job.todo[m]
        OBVIOUS
      <4>1. k + 1 \in DOMAIN job.todo /\ job'.todo[k] = job.todo[k + 1]
        BY <1>4, <3>1
      <4> QED
        BY <4>1
    <3>2. CASE job'.todo = job.todo
      BY <3>2
    <3>3. CASE job'.todo = << >>
      BY <3>3
    <3> QED
      BY <1>7, <3>1, <3>2, <3>3
  <2> QED
    BY <1>9, <2>1
<1>11. ClosingInv'
  BY <1>7 DEF ClosingInv
<1>12. CASE r \in {"rejected", "no_tick"}
  <2>1. positions' = positions
    BY <1>5, <1>12 DEF Touches, Executing
  <2>2. job'.filled = job.filled /\ job'.first = job.first
    BY <1>7, <1>12
  <2>3. LegInv'
    BY <1>1, <2>1 DEF TradeInv, LegInv, engineVars
  <2>4. Shrinks(positions, positions')
    <3>1. \A i \in DOMAIN positions : positions[i].volume \in Nat
      BY LegTyped DEF TypeInv
    <3> QED
      BY <2>1, <3>1 DEF Shrinks
  <2>5. FreshInv' /\ OneVolume' /\ RecordInv' /\ SentInv'
    BY <1>8, <2>1, <2>4, TradeShrinks DEF TradeInv, TypeInv
  <2>6. OpeningInv'
    BY <1>7, <1>9, <1>10, <2>1, <2>2 DEF OpeningInv
  <2> QED
    BY <1>11, <2>3, <2>5, <2>6 DEF TradeInv
<1>13. CASE r \in Executing
  <2> DEFINE e == NewLeg(job, order, v)
             n == Len(positions) + 1
  <2>1. positions' = Append(positions, e)
    BY <1>5, <1>13 DEF Touches, Executing
  <2>2. /\ e.of = t /\ e.mv = mo /\ e.opened = v /\ e.volume = v /\ ~ e.ended
        /\ e.sv = IF job.split THEN order.volume ELSE job.cmd.volume
    BY DEF NewLeg
  <2>3. positions \in Seq(Leg) /\ n \in Nat /\ n # 0
    <3>1. positions \in Seq(Leg)
      BY DEF TypeInv
    <3>2. Len(positions) \in Nat
      BY <3>1
    <3> QED
      BY <3>1, <3>2
  <2>4. e \in Leg
    <3>1. positions' \in Seq(Leg)
      BY <1>1, <1>5, TouchesLegs
    <3>2. n \in DOMAIN positions' /\ positions'[n] = e
      <4> HIDE DEF e
      <4> QED
        BY <2>1, <2>3
    <3> QED
      BY <3>1, <3>2, InSequence
  <2> HIDE DEF e, n
  <2>5. FreshInv' /\ OneVolume' /\ RecordInv' /\ SentInv'
    BY <1>1, <1>8, <2>1, <2>2, <2>4, TradeOpens
  <2>6. /\ mo = mvol[t] /\ job.cmd.volume = mvol[t]
        /\ \A i \in Owned(positions, t) : positions[i].mv = mo
    BY <1>1, OpeningFacts
  <2>7. e.opened <= e.sv
    <3>1. CASE job.split
      BY <1>5, <2>2, <3>1
    <3>2. CASE ~ job.split
      <4>1. order.volume <= job.cmd.volume /\ job.cmd.volume \in Nat
        BY <1>3, <1>4, <1>9, <2>6, <3>2, LinkVolumes
      <4> QED
        BY <1>5, <1>6, <2>2, <3>2, <4>1
    <3> QED
      BY <1>3, <3>1, <3>2
  <2>8. LegInv'
    <3>1. /\ DOMAIN positions' = DOMAIN positions \cup {n} /\ positions'[n] = e
          /\ \A i \in DOMAIN positions : positions'[i] = positions[i]
      BY <2>1, <2>3, <2>4, AppendFacts DEF n
    <3>2. mvol' = mvol
      BY <1>1 DEF engineVars
    <3>3. Keeps(e.volume, e.mv, e.opened, mvol[e.of])
      <4>1. mvol[t] \in Nat
        BY <1>3, LinkVolumes
      <4>2. v * mvol[t] >= v * mvol[t]
        BY <4>1
      <4> QED
        BY <2>2, <2>6, <4>2 DEF Keeps
    <3> QED
      BY <2>7, <3>1, <3>2, <3>3 DEF TradeInv, LegInv
  <2>9. OpeningInv'
    <3>1. CASE job'.filled = job.filled + v
               /\ job'.first = IF job.first = 0 THEN n ELSE job.first
      <4>1. job'.first # 0
        BY <2>3, <3>1
      <4>2. Mangled # {} => e.sv = v
        <5> SUFFICES ASSUME Mangled # {} PROVE e.sv = v
          OBVIOUS
        <5>1. "partial" \notin OpenResults /\ "OPEN" \notin LostOn /\ Hedging
          BY DEF SharesKnown
        <5>2. v = order.volume
          BY <1>5, <1>13, <5>1 DEF Fills, Executing
        <5>3. ~ job.split => order.volume = job.cmd.volume
          BY <1>4, <1>9, <5>1
        <5> QED
          BY <1>3, <2>2, <5>2, <5>3
      <4>3. Link(positions', t, job'.first, mo, job.filled + v)
        <5>1. CASE job.first = 0
          <6>1. Mangled # {} => Owned(positions, t) = {}
            BY <1>9, <5>1
          <6> HIDE DEF t, mo
          <6>2. Link(Append(positions, e), t, n, mo, job.filled + v)
            BY <1>3, <2>2, <2>3, <2>4, <2>6, <6>1, LinkAppend DEF n
          <6> QED
            BY <2>1, <3>1, <5>1, <6>2
        <5>2. CASE job.first # 0
          <6>1. Link(positions, t, job.first, mo, job.filled)
            BY <1>9, <5>2
          <6>2. job.first # n
            BY <2>3, <6>1 DEF Link, Names, n
          <6> HIDE DEF t, mo
          <6>3. Link(Append(positions, e), t, job.first, mo, job.filled + v)
            BY <1>3, <2>2, <2>3, <2>4, <2>6, <4>2, <6>1, <6>2, LinkAppend DEF n
          <6> QED
            BY <2>1, <3>1, <5>2, <6>3
        <5> QED
          BY <5>1, <5>2
      <4> QED
        BY <1>7, <1>10, <3>1, <4>1, <4>3 DEF OpeningInv
    <3>2. CASE job'.filled = job.filled /\ job'.first = job.first
               /\ r # "done" /\ ~ (r = "partial" /\ job.split)
      <4>1. Mangled = {}
        BY <1>5, <1>13, <3>2 DEF SharesKnown, Fills, Executing
      <4>2. job.first # 0 => Link(positions', t, job.first, mo, job.filled)
        <5> SUFFICES ASSUME job.first # 0
                     PROVE  Link(positions', t, job.first, mo, job.filled)
          OBVIOUS
        <5>1. Link(positions, t, job.first, mo, job.filled)
          BY <1>9
        <5> DEFINE q == Append(positions, e)
        <5>2. /\ \A i \in DOMAIN positions : i \in DOMAIN q /\ q[i] = positions[i]
              /\ q[n] = e
              /\ \/ Owned(q, t) = Owned(positions, t)
                 \/ Owned(q, t) = Owned(positions, t) \cup {n}
              /\ Owned(positions, t) \in SUBSET DOMAIN positions
          BY <2>3, <2>4, OwnedAppend, OwnedTyped DEF n
        <5> HIDE DEF q, t, mo
        <5>3. Names(q, t, job.first) /\ q[job.first].mv = mo
          BY <5>1, <5>2 DEF Link, Names
        <5>4. \A i \in Owned(q, t) : q[i].mv = mo
          <6>1. e.mv = mo
            BY <2>2 DEF mo
          <6> QED
            BY <2>6, <5>2, <6>1
        <5>5. Link(q, t, job.first, mo, job.filled)
          BY <4>1, <5>3, <5>4 DEF Link
        <5> QED
          BY <2>1, <5>5 DEF q
      <4> QED
        BY <1>7, <1>9, <1>10, <3>2, <4>1, <4>2 DEF OpeningInv
    <3> QED
      BY <1>7, <3>1, <3>2 DEF n
  <2> QED
    BY <1>11, <2>5, <2>8, <2>9 DEF TradeInv
<1> QED
  BY <1>2, <1>12, <1>13

LEMMA TradeInit == Init => TradeInv
<1> SUFFICES ASSUME Init PROVE TradeInv
  OBVIOUS
<1>1. /\ positions = << >> /\ job = None
      /\ \A t \in Tickets : sent[t] = None /\ record[t] = None
  BY DEF Init
<1>2. DOMAIN positions = {} /\ \A t : Owned(positions, t) = {}
  BY <1>1 DEF Owned
<1> QED
  BY <1>1, <1>2
  DEF TradeInv, LegInv, FreshInv, OneVolume, RecordInv, SentInv, OpeningInv, ClosingInv

(* What the links need: a failed scan makes records of nothing, and a copy *)
(* whose worker is lost before the first snapshot is made again.           *)
TradeAssumptions ==
  ~ ScansFail /\ ~ EarlyLoss /\ SplittableSymbol /\ SharesKnown

LEMMA TradeStep ==
  ASSUME TradeAssumptions, TypeInv, TradeInv, [Next]_vars
  PROVE  TradeInv'
<1>1. ~ ScansFail /\ ~ EarlyLoss /\ SplittableSymbol /\ SharesKnown
  BY DEF TradeAssumptions
<1>2. CASE UNCHANGED vars
  <2>1. UNCHANGED << mvol, seen, record, sent, starting, ready, job, positions >>
    BY <1>2 DEF vars
  <2> QED
    BY <2>1 DEF TradeInv, LegInv, FreshInv, OneVolume, RecordInv, SentInv,
                OpeningInv, ClosingInv
<1>3. CASE Attempt
  BY <1>1, <1>3, AttemptOpens, AttemptCloses
<1>4. CASE Next /\ ~ Attempt
  BY <1>1, <1>4, AnswerTrade, RecoverTrade, RestartTrade, BrokerClosesTrade,
     ReceiveTrade, SendOpenTrade, SendModifyTrade, SendPartialTrade, SendCloseTrade
     DEF Next
<1> QED
  BY <1>2, <1>3, <1>4

(* The engine's records and outstanding commands name legs of their ticket *)
(* and its volumes, and leave every leg its share (copy_loop.py:272-293,   *)
(* baseline.py:17-50).                                                     *)
THEOREM TradeInvariant == TradeAssumptions => (Spec => []TradeInv)
<1> SUFFICES ASSUME TradeAssumptions PROVE Spec => []TradeInv
  OBVIOUS
<1>1. Init => TradeInv
  BY TradeInit
<1>2. TypeInv /\ TradeInv /\ [Next]_vars => TradeInv'
  BY TradeStep
<1> QED
  BY <1>1, <1>2, TypeInvariant, PTL DEF Spec

(* With scans that do not fail, partial closes that are answered, no       *)
(* worker lost between the start and the first snapshot, and, where a      *)
(* broker rewrites comments, records that are exact, the slave never       *)
(* closes a larger fraction of a leg than the master has closed of its     *)
(* position (mt5_worker.py:324-398, copy_loop.py:272-293).                 *)
THEOREM NeverClosesMore ==
  TradeAssumptions /\ ClosesAnswered => (Spec => []NeverClosesMoreThanMaster)
<1> SUFFICES ASSUME TradeAssumptions, ClosesAnswered
             PROVE  Spec => []NeverClosesMoreThanMaster
  OBVIOUS
<1>1. TradeInv => NeverClosesMoreThanMaster
  BY DEF TradeInv, LegInv, Keeps, NeverClosesMoreThanMaster
<1> QED
  BY <1>1, TradeInvariant, PTL

-----------------------------------------------------------------------------
(* What the answer to an OPEN says was filled.                             *)

OpenedOf(p) == [i \in DOMAIN p |-> p[i].opened]

LEMMA OpenedTyped ==
  ASSUME NEW p \in Seq(Leg)
  PROVE  /\ DOMAIN p = 1..Len(p) /\ Len(p) \in Nat /\ IsFiniteSet(DOMAIN p)
         /\ \A i \in DOMAIN p : OpenedOf(p)[i] = p[i].opened /\ OpenedOf(p)[i] \in Nat
<1>1. DOMAIN p = 1..Len(p) /\ Len(p) \in Nat
  OBVIOUS
<1>2. IsFiniteSet(DOMAIN p)
  BY <1>1, FS_Interval
<1>3. \A i \in DOMAIN p : p[i].opened \in Nat
  BY OwnedTyped
<1> QED
  BY <1>1, <1>2, <1>3 DEF OpenedOf

(* A set of legs of which nothing was opened further adds up as before, ...*)
LEMMA SumKept ==
  ASSUME NEW p \in Seq(Leg), NEW q \in Seq(Leg), NEW legs \in SUBSET DOMAIN p,
         \A i \in DOMAIN p : i \in DOMAIN q /\ q[i].opened = p[i].opened
  PROVE  /\ SumFunctionOnSet(OpenedOf(q), legs) = SumFunctionOnSet(OpenedOf(p), legs)
         /\ SumFunctionOnSet(OpenedOf(p), legs) \in Nat
         /\ \A R \in SUBSET legs : SumFunctionOnSet(OpenedOf(q), R)
                                     <= SumFunctionOnSet(OpenedOf(p), legs)
<1>1. /\ IsFiniteSet(legs)
      /\ \A i \in legs : OpenedOf(p)[i] \in Nat /\ OpenedOf(p)[i] \in Int
                         /\ OpenedOf(q)[i] = OpenedOf(p)[i]
  <2>1. IsFiniteSet(legs)
    BY OpenedTyped, FS_Subset
  <2>2. \A i \in DOMAIN p : OpenedOf(p)[i] = p[i].opened /\ OpenedOf(p)[i] \in Nat
    BY OpenedTyped
  <2>3. \A i \in DOMAIN q : OpenedOf(q)[i] = q[i].opened
    BY OpenedTyped
  <2> QED
    BY <2>1, <2>2, <2>3
<1>2. SumFunctionOnSet(OpenedOf(q), legs) = SumFunctionOnSet(OpenedOf(p), legs)
  BY <1>1, SumSame
<1>3. SumFunctionOnSet(OpenedOf(p), legs) \in Nat
  BY <1>1, SumNat
<1>4. ASSUME NEW R \in SUBSET legs
      PROVE  SumFunctionOnSet(OpenedOf(q), R) <= SumFunctionOnSet(OpenedOf(p), legs)
  <2>1. IsFiniteSet(R) /\ \A i \in R : OpenedOf(p)[i] \in Int
                                       /\ OpenedOf(q)[i] = OpenedOf(p)[i]
    BY <1>1, FS_Subset
  <2>2. SumFunctionOnSet(OpenedOf(q), R) = SumFunctionOnSet(OpenedOf(p), R)
    BY <2>1, SumSame
  <2>3. SumFunctionOnSet(OpenedOf(p), R) <= SumFunctionOnSet(OpenedOf(p), legs)
    BY <1>1, SumSubset
  <2> QED
    BY <2>2, <2>3
<1> QED
  BY <1>2, <1>3, <1>4

(* ... and a new leg adds what it was opened with.                         *)
LEMMA SumOpened ==
  ASSUME NEW p \in Seq(Leg), NEW e \in Leg, NEW legs \in SUBSET DOMAIN p
  PROVE  LET n == Len(p) + 1
         IN  SumFunctionOnSet(OpenedOf(Append(p, e)), legs \cup {n})
               = SumFunctionOnSet(OpenedOf(p), legs) + e.opened
<1> DEFINE n == Len(p) + 1
           q == Append(p, e)
           f == OpenedOf(q)
           S == legs \cup {n}
<1>1. /\ q \in Seq(Leg) /\ DOMAIN q = DOMAIN p \cup {n} /\ n \notin DOMAIN p
      /\ q[n] = e /\ \A i \in DOMAIN p : q[i] = p[i]
  BY AppendFacts
<1> HIDE DEF q, n
<1>2. SumFunctionOnSet(f, legs) = SumFunctionOnSet(OpenedOf(p), legs)
      /\ SumFunctionOnSet(OpenedOf(p), legs) \in Nat
  <2>1. \A i \in DOMAIN p : i \in DOMAIN q /\ q[i].opened = p[i].opened
    BY <1>1
  <2> QED
    BY <1>1, <2>1, SumKept
<1>3. /\ \A i \in DOMAIN q : f[i] = q[i].opened /\ f[i] \in Nat
      /\ IsFiniteSet(DOMAIN q)
  BY <1>1, OpenedTyped
<1>4. S \in SUBSET DOMAIN q /\ n \in S /\ S \ {n} = legs
  BY <1>1
<1> HIDE DEF f, S
<1>5. IsFiniteSet(S) /\ \A i \in S : f[i] \in Int
  BY <1>3, <1>4, FS_Subset
<1>6. SumFunctionOnSet(f, S) = f[n] + SumFunctionOnSet(f, S \ {n})
  BY <1>4, <1>5, SumOver
<1>7. f[n] = e.opened
  BY <1>1, <1>3
<1>9. SumFunctionOnSet(f, S \ {n}) = SumFunctionOnSet(OpenedOf(p), legs)
  BY ONLY <1>2, <1>4
<1>10. f[n] \in Int
  BY <1>4, <1>5
<1>8. SumFunctionOnSet(f, S) = SumFunctionOnSet(OpenedOf(p), legs) + e.opened
  BY ONLY <1>2, <1>6, <1>7, <1>9, <1>10
<1> QED
  BY <1>8 DEF f, S, q, n

(* Whatever is opened is reported to the worker: orders are answered, and  *)
(* an order that is not a chunk is too small to be filled in part.         *)
OpensAnswered ==
  /\ "OPEN" \notin LostOn
  /\ "partial" \in OpenResults =>
       \A v \in MasterVolumes : Len(Chunks(v)) <= 1 =>
         \A k \in DOMAIN Chunks(v) : Chunks(v)[k] <= 1

SmallOrders ==
  (job # None /\ job.cmd.action = "OPEN") =>
    ("partial" \in OpenResults /\ ~ job.split =>
       \A k \in DOMAIN job.todo : job.todo[k].volume <= 1)

FillInv ==
  (job # None /\ job.cmd.action = "OPEN") =>
    /\ ~ job.failed /\ job.before <= Len(positions)
    /\ job.filled = SumFunctionOnSet(OpenedOf(positions),
                                     (job.before + 1)..Len(positions))

(* An order of an OPEN that is executed is accepted.                       *)
LEMMA OpenAccepted ==
  ASSUME OpensAnswered, TypeInv, SmallOrders, Attempt, job.cmd.action = "OPEN"
  PROVE  LET order == Head(job.todo)
         IN  /\ job # None /\ job.todo # << >> /\ order.volume \in Nat
             /\ UNCHANGED engineVars
             /\ job' \in Job /\ job'.cmd = job.cmd /\ job'.split = job.split
             /\ job'.before = job.before
             /\ \/ /\ positions' = positions /\ job'.filled = job.filled
                   /\ job'.todo \in {job.todo, << >>}
                   /\ "no_tick" \notin OpenResults => job'.failed = job.failed
                \/ \E v \in Nat :
                     /\ v <= order.volume
                     /\ "partial" \notin OpenResults => v = order.volume
                     /\ NewLeg(job, order, v) \in Leg
                     /\ positions' = Append(positions, NewLeg(job, order, v))
                     /\ job'.filled = job.filled + v
                     /\ job'.todo = Tail(job.todo) /\ job'.failed = job.failed
<1> DEFINE order == Head(job.todo)
<1>1. /\ job # None /\ job.todo # << >> /\ UNCHANGED engineVars
      /\ order \in [leg : Nat, volume : Nat]
      /\ \E r \in Executing \cup {"rejected", "no_tick"} : \E v \in Nat : Sends(order, r, v)
  BY AttemptSends
<1>2. PICK r \in Executing \cup {"rejected", "no_tick"} :
        \E v \in Nat : Sends(order, r, v)
  BY <1>1
<1>3. PICK v \in Nat : Sends(order, r, v)
  BY <1>2
<1>4. /\ Touches(order, r, v) /\ Continues(r, v) /\ v <= order.volume
      /\ Fills(order, r, v)
  BY <1>3 DEF Sends, Fills
<1>5. order = job.todo[1] /\ 1 \in DOMAIN job.todo
  BY <1>1, JobTyped, HeadTail
<1>6. order.volume \in Nat /\ job.failed \in BOOLEAN /\ job.split \in BOOLEAN
  BY <1>1, JobTyped
<1> HIDE DEF order
<1>7. /\ job' \in Job /\ job'.cmd = job.cmd
      /\ job'.split = job.split /\ job'.before = job.before
      /\ \/ /\ r = "done" \/ (r = "partial" /\ job.split)
            /\ job'.todo = Tail(job.todo) /\ job'.failed = job.failed
            /\ job'.filled = job.filled + v
         \/ /\ r # "done" /\ ~ (r = "partial" /\ job.split)
            /\ job'.filled = job.filled /\ job'.todo \in {job.todo, << >>}
            /\ \/ job'.failed = job.failed
               \/ job'.failed <=> (job.failed \/ r = "no_tick")
  BY <1>1, <1>4, JobAfter
<1>8. r # "lost"
  BY <1>4 DEF Fills, OpensAnswered
<1>9. r = "partial" => job.split /\ "partial" \in OpenResults
  <2> SUFFICES ASSUME r = "partial", ~ job.split PROVE FALSE
    BY <1>4 DEF Fills
  <2>1. "partial" \in OpenResults /\ 1 <= v /\ v < order.volume
    BY <1>4 DEF Fills
  <2>2. order.volume <= 1
    BY <1>1, <1>5, <2>1 DEF SmallOrders
  <2> QED
    BY <1>6, <2>1, <2>2
<1>10. CASE r \in {"rejected", "no_tick"}
  <2>1. positions' = positions
    BY <1>4, <1>10 DEF Touches, Executing
  <2>2. job'.filled = job.filled /\ job'.todo \in {job.todo, << >>}
    BY <1>7, <1>10
  <2>3. "no_tick" \notin OpenResults => r # "no_tick"
    BY <1>4 DEF Fills
  <2>4. "no_tick" \notin OpenResults => job'.failed = job.failed
    <3>1. job'.failed \in BOOLEAN
      BY <1>7 DEF Job
    <3> QED
      BY <1>6, <1>7, <1>10, <2>3, <3>1
  <2> QED
    BY <1>1, <1>6, <1>7, <2>1, <2>2, <2>4 DEF order
<1>11. CASE r \in Executing
  <2> DEFINE e == NewLeg(job, order, v)
  <2>1. positions' = Append(positions, e)
    BY <1>4, <1>11 DEF Touches, Executing
  <2>2. e \in Leg
    <3>1. positions' \in Seq(Leg) /\ positions \in Seq(Leg)
      BY <1>1, <1>4, TouchesLegs DEF TypeInv
    <3>2. Len(positions) + 1 \in DOMAIN positions' /\ positions'[Len(positions) + 1] = e
      <4> HIDE DEF e
      <4> QED
        BY <2>1, <3>1
    <3> QED
      BY <3>1, <3>2, InSequence
  <2> HIDE DEF e
  <2>3. r = "done" \/ (r = "partial" /\ job.split)
    BY <1>8, <1>9, <1>11 DEF Executing
  <2>4. /\ job'.filled = job.filled + v /\ job'.todo = Tail(job.todo)
        /\ job'.failed = job.failed
    BY <1>7, <2>3
  <2>5. "partial" \notin OpenResults => v = order.volume
    BY <1>4, <1>9, <2>3 DEF Fills
  <2> QED
    BY <1>1, <1>4, <1>6, <1>7, <2>1, <2>2, <2>4, <2>5 DEF e, order
<1> QED
  BY <1>2, <1>10, <1>11

LEMMA ReceivesOpen ==
  ASSUME TypeInv, NEW t \in Tickets, Receive(t), job' # None, job'.cmd.action = "OPEN"
  PROVE  /\ job'.cmd = sent[t] /\ sent[t] # None /\ sent[t] \in OpenCommand
         /\ sent[t].ticket = t /\ job = None
         /\ Len(job'.todo) = Len(Chunks(sent[t].volume))
         /\ DOMAIN job'.todo = 1..Len(job'.todo) /\ Len(job'.todo) \in Nat
         /\ \A k \in DOMAIN job'.todo : job'.todo[k].volume = Chunks(sent[t].volume)[k]
         /\ job'.split = (Len(job'.todo) > 1) /\ job'.filled = 0
         /\ job'.before = Len(positions) /\ ~ job'.failed
         /\ Chunks(sent[t].volume) \in Seq(Nat)
         /\ UNCHANGED << engineVars, positions >>
<1>1. PICK scan \in Scans :
        LET cmd  == sent[t]
            legs == IF cmd.action = "OPEN" THEN {} ELSE FindLegs(cmd, scan)
        IN  \E todo \in Orders(cmd, legs) :
              job' = [cmd |-> cmd, todo |-> todo, tries |-> 0,
                      split |-> Len(todo) > 1, filled |-> 0,
                      first |-> 0, before |-> Len(positions),
                      failed |-> cmd.action \in {"MODIFY", "PARTIAL_CLOSE"}
                                   /\ legs = {}]
  BY DEF Receive
<1> DEFINE cmd == sent[t]
           c == Chunks(cmd.volume)
<1>2. cmd.action = "OPEN"
  BY <1>1
<1>3. PICK todo \in Orders(cmd, {}) :
        job' = [cmd |-> cmd, todo |-> todo, tries |-> 0,
                split |-> Len(todo) > 1, filled |-> 0,
                first |-> 0, before |-> Len(positions),
                failed |-> cmd.action \in {"MODIFY", "PARTIAL_CLOSE"} /\ {} = {}]
  BY <1>1, <1>2
<1>4. /\ job'.cmd = cmd /\ job'.todo = todo /\ job'.split = (Len(todo) > 1)
      /\ job'.filled = 0 /\ job'.before = Len(positions) /\ ~ job'.failed
  BY <1>2, <1>3
<1>5. /\ cmd # None /\ cmd.ticket = t /\ cmd \in Command /\ job = None
      /\ UNCHANGED << engineVars, positions >>
  BY DEF Receive, TypeInv, SentOK
<1>6. cmd \in OpenCommand
  BY <1>2, <1>5, CommandKinds
<1>7. c \in Seq(Nat)
  <2>1. cmd.volume \in MasterVolumes
    BY <1>6 DEF OpenCommand
  <2>2. cmd.volume \in Nat
    BY <2>1, Constants
  <2> QED
    BY <2>2, ChunksNat
<1>8. todo = [k \in DOMAIN c |-> Order(0, c[k])]
  BY <1>2, <1>3 DEF Orders
<1> HIDE DEF c, cmd
<1>9. /\ DOMAIN todo = 1..Len(todo) /\ Len(todo) = Len(c) /\ Len(todo) \in Nat
      /\ \A k \in DOMAIN todo : todo[k].volume = c[k]
  <2>1. DOMAIN c = 1..Len(c) /\ Len(c) \in Nat
    BY <1>7
  <2>2. DOMAIN todo = 1..Len(c) /\ todo \in [1..Len(c) -> [leg : {0}, volume : Nat]]
    BY <1>7, <1>8, <2>1 DEF Order
  <2>3. Len(todo) = Len(c)
    BY <2>1, <2>2, IsASequence
  <2> QED
    BY <1>8, <2>1, <2>2, <2>3 DEF Order
<1> QED
  BY <1>4, <1>5, <1>6, <1>7, <1>9 DEF c, cmd

LEMMA SmallStep ==
  ASSUME OpensAnswered, TypeInv, SmallOrders, [Next]_vars
  PROVE  SmallOrders'
<1>1. CASE job' = None \/ job' = job
  BY <1>1 DEF SmallOrders
<1>2. ASSUME NEW t \in Tickets, Receive(t) PROVE SmallOrders'
  <2> SUFFICES ASSUME job' # None, job'.cmd.action = "OPEN",
                      "partial" \in OpenResults, ~ job'.split,
                      NEW k \in DOMAIN job'.todo
               PROVE  job'.todo[k].volume <= 1
    BY DEF SmallOrders
  <2> DEFINE c == Chunks(sent[t].volume)
  <2>1. /\ sent[t] \in OpenCommand /\ c \in Seq(Nat)
        /\ Len(job'.todo) = Len(c) /\ Len(job'.todo) \in Nat
        /\ DOMAIN job'.todo = 1..Len(job'.todo)
        /\ job'.split = (Len(job'.todo) > 1) /\ job'.todo[k].volume = c[k]
    BY <1>2, ReceivesOpen
  <2>2. sent[t].volume \in MasterVolumes
    BY <2>1 DEF OpenCommand
  <2>3. Len(c) <= 1 => \A m \in DOMAIN c : c[m] <= 1
    BY <2>2 DEF OpensAnswered
  <2>4. DOMAIN c = 1..Len(c)
    BY <2>1
  <2> HIDE DEF c
  <2>5. Len(c) <= 1
    <3>1. job'.split = (Len(job'.todo) > 1)
      BY <2>1, Zenon
    <3>2. ~ (Len(job'.todo) > 1)
      BY <3>1, Zenon
    <3> QED
      BY <2>1, <3>2
  <2> QED
    BY <2>1, <2>3, <2>4, <2>5
<1>3. CASE Attempt
  <2> SUFFICES ASSUME job' # None, job'.cmd.action = "OPEN",
                      "partial" \in OpenResults, ~ job'.split,
                      NEW k \in DOMAIN job'.todo
               PROVE  job'.todo[k].volume <= 1
    BY DEF SmallOrders
  <2>1. /\ job # None /\ job.todo # << >>
        /\ \E r \in Executing \cup {"rejected", "no_tick"} : \E v \in Nat :
             Sends(Head(job.todo), r, v)
    BY <1>3, AttemptSends
  <2>2. PICK r, v : v \in Nat /\ Sends(Head(job.todo), r, v)
    BY <2>1
  <2>3. /\ job'.cmd = job.cmd /\ job'.split = job.split
        /\ job'.todo \in {Tail(job.todo), job.todo, << >>}
    BY <2>1, <2>2, JobAfter DEF Sends
  <2>4. \A m \in DOMAIN job.todo : job.todo[m].volume <= 1
    BY <2>1, <2>3 DEF SmallOrders
  <2>5. job.todo \in Seq([leg : Nat, volume : Nat])
    BY <2>1, JobTyped
  <2>6. CASE job'.todo = Tail(job.todo)
    <3> DEFINE todo == job.todo
    <3> HIDE DEF todo
    <3>1. todo \in Seq([leg : Nat, volume : Nat]) /\ todo # << >>
      BY <2>1, <2>5 DEF todo
    <3>2. \A m \in DOMAIN Tail(todo) : m + 1 \in DOMAIN todo /\ Tail(todo)[m] = todo[m + 1]
      BY <3>1, HeadTail
    <3>3. k \in DOMAIN Tail(todo) /\ job'.todo[k] = Tail(todo)[k]
      BY <2>6 DEF todo
    <3>4. k + 1 \in DOMAIN job.todo /\ job'.todo[k] = job.todo[k + 1]
      BY ONLY <3>2, <3>3 DEF todo
    <3> QED
      BY <2>4, <3>4
  <2>7. CASE job'.todo = job.todo
    BY <2>4, <2>7
  <2>8. CASE job'.todo = << >>
    BY <2>8
  <2> QED
    BY <2>3, <2>6, <2>7, <2>8
<1> QED
  BY <1>1, <1>2, <1>3
  DEF Next, vars, Answer, Recover, Restart, BrokerCloses, SendOpen, SendModify,
      SendPartial, SendClose

LEMMA SmallInvariant == OpensAnswered => (Spec => []SmallOrders)
<1> SUFFICES ASSUME OpensAnswered PROVE Spec => []SmallOrders
  OBVIOUS
<1>1. Init => SmallOrders
  BY DEF Init, SmallOrders
<1>2. TypeInv /\ SmallOrders /\ [Next]_vars => SmallOrders'
  BY SmallStep
<1> QED
  BY <1>1, <1>2, TypeInvariant, PTL DEF Spec

LEMMA FillStep ==
  ASSUME OpensAnswered, "no_tick" \notin OpenResults,
         TypeInv, SmallOrders, FillInv, [Next]_vars
  PROVE  FillInv'
<1>0. positions \in Seq(Leg) /\ Len(positions) \in Nat
  <2>1. positions \in Seq(Leg)
    BY DEF TypeInv
  <2> QED
    BY <2>1
<1>1. CASE job' = None
  BY <1>1 DEF FillInv
<1>2. CASE job' = job /\ positions' = positions
  BY <1>2 DEF FillInv
<1>3. ASSUME NEW t \in Tickets, Receive(t) PROVE FillInv'
  <2> SUFFICES ASSUME job' # None, job'.cmd.action = "OPEN"
               PROVE  /\ ~ job'.failed /\ job'.before <= Len(positions')
                      /\ job'.filled = SumFunctionOnSet(OpenedOf(positions'),
                                         (job'.before + 1)..Len(positions'))
    BY DEF FillInv
  <2>1. /\ ~ job'.failed /\ job'.before = Len(positions) /\ job'.filled = 0
        /\ positions' = positions
    BY <1>3, ReceivesOpen
  <2>2. (Len(positions) + 1)..Len(positions) = {}
    BY <1>0
  <2>3. SumFunctionOnSet(OpenedOf(positions), {}) = 0
    <3>1. IsFiniteSet({}) /\ \A i \in {} : OpenedOf(positions)[i] \in Int
      BY FS_EmptySet
    <3> QED
      BY <3>1, SumOver
  <2> QED
    BY <1>0, <2>1, <2>2, <2>3
<1>4. CASE Attempt
  <2> SUFFICES ASSUME job' # None, job'.cmd.action = "OPEN"
               PROVE  /\ ~ job'.failed /\ job'.before <= Len(positions')
                      /\ job'.filled = SumFunctionOnSet(OpenedOf(positions'),
                                         (job'.before + 1)..Len(positions'))
    BY DEF FillInv
  <2> DEFINE order == Head(job.todo)
             b == job.before
  <2>1. job # None /\ job.cmd.action = "OPEN"
    <3>1. /\ job # None /\ job.todo # << >>
          /\ \E r \in Executing \cup {"rejected", "no_tick"} : \E v \in Nat :
               Sends(Head(job.todo), r, v)
      BY <1>4, AttemptSends
    <3>2. PICK r, v : v \in Nat /\ Sends(Head(job.todo), r, v)
      BY <3>1
    <3>3. job'.cmd = job.cmd
      BY <3>1, <3>2, JobAfter DEF Sends
    <3> QED
      BY <3>1, <3>3
  <2>2. /\ job'.before = b /\ b \in Nat /\ job.filled \in Nat
        /\ \/ /\ positions' = positions /\ job'.filled = job.filled
              /\ job'.failed = job.failed
           \/ \E v \in Nat :
                /\ NewLeg(job, order, v) \in Leg
                /\ positions' = Append(positions, NewLeg(job, order, v))
                /\ job'.filled = job.filled + v
                /\ job'.failed = job.failed
    BY <1>4, <2>1, OpenAccepted, JobTyped
  <2>3. /\ ~ job.failed /\ b <= Len(positions)
        /\ job.filled = SumFunctionOnSet(OpenedOf(positions), (b + 1)..Len(positions))
    BY <2>1 DEF FillInv
  <2> HIDE DEF b, order
  <2>4. CASE positions' = positions /\ job'.filled = job.filled
             /\ job'.failed = job.failed
    BY <2>2, <2>3, <2>4
  <2>5. CASE \E v \in Nat :
               /\ NewLeg(job, order, v) \in Leg
               /\ positions' = Append(positions, NewLeg(job, order, v))
               /\ job'.filled = job.filled + v /\ job'.failed = job.failed
    <3>1. PICK v \in Nat :
            /\ NewLeg(job, order, v) \in Leg
            /\ positions' = Append(positions, NewLeg(job, order, v))
            /\ job'.filled = job.filled + v /\ job'.failed = job.failed
      BY <2>5
    <3> DEFINE e == NewLeg(job, order, v)
               n == Len(positions)
               legs == (b + 1)..n
    <3>2. e.opened = v /\ e \in Leg
      BY <3>1 DEF NewLeg
    <3> HIDE DEF e
    <3>3. Len(positions') = n + 1
      BY <1>0, <3>1, <3>2, AppendFacts DEF e
    <3>4. legs \in SUBSET DOMAIN positions
      <4>1. DOMAIN positions = 1..n
        BY <1>0
      <4> QED
        BY <1>0, <2>2, <4>1
    <3>5. (b + 1)..(n + 1) = legs \cup {n + 1}
      BY <1>0, <2>2, <2>3
    <3> HIDE DEF n, legs
    <3>6. SumFunctionOnSet(OpenedOf(Append(positions, e)), legs \cup {n + 1})
            = SumFunctionOnSet(OpenedOf(positions), legs) + e.opened
      BY <1>0, <3>2, <3>4, SumOpened DEF n
    <3>7. SumFunctionOnSet(OpenedOf(positions'), (b + 1)..Len(positions'))
            = job.filled + v
      <4>1. SumFunctionOnSet(OpenedOf(positions'), (b + 1)..Len(positions'))
              = SumFunctionOnSet(OpenedOf(Append(positions, e)), legs \cup {n + 1})
        BY <3>1, <3>3, <3>5 DEF e
      <4>2. job.filled = SumFunctionOnSet(OpenedOf(positions), legs)
        BY <2>3 DEF legs, n
      <4> QED
        BY ONLY <3>2, <3>6, <4>1, <4>2
    <3> QED
      BY <1>0, <2>2, <2>3, <3>1, <3>3, <3>7 DEF n
  <2> QED
    BY <2>2, <2>4, <2>5
<1>5. ASSUME NEW j, BrokerCloses(j) PROVE FillInv'
  <2> SUFFICES ASSUME job # None, job.cmd.action = "OPEN"
               PROVE  /\ ~ job.failed /\ job.before <= Len(positions')
                      /\ job.filled = SumFunctionOnSet(OpenedOf(positions'),
                                        (job.before + 1)..Len(positions'))
    BY <1>5, BrokerClosesLegs DEF FillInv
  <2>1. /\ positions' \in Seq(Leg) /\ Len(positions') = Len(positions)
        /\ \A i \in DOMAIN positions : i \in DOMAIN positions'
             /\ positions'[i].opened = positions[i].opened
    BY <1>5, BrokerClosesLegs DEF SameLegs
  <2> DEFINE legs == (job.before + 1)..Len(positions)
  <2>2. legs \in SUBSET DOMAIN positions
    <3>1. DOMAIN positions = 1..Len(positions) /\ job.before \in Nat
      BY <1>0, JobTyped
    <3> QED
      BY <1>0, <3>1
  <2>3. /\ ~ job.failed /\ job.before <= Len(positions)
        /\ job.filled = SumFunctionOnSet(OpenedOf(positions), legs)
    BY DEF FillInv
  <2> HIDE DEF legs
  <2>4. SumFunctionOnSet(OpenedOf(positions'), legs)
          = SumFunctionOnSet(OpenedOf(positions), legs)
    BY <1>0, <2>1, <2>2, SumKept
  <2> QED
    BY <2>1, <2>3, <2>4 DEF legs
<1> QED
  BY <1>1, <1>2, <1>3, <1>4, <1>5
  DEF Next, vars, Answer, Recover, Restart, SendOpen, SendModify, SendPartial, SendClose

LEMMA FillInvariant ==
  OpensAnswered /\ "no_tick" \notin OpenResults => (Spec => []FillInv)
<1> SUFFICES ASSUME OpensAnswered, "no_tick" \notin OpenResults
             PROVE  Spec => []FillInv
  OBVIOUS
<1>1. Init => FillInv
  BY DEF Init, FillInv
<1>2. TypeInv /\ SmallOrders /\ FillInv /\ [Next]_vars => FillInv'
  BY FillStep
<1> QED
  BY <1>1, <1>2, TypeInvariant, SmallInvariant, PTL DEF Spec

(* With opening orders that are sent and answered, and filled in part only *)
(* where the worker expects it, the volume in the answer to an OPEN is     *)
(* what was opened, all chunks of it, whatever the broker has closed of it *)
(* since (mt5_worker.py:206-285).                                          *)
THEOREM FillReported ==
  OpensAnswered /\ "no_tick" \notin OpenResults => (Spec => []FillIsTrue)
<1> SUFFICES ASSUME OpensAnswered, "no_tick" \notin OpenResults
             PROVE  Spec => []FillIsTrue
  OBVIOUS
<1>1. TypeInv /\ FillInv => FillIsTrue
  <2> SUFFICES ASSUME TypeInv, FillInv, Finished("OPEN")
               PROVE  AckFill(job) = Sum(Opened, (job.before + 1)..Len(positions))
    BY DEF FillIsTrue
  <2>1. job # None /\ job.cmd.action = "OPEN"
    BY DEF Finished
  <2>2. /\ ~ job.failed
        /\ job.filled = SumFunctionOnSet(OpenedOf(positions),
                                         (job.before + 1)..Len(positions))
        /\ job.filled \in Nat
    BY <2>1, JobTyped DEF FillInv
  <2>3. AckFill(job) = job.filled
    BY <2>1, <2>2 DEF AckFill, Ok
  <2> QED
    BY <2>2, <2>3 DEF Sum, Opened, OpenedOf
<1> QED
  BY <1>1, TypeInvariant, FillInvariant, PTL

-----------------------------------------------------------------------------
(* How much is opened for a ticket.                                        *)

Total(p, t) == SumFunctionOnSet(OpenedOf(p), Owned(p, t))
VolumesOf(todo) == [k \in DOMAIN todo |-> todo[k].volume]
ToOpen(todo) == SumFunctionOnSet(VolumesOf(todo), DOMAIN todo)

FitInv ==
  \A t \in Tickets : \A i \in Owned(positions, t) :
    Total(positions, t) <= positions[i].mv

(* What is open of the ticket and what is still to be opened.              *)
RoomInv ==
  (job # None /\ job.cmd.action = "OPEN") =>
    Total(positions, job.cmd.ticket) + ToOpen(job.todo) <= job.cmd.master_volume

LEMMA TotalNat ==
  ASSUME NEW p \in Seq(Leg), NEW t
  PROVE  Total(p, t) \in Nat
<1>1. Owned(p, t) \in SUBSET DOMAIN p
  BY OwnedTyped
<1>2. \A i \in DOMAIN p : i \in DOMAIN p /\ p[i].opened = p[i].opened
  OBVIOUS
<1> QED
  BY <1>1, <1>2, SumKept DEF Total

LEMMA TotalShrinks ==
  ASSUME NEW p \in Seq(Leg), NEW q \in Seq(Leg), Shrinks(p, q), NEW t
  PROVE  Total(q, t) <= Total(p, t)
<1>1. Owned(q, t) \in SUBSET Owned(p, t) /\ Owned(p, t) \in SUBSET DOMAIN p
  BY OwnedShrinks, OwnedTyped
<1>2. \A i \in DOMAIN p : i \in DOMAIN q /\ q[i].opened = p[i].opened
  BY DEF Shrinks
<1> QED
  BY <1>1, <1>2, SumKept DEF Total

LEMMA TotalAppend ==
  ASSUME NEW p \in Seq(Leg), NEW e \in Leg, NEW t
  PROVE  /\ Total(Append(p, e), t) <= Total(p, t) + e.opened
         /\ e.of # t => Total(Append(p, e), t) = Total(p, t)
<1> DEFINE q == Append(p, e)
           n == Len(p) + 1
           own == Owned(p, t)
<1>1. /\ q \in Seq(Leg) /\ own \in SUBSET DOMAIN p
      /\ \A i \in DOMAIN p : i \in DOMAIN q /\ q[i].opened = p[i].opened
      /\ Owned(q, t) = own \/ Owned(q, t) = own \cup {n}
      /\ e.of # t => Owned(q, t) = own
  BY OwnedAppend, OwnedTyped
<1>2. e.opened \in Nat
  BY DEF Leg
<1> HIDE DEF own
<1>3. SumFunctionOnSet(OpenedOf(q), own \cup {n})
        = SumFunctionOnSet(OpenedOf(p), own) + e.opened
  BY <1>1, SumOpened
<1> HIDE DEF q, n
<1>4. /\ SumFunctionOnSet(OpenedOf(q), own) = SumFunctionOnSet(OpenedOf(p), own)
      /\ SumFunctionOnSet(OpenedOf(p), own) \in Nat
  BY <1>1, SumKept
<1>5. Total(p, t) = SumFunctionOnSet(OpenedOf(p), own)
  BY DEF Total, own
<1>6. CASE Owned(q, t) = own
  BY <1>2, <1>4, <1>5, <1>6 DEF Total, q
<1>7. CASE Owned(q, t) = own \cup {n} /\ e.of = t
  <2>1. Total(q, t) = SumFunctionOnSet(OpenedOf(q), own \cup {n})
    BY <1>7 DEF Total
  <2>2. Total(q, t) = Total(p, t) + e.opened
    BY ONLY <1>3, <1>5, <2>1
  <2> QED
    BY <1>2, <1>4, <1>5, <1>7, <2>2 DEF q
<1> QED
  BY <1>1, <1>6, <1>7

(* What is to be opened, order by order.                                   *)
LEMMA ToOpenTail ==
  ASSUME NEW todo \in Seq([leg : Nat, volume : Nat])
  PROVE  /\ ToOpen(todo) \in Nat /\ ToOpen(<< >>) = 0
         /\ todo # << >> =>
              /\ ToOpen(todo) = Head(todo).volume + ToOpen(Tail(todo))
              /\ Head(todo).volume \in Nat
<1>1. /\ DOMAIN todo = 1..Len(todo) /\ Len(todo) \in Nat
      /\ \A k \in DOMAIN todo : todo[k].volume \in Nat
  <2>1. \A k \in DOMAIN todo : todo[k] \in [leg : Nat, volume : Nat]
    BY InSequence
  <2> QED
    BY <2>1
<1>2. \A k \in DOMAIN todo : VolumesOf(todo)[k] = todo[k].volume
                             /\ VolumesOf(todo)[k] \in Nat
  BY <1>1 DEF VolumesOf
<1>3. ToOpen(todo) \in Nat
  <2>1. IsFiniteSet(DOMAIN todo)
    BY <1>1, FS_Interval
  <2> QED
    BY <1>2, <2>1, SumNat DEF ToOpen
<1>4. ToOpen(<< >>) = 0
  <2>1. DOMAIN << >> = {}
    OBVIOUS
  <2>2. IsFiniteSet({}) /\ \A k \in {} : VolumesOf(<< >>)[k] \in Int
    BY FS_EmptySet
  <2>3. SumFunctionOnSet(VolumesOf(<< >>), {}) = 0
    BY <2>2, SumOver
  <2> QED
    BY ONLY <2>1, <2>3 DEF ToOpen
<1>5. ASSUME todo # << >>
      PROVE  /\ ToOpen(todo) = Head(todo).volume + ToOpen(Tail(todo))
             /\ Head(todo).volume \in Nat
  <2> DEFINE rest == Tail(todo)
             n == Len(todo) - 1
             f == VolumesOf(todo)
             g == VolumesOf(rest)
  <2>1. /\ n \in Nat /\ DOMAIN todo = 1..(n + 1) /\ DOMAIN rest = 1..n
        /\ Head(todo) = todo[1] /\ 1 \in DOMAIN todo
        /\ \A k \in 1..n : k + 1 \in DOMAIN todo /\ rest[k] = todo[k + 1]
    <3>1. Len(todo) > 0 /\ Len(todo) \in Nat
      BY <1>5, HeadTail
    <3>2. n \in Nat /\ n + 1 = Len(todo)
      BY <3>1
    <3> QED
      BY <1>5, <3>2, HeadTail
  <2> HIDE DEF rest, n
  <2>2. \A k \in 1..(n + 1) : f[k] \in Nat
    BY <1>2, <2>1
  <2>3. \A k \in 1..n : g[k] = f[k + 1]
    <3>1. \A k \in 1..n : g[k] = rest[k].volume
      BY <2>1 DEF VolumesOf
    <3> QED
      BY <1>2, <2>1, <3>1
  <2> HIDE DEF f, g
  <2>4. SumFunctionOnSet(f, 1..(n + 1)) = f[1] + SumFunctionOnSet(g, 1..n)
    BY <2>1, <2>2, <2>3, SumTail
  <2>5. ToOpen(todo) = SumFunctionOnSet(f, 1..(n + 1))
        /\ ToOpen(rest) = SumFunctionOnSet(g, 1..n)
    BY <2>1 DEF ToOpen, f, g
  <2>6. f[1] = Head(todo).volume /\ Head(todo).volume \in Nat
    BY <1>1, <1>2, <2>1 DEF f
  <2> QED
    BY ONLY <2>4, <2>5, <2>6 DEF rest
<1> QED
  BY <1>3, <1>4, <1>5

LEMMA FitShrinks ==
  ASSUME TypeInv, FitInv, positions' \in Seq(Leg), Shrinks(positions, positions')
  PROVE  FitInv'
<1> SUFFICES ASSUME NEW t \in Tickets, NEW i \in Owned(positions', t)
             PROVE  Total(positions', t) <= positions'[i].mv
  BY DEF FitInv
<1>1. positions \in Seq(Leg)
  BY DEF TypeInv
<1>2. i \in Owned(positions, t) /\ i \in DOMAIN positions
      /\ positions'[i].mv = positions[i].mv
  BY OwnedShrinksAll
<1>3. Total(positions, t) <= positions[i].mv
  BY <1>2 DEF FitInv
<1>4. Total(positions', t) <= Total(positions, t)
  BY <1>1, TotalShrinks
<1>5. Total(positions', t) \in Nat /\ Total(positions, t) \in Nat
      /\ positions[i].mv \in Nat
  BY <1>1, <1>2, TotalNat, LegTyped
<1> QED
  BY <1>2, <1>3, <1>4, <1>5

LEMMA ReceiveRoom ==
  ASSUME SplittableSymbol, TypeInv, TradeInv, NEW t \in Tickets, Receive(t)
  PROVE  RoomInv'
<1> SUFFICES ASSUME job' # None, job'.cmd.action = "OPEN"
             PROVE  Total(positions', job'.cmd.ticket) + ToOpen(job'.todo)
                      <= job'.cmd.master_volume
  BY DEF RoomInv
<1> DEFINE cmd == sent[t]
           c == Chunks(cmd.volume)
<1>1. /\ job'.cmd = cmd /\ cmd # None /\ cmd \in OpenCommand /\ cmd.ticket = t
      /\ job = None /\ positions' = positions
      /\ Len(job'.todo) = Len(c) /\ Len(job'.todo) \in Nat
      /\ DOMAIN job'.todo = 1..Len(job'.todo)
      /\ \A k \in DOMAIN job'.todo : job'.todo[k].volume = c[k]
  BY ReceivesOpen
<1>2. cmd.action = "OPEN" /\ cmd.volume \in MasterVolumes /\ cmd.volume \in Nat
  <2>1. cmd.action = "OPEN" /\ cmd.volume \in MasterVolumes
    BY <1>1 DEF OpenCommand
  <2> QED
    BY <2>1, Constants
<1>3. /\ cmd.master_volume = cmd.volume /\ Owned(positions, t) = {}
  BY <1>1, <1>2 DEF TradeInv, SentInv
<1>4. c \in Seq(Nat) /\ SumFunctionOnSet(c, 1..Len(c)) <= cmd.volume
  BY <1>2, ChunksRight
<1>5. Total(positions, t) = 0
  <2>1. IsFiniteSet({}) /\ \A i \in {} : OpenedOf(positions)[i] \in Int
    BY FS_EmptySet
  <2>2. SumFunctionOnSet(OpenedOf(positions), {}) = 0
    BY <2>1, SumOver
  <2> QED
    BY <1>3, <2>2 DEF Total
<1> HIDE DEF c
<1>6. ToOpen(job'.todo) = SumFunctionOnSet(c, 1..Len(c))
  <2> DEFINE todo == job'.todo
             S == 1..Len(c)
  <2>1. IsFiniteSet(S) /\ DOMAIN todo = S /\ Len(c) \in Nat
    BY <1>1, FS_Interval
  <2>2. \A k \in S : c[k] \in Int /\ VolumesOf(todo)[k] = c[k]
    BY <1>1, <1>4 DEF VolumesOf
  <2> HIDE DEF S, todo
  <2>3. SumFunctionOnSet(VolumesOf(todo), S) = SumFunctionOnSet(c, S)
    BY <2>1, <2>2, SumSame
  <2> QED
    BY ONLY <2>1, <2>3 DEF ToOpen, S, todo
<1>7. SumFunctionOnSet(c, 1..Len(c)) \in Nat
  <2>1. Len(c) \in Nat /\ DOMAIN c = 1..Len(c)
    BY <1>4
  <2>2. \A k \in DOMAIN c : c[k] \in Nat
    BY <1>4, InSequence
  <2>3. IsFiniteSet(1..Len(c))
    BY <2>1, FS_Interval
  <2> QED
    BY <2>1, <2>2, <2>3, SumNat
<1> HIDE DEF cmd
<1> QED
  BY <1>1, <1>2, <1>3, <1>4, <1>5, <1>6, <1>7

LEMMA AttemptFits ==
  ASSUME OpensAnswered, TypeInv, TypeInv', TradeInv, TradeInv', SmallOrders,
         FitInv, RoomInv, Attempt, job.cmd.action = "OPEN"
  PROVE  FitInv' /\ RoomInv'
<1> DEFINE order == Head(job.todo)
           t == job.cmd.ticket
           mv == job.cmd.master_volume
<1>1. /\ job # None /\ job.todo # << >> /\ order.volume \in Nat
      /\ UNCHANGED engineVars
      /\ job' \in Job /\ job'.cmd = job.cmd
      /\ \/ positions' = positions /\ job'.todo \in {job.todo, << >>}
         \/ \E v \in Nat :
              /\ v <= order.volume /\ NewLeg(job, order, v) \in Leg
              /\ positions' = Append(positions, NewLeg(job, order, v))
              /\ job'.todo = Tail(job.todo)
  BY OpenAccepted
<1>2. /\ positions \in Seq(Leg) /\ t \in Tickets
      /\ job.todo \in Seq([leg : Nat, volume : Nat])
  BY <1>1, JobTyped DEF TypeInv
<1>3. Total(positions, t) + ToOpen(job.todo) <= mv
  BY <1>1 DEF RoomInv
<1>4. /\ Total(positions, t) \in Nat
      /\ ToOpen(job.todo) \in Nat /\ ToOpen(<< >>) = 0
      /\ ToOpen(job.todo) = order.volume + ToOpen(Tail(job.todo))
  BY <1>1, <1>2, TotalNat, ToOpenTail
<1>5. mv \in Nat /\ ToOpen(Tail(job.todo)) \in Nat
  <2>1. job.cmd \in OpenCommand
    BY <1>1, JobTyped, CommandKinds
  <2>2. mv \in MasterVolumes
    BY <2>1 DEF OpenCommand
  <2>3. Tail(job.todo) \in Seq([leg : Nat, volume : Nat])
    BY <1>1, <1>2, HeadTail
  <2>4. ToOpen(Tail(job.todo)) \in Nat
    BY <2>3, ToOpenTail
  <2> QED
    BY <2>2, <2>4, Constants
<1>6. \A i \in Owned(positions', t) : positions'[i].mv = mv
  <2>1. record' = record
    BY <1>1 DEF engineVars
  <2>2. record[t] # None /\ record[t].master_open_volume = mv
    BY <1>1, OpeningFacts
  <2>3. RecordInv'
    BY DEF TradeInv
  <2> HIDE DEF t, mv
  <2> QED
    BY <1>2, <2>1, <2>2, <2>3 DEF RecordInv
<1>7. CASE positions' = positions /\ job'.todo \in {job.todo, << >>}
  <2>1. FitInv'
    BY <1>7 DEF FitInv
  <2>2. Total(positions', t) + ToOpen(job'.todo) <= mv
    <3> HIDE DEF t, mv, order
    <3> QED
      BY <1>3, <1>4, <1>5, <1>7
  <2> QED
    BY <1>1, <2>1, <2>2 DEF RoomInv
<1>8. ASSUME NEW v \in Nat, v <= order.volume, NewLeg(job, order, v) \in Leg,
             positions' = Append(positions, NewLeg(job, order, v)),
             job'.todo = Tail(job.todo)
      PROVE  FitInv' /\ RoomInv'
  <2> DEFINE e == NewLeg(job, order, v)
  <2>1. e.of = t /\ e.opened = v /\ e \in Leg
    BY <1>8 DEF NewLeg
  <2>2. positions' = Append(positions, e)
    BY <1>8
  <2> HIDE DEF e
  <2>3. Total(positions', t) <= Total(positions, t) + v
        /\ Total(positions', t) \in Nat
    <3>1. positions' \in Seq(Leg)
      BY DEF TypeInv
    <3> QED
      BY <1>2, <2>1, <2>2, <3>1, TotalAppend, TotalNat
  <2>4. Total(positions', t) + ToOpen(Tail(job.todo)) <= mv
    <3> HIDE DEF t, mv, order
    <3> QED
      BY <1>1, <1>3, <1>4, <1>5, <1>8, <2>3
  <2>5. Total(positions', t) <= mv
    <3> HIDE DEF t, mv
    <3> QED
      BY <1>5, <2>3, <2>4
  <2>6. FitInv'
    <3> SUFFICES ASSUME NEW u \in Tickets, NEW i \in Owned(positions', u)
                 PROVE  Total(positions', u) <= positions'[i].mv
      BY DEF FitInv
    <3>1. CASE u = t
      BY <1>6, <2>5, <3>1
    <3>2. CASE u # t
      <4>1. /\ i \in Owned(positions, u) /\ positions'[i] = positions[i]
            /\ Total(positions', u) = Total(positions, u)
        BY <1>2, <2>1, <2>2, <3>2, OpenOther, TotalAppend
      <4>2. Total(positions, u) <= positions[i].mv
        BY <4>1 DEF FitInv
      <4> QED
        BY <4>1, <4>2
    <3> QED
      BY <3>1, <3>2
  <2>7. RoomInv'
    BY <1>1, <1>8, <2>4 DEF RoomInv
  <2> QED
    BY <2>6, <2>7
<1> QED
  BY <1>1, <1>7, <1>8

LEMMA FitStep ==
  ASSUME SplittableSymbol, OpensAnswered,
         TypeInv, TypeInv', TradeInv, TradeInv', SmallOrders, FitInv, RoomInv,
         [Next]_vars
  PROVE  FitInv' /\ RoomInv'
<1>1. CASE positions' = positions /\ (job' = job \/ job' = None)
  BY <1>1 DEF FitInv, RoomInv
<1>2. ASSUME NEW t \in Tickets, Receive(t) PROVE FitInv' /\ RoomInv'
  <2>1. FitInv'
    BY <1>2 DEF FitInv, Receive
  <2> QED
    BY <1>2, <2>1, ReceiveRoom
<1>3. CASE Attempt /\ job.cmd.action = "OPEN"
  BY <1>3, AttemptFits
<1>4. CASE Attempt /\ job.cmd.action # "OPEN"
  <2>1. /\ job # None /\ job.todo # << >>
        /\ Head(job.todo) \in [leg : Nat, volume : Nat]
        /\ \E r \in Executing \cup {"rejected", "no_tick"} : \E v \in Nat :
             Sends(Head(job.todo), r, v)
    BY <1>4, AttemptSends
  <2>2. PICK r, v : v \in Nat /\ Sends(Head(job.todo), r, v)
    BY <2>1
  <2>3. job'.cmd = job.cmd
    BY <2>1, <2>2, JobAfter DEF Sends
  <2>4. Shrinks(positions, positions') /\ positions' \in Seq(Leg)
    BY <1>4, <2>1, <2>2, OrderShrinks DEF Sends, Fills
  <2> QED
    BY <1>4, <2>3, <2>4, FitShrinks DEF RoomInv
<1>5. ASSUME NEW j, BrokerCloses(j) PROVE FitInv' /\ RoomInv'
  <2>1. /\ positions' \in Seq(Leg) /\ Shrinks(positions, positions') /\ job' = job
    BY <1>5, BrokerClosesLegs DEF SameLegs, Shrinks
  <2>2. RoomInv'
    <3> SUFFICES ASSUME job # None, job.cmd.action = "OPEN"
                 PROVE  Total(positions', job.cmd.ticket) + ToOpen(job.todo)
                          <= job.cmd.master_volume
      BY <2>1 DEF RoomInv
    <3> DEFINE t == job.cmd.ticket
    <3>1. Total(positions, t) + ToOpen(job.todo) <= job.cmd.master_volume
      BY DEF RoomInv
    <3>2. /\ Total(positions', t) <= Total(positions, t)
          /\ Total(positions, t) \in Nat /\ Total(positions', t) \in Nat
      BY <2>1, TotalShrinks, TotalNat DEF TypeInv
    <3>3. ToOpen(job.todo) \in Nat /\ job.cmd.master_volume \in Nat
      <4>1. job.cmd \in OpenCommand /\ job.todo \in Seq([leg : Nat, volume : Nat])
        BY JobTyped, CommandKinds
      <4>2. job.cmd.master_volume \in MasterVolumes
        BY <4>1 DEF OpenCommand
      <4> QED
        BY <4>1, <4>2, ToOpenTail, Constants
    <3> HIDE DEF t
    <3>4. Total(positions', t) + ToOpen(job.todo) <= job.cmd.master_volume
      BY <3>1, <3>2, <3>3
    <3> QED
      BY <3>4 DEF t
  <2> QED
    BY <2>1, <2>2, FitShrinks
<1> QED
  BY <1>1, <1>2, <1>3, <1>4, <1>5
  DEF Next, vars, Answer, Recover, Restart, SendOpen, SendModify, SendPartial, SendClose

LEMMA FitInvariant ==
  TradeAssumptions /\ OpensAnswered => (Spec => [](FitInv /\ RoomInv))
<1> SUFFICES ASSUME TradeAssumptions, OpensAnswered
             PROVE  Spec => [](FitInv /\ RoomInv)
  OBVIOUS
<1>1. Init => FitInv /\ RoomInv
  <2> SUFFICES ASSUME Init PROVE FitInv /\ RoomInv
    OBVIOUS
  <2>1. positions = << >> /\ job = None
    BY DEF Init
  <2>2. \A t : Owned(positions, t) = {}
    BY <2>1 DEF Owned
  <2> QED
    BY <2>1, <2>2 DEF FitInv, RoomInv
<1>2. /\ TypeInv /\ TypeInv' /\ TradeInv /\ TradeInv' /\ SmallOrders
      /\ FitInv /\ RoomInv /\ [Next]_vars
      => (FitInv /\ RoomInv)'
  BY FitStep DEF TradeAssumptions
<1> QED
  BY <1>1, <1>2, TypeInvariant, TradeInvariant, SmallInvariant, PTL DEF Spec

(* With scans that do not fail, comments that are kept, opening orders     *)
(* that are answered, and no worker lost between the start and the first   *)
(* snapshot, the slave never holds more of a master position than it was   *)
(* told to copy, over any retries, chunks, restarts, recoveries and events *)
(* read before a recovery (mt5_worker.py:206-285, copy_loop.py:58-82,      *)
(* baseline.py:26-50).                                                     *)
THEOREM NeverTooMuch ==
  /\ ~ ScansFail /\ ~ EarlyLoss
  /\ SplittableSymbol /\ Mangled = {} /\ OpensAnswered
  => (Spec => []NeverOverfills)
<1> SUFFICES ASSUME ~ ScansFail, ~ EarlyLoss, SplittableSymbol, Mangled = {},
                    OpensAnswered
             PROVE  Spec => []NeverOverfills
  OBVIOUS
<1>1. TradeAssumptions
  BY DEF TradeAssumptions, SharesKnown
<1>2. FitInv => NeverOverfills
  <2> SUFFICES ASSUME FitInv, NEW t \in Tickets, NEW i \in LegsOf(t)
               PROVE  Sum(Opened, LegsOf(t)) <= positions[i].mv
    BY DEF NeverOverfills
  <2>1. LegsOf(t) = Owned(positions, t)
    BY DEF LegsOf, LiveLegs, Owned
  <2>2. Sum(Opened, LegsOf(t)) = Total(positions, t)
    BY <2>1 DEF Sum, Opened, Total, OpenedOf
  <2> QED
    BY <2>1, <2>2 DEF FitInv
<1> QED
  BY <1>1, <1>2, FitInvariant, PTL

-----------------------------------------------------------------------------
(* What a partial close leaves.                                            *)

(* A comment says what the position was really opened with.                *)
ExactComments ==
  Mangled = {} /\ "partial" \notin OpenResults /\ Hedging /\ SplittableSymbol

WholeOrders ==
  (job # None /\ job.cmd.action = "OPEN" /\ ~ job.split) =>
    \A k \in DOMAIN job.todo : job.todo[k].volume = job.cmd.volume

ExactLegs ==
  \A i \in DOMAIN positions :
    /\ positions[i].sv = positions[i].opened
    /\ positions[i].volume <= positions[i].opened

(* A leg less than a lot step above its share, which is what is left of it *)
(* or will be left by an order that is still to be sent.                   *)
WithinStep(volume, mo, opened, new) ==
  volume * mo < opened * new + Info.volume_step * mo

ShareInv ==
  (job # None /\ ~ job.failed /\ job.cmd.action = "PARTIAL_CLOSE") =>
    \A i \in Reachable(job.cmd) :
      LET Within(volume) ==
            WithinStep(volume, job.cmd.master_open_volume, positions[i].opened,
                       job.cmd.new_master_volume)
      IN  \/ Within(positions[i].volume)
          \/ \E k \in DOMAIN job.todo :
               /\ job.todo[k].leg = i
               /\ Within(positions[i].volume - job.todo[k].volume)

LEMMA WithinMono ==
  ASSUME NEW a \in Int, NEW b \in Int, a <= b, NEW mo \in Nat, NEW opened \in Nat,
         NEW new \in Nat, WithinStep(b, mo, opened, new)
  PROVE  WithinStep(a, mo, opened, new)
<1>1. a * mo <= b * mo
  BY TimesMono
<1> DEFINE am == a * mo
           bm == b * mo
           bound == opened * new + Info.volume_step * mo
<1>2. am \in Int /\ bm \in Int /\ bound \in Int
  BY Constants
<1>3. bm < bound /\ am <= bm
  BY <1>1 DEF WithinStep
<1> HIDE DEF am, bm, bound
<1>4. am < bound
  BY <1>2, <1>3
<1> QED
  BY <1>4 DEF WithinStep, am, bound

(* What Excess takes of a leg is enough.                                   *)
LEMMA FloorIsEnough ==
  ASSUME NEW vol \in Nat, NEW mo \in Nat, mo > 0, NEW new \in Nat, NEW opened \in Nat,
         NEW e, e = MinOf(vol, ((vol * mo - opened * new)
                                  \div (mo * Info.volume_step)) * Info.volume_step)
  PROVE  e \in Int /\ WithinStep(vol - e, mo, opened, new)
<1> DEFINE step == Info.volume_step
           a == vol * mo - opened * new
           d == mo * step
           q == a \div d
<1>1. step \in Nat /\ step > 0
  BY Constants
<1>2. a \in Int /\ d \in Int /\ d > 0
  <2> HIDE DEF step
  <2> QED
    BY <1>1
<1>3. q \in Int /\ ~ ((q + 1) * d <= a)
  <2> HIDE DEF a, d
  <2>1. q \in Int
    BY <1>2, DivisionFacts
  <2>2. q + 1 <= a \div d <=> (q + 1) * d <= a
    BY <1>2, <2>1, FitsQuotient
  <2> QED
    BY <2>1, <2>2
<1>4. e = MinOf(vol, q * step)
  OBVIOUS
<1> HIDE DEF q
<1>5. q * step \in Int
  <2> HIDE DEF step
  <2> QED
    BY <1>1, <1>3
<1>6. CASE e = vol
  <2>1. opened * new >= 0 /\ step * mo > 0
    <3> HIDE DEF step
    <3> QED
      BY <1>1
  <2>2. (vol - e) * mo = 0
    BY <1>6
  <2>3. opened * new \in Int /\ step * mo \in Int
    <3> HIDE DEF step
    <3> QED
      BY <1>1
  <2>4. 0 < opened * new + step * mo
    <3> DEFINE x == opened * new
               y == step * mo
    <3> HIDE DEF x, y
    <3>1. x >= 0 /\ y > 0 /\ x \in Int /\ y \in Int
      BY ONLY <2>1, <2>3 DEF x, y
    <3>2. 0 < x + y
      BY ONLY <3>1
    <3> QED
      BY ONLY <3>2 DEF x, y
  <2> QED
    BY <1>6, <2>2, <2>4 DEF WithinStep
<1>7. CASE e = q * step
  <2>1. (vol - e) * mo = vol * mo - q * d
    <3> HIDE DEF step
    <3>1. (q * step) * mo = q * d
      BY <1>1, <1>3
    <3>2. (vol - e) * mo = vol * mo - e * mo
      BY <1>5, <1>7
    <3> QED
      BY <1>7, <3>1, <3>2
  <2>2. (q + 1) * d = q * d + d /\ d = step * mo
    <3> HIDE DEF step
    <3> QED
      BY <1>1, <1>3
  <2>3. vol * mo < opened * new + (q + 1) * d
    <3> DEFINE x == vol * mo
               y == opened * new
               z == (q + 1) * d
    <3>1. x \in Int /\ y \in Int /\ a = x - y
      OBVIOUS
    <3>2. z \in Int
      <4> HIDE DEF d
      <4> QED
        BY <1>2, <1>3
    <3>3. ~ (z <= a)
      BY <1>3
    <3> HIDE DEF x, y, z, a
    <3>4. x < y + z
      BY ONLY <3>1, <3>2, <3>3
    <3> QED
      BY ONLY <3>4 DEF x, y, z
  <2>4. vol * mo \in Int /\ opened * new \in Int /\ q * d \in Int
    <3> HIDE DEF d
    <3> QED
      BY <1>2, <1>3
  <2>5. (vol - e) * mo < opened * new + step * mo
    <3> DEFINE x == vol * mo
               y == opened * new
               z == q * d
               w == step * mo
    <3>1. x \in Int /\ y \in Int /\ z \in Int
      BY <2>4
    <3>2. w \in Int /\ x < y + (z + w)
      BY <1>2, <2>2, <2>3
    <3> HIDE DEF x, y, z, w
    <3>3. x - z < y + w
      BY ONLY <3>1, <3>2
    <3>4. (vol - e) * mo = x - z
      BY <2>1 DEF x, z
    <3> QED
      BY ONLY <3>3, <3>4 DEF y, w
  <2>6. WithinStep(vol - e, mo, opened, new)
    BY ONLY <2>5 DEF WithinStep, step
  <2>7. e \in Int
    <3> HIDE DEF step
    <3> QED
      BY <1>5, <1>7
  <2> QED
    BY ONLY <2>6, <2>7
<1>8. e = vol \/ e = q * step
  BY <1>4 DEF MinOf
<1> QED
  BY <1>5, <1>6, <1>7, <1>8

LEMMA WholeStep ==
  ASSUME SplittableSymbol, Hedging, TypeInv, WholeOrders, [Next]_vars
  PROVE  WholeOrders'
<1>1. CASE job' = None \/ job' = job
  BY <1>1 DEF WholeOrders
<1>2. ASSUME NEW t \in Tickets, Receive(t) PROVE WholeOrders'
  <2> SUFFICES ASSUME job' # None, job'.cmd.action = "OPEN", ~ job'.split,
                      NEW k \in DOMAIN job'.todo
               PROVE  job'.todo[k].volume = job'.cmd.volume
    BY DEF WholeOrders
  <2> DEFINE c == Chunks(sent[t].volume)
  <2>1. /\ sent[t] \in OpenCommand /\ c \in Seq(Nat) /\ job'.cmd = sent[t]
        /\ Len(job'.todo) = Len(c) /\ Len(job'.todo) \in Nat
        /\ DOMAIN job'.todo = 1..Len(job'.todo)
        /\ job'.split = (Len(job'.todo) > 1) /\ job'.todo[k].volume = c[k]
    BY <1>2, ReceivesOpen
  <2>2. sent[t].volume \in MasterVolumes
    BY <2>1 DEF OpenCommand
  <2>3. Len(c) <= 1 => \A m \in 1..Len(c) : c[m] = sent[t].volume
    BY <2>2, ChunksRight
  <2> HIDE DEF c
  <2>4. Len(c) <= 1
    <3>1. job'.split = (Len(job'.todo) > 1)
      BY <2>1, Zenon
    <3>2. ~ (Len(job'.todo) > 1)
      BY <3>1, Zenon
    <3> QED
      BY <2>1, <3>2
  <2> QED
    BY <2>1, <2>3, <2>4
<1>3. CASE Attempt
  <2> SUFFICES ASSUME job' # None, job'.cmd.action = "OPEN", ~ job'.split,
                      NEW k \in DOMAIN job'.todo
               PROVE  job'.todo[k].volume = job'.cmd.volume
    BY DEF WholeOrders
  <2>1. /\ job # None /\ job.todo # << >>
        /\ \E r \in Executing \cup {"rejected", "no_tick"} : \E v \in Nat :
             Sends(Head(job.todo), r, v)
    BY <1>3, AttemptSends
  <2>2. PICK r, v : v \in Nat /\ Sends(Head(job.todo), r, v)
    BY <2>1
  <2>3. /\ job'.cmd = job.cmd /\ job'.split = job.split
        /\ job'.todo \in {Tail(job.todo), job.todo, << >>}
    BY <2>1, <2>2, JobAfter DEF Sends
  <2>4. \A m \in DOMAIN job.todo : job.todo[m].volume = job.cmd.volume
    BY <2>1, <2>3 DEF WholeOrders
  <2>5. job.todo \in Seq([leg : Nat, volume : Nat])
    BY <2>1, JobTyped
  <2>6. CASE job'.todo = Tail(job.todo)
    <3> DEFINE todo == job.todo
    <3> HIDE DEF todo
    <3>1. todo \in Seq([leg : Nat, volume : Nat]) /\ todo # << >>
      BY <2>1, <2>5 DEF todo
    <3>2. \A m \in DOMAIN Tail(todo) : m + 1 \in DOMAIN todo /\ Tail(todo)[m] = todo[m + 1]
      BY <3>1, HeadTail
    <3>3. k \in DOMAIN Tail(todo) /\ job'.todo[k] = Tail(todo)[k]
      BY <2>6 DEF todo
    <3>4. k + 1 \in DOMAIN job.todo /\ job'.todo[k] = job.todo[k + 1]
      BY ONLY <3>2, <3>3 DEF todo
    <3> QED
      BY <2>3, <2>4, <3>4
  <2>7. CASE job'.todo = job.todo
    BY <2>3, <2>4, <2>7
  <2>8. CASE job'.todo = << >>
    BY <2>8
  <2> QED
    BY <2>3, <2>6, <2>7, <2>8
<1> QED
  BY <1>1, <1>2, <1>3
  DEF Next, vars, Answer, Recover, Restart, BrokerCloses, SendOpen, SendModify,
      SendPartial, SendClose

LEMMA ExactAttempt ==
  ASSUME "partial" \notin OpenResults, TypeInv, TypeInv', WholeOrders, ExactLegs, Attempt
  PROVE  ExactLegs'
<1> DEFINE order == Head(job.todo)
<1>1. /\ job # None /\ job.todo # << >>
      /\ order \in [leg : Nat, volume : Nat]
      /\ \E r \in Executing \cup {"rejected", "no_tick"} : \E v \in Nat : Sends(order, r, v)
  BY AttemptSends
<1>2. PICK r, v : v \in Nat /\ Sends(order, r, v)
  BY <1>1
<1>3. job.todo \in Seq([leg : Nat, volume : Nat])
  BY <1>1, JobTyped
<1>4. order = job.todo[1] /\ 1 \in DOMAIN job.todo
  BY <1>1, <1>3, HeadTail
<1>5. Touches(order, r, v) /\ Fills(order, r, v) /\ v <= order.volume
  BY <1>2 DEF Sends, Fills
<1> HIDE DEF order
<1>6. /\ SameLegs /\ positions' \in Seq(Leg)
      /\ \A i \in DOMAIN positions' : i \notin DOMAIN positions =>
           /\ r \in Executing /\ job.cmd.action = "OPEN"
           /\ positions'[i] = NewLeg(job, order, v)
  BY <1>1, <1>2, <1>5, TouchesLegs
<1> SUFFICES ASSUME NEW i \in DOMAIN positions'
             PROVE  /\ positions'[i].sv = positions'[i].opened
                    /\ positions'[i].volume <= positions'[i].opened
  BY DEF ExactLegs
<1>7. positions \in Seq(Leg)
  BY DEF TypeInv
<1>8. CASE i \in DOMAIN positions
  <2>1. /\ positions'[i].sv = positions[i].sv /\ positions'[i].opened = positions[i].opened
        /\ positions'[i].volume <= positions[i].volume
    BY <1>6, <1>8 DEF SameLegs
  <2>2. positions[i].sv = positions[i].opened /\ positions[i].volume <= positions[i].opened
    BY <1>8 DEF ExactLegs
  <2>3. /\ positions[i].volume \in Nat /\ positions[i].opened \in Nat
        /\ positions'[i].volume \in Nat
    <3>1. positions'[i] \in Leg /\ positions[i] \in Leg
      BY <1>6, <1>7, <1>8, InSequence
    <3> QED
      BY <3>1 DEF Leg
  <2> QED
    BY <2>1, <2>2, <2>3
<1>9. CASE i \notin DOMAIN positions
  <2>1. /\ r \in Executing /\ job.cmd.action = "OPEN"
        /\ positions'[i] = NewLeg(job, order, v)
    BY <1>6, <1>9
  <2>2. v = order.volume
    BY <1>5, <2>1 DEF Fills, Executing
  <2>3. ~ job.split => order.volume = job.cmd.volume
    BY <1>1, <1>4, <2>1 DEF WholeOrders
  <2>4. /\ positions'[i].sv = IF job.split THEN order.volume ELSE job.cmd.volume
        /\ positions'[i].opened = v /\ positions'[i].volume = v
    BY <2>1 DEF NewLeg
  <2> QED
    BY <1>2, <2>2, <2>3, <2>4
<1> QED
  BY <1>8, <1>9

LEMMA ExactStep ==
  ASSUME "partial" \notin OpenResults, TypeInv, TypeInv', WholeOrders, ExactLegs,
         [Next]_vars
  PROVE  ExactLegs'
<1>1. CASE positions' = positions
  BY <1>1 DEF ExactLegs
<1>2. CASE Attempt
  BY <1>2, ExactAttempt
<1>3. ASSUME NEW j, BrokerCloses(j) PROVE ExactLegs'
  <2>1. /\ SameLegs /\ DOMAIN positions' = DOMAIN positions /\ positions' \in Seq(Leg)
        /\ positions'[j].volume = 0 /\ positions'[j].ended
        /\ \A i \in DOMAIN positions : i # j => positions'[i] = positions[i]
    BY <1>3, BrokerClosesLegs
  <2> SUFFICES ASSUME NEW i \in DOMAIN positions
               PROVE  /\ positions'[i].sv = positions'[i].opened
                      /\ positions'[i].volume <= positions'[i].opened
    BY <2>1 DEF ExactLegs
  <2>2. positions'[i].sv = positions[i].sv /\ positions'[i].opened = positions[i].opened
    BY <2>1 DEF SameLegs
  <2>3. positions[i].opened \in Nat
    BY LegTyped DEF TypeInv
  <2> QED
    BY <2>1, <2>2, <2>3 DEF ExactLegs
<1> QED
  BY <1>1, <1>2, <1>3
  DEF Next, vars, Answer, Receive, Recover, Restart, SendOpen, SendModify,
      SendPartial, SendClose

LEMMA ReceiveShare ==
  ASSUME Mangled = {}, TypeInv, ExactLegs, NEW t \in Tickets, Receive(t)
  PROVE  ShareInv'
<1> SUFFICES ASSUME job' # None, ~ job'.failed, job'.cmd.action = "PARTIAL_CLOSE",
                    NEW i, i \in Reachable(job.cmd)'
             PROVE  \/ WithinStep(positions[i].volume, job'.cmd.master_open_volume,
                                  positions[i].opened, job'.cmd.new_master_volume)
                    \/ \E k \in DOMAIN job'.todo :
                         /\ job'.todo[k].leg = i
                         /\ WithinStep(positions[i].volume - job'.todo[k].volume,
                                       job'.cmd.master_open_volume,
                                       positions[i].opened, job'.cmd.new_master_volume)
  BY DEF ShareInv, Receive
<1> DEFINE cmd  == sent[t]
           legs == FindLegs(cmd, LiveLegs)
           mo   == cmd.master_open_volume
           new  == cmd.new_master_volume
           vol  == positions[i].volume
           op   == positions[i].opened
           e    == Excess(i, cmd, legs)
<1>1. PICK scan \in Scans :
        LET found == IF cmd.action = "OPEN" THEN {} ELSE FindLegs(cmd, scan)
        IN  \E todo \in Orders(cmd, found) :
              job' = [cmd |-> cmd, todo |-> todo, tries |-> 0,
                      split |-> Len(todo) > 1, filled |-> 0,
                      first |-> 0, before |-> Len(positions),
                      failed |-> cmd.action \in {"MODIFY", "PARTIAL_CLOSE"}
                                   /\ found = {}]
  BY DEF Receive
<1>2. positions' = positions /\ positions \in Seq(Leg) /\ cmd \in Command
  BY DEF Receive, TypeInv, SentOK
<1>3. job'.cmd = cmd /\ cmd.action = "PARTIAL_CLOSE"
  BY <1>1
<1>4. cmd \in PartialCommand
  BY <1>2, <1>3, CommandKinds
<1>5. FindLegs(cmd, scan) # {}
  <2> DEFINE found == FindLegs(cmd, scan)
             failed == cmd.action \in {"MODIFY", "PARTIAL_CLOSE"} /\ found = {}
  <2>1. job'.failed = failed
    BY <1>1, <1>3
  <2>2. failed <=> found = {}
    BY <1>3
  <2> HIDE DEF failed, found
  <2>3. ~ failed
    BY <2>1, Zenon
  <2> QED
    BY <2>2, <2>3 DEF found
<1>6. scan = LiveLegs
  <2>1. FindLegs(cmd, {}) = {}
    BY DEF FindLegs, Commented
  <2> QED
    BY <1>5, <2>1 DEF Scans
<1>7. job'.todo \in Orders(cmd, legs)
  BY <1>1, <1>3, <1>6
<1>8. /\ i \in legs /\ i \in DOMAIN positions /\ vol > 0
      /\ legs \in SUBSET DOMAIN positions
  <2>1. i \in Reachable(cmd)
    BY <1>2, <1>3, ReachableIs DEF Reachable, LegsOf, LiveLegs, Intact
  <2> QED
    BY <2>1, ReachableIs, ReachableFound DEF FindLegs, Commented, LiveLegs
<1>9. vol \in Nat /\ op \in Nat /\ positions[i].sv = op /\ vol <= op
  BY <1>2, <1>8, LegTyped DEF ExactLegs
<1>10. mo \in Nat /\ mo > 0 /\ new \in Nat
  <2>1. mo \in MasterVolumes /\ new \in MasterVolumes
    BY <1>4 DEF PartialCommand
  <2>2. \A u \in MasterVolumes : u \in Nat /\ u > 0
    BY Constants
  <2> HIDE DEF mo, new
  <2> QED
    BY <2>1, <2>2
<1>11. ShareOf(i, cmd, legs) = op
  BY <1>8, <1>9 DEF ShareOf, Intact, CommentSV
<1>12. e = MinOf(vol, ((vol * mo - op * new) \div (mo * Info.volume_step)) * Info.volume_step)
  BY <1>8, <1>9, <1>11 DEF Excess
<1>13. i \in Due(cmd, legs) <=> e > 0
  BY <1>3, <1>8 DEF Due
<1>14. VolumeFor(i, cmd, legs) = e
  BY <1>3 DEF VolumeFor
<1>15. i \in Due(cmd, legs) =>
         \E k \in DOMAIN job'.todo : job'.todo[k].leg = i /\ job'.todo[k].volume = e
  <2> HIDE DEF cmd, legs, e
  <2>1. cmd.action # "OPEN" /\ legs \in SUBSET DOMAIN positions
    BY <1>3, <1>8
  <2> QED
    BY <1>2, <1>7, <1>14, <2>1, OrdersAre
<1> HIDE DEF cmd, legs, mo, new, vol, op, e
<1>16. e \in Int /\ WithinStep(vol - e, mo, op, new)
  BY <1>9, <1>10, <1>12, FloorIsEnough
<1>17. CASE e > 0
  BY <1>3, <1>13, <1>15, <1>16, <1>17 DEF mo, new, vol, op
<1>18. CASE ~ (e > 0)
  <2>1. vol <= vol - e /\ vol \in Int /\ vol - e \in Int
    BY <1>9, <1>16, <1>18
  <2>2. WithinStep(vol, mo, op, new)
    BY <1>9, <1>10, <1>16, <2>1, WithinMono
  <2> QED
    BY <1>3, <2>2 DEF mo, new, vol, op
<1> QED
  BY <1>17, <1>18

LEMMA AttemptShare ==
  ASSUME TypeInv, ShareInv, Attempt
  PROVE  ShareInv'
<1> DEFINE order == Head(job.todo)
<1>1. /\ job # None /\ job.todo # << >>
      /\ order \in [leg : Nat, volume : Nat]
      /\ \E r \in Executing \cup {"rejected", "no_tick"} : \E v \in Nat : Sends(order, r, v)
  BY AttemptSends
<1>2. PICK r, v : v \in Nat /\ Sends(order, r, v)
  BY <1>1
<1>3. /\ job.todo \in Seq([leg : Nat, volume : Nat]) /\ job.failed \in BOOLEAN
      /\ job.cmd \in Command
  BY <1>1, JobTyped
<1>4. /\ order = job.todo[1] /\ 1 \in DOMAIN job.todo
      /\ DOMAIN job.todo = 1..Len(job.todo) /\ Len(job.todo) \in Nat
      /\ DOMAIN Tail(job.todo) = 1..(Len(job.todo) - 1)
      /\ \A k \in DOMAIN Tail(job.todo) : Tail(job.todo)[k] = job.todo[k + 1]
  BY <1>1, <1>3, HeadTail
<1>5. /\ Touches(order, r, v) /\ Continues(r, v) /\ v <= order.volume
      /\ r \in {"done", "lost"} => v = order.volume
  BY <1>2 DEF Sends, Fills
<1> HIDE DEF order
<1>6. job'.cmd = job.cmd
  BY <1>1, <1>2, <1>5, JobAfter
<1> DEFINE mo  == job.cmd.master_open_volume
           new == job.cmd.new_master_volume
<1> SUFFICES ASSUME ~ job'.failed, job.cmd.action = "PARTIAL_CLOSE",
                    NEW i, i \in Reachable(job.cmd)'
             PROVE  \/ WithinStep(positions'[i].volume, mo, positions'[i].opened, new)
                    \/ \E k \in DOMAIN job'.todo :
                         /\ job'.todo[k].leg = i
                         /\ WithinStep(positions'[i].volume - job'.todo[k].volume,
                                       mo, positions'[i].opened, new)
  BY <1>6 DEF ShareInv
<1>7. \/ r = "done" /\ job'.todo = Tail(job.todo) /\ job'.failed = job.failed
      \/ r # "done" /\ job'.todo = job.todo /\ job'.failed = job.failed
  BY <1>1, <1>2, <1>5, JobAfter
<1>8. ~ job.failed
  BY <1>7
<1>9. /\ i \in Reachable(job.cmd) /\ i \in DOMAIN positions
      /\ positions'[i].volume <= positions[i].volume
      /\ positions'[i].volume \in Nat /\ positions[i].volume \in Nat
  BY <1>1, <1>2, <1>5, <1>6, ReachableShrinks
<1> DEFINE op   == positions[i].opened
           was  == positions[i].volume
           now  == positions'[i].volume
<1>10. positions'[i].opened = op /\ op \in Nat
  <2>1. SameLegs
    BY <1>1, <1>2, <1>5, TouchesLegs
  <2>2. positions[i].opened \in Nat
    BY <1>9, LegTyped DEF TypeInv
  <2> QED
    BY <1>9, <2>1, <2>2 DEF SameLegs
<1>11. mo \in Nat /\ new \in Nat
  <2>1. job.cmd \in PartialCommand
    BY <1>3, CommandKinds
  <2>2. mo \in MasterVolumes /\ new \in MasterVolumes
    BY <2>1 DEF PartialCommand
  <2> HIDE DEF mo, new
  <2> QED
    BY <2>2, Constants
<1>12. \/ WithinStep(was, mo, op, new)
       \/ \E k \in DOMAIN job.todo :
            job.todo[k].leg = i /\ WithinStep(was - job.todo[k].volume, mo, op, new)
  BY <1>1, <1>8, <1>9 DEF ShareInv
<1>13. was \in Nat /\ now \in Nat /\ now <= was
  BY <1>9
<1>14. order.leg = i /\ r = "done" => now = was - order.volume
  <2> SUFFICES ASSUME order.leg = i, r = "done" PROVE now = was - order.volume
    OBVIOUS
  <2>1. /\ positions' = [positions EXCEPT ![i].volume = @ - order.volume]
    BY <1>5 DEF Touches
  <2>2. positions[i] \in Leg
    BY <1>9, LegTyped DEF TypeInv
  <2> QED
    BY <1>9, <2>1, <2>2 DEF Leg
<1> HIDE DEF mo, new, op, was, now
<1>15. CASE WithinStep(was, mo, op, new)
  <2>1. WithinStep(now, mo, op, new)
    BY <1>10, <1>11, <1>13, <1>15, WithinMono
  <2> QED
    BY <1>10, <2>1 DEF now
<1>16. ASSUME NEW k \in DOMAIN job.todo, job.todo[k].leg = i,
              WithinStep(was - job.todo[k].volume, mo, op, new)
       PROVE  \/ WithinStep(now, mo, op, new)
              \/ \E m \in DOMAIN job'.todo :
                   /\ job'.todo[m].leg = i
                   /\ WithinStep(now - job'.todo[m].volume, mo, op, new)
  <2>1. job.todo[k].volume \in Nat
    <3>1. job.todo[k] \in [leg : Nat, volume : Nat]
      BY <1>3, <1>16, InSequence
    <3> QED
      BY <3>1
  <2>2. WithinStep(now - job.todo[k].volume, mo, op, new)
    <3> DEFINE x == job.todo[k].volume
    <3> HIDE DEF x
    <3>1. now - x \in Int /\ was - x \in Int /\ now - x <= was - x
      BY <1>13, <2>1 DEF x
    <3>2. WithinStep(was - x, mo, op, new)
      BY <1>16 DEF x
    <3>3. WithinStep(now - x, mo, op, new)
      BY <1>10, <1>11, <3>1, <3>2, WithinMono
    <3> QED
      BY <3>3 DEF x
  <2>3. CASE r # "done" /\ job'.todo = job.todo
    BY <1>16, <2>2, <2>3
  <2>4. CASE r = "done" /\ job'.todo = Tail(job.todo) /\ k # 1
    <3>1. k - 1 \in DOMAIN job'.todo /\ job'.todo[k - 1] = job.todo[k]
      BY <1>4, <2>4
    <3> QED
      BY <1>16, <2>2, <3>1
  <2>5. CASE r = "done" /\ k = 1
    <3>1. order = job.todo[k]
      BY <1>4, <2>5
    <3>2. now = was - order.volume
      BY <1>14, <1>16, <2>5, <3>1
    <3> QED
      BY <1>16, <3>1, <3>2
  <2> QED
    BY <1>7, <2>3, <2>4, <2>5
<1>17. \/ WithinStep(now, mo, op, new)
       \/ \E m \in DOMAIN job'.todo :
            /\ job'.todo[m].leg = i
            /\ WithinStep(now - job'.todo[m].volume, mo, op, new)
  BY <1>10, <1>12, <1>15, <1>16 DEF now
<1> QED
  BY <1>10, <1>17 DEF now

LEMMA BrokerClosesShare ==
  ASSUME TypeInv, ShareInv, NEW j, BrokerCloses(j)
  PROVE  ShareInv'
<1>1. /\ DOMAIN positions' = DOMAIN positions /\ positions'[j].volume = 0
      /\ \A i \in DOMAIN positions : i # j => positions'[i] = positions[i]
      /\ job' = job
  BY BrokerClosesLegs
<1> SUFFICES ASSUME job # None, ~ job.failed, job.cmd.action = "PARTIAL_CLOSE",
                    NEW i, i \in Reachable(job.cmd)'
             PROVE  /\ i \in Reachable(job.cmd)
                    /\ positions'[i] = positions[i]
  BY <1>1 DEF ShareInv
<1>2. /\ i \in DOMAIN positions' /\ positions'[i].volume > 0
      /\ positions'[i].of = job.cmd.ticket
      /\ i \notin Mangled \/ i = job.cmd.slave_ticket
  BY <1>1 DEF Reachable, LegsOf, LiveLegs, Intact
<1>3. i # j /\ positions'[i] = positions[i] /\ i \in DOMAIN positions
  BY <1>1, <1>2
<1> QED
  BY <1>2, <1>3, ReachableIs

(* On a hedging account whose broker keeps comments and fills opening      *)
(* orders whole, an ok answer to a PARTIAL_CLOSE means that no leg is a    *)
(* whole lot step above its share of the master's new volume, also after   *)
(* retries, lost answers and closes by the broker in between               *)
(* (mt5_worker.py:324-398).                                                *)
THEOREM PartialIsProportional ==
  ExactComments => (Spec => []PartialKeepsProportion)
<1> SUFFICES ASSUME ExactComments PROVE Spec => []PartialKeepsProportion
  OBVIOUS
<1>1. Init => WholeOrders /\ ExactLegs /\ ShareInv
  BY DEF Init, WholeOrders, ExactLegs, ShareInv
<1>2. TypeInv /\ TypeInv' /\ WholeOrders /\ ExactLegs /\ ShareInv /\ [Next]_vars
      => (WholeOrders /\ ExactLegs /\ ShareInv)'
  <2> SUFFICES ASSUME TypeInv, TypeInv', WholeOrders, ExactLegs, ShareInv, [Next]_vars
               PROVE  WholeOrders' /\ ExactLegs' /\ ShareInv'
    OBVIOUS
  <2>1. WholeOrders' /\ ExactLegs'
    BY WholeStep, ExactStep DEF ExactComments
  <2>2. CASE job' = None
    BY <2>1, <2>2 DEF ShareInv
  <2>3. CASE job' = job /\ positions' = positions
    BY <2>1, <2>3 DEF ShareInv, Reachable, LegsOf, LiveLegs
  <2>4. CASE Attempt
    BY <2>1, <2>4, AttemptShare
  <2>5. ASSUME NEW t \in Tickets, Receive(t) PROVE ShareInv'
    BY <2>5, ReceiveShare DEF ExactComments
  <2>6. ASSUME NEW j, BrokerCloses(j) PROVE ShareInv'
    BY <2>6, BrokerClosesShare
  <2> QED
    BY <2>1, <2>2, <2>3, <2>4, <2>5, <2>6
    DEF Next, vars, Answer, Recover, Restart, SendOpen, SendModify, SendPartial,
        SendClose
<1>3. ShareInv => PartialKeepsProportion
  <2> SUFFICES ASSUME ShareInv, Finished("PARTIAL_CLOSE"), Ok(job),
                      NEW i \in Reachable(job.cmd)
               PROVE  WithinStep(positions[i].volume, job.cmd.master_open_volume,
                                 positions[i].opened, job.cmd.new_master_volume)
    BY DEF PartialKeepsProportion, WithinStep
  <2>1. job # None /\ ~ job.failed /\ job.cmd.action = "PARTIAL_CLOSE" /\ DOMAIN job.todo = {}
    BY DEF Finished, Ok
  <2> QED
    BY <2>1 DEF ShareInv
<1> QED
  BY <1>1, <1>2, <1>3, TypeInvariant, PTL DEF Spec
=============================================================================
