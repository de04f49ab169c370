-------------------------- MODULE SupervisorProofs --------------------------
(***************************************************************************)
(* Proofs about Supervisor, for any number of slaves and any times.        *)
(***************************************************************************)
EXTENDS Supervisor, NaturalsInduction, WellFoundedInduction, TLAPS

(* A worker's failures are counted up to its restart.                      *)
Counted ==
  \A w \in Workers : fails[w] = Failures => pc = "respawn" /\ victim = w

Typed == TypeOK /\ Counted

(* Until a master has been heard its heartbeat is as old as its handle.    *)
BeatFollows ==
  ~firstSeen[Master] => snapSeen = FALSE /\ age[Master] = snapAge

Beat == BeatFollows /\ GraceIsKept

(* Who runs has a handle; after a shutdown nobody has, and no tick is on.  *)
Owned == \A w \in Workers : Alive(w) => w \in managed

Shut == phase \in {"stopped", "failed"} =>
          pc = "top" /\ \A w \in Workers : ~Alive(w)

(* The handle w is being replaced.                                         *)
Replacing(w) == pc = "respawn" /\ victim = w

(* The pauses already taken and the one under way, counted from the        *)
(* beginning of the restart before it.  A handle that carries a backoff has*)
(* not been heard, and its grace window outlives the backoff.              *)
Throttled(w) ==
  /\ restarts[w] > 0 => ~firstSeen[w]
  /\ restarts[w] = 0 /\ ~Replacing(w) => backoff[w] = 0
  /\ backoff[w] > 0 /\ ~Replacing(w) => age[w] + backoff[w] <= MaxBackoff
  /\ storm[w] >= StormTime[Begun(w)]
  /\ Begun(w) \in 1..MaxRestarts - 1 =>
       storm[w] + backoff[w] >= StormTime[Begun(w) + 1]

Storms == \A w \in Workers : Throttled(w)

-----------------------------------------------------------------------------
(* Induction on numbers.                                                   *)

(* A set of numbers that is not empty has a least element.                 *)
LEMMA LeastIn ==
  ASSUME NEW R, IsWellFoundedOn(R, Nat),
         \A x, y \in Nat : << y, x >> \in R <=> y < x,
         NEW T \in SUBSET Nat, T # {}
  PROVE  \E x \in T : \A y \in T : x <= y
<1>1. PICK x \in T : \A y \in T : ~ (<< y, x >> \in R)
  BY WFMin
<1>2. \A y \in T : ~ (y < x)
  BY <1>1
<1> QED
  BY <1>2

LEMMA LeastNat ==
  ASSUME NEW T \in SUBSET Nat, T # {}
  PROVE  \E x \in T : \A y \in T : x <= y
<1>1. IsWellFoundedOn(OpToRel(<, Nat), Nat)
  BY NatLessThanWellFounded
<1>2. \A x, y \in Nat : << y, x >> \in OpToRel(<, Nat) <=> y < x
  BY DEF OpToRel
<1> QED
  BY <1>1, <1>2, LeastIn

(* Induction up to N, for the numbers of a set.                            *)
LEMMA UpTo ==
  ASSUME NEW N \in Nat, NEW T, 0 \in T,
         \A n \in 1 .. N : n - 1 \in T => n \in T
  PROVE  \A n \in 0 .. N : n \in T
<1> DEFINE U == {n \in 0 .. N : n \notin T}
<1>1. ASSUME U # {} PROVE FALSE
  <2>1. PICK k \in U : \A m \in U : k <= m
    <3>1. U \in SUBSET Nat
      OBVIOUS
    <3> HIDE DEF U
    <3> QED
      BY <1>1, <3>1, LeastNat
  <2>2. k \in 1 .. N /\ k - 1 \in 0 .. N /\ k \notin T
    OBVIOUS
  <2>3. k - 1 \notin U
    <3> HIDE DEF U
    <3> QED
      BY <2>1, <2>2
  <2> QED
    BY <2>2, <2>3
<1> QED
  BY <1>1

(* A function defined by recursion on a number exists.                     *)
LEMMA Recursion ==
  ASSUME NEW N \in Nat, NEW a \in Nat,
         NEW h \in [(1 .. N) \X Nat -> Nat]
  PROVE  \E g \in [0 .. N -> Nat] :
           \A n \in 0 .. N : g[n] = IF n = 0 THEN a ELSE h[<< n, g[n - 1] >>]
<1> DEFINE Good(k, g) ==
             \A n \in 0 .. k : g[n] = IF n = 0 THEN a ELSE h[<< n, g[n - 1] >>]
           Exists(k) == \E g \in [0 .. k -> Nat] : Good(k, g)
           T == {k \in 0 .. N : Exists(k)}
<1>1. Exists(0)
  <2> DEFINE g == [n \in 0 .. 0 |-> a]
  <2>1. g \in [0 .. 0 -> Nat] /\ Good(0, g)
    OBVIOUS
  <2> QED
    BY <2>1
<1>2. ASSUME NEW k \in 1 .. N, Exists(k - 1) PROVE Exists(k)
  <2>1. PICK g \in [0 .. k - 1 -> Nat] : Good(k - 1, g)
    BY <1>2
  <2> DEFINE v == h[<< k, g[k - 1] >>]
             f == [n \in 0 .. k |-> IF n = k THEN v ELSE g[n]]
  <2>2. v \in Nat
    OBVIOUS
  <2>3. /\ f \in [0 .. k -> Nat] /\ f[k] = v
        /\ \A n \in 0 .. k - 1 : f[n] = g[n]
    <3> HIDE DEF v
    <3> QED
      BY <2>2
  <2>4. ASSUME NEW n \in 0 .. k
        PROVE  f[n] = IF n = 0 THEN a ELSE h[<< n, f[n - 1] >>]
    <3>1. CASE n = k
      <4>1. k - 1 \in 0 .. k - 1 /\ k # 0
        OBVIOUS
      <4>2. f[k - 1] = g[k - 1]
        BY <2>3, <4>1
      <4> HIDE DEF f
      <4> QED
        BY <2>3, <3>1, <4>1, <4>2
    <3>2. CASE n # k
      <4>1. n \in 0 .. k - 1 /\ (n # 0 => n - 1 \in 0 .. k - 1)
        BY <3>2
      <4>2. g[n] = IF n = 0 THEN a ELSE h[<< n, g[n - 1] >>]
        BY <2>1, <4>1
      <4>3. f[n] = g[n] /\ (n # 0 => f[n - 1] = g[n - 1])
        BY <2>3, <4>1
      <4> HIDE DEF f
      <4> QED
        BY <4>2, <4>3
    <3> QED
      BY <3>1, <3>2
  <2>5. Good(k, f)
    BY <2>4
  <2> HIDE DEF f, Good
  <2> QED
    BY <2>3, <2>5
<1>3. \A k \in 0 .. N : k \in T
  <2> HIDE DEF Exists
  <2>1. 0 \in T /\ \A k \in 1 .. N : k - 1 \in T => k \in T
    BY <1>1, <1>2
  <2> HIDE DEF T
  <2> QED
    BY <2>1, UpTo
<1>4. Exists(N)
  <2> HIDE DEF Exists
  <2> QED
    BY <1>3
<1> QED
  BY <1>4

-----------------------------------------------------------------------------
(* The constants, the backoff and the time restarts must have taken.       *)
LEMMA Constants ==
  /\ Grace \in Nat /\ Stale \in Nat /\ Failures \in Nat \ {0}
  /\ BaseBackoff \in Nat /\ MaxBackoff \in Nat /\ Heartbeat \in Nat
  /\ StartTimeout \in Nat /\ MaxPipe \in Nat /\ MaxRestarts \in Nat \ {0}
  /\ Stale <= Grace /\ 2 * Heartbeat <= Grace
  /\ AgeLimit \in Nat /\ AgeLimit = Grace + 1
  /\ Master \in Workers /\ Master \notin Slaves /\ None \notin Workers
  /\ Slaves \subseteq Workers
  BY SupervisorConstants DEF AgeLimit, Workers

LEMMA DoubledFacts == \A n \in 0..MaxRestarts : Doubled[n] \in Nat
<1> DEFINE h == [p \in (1..MaxRestarts) \X Nat |-> 2 * p[2]]
           Is(g) == g = [n \in 0..MaxRestarts |->
                           IF n = 0 THEN BaseBackoff ELSE 2 * g[n - 1]]
           T == {n \in 0..MaxRestarts : Doubled[n] \in Nat}
<1>1. h \in [(1..MaxRestarts) \X Nat -> Nat]
  OBVIOUS
<1>2. \A n \in 1..MaxRestarts : \A x \in Nat : h[<< n, x >>] = 2 * x
  OBVIOUS
<1> HIDE DEF h
<1>3. PICK g \in [0..MaxRestarts -> Nat] :
        \A n \in 0..MaxRestarts :
          g[n] = IF n = 0 THEN BaseBackoff ELSE h[<< n, g[n - 1] >>]
  <2>1. MaxRestarts \in Nat /\ BaseBackoff \in Nat
    BY Constants
  <2> QED
    BY <1>1, <2>1, Recursion, ZenonT(40)
<1>4. Is(g)
  <2>1. \A n \in 0..MaxRestarts : n # 0 => /\ n \in 1..MaxRestarts
                                           /\ n - 1 \in 0..MaxRestarts
    BY Constants
  <2>2. \A n \in 0..MaxRestarts :
          g[n] = IF n = 0 THEN BaseBackoff ELSE 2 * g[n - 1]
    BY <1>2, <1>3, <2>1
  <2> QED
    BY <2>2
<1>5. Doubled = CHOOSE f : Is(f)
  BY DEF Doubled
<1>6. Is(Doubled)
  <2> HIDE DEF Is
  <2> QED
    BY <1>4, <1>5
<1>7. 0 \in T /\ \A n \in 1..MaxRestarts : n - 1 \in T => n \in T
  BY <1>6, Constants, SMTT(20)
<1>8. \A n \in 0..MaxRestarts : n \in T
  <2> HIDE DEF T
  <2> QED
    BY <1>7, Constants, UpTo
<1> QED
  BY <1>8

LEMMA DelayFacts == \A n \in 0..MaxRestarts : Delay(n) \in 0..MaxBackoff
  BY DoubledFacts, Constants DEF Delay, Least

LEMMA StormTimeFacts ==
  /\ \A n \in 0..MaxRestarts : StormTime[n] \in Nat
  /\ \A n \in 0..MaxRestarts :
       StormTime[n] = IF n <= 1 THEN 0 ELSE StormTime[n - 1] + Delay(n - 2)
<1> DEFINE step(n, x) == IF n <= 1 THEN 0 ELSE x + Delay(n - 2)
           h == [p \in (1..MaxRestarts) \X Nat |-> step(p[1], p[2])]
           Is(g) == g = [n \in 0..MaxRestarts |->
                           IF n <= 1 THEN 0 ELSE g[n - 1] + Delay(n - 2)]
           T == {n \in 0..MaxRestarts : StormTime[n] \in Nat}
<1>1. \A n \in 1..MaxRestarts : \A x \in Nat : step(n, x) \in Nat
  BY DelayFacts, Constants
<1>2. h \in [(1..MaxRestarts) \X Nat -> Nat]
  <2> HIDE DEF step
  <2> QED
    BY <1>1
<1>3. \A n \in 1..MaxRestarts : \A x \in Nat : h[<< n, x >>] = step(n, x)
  <2> HIDE DEF step
  <2> QED
    OBVIOUS
<1> HIDE DEF h
<1>4. PICK g \in [0..MaxRestarts -> Nat] :
        \A n \in 0..MaxRestarts : g[n] = IF n = 0 THEN 0 ELSE h[<< n, g[n - 1] >>]
  <2>1. MaxRestarts \in Nat /\ 0 \in Nat
    BY Constants
  <2> HIDE DEF Is, T
  <2> QED
    BY <1>2, <2>1, Recursion, ZenonT(40)
<1>5. Is(g)
  <2>1. \A n \in 0..MaxRestarts : n # 0 => /\ n \in 1..MaxRestarts
                                           /\ n - 1 \in 0..MaxRestarts
    BY Constants
  <2>2. \A n \in 0..MaxRestarts :
          g[n] = IF n <= 1 THEN 0 ELSE g[n - 1] + Delay(n - 2)
    <3>1. ASSUME NEW n \in 0..MaxRestarts, n # 0
          PROVE  g[n] = step(n, g[n - 1])
      <4>1. n \in 1..MaxRestarts /\ n - 1 \in 0..MaxRestarts
        BY <2>1, <3>1
      <4>2. g[n] = h[<< n, g[n - 1] >>] /\ g[n - 1] \in Nat
        BY <3>1, <4>1, <1>4
      <4> HIDE DEF step
      <4> QED
        BY <4>1, <4>2, <1>3
    <3>2. g[0] = 0
      <4>1. 0 \in 0..MaxRestarts
        BY Constants
      <4> HIDE DEF step, Is, T
      <4> QED
        BY <1>4, <4>1
    <3> QED
      BY <3>1, <3>2
  <2> QED
    BY <2>2
<1>6. StormTime = CHOOSE f : Is(f)
  BY DEF StormTime
<1>7. Is(StormTime)
  <2> HIDE DEF Is
  <2> QED
    BY <1>5, <1>6
<1>8. \A n \in 0..MaxRestarts :
        StormTime[n] = IF n <= 1 THEN 0 ELSE StormTime[n - 1] + Delay(n - 2)
  BY <1>7
<1>9. 0 \in T /\ \A n \in 1..MaxRestarts : n - 1 \in T => n \in T
  <2>1. StormTime[0] \in Nat
    BY <1>8, Constants
  <2>2. ASSUME NEW n \in 1..MaxRestarts, StormTime[n - 1] \in Nat
        PROVE  StormTime[n] \in Nat
    <3>1. n > 1 => Delay(n - 2) \in Nat
      BY DelayFacts, Constants
    <3>2. StormTime[n] = IF n <= 1 THEN 0 ELSE StormTime[n - 1] + Delay(n - 2)
      BY <1>8, Constants
    <3> QED
      BY <2>2, <3>1, <3>2
  <2> QED
    BY <2>1, <2>2, Constants
<1>10. \A n \in 0..MaxRestarts : n \in T
  <2> HIDE DEF T
  <2> QED
    BY <1>9, Constants, UpTo
<1> QED
  BY <1>8, <1>10

LEMMA StormTimeGrows == \A n \in 0..MaxRestarts : StormTime[n] <= MaxStorm
<1> DEFINE T == {m \in 0..MaxRestarts :
                   \A n \in 0..m : StormTime[n] <= StormTime[m]}
<1>1. 0 \in T
  BY StormTimeFacts, Constants
<1>2. ASSUME NEW m \in 1..MaxRestarts, m - 1 \in T PROVE m \in T
  <2>1. StormTime[m - 1] <= StormTime[m]
    BY StormTimeFacts, DelayFacts, Constants
  <2>2. ASSUME NEW n \in 0..m PROVE StormTime[n] <= StormTime[m]
    <3>1. CASE n = m
      BY <3>1, StormTimeFacts, Constants
    <3>2. CASE n # m
      <4>1. n \in 0..m - 1 /\ n \in 0..MaxRestarts
            /\ m - 1 \in 0..MaxRestarts /\ m \in 0..MaxRestarts
        BY <3>2, Constants
      <4>2. StormTime[n] <= StormTime[m - 1]
        BY <1>2, <4>1
      <4> QED
        BY <2>1, <4>1, <4>2, StormTimeFacts
    <3> QED
      BY <3>1, <3>2
  <2> QED
    BY <2>2, Constants
<1>3. \A m \in 0..MaxRestarts : m \in T
  <2> HIDE DEF T
  <2> QED
    BY <1>1, <1>2, Constants, UpTo
<1>4. MaxRestarts \in T
  BY <1>3, Constants
<1> QED
  BY <1>4 DEF MaxStorm

LEMMA StormTimeNext ==
  ASSUME NEW n \in 1..MaxRestarts - 1
  PROVE  StormTime[n + 1] = StormTime[n] + Delay(n - 1)
  BY StormTimeFacts, Constants

LEMMA MaxStormNat == MaxStorm \in Nat
  BY StormTimeFacts, Constants DEF MaxStorm

-----------------------------------------------------------------------------
(* Types, action by action.                                                *)
LEMMA HeardTyped ==
  ASSUME TypeOK, NEW ws, NEW msgs, Heard(ws, msgs)
  PROVE  /\ gotStatus' \in [Workers -> BOOLEAN] /\ fatal' \in [Workers -> BOOLEAN]
         /\ firstSeen' \in [Workers -> BOOLEAN]
         /\ age' \in [Workers -> 0..AgeLimit]
         /\ fails' \in [Workers -> 0..Failures]
         /\ restarts' \in [Workers -> 0..MaxRestarts]
         /\ backoff' \in [Workers -> 0..MaxBackoff]
         /\ storm' \in [Workers -> 0..MaxStorm]
<1>1. /\ gotStatus' \in [Workers -> BOOLEAN] /\ fatal' \in [Workers -> BOOLEAN]
      /\ firstSeen' \in [Workers -> BOOLEAN]
  BY Zenon DEF Heard
<1>2. /\ age' \in [Workers -> 0..AgeLimit]
      /\ fails' \in [Workers -> 0..Failures]
      /\ restarts' \in [Workers -> 0..MaxRestarts]
      /\ backoff' \in [Workers -> 0..MaxBackoff]
      /\ storm' \in [Workers -> 0..MaxStorm]
  <2>1. /\ age \in [Workers -> 0..AgeLimit]
        /\ fails \in [Workers -> 0..Failures]
        /\ restarts \in [Workers -> 0..MaxRestarts]
        /\ backoff \in [Workers -> 0..MaxBackoff]
        /\ storm \in [Workers -> 0..MaxStorm]
    BY DEF TypeOK
  <2>2. /\ 0 \in 0..AgeLimit /\ 0 \in 0..Failures /\ 0 \in 0..MaxRestarts
        /\ 0 \in 0..MaxBackoff /\ 0 \in 0..MaxStorm
    BY Constants, MaxStormNat
  <2>3. /\ age' = [w \in Workers |-> IF w \in ws THEN 0 ELSE age[w]]
        /\ fails' = [w \in Workers |-> IF w \in ws THEN 0 ELSE fails[w]]
        /\ restarts' = [w \in Workers |-> IF w \in ws THEN 0 ELSE restarts[w]]
        /\ backoff' = [w \in Workers |-> IF w \in ws THEN 0 ELSE backoff[w]]
        /\ storm' = [w \in Workers |-> IF w \in ws THEN 0 ELSE storm[w]]
    BY DEF Heard
  <2> QED
    BY <2>1, <2>2, <2>3
<1> QED
  BY <1>1, <1>2

LEMMA FreshTyped ==
  ASSUME TypeOK, NEW w \in Workers, NEW n \in 0..MaxRestarts,
         NEW wait \in 0..MaxBackoff, Fresh(w, n, wait)
  PROVE  /\ proc' \in [Workers -> {"none", "starting", "up", "hung", "dead"}]
         /\ pipe' \in [Workers -> Seq({"first", "data", "fatal"})]
         /\ managed' \subseteq Workers /\ open' \in [Workers -> BOOLEAN]
         /\ gotStatus' \in [Workers -> BOOLEAN] /\ fatal' \in [Workers -> BOOLEAN]
         /\ firstSeen' \in [Workers -> BOOLEAN]
         /\ age' \in [Workers -> 0..AgeLimit]
         /\ fails' \in [Workers -> 0..Failures]
         /\ restarts' \in [Workers -> 0..MaxRestarts]
         /\ backoff' \in [Workers -> 0..MaxBackoff]
<1>1. /\ 0 \in 0..AgeLimit /\ 0 \in 0..Failures /\ << >> \in Seq({"first", "data", "fatal"})
  BY Constants
<1>2. /\ proc' \in [Workers -> {"none", "starting", "up", "hung", "dead"}]
      /\ pipe' \in [Workers -> Seq({"first", "data", "fatal"})]
      /\ managed' \subseteq Workers /\ open' \in [Workers -> BOOLEAN]
  BY <1>1 DEF Fresh, TypeOK
<1>3. /\ gotStatus' \in [Workers -> BOOLEAN] /\ fatal' \in [Workers -> BOOLEAN]
      /\ firstSeen' \in [Workers -> BOOLEAN]
  BY DEF Fresh, TypeOK
<1>4. /\ age' \in [Workers -> 0..AgeLimit] /\ fails' \in [Workers -> 0..Failures]
  BY <1>1 DEF Fresh, TypeOK
<1>5. /\ restarts' \in [Workers -> 0..MaxRestarts]
      /\ backoff' \in [Workers -> 0..MaxBackoff]
  BY DEF Fresh, TypeOK
<1> QED
  BY <1>2, <1>3, <1>4, <1>5

(* Of a worker that failed often enough the restart is under way.          *)
LEMMA CountedKept ==
  ASSUME Typed, pc # "respawn", \A w \in Workers : fails'[w] \in {0, fails[w]}
  PROVE  Counted'
<1>1. \A w \in Workers : fails[w] # Failures
  BY DEF Typed, Counted
<1>2. Failures # 0
  BY Constants
<1>3. \A w \in Workers : fails'[w] # Failures
  BY <1>1, <1>2
<1> QED
  BY <1>3 DEF Counted

LEMMA WorkerTyped ==
  ASSUME Typed, NEW w \in Workers, Worker(w)
  PROVE  Typed'
<1>1. proc' \in [Workers -> {"none", "starting", "up", "hung", "dead"}]
  BY DEF Typed, TypeOK, Worker, Connects, SendsData, FailsFatally, Breaks
<1>2. pipe' \in [Workers -> Seq({"first", "data", "fatal"})]
  <2>1. \A msg \in {"first", "data", "fatal"} :
          Write(w, msg) => pipe' \in [Workers -> Seq({"first", "data", "fatal"})]
    BY SMTT(20) DEF Write, Typed, TypeOK
  <2>2. (pipe' = pipe) \/ \E msg \in {"first", "data", "fatal"} : Write(w, msg)
    BY DEF Worker, Connects, SendsData, FailsFatally, Breaks
  <2> QED
    BY <2>1, <2>2 DEF Typed, TypeOK
<1>3. UNCHANGED << handleVars, beatVars, pc, unchecked, victim, startVars, storm >>
  BY DEF Worker, Connects, SendsData, FailsFatally, Breaks
<1> QED
  BY <1>1, <1>2, <1>3
     DEF Typed, TypeOK, Counted, handleVars, beatVars, startVars

LEMMA PassesTyped ==
  ASSUME Typed, Passes
  PROVE  Typed'
<1>1. /\ age' \in [Workers -> 0..AgeLimit] /\ backoff' \in [Workers -> 0..MaxBackoff]
      /\ snapAge' \in 0..AgeLimit /\ waited' \in 0..StartTimeout
  <2>1. /\ age \in [Workers -> 0..AgeLimit] /\ backoff \in [Workers -> 0..MaxBackoff]
        /\ snapAge \in 0..AgeLimit /\ waited \in 0..StartTimeout
    BY DEF Typed, TypeOK
  <2>2. \A w \in Workers : Least(age[w] + 1, AgeLimit) \in 0..AgeLimit
    BY <2>1, Constants DEF Least
  <2>3. \A w \in Workers :
          (IF backoff[w] = 0 THEN 0 ELSE backoff[w] - 1) \in 0..MaxBackoff
    BY <2>1, Constants
  <2>4. snapAge' \in 0..AgeLimit /\ waited' \in 0..StartTimeout
    BY <2>1, Constants DEF Passes, Least
  <2> QED
    BY <2>2, <2>3, <2>4 DEF Passes
<1>2. storm' \in [Workers -> 0..MaxStorm]
  <2>1. storm \in [Workers -> 0..MaxStorm]
    BY DEF Typed, TypeOK
  <2>2. \A w \in Workers : Least(storm[w] + 1, MaxStorm) \in 0..MaxStorm
    BY <2>1, MaxStormNat DEF Least
  <2> QED
    BY <2>1, <2>2 DEF Passes
<1>3. UNCHANGED << procVars, managed, open, gotStatus, firstSeen, fails, fatal,
                   restarts, snapSeen, warning, pc, unchecked, victim, phase,
                   replaced >>
  BY DEF Passes
<1> QED
  BY <1>1, <1>2, <1>3 DEF Typed, TypeOK, Counted, procVars

LEMMA DrainTyped ==
  ASSUME Typed, Drain
  PROVE  Typed'
<1> DEFINE ws == {s \in Slaves \cap managed : HasMessage(s)}
<1>1. Heard(ws, pipe)
  BY DEF Drain
<1>2. /\ pipe' \in [Workers -> Seq({"first", "data", "fatal"})]
  BY DEF Drain, Typed, TypeOK
<1>3. open' \in [Workers -> BOOLEAN]
  BY Zenon DEF Drain
<1>4. /\ UNCHANGED << proc, managed, beatVars, unchecked, victim, startVars >>
      /\ pc = "top" /\ pc' = "drained"
  BY DEF Drain
<1>5. TypeOK'
  <2> HIDE DEF ws
  <2>1. TypeOK
    BY DEF Typed
  <2> QED
    BY <1>1, <1>2, <1>3, <1>4, <2>1, HeardTyped DEF TypeOK, beatVars, startVars
<1>6. \A w \in Workers : fails'[w] \in {0, fails[w]}
  BY <1>1 DEF Heard
<1> QED
  BY <1>4, <1>5, <1>6, CountedKept DEF Typed

(* What a tick reads from the master: a message, the end of its pipe, or   *)
(* nothing in time; or it has no pipe.                                     *)
LEMMA ReadMasterCases ==
  ASSUME ReadMaster
  PROVE  \/ /\ Master \in managed /\ HasMessage(Master)
            /\ Heard({Master}, [w \in Workers |-> << Head(pipe[Master]) >>])
            /\ pipe' = [pipe EXCEPT ![Master] = Tail(@)]
            /\ IF Head(pipe[Master]) = "data"
                 THEN snapAge' = 0 /\ snapSeen' = TRUE /\ warning' = FALSE
                 ELSE UNCHANGED beatVars
            /\ UNCHANGED open
         \/ /\ open' = [open EXCEPT ![Master] = FALSE]
            /\ UNCHANGED << pipe, gotStatus, firstSeen, age, fails, fatal,
                            restarts, backoff, beatVars, storm >>
         \/ /\ warning' = (warning \/ snapAge > IF snapSeen THEN 2 * Heartbeat
                                                            ELSE Grace)
            /\ UNCHANGED << pipe, open, gotStatus, firstSeen, age, fails,
                            fatal, restarts, backoff, snapAge, snapSeen, storm >>
         \/ UNCHANGED << pipe, open, gotStatus, firstSeen, age, fails, fatal,
                         restarts, backoff, beatVars, storm >>
<1>1. CASE Master \in managed /\ HasMessage(Master)
  BY <1>1 DEF ReadMaster
<1>2. CASE Master \in managed /\ open[Master] /\ ~HasMessage(Master)
           /\ proc[Master] = "dead"
  BY <1>2 DEF ReadMaster
<1>3. CASE Master \in managed /\ open[Master] /\ ~HasMessage(Master)
           /\ proc[Master] # "dead"
  BY <1>3 DEF ReadMaster
<1>4. CASE Master \notin managed \/ ~open[Master]
  BY <1>4 DEF ReadMaster, HasMessage
<1> QED
  BY <1>1, <1>2, <1>3, <1>4

LEMMA ReadMasterTyped ==
  ASSUME Typed, ReadMaster
  PROVE  Typed'
<1>1. /\ UNCHANGED << proc, managed, victim, startVars >>
      /\ pc = "drained" /\ pc' = "polled" /\ unchecked' = managed
  BY DEF ReadMaster
<1>2. TypeOK /\ Master \in Workers
  BY Constants DEF Typed
<1> DEFINE Same == UNCHANGED << gotStatus, firstSeen, age, fails, fatal,
                                restarts, backoff, storm >>
<1>3. /\ pipe' \in [Workers -> Seq({"first", "data", "fatal"})]
      /\ open' \in [Workers -> BOOLEAN]
      /\ snapAge' \in 0..AgeLimit
      /\ snapSeen' \in BOOLEAN /\ warning' \in BOOLEAN
      /\ Same \/ Heard({Master}, [w \in Workers |-> << Head(pipe[Master]) >>])
  <2>1. \/ /\ pipe' = pipe
           /\ Same
        \/ /\ HasMessage(Master)
           /\ pipe' = [pipe EXCEPT ![Master] = Tail(@)]
           /\ Heard({Master}, [w \in Workers |-> << Head(pipe[Master]) >>])
    BY ReadMasterCases DEF beatVars
  <2>2. pipe' \in [Workers -> Seq({"first", "data", "fatal"})]
    <3>1. /\ pipe \in [Workers -> Seq({"first", "data", "fatal"})]
          /\ pipe[Master] \in Seq({"first", "data", "fatal"})
      BY <1>2 DEF TypeOK
    <3>2. pipe[Master] # << >> =>
            Tail(pipe[Master]) \in Seq({"first", "data", "fatal"})
      BY <3>1
    <3> HIDE DEF Same
    <3> QED
      BY <2>1, <1>2, <3>1, <3>2 DEF HasMessage
  <2>3. open' = open \/ open' = [open EXCEPT ![Master] = FALSE]
    BY ReadMasterCases DEF beatVars
  <2>4. open' \in [Workers -> BOOLEAN]
    BY <2>3, <1>2 DEF TypeOK
  <2>5. (snapAge' = snapAge \/ snapAge' = 0)
        /\ (snapSeen' = snapSeen \/ snapSeen' = TRUE)
    BY ReadMasterCases DEF beatVars
  <2>6. \/ warning' = warning \/ warning' = FALSE
        \/ warning' = (warning \/ snapAge > IF snapSeen THEN 2 * Heartbeat
                                                        ELSE Grace)
    BY ReadMasterCases DEF beatVars
  <2>7. warning' \in BOOLEAN /\ snapSeen' \in BOOLEAN /\ snapAge' \in 0..AgeLimit
    <3>1. warning \in BOOLEAN /\ snapSeen \in BOOLEAN /\ snapAge \in 0..AgeLimit
      BY <1>2 DEF TypeOK
    <3>2. 0 \in 0..AgeLimit
      BY Constants
    <3> QED
      BY <3>1, <3>2, <2>5, <2>6, Zenon
  <2> QED
    BY <2>1, <2>2, <2>4, <2>7
<1>4. TypeOK'
  <2>1. CASE Same
    BY <2>1, <1>1, <1>2, <1>3 DEF TypeOK, startVars
  <2>2. CASE Heard({Master}, [w \in Workers |-> << Head(pipe[Master]) >>])
    <3> HIDE DEF Same
    <3> DEFINE msgs == [w \in Workers |-> << Head(pipe[Master]) >>]
    <3>1. Heard({Master}, msgs)
      BY <2>2
    <3> HIDE DEF msgs
    <3> QED
      BY <3>1, <1>1, <1>2, <1>3, HeardTyped DEF TypeOK, startVars
  <2> QED
    BY <2>1, <2>2, <1>3
<1>5. \A w \in Workers : fails'[w] \in {0, fails[w]}
  BY <1>3 DEF Heard
<1> QED
  BY <1>1, <1>4, <1>5, CountedKept DEF Typed

(* The health check of a handle ends in a restart, in one more failure, in *)
(* none, or changes nothing.                                               *)
LEMMA CheckCases ==
  ASSUME NEW w \in Workers, Check(w)
  PROVE  /\ pc = "polled" /\ unchecked' = unchecked \ {w}
         /\ UNCHANGED << managed, gotStatus, firstSeen, age, fatal, restarts,
                         beatVars, startVars >>
         /\ \/ Terminate(w) /\ UNCHANGED fails /\ backoff[w] = 0
            \/ /\ IsStale(w) /\ Terminate(w) /\ fails[w] + 1 >= Failures
               /\ fails' = [fails EXCEPT ![w] = @ + 1]
            \/ /\ ~ (fails[w] + 1 >= Failures)
               /\ fails' = [fails EXCEPT ![w] = @ + 1]
               /\ UNCHANGED << proc, pipe, open, backoff, victim, pc, storm >>
            \/ /\ fails' = [fails EXCEPT ![w] = 0]
               /\ UNCHANGED << proc, pipe, open, backoff, victim, pc, storm >>
            \/ UNCHANGED << proc, pipe, open, backoff, fails, victim, pc, storm >>
<1>1. CASE w \in managed /\ ~fatal[w] /\ ~Alive(w) /\ backoff[w] = 0
  BY <1>1 DEF Check
<1>2. CASE w \in managed /\ ~fatal[w] /\ Alive(w) /\ IsStale(w)
  BY <1>2 DEF Check
<1>3. CASE w \in managed /\ ~fatal[w] /\ Alive(w) /\ ~IsStale(w)
  BY <1>3 DEF Check
<1>4. CASE /\ ~ (w \in managed /\ ~fatal[w] /\ ~Alive(w) /\ backoff[w] = 0)
           /\ ~ (w \in managed /\ ~fatal[w] /\ Alive(w) /\ IsStale(w))
           /\ ~ (w \in managed /\ ~fatal[w] /\ Alive(w) /\ ~IsStale(w))
  BY <1>4 DEF Check
<1> QED
  BY <1>1, <1>2, <1>3, <1>4

LEMMA TerminateTyped ==
  ASSUME TypeOK, NEW w \in Workers, Terminate(w)
  PROVE  /\ proc' \in [Workers -> {"none", "starting", "up", "hung", "dead"}]
         /\ pipe' \in [Workers -> Seq({"first", "data", "fatal"})]
         /\ open' \in [Workers -> BOOLEAN]
         /\ backoff' \in [Workers -> 0..MaxBackoff]
         /\ storm' \in [Workers -> 0..MaxStorm]
         /\ pc' = "respawn" /\ victim' = w
<1>1. << >> \in Seq({"first", "data", "fatal"})
  OBVIOUS
<1>2. CarriedBackoff(restarts[w]) \in 0..MaxBackoff /\ 0 \in 0..MaxStorm
  BY DelayFacts, MaxStormNat DEF TypeOK, CarriedBackoff
<1>3. backoff' \in [Workers -> 0..MaxBackoff] /\ storm' \in [Workers -> 0..MaxStorm]
  BY <1>2 DEF Terminate, TypeOK
<1> QED
  BY <1>1, <1>3 DEF Terminate, TypeOK

LEMMA CheckTyped ==
  ASSUME Typed, NEW w \in Workers, Check(w)
  PROVE  Typed'
<1>1. /\ pc = "polled" /\ unchecked' = unchecked \ {w}
      /\ UNCHANGED << managed, gotStatus, firstSeen, age, fatal, restarts,
                      beatVars, startVars >>
  BY CheckCases
<1>2. /\ TypeOK /\ fails \in [Workers -> 0..Failures] /\ victim = None
      /\ \A v \in Workers : fails[v] # Failures
  BY <1>1 DEF Typed, TypeOK, Counted
<1>f. Failures \in Nat \ {0}
  BY Constants
<1>3. \/ Terminate(w)
      \/ UNCHANGED << proc, pipe, open, backoff, victim, pc, storm >>
  BY CheckCases
<1>4. fails' \in [Workers -> 0..Failures]
  <2>1. fails[w] + 1 \in 0..Failures /\ 0 \in 0..Failures
    BY <1>2, <1>f
  <2>2. \/ fails' = fails \/ fails' = [fails EXCEPT ![w] = @ + 1]
        \/ fails' = [fails EXCEPT ![w] = 0]
    BY CheckCases
  <2> QED
    BY <2>1, <2>2, <1>2
<1>5. TypeOK'
  <2>1. /\ proc' \in [Workers -> {"none", "starting", "up", "hung", "dead"}]
        /\ pipe' \in [Workers -> Seq({"first", "data", "fatal"})]
        /\ open' \in [Workers -> BOOLEAN]
        /\ backoff' \in [Workers -> 0..MaxBackoff]
        /\ storm' \in [Workers -> 0..MaxStorm]
        /\ pc' \in {"top", "drained", "polled", "respawn"}
        /\ IF pc' = "respawn" THEN victim' \in Workers ELSE victim' = None
    <3>1. CASE Terminate(w)
      BY <3>1, <1>2, TerminateTyped
    <3>2. CASE UNCHANGED << proc, pipe, open, backoff, victim, pc, storm >>
      BY <3>2, <1>1, <1>2 DEF TypeOK
    <3> QED
      BY <3>1, <3>2, <1>3
  <2> QED
    BY <2>1, <1>1, <1>2, <1>4 DEF TypeOK, beatVars, startVars
<1>6. Counted'
  <2> SUFFICES ASSUME NEW v \in Workers, fails'[v] = Failures
               PROVE  pc' = "respawn" /\ victim' = v
    BY DEF Counted
  <2>1. fails'[v] # fails[v] /\ fails'[v] # 0
    BY <1>2, <1>f
  <2>2. v = w
    BY <2>1, <1>2, CheckCases
  <2>3. Terminate(w)
    <3>1. fails[w] + 1 = Failures
      BY <2>1, <2>2, <1>2, CheckCases
    <3> QED
      BY <3>1, <2>1, <2>2, <1>2, <1>f, CheckCases
  <2> QED
    BY <2>2, <2>3 DEF Terminate
<1> QED
  BY <1>5, <1>6 DEF Typed

LEMMA ResetHeartbeatTyped ==
  ASSUME TypeOK, NEW w, ResetHeartbeat(w)
  PROVE  snapAge' \in 0..AgeLimit /\ snapSeen' \in BOOLEAN /\ warning' \in BOOLEAN
<1>1. 0 \in 0..AgeLimit
  BY Constants
<1>2. CASE w = Master
  BY <1>1, <1>2 DEF ResetHeartbeat
<1>3. CASE w # Master
  BY <1>3 DEF ResetHeartbeat, TypeOK, beatVars
<1> QED
  BY <1>2, <1>3

LEMMA RespawnTyped ==
  ASSUME Typed, Respawn
  PROVE  Typed'
<1> DEFINE n == Least(restarts[victim] + 1, MaxRestarts)
           wait == backoff[victim]
<1>1. /\ TypeOK /\ pc = "respawn" /\ victim \in Workers
      /\ restarts[victim] \in 0..MaxRestarts
      /\ backoff[victim] \in 0..MaxBackoff
  BY DEF Typed, TypeOK, Respawn
<1>2. /\ pc' = "polled" /\ victim' = None
      /\ UNCHANGED << unchecked, phase, waited, storm >>
      /\ Fresh(victim, n, wait) /\ ResetHeartbeat(victim)
      /\ replaced' = (replaced \/ (phase = "master" /\ victim = Master))
  BY DEF Respawn
<1>3. n \in 0..MaxRestarts /\ wait \in 0..MaxBackoff
  BY <1>1, Constants DEF Least
<1>4. storm' \in [Workers -> 0..MaxStorm]
  BY <1>1, <1>2 DEF TypeOK
<1>5. replaced' \in BOOLEAN
  BY <1>2, Zenon
<1>6. TypeOK'
  <2> HIDE DEF n, wait
  <2>1. snapAge' \in 0..AgeLimit /\ snapSeen' \in BOOLEAN /\ warning' \in BOOLEAN
    BY <1>1, <1>2, ResetHeartbeatTyped
  <2> QED
    BY <1>1, <1>2, <1>3, <1>4, <1>5, <2>1, FreshTyped DEF TypeOK
<1>7. Counted'
  <2>1. fails' = [fails EXCEPT ![victim] = 0]
    BY <1>2 DEF Fresh
  <2> QED
    BY <2>1, <1>1, Constants DEF Typed, Counted, TypeOK
<1> QED
  BY <1>6, <1>7 DEF Typed

LEMMA SlavesReadyTyped ==
  ASSUME Typed, SlavesReady
  PROVE  Typed'
<1>1. /\ pc = "top" /\ phase' = "master" /\ waited' = 0
      /\ Fresh(Master, 0, 0) /\ ResetHeartbeat(Master)
      /\ UNCHANGED << pc, unchecked, victim, replaced, storm >>
      /\ TypeOK
  BY DEF SlavesReady, Typed
<1>2. /\ Master \in Workers /\ 0 \in 0..MaxRestarts /\ 0 \in 0..MaxBackoff
      /\ 0 \in 0..StartTimeout
  BY Constants
<1>3. snapAge' \in 0..AgeLimit /\ snapSeen' \in BOOLEAN /\ warning' \in BOOLEAN
  BY <1>1, ResetHeartbeatTyped
<1>4. TypeOK'
  BY <1>1, <1>2, <1>3, FreshTyped DEF TypeOK
<1>5. \A w \in Workers : fails'[w] \in {0, fails[w]}
  BY <1>1, <1>2 DEF Fresh, TypeOK
<1> QED
  BY <1>1, <1>4, <1>5, CountedKept DEF Typed

LEMMA ShutDownTyped ==
  ASSUME Typed, NEW outcome \in {"stopped", "failed"}, ShutDown(outcome)
  PROVE  Typed'
<1>1. /\ proc' \in [Workers -> {"none", "starting", "up", "hung", "dead"}]
      /\ pipe' \in [Workers -> Seq({"first", "data", "fatal"})]
      /\ open' \in [Workers -> BOOLEAN] /\ managed' \subseteq Workers
      /\ phase' \in {"stopped", "failed"}
  <2>1. << >> \in Seq({"first", "data", "fatal"})
    OBVIOUS
  <2> QED
    BY <2>1 DEF ShutDown, Typed, TypeOK
<1>2. UNCHANGED << gotStatus, firstSeen, age, fails, fatal, restarts, backoff,
                  beatVars, pc, unchecked, victim, waited, replaced, storm >>
  BY DEF ShutDown
<1> QED
  BY <1>1, <1>2 DEF Typed, TypeOK, Counted, beatVars

LEMMA InitTyped == Init => Typed
<1> SUFFICES ASSUME Init PROVE Typed
  OBVIOUS
<1>1. /\ proc \in [Workers -> {"none", "starting", "up", "hung", "dead"}]
      /\ pipe \in [Workers -> Seq({"first", "data", "fatal"})]
      /\ managed \subseteq Workers /\ unchecked \subseteq Workers
      /\ pc = "top" /\ victim = None /\ phase = "slaves"
  BY Constants DEF Init
<1>2. /\ open \in [Workers -> BOOLEAN] /\ gotStatus \in [Workers -> BOOLEAN]
      /\ firstSeen \in [Workers -> BOOLEAN] /\ fatal \in [Workers -> BOOLEAN]
      /\ snapSeen \in BOOLEAN /\ warning \in BOOLEAN /\ replaced \in BOOLEAN
  <2>1. open \in [Workers -> BOOLEAN]
    <3>1. open = [w \in Workers |-> w \in Slaves]
      BY DEF Init
    <3> QED
      BY <3>1
  <2>2. snapSeen = FALSE /\ warning = FALSE /\ replaced = FALSE
    BY DEF Init
  <2>3. /\ gotStatus = [w \in Workers |-> FALSE]
        /\ firstSeen = [w \in Workers |-> FALSE]
        /\ fatal = [w \in Workers |-> FALSE]
    BY DEF Init
  <2> QED
    BY <2>1, <2>2, <2>3
<1>3. /\ age \in [Workers -> 0..AgeLimit] /\ fails \in [Workers -> 0..Failures]
      /\ restarts \in [Workers -> 0..MaxRestarts]
      /\ backoff \in [Workers -> 0..MaxBackoff]
      /\ snapAge \in 0..AgeLimit /\ waited \in 0..StartTimeout
      /\ storm \in [Workers -> 0..MaxStorm]
  BY Constants, MaxStormNat DEF Init
<1>4. Counted
  BY Constants DEF Init, Counted
<1> QED
  BY <1>1, <1>2, <1>3, <1>4 DEF Typed, TypeOK

LEMMA NextTyped == Typed /\ [Next]_vars => Typed'
<1> SUFFICES ASSUME Typed, [Next]_vars PROVE Typed'
  OBVIOUS
<1>1. CASE \E w \in Workers : Worker(w)
  BY <1>1, WorkerTyped
<1>2. CASE Passes
  BY <1>2, PassesTyped
<1>3. CASE Tick
  <2>1. CASE EndTick
    <3>1. /\ UNCHANGED << procVars, handleVars, beatVars, unchecked, victim,
                          startVars, storm >>
          /\ pc = "polled" /\ pc' = "top"
      BY <2>1 DEF EndTick
    <3> QED
      BY <3>1 DEF Typed, TypeOK, Counted, procVars, handleVars, beatVars, startVars
  <2> QED
    BY <1>3, <2>1, DrainTyped, ReadMasterTyped, RespawnTyped, CheckTyped DEF Tick
<1>4. CASE Control
  <2>1. CASE MasterReady \/ StopRequested
    <3>1. /\ UNCHANGED << procVars, handleVars, beatVars, pc, unchecked, victim,
                          waited, replaced, storm >>
          /\ phase' \in {"copying", "stopping"}
      BY <2>1 DEF MasterReady, StopRequested
    <3> QED
      BY <3>1 DEF Typed, TypeOK, Counted, procVars, handleVars, beatVars
  <2>2. CASE GivesUp \/ TradingDisabled \/ Stops
    BY <2>2, ShutDownTyped DEF GivesUp, TradingDisabled, Stops
  <2> QED
    BY <1>4, <2>1, <2>2, SlavesReadyTyped DEF Control
<1>5. CASE UNCHANGED vars
  BY <1>5 DEF vars, Typed, TypeOK, Counted, procVars, handleVars, beatVars,
              startVars
<1> QED
  BY <1>1, <1>2, <1>3, <1>4, <1>5 DEF Next

THEOREM TypedHolds == Spec => []Typed
  BY InitTyped, NextTyped, PTL DEF Spec

(* Every variable of the supervisor keeps its type; the failures of a      *)
(* worker never exceed consecutive_failures, for it is restarted then.     *)
THEOREM TypeCorrect == Spec => []TypeOK
<1>1. Typed => TypeOK
  BY DEF Typed
<1> QED
  BY <1>1, TypedHolds, PTL

-----------------------------------------------------------------------------
(* What a worker does, and the steps that leave the bookkeeping alone.     *)
LEMMA WorkerSame ==
  ASSUME NEW w \in Workers, Worker(w)
  PROVE  UNCHANGED << handleVars, beatVars, pc, unchecked, victim, startVars, storm >>
  BY DEF Worker, Connects, SendsData, FailsFatally, Breaks

LEMMA ShutDownSame ==
  ASSUME NEW outcome, ShutDown(outcome)
  PROVE  UNCHANGED << gotStatus, firstSeen, age, fails, fatal, restarts, backoff,
                      beatVars, pc, unchecked, victim, storm >>
  BY DEF ShutDown

(* The steps that neither hear from a worker nor start one nor wait.       *)
Quiet ==
  \/ \E w \in Workers : Worker(w) \/ Check(w)
  \/ EndTick \/ MasterReady \/ GivesUp \/ TradingDisabled
  \/ StopRequested \/ Stops
  \/ UNCHANGED vars

LEMMA QuietSame ==
  ASSUME Quiet
  PROVE  /\ UNCHANGED << firstSeen, age, restarts, beatVars >>
         /\ \/ /\ UNCHANGED << backoff, victim, storm >>
               /\ pc' = "respawn" <=> pc = "respawn"
            \/ \E w \in Workers : Check(w) /\ Terminate(w)
<1>1. ASSUME NEW w \in Workers, Worker(w) \/ Check(w)
      PROVE  /\ UNCHANGED << firstSeen, age, restarts, beatVars >>
             /\ \/ UNCHANGED << backoff, victim, storm, pc >>
                \/ Check(w) /\ Terminate(w)
  BY <1>1, WorkerSame, CheckCases DEF handleVars
<1>2. CASE EndTick \/ MasterReady \/ StopRequested
  BY <1>2 DEF EndTick, MasterReady, StopRequested, handleVars
<1>3. CASE GivesUp \/ TradingDisabled \/ Stops
  BY <1>3, ShutDownSame DEF GivesUp, TradingDisabled, Stops
<1>4. CASE UNCHANGED vars
  BY <1>4 DEF vars, handleVars
<1> QED
  BY <1>1, <1>2, <1>3, <1>4 DEF Quiet

LEMMA NextCases ==
  ASSUME [Next]_vars
  PROVE  Quiet \/ Passes \/ Drain \/ ReadMaster \/ Respawn \/ SlavesReady
  BY DEF Next, Tick, Control, Quiet

-----------------------------------------------------------------------------
(* The heartbeat.                                                          *)
LEMMA BeatFresh ==
  ASSUME Typed, Beat, NEW w \in Workers, NEW n, NEW wait,
         Fresh(w, n, wait), ResetHeartbeat(w)
  PROVE  Beat'
<1>1. CASE w = Master
  <2>1. age'[Master] = 0 /\ snapAge' = 0 /\ snapSeen' = FALSE /\ warning' = FALSE
    BY <1>1 DEF Typed, TypeOK, Fresh, ResetHeartbeat
  <2> QED
    BY <2>1 DEF Beat, BeatFollows, GraceIsKept
<1>2. CASE w # Master
  <2>1. /\ UNCHANGED beatVars /\ age'[Master] = age[Master]
        /\ firstSeen'[Master] = firstSeen[Master]
    BY <1>2, Constants DEF Typed, TypeOK, Fresh, ResetHeartbeat
  <2> QED
    BY <2>1 DEF Beat, BeatFollows, GraceIsKept, beatVars
<1> QED
  BY <1>1, <1>2

LEMMA NextBeat ==
  ASSUME Typed, Beat, [Next]_vars
  PROVE  Beat'
<1>0. /\ TypeOK /\ Master \in Workers /\ Grace \in Nat /\ Heartbeat \in Nat
      /\ 2 * Heartbeat <= Grace /\ AgeLimit = Grace + 1
      /\ age[Master] \in 0..AgeLimit /\ snapAge \in 0..AgeLimit
  BY Constants DEF Typed, TypeOK
<1>1. CASE Quiet
  BY <1>1, QuietSame DEF Beat, BeatFollows, GraceIsKept, beatVars
<1>2. CASE Passes
  <2>1. /\ age'[Master] = Least(age[Master] + 1, AgeLimit)
        /\ snapAge' = Least(snapAge + 1, AgeLimit)
        /\ UNCHANGED << firstSeen, snapSeen, warning >>
    BY <1>0, <1>2 DEF Passes
  <2>2. BeatFollows'
    BY <2>1 DEF Beat, BeatFollows
  <2>3. GraceIsKept'
    BY <2>1, <1>0 DEF Beat, GraceIsKept, Least
  <2> QED
    BY <2>2, <2>3 DEF Beat
<1>3. CASE Drain
  <2>1. Master \notin {s \in Slaves \cap managed : HasMessage(s)}
    BY Constants
  <2>2. /\ firstSeen'[Master] <=> firstSeen[Master]
        /\ age'[Master] = age[Master]
    BY <2>1, <1>0, <1>3 DEF Drain, Heard
  <2>3. UNCHANGED beatVars
    BY <1>3 DEF Drain
  <2> QED
    BY <2>2, <2>3 DEF Beat, BeatFollows, GraceIsKept, beatVars
<1>4. CASE ReadMaster
  <2> DEFINE msgs == [w \in Workers |-> << Head(pipe[Master]) >>]
  <2>1. CASE Heard({Master}, msgs)
             /\ IF Head(pipe[Master]) = "data"
                  THEN snapAge' = 0 /\ snapSeen' = TRUE /\ warning' = FALSE
                  ELSE UNCHANGED beatVars
    <3>1. firstSeen'[Master]
      BY <2>1, <1>0 DEF Heard
    <3> QED
      BY <2>1, <3>1 DEF Beat, BeatFollows, GraceIsKept, beatVars
  <2>2. CASE UNCHANGED << firstSeen, age, snapAge, snapSeen >>
             /\ warning' = (warning \/ snapAge > IF snapSeen THEN 2 * Heartbeat
                                                             ELSE Grace)
    <3>1. BeatFollows'
      BY <2>2 DEF Beat, BeatFollows
    <3>2. ASSUME warning' PROVE snapAge > 2 * Heartbeat
                                /\ (~firstSeen[Master] => age[Master] > Grace)
      <4>1. CASE warning
        BY <4>1 DEF Beat, GraceIsKept
      <4>2. CASE snapAge > IF snapSeen THEN 2 * Heartbeat ELSE Grace
        BY <4>2, <1>0 DEF Beat, BeatFollows
      <4> QED
        BY <4>1, <4>2, <3>2, <2>2
    <3> QED
      BY <2>2, <3>1, <3>2 DEF Beat, GraceIsKept
  <2>3. CASE UNCHANGED << firstSeen, age, beatVars >>
    BY <2>3 DEF Beat, BeatFollows, GraceIsKept, beatVars
  <2> QED
    BY <1>4, <2>1, <2>2, <2>3, ReadMasterCases
<1>5. CASE Respawn
  <2>1. victim \in Workers
    BY <1>0, <1>5 DEF TypeOK, Respawn
  <2> QED
    BY <2>1, <1>5, BeatFresh DEF Respawn
<1>6. CASE SlavesReady
  BY <1>0, <1>6, BeatFresh DEF SlavesReady
<1> QED
  BY <1>1, <1>2, <1>3, <1>4, <1>5, <1>6, NextCases

(* "No heartbeat from master" is reported only when it is true.            *)
THEOREM MasterGraceIsKept == Spec => []GraceIsKept
<1>1. Init => Beat
  BY Constants DEF Init, Beat, BeatFollows, GraceIsKept
<1>2. Typed /\ Beat /\ [Next]_vars => Beat'
  BY NextBeat
<1>3. Beat => GraceIsKept
  BY DEF Beat
<1> QED
  BY <1>1, <1>2, <1>3, TypedHolds, PTL DEF Spec

-----------------------------------------------------------------------------
(* Shutting down.                                                          *)
LEMMA TerminateStops ==
  ASSUME TypeOK, NEW w \in Workers, Terminate(w), NEW v \in Workers, Alive(v)'
  PROVE  Alive(v)
  BY DEF Terminate, TypeOK, Alive

LEMMA FreshOwned ==
  ASSUME TypeOK, Owned, NEW w \in Workers, NEW n, NEW wait, Fresh(w, n, wait)
  PROVE  Owned'
<1> SUFFICES ASSUME NEW v \in Workers, Alive(v)' PROVE v \in managed'
  BY DEF Owned
<1>1. managed' = managed \cup {w}
  BY DEF Fresh
<1>2. CASE v # w
  <2>1. Alive(v)
    BY <1>2 DEF Fresh, TypeOK, Alive
  <2> QED
    BY <2>1, <1>1 DEF Owned
<1> QED
  BY <1>1, <1>2

LEMMA ShutDownStops ==
  ASSUME TypeOK, Owned, NEW outcome, ShutDown(outcome)
  PROVE  \A w \in Workers : ~Alive(w)'
<1> SUFFICES ASSUME NEW w \in Workers PROVE ~Alive(w)'
  OBVIOUS
<1>1. proc'[w] = IF w \in managed /\ Alive(w) THEN "dead" ELSE proc[w]
  BY DEF ShutDown
<1>2. Alive(w) => w \in managed
  BY DEF Owned
<1> QED
  BY <1>1, <1>2 DEF Alive

(* A step that starts no worker and does not shut down.                    *)
LEMMA NobodyStarts ==
  ASSUME Typed, Owned,
         \/ \E w \in Workers : Worker(w) \/ Check(w)
         \/ Passes \/ Drain \/ ReadMaster \/ EndTick \/ MasterReady
         \/ StopRequested \/ UNCHANGED vars
  PROVE  managed' = managed /\ \A v \in Workers : Alive(v)' => Alive(v)
<1>0. TypeOK /\ proc \in [Workers -> {"none", "starting", "up", "hung", "dead"}]
  BY DEF Typed, TypeOK
<1>1. ASSUME NEW w \in Workers, Worker(w)
      PROVE  managed' = managed /\ \A v \in Workers : Alive(v)' => Alive(v)
  <2>1. managed' = managed
    BY <1>1, WorkerSame DEF handleVars
  <2>2. \A v \in Workers \ {w} : proc'[v] = proc[v]
    BY <1>0, <1>1 DEF Worker, Connects, SendsData, FailsFatally, Breaks
  <2>3. Alive(w)' => Alive(w)
    BY <1>0, <1>1 DEF Worker, Connects, SendsData, FailsFatally, Breaks, Alive
  <2> QED
    BY <2>1, <2>2, <2>3 DEF Alive
<1>2. ASSUME NEW w \in Workers, Check(w)
      PROVE  managed' = managed /\ \A v \in Workers : Alive(v)' => Alive(v)
  <2>1. managed' = managed /\ (Terminate(w) \/ proc' = proc)
    BY <1>2, CheckCases
  <2> QED
    BY <2>1, <1>0, TerminateStops DEF Alive
<1>3. CASE Passes \/ Drain \/ ReadMaster \/ EndTick \/ MasterReady
           \/ StopRequested \/ UNCHANGED vars
  <2>1. UNCHANGED << proc, managed >>
    BY <1>3 DEF Passes, Drain, ReadMaster, EndTick, MasterReady, StopRequested,
                vars, procVars, handleVars
  <2> QED
    BY <2>1 DEF Alive
<1> QED
  BY <1>1, <1>2, <1>3

LEMMA NextOwned ==
  ASSUME Typed, Owned, [Next]_vars
  PROVE  Owned'
<1>0. TypeOK
  BY DEF Typed
<1>1. CASE \/ \E w \in Workers : Worker(w) \/ Check(w)
           \/ Passes \/ Drain \/ ReadMaster \/ EndTick \/ MasterReady
           \/ StopRequested \/ UNCHANGED vars
  BY <1>1, NobodyStarts DEF Owned
<1>2. CASE Respawn
  <2>1. victim \in Workers
    BY <1>0, <1>2 DEF TypeOK, Respawn
  <2> QED
    BY <2>1, <1>0, <1>2, FreshOwned DEF Respawn
<1>3. CASE SlavesReady
  BY <1>0, <1>3, FreshOwned, Constants DEF SlavesReady
<1>4. CASE GivesUp \/ TradingDisabled \/ Stops
  BY <1>0, <1>4, ShutDownStops DEF GivesUp, TradingDisabled, Stops, Owned
<1> QED
  BY <1>1, <1>2, <1>3, <1>4 DEF Next, Tick, Control

LEMMA NextShut ==
  ASSUME ~JoinTimesOut, Typed, Owned, Shut, [Next]_vars
  PROVE  Shut'
<1>0. TypeOK
  BY DEF Typed
<1>1. CASE GivesUp \/ TradingDisabled \/ Stops
  <2>1. pc = "top" /\ pc' = "top"
    BY <1>1, ShutDownSame DEF GivesUp, TradingDisabled, Stops, Joined
  <2>2. \A w \in Workers : ~Alive(w)'
    BY <1>0, <1>1, ShutDownStops DEF GivesUp, TradingDisabled, Stops
  <2> QED
    BY <2>1, <2>2 DEF Shut
<1>2. CASE phase \in {"stopped", "failed"}
  <2>1. pc = "top" /\ \A w \in Workers : ~Alive(w)
    BY <1>2 DEF Shut
  <2>2. CASE (\E w \in Workers : Worker(w)) \/ Passes \/ UNCHANGED vars
    <3>1. pc' = pc
      BY <2>2, WorkerSame DEF Passes, vars
    <3> QED
      BY <3>1, <2>1, <2>2, NobodyStarts DEF Shut
  <2>3. ~Drain /\ ~ReadMaster /\ ~Respawn /\ ~EndTick /\ \A w \in Workers : ~Check(w)
    BY <1>2, <2>1 DEF Drain, ReadMaster, Respawn, EndTick, Check
  <2>4. ~SlavesReady /\ ~MasterReady /\ ~StopRequested
    BY <1>2 DEF SlavesReady, MasterReady, StopRequested
  <2> QED
    BY <1>1, <2>2, <2>3, <2>4 DEF Next, Tick, Control
<1>3. CASE /\ phase \notin {"stopped", "failed"}
           /\ ~ (GivesUp \/ TradingDisabled \/ Stops)
  <2>1. phase' = phase \/ phase' \in {"master", "copying", "stopping"}
    <3>1. ASSUME NEW w \in Workers, Worker(w) \/ Check(w) PROVE phase' = phase
      BY <3>1, WorkerSame, CheckCases DEF startVars
    <3>2. CASE Passes \/ Drain \/ ReadMaster \/ Respawn \/ EndTick \/ UNCHANGED vars
      BY <3>2 DEF Passes, Drain, ReadMaster, Respawn, EndTick, vars, startVars
    <3>3. CASE SlavesReady \/ MasterReady \/ StopRequested
      BY <3>3 DEF SlavesReady, MasterReady, StopRequested
    <3> QED
      BY <1>3, <3>1, <3>2, <3>3 DEF Next, Tick, Control
  <2> QED
    BY <2>1, <1>3 DEF Shut
<1> QED
  BY <1>1, <1>2, <1>3

(* Who runs has a handle, always: nobody runs whom a shutdown cannot find. *)
THEOREM RunnersAreOwned == Spec => []Owned
<1>1. Init => Owned
  BY DEF Init, Owned, Alive
<1>2. Typed /\ Owned /\ [Next]_vars => Owned'
  BY NextOwned
<1> QED
  BY <1>1, <1>2, TypedHolds, PTL DEF Spec

(* After stop or a failed start no worker is left running, if a restart    *)
(* under way is over before join stops waiting for it.                     *)
THEOREM NobodySurvivesStop ==
  ASSUME ~JoinTimesOut
  PROVE  Spec => []NoWorkerSurvivesStop
<1>1. Init => Shut
  BY DEF Init, Shut
<1>2. Typed /\ Owned /\ Shut /\ [Next]_vars => Shut'
  BY NextShut
<1>3. Shut => NoWorkerSurvivesStop
  BY DEF Shut, NoWorkerSurvivesStop
<1> QED
  BY <1>1, <1>2, <1>3, TypedHolds, RunnersAreOwned, PTL DEF Spec

-----------------------------------------------------------------------------
(* Restarts in a row.                                                      *)
LEMMA BegunType ==
  ASSUME TypeOK, NEW w \in Workers
  PROVE  Begun(w) \in 0..MaxRestarts
  BY Constants, SMTT(20) DEF TypeOK, Begun, Least

LEMMA HeardThrottled ==
  ASSUME Typed, Storms, NEW ws, NEW msgs, Heard(ws, msgs), NEW w \in Workers,
         pc # "respawn", pc' # "respawn"
  PROVE  Throttled(w)'
<1>1. CASE w \in ws
  <2>1. restarts'[w] = 0 /\ backoff'[w] = 0 /\ storm'[w] = 0
    BY <1>1 DEF Heard
  <2>2. StormTime[0] = 0
    BY StormTimeFacts, Constants
  <2> QED
    BY <2>1, <2>2 DEF Throttled, Begun
<1>2. CASE w \notin ws
  <2>1. /\ restarts'[w] = restarts[w] /\ backoff'[w] = backoff[w]
        /\ storm'[w] = storm[w] /\ age'[w] = age[w]
        /\ firstSeen'[w] <=> firstSeen[w]
    BY <1>2 DEF Heard
  <2>2. Throttled(w)
    BY DEF Storms
  <2> QED
    BY <2>1, <2>2 DEF Throttled, Begun, Replacing
<1> QED
  BY <1>1, <1>2

(* Another worker's handle is replaced or its restart begins.              *)
LEMMA OtherThrottled ==
  ASSUME NEW w, Throttled(w), ~Replacing(w), ~Replacing(w)',
         restarts'[w] = restarts[w], backoff'[w] = backoff[w],
         storm'[w] = storm[w], age'[w] = age[w], firstSeen'[w] = firstSeen[w]
  PROVE  Throttled(w)'
  BY DEF Throttled, Begun, Replacing

(* Waiting: the pause goes by, and with it the grace window.               *)
LEMMA PassesThrottled ==
  ASSUME Typed, Storms, Passes, NEW w \in Workers
  PROVE  Throttled(w)'
<1>0. Begun(w) \in 0..MaxRestarts
  BY BegunType DEF Typed
<1>1. /\ Throttled(w) /\ restarts[w] \in 0..MaxRestarts
      /\ age[w] \in 0..AgeLimit /\ backoff[w] \in 0..MaxBackoff
      /\ storm[w] \in 0..MaxStorm
  BY DEF Storms, Typed, TypeOK
<1>2. /\ restarts'[w] = restarts[w] /\ firstSeen'[w] = firstSeen[w]
      /\ age'[w] = Least(age[w] + 1, AgeLimit)
      /\ backoff'[w] = (IF backoff[w] = 0 THEN 0 ELSE backoff[w] - 1)
      /\ storm'[w] = (IF Begun(w) = 0 THEN storm[w]
                                      ELSE Least(storm[w] + 1, MaxStorm))
      /\ Begun(w)' = Begun(w) /\ (Replacing(w)' <=> Replacing(w))
  BY DEF Passes, Begun, Replacing
<1> DEFINE b == Begun(w)
<1>3. /\ StormTime[b] \in Nat /\ StormTime[b] <= MaxStorm
      /\ b \in 1..MaxRestarts - 1 =>
           /\ StormTime[b + 1] \in Nat
           /\ StormTime[b + 1] <= MaxStorm
  BY <1>0, StormTimeFacts, StormTimeGrows, Constants
<1>4. AgeLimit \in Nat /\ MaxBackoff \in Nat /\ MaxStorm \in Nat
  BY Constants, MaxStormNat
<1>5. backoff'[w] > 0 /\ ~Replacing(w) => age'[w] + backoff'[w] <= MaxBackoff
  BY <1>1, <1>2, <1>4 DEF Throttled, Least
<1>6. storm'[w] >= StormTime[b]
  BY <1>1, <1>2, <1>3, <1>4 DEF Throttled, Least
<1>7. b \in 1..MaxRestarts - 1 =>
        storm'[w] + backoff'[w] >= StormTime[b + 1]
  BY <1>1, <1>2, <1>3, <1>4 DEF Throttled, Least
<1>8. restarts[w] = 0 /\ ~Replacing(w) => backoff'[w] = 0
  BY <1>1, <1>2 DEF Throttled
<1> QED
  BY <1>1, <1>2, <1>5, <1>6, <1>7, <1>8 DEF Throttled

(* A restart begins when the pause before it is over: a hanging worker     *)
(* that carries a backoff has had its grace window.                        *)
LEMMA PauseIsOver ==
  ASSUME MaxBackoff <= Grace + 1, Typed, Storms, NEW w \in Workers,
         Check(w), Terminate(w)
  PROVE  backoff[w] = 0
<1>1. /\ pc = "polled"
      /\ \/ backoff[w] = 0
         \/ IsStale(w)
         \/ UNCHANGED pc
  BY CheckCases
<1>2. CASE IsStale(w)
  <2>1. /\ Throttled(w) /\ age[w] \in 0..AgeLimit /\ ~Replacing(w)
        /\ backoff[w] \in 0..MaxBackoff /\ restarts[w] \in 0..MaxRestarts
        /\ firstSeen[w] \in BOOLEAN
    BY <1>1 DEF Storms, Typed, TypeOK, Replacing
  <2>2. CASE restarts[w] = 0
    BY <2>1, <2>2 DEF Throttled
  <2>3. CASE restarts[w] # 0
    <3>1. ~firstSeen[w]
      BY <2>1, <2>3 DEF Throttled
    <3>2. age[w] > Grace
      BY <3>1, <1>2 DEF IsStale
    <3> QED
      BY <3>2, <2>1, Constants DEF Throttled
  <2> QED
    BY <2>2, <2>3
<1> QED
  BY <1>1, <1>2 DEF Terminate

(* A restart begins: the pauses before it are over, and the next one is    *)
(* longer.                                                                 *)
LEMMA TerminateThrottled ==
  ASSUME Typed, Storms, NEW v \in Workers, pc = "polled", backoff[v] = 0,
         Terminate(v), UNCHANGED << firstSeen, age, restarts >>
  PROVE  Storms'
<1> DEFINE r == restarts[v]
           n == Least(r + 1, MaxRestarts)
           wait == Delay(r)
<1>1. /\ r \in 0..MaxRestarts /\ storm[v] \in 0..MaxStorm
      /\ Throttled(v) /\ Begun(v) = r
      /\ storm \in [Workers -> 0..MaxStorm]
      /\ backoff \in [Workers -> 0..MaxBackoff]
  BY DEF Typed, TypeOK, Storms, Begun
<1>2. /\ storm' = [storm EXCEPT ![v] = IF r = 0 THEN 0 ELSE @]
      /\ backoff' = [backoff EXCEPT ![v] = wait]
      /\ Replacing(v)' /\ Begun(v)' = n
      /\ \A w \in Workers \ {v} : ~Replacing(w)'
  BY DEF Terminate, CarriedBackoff, Begun, Replacing
<1>3. wait \in 0..MaxBackoff /\ MaxRestarts \in Nat \ {0} /\ MaxBackoff \in Nat
  BY <1>1, DelayFacts, Constants
<1>4. n \in 1..MaxRestarts
  BY <1>1, <1>3 DEF Least
<1> HIDE DEF n, wait
<1>5. storm'[v] = (IF r = 0 THEN 0 ELSE storm[v]) /\ backoff'[v] = wait
  BY <1>1, <1>2
<1>6. Throttled(v)'
  <2>1. storm'[v] >= StormTime[n]
    <3>1. CASE r = 0
      <4>1. n = 1
        BY <3>1, <1>3 DEF n, Least
      <4>2. StormTime[1] = 0
        BY StormTimeFacts, <1>3
      <4> QED
        BY <3>1, <4>1, <4>2, <1>5
    <3>2. CASE r \in 1..MaxRestarts - 1
      <4>1. n = r + 1
        BY <3>2, <1>3 DEF n, Least
      <4>2. storm[v] + 0 >= StormTime[r + 1]
        BY <3>2, <1>1 DEF Throttled
      <4> QED
        BY <3>2, <4>1, <4>2, <1>1, <1>5
    <3>3. CASE r = MaxRestarts
      <4>1. n = r
        BY <3>3, <1>3 DEF n, Least
      <4>2. storm[v] >= StormTime[r]
        BY <1>1 DEF Throttled
      <4> QED
        BY <3>3, <4>1, <4>2, <1>3, <1>5
    <3> QED
      BY <3>1, <3>2, <3>3, <1>1, <1>3
  <2>2. ASSUME n \in 1..MaxRestarts - 1
        PROVE  storm'[v] + wait >= StormTime[n + 1]
    <3>1. n = r + 1
      BY <2>2, <1>1, <1>3 DEF n, Least
    <3>2. StormTime[n + 1] = StormTime[n] + wait
      BY <2>2, <3>1, <1>1, StormTimeNext DEF wait
    <3>3. storm'[v] \in Int /\ StormTime[n] \in Nat
      BY <1>1, <1>4, <1>5, StormTimeFacts
    <3> QED
      BY <2>1, <3>2, <3>3, <1>3
  <2>3. restarts'[v] > 0 => ~firstSeen'[v]
    BY <1>1 DEF Throttled
  <2> QED
    BY <2>1, <2>2, <2>3, <1>2, <1>5 DEF Throttled
<1>7. ASSUME NEW w \in Workers, w # v PROVE Throttled(w)'
  <2>1. /\ Throttled(w) /\ ~Replacing(w) /\ ~Replacing(w)'
        /\ storm'[w] = storm[w] /\ backoff'[w] = backoff[w]
    BY <1>1, <1>2, <1>7 DEF Storms, Replacing
  <2> QED
    BY <2>1, OtherThrottled
<1> QED
  BY <1>6, <1>7 DEF Storms

(* A fresh handle: it carries what is left of the pause, and no more.      *)
LEMMA FreshThrottled ==
  ASSUME Typed, Storms, NEW v \in Workers, NEW n \in 0..MaxRestarts,
         Fresh(v, n, backoff[v]), storm' = storm, pc' # "respawn",
         pc = "respawn" => victim = v, n = Begun(v), n > 0
  PROVE  Storms'
<1>1. /\ Throttled(v) /\ backoff[v] \in 0..MaxBackoff
      /\ age \in [Workers -> 0..AgeLimit] /\ firstSeen \in [Workers -> BOOLEAN]
      /\ restarts \in [Workers -> 0..MaxRestarts]
      /\ backoff \in [Workers -> 0..MaxBackoff]
  BY DEF Storms, Typed, TypeOK
<1>2. /\ firstSeen' = [firstSeen EXCEPT ![v] = FALSE]
      /\ age' = [age EXCEPT ![v] = 0]
      /\ restarts' = [restarts EXCEPT ![v] = n]
      /\ backoff' = [backoff EXCEPT ![v] = backoff[v]]
  BY DEF Fresh
<1>3. Throttled(v)'
  <2>1. /\ firstSeen'[v] = FALSE /\ age'[v] = 0 /\ restarts'[v] = n
        /\ backoff'[v] = backoff[v] /\ storm'[v] = storm[v]
    BY <1>1, <1>2
  <2>2. Begun(v)' = n
    BY <2>1 DEF Begun
  <2> QED
    BY <1>1, <2>1, <2>2, Constants DEF Throttled
<1>4. ASSUME NEW w \in Workers, w # v PROVE Throttled(w)'
  <2>1. /\ Throttled(w) /\ ~Replacing(w) /\ ~Replacing(w)'
        /\ restarts'[w] = restarts[w] /\ backoff'[w] = backoff[w]
        /\ storm'[w] = storm[w] /\ age'[w] = age[w]
        /\ firstSeen'[w] = firstSeen[w]
    BY <1>1, <1>2, <1>4 DEF Storms, Replacing
  <2> QED
    BY <2>1, OtherThrottled
<1> QED
  BY <1>3, <1>4 DEF Storms

LEMMA NextStorms ==
  ASSUME MaxBackoff <= Grace + 1, Typed, Storms, [Next]_vars
  PROVE  Storms'
<1>0. TypeOK
  BY DEF Typed
<1>1. CASE Quiet
  <2>1. UNCHANGED << firstSeen, age, restarts >>
    BY <1>1, QuietSame
  <2>2. CASE /\ UNCHANGED << backoff, victim, storm >>
             /\ pc' = "respawn" <=> pc = "respawn"
    <3>1. \A w \in Workers : Begun(w)' = Begun(w) /\ (Replacing(w)' <=> Replacing(w))
      BY <2>1, <2>2 DEF Begun, Replacing
    <3> QED
      BY <2>1, <2>2, <3>1 DEF Storms, Throttled
  <2>3. ASSUME NEW w \in Workers, Check(w), Terminate(w) PROVE Storms'
    <3>1. pc = "polled" /\ backoff[w] = 0
      BY <2>3, PauseIsOver, CheckCases
    <3> QED
      BY <2>1, <2>3, <3>1, TerminateThrottled
  <2> QED
    BY <1>1, <2>2, <2>3, QuietSame
<1>2. CASE Passes
  BY <1>2, PassesThrottled DEF Storms
<1>3. CASE Drain
  BY <1>3, HeardThrottled DEF Drain, Storms
<1>4. CASE ReadMaster
  <2>1. pc = "drained" /\ pc' = "polled"
    BY <1>4 DEF ReadMaster
  <2>2. \/ UNCHANGED << firstSeen, age, restarts, backoff, storm >>
        \/ Heard({Master}, [w \in Workers |-> << Head(pipe[Master]) >>])
    BY <1>4, ReadMasterCases
  <2>3. CASE UNCHANGED << firstSeen, age, restarts, backoff, storm >>
    BY <2>1, <2>3 DEF Storms, Throttled, Begun, Replacing
  <2>4. CASE Heard({Master}, [w \in Workers |-> << Head(pipe[Master]) >>])
    <3> DEFINE msgs == [w \in Workers |-> << Head(pipe[Master]) >>]
    <3>1. Heard({Master}, msgs)
      BY <2>4
    <3> HIDE DEF msgs
    <3> QED
      BY <3>1, <2>1, HeardThrottled DEF Storms
  <2> QED
    BY <2>2, <2>3, <2>4
<1>5. CASE Respawn
  <2>1. PICK v \in Workers : v = victim
    BY <1>0, <1>5 DEF Respawn, TypeOK
  <2> DEFINE n == Least(restarts[v] + 1, MaxRestarts)
  <2>2. /\ Fresh(v, n, backoff[v]) /\ storm' = storm
        /\ pc = "respawn" /\ pc' # "respawn"
    BY <1>5, <2>1 DEF Respawn
  <2>3. n = Begun(v) /\ n \in 0..MaxRestarts /\ n > 0
    BY <1>0, <2>1, <2>2, Constants, SMTT(20) DEF Begun, Least, TypeOK
  <2> HIDE DEF n
  <2> QED
    BY <2>1, <2>2, <2>3, FreshThrottled
<1>6. CASE SlavesReady
  <2>1. /\ Fresh(Master, 0, 0) /\ storm' = storm
        /\ pc = "top" /\ pc' = "top" /\ Master \in Workers
    BY <1>6, Constants DEF SlavesReady
  <2>2. /\ restarts' = [restarts EXCEPT ![Master] = 0]
        /\ backoff' = [backoff EXCEPT ![Master] = 0]
        /\ age' = [age EXCEPT ![Master] = 0]
        /\ firstSeen' = [firstSeen EXCEPT ![Master] = FALSE]
    BY <2>1 DEF Fresh
  <2>3. StormTime[0] = 0 /\ storm[Master] >= 0
    BY <2>1, <1>0, StormTimeFacts, Constants, MaxStormNat, SMTT(20) DEF TypeOK
  <2>4. Throttled(Master)'
    <3>1. restarts'[Master] = 0 /\ backoff'[Master] = 0 /\ Begun(Master)' = 0
      BY <2>1, <2>2, <1>0 DEF TypeOK, Begun
    <3> QED
      BY <2>1, <3>1, <2>3 DEF Throttled
  <2>5. ASSUME NEW w \in Workers, w # Master PROVE Throttled(w)'
    <3>1. /\ Throttled(w) /\ ~Replacing(w) /\ ~Replacing(w)'
          /\ restarts'[w] = restarts[w] /\ backoff'[w] = backoff[w]
          /\ storm'[w] = storm[w] /\ age'[w] = age[w]
          /\ firstSeen'[w] = firstSeen[w]
      BY <1>0, <2>1, <2>2, <2>5 DEF Storms, Replacing, TypeOK
    <3> QED
      BY <3>1, OtherThrottled
  <2> QED
    BY <2>4, <2>5 DEF Storms
<1> QED
  BY <1>1, <1>2, <1>3, <1>4, <1>5, <1>6, NextCases

(* A worker that dies or hangs again and again before it says a word is    *)
(* restarted with growing pauses, each from the beginning of one restart to*)
(* the beginning of the next.  The grace window must be at least as long as*)
(* the longest backoff, or a hanging worker would be restarted before its  *)
(* pause is over (STARTUP_GRACE_SECONDS is 90, MAX_BACKOFF 30). *)
THEOREM StormsAreThrottled ==
  ASSUME MaxBackoff <= Grace + 1
  PROVE  Spec => []StormIsThrottled
<1>1. Init => Storms
  <2>1. StormTime[0] = 0
    BY StormTimeFacts, Constants
  <2> QED
    BY <2>1, Constants DEF Init, Storms, Throttled, Begun
<1>2. Typed /\ Storms /\ [Next]_vars => Storms'
  BY NextStorms
<1>3. Storms => StormIsThrottled
  BY DEF Storms, Throttled, StormIsThrottled
<1> QED
  BY <1>1, <1>2, <1>3, TypedHolds, PTL DEF Spec
=============================================================================
