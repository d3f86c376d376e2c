-------------------------- MODULE BenchMainProofs --------------------------
(***************************************************************************)
(* Proofs about one run of a benchmark program, for every set of profiles, *)
(* rates and numbers of trials, and every number of cores.                 *)
(***************************************************************************)
EXTENDS BenchMain, TLAPS

-----------------------------------------------------------------------------
(* Lemmas about the arithmetic of module Sizing *)

LEMMA Division ==
  ASSUME NEW a \in Nat, NEW b \in Nat \ {0}
  PROVE  /\ a \div b \in Nat
         /\ b * (a \div b) <= a
         /\ a < b * (a \div b) + b
         /\ a % b \in 0 .. (b - 1)
         /\ a = b * (a \div b) + (a % b)
OBVIOUS

LEMMA QuotientAtLeast ==
  ASSUME NEW a \in Nat, NEW b \in Nat \ {0}, NEW q \in Nat, b * q <= a
  PROVE  q <= a \div b
OBVIOUS

LEMMA CeilingCovers ==
  ASSUME NEW a \in Nat, NEW b \in Nat \ {0}
  PROVE  /\ Ceiling(a, b) \in Nat
         /\ a <= b * Ceiling(a, b)
         /\ a > 0 => Ceiling(a, b) > 0
<1>1. a + b - 1 \in Nat
  OBVIOUS
<1>2. Ceiling(a, b) \in Nat /\ a + b - 1 < b * Ceiling(a, b) + b
  BY <1>1, Division DEF Ceiling
<1>3. b * Ceiling(a, b) \in Nat
  BY <1>2
<1>4. a > 0 => b * 1 <= a + b - 1
  OBVIOUS
<1>5. a > 0 => 1 <= Ceiling(a, b)
  BY <1>1, <1>4, QuotientAtLeast DEF Ceiling
<1> QED
  BY <1>2, <1>3, <1>5

\* Rounding moves a quotient by at most one half.
LEMMA NearestIsNear ==
  ASSUME NEW a \in Nat, NEW b \in Nat \ {0}, NEW ties
  PROVE  /\ Nearest(a, b, ties) \in Nat
         /\ 2 * (b * Nearest(a, b, ties)) <= 2 * a + b
<1> DEFINE q == a \div b
           r == a % b
<1>1. q \in Nat /\ r \in 0 .. (b - 1) /\ a = b * q + r
  BY Division
<1>2. b * q \in Nat /\ b * (q + 1) = b * q + b
  BY <1>1
<1>3. Nearest(a, b, ties) = q \/ (Nearest(a, b, ties) = q + 1 /\ 2 * r >= b)
  <2> HIDE DEF q, r
  <2>1. Nearest(a, b, ties) =
          IF 2 * r > b \/ (2 * r = b /\ (ties = "up" \/ q % 2 = 1)) THEN q + 1 ELSE q
    BY DEF Nearest, q, r
  <2> QED
    BY <2>1, <1>1
<1> HIDE DEF q, r
<1> QED
  BY <1>1, <1>2, <1>3

\* A sweep's pool is never empty, and all pools together stay in the budget.
LEMMA SweepPoolFits ==
  ASSUME NEW f \in Profiles, NEW rate \in Nat \ {0}, NEW h \in 1 .. 3, NEW P \in 1 .. 8
  PROVE  /\ SweepPool(f, rate, h, P) \in Nat \ {0}
         /\ P * SweepPool(f, rate, h, P) <= MaxSweepPoolTotal
         /\ RatePool(rate, h, P) \in Nat
         /\ SweepPool(f, rate, h, P) < MaxSweepPoolTotal \div P
              => SweepPool(f, rate, h, P) >= RatePool(rate, h, P)
<1> DEFINE cap == MaxSweepPoolTotal \div P
           need == Most(f.floor, RatePool(rate, h, P))
<1>1. MaxSweepPoolTotal \in Nat /\ P \in Nat \ {0} /\ P * 1 <= MaxSweepPoolTotal
  BY DEF MaxSweepPoolTotal
<1>2. cap \in Nat /\ P * cap <= MaxSweepPoolTotal /\ 1 <= cap
  BY <1>1, Division, QuotientAtLeast
<1>3. 3 * rate * h \in Nat /\ 3 * rate * h > 0
  OBVIOUS
<1>4. RatePool(rate, h, P) \in Nat \ {0}
  BY <1>1, <1>3, CeilingCovers DEF RatePool
<1>5. need \in Nat \ {0} /\ need >= RatePool(rate, h, P)
  BY <1>4 DEF Most, Profiles
<1>6. SweepPool(f, rate, h, P) = IF need <= cap THEN need ELSE cap
  BY DEF SweepPool, Least
<1> HIDE DEF cap, need
<1>7. SweepPool(f, rate, h, P) \in Nat \ {0} /\ SweepPool(f, rate, h, P) <= cap
  BY <1>2, <1>5, <1>6
<1>8. P * SweepPool(f, rate, h, P) <= P * cap
  BY <1>1, <1>2, <1>7
<1>9. SweepPool(f, rate, h, P) < cap => SweepPool(f, rate, h, P) >= RatePool(rate, h, P)
  BY <1>2, <1>4, <1>5, <1>6
<1>10. P * SweepPool(f, rate, h, P) \in Nat /\ P * cap \in Nat
  BY <1>1, <1>2, <1>7
<1> QED
  BY <1>1, <1>2, <1>4, <1>7, <1>8, <1>9, <1>10 DEF cap

\* Between 200 and 223 ticks of 18 to 20 ms begin in a window of 4 s.
LEMMA TicksType ==
  ASSUME NEW f \in Profiles
  PROVE  TicksPerWindow(f) \in 200 .. 223
<1>1. f.pause \in {18, 19, 20}
  BY DEF Profiles
<1>2. Ceiling(4000, 18) = 223 /\ Ceiling(4000, 19) = 211 /\ Ceiling(4000, 20) = 200
  BY DEF Ceiling
<1> QED
  BY <1>1, <1>2 DEF TicksPerWindow

\* An uncapped pool holds an envelope for everything that pacing lets through
\* in a window's ticks, if the rate it was sized by is worth one per tick: the
\* factor of 1.5 in it makes up for rounding to whole envelopes and for as many
\* ticks as 225.
LEMMA PoolCoversPacing ==
  ASSUME NEW f, NEW rate \in Nat \ {0}, NEW h \in 1 .. 3, NEW P \in 1 .. 8,
         NEW N \in 0 .. 225, 3 * rate * h >= N * P
  PROVE  /\ SweepPerTick(f, rate, h, P) \in Nat
         /\ SweepPerTick(f, rate, h, P) * N <= RatePool(rate, h, P)
<1> DEFINE x == rate * h
           n == Nearest(x, 100 * P, f.ties)
           pool == RatePool(rate, h, P)
<1>1. x \in Nat /\ 3 * rate * h = 3 * x /\ 100 * P \in Nat \ {0} /\ P \in Nat \ {0}
  OBVIOUS
<1>2. n \in Nat /\ 2 * ((100 * P) * n) <= 2 * x + 100 * P
  <2> HIDE DEF x
  <2> QED
    BY <1>1, NearestIsNear
<1>3. pool \in Nat /\ 3 * x <= P * pool
  BY <1>1, CeilingCovers DEF RatePool
<1>4. SweepPerTick(f, rate, h, P) = IF 1 >= n THEN 1 ELSE n
  BY DEF SweepPerTick, Most
<1> HIDE DEF n, pool, x
<1>5. P * n \in Nat /\ P * pool \in Nat /\ (100 * P) * n = 100 * (P * n)
  BY <1>1, <1>2, <1>3
<1>6. 3 * x >= N * P
  BY DEF x
<1>7. CASE n <= 1
  <2>1. P * N <= P * pool
    BY <1>1, <1>3, <1>6, <1>5
  <2>2. N <= pool
    BY <2>1, <1>1, <1>3
  <2> QED
    BY <1>4, <1>7, <2>2, <1>2 DEF pool
<1>8. CASE n > 1
  <2>1. P * n >= 2 * P
    BY <1>8, <1>1, <1>2
  <2>2. 300 * (P * n) - 150 * P <= 3 * x
    BY <1>1, <1>2, <1>5
  <2>3. 225 * (P * n) <= P * pool
    BY <2>1, <2>2, <1>1, <1>3, <1>5
  <2>4. 225 * (P * n) = P * (225 * n)
    BY <1>1, <1>2
  <2>5. 225 * n <= pool
    BY <2>3, <2>4, <1>1, <1>2, <1>3
  <2>6. n * N <= 225 * n
    BY <1>2
  <2> QED
    BY <1>4, <1>8, <2>5, <2>6, <1>2, <1>3 DEF pool
<1> QED
  BY <1>2, <1>7, <1>8

LEMMA CalibrationPoolFilled ==
  ASSUME NEW f \in Profiles, NEW P \in 1 .. 8
  PROVE  CalibrationPool(f, P) \in Nat \ {0}
<1>1. f.budget \in Nat /\ P \in Nat \ {0} /\ P * 1 <= f.budget /\ f.least \in Nat
  BY DEF Profiles
<1>2. f.budget \div P \in Nat /\ 1 <= f.budget \div P
  BY <1>1, Division, QuotientAtLeast
<1> QED
  BY <1>1, <1>2 DEF CalibrationPool, Most

-----------------------------------------------------------------------------
(* Lemmas about the order of the trials *)

\* A trial's numbers are within the loops of main and of a capacity curve.
InLoops(a) ==
    /\ a \in Positions
    /\ a.config \notin Curves => a.load = 0
    /\ a.config \in Configs => a.trial <= TrialsAt(a.config, a.load)
    /\ a.config > Cap8 => a.trial = 1

LEMMA ConfigValues == Configs = {1, 2, 3, 4, 5} /\ Curves = {4, 5}
BY DEF Configs, Curves, Seq1, Cap1, Cap8

LEMMA FollowsInLoops ==
  ASSUME NEW a, InLoops(a), a.config \in Configs
  PROVE  /\ InLoops(Follows(a))
         /\ \/ Follows(a).config = a.config /\ Follows(a).load = a.load
               /\ Follows(a).trial = a.trial + 1 /\ a.trial < TrialsAt(a.config, a.load)
            \/ Follows(a).config = a.config /\ Follows(a).load = a.load + 1
               /\ Follows(a).trial = 1 /\ a.config \in Curves /\ a.load < 3
               /\ a.trial = TrialsAt(a.config, a.load)
            \/ Follows(a).config = a.config + 1 /\ Follows(a).load = 0
               /\ Follows(a).trial = 1 /\ (a.config \in Curves => a.load = 3)
               /\ a.trial = TrialsAt(a.config, a.load)
<1>1. /\ a.config \in 1 .. 5 /\ a.load \in 0 .. 3 /\ a.trial \in Nat \ {0}
      /\ a = [config |-> a.config, load |-> a.load, trial |-> a.trial]
      /\ a.config \notin Curves => a.load = 0
      /\ a.trial <= TrialsAt(a.config, a.load)
  BY ConfigValues DEF InLoops, Positions, Seq1, Cap8
<1>2. \A c \in 1 .. 6, l \in 0 .. 3 : TrialsAt(c, l) \in Nat \ {0}
  BY TrialsAssumption DEF TrialsAt
<1>3. CASE a.trial < TrialsAt(a.config, a.load)
  <2>1. Follows(a) = [config |-> a.config, load |-> a.load, trial |-> a.trial + 1]
    BY <1>1, <1>3 DEF Follows
  <2> QED
    BY <2>1, <1>1, <1>2, <1>3, ConfigValues DEF InLoops, Positions, Seq1, Cap8
<1>4. CASE ~(a.trial < TrialsAt(a.config, a.load)) /\ a.config \in Curves /\ a.load < 3
  <2>1. Follows(a) = [config |-> a.config, load |-> a.load + 1, trial |-> 1]
    BY <1>1, <1>4 DEF Follows
  <2>2. a.trial = TrialsAt(a.config, a.load)
    BY <1>1, <1>2, <1>4
  <2> QED
    BY <2>1, <2>2, <1>1, <1>2, <1>4, ConfigValues DEF InLoops, Positions, Seq1, Cap8
<1>5. CASE ~(a.trial < TrialsAt(a.config, a.load)) /\ ~(a.config \in Curves /\ a.load < 3)
  <2>1. Follows(a) = [config |-> a.config + 1, load |-> 0, trial |-> 1]
    BY <1>5 DEF Follows
  <2>2. a.trial = TrialsAt(a.config, a.load)
    BY <1>1, <1>2, <1>5
  <2>3. a.config \in Curves => a.load = 3
    BY <1>1, <1>5
  <2> QED
    BY <2>1, <2>2, <2>3, <1>1, <1>2, <1>5, ConfigValues DEF InLoops, Positions, Seq1, Cap8
<1> QED
  BY <1>3, <1>4, <1>5

\* The loops count the rows of a run one by one.
LEMMA FollowsIsNext ==
  ASSUME NEW a, InLoops(a), a.config \in Configs
  PROVE  Number(a) \in Nat /\ Number(Follows(a)) = Number(a) + 1
<1> DEFINE b == Follows(a)
           T == Trials
           C == CalibrationTrials
           S == SweepTrials
<1>1. T \in Nat \ {0} /\ C \in Nat \ {0} /\ S \in Nat \ {0}
  BY TrialsAssumption
<1>2. /\ a.config \in 1 .. 5 /\ a.load \in 0 .. 3 /\ a.trial \in Nat \ {0}
      /\ a.config \notin {4, 5} => a.load = 0
  BY ConfigValues DEF InLoops, Positions, Seq1, Cap8
<1>3. TrialsAt(a.config, a.load) = IF a.config \notin {4, 5} THEN T ELSE IF a.load = 0 THEN C ELSE S
  BY ConfigValues DEF TrialsAt
<1>4. CurveRows = C + 3 * S /\ CurveRows \in Nat
  BY <1>1 DEF CurveRows
<1>5. /\ RowsBefore(1) = 0 /\ RowsBefore(2) = T /\ RowsBefore(3) = 2 * T
      /\ RowsBefore(4) = 3 * T /\ RowsBefore(5) = 3 * T + CurveRows
      /\ RowsBefore(6) = 3 * T + 2 * CurveRows
  BY <1>1, <1>4 DEF RowsBefore, Cap1
<1>6. /\ Number(a) = RowsBefore(a.config) +
             (IF a.load = 0 THEN a.trial ELSE C + (a.load - 1) * S + a.trial)
      /\ Number(b) = RowsBefore(b.config) +
             (IF b.load = 0 THEN b.trial ELSE C + (b.load - 1) * S + b.trial)
  BY DEF Number
<1>7. \/ b.config = a.config /\ b.load = a.load /\ b.trial = a.trial + 1
      \/ b.config = a.config /\ b.load = a.load + 1 /\ b.trial = 1 /\ a.config \in {4, 5} /\ a.load < 3
         /\ a.trial = TrialsAt(a.config, a.load)
      \/ b.config = a.config + 1 /\ b.load = 0 /\ b.trial = 1 /\ (a.config \in {4, 5} => a.load = 3)
         /\ a.trial = TrialsAt(a.config, a.load)
  BY FollowsInLoops, ConfigValues
<1> HIDE DEF T, C, S, b
<1>8. \A l \in 1 .. 3 : l - 1 \in 0 .. 2 /\ (l - 1) * S \in Nat /\ l * S = (l - 1) * S + S
  BY <1>1
<1>9. 0 * S = 0 /\ 1 * S = S /\ 2 * S = S + S /\ 3 * S = S + S + S
  BY <1>1
<1>10. CASE a.config \in {1, 2, 3}
  BY <1>1, <1>2, <1>3, <1>5, <1>6, <1>7, <1>10 DEF b
<1>11. CASE a.config \in {4, 5} /\ a.load = 0
  BY <1>1, <1>2, <1>3, <1>4, <1>5, <1>6, <1>7, <1>9, <1>11 DEF b
<1>12. CASE a.config \in {4, 5} /\ a.load \in {1, 2}
  BY <1>1, <1>2, <1>3, <1>4, <1>5, <1>6, <1>7, <1>9, <1>12 DEF b
<1>13. CASE a.config \in {4, 5} /\ a.load = 3
  BY <1>1, <1>2, <1>3, <1>4, <1>5, <1>6, <1>7, <1>9, <1>13 DEF b
<1> QED
  BY <1>2, <1>10, <1>11, <1>12, <1>13

LEMMA NumberInRun ==
  ASSUME NEW a, InLoops(a)
  PROVE  /\ Number(a) \in 1 .. AllRows + 1
         /\ AllRows \in Nat
         /\ a.config > Cap8 => Number(a) = AllRows + 1
         /\ a.config \in Configs => Number(a) <= AllRows
<1> DEFINE T == Trials
           C == CalibrationTrials
           S == SweepTrials
<1>1. T \in Nat \ {0} /\ C \in Nat \ {0} /\ S \in Nat \ {0}
  BY TrialsAssumption
<1>2. /\ a.config \in 1 .. 6 /\ a.load \in 0 .. 3 /\ a.trial \in Nat \ {0}
      /\ a.config \notin {4, 5} => a.load = 0
      /\ a.config = 6 => a.trial = 1
      /\ a.config \in 1 .. 5 => a.trial <= TrialsAt(a.config, a.load)
  BY ConfigValues DEF InLoops, Positions, Seq1, Cap8
<1>3. TrialsAt(a.config, a.load) = IF a.config \notin {4, 5} THEN T ELSE IF a.load = 0 THEN C ELSE S
  BY ConfigValues DEF TrialsAt
<1>4. CurveRows = C + 3 * S /\ CurveRows \in Nat
  BY <1>1 DEF CurveRows
<1>5. /\ RowsBefore(1) = 0 /\ RowsBefore(2) = T /\ RowsBefore(3) = 2 * T
      /\ RowsBefore(4) = 3 * T /\ RowsBefore(5) = 3 * T + CurveRows
      /\ RowsBefore(6) = 3 * T + 2 * CurveRows
  BY <1>1, <1>4 DEF RowsBefore, Cap1
<1>6. Number(a) = RowsBefore(a.config) +
             (IF a.load = 0 THEN a.trial ELSE C + (a.load - 1) * S + a.trial)
  BY DEF Number
<1>7. AllRows = RowsBefore(6)
  BY DEF AllRows, Cap8
<1> HIDE DEF T, C, S
<1>8. CASE a.config \in {1, 2, 3}
  BY <1>1, <1>2, <1>3, <1>4, <1>5, <1>6, <1>7, <1>8, ConfigValues DEF Cap8
<1>9. CASE a.config \in {4, 5} /\ a.load = 0
  BY <1>1, <1>2, <1>3, <1>4, <1>5, <1>6, <1>7, <1>9, ConfigValues DEF Cap8
<1>10. CASE a.config \in {4, 5} /\ a.load = 1
  BY <1>1, <1>2, <1>3, <1>4, <1>5, <1>6, <1>7, <1>10, ConfigValues DEF Cap8
<1>11. CASE a.config \in {4, 5} /\ a.load = 2
  BY <1>1, <1>2, <1>3, <1>4, <1>5, <1>6, <1>7, <1>11, ConfigValues DEF Cap8
<1>12. CASE a.config \in {4, 5} /\ a.load = 3
  BY <1>1, <1>2, <1>3, <1>4, <1>5, <1>6, <1>7, <1>12, ConfigValues DEF Cap8
<1>13. CASE a.config = 6
  BY <1>1, <1>2, <1>4, <1>5, <1>6, <1>7, <1>13, ConfigValues DEF Cap8
<1> QED
  BY <1>2, <1>8, <1>9, <1>10, <1>11, <1>12, <1>13

-----------------------------------------------------------------------------
(* Type correctness *)

\* TypeOK with what it needs to be preserved.
TypeInv ==
    /\ TypeOK
    /\ InLoops(at)
    /\ window.open => at.config \in Curves

LEMMA ProducersBounded ==
  ASSUME TypeOK
  PROVE  Producers(at.config) \in 1 .. 8
BY ParsAssumption DEF TypeOK, Producers

\* What the three ways of finishing a trial share.
LEMMA EmitTyped ==
  ASSUME TypeInv, at.config \in Configs, Emit
  PROVE  /\ at' \in Positions /\ InLoops(at')
         /\ rows' \in Seq([config : Configs, load : 0 .. 3, trial : Nat \ {0}, target : Nat])
         /\ Len(rows') = Len(rows) + 1
         /\ printed' \in 0 .. Len(rows')
         /\ filed' \in 0 .. printed'
         /\ torn' \in BOOLEAN
<1>1. InLoops(at')
  BY FollowsInLoops DEF Emit, TypeInv
<1>2. best * at.load \in Nat
  BY DEF TypeInv, TypeOK, Positions
<1>3. Row \in [config : Configs, load : 0 .. 3, trial : Nat \ {0}, target : Nat]
  BY <1>2 DEF Row, TypeInv, TypeOK, Positions
<1>4. /\ rows' \in Seq([config : Configs, load : 0 .. 3, trial : Nat \ {0}, target : Nat])
      /\ Len(rows') = Len(rows) + 1
  BY <1>3 DEF Emit, TypeInv, TypeOK
<1>5. PrintedAfter \in printed .. Len(rows) + 1
  BY DEF PrintedAfter, TypeInv, TypeOK
<1>6. printed' \in 0 .. Len(rows') /\ filed' \in 0 .. printed'
  BY <1>4, <1>5 DEF Emit, TypeInv, TypeOK
<1> QED
  BY <1>1, <1>4, <1>6 DEF InLoops, Emit, TypeInv, TypeOK

LEMMA TypeInvInit == Init => TypeInv
<1> SUFFICES ASSUME Init PROVE TypeInv
  OBVIOUS
<1>1. TrialsAt(1, 0) = Trials
  BY DEF TrialsAt, Curves, Cap1, Cap8
<1>2. InLoops(at)
  BY <1>1, TrialsAssumption DEF Init, InLoops, Positions, Configs, Seq1, Cap8
<1>3. /\ rows \in Seq([config : Configs, load : 0 .. 3, trial : Nat \ {0}, target : Nat])
      /\ printed \in 0 .. Len(rows) /\ filed \in 0 .. printed /\ best \in Nat
  BY DEF Init
<1>4. measured \in [Curves -> SUBSET Rates]
  BY DEF Init
<1>5. window \in [open : BOOLEAN, pool : Nat, perTick : Nat]
  BY DEF Init, Closed
<1>6. TypeOK
  <2>1. at \in Positions
    BY <1>2 DEF InLoops
  <2>2. port \in Ports /\ par \in Pars /\ torn = FALSE /\ status = "running"
    BY DEF Init
  <2> QED
    BY <2>1, <2>2, <1>3, <1>4, <1>5 DEF TypeOK
<1> QED
  BY <1>2, <1>6 DEF TypeInv, Init, Closed

LEMMA TypeInvNext == TypeInv /\ [Next]_vars => TypeInv'
<1> SUFFICES ASSUME TypeInv, [Next]_vars PROVE TypeInv'
  OBVIOUS
<1> USE DEF TypeInv
<1>1. CASE OpenWindow
  <2> DEFINE P == Producers(at.config)
  <2>1. P \in 1 .. 8 /\ port \in Profiles
    BY ProducersBounded, PortsAssumption DEF TypeOK
  <2>2. CalibrationPool(port, P) \in Nat
    BY <2>1, CalibrationPoolFilled
  <2>3. ASSUME at.load # 0
        PROVE  SweepPool(port, best, at.load, P) \in Nat
               /\ SweepPerTick(port, best, at.load, P) \in Nat
    <3>1. best \in Nat /\ at.load \in Nat
      BY DEF TypeOK, Positions
    <3> HIDE DEF P
    <3>2. best * at.load \in Nat /\ 3 * best * at.load \in Nat /\ 100 * P \in Nat \ {0}
      BY <2>1, <3>1
    <3>3. SweepPerTick(port, best, at.load, P) \in Nat
      BY <3>2, NearestIsNear DEF SweepPerTick, Most
    <3>4. RatePool(best, at.load, P) \in Nat
      BY <2>1, <3>2, CeilingCovers DEF RatePool
    <3>5. MaxSweepPoolTotal \div P \in Nat
      BY <2>1, Division DEF MaxSweepPoolTotal
    <3> QED
      BY <2>1, <3>3, <3>4, <3>5 DEF SweepPool, Least, Most, Profiles
  <2>4. window' \in [open : BOOLEAN, pool : Nat, perTick : Nat]
    BY <1>1, <2>2, <2>3 DEF OpenWindow
  <2> QED
    BY <1>1, <2>4 DEF OpenWindow, TypeOK, config, output, InLoops
<1>2. CASE FinishFirehose
  BY <1>2, EmitTyped DEF FinishFirehose, TypeOK, config
<1>3. CASE FinishCalibration
  <2>1. at.config \in Curves /\ at.config \in Configs
    BY <1>3, ConfigValues DEF FinishCalibration
  <2>2. PICK rate \in Rates : /\ best' = BestWith(rate)
                              /\ measured' = [measured EXCEPT ![at.config] = @ \union {rate}]
    BY <1>3 DEF FinishCalibration
  <2>3. best' \in Nat
    BY <2>2, RatesAssumption DEF BestWith, Most, TypeOK
  <2>4. measured' \in [Curves -> SUBSET Rates]
    BY <2>1, <2>2 DEF TypeOK
  <2> QED
    BY <1>3, <2>1, <2>3, <2>4, EmitTyped DEF FinishCalibration, TypeOK, config, Closed
<1>4. CASE FinishSweep
  <2>1. at.config \in Configs
    BY <1>4, ConfigValues DEF FinishSweep
  <2> QED
    BY <1>4, <2>1, EmitTyped DEF FinishSweep, TypeOK, config, Closed
<1>5. CASE WriteBlock
  <2>1. filed' \in 0 .. printed'
    BY <1>5 DEF WriteBlock, TypeOK
  <2>2. torn' \in BOOLEAN
    <3>1. PICK k \in filed .. printed : torn' \in IF k < printed THEN BOOLEAN ELSE {FALSE}
      BY <1>5 DEF WriteBlock
    <3> QED
      BY <3>1, Zenon
  <2> QED
    BY <1>5, <2>1, <2>2 DEF WriteBlock, TypeOK, config
<1>6. CASE Return \/ Raise
  <2>1. FlushAndEnd("ok") \/ FlushAndEnd("failed")
    BY <1>6 DEF Return, Raise
  <2>2. filed' \in 0 .. printed'
    BY <2>1 DEF FlushAndEnd, TypeOK
  <2>3. torn' = FALSE /\ status' \in {"running", "ok", "failed"}
    BY <2>1 DEF FlushAndEnd
  <2> QED
    BY <2>1, <2>2, <2>3 DEF Return, Raise, FlushAndEnd, TypeOK, config
<1>7. CASE Die \/ Ended \/ UNCHANGED vars
  BY <1>7 DEF Die, Ended, vars, TypeOK, config, output, InLoops
<1> QED
  BY <1>1, <1>2, <1>3, <1>4, <1>5, <1>6, <1>7 DEF Next

LEMMA TypeInvariance == Spec => []TypeInv
<1> QED
  BY TypeInvInit, TypeInvNext, PTL DEF Spec

\* Every variable of a program run keeps its type (TypeOK), for every set of
\* profiles, rates and trial counts.
THEOREM TypeCorrect == Spec => []TypeOK
<1>1. TypeInv => TypeOK
  BY DEF TypeInv
<1> QED
  BY <1>1, TypeInvariance, PTL

-----------------------------------------------------------------------------
(* Which rows a failure can lose *)

OutputInv ==
    /\ HeldBackRowsAreOfThisCurve
    /\ torn => filed < printed
    /\ torn => port.stdout = "block"

LEMMA OutputInvNext == TypeInv /\ OutputInv /\ [Next]_vars => OutputInv'
<1> SUFFICES ASSUME TypeInv, OutputInv, [Next]_vars PROVE OutputInv'
  OBVIOUS
<1>1. ASSUME at.config \in Configs, Emit, UNCHANGED config
      PROVE  OutputInv'
  <2>1. /\ Len(rows') = Len(rows) + 1 /\ Len(rows) \in Nat
        /\ rows' = Append(rows, Row) /\ port \in Profiles
        /\ printed \in 0 .. Len(rows) /\ filed \in 0 .. printed
    BY <1>1, EmitTyped, PortsAssumption DEF TypeInv, TypeOK, Emit
  <2>2. \A k \in 1 .. Len(rows) : rows'[k] = rows[k]
    BY <2>1 DEF TypeInv, TypeOK
  <2>3. rows'[Len(rows) + 1] = Row
    BY <2>1 DEF TypeInv, TypeOK
  <2>4. CASE printed' = Len(rows) + 1
    BY <1>1, <2>1, <2>4 DEF OutputInv, HeldBackRowsAreOfThisCurve, Emit, config
  <2>5. CASE printed' # Len(rows) + 1
    <3>1. /\ port.emits = "curve" /\ at.config \in Curves
          /\ at'.config = at.config /\ printed' = printed
      BY <1>1, <2>5 DEF Emit, PrintedAfter
    <3>2. Row.config = at.config
      BY DEF Row
    <3> QED
      BY <1>1, <2>1, <2>2, <2>3, <3>1, <3>2
      DEF OutputInv, HeldBackRowsAreOfThisCurve, Emit, config, Profiles, PrintedAfter
  <2> QED
    BY <2>4, <2>5
<1>2. CASE OpenWindow
  BY <1>2 DEF OpenWindow, OutputInv, HeldBackRowsAreOfThisCurve, config, output
<1>3. CASE FinishFirehose \/ FinishCalibration \/ FinishSweep
  <2>1. at.config \in Configs
    BY <1>3, ConfigValues DEF FinishFirehose, FinishCalibration, FinishSweep, TypeInv
  <2> QED
    BY <1>1, <1>3, <2>1 DEF FinishFirehose, FinishCalibration, FinishSweep
<1>4. CASE WriteBlock
  BY <1>4 DEF WriteBlock, OutputInv, HeldBackRowsAreOfThisCurve, config, TypeInv, TypeOK
<1>5. CASE Return \/ Raise
  BY <1>5 DEF Return, Raise, FlushAndEnd, OutputInv, HeldBackRowsAreOfThisCurve, config
<1>6. CASE Die \/ Ended \/ UNCHANGED vars
  BY <1>6 DEF Die, Ended, vars, OutputInv, HeldBackRowsAreOfThisCurve, config, output
<1> QED
  BY <1>2, <1>3, <1>4, <1>5, <1>6 DEF Next

LEMMA OutputInvariance == Spec => []OutputInv
<1>1. Init => OutputInv
  BY DEF Init, OutputInv, HeldBackRowsAreOfThisCurve
<1> QED
  BY <1>1, OutputInvNext, TypeInvariance, PTL DEF Spec

\* A failing program loses no row of a trial that is over, or, where a curve is
\* printed as a whole, only rows of the curve under way (and what is in a
\* buffer).
THEOREM HeldBackRows == Spec => []HeldBackRowsAreOfThisCurve
<1>1. OutputInv => HeldBackRowsAreOfThisCurve
  BY DEF OutputInv
<1> QED
  BY <1>1, OutputInvariance, PTL

-----------------------------------------------------------------------------
(* Where the target rates come from *)

\* The calibrations of a curve are over when its sweep begins, and best is the
\* largest of what they measured.
CalibrationInv ==
    /\ \A c \in Curves :
           c > at.config \/ (c = at.config /\ at.load = 0 /\ at.trial = 1)
               => measured[c] = {}
    /\ at.config \in Curves /\ (at.load > 0 \/ at.trial > 1) =>
           /\ best \in measured[at.config]
           /\ \A rate \in measured[at.config] : rate <= best
    /\ \A k \in 1 .. Len(rows) : rows[k].load > 0 =>
           /\ rows[k].config \in Curves
           /\ rows[k].config <= at.config
           /\ rows[k].config = at.config => at.load > 0
    /\ TargetsFromBestCalibration

\* Emit appends a row and moves on; earlier rows stay what they were.
LEMMA EmitAppends ==
  ASSUME TypeInv, at.config \in Configs, Emit
  PROVE  /\ DOMAIN rows = 1 .. Len(rows) /\ Len(rows) \in Nat
         /\ DOMAIN rows' = 1 .. Len(rows) + 1
         /\ \A k \in 1 .. Len(rows) : rows'[k] = rows[k]
         /\ rows'[Len(rows) + 1] = Row
         /\ at' = Follows(at)
BY DEF Emit, TypeInv, TypeOK

LEMMA CalibrationInvNext == TypeInv /\ CalibrationInv /\ [Next]_vars => CalibrationInv'
<1> SUFFICES ASSUME TypeInv, CalibrationInv, [Next]_vars PROVE CalibrationInv'
  OBVIOUS
<1> DEFINE n == Len(rows)
<1>t. /\ at.config \in 1 .. 6 /\ at.load \in 0 .. 3 /\ at.trial \in Nat \ {0} /\ best \in Nat
      /\ at.config \notin Curves => at.load = 0
      /\ measured \in [Curves -> SUBSET Rates]
      /\ \A c, l : TrialsAt(c, l) \in Nat \ {0}
  BY TrialsAssumption DEF TypeInv, TypeOK, Positions, InLoops, TrialsAt, Seq1, Cap8
<1>1. CASE FinishFirehose
  <2>1. at.config \in Configs /\ at.config \notin Curves /\ Emit /\ best' = best /\ measured' = measured
    BY <1>1 DEF FinishFirehose
  <2>2. /\ at'.load = 0 /\ at'.config \in {at.config, at.config + 1}
        /\ at'.config \in Curves => at'.trial = 1 /\ at'.config = at.config + 1
    BY <2>1, <1>t, FollowsInLoops DEF TypeInv, Emit
  <2>3. Row.load = 0
    BY <2>1, <1>t DEF Row
  <2>4. \A k \in 1 .. n + 1 : rows'[k].load > 0 => k \in 1 .. n /\ rows'[k] = rows[k]
    BY <2>1, <2>3, EmitAppends
  <2>5. \A c \in Curves :
           c > at'.config \/ (c = at'.config /\ at'.load = 0 /\ at'.trial = 1) => measured'[c] = {}
    BY <2>1, <2>2, <1>t, ConfigValues DEF CalibrationInv
  <2>6. \A k \in 1 .. n + 1 : rows'[k].load > 0 =>
           /\ rows'[k].config \in Curves
           /\ rows'[k].config <= at'.config
           /\ rows'[k].config = at'.config => at'.load > 0
    BY <2>1, <2>2, <2>4, <1>t, ConfigValues DEF CalibrationInv
  <2>7. TargetsFromBestCalibration'
    BY <2>1, <2>4, EmitAppends DEF CalibrationInv, TargetsFromBestCalibration
  <2>8. ~(at'.config \in Curves /\ (at'.load > 0 \/ at'.trial > 1))
    BY <2>2
  <2> QED
    BY <2>1, <2>5, <2>6, <2>7, <2>8, EmitAppends DEF CalibrationInv
<1>2. CASE FinishCalibration
  <2>1. at.config \in Curves /\ at.config \in Configs /\ at.load = 0 /\ Emit
    BY <1>2, ConfigValues DEF FinishCalibration, TypeInv
  <2>2. PICK rate \in Rates : /\ best' = BestWith(rate)
                              /\ measured' = [measured EXCEPT ![at.config] = @ \union {rate}]
    BY <1>2 DEF FinishCalibration
  <2>3. rate \in Nat
    BY RatesAssumption
  <2>4. /\ at'.config = at.config
        /\ at'.load = 0 \/ (at'.load = 1 /\ at'.trial = 1)
        /\ at'.load > 0 \/ at'.trial > 1
    BY <2>1, <1>t, FollowsInLoops DEF TypeInv, Emit
  <2>5. measured'[at.config] = measured[at.config] \union {rate}
        /\ \A c \in Curves : c # at.config => measured'[c] = measured[c]
    BY <2>1, <2>2, <1>t
  <2>6. best' \in measured'[at.config] /\ \A m \in measured'[at.config] : m <= best'
    <3>1. CASE at.trial = 1
      BY <3>1, <2>1, <2>2, <2>3, <2>5 DEF CalibrationInv, BestWith
    <3>2. CASE at.trial # 1
      <4>1. best \in measured[at.config] /\ \A m \in measured[at.config] : m <= best
        BY <3>2, <2>1, <1>t DEF CalibrationInv
      <4>2. measured[at.config] \subseteq Nat
        BY <1>t, <2>1, RatesAssumption
      <4> QED
        BY <3>2, <4>1, <4>2, <2>2, <2>3, <2>5, <1>t DEF BestWith, Most
    <3> QED
      BY <3>1, <3>2
  <2>7. Row.load = 0
    BY <2>1 DEF Row
  <2>8. \A k \in 1 .. n + 1 : rows'[k].load > 0 =>
           /\ k \in 1 .. n /\ rows'[k] = rows[k]
           /\ rows[k].config \in Curves /\ rows[k].config <= at.config
           /\ rows[k].config # at.config
    BY <2>1, <2>7, EmitAppends DEF CalibrationInv
  <2>9. TargetsFromBestCalibration'
    BY <2>1, <2>5, <2>8, EmitAppends DEF CalibrationInv, TargetsFromBestCalibration
  <2>10. \A c \in Curves : c > at'.config => measured'[c] = {}
    BY <2>1, <2>4, <2>5, <1>t, ConfigValues DEF CalibrationInv
  <2> QED
    BY <2>1, <2>4, <2>6, <2>8, <2>9, <2>10, EmitAppends DEF CalibrationInv
<1>3. CASE FinishSweep
  <2>1. /\ at.config \in Curves /\ at.config \in Configs /\ at.load > 0 /\ Emit
        /\ best' = best /\ measured' = measured
    BY <1>3, ConfigValues DEF FinishSweep, TypeInv
  <2>2. \/ at'.config = at.config /\ at'.load > 0
        \/ at'.config = at.config + 1 /\ at'.load = 0 /\ at'.trial = 1
    BY <2>1, <1>t, FollowsInLoops DEF TypeInv, Emit
  <2>3. best \in measured[at.config] /\ \A m \in measured[at.config] : m <= best
    BY <2>1 DEF CalibrationInv
  <2>4. measured[at.config] \subseteq Nat
    BY <1>t, <2>1, RatesAssumption
  <2>5. /\ Row.load = at.load /\ Row.config = at.config /\ Row.target = best * at.load
    BY <2>1, <1>t DEF Row
  <2>6. \A m \in measured[at.config] : m * at.load <= best * at.load
    BY <2>3, <2>4, <1>t
  <2>7. TargetsFromBestCalibration'
    <3> SUFFICES ASSUME NEW k \in 1 .. n + 1, rows'[k].load > 0
                 PROVE  /\ \E m \in measured[rows'[k].config] : rows'[k].target = m * rows'[k].load
                        /\ \A m \in measured[rows'[k].config] : m * rows'[k].load <= rows'[k].target
      BY <2>1, EmitAppends DEF TargetsFromBestCalibration
    <3>1. CASE k \in 1 .. n
      BY <3>1, <2>1, EmitAppends DEF CalibrationInv, TargetsFromBestCalibration
    <3>2. CASE k = n + 1
      BY <3>2, <2>1, <2>3, <2>5, <2>6, EmitAppends
    <3> QED
      BY <3>1, <3>2, <2>1, EmitAppends
  <2>8. \A k \in 1 .. n + 1 : rows'[k].load > 0 =>
           /\ rows'[k].config \in Curves
           /\ rows'[k].config <= at'.config
           /\ rows'[k].config = at'.config => at'.load > 0
    <3> SUFFICES ASSUME NEW k \in 1 .. n + 1, rows'[k].load > 0
                 PROVE  /\ rows'[k].config \in Curves /\ rows'[k].config <= at.config
      BY <2>2, <1>t, ConfigValues
    <3>1. CASE k \in 1 .. n
      BY <3>1, <2>1, EmitAppends DEF CalibrationInv
    <3>2. CASE k = n + 1
      BY <3>2, <2>1, <2>5, <1>t, EmitAppends
    <3> QED
      BY <3>1, <3>2, <2>1, EmitAppends
  <2>9. \A c \in Curves :
           c > at'.config \/ (c = at'.config /\ at'.load = 0 /\ at'.trial = 1) => measured'[c] = {}
    BY <2>1, <2>2, <1>t, ConfigValues DEF CalibrationInv
  <2>10. at'.config \in Curves /\ (at'.load > 0 \/ at'.trial > 1) =>
           best' \in measured'[at'.config] /\ \A m \in measured'[at'.config] : m <= best'
    BY <2>1, <2>2, <2>3
  <2> QED
    BY <2>1, <2>7, <2>8, <2>9, <2>10, EmitAppends DEF CalibrationInv
<1>4. CASE UNCHANGED <<at, best, rows, measured>>
  BY <1>4 DEF CalibrationInv, TargetsFromBestCalibration
<1> QED
  BY <1>1, <1>2, <1>3, <1>4
  DEF Next, OpenWindow, WriteBlock, Return, Raise, FlushAndEnd, Die, Ended, vars, output

LEMMA CalibrationInvariance == Spec => []CalibrationInv
<1>1. Init => CalibrationInv
  BY ConfigValues DEF Init, CalibrationInv, TargetsFromBestCalibration, Seq1
<1> QED
  BY <1>1, CalibrationInvNext, TypeInvariance, PTL DEF Spec

\* A curve's sweep is paced by the largest rate of its own calibrations.
THEOREM TargetsFollowCalibration == Spec => []TargetsFromBestCalibration
<1>1. CalibrationInv => TargetsFromBestCalibration
  BY DEF CalibrationInv
<1> QED
  BY <1>1, CalibrationInvariance, PTL

-----------------------------------------------------------------------------
(* The sizes of a window *)

\* The pool of the window under way, and what a sweep's pool covers.
SizeInv ==
    window.open =>
        /\ window.pool > 0
        /\ at.load > 0 =>
              /\ Producers(at.config) * window.pool <= MaxSweepPoolTotal
              /\ 3 * best * at.load >= TicksPerWindow(port) * Producers(at.config)
                   /\ window.pool < MaxSweepPoolTotal \div Producers(at.config)
                 => window.pool >= window.perTick * TicksPerWindow(port)

LEMMA SizeInvNext == TypeInv /\ CalibrationInv /\ SizeInv /\ [Next]_vars => SizeInv'
<1> SUFFICES ASSUME TypeInv, CalibrationInv, SizeInv, [Next]_vars PROVE SizeInv'
  OBVIOUS
<1>1. CASE OpenWindow
  <2> DEFINE P == Producers(at.config)
             N == TicksPerWindow(port)
  <2>1. P \in 1 .. 8 /\ port \in Profiles /\ P' = P /\ port' = port
    BY <1>1, ProducersBounded, PortsAssumption DEF TypeInv, TypeOK, OpenWindow, config, Producers
  <2>2. at' = at /\ best' = best /\ at.config \in Curves
    BY <1>1 DEF OpenWindow
  <2>3. CASE at.load = 0
    BY <1>1, <2>1, <2>2, <2>3, CalibrationPoolFilled DEF OpenWindow, SizeInv
  <2>4. CASE at.load # 0
    <3>1. at.load \in 1 .. 3 /\ at.load > 0
      BY <2>4 DEF TypeInv, TypeOK, Positions
    <3>2. best \in Nat \ {0}
      BY <2>2, <3>1, RatesAssumption DEF CalibrationInv, TypeInv, TypeOK
    <3>3. window'.pool = SweepPool(port, best, at.load, P)
          /\ window'.perTick = SweepPerTick(port, best, at.load, P)
      BY <1>1, <2>4 DEF OpenWindow
    <3>4. /\ window'.pool \in Nat \ {0} /\ P * window'.pool <= MaxSweepPoolTotal
          /\ RatePool(best, at.load, P) \in Nat
          /\ window'.pool < MaxSweepPoolTotal \div P => window'.pool >= RatePool(best, at.load, P)
      BY <2>1, <3>1, <3>2, <3>3, SweepPoolFits
    <3>5. N \in 200 .. 223
      BY <2>1, TicksType
    <3>6. 3 * best * at.load >= N * P =>
            /\ window'.perTick \in Nat
            /\ window'.perTick * N <= RatePool(best, at.load, P)
      <4> HIDE DEF N, P
      <4> SUFFICES ASSUME 3 * best * at.load >= N * P
                   PROVE  /\ window'.perTick \in Nat
                          /\ window'.perTick * N <= RatePool(best, at.load, P)
        OBVIOUS
      <4>1. N \in 0 .. 225 /\ P \in 1 .. 8
        BY <2>1, <3>5
      <4>2. /\ SweepPerTick(port, best, at.load, P) \in Nat
            /\ SweepPerTick(port, best, at.load, P) * N <= RatePool(best, at.load, P)
        BY <3>1, <3>2, <4>1, PoolCoversPacing
      <4> QED
        BY <3>3, <4>2
    <3>7. 3 * best * at.load >= N * P /\ window'.pool < MaxSweepPoolTotal \div P
            => window'.pool >= window'.perTick * N
      <4> HIDE DEF N, P
      <4>1. window'.perTick \in Nat => window'.perTick * N \in Nat
        BY <3>5
      <4> QED
        BY <3>4, <3>6, <4>1
    <3>8. TicksPerWindow(port') = N
      BY <2>1
    <3> HIDE DEF P
    <3> QED
      BY <2>1, <2>2, <3>4, <3>7, <3>8 DEF SizeInv, P
  <2> QED
    BY <2>3, <2>4
<1>2. CASE FinishFirehose
  BY <1>2 DEF FinishFirehose, TypeInv, SizeInv
<1>3. CASE FinishCalibration \/ FinishSweep
  BY <1>3 DEF FinishCalibration, FinishSweep, Closed, SizeInv
<1>4. CASE UNCHANGED <<config, at, best, window>>
  BY <1>4 DEF SizeInv, config, Producers
<1> QED
  BY <1>1, <1>2, <1>3, <1>4
  DEF Next, WriteBlock, Return, Raise, FlushAndEnd, Die, Ended, vars, config

LEMMA SizeInvariance == Spec => []SizeInv
<1>1. Init => SizeInv
  BY DEF Init, SizeInv, Closed
<1> QED
  BY <1>1, SizeInvNext, CalibrationInvariance, TypeInvariance, PTL DEF Spec

\* The pools of a sweep window together hold at most 400000 envelopes.
THEOREM PoolsWithinBudget == Spec => []SweepPoolWithinBudget
<1>1. SizeInv => SweepPoolWithinBudget
  BY DEF SizeInv, SweepPoolWithinBudget
<1> QED
  BY <1>1, SizeInvariance, PTL

\* No window opens with an empty pool.
THEOREM PoolsFilled == Spec => []PoolNeverEmpty
<1>1. SizeInv => PoolNeverEmpty
  BY DEF SizeInv, PoolNeverEmpty
<1> QED
  BY <1>1, SizeInvariance, PTL

\* A pool that the budget did not cut lasts for a whole paced window.
THEOREM PoolsOutlastPacing == Spec => []PoolOutlastsPacing
<1>1. SizeInv => PoolOutlastsPacing
  BY DEF SizeInv, PoolOutlastsPacing
<1> QED
  BY <1>1, SizeInvariance, PTL

-----------------------------------------------------------------------------
(* The file *)

\* The rows are those of the first trials, in order.
NumberInv ==
    /\ Number(at) = Len(rows) + 1
    /\ \A k \in 1 .. Len(rows) : Number(rows[k]) = k

LEMMA NumberInvNext == TypeInv /\ NumberInv /\ [Next]_vars => NumberInv'
<1> SUFFICES ASSUME TypeInv, NumberInv, [Next]_vars PROVE NumberInv'
  OBVIOUS
<1>1. CASE FinishFirehose \/ FinishCalibration \/ FinishSweep
  <2>1. at.config \in Configs /\ Emit
    BY <1>1, ConfigValues DEF FinishFirehose, FinishCalibration, FinishSweep, TypeInv
  <2>2. Number(Follows(at)) = Number(at) + 1
    BY <2>1, FollowsIsNext DEF TypeInv
  <2>3. Number(Row) = Number(at)
    BY DEF Number, Row
  <2>4. Len(rows') = Len(rows) + 1
    BY <2>1, EmitTyped
  <2> QED
    BY <2>1, <2>2, <2>3, <2>4, EmitAppends DEF NumberInv
<1>2. CASE UNCHANGED <<at, rows>>
  BY <1>2 DEF NumberInv
<1> QED
  BY <1>1, <1>2
  DEF Next, OpenWindow, WriteBlock, Return, Raise, FlushAndEnd, Die, Ended, vars, output

LEMMA NumberInvariance == Spec => []NumberInv
<1>1. ASSUME Init PROVE NumberInv
  <2>1. RowsBefore(1) = 0
    BY TrialsAssumption DEF RowsBefore, Cap1
  <2>2. Number(at) = 1
    BY <1>1, <2>1 DEF Init, Number, Seq1
  <2> QED
    BY <1>1, <2>2 DEF Init, NumberInv
<1> QED
  BY <1>1, NumberInvNext, TypeInvariance, PTL DEF Spec

\* The file as ProgramRun sees it.
File == [k \in 1 .. filed |-> Number(rows[k])]

LEMMA FirstRows ==
  ASSUME NEW k \in Nat
  PROVE  Run!Rows(k) \in Seq(Nat) /\ Len(Run!Rows(k)) = k
BY DEF Run!Rows

LEMMA FileIsFirstRows ==
  ASSUME TypeInv, NumberInv
  PROVE  File = Run!Rows(filed) /\ Len(File) = filed
<1>1. \A k \in 1 .. filed : Number(rows[k]) = k
  BY DEF TypeInv, TypeOK, NumberInv
<1>2. File = Run!Rows(filed)
  BY <1>1 DEF File, Run!Rows
<1> QED
  BY <1>2, FirstRows DEF TypeInv, TypeOK

LEMMA RowsInRun ==
  ASSUME TypeInv, NumberInv
  PROVE  /\ AllRows \in Nat /\ Len(rows) \in 0 .. AllRows
         /\ at.config > Cap8 => Len(rows) = AllRows
BY NumberInRun DEF TypeInv, TypeOK, NumberInv

LEMMA StepRefines ==
  TypeInv /\ OutputInv /\ NumberInv /\ TypeInv' /\ OutputInv' /\ NumberInv' /\ [Next]_vars
    => [Run!Next]_(Run!vars)
<1> SUFFICES ASSUME TypeInv, OutputInv, NumberInv, TypeInv', OutputInv', NumberInv', [Next]_vars
             PROVE  [Run!Next]_(Run!vars)
  OBVIOUS
<1>1. /\ File = Run!Rows(filed) /\ Len(File) = filed
      /\ File' = Run!Rows(filed') /\ AllRows' = AllRows
  <2>1. (File = Run!Rows(filed))'
    BY FileIsFirstRows, PTL
  <2> QED
    BY <2>1, FileIsFirstRows DEF Run!Rows
<1>2. filed' >= filed /\ (torn /\ ~torn' => filed' > filed) => Run!Extend
  <2> SUFFICES ASSUME filed' >= filed, torn /\ ~torn' => filed' > filed
               PROVE  Run!Extend
    OBVIOUS
  <2>1. /\ filed \in Nat /\ filed' \in Nat /\ printed' \in Nat /\ AllRows \in Nat
        /\ filed' <= printed' /\ printed' <= Len(rows') /\ Len(rows') \in Nat
    BY RowsInRun DEF TypeInv, TypeOK
  <2>2. Len(rows') \in 0 .. AllRows
    <3>1. (Len(rows) \in 0 .. AllRows)'
      BY RowsInRun, PTL
    <3> QED
      BY <3>1, <1>1
  <2>3. filed' \in filed .. AllRows
    BY <2>1, <2>2
  <2>4. Len(Run!Rows(filed')) = filed'
    BY <2>1, FirstRows
  <2>5. torn' => filed' < AllRows
    BY <2>1, <2>2 DEF OutputInv
  <2>6. torn' \in BOOLEAN
    BY DEF TypeInv, TypeOK
  <2> QED
    BY <1>1, <2>3, <2>4, <2>5, <2>6 DEF Run!Extend, File
<1>3. CASE FinishFirehose \/ FinishCalibration \/ FinishSweep
  <2>1. Emit /\ status = "running" /\ status' = status /\ UNCHANGED config
    BY <1>3 DEF FinishFirehose, FinishCalibration, FinishSweep
  <2>2. filed' >= filed /\ torn' = torn
    BY <2>1 DEF Emit, PrintedAfter, TypeInv, TypeOK
  <2> QED
    BY <1>2, <2>1, <2>2 DEF Run!Next, Run!Write
<1>4. CASE WriteBlock
  <2>1. filed' >= filed /\ (torn /\ ~torn' => filed' > filed)
    BY <1>4 DEF WriteBlock, TypeInv, TypeOK
  <2> QED
    BY <1>2, <1>4, <2>1 DEF WriteBlock, Run!Next, Run!Write
<1>5. CASE Return
  <2>1. printed = Len(rows) /\ Len(rows) = AllRows
    <3>1. at.config > Cap8 /\ at.config \notin Curves
      BY <1>5, ConfigValues DEF Return, Cap8
    <3>2. printed \in 0 .. Len(rows) /\ Len(rows) \in Nat
      BY DEF TypeInv, TypeOK
    <3>3. ~ (\E k \in printed + 1 .. Len(rows) : TRUE)
      BY <3>1 DEF OutputInv, HeldBackRowsAreOfThisCurve
    <3>4. Len(rows) \in printed + 1 .. Len(rows) \/ printed = Len(rows)
      BY <3>2
    <3> QED
      BY <3>1, <3>3, <3>4, RowsInRun
  <2>2. File' = Run!Rows(AllRows)
    BY <1>1, <1>5, <2>1 DEF Return, FlushAndEnd
  <2> QED
    BY <1>5, <2>2 DEF Return, FlushAndEnd, Run!Next, Run!EndNormally, File
<1>6. CASE Raise
  <2>1. FlushAndEnd("failed") /\ status = "running"
    BY <1>6 DEF Raise
  <2>2. filed' >= filed /\ (torn /\ ~torn' => filed' > filed)
    BY <2>1 DEF FlushAndEnd, TypeInv, TypeOK, OutputInv
  <2> QED
    BY <1>2, <2>1, <2>2 DEF FlushAndEnd, Run!Next, Run!EndEarly
<1>7. CASE Die
  <2>1. filed' = filed /\ torn' = torn /\ filed \in Nat
    BY <1>7 DEF Die, output, TypeInv, TypeOK
  <2> QED
    BY <1>2, <1>7, <2>1 DEF Die, Run!Next, Run!EndEarly
<1>8. CASE OpenWindow \/ Ended \/ UNCHANGED vars
  <2>1. filed' = filed /\ torn' = torn /\ status' = status
    BY <1>8 DEF OpenWindow, Ended, vars, output
  <2>2. File' = File
    BY <1>1, <2>1
  <2> QED
    BY <2>1, <2>2 DEF Run!vars, File
<1> QED
  BY <1>3, <1>4, <1>5, <1>6, <1>7, <1>8 DEF Next

LEMMA InitRefines == Init => Run!Init
<1> SUFFICES ASSUME Init PROVE Run!Init
  OBVIOUS
<1>1. File = << >>
  BY DEF Init, File
<1> QED
  BY <1>1 DEF Init, Run!Init, File

\* The file of a program that is running or has ended, however it ended, is as
\* module ProgramRun promises.
THEOREM FileKeepsRun == Spec => KeepsRun
<1> QED
  BY InitRefines, StepRefines, TypeInvariance, OutputInvariance, NumberInvariance, PTL
  DEF Spec, KeepsRun, Run!Spec
=============================================================================
