------------------------- MODULE CapacityWindowProofs -------------------------
(***************************************************************************)
(* Theorems about one window of the capacity curve, for any number of      *)
(* producers, pool, capacity, batch, tick and window length.               *)
(*                                                                         *)
(* The argument.  Inv is a balance: what was accepted waits, runs or was   *)
(* delivered, and what was published is that plus, where every publish is  *)
(* counted, the refusals; a drained row is the balance with nothing        *)
(* waiting or running.  PaceInv bounds what a paced producer has taken by  *)
(* the pauses that had begun when its batch began, plus the batch.         *)
(* TimeoutInv charges each refusal to a producer that will not publish     *)
(* again, because the deadline has passed; BatchInv to an envelope of its  *)
(* producer's last batch.                                                  *)
(***************************************************************************)
EXTENDS CapacityWindow, FiniteSetTheorems, TLAPS

LEMMA ProfileType ==
  ASSUME NEW r \in Ports
  PROVE  /\ r.counts \in {"attempts", "accepted"} /\ r.timeout \in BOOLEAN
         /\ r.deadline \in {"publish", "batch"} /\ r.sleeps \in BOOLEAN
         /\ r.burst \in {"pool", "fixed"} /\ r.consumer \in {"append", "claim", "turn"}
         /\ r.first \in {"samples", "delivered", "both"}
BY PortsAssumption DEF Profiles

-----------------------------------------------------------------------------
(* Type correctness *)

LEMMA TypeInit == Init => TypeOK
<1> SUFFICES ASSUME Init PROVE TypeOK
  OBVIOUS
<1>1. paced \in BOOLEAN
  <2>1. paced \in Paces
    BY DEF Init
  <2> QED
    BY <2>1, PacesAssumption
<1>2. drained \in BOOLEAN
  BY DEF Init
<1>3. now \in 0 .. Horizon /\ endDepth \in 0 .. Cap
  BY CapAssumption, ClockAssumption DEF Init, Horizon
<1>4. /\ i \in [Producers -> 0 .. Pool] /\ n \in [Producers -> Nat]
      /\ tickStart \in [Producers -> 0 .. Horizon]
      /\ pc \in [Producers -> {"check", "fill", "offer", "asleep", "done"}]
  BY PoolAssumption, ClockAssumption DEF Init, Horizon
<1>5. /\ accepted \in Nat /\ refused \in Nat /\ published \in Nat
      /\ depth \in Nat /\ entered \in Nat /\ half \in Nat
      /\ delivered \in Nat /\ samples \in Nat
      /\ main \in {"joining", "draining", "reading", "reported", "crashed"}
      /\ unread \in SUBSET {"delivered", "samples"}
      /\ seen \in [delivered : Nat, samples : Nat, hollow : Nat]
      /\ row \in [total : Nat, delivered : Nat, samples : Nat, hollow : Nat] /\ port \in Ports
  BY DEF Init
<1> QED
  BY <1>1, <1>2, <1>3, <1>4, <1>5 DEF TypeOK

LEMMA TypeProducer ==
  ASSUME TypeOK, NEW p \in Producers, ProducerStep(p)
  PROVE  TypeOK'
<1> USE PoolAssumption, ClockAssumption DEF config, counters, consuming, bus, closing, Horizon
<1>1. CASE BeginBatch(p)
  BY <1>1 DEF TypeOK, BeginBatch
<1>2. CASE FinishProducer(p)
  BY <1>2 DEF TypeOK, FinishProducer
<1>3. CASE TakeEnvelope(p)
  <2>1. i[p] \in 0 .. Pool /\ i[p] < Pool /\ n[p] \in Nat
    BY <1>3 DEF TypeOK, TakeEnvelope, MayTake
  <2>2. i' \in [Producers -> 0 .. Pool] /\ n' \in [Producers -> Nat]
    BY <1>3, <2>1 DEF TypeOK, TakeEnvelope
  <2> QED
    BY <1>3, <2>2 DEF TypeOK, TakeEnvelope
<1>4. CASE PublishAccepted(p)
  BY <1>4 DEF TypeOK, PublishAccepted
<1>5. CASE PublishTimesOut(p)
  BY <1>5 DEF TypeOK, PublishTimesOut
<1>6. CASE EndBatch(p)
  <2>1. pc' \in [Producers -> {"check", "fill", "offer", "asleep", "done"}]
    BY <1>6 DEF TypeOK, EndBatch
  <2> QED
    BY <1>6, <2>1 DEF TypeOK, EndBatch
<1>7. CASE Wake(p)
  BY <1>7 DEF TypeOK, Wake
<1> QED
  BY <1>1, <1>2, <1>3, <1>4, <1>5, <1>6, <1>7 DEF ProducerStep

LEMMA TypeOther ==
  ASSUME TypeOK, depth <= Cap, Advance \/ BusStep \/ MainStep
  PROVE  TypeOK'
<1> USE CapAssumption, ClockAssumption DEF config, producing, counters, consuming, bus, closing, Horizon
<1>1. CASE Advance
  BY <1>1 DEF TypeOK, Advance
<1>2. CASE BusStep
  <2>1. CASE Dispatch
    BY <2>1 DEF TypeOK, Dispatch
  <2>2. CASE FirstStep
    BY <2>2 DEF TypeOK, FirstStep
  <2>3. CASE SecondStep
    BY <2>3 DEF TypeOK, SecondStep
  <2>4. CASE TurnConsume
    BY <2>4 DEF TypeOK, TurnConsume
  <2> QED
    BY <1>2, <2>1, <2>2, <2>3, <2>4 DEF BusStep
<1>3. CASE MainStep
  <2>1. CASE CloseWindow
    BY <2>1 DEF TypeOK, CloseWindow
  <2>2. CASE ShutdownDrained \/ ShutdownTimesOut
    BY <2>2 DEF TypeOK, ShutdownDrained, ShutdownTimesOut
  <2>3. CASE SliceTorn \/ StatsRaise \/ TeardownFaults
    BY <2>3 DEF TypeOK, SliceTorn, StatsRaise, TeardownFaults
  <2>4. CASE ReportRow
    BY <2>4 DEF TypeOK, ReportRow
  <2>5. CASE ReadBack
    <3>1. Sampled \in Nat /\ Hollow \in Nat
      BY DEF TypeOK, Sampled, Hollow
    <3>2. seen' \in [delivered : Nat, samples : Nat, hollow : Nat]
      BY <2>5, <3>1 DEF TypeOK, ReadBack
    <3>3. unread' \in SUBSET {"delivered", "samples"}
      BY <2>5 DEF TypeOK, ReadBack
    <3> QED
      BY <2>5, <3>2, <3>3 DEF TypeOK, ReadBack
  <2> QED
    BY <1>3, <2>1, <2>2, <2>3, <2>4, <2>5 DEF MainStep
<1> QED
  BY <1>1, <1>2, <1>3

LEMMA TypeStutter ==
  ASSUME TypeOK, UNCHANGED vars
  PROVE  TypeOK'
BY DEF TypeOK, vars, config, producing, counters, consuming, bus, closing

-----------------------------------------------------------------------------
(* What the counters of the bus and of the harness say of each other.      *)
(*                                                                         *)
(* Every accepted envelope waits, is being handled or was consumed; the    *)
(* counter and the samples are apart by the consumers between their two    *)
(* steps; what the harness counts is the accepted envelopes, with or       *)
(* without the refused ones; and once the producers are done none of this  *)
(* grows.  Once drained nothing moves: what has been read is still so.     *)

Conserved ==
    /\ accepted = depth + Running + Consumed
    /\ depth <= Cap

StepsApart ==
    /\ port.consumer = "append" => samples = delivered + half
    /\ port.consumer = "claim" => delivered = samples + half
    /\ port.consumer = "turn" => samples = delivered /\ half = 0

CountsKept ==
    published = IF port.counts = "attempts" THEN accepted + refused ELSE accepted

ProducersDone == main # "joining" => \A p \in Producers : pc[p] = "done"

DrainedIsEmpty ==
    drained => /\ main \in {"reading", "reported", "crashed"}
               /\ depth = 0 /\ entered = 0 /\ half = 0

SeenKept ==
    /\ main \in {"joining", "draining"} => unread = {"delivered", "samples"}
    /\ drained => /\ "delivered" \notin unread => seen.delivered = delivered
                  /\ "samples" \notin unread => seen.samples = delivered /\ seen.hollow = 0

RowKept ==
    main = "reported" =>
        /\ row.total = published
        /\ drained => /\ row.delivered = delivered
                      /\ row.samples = delivered /\ row.hollow = 0

CrashKept == main = "crashed" => ~drained \/ delivered = 0

Inv ==
    /\ TypeOK
    /\ Conserved
    /\ StepsApart
    /\ CountsKept
    /\ ProducersDone
    /\ DrainedIsEmpty
    /\ SeenKept
    /\ RowKept
    /\ CrashKept

LEMMA InvInit == Init => Inv
BY TypeInit, CapAssumption
   DEF Init, Inv, Conserved, StepsApart, CountsKept, ProducersDone, DrainedIsEmpty, SeenKept,
   RowKept, CrashKept, Running, Consumed

LEMMA InvProducer ==
  ASSUME Inv, NEW p \in Producers, ProducerStep(p)
  PROVE  Inv'
<1> USE DEF Inv
<1>1. TypeOK'
  BY TypeProducer
<1>2. /\ main = "joining" /\ drained = FALSE
      /\ UNCHANGED <<config, consuming, closing>>
  <2>1. pc[p] # "done" /\ UNCHANGED <<config, consuming, closing>>
    BY DEF ProducerStep, BeginBatch, FinishProducer, TakeEnvelope, PublishAccepted,
       PublishTimesOut, EndBatch, Wake, bus
  <2>2. main = "joining"
    BY <2>1 DEF ProducersDone
  <2>3. drained = FALSE
    BY <2>2 DEF DrainedIsEmpty, TypeOK
  <2> QED
    BY <2>1, <2>2, <2>3
<1>3. Conserved'
  <2>1. Running' = Running /\ Consumed' = Consumed /\ Running \in Nat /\ Consumed \in Nat
    BY <1>2 DEF Running, Consumed, consuming, config, TypeOK
  <2>2. \/ depth' = depth /\ accepted' = accepted
        \/ depth' = depth + 1 /\ accepted' = accepted + 1 /\ depth < Cap
    BY DEF ProducerStep, BeginBatch, FinishProducer, TakeEnvelope, PublishAccepted,
       PublishTimesOut, EndBatch, Wake, HasRoom, counters, bus
  <2> QED
    BY <2>1, <2>2, CapAssumption DEF Conserved, TypeOK
<1>4. CountsKept'
  BY DEF CountsKept, TypeOK, ProducerStep, BeginBatch, FinishProducer, TakeEnvelope,
     PublishAccepted, PublishTimesOut, EndBatch, Wake, counters, config
<1>5. StepsApart' /\ SeenKept'
  BY <1>2 DEF StepsApart, SeenKept, config, consuming, closing
<1>6. ProducersDone' /\ DrainedIsEmpty' /\ RowKept' /\ CrashKept'
  BY <1>2 DEF ProducersDone, DrainedIsEmpty, RowKept, CrashKept, closing
<1> QED
  BY <1>1, <1>3, <1>4, <1>5, <1>6

LEMMA InvBus ==
  ASSUME Inv, BusStep
  PROVE  Inv'
<1> USE DEF Inv
<1>1. TypeOK'
  BY TypeOther DEF Conserved
<1>2. UNCHANGED <<config, producing, counters, closing>>
  BY DEF BusStep, Dispatch, FirstStep, SecondStep, TurnConsume
<1>3. depth > 0 \/ entered > 0 \/ half > 0
  BY DEF BusStep, Dispatch, FirstStep, SecondStep, TurnConsume
<1>4. ~drained
  BY <1>3 DEF DrainedIsEmpty
<1>5. Conserved' /\ StepsApart'
  <2> USE CapAssumption, ProfileType DEF Conserved, StepsApart, TypeOK, Running, Consumed,
      counters, config
  <2>1. CASE Dispatch
    BY <2>1 DEF Dispatch
  <2>2. CASE FirstStep
    BY <2>2 DEF FirstStep
  <2>3. CASE SecondStep
    BY <2>3 DEF SecondStep
  <2>4. CASE TurnConsume
    BY <2>4 DEF TurnConsume
  <2> QED
    BY <2>1, <2>2, <2>3, <2>4 DEF BusStep
<1> QED
  BY <1>1, <1>2, <1>4, <1>5 DEF CountsKept, ProducersDone, DrainedIsEmpty, SeenKept, RowKept,
     CrashKept, config, producing, counters, closing

LEMMA InvMain ==
  ASSUME Inv, MainStep
  PROVE  Inv'
<1> USE DEF Inv
<1>1. TypeOK'
  BY TypeOther DEF Conserved
<1>2. UNCHANGED <<config, producing, counters, bus>>
  BY DEF MainStep, CloseWindow, ShutdownDrained, ShutdownTimesOut, ReadBack, SliceTorn,
     StatsRaise, TeardownFaults, ReportRow
<1>3. Conserved' /\ StepsApart' /\ CountsKept'
  BY <1>2 DEF Conserved, StepsApart, CountsKept, Running, Consumed, config, counters, consuming,
     bus
<1>4. ProducersDone'
  <2>1. \A p \in Producers : pc[p] = "done"
    BY DEF ProducersDone, MainStep, CloseWindow, ShutdownDrained, ShutdownTimesOut,
       ReadBack, SliceTorn, StatsRaise, TeardownFaults, ReportRow, AllRead
  <2>2. pc' = pc
    BY <1>2 DEF producing
  <2> QED
    BY <2>1, <2>2 DEF ProducersDone
<1>5. UNCHANGED <<port, published, depth, entered, half, delivered, samples>>
  BY <1>2 DEF config, counters, bus, consuming
<1>6. CASE CloseWindow \/ ShutdownTimesOut
  BY <1>1, <1>3, <1>4, <1>5, <1>6 DEF CloseWindow, ShutdownTimesOut, DrainedIsEmpty, SeenKept,
     RowKept, CrashKept
<1>7. CASE ShutdownDrained
  <2>1. depth = 0 /\ entered = 0 /\ half = 0
    BY <1>7 DEF ShutdownDrained, Idle, Running, TypeOK
  <2> QED
    BY <1>1, <1>3, <1>4, <1>5, <1>7, <2>1 DEF ShutdownDrained, DrainedIsEmpty, SeenKept,
       RowKept, CrashKept
<1>8. CASE ReadBack
  <2>1. drained => Sampled = delivered /\ Hollow = 0
    BY ProfileType DEF Sampled, Hollow, StepsApart, DrainedIsEmpty, TypeOK
  <2>2. SeenKept'
    <3>1. main' = "reading" /\ drained' = drained /\ seen' = [seen' EXCEPT !.hollow = seen'.hollow]
      BY <1>1, <1>8 DEF ReadBack, TypeOK
    <3>2. ASSUME drained, "delivered" \notin unread'
          PROVE  seen'.delivered = delivered
      BY <1>8, <3>2 DEF ReadBack, SeenKept
    <3>3. ASSUME drained, "samples" \notin unread'
          PROVE  seen'.samples = delivered /\ seen'.hollow = 0
      BY <1>8, <2>1, <3>3 DEF ReadBack, SeenKept
    <3> QED
      BY <1>5, <3>1, <3>2, <3>3 DEF SeenKept
  <2> QED
    BY <1>1, <1>3, <1>4, <1>5, <1>8, <2>2 DEF ReadBack, DrainedIsEmpty, RowKept, CrashKept
<1>9. CASE SliceTorn \/ StatsRaise \/ TeardownFaults
  <2>1. /\ main = "reading" /\ main' = "crashed"
        /\ UNCHANGED <<drained, unread, seen, row>>
    BY <1>9 DEF SliceTorn, StatsRaise, TeardownFaults, AllRead
  <2>2. ~drained \/ delivered = 0
    BY <1>9 DEF SliceTorn, StatsRaise, TeardownFaults, AllRead, SeenKept, DrainedIsEmpty, Running
  <2> QED
    BY <1>1, <1>3, <1>4, <1>5, <2>1, <2>2 DEF DrainedIsEmpty, SeenKept, RowKept, CrashKept
<1>10. CASE ReportRow
  <2>1. drained => seen.delivered = delivered /\ seen.samples = delivered /\ seen.hollow = 0
    BY <1>10 DEF ReportRow, AllRead, SeenKept
  <2> QED
    BY <1>1, <1>3, <1>4, <1>5, <1>10, <2>1 DEF ReportRow, AllRead, DrainedIsEmpty, SeenKept,
       RowKept, CrashKept
<1> QED
  BY <1>6, <1>7, <1>8, <1>9, <1>10 DEF MainStep

LEMMA InvAdvance ==
  ASSUME Inv, Advance
  PROVE  Inv'
<1>1. TypeOK'
  BY TypeOther DEF Inv, Conserved
<1> QED
  BY <1>1 DEF Advance, Inv, Conserved, StepsApart, CountsKept, ProducersDone, DrainedIsEmpty,
     SeenKept, RowKept, CrashKept, Running, Consumed, config, producing, counters, consuming,
     bus, closing

LEMMA InvStutter ==
  ASSUME Inv, UNCHANGED vars
  PROVE  Inv'
BY TypeStutter DEF Inv, Conserved, StepsApart, CountsKept, ProducersDone, DrainedIsEmpty,
   SeenKept, RowKept, CrashKept, Running, Consumed, vars, config, producing, counters,
   consuming, bus, closing

LEMMA InvNext == Inv /\ [Next]_vars => Inv'
BY InvProducer, InvBus, InvMain, InvAdvance, InvStutter DEF Next, Finished

LEMMA Invariance == Spec => []Inv
BY InvInit, InvNext, PTL DEF Spec

\* Every variable of the window keeps its type.
THEOREM TypeCorrect == Spec => []TypeOK
<1>1. Inv => TypeOK
  BY DEF Inv
<1> QED
  BY <1>1, Invariance, PTL

\* A port that counts what publish accepted never reports a drained row whose
\* `delivered` differs from its `total`.
THEOREM DrainedRowsAccount ==
  ASSUME \A r \in Ports : r.counts = "accepted"
  PROVE  Spec => []DrainedRowAccounts
<1>1. Inv => DrainedRowAccounts
  BY DEF Inv, DrainedRowAccounts, TypeOK, RowKept, DrainedIsEmpty, Conserved,
     StepsApart, CountsKept, Running, Consumed
<1> QED
  BY <1>1, Invariance, PTL

\* The gap between `total` and `delivered` of a drained row is exactly the
\* publishes that gave up where every publish is counted, and nothing where
\* the accepted ones are.
THEOREM DrainedRowsGap == Spec => []DrainedRowGap
<1>1. Inv => DrainedRowGap
  BY DEF Inv, DrainedRowGap, TypeOK, RowKept, DrainedIsEmpty, Conserved,
     StepsApart, CountsKept, Running, Consumed
<1> QED
  BY <1>1, Invariance, PTL

\* The percentiles of a drained row are those of exactly the envelopes it says
\* were delivered.
THEOREM DrainedRowsSampled == Spec => []DrainedRowSampled
<1>1. Inv => DrainedRowSampled
  BY DEF Inv, RowKept, DrainedRowSampled
<1> QED
  BY <1>1, Invariance, PTL

\* Only a window that delivered nothing, or that was not drained, ends
\* without a row.
THEOREM DrainedWindowsReport == Spec => []NonEmptyDrainedWindowReports
<1>1. Inv => NonEmptyDrainedWindowReports
  BY DEF Inv, CrashKept, NonEmptyDrainedWindowReports
<1> QED
  BY <1>1, Invariance, PTL

-----------------------------------------------------------------------------
(* What a producer has taken from its pool.                                *)
(*                                                                         *)
(* A producer that is done has used up its pool or was stopped by the      *)
(* deadline; one that sleeps in a calibration has used it up too, unless   *)
(* its port sleeps after a batch of fixed size.  The rate limiter rests on *)
(* where in its loop a producer is: at the head of the loop it has taken   *)
(* no more than the pauses completed so far allow, inside a batch no more  *)
(* than the pauses before the batch allow and the batch itself.            *)

PausesWorth(k, t) == PerTick * (t \div k)

StopKept(p) ==
    /\ n[p] <= i[p]
    /\ pc[p] = "done" /\ now < Deadline => i[p] = Pool
    /\ pc[p] = "asleep" => Sleeps
    /\ pc[p] = "asleep" /\ ~paced /\ port.burst = "pool" /\ now < Deadline => i[p] = Pool

RateKept(p) ==
    /\ tickStart[p] <= now
    /\ pc[p] \in {"fill", "offer"} =>
           n[p] <= PerTick /\ i[p] <= PausesWorth(Pause, tickStart[p]) + n[p]
    /\ pc[p] = "asleep" => i[p] <= PausesWorth(Pause, tickStart[p]) + PerTick
    /\ pc[p] = "check" => i[p] <= PausesWorth(Pause, now)
    /\ pc[p] = "done" => i[p] <= PausesWorth(Pause, now) + PerTick

PaceInv ==
    /\ TypeOK
    /\ \A p \in Producers : StopKept(p)
    /\ paced => \A p \in Producers : RateKept(p)

LEMMA ProductGrows ==
  ASSUME NEW k \in Nat, NEW a \in Nat, NEW b \in Nat, a <= b
  PROVE  k * a \in Nat /\ k * b \in Nat /\ k * a <= k * b
<1>1. PICK d \in Nat : b = a + d
  <2>1. b - a \in Nat /\ b = a + (b - a)
    OBVIOUS
  <2> QED
    BY <2>1
<1>2. k * a \in Nat /\ k * b \in Nat /\ k * d \in Nat
  OBVIOUS
<1>3. k * b = k * a + k * d
  BY <1>1
<1> QED
  BY <1>2, <1>3

LEMMA QuotientGrows ==
  ASSUME NEW a \in Nat, NEW b \in Nat, NEW k \in Nat \ {0}, a <= b
  PROVE  a \div k \in Nat /\ b \div k \in Nat /\ a \div k <= b \div k
OBVIOUS

LEMMA QuotientSteps ==
  ASSUME NEW a \in Nat, NEW b \in Nat, NEW k \in Nat \ {0}, a + k <= b
  PROVE  (a \div k) + 1 <= b \div k
OBVIOUS

LEMMA PausesWorthGrows ==
  ASSUME NEW k \in Nat \ {0}, NEW s \in Nat, NEW t \in Nat, s <= t
  PROVE  /\ PausesWorth(k, s) \in Nat /\ PausesWorth(k, t) \in Nat
         /\ PausesWorth(k, s) <= PausesWorth(k, t)
BY QuotientGrows, ProductGrows, BatchAssumption DEF PausesWorth

LEMMA PausesWorthSteps ==
  ASSUME NEW k \in Nat \ {0}, NEW s \in Nat, NEW t \in Nat, s + k <= t
  PROVE  PausesWorth(k, s) + PerTick <= PausesWorth(k, t)
<1>1. s \div k \in Nat /\ t \div k \in Nat /\ (s \div k) + 1 <= t \div k
  BY QuotientSteps, QuotientGrows
<1>2. PerTick * ((s \div k) + 1) <= PerTick * (t \div k)
  BY <1>1, ProductGrows, BatchAssumption
<1>3. PerTick * ((s \div k) + 1) = PerTick * (s \div k) + PerTick
  BY <1>1, BatchAssumption
<1> QED
  BY <1>2, <1>3 DEF PausesWorth

\* A pause is not empty, and no longer than a tick.
LEMMA PauseType == Pause \in Nat \ {0} /\ Pause <= Tick
BY ClockAssumption DEF Pause

LEMMA PaceInit == Init => PaceInv
<1>1. 0 <= PausesWorth(Pause, 0)
  BY PausesWorthGrows, PauseType
<1>2. ASSUME Init, NEW p \in Producers
      PROVE  StopKept(p) /\ RateKept(p)
  BY <1>1, <1>2 DEF Init, StopKept, RateKept
<1> QED
  BY <1>2, TypeInit DEF PaceInv

\* A step of one producer: what it has taken follows where it is.
LEMMA StopStep ==
  ASSUME TypeOK, NEW p \in Producers, StopKept(p), ProducerStep(p)
  PROVE  StopKept(p)'
<1> USE PoolAssumption, BatchAssumption, ClockAssumption
<1>0. /\ i[p] \in 0 .. Pool /\ n[p] \in Nat /\ now \in Nat
      /\ pc \in [Producers -> {"check", "fill", "offer", "asleep", "done"}]
      /\ i \in [Producers -> 0 .. Pool] /\ n \in [Producers -> Nat]
      /\ port.burst \in {"pool", "fixed"} /\ port.deadline \in {"publish", "batch"}
  BY ProfileType DEF TypeOK, Horizon
<1>1. CASE BeginBatch(p)
  BY <1>0, <1>1 DEF BeginBatch, StopKept, Sleeps, config
<1>2. CASE FinishProducer(p)
  BY <1>0, <1>2 DEF FinishProducer, MayBegin, StopKept, Sleeps, config
<1>3. CASE TakeEnvelope(p)
  BY <1>0, <1>3 DEF TakeEnvelope, StopKept, Sleeps, config
<1>4. CASE PublishAccepted(p)
  BY <1>0, <1>4 DEF PublishAccepted, StopKept, Sleeps, config
<1>5. CASE PublishTimesOut(p)
  BY <1>0, <1>5 DEF PublishTimesOut, StopKept, Sleeps, config
<1>6. CASE EndBatch(p)
  <2>1. /\ UNCHANGED <<config, now, i, n, tickStart>>
        /\ pc'[p] \in {"done", "asleep", "check"}
        /\ pc'[p] = "done" => n[p] = 0
        /\ pc'[p] = "asleep" => Sleeps
    BY <1>0, <1>6 DEF EndBatch
  <2>2. n[p] >= Batch \/ i[p] >= Pool \/ now >= Deadline
    BY <1>0, <1>6 DEF EndBatch, MayTake, Batch
  <2>3. pc'[p] = "done" /\ now < Deadline => i[p] = Pool
    BY <1>0, <2>1, <2>2 DEF Batch
  <2>4. ~paced /\ port.burst = "pool" /\ now < Deadline => i[p] = Pool
    BY <1>0, <2>2 DEF Batch, StopKept
  <2> QED
    BY <2>1, <2>3, <2>4 DEF StopKept, Sleeps, config
<1>7. CASE Wake(p)
  BY <1>0, <1>7 DEF Wake, StopKept, Sleeps, config
<1> QED
  BY <1>1, <1>2, <1>3, <1>4, <1>5, <1>6, <1>7 DEF ProducerStep

LEMMA RateStep ==
  ASSUME TypeOK, paced, NEW p \in Producers, RateKept(p), ProducerStep(p)
  PROVE  RateKept(p)'
<1> USE PoolAssumption, BatchAssumption, ClockAssumption
<1>0. /\ i[p] \in Nat /\ n[p] \in Nat /\ now \in Nat /\ tickStart[p] \in Nat
      /\ pc \in [Producers -> {"check", "fill", "offer", "asleep", "done"}]
      /\ i \in [Producers -> 0 .. Pool] /\ n \in [Producers -> Nat]
      /\ tickStart \in [Producers -> 0 .. Horizon] /\ PerTick \in Nat
  BY DEF TypeOK, Horizon
<1>p. Pause \in Nat \ {0} /\ Pause <= Tick /\ Pause' = Pause
  BY PauseType DEF ProducerStep, BeginBatch, FinishProducer, TakeEnvelope, PublishAccepted,
     PublishTimesOut, EndBatch, Wake, config, Pause
<1>w. /\ PausesWorth(Pause, now) \in Nat /\ PausesWorth(Pause, tickStart[p]) \in Nat
      /\ PausesWorth(Pause, tickStart[p]) <= PausesWorth(Pause, now)
      /\ tickStart[p] + Pause <= now =>
             PausesWorth(Pause, tickStart[p]) + PerTick <= PausesWorth(Pause, now)
  BY <1>0, <1>p, PausesWorthGrows, PausesWorthSteps DEF RateKept
<1>1. CASE BeginBatch(p)
  BY <1>0, <1>1, <1>p, <1>w DEF BeginBatch, RateKept
<1>2. CASE FinishProducer(p)
  BY <1>0, <1>2, <1>p, <1>w DEF FinishProducer, RateKept
<1>3. CASE TakeEnvelope(p)
  BY <1>0, <1>3, <1>p, <1>w DEF TakeEnvelope, MayTake, Batch, RateKept
<1>4. CASE PublishAccepted(p)
  BY <1>0, <1>4, <1>p, <1>w DEF PublishAccepted, RateKept
<1>5. CASE PublishTimesOut(p)
  BY <1>0, <1>5, <1>p, <1>w DEF PublishTimesOut, RateKept
<1>6. CASE EndBatch(p)
  <2>1. /\ UNCHANGED <<now, i, n, tickStart>>
        /\ pc'[p] \in {"done", "asleep", "check"}
        /\ pc'[p] = "check" => tickStart[p] + Pause <= now
    BY <1>0, <1>6, <1>p DEF EndBatch, Sleeps
  <2>2. i[p] <= PausesWorth(Pause, tickStart[p]) + PerTick
    BY <1>0, <1>6, <1>w DEF EndBatch, RateKept
  <2> QED
    BY <1>0, <1>p, <1>w, <2>1, <2>2 DEF RateKept
<1>7. CASE Wake(p)
  BY <1>0, <1>7, <1>p, <1>w DEF Wake, RateKept
<1> QED
  BY <1>1, <1>2, <1>3, <1>4, <1>5, <1>6, <1>7 DEF ProducerStep

\* Nothing but the clock and its own steps touches what a producer has taken.
LEMMA PaceFrame ==
  ASSUME NEW p \in Producers, UNCHANGED <<config, now>>, i'[p] = i[p], n'[p] = n[p],
         pc'[p] = pc[p], tickStart'[p] = tickStart[p]
  PROVE  /\ StopKept(p) => StopKept(p)'
         /\ RateKept(p) => RateKept(p)'
BY DEF StopKept, RateKept, Sleeps, Pause, config

LEMMA PaceProducer ==
  ASSUME Inv, PaceInv, NEW p \in Producers, ProducerStep(p)
  PROVE  PaceInv'
<1>1. TypeOK'
  BY TypeProducer DEF Inv
<1>2. UNCHANGED <<config, now>>
  BY DEF ProducerStep, BeginBatch, FinishProducer, TakeEnvelope, PublishAccepted,
     PublishTimesOut, EndBatch, Wake
<1>3. ASSUME NEW q \in Producers, q # p
      PROVE  /\ i'[q] = i[q] /\ n'[q] = n[q]
             /\ pc'[q] = pc[q] /\ tickStart'[q] = tickStart[q]
  BY <1>3 DEF PaceInv, TypeOK, ProducerStep, BeginBatch, FinishProducer, TakeEnvelope,
     PublishAccepted, PublishTimesOut, EndBatch, Wake
<1>4. ASSUME NEW q \in Producers
      PROVE  StopKept(q)'
  BY <1>2, <1>3, StopStep, PaceFrame DEF PaceInv
<1>5. ASSUME paced, NEW q \in Producers
      PROVE  RateKept(q)'
  BY <1>2, <1>3, <1>5, RateStep, PaceFrame DEF PaceInv
<1> QED
  BY <1>1, <1>2, <1>4, <1>5 DEF PaceInv, config

LEMMA PaceAdvance ==
  ASSUME Inv, PaceInv, Advance
  PROVE  PaceInv'
<1>1. TypeOK'
  BY InvAdvance DEF Inv
<1>2. now \in Nat /\ now' = now + 1 /\ UNCHANGED <<config, producing>> /\ Deadline \in Nat
  BY ClockAssumption DEF PaceInv, TypeOK, Horizon, Advance
<1>3. ASSUME NEW p \in Producers
      PROVE  StopKept(p)'
  BY <1>2, <1>3 DEF PaceInv, StopKept, Sleeps, config, producing
<1>4. ASSUME paced, NEW p \in Producers
      PROVE  RateKept(p)'
  <2>1. /\ PausesWorth(Pause, now) <= PausesWorth(Pause, now')
        /\ PausesWorth(Pause, now) \in Nat /\ PausesWorth(Pause, now') \in Nat
    BY <1>2, PauseType, PausesWorthGrows
  <2>2. i[p] \in Nat /\ tickStart[p] \in Nat /\ PerTick \in Nat
    BY BatchAssumption DEF PaceInv, TypeOK, Horizon
  <2>3. UNCHANGED <<pc, i, n, tickStart>>
    BY <1>2 DEF producing
  <2>4. RateKept(p)
    BY <1>4 DEF PaceInv
  <2>5. Pause' = Pause
    BY <1>2 DEF Pause, config
  <2> QED
    BY <1>2, <2>1, <2>2, <2>3, <2>4, <2>5 DEF RateKept
<1> QED
  BY <1>1, <1>2, <1>3, <1>4 DEF PaceInv, config

LEMMA PaceElsewhere ==
  ASSUME Inv, PaceInv, BusStep \/ MainStep \/ UNCHANGED vars
  PROVE  PaceInv'
<1>1. TypeOK'
  BY InvBus, InvMain, InvStutter DEF Inv
<1>2. UNCHANGED <<config, now, producing>>
  BY DEF BusStep, Dispatch, FirstStep, SecondStep, TurnConsume, MainStep, CloseWindow,
     ShutdownDrained, ShutdownTimesOut, ReadBack, SliceTorn, StatsRaise, TeardownFaults,
     ReportRow, vars
<1> QED
  BY <1>1, <1>2, PaceFrame DEF PaceInv, config, producing

LEMMA PaceNext == Inv /\ PaceInv /\ [Next]_vars => PaceInv'
BY PaceProducer, PaceAdvance, PaceElsewhere DEF Next, Finished

LEMMA PaceInvariance == Spec => []PaceInv
BY PaceInit, PaceNext, Invariance, PTL DEF Spec

\* The rate limiter: by any moment a paced producer has taken at most PerTick
\* envelopes for every pause begun so far: for every tick, where sleeps last
\* their full length, and for every tick less the slack where they may not.
THEOREM RateLimited == Spec => []PacedRate
<1>1. PaceInv => PacedRate
  <2> SUFFICES ASSUME PaceInv, paced, NEW p \in Producers
               PROVE  i[p] <= PerTick * ((now \div Pause) + 1)
    BY DEF PacedRate
  <2>1. /\ i[p] \in Nat /\ n[p] \in Nat /\ now \in Nat /\ tickStart[p] \in Nat
        /\ pc[p] \in {"check", "fill", "offer", "asleep", "done"}
        /\ PerTick \in Nat /\ Pause \in Nat \ {0}
    BY BatchAssumption, ClockAssumption, PauseType DEF PaceInv, TypeOK, Horizon
  <2>2. /\ PausesWorth(Pause, now) \in Nat /\ PausesWorth(Pause, tickStart[p]) \in Nat
        /\ PausesWorth(Pause, tickStart[p]) <= PausesWorth(Pause, now)
    BY <2>1, PausesWorthGrows DEF PaceInv, RateKept
  <2>3. i[p] <= PausesWorth(Pause, now) + PerTick
    BY <2>1, <2>2 DEF PaceInv, RateKept
  <2>4. now \div Pause \in Nat
    BY <2>1, QuotientGrows
  <2>5. PerTick * ((now \div Pause) + 1) = PerTick * (now \div Pause) + PerTick
    BY <2>1, <2>4
  <2> QED
    BY <2>3, <2>5 DEF PausesWorth
<1> QED
  BY <1>1, PaceInvariance, PTL

\* Where every sleep lasts its full length, the target rate of WORKLOAD.md is
\* kept: PerTick envelopes for every tick begun so far.
THEOREM FullSleepsKeepTargetRate ==
  ASSUME \A r \in Ports : r.pause = "full"
  PROVE  Spec => []TargetRateKept
<1>1. TypeOK /\ PacedRate => TargetRateKept
  BY DEF TypeOK, PacedRate, TargetRateKept, Pause
<1> QED
  BY <1>1, RateLimited, TypeCorrect, PTL

\* A producer that stops before the deadline has used up its pool.
THEOREM StopsEarlyExhausted == Spec => []StopsEarlyOnlyWhenExhausted
<1>1. PaceInv => StopsEarlyOnlyWhenExhausted
  BY DEF PaceInv, StopKept, StopsEarlyOnlyWhenExhausted
<1> QED
  BY <1>1, PaceInvariance, PTL

\* A calibration is never throttled where a port that sleeps when unpaced
\* (Java) publishes its whole pool in one batch.
THEOREM CalibrationRunsFlatOut ==
  ASSUME \A r \in Ports : r.sleeps => r.burst = "pool"
  PROVE  Spec => []CalibrationNeverThrottled
<1>1. PaceInv => CalibrationNeverThrottled
  BY DEF PaceInv, TypeOK, StopKept, Sleeps, CalibrationNeverThrottled
<1> QED
  BY <1>1, PaceInvariance, PTL

-----------------------------------------------------------------------------
(* Timeouts.  Nothing gives up before the deadline, and past the deadline  *)
(* a port that reads it before every publish offers nothing new: each      *)
(* refusal uses up one of the producers that were still offering.          *)

Offering == {p \in Producers : pc[p] = "offer"}

TimeoutInv ==
    port.deadline = "publish" =>
        /\ now < Deadline => refused = 0
        /\ refused + Cardinality(Offering) <= P

LEMMA OfferingBound ==
  ASSUME NEW S \in SUBSET Producers
  PROVE  IsFiniteSet(S) /\ Cardinality(S) \in 0 .. P
<1>1. IsFiniteSet(Producers) /\ Cardinality(Producers) = P
  <2>1. 0 \in Int /\ P - 1 \in Int /\ ~(0 > P - 1) /\ (P - 1) - 0 + 1 = P
    BY PAssumption
  <2> QED
    BY <2>1, FS_Interval DEF Producers
<1>2. IsFiniteSet(S) /\ Cardinality(S) <= P /\ Cardinality(S) \in Nat
  BY <1>1, FS_Subset, FS_CardinalityType
<1> QED
  BY <1>2, PAssumption

LEMMA TimeoutInit == Init => TimeoutInv
<1> SUFFICES ASSUME Init PROVE TimeoutInv
  OBVIOUS
<1>1. Cardinality(Offering) \in 0 .. P
  BY OfferingBound DEF Offering
<1>2. refused = 0
  BY DEF Init
<1> QED
  BY <1>1, <1>2, PAssumption DEF TimeoutInv

LEMMA TimeoutProducer ==
  ASSUME TypeOK, TimeoutInv, NEW p \in Producers, ProducerStep(p)
  PROVE  TimeoutInv'
<1> SUFFICES ASSUME port.deadline = "publish"
             PROVE  /\ now < Deadline => refused' = 0
                    /\ refused' + Cardinality(Offering') <= P
  BY DEF TimeoutInv, ProducerStep, BeginBatch, FinishProducer, TakeEnvelope,
     PublishAccepted, PublishTimesOut, EndBatch, Wake, config
<1> USE PAssumption, ClockAssumption
<1>1. /\ now < Deadline => refused = 0
      /\ refused + Cardinality(Offering) <= P
      /\ refused \in Nat /\ now \in Nat /\ Deadline \in Nat /\ P \in Nat
      /\ IsFiniteSet(Offering) /\ Cardinality(Offering) \in Nat
      /\ IsFiniteSet(Offering') /\ Cardinality(Offering') \in 0 .. P
      /\ pc \in [Producers -> {"check", "fill", "offer", "asleep", "done"}]
  <2>1. Offering \in SUBSET Producers /\ Offering' \in SUBSET Producers
    BY DEF Offering, Producers
  <2> QED
    BY <2>1, OfferingBound DEF TimeoutInv, TypeOK, Horizon
<1>2. CASE TakeEnvelope(p)
  <2>1. now < Deadline /\ refused' = refused
    BY <1>2 DEF TakeEnvelope, MayTake, counters
  <2> QED
    BY <1>1, <2>1
<1>3. CASE PublishTimesOut(p)
  <2>1. Offering' = Offering \ {p} /\ p \in Offering
    BY <1>1, <1>3 DEF PublishTimesOut, Offering, Producers
  <2>2. Cardinality(Offering') = Cardinality(Offering) - 1
    BY <1>1, <2>1, FS_RemoveElement
  <2> QED
    BY <1>1, <1>3, <2>2 DEF PublishTimesOut
<1>4. CASE \/ BeginBatch(p) \/ FinishProducer(p) \/ PublishAccepted(p)
           \/ EndBatch(p) \/ Wake(p)
  <2>1. refused' = refused
    BY <1>4 DEF BeginBatch, FinishProducer, PublishAccepted, EndBatch, Wake, counters
  <2>2. Offering' \in SUBSET Offering
    BY <1>1, <1>4 DEF BeginBatch, FinishProducer, PublishAccepted, EndBatch, Wake, Offering,
       Producers
  <2>3. Cardinality(Offering') <= Cardinality(Offering)
    BY <1>1, <2>2, FS_Subset
  <2> QED
    BY <1>1, <2>1, <2>3
<1> QED
  BY <1>2, <1>3, <1>4 DEF ProducerStep

LEMMA TimeoutElsewhere ==
  ASSUME TypeOK, TimeoutInv, Advance \/ BusStep \/ MainStep \/ UNCHANGED vars
  PROVE  TimeoutInv'
<1>1. /\ UNCHANGED <<port, pc, refused>> /\ now \in Nat /\ Deadline \in Nat
      /\ now' = now \/ now' = now + 1
  BY ClockAssumption DEF TypeOK, Horizon, Advance, BusStep, Dispatch, FirstStep,
     SecondStep, TurnConsume, MainStep, CloseWindow, ShutdownDrained, ShutdownTimesOut,
     ReadBack, SliceTorn, StatsRaise, TeardownFaults, ReportRow, vars, config, producing, counters
<1>2. Offering' = Offering
  BY <1>1 DEF Offering, Producers
<1> QED
  BY <1>1, <1>2 DEF TimeoutInv

LEMMA TimeoutNext == Inv /\ TimeoutInv /\ [Next]_vars => TimeoutInv'
BY TimeoutProducer, TimeoutElsewhere DEF Next, Finished, Inv

(* A port that reads the deadline before every batch only: past it, each   *)
(* refusal is of an envelope of its producer's batch, which is its last.   *)

Returned == {e \in Producers \X (1 .. Batch) :
                e[2] <= IF pc[e[1]] = "offer" THEN n[e[1]] - 1 ELSE n[e[1]]}

BatchInv ==
    port.deadline = "batch" =>
        /\ now < Deadline => refused = 0
        /\ refused <= Cardinality(Returned)
        /\ \A p \in Producers : n[p] <= Batch /\ (pc[p] = "offer" => n[p] > 0)

LEMMA BatchType == TypeOK => Batch \in Nat
BY BatchAssumption, PoolAssumption DEF Batch

LEMMA ReturnedBound ==
  ASSUME TypeOK, NEW S \in SUBSET (Producers \X (1 .. Batch))
  PROVE  IsFiniteSet(S) /\ Cardinality(S) \in Nat /\ Cardinality(S) <= P * Batch
<1> USE PAssumption, BatchType
<1>1. IsFiniteSet(Producers) /\ Cardinality(Producers) = P
  BY OfferingBound, FS_Interval DEF Producers
<1>2. IsFiniteSet(1 .. Batch) /\ Cardinality(1 .. Batch) = Batch
  <2>1. 1 \in Int /\ Batch \in Int /\ (1 > Batch => Batch = 0) /\ Batch - 1 + 1 = Batch
    OBVIOUS
  <2> QED
    BY <2>1, FS_Interval
<1>3. /\ IsFiniteSet(Producers \X (1 .. Batch))
      /\ Cardinality(Producers \X (1 .. Batch)) = P * Batch
  BY <1>1, <1>2, FS_Product
<1> QED
  BY <1>3, FS_Subset, FS_CardinalityType

LEMMA BatchInit == Init => BatchInv
<1> SUFFICES ASSUME Init PROVE BatchInv
  OBVIOUS
<1>1. Returned \in SUBSET (Producers \X (1 .. Batch)) /\ TypeOK /\ Batch \in Nat
  BY TypeInit, BatchType DEF Returned
<1>2. Cardinality(Returned) \in Nat
  BY <1>1, ReturnedBound
<1> QED
  BY <1>1, <1>2 DEF Init, BatchInv

LEMMA BatchProducer ==
  ASSUME TypeOK, TypeOK', BatchInv, NEW p \in Producers, ProducerStep(p)
  PROVE  BatchInv'
<1>0. /\ Batch' = Batch /\ Batch \in Nat /\ UNCHANGED <<config, now>>
      /\ \A q \in Producers \ {p} : n'[q] = n[q] /\ pc'[q] = pc[q]
  BY BatchType DEF ProducerStep, BeginBatch, FinishProducer, TakeEnvelope, PublishAccepted,
     PublishTimesOut, EndBatch, Wake, config, Batch, TypeOK
<1> SUFFICES ASSUME port.deadline = "batch"
             PROVE  /\ now < Deadline => refused' = 0
                    /\ refused' <= Cardinality(Returned')
                    /\ n'[p] <= Batch /\ (pc'[p] = "offer" => n'[p] > 0)
  BY <1>0 DEF BatchInv, config
<1>1. /\ now < Deadline => refused = 0
      /\ refused <= Cardinality(Returned)
      /\ n[p] <= Batch /\ (pc[p] = "offer" => n[p] > 0)
      /\ refused \in Nat /\ now \in Nat /\ Deadline \in Nat /\ n[p] \in Nat
      /\ IsFiniteSet(Returned) /\ Cardinality(Returned) \in Nat
      /\ IsFiniteSet(Returned') /\ Cardinality(Returned') \in Nat
      /\ pc \in [Producers -> {"check", "fill", "offer", "asleep", "done"}]
      /\ n \in [Producers -> Nat]
  <2>1. /\ Returned \in SUBSET (Producers \X (1 .. Batch))
        /\ Returned' \in SUBSET (Producers \X (1 .. Batch))
    BY <1>0 DEF Returned, Producers
  <2> QED
    BY <2>1, ReturnedBound, ClockAssumption DEF BatchInv, TypeOK, Horizon
<1>2. CASE BeginBatch(p)
  <2>1. now < Deadline /\ refused' = refused /\ n'[p] = 0 /\ pc'[p] = "fill"
    BY <1>1, <1>2 DEF BeginBatch, MayBegin, counters
  <2> QED
    BY <1>0, <1>1, <2>1
<1>3. CASE TakeEnvelope(p)
  <2>1. /\ refused' = refused /\ n[p] < Batch /\ n'[p] = n[p] + 1
        /\ pc[p] = "fill" /\ pc'[p] = "offer"
    BY <1>1, <1>3 DEF TakeEnvelope, MayTake, counters
  <2>2. Returned' = Returned
    BY <1>0, <1>1, <2>1 DEF Returned, Producers
  <2> QED
    BY <1>0, <1>1, <2>1, <2>2
<1>4. CASE PublishAccepted(p) \/ PublishTimesOut(p)
  <2>1. /\ refused' \in {refused, refused + 1} /\ (now < Deadline => refused' = refused)
        /\ n' = n /\ pc[p] = "offer" /\ pc'[p] = "fill"
    BY <1>1, <1>4 DEF PublishAccepted, PublishTimesOut
  <2>2. <<p, n[p]>> \in Producers \X (1 .. Batch) /\ <<p, n[p]>> \notin Returned
    BY <1>0, <1>1, <2>1 DEF Returned
  <2>3. Returned' = Returned \cup {<<p, n[p]>>}
    <3>1. ASSUME NEW e \in Producers \X (1 .. Batch)
          PROVE  e \in Returned' <=> e \in Returned \cup {<<p, n[p]>>}
      <4>1. e = <<e[1], e[2]>> /\ e[1] \in Producers /\ e[2] \in 1 .. Batch
        OBVIOUS
      <4>2. CASE e[1] = p
        BY <1>0, <1>1, <2>1, <4>1, <4>2 DEF Returned, Producers
      <4>3. CASE e[1] # p
        BY <1>0, <1>1, <2>1, <4>1, <4>3 DEF Returned, Producers
      <4> QED
        BY <4>2, <4>3
    <3>2. Returned' \subseteq Producers \X (1 .. Batch) /\ Returned \subseteq Producers \X (1 .. Batch)
      BY <1>0 DEF Returned, Producers
    <3> QED
      BY <2>2, <3>1, <3>2
  <2>4. Cardinality(Returned') = Cardinality(Returned) + 1
    BY <1>1, <2>2, <2>3, FS_AddElement
  <2> QED
    BY <1>0, <1>1, <2>1, <2>4
<1>5. CASE FinishProducer(p) \/ EndBatch(p) \/ Wake(p)
  <2>1. /\ refused' = refused /\ n' = n
        /\ pc[p] # "offer" /\ pc'[p] # "offer"
    BY <1>1, <1>5 DEF FinishProducer, EndBatch, Wake, counters
  <2>2. Returned' = Returned
    BY <1>0, <1>1, <2>1 DEF Returned, Producers
  <2> QED
    BY <1>0, <1>1, <2>1, <2>2
<1> QED
  BY <1>2, <1>3, <1>4, <1>5 DEF ProducerStep

LEMMA BatchElsewhere ==
  ASSUME TypeOK, BatchInv, Advance \/ BusStep \/ MainStep \/ UNCHANGED vars
  PROVE  BatchInv'
<1>1. /\ UNCHANGED <<config, pc, n, refused>> /\ now \in Nat /\ Deadline \in Nat
      /\ now' = now \/ now' = now + 1
  BY ClockAssumption DEF TypeOK, Horizon, Advance, BusStep, Dispatch, FirstStep,
     SecondStep, TurnConsume, MainStep, CloseWindow, ShutdownDrained, ShutdownTimesOut,
     ReadBack, SliceTorn, StatsRaise, TeardownFaults, ReportRow, vars, producing, counters
<1>2. Batch' = Batch
  BY <1>1 DEF Batch, config
<1>3. Returned' = Returned
  BY <1>1, <1>2 DEF Returned, Producers
<1> QED
  BY <1>1, <1>2, <1>3 DEF BatchInv, config

LEMMA BatchNext == Inv /\ BatchInv /\ [Next]_vars => BatchInv'
<1>1. Inv /\ [Next]_vars => TypeOK /\ TypeOK'
  BY InvNext DEF Inv
<1> QED
  BY <1>1, BatchProducer, BatchElsewhere DEF Next, Finished

\* A stalled bus costs one timeout per producer where the deadline is read
\* before every publish, and a batch of them where it is read before the batch.
THEOREM TimeoutsAreBounded == Spec => []TimeoutsBounded
<1>1. Inv /\ TimeoutInv /\ BatchInv => TimeoutsBounded
  <2> SUFFICES ASSUME Inv, TimeoutInv, BatchInv
               PROVE  TimeoutsBounded
    OBVIOUS
  <2>1. TypeOK /\ refused \in Nat /\ port.deadline \in {"publish", "batch"} /\ P * 1 = P
    BY ProfileType, PAssumption DEF Inv, TypeOK
  <2>2. CASE port.deadline = "publish"
    <3>1. Cardinality(Offering) \in 0 .. P
      BY OfferingBound DEF Offering
    <3>2. refused <= P
      BY <2>1, <2>2, <3>1, PAssumption DEF TimeoutInv
    <3> QED
      BY <2>1, <2>2, <3>2 DEF TimeoutsBounded
  <2>3. CASE port.deadline = "batch"
    <3>1. Cardinality(Returned) \in Nat /\ Cardinality(Returned) <= P * Batch
      BY <2>1, ReturnedBound DEF Returned
    <3>2. P * Batch \in Nat
      BY <2>1, BatchType, PAssumption
    <3>3. refused <= P * Batch
      BY <2>1, <2>3, <3>1, <3>2 DEF BatchInv
    <3> QED
      BY <2>3, <3>3 DEF TimeoutsBounded
  <2> QED
    BY <2>1, <2>2, <2>3
<1> QED
  BY <1>1, TimeoutInit, TimeoutNext, BatchInit, BatchNext, Invariance, PTL DEF Spec

-----------------------------------------------------------------------------
(* Slots.  Every publish that has returned, and every one under way, is of *)
(* an envelope taken from a pool, and a pool is taken from once.           *)

Taken == {e \in Producers \X (1 .. Pool) : e[2] <= i[e[1]]}

SlotsInv == accepted + refused + Cardinality(Offering) <= Cardinality(Taken)

LEMMA TakenBound ==
  ASSUME NEW S \in SUBSET (Producers \X (1 .. Pool))
  PROVE  IsFiniteSet(S) /\ Cardinality(S) \in Nat /\ Cardinality(S) <= P * Pool
<1> USE PAssumption, PoolAssumption
<1>1. IsFiniteSet(Producers) /\ Cardinality(Producers) = P
  <2>1. 0 \in Int /\ P - 1 \in Int /\ ~(0 > P - 1) /\ (P - 1) - 0 + 1 = P
    OBVIOUS
  <2> QED
    BY <2>1, FS_Interval DEF Producers
<1>2. IsFiniteSet(1 .. Pool) /\ Cardinality(1 .. Pool) = Pool
  <2>1. 1 \in Int /\ Pool \in Int /\ (1 > Pool => Pool = 0) /\ Pool - 1 + 1 = Pool
    OBVIOUS
  <2> QED
    BY <2>1, FS_Interval
<1>3. /\ IsFiniteSet(Producers \X (1 .. Pool))
      /\ Cardinality(Producers \X (1 .. Pool)) = P * Pool
  BY <1>1, <1>2, FS_Product
<1> QED
  BY <1>3, FS_Subset, FS_CardinalityType

LEMMA SlotsInit == Init => SlotsInv
<1> SUFFICES ASSUME Init PROVE SlotsInv
  OBVIOUS
<1>1. Offering = {}
  BY DEF Init, Offering
<1>2. Taken \in SUBSET (Producers \X (1 .. Pool))
  BY DEF Taken
<1> QED
  BY <1>1, <1>2, TakenBound, FS_EmptySet DEF Init, SlotsInv

LEMMA SlotsProducer ==
  ASSUME TypeOK, SlotsInv, NEW p \in Producers, ProducerStep(p)
  PROVE  SlotsInv'
<1>1. /\ accepted \in Nat /\ refused \in Nat
      /\ IsFiniteSet(Offering) /\ Cardinality(Offering) \in Nat
      /\ IsFiniteSet(Offering') /\ Cardinality(Offering') \in Nat
      /\ IsFiniteSet(Taken) /\ Cardinality(Taken) \in Nat
      /\ i \in [Producers -> 0 .. Pool]
      /\ pc \in [Producers -> {"check", "fill", "offer", "asleep", "done"}]
  <2>1. Offering \in SUBSET Producers /\ Offering' \in SUBSET Producers
    BY DEF Offering, Producers
  <2>2. Taken \in SUBSET (Producers \X (1 .. Pool))
    BY DEF Taken
  <2> QED
    BY <2>1, <2>2, OfferingBound, TakenBound, PAssumption DEF TypeOK
<1>2. i' = i => Taken' = Taken
  BY DEF Taken, Producers
<1>3. CASE TakeEnvelope(p)
  <2>1. Offering' = Offering \cup {p} /\ p \notin Offering
    BY <1>1, <1>3 DEF TakeEnvelope, Offering, Producers
  <2>2. Cardinality(Offering') = Cardinality(Offering) + 1
    BY <1>1, <2>1, FS_AddElement
  <2>3. i[p] \in Nat /\ i[p] < Pool /\ i' = [i EXCEPT ![p] = i[p] + 1]
    BY <1>1, <1>3, PoolAssumption DEF TakeEnvelope, MayTake
  <2>4. <<p, i[p] + 1>> \in Producers \X (1 .. Pool) /\ <<p, i[p] + 1>> \notin Taken
    BY <2>3, PoolAssumption DEF Taken
  <2>5. Taken' = Taken \cup {<<p, i[p] + 1>>}
    <3>1. ASSUME NEW e \in Producers \X (1 .. Pool)
          PROVE  e \in Taken' <=> e \in Taken \cup {<<p, i[p] + 1>>}
      <4>1. e = <<e[1], e[2]>> /\ e[1] \in Producers /\ e[2] \in 1 .. Pool
        OBVIOUS
      <4>2. CASE e[1] = p
        BY <1>1, <2>3, <4>1, <4>2 DEF Taken, Producers
      <4>3. CASE e[1] # p
        BY <1>1, <2>3, <4>1, <4>3 DEF Taken, Producers
      <4> QED
        BY <4>2, <4>3
    <3>2. Taken' \subseteq Producers \X (1 .. Pool) /\ Taken \subseteq Producers \X (1 .. Pool)
      BY DEF Taken, Producers
    <3> QED
      BY <2>4, <3>1, <3>2
  <2>6. Cardinality(Taken') = Cardinality(Taken) + 1
    BY <1>1, <2>4, <2>5, FS_AddElement
  <2>7. UNCHANGED <<accepted, refused>>
    BY <1>3 DEF TakeEnvelope, counters
  <2> QED
    BY <1>1, <2>2, <2>6, <2>7 DEF SlotsInv
<1>4. CASE PublishAccepted(p) \/ PublishTimesOut(p)
  <2>1. Offering' = Offering \ {p} /\ p \in Offering
    BY <1>1, <1>4 DEF PublishAccepted, PublishTimesOut, Offering, Producers
  <2>2. Cardinality(Offering') = Cardinality(Offering) - 1
    BY <1>1, <2>1, FS_RemoveElement
  <2>3. accepted' + refused' = accepted + refused + 1 /\ i' = i
    BY <1>1, <1>4 DEF PublishAccepted, PublishTimesOut
  <2> QED
    BY <1>1, <1>2, <2>2, <2>3 DEF SlotsInv
<1>5. CASE BeginBatch(p) \/ FinishProducer(p) \/ EndBatch(p) \/ Wake(p)
  <2>1. UNCHANGED <<accepted, refused, i>>
    BY <1>5 DEF BeginBatch, FinishProducer, EndBatch, Wake, counters
  <2>2. Offering' \in SUBSET Offering
    BY <1>1, <1>5 DEF BeginBatch, FinishProducer, EndBatch, Wake, Offering, Producers
  <2>3. Cardinality(Offering') <= Cardinality(Offering)
    BY <1>1, <2>2, FS_Subset
  <2> QED
    BY <1>1, <1>2, <2>1, <2>3 DEF SlotsInv
<1> QED
  BY <1>3, <1>4, <1>5 DEF ProducerStep

LEMMA SlotsElsewhere ==
  ASSUME SlotsInv, Advance \/ BusStep \/ MainStep \/ UNCHANGED vars
  PROVE  SlotsInv'
<1>1. UNCHANGED <<pc, i, accepted, refused>>
  BY DEF Advance, BusStep, Dispatch, FirstStep, SecondStep, TurnConsume, MainStep,
     CloseWindow, ShutdownDrained, ShutdownTimesOut, ReadBack, SliceTorn, StatsRaise,
     TeardownFaults, ReportRow, vars, producing, counters
<1>2. Offering' = Offering /\ Taken' = Taken
  BY <1>1 DEF Offering, Taken, Producers
<1> QED
  BY <1>1, <1>2 DEF SlotsInv

LEMMA SlotsNext == Inv /\ SlotsInv /\ [Next]_vars => SlotsInv'
BY SlotsProducer, SlotsElsewhere DEF Next, Finished, Inv

\* The counter of a claiming consumer never exceeds the length of its array.
THEOREM SlotsAlwaysSuffice == Spec => []SlotsSuffice
<1>1. Inv /\ SlotsInv => SlotsSuffice
  <2> SUFFICES ASSUME Inv, SlotsInv, port.consumer = "claim"
               PROVE  delivered <= P * Pool
    BY DEF SlotsSuffice, Slots
  <2>1. /\ accepted \in Nat /\ refused \in Nat /\ depth \in Nat /\ entered \in Nat
        /\ half \in Nat /\ samples \in Nat /\ delivered \in Nat
    BY DEF Inv, TypeOK
  <2>2. delivered <= accepted
    BY <2>1 DEF Inv, Conserved, StepsApart, Running, Consumed
  <2>3. Cardinality(Offering) \in Nat
    BY OfferingBound DEF Offering
  <2>4. Cardinality(Taken) \in Nat /\ Cardinality(Taken) <= P * Pool
    BY TakenBound DEF Taken
  <2>5. P * Pool \in Nat
    BY PAssumption, PoolAssumption
  <2> QED
    BY <2>1, <2>2, <2>3, <2>4, <2>5 DEF SlotsInv
<1> QED
  BY <1>1, SlotsInit, SlotsNext, Invariance, PTL DEF Spec

-----------------------------------------------------------------------------
(* Refinement: where `total` counts accepted envelopes, a window is a      *)
(* trial that keeps DeliveryLedger's promise.                              *)

LEMMA LedgerInit == Init => Ledger!Init
BY DEF Init, Ledger!Init, Consumed

LEMMA LedgerNext ==
  ASSUME \A r \in Ports : r.counts = "accepted", Inv, [Next]_vars
  PROVE  [Ledger!Next]_(Ledger!vars)
<1> USE DEF Ledger!vars, Ledger!Next
<1>0. /\ accepted \in Nat /\ depth \in Nat /\ Running \in Nat /\ Consumed \in Nat
      /\ accepted = depth + Running + Consumed /\ published = accepted
      /\ entered \in Nat /\ half \in Nat /\ delivered \in Nat /\ samples \in Nat
  BY DEF Inv, TypeOK, Conserved, CountsKept, Running, Consumed
<1>c. UNCHANGED <<port, delivered, samples>> => Consumed' = Consumed
  BY DEF Consumed
<1>1. ASSUME NEW p \in Producers, ProducerStep(p)
      PROVE  [Ledger!Next]_(Ledger!vars)
  <2>1. main = "joining" /\ UNCHANGED <<closing, port, delivered, samples>>
    BY <1>1 DEF Inv, ProducersDone, ProducerStep, BeginBatch, FinishProducer, TakeEnvelope,
       PublishAccepted, PublishTimesOut, EndBatch, Wake, bus, consuming, config
  <2>2. accepted' = accepted + 1 \/ accepted' = accepted
    BY <1>1 DEF ProducerStep, BeginBatch, FinishProducer, TakeEnvelope, PublishAccepted,
       PublishTimesOut, EndBatch, Wake, counters
  <2> QED
    BY <1>c, <2>1, <2>2 DEF Ledger!Accept, closing
<1>2. CASE Advance \/ Dispatch \/ UNCHANGED vars
  <2>1. UNCHANGED <<accepted, closing, port, delivered, samples>>
    BY <1>2 DEF Advance, Dispatch, vars, counters, bus, consuming, config
  <2> QED
    BY <1>c, <2>1 DEF closing
<1>3. CASE FirstStep \/ SecondStep \/ TurnConsume
  <2>1. UNCHANGED <<accepted, closing, port>>
    BY <1>3 DEF FirstStep, SecondStep, TurnConsume, counters, config
  <2>2. \/ Consumed' = Consumed
        \/ Consumed' = Consumed + 1 /\ Running > 0
    BY <1>0, <1>3, <2>1, ProfileType DEF FirstStep, SecondStep, TurnConsume, Consumed, Running,
       Inv, TypeOK, StepsApart
  <2>3. CASE Consumed' = Consumed
    BY <2>1, <2>3 DEF closing
  <2>4. CASE Consumed' = Consumed + 1 /\ Running > 0
    <3>1. Consumed < accepted
      BY <1>0, <2>4
    <3> QED
      BY <2>1, <2>4, <3>1 DEF Ledger!Consume, closing
  <2> QED
    BY <2>2, <2>3, <2>4
<1>m. MainStep => UNCHANGED <<accepted, port, delivered, samples>>
  BY DEF MainStep, CloseWindow, ShutdownDrained, ShutdownTimesOut, ReadBack, SliceTorn,
     StatsRaise, TeardownFaults, ReportRow, counters, bus, consuming, config
<1>4. CASE CloseWindow \/ ShutdownDrained \/ ReadBack
  <2>1. UNCHANGED <<accepted, Consumed>>
    BY <1>4, <1>c, <1>m DEF MainStep
  <2> QED
    BY <1>4, <2>1 DEF CloseWindow, ShutdownDrained, ReadBack
<1>6. CASE ShutdownTimesOut
  <2>1. Consumed < accepted
    BY <1>0, <1>6 DEF ShutdownTimesOut, Idle
  <2>2. UNCHANGED <<accepted, Consumed>>
    BY <1>6, <1>c, <1>m DEF MainStep
  <2> QED
    BY <1>6, <2>1, <2>2 DEF ShutdownTimesOut, Ledger!GiveUp
<1>7. CASE SliceTorn \/ StatsRaise \/ TeardownFaults
  <2>1. main = "reading" /\ main' = "crashed" /\ UNCHANGED <<drained, row>>
    BY <1>7 DEF SliceTorn, StatsRaise, TeardownFaults, AllRead
  <2>2. UNCHANGED <<accepted, Consumed>>
    BY <1>7, <1>c, <1>m DEF MainStep
  <2>3. drained => accepted = 0
    <3>1. drained => /\ depth = 0 /\ entered = 0 /\ half = 0 /\ Running = 0
                     /\ Consumed = delivered
      BY <1>0, ProfileType DEF Inv, DrainedIsEmpty, StepsApart, Running, Consumed, TypeOK
    <3>2. drained => StatsRaise /\ delivered = 0
      BY <1>7, <3>1 DEF SliceTorn, StatsRaise, TeardownFaults, AllRead, Inv, SeenKept
    <3> QED
      BY <1>0, <3>1, <3>2
  <2> QED
    BY <2>1, <2>2, <2>3 DEF Ledger!Lose
<1>8. CASE ReportRow
  <2>1. /\ main = "reading" /\ main' = "reported" /\ UNCHANGED drained
        /\ row'.total = accepted /\ row'.delivered = seen.delivered
    BY <1>0, <1>8 DEF ReportRow, AllRead
  <2>2. UNCHANGED <<accepted, Consumed>>
    BY <1>8, <1>c, <1>m DEF MainStep
  <2>3. CASE drained
    <3>1. Consumed = accepted /\ seen.delivered = accepted
      BY <1>0, <1>8, <2>3, ProfileType DEF ReportRow, AllRead, Inv, DrainedIsEmpty, StepsApart,
         SeenKept, Running, Consumed, TypeOK
    <3> QED
      BY <2>1, <2>2, <2>3, <3>1 DEF Ledger!ReportValid
  <2>4. CASE ~drained
    <3>1. seen.delivered \in Nat
      BY DEF Inv, TypeOK
    <3> QED
      BY <1>0, <2>1, <2>2, <2>4, <3>1 DEF Ledger!ReportInvalid
  <2> QED
    BY <2>3, <2>4 DEF Inv, TypeOK
<1> QED
  BY <1>1, <1>2, <1>3, <1>4, <1>6, <1>7, <1>8
     DEF Next, BusStep, MainStep, Finished

\* A window of a port that counts what publish accepted keeps the promise of
\* DeliveryLedger.
THEOREM WindowKeepsLedger ==
  ASSUME \A r \in Ports : r.counts = "accepted"
  PROVE  Spec => KeepsLedger
<1>1. Inv /\ [Next]_vars => [Ledger!Next]_(Ledger!vars)
  BY LedgerNext
<1> QED
  BY <1>1, LedgerInit, Invariance, PTL DEF Spec, KeepsLedger, Ledger!Spec
=============================================================================
