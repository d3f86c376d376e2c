---------------------------- MODULE CapacityWindow ----------------------------
(***************************************************************************)
(* One timed window of the capacity curve: P producers publish to one      *)
(* channel of bounded capacity whose backpressure blocks, either flat out  *)
(* (calibration) or paced (sweep): at most PerTick envelopes back to back, *)
(* then asleep for what is left of the tick.  A producer stops when the    *)
(* window's deadline has passed or its pre-built pool is used up; the main *)
(* thread joins them, reads the depth of the queue, shuts the bus down and *)
(* reports a row.                                                          *)
(*                                                                         *)
(* Time is a counter that may advance between any two steps, so a step may *)
(* take arbitrarily long.  A publish gives up after 30 s, longer than any  *)
(* window (2 s or 4 s): a refusal therefore happens after the deadline.    *)
(*                                                                         *)
(* The seven languages differ in what a profile records (module            *)
(* CapacityPorts):                                                         *)
(*   counts     `total` counts "attempts" or "accepted" envelopes;         *)
(*   timeout    whether a blocked publish gives up;                        *)
(*   deadline   where the deadline is read: "publish" (before every one)   *)
(*              or "batch" (before every batch only);                      *)
(*   exhausted  where an empty pool ends the producer: at the "outer" loop *)
(*              and/or after an empty "batch";                             *)
(*   burst      an unpaced batch is the whole "pool" or a "fixed" number;  *)
(*   sleeps     whether the tick's remainder is slept when unpaced too;    *)
(*   pause      a sleep lasts its "full" length at least, or may fall      *)
(*              "short" where the remainder is cut to whole milliseconds;  *)
(*   consumer   "append" (the sample, then the counter), "claim" (a slot   *)
(*              by the counter, then the sample) or "turn" (both in one    *)
(*              turn of an event loop);                                    *)
(*   first      which of `delivered` and the "samples" the main thread     *)
(*              reads first after the shutdown, or "both" at once;         *)
(*   racy       whether it reads the slice of samples while a consumer may *)
(*              be replacing it, with nothing to order the two;            *)
(*   empty      what the percentiles of no sample do: "raise" or "row";    *)
(*   teardown   "early" if the counters die before the bus does.           *)
(***************************************************************************)
EXTENDS Integers, SedaBus

CONSTANTS P,          \* producers; also the channel's concurrency and workers
          Pool,       \* envelopes pre-built for each producer
          Cap,        \* the channel's capacity (1024)
          PerTick,    \* envelopes per tick and producer when paced
          Burst,      \* envelopes per batch when unpaced and "fixed" (4096)
          Tick,       \* length of a tick (20 ms)
          Slack,      \* what a "short" sleep may lack (1 ms in C#, 2 ms in TypeScript)
          Deadline,   \* length of the window (2 s or 4 s)
          Ports,      \* the profiles a behaviour may follow
          Paces       \* {TRUE}: a sweep, {FALSE}: a calibration

Profiles ==
    [counts    : {"attempts", "accepted"},
     timeout   : BOOLEAN,
     deadline  : {"publish", "batch"},
     exhausted : SUBSET {"outer", "batch"},
     burst     : {"pool", "fixed"},
     sleeps    : BOOLEAN,
     pause     : {"full", "short"},
     consumer  : {"append", "claim", "turn"},
     first     : {"samples", "delivered", "both"},
     racy      : BOOLEAN,
     empty     : SUBSET {"raise", "row"},
     teardown  : {"early", "late"}]

ASSUME PAssumption == P \in Nat \ {0}
ASSUME PoolAssumption == Pool \in Nat
ASSUME CapAssumption == Cap \in Nat \ {0}
ASSUME BatchAssumption == PerTick \in Nat \ {0} /\ Burst \in Nat \ {0}
ASSUME ClockAssumption ==
    Tick \in Nat \ {0} /\ Slack \in 0 .. (Tick - 1) /\ Deadline \in Nat \ {0}
ASSUME PortsAssumption == Ports \subseteq Profiles
ASSUME PacesAssumption == Paces \subseteq BOOLEAN

Producers == 0 .. (P - 1)

\* The clock stops counting where nothing depends on it any more: a sleep
\* that began in the window is over.
Horizon == Deadline + Tick

VARIABLES
    port, paced,     \* the profile and the kind of window, chosen once
    now,             \* the clock
    pc,              \* where each producer is
    i,               \* envelopes each producer has taken from its pool
    n,               \* of these, in the current batch
    tickStart,       \* when the batch began
    accepted,        \* envelopes the bus took
    refused,         \* publishes that gave up
    published,       \* what the harness counts as published
    depth,           \* envelopes waiting
    entered, half,   \* consumers before, and between, their two steps
    delivered,       \* the counter of envelopes consumed
    samples,         \* samples stored
    main,            \* the main thread
    endDepth,        \* the depth read when the window closed
    drained,         \* what shutdown returned
    unread,          \* what the main thread has still to read
    seen,            \* what it has read
    row              \* the row, with the samples it was computed from

config == <<port, paced>>
producing == <<pc, i, n, tickStart>>
counters == <<accepted, refused, published>>
consuming == <<entered, half, delivered, samples>>
bus == <<depth, consuming>>
closing == <<main, endDepth, drained, unread, seen, row>>
vars == <<config, now, producing, counters, bus, closing>>

Batch == IF paced THEN PerTick ELSE IF port.burst = "fixed" THEN Burst ELSE Pool
\* Mutant: it is slept in a calibration too.
AlwaysSleeps == TRUE
Sleeps == paced \/ port.sleeps

\* From the start of a batch that slept to the end of its sleep, at least: the
\* tick, less what the port's sleep may fall short of.
Pause == IF port.pause = "short" THEN Tick - Slack ELSE Tick

\* Mutant: a consumer returns after its first step, and the second is another
\* task's.
RunningUntilHalf == entered
Running == entered + half

\* Mutant: an array for the envelopes of one producer.
SlotsOfOneProducer == Pool
\* The length of a claiming consumer's array of samples.
Slots == P * Pool

\* Envelopes whose consumer has done both steps.
Consumed == IF port.consumer = "claim" THEN samples ELSE delivered

Init ==
    /\ port \in Ports
    /\ paced \in Paces
    /\ now = 0
    /\ pc = [p \in Producers |-> "check"]
    /\ i = [p \in Producers |-> 0]
    /\ n = [p \in Producers |-> 0]
    /\ tickStart = [p \in Producers |-> 0]
    /\ accepted = 0 /\ refused = 0 /\ published = 0
    /\ depth = 0 /\ entered = 0 /\ half = 0 /\ delivered = 0 /\ samples = 0
    /\ main = "joining"
    /\ endDepth = 0
    /\ drained = FALSE
    /\ unread = {"delivered", "samples"}
    /\ seen = [delivered |-> 0, samples |-> 0, hollow |-> 0]
    /\ row = [total |-> 0, delivered |-> 0, samples |-> 0, hollow |-> 0]

Advance ==
    /\ now < Horizon
    /\ now' = now + 1
    /\ UNCHANGED <<config, producing, counters, bus, closing>>

-----------------------------------------------------------------------------
(* Producers *)

\* Mutant: the outer loop leaves the last envelope in the pool.
MayBeginBeforeLast(p) ==
    /\ now < Deadline
    /\ "outer" \in port.exhausted => i[p] < Pool - 1
MayBegin(p) ==
    /\ now < Deadline
    /\ "outer" \in port.exhausted => i[p] < Pool

\* The outer loop: a new batch, or the end.
BeginBatch(p) ==
    /\ pc[p] = "check"
    /\ MayBegin(p)
    /\ pc' = [pc EXCEPT ![p] = "fill"]
    /\ tickStart' = [tickStart EXCEPT ![p] = now]
    /\ n' = [n EXCEPT ![p] = 0]
    /\ UNCHANGED <<config, now, i, counters, bus, closing>>

FinishProducer(p) ==
    /\ pc[p] = "check"
    /\ ~MayBegin(p)
    /\ pc' = [pc EXCEPT ![p] = "done"]
    /\ UNCHANGED <<config, now, i, n, tickStart, counters, bus, closing>>

\* Mutant: the inner loop does not read the deadline.
MayTakeUntilExhausted(p) ==
    /\ n[p] < Batch
    /\ i[p] < Pool
\* Mutant: the inner loop takes one envelope more than the pool has.
MayTakeOneMore(p) ==
    /\ n[p] < Batch
    /\ i[p] <= Pool
    /\ port.deadline = "publish" => now < Deadline
MayTake(p) ==
    /\ n[p] < Batch
    /\ i[p] < Pool
    /\ port.deadline = "publish" => now < Deadline

\* The inner loop: stamp the next envelope of the pool and publish it.
TakeEnvelope(p) ==
    /\ pc[p] = "fill"
    /\ MayTake(p)
    /\ pc' = [pc EXCEPT ![p] = "offer"]
    /\ i' = [i EXCEPT ![p] = @ + 1]
    /\ n' = [n EXCEPT ![p] = @ + 1]
    /\ UNCHANGED <<config, now, tickStart, counters, bus, closing>>

\* The publish returns as soon as there is room.
PublishAccepted(p) ==
    /\ pc[p] = "offer"
    /\ HasRoom(depth, Cap)
    /\ depth' = depth + 1
    /\ accepted' = accepted + 1
    /\ published' = published + 1
    /\ pc' = [pc EXCEPT ![p] = "fill"]
    /\ UNCHANGED <<config, now, i, n, tickStart, refused, consuming, closing>>

\* Mutant: a publish that gave up is counted whatever it returned.
TimeoutCounted(p) ==
    /\ pc[p] = "offer"
    /\ port.timeout
    /\ ~HasRoom(depth, Cap)
    /\ now >= Deadline
    /\ refused' = refused + 1
    /\ published' = published + 1
    /\ pc' = [pc EXCEPT ![p] = "fill"]
    /\ UNCHANGED <<config, now, i, n, tickStart, accepted, bus, closing>>
\* Mutant: only a publish that succeeded is counted.
TimeoutNotCounted(p) ==
    /\ pc[p] = "offer"
    /\ port.timeout
    /\ ~HasRoom(depth, Cap)
    /\ now >= Deadline
    /\ refused' = refused + 1
    /\ published' = published
    /\ pc' = [pc EXCEPT ![p] = "fill"]
    /\ UNCHANGED <<config, now, i, n, tickStart, accepted, bus, closing>>
\* Mutant: publish is called without a timeout.
NeverTimesOut(p) == FALSE

\* It was blocked for 30 s.  A port that looks at the result does not count it.
PublishTimesOut(p) ==
    /\ pc[p] = "offer"
    /\ port.timeout
    /\ ~HasRoom(depth, Cap)
    /\ now >= Deadline
    /\ refused' = refused + 1
    /\ published' = IF port.counts = "attempts" THEN published + 1 ELSE published
    /\ pc' = [pc EXCEPT ![p] = "fill"]
    /\ UNCHANGED <<config, now, i, n, tickStart, accepted, bus, closing>>

\* The batch is over: leave on an empty one, sleep what remains of the tick,
\* or go on.
EndBatch(p) ==
    /\ pc[p] = "fill"
    /\ ~MayTake(p)
    /\ pc' = [pc EXCEPT ![p] =
           CASE n[p] = 0 /\ "batch" \in port.exhausted -> "done"
             [] ~(n[p] = 0 /\ "batch" \in port.exhausted) /\ Sleeps
                  /\ now - tickStart[p] < Tick -> "asleep"
             [] OTHER -> "check"]
    /\ UNCHANGED <<config, now, i, n, tickStart, counters, bus, closing>>

\* Mutant: every port rounds its sleep down.
WakeEarly(p) ==
    /\ pc[p] = "asleep"
    /\ now >= tickStart[p] + Tick - Slack
    /\ pc' = [pc EXCEPT ![p] = "check"]
    /\ UNCHANGED <<config, now, i, n, tickStart, counters, bus, closing>>

\* The sleep was for what was left of the tick; it may last longer, and it may
\* fall short where the port's timer counts whole milliseconds.
Wake(p) ==
    /\ pc[p] = "asleep"
    /\ now >= tickStart[p] + Pause
    /\ pc' = [pc EXCEPT ![p] = "check"]
    /\ UNCHANGED <<config, now, i, n, tickStart, counters, bus, closing>>

-----------------------------------------------------------------------------
(* Consumers *)

Dispatch ==
    /\ depth > 0
    /\ CanDispatch(Running, P, Running, P)
    /\ depth' = depth - 1
    /\ entered' = entered + 1
    /\ UNCHANGED <<config, now, producing, counters, half, delivered, samples, closing>>

\* The sample is appended under a lock and counted after it, or a slot is taken
\* by the counter and stored to afterwards.
FirstStep ==
    /\ entered > 0
    /\ port.consumer # "turn"
    /\ entered' = entered - 1
    /\ half' = half + 1
    /\ delivered' = IF port.consumer = "claim" THEN delivered + 1 ELSE delivered
    /\ samples' = IF port.consumer = "append" THEN samples + 1 ELSE samples
    /\ UNCHANGED <<config, now, producing, counters, depth, closing>>

SecondStep ==
    /\ half > 0
    /\ half' = half - 1
    /\ delivered' = IF port.consumer = "append" THEN delivered + 1 ELSE delivered
    /\ samples' = IF port.consumer = "claim" THEN samples + 1 ELSE samples
    /\ UNCHANGED <<config, now, producing, counters, depth, entered, closing>>

TurnConsume ==
    /\ entered > 0
    /\ port.consumer = "turn"
    /\ entered' = entered - 1
    /\ delivered' = delivered + 1
    /\ samples' = samples + 1
    /\ UNCHANGED <<config, now, producing, counters, depth, half, closing>>

-----------------------------------------------------------------------------
(* The main thread *)

\* Joins the producers, takes the elapsed time and reads the queue's depth.
CloseWindow ==
    /\ main = "joining"
    /\ \A p \in Producers : pc[p] = "done"
    /\ endDepth' = depth
    /\ main' = "draining"
    /\ UNCHANGED <<config, now, producing, counters, bus, drained, unread, seen, row>>

ShutdownDrained ==
    /\ main = "draining"
    /\ Idle(depth, Running)
    /\ drained' = TRUE
    /\ main' = "reading"
    /\ UNCHANGED <<config, now, producing, counters, bus, endDepth, unread, seen, row>>

\* Mutant: the result of a shutdown that gave up is taken for a drain.
TimeoutTakenForDrain ==
    /\ main = "draining"
    /\ ~Idle(depth, Running)
    /\ drained' = TRUE
    /\ main' = "reading"
    /\ UNCHANGED <<config, now, producing, counters, bus, endDepth, unread, seen, row>>

ShutdownTimesOut ==
    /\ main = "draining"
    /\ ~Idle(depth, Running)
    /\ drained' = FALSE
    /\ main' = "reading"
    /\ UNCHANGED <<config, now, producing, counters, bus, endDepth, unread, seen, row>>

\* The array of a claiming consumer is cut at the value of the counter: the
\* slots of consumers between their two steps hold no sample.
Sampled == IF port.consumer = "claim" THEN delivered ELSE samples
Hollow == IF port.consumer = "claim" THEN half ELSE 0

NextRead == IF port.first \in unread THEN {port.first} ELSE unread

\* The counter and the samples are read without a lock, in the port's order.
ReadBack ==
    /\ main = "reading"
    /\ unread # {}
    /\ unread' = unread \ NextRead
    /\ seen' = [delivered |-> IF "delivered" \in NextRead THEN delivered ELSE seen.delivered,
                samples |-> IF "samples" \in NextRead THEN Sampled ELSE seen.samples,
                hollow |-> IF "samples" \in NextRead THEN Hollow ELSE seen.hollow]
    /\ UNCHANGED <<config, now, producing, counters, bus, main, endDepth, drained, row>>

\* A slice header read while it is being replaced: half old, half new, which may
\* end the process.
SliceTorn ==
    /\ main = "reading"
    /\ port.racy
    /\ "samples" \in NextRead
    /\ entered > 0
    /\ main' = "crashed"
    /\ UNCHANGED <<config, now, producing, counters, bus, endDepth, drained, unread, seen, row>>

AllRead == main = "reading" /\ unread = {}

\* Mutant: the percentiles need two samples.
StatsNeedTwo ==
    /\ AllRead
    /\ seen.samples <= 1
    /\ "raise" \in port.empty
    /\ main' = "crashed"
    /\ UNCHANGED <<config, now, producing, counters, bus, endDepth, drained, unread, seen, row>>

StatsRaise ==
    /\ AllRead
    /\ seen.samples = 0
    /\ "raise" \in port.empty
    /\ main' = "crashed"
    /\ UNCHANGED <<config, now, producing, counters, bus, endDepth, drained, unread, seen, row>>

TeardownFaults ==
    /\ AllRead
    /\ port.teardown = "early"
    /\ Running > 0
    /\ main' = "crashed"
    /\ UNCHANGED <<config, now, producing, counters, bus, endDepth, drained, unread, seen, row>>

ReportRow ==
    /\ AllRead
    /\ seen.samples > 0 \/ "row" \in port.empty
    /\ row' = [total |-> published, delivered |-> seen.delivered, samples |-> seen.samples,
               hollow |-> seen.hollow]
    /\ main' = "reported"
    /\ UNCHANGED <<config, now, producing, counters, bus, endDepth, drained, unread, seen>>

Finished ==
    /\ main \in {"reported", "crashed"}
    /\ UNCHANGED vars

ProducerStep(p) ==
    \/ BeginBatch(p) \/ FinishProducer(p)
    \/ TakeEnvelope(p) \/ PublishAccepted(p) \/ PublishTimesOut(p)
    \/ EndBatch(p) \/ Wake(p)

BusStep == Dispatch \/ FirstStep \/ SecondStep \/ TurnConsume

MainStep ==
    \/ CloseWindow
    \/ ShutdownDrained \/ ShutdownTimesOut
    \/ ReadBack \/ SliceTorn
    \/ StatsRaise \/ TeardownFaults \/ ReportRow

Next ==
    \/ Advance
    \/ \E p \in Producers : ProducerStep(p)
    \/ BusStep
    \/ MainStep
    \/ Finished

Spec == Init /\ [][Next]_vars

\* Time passes and the threads of the harness are scheduled; the bus may stall.
FairSpec ==
    /\ Spec
    /\ WF_vars(Advance)
    /\ \A p \in Producers : WF_vars(ProducerStep(p))
    /\ WF_vars(MainStep)

-----------------------------------------------------------------------------
(* Properties *)

Ended == main \in {"reported", "crashed"}

\* Every variable holds a value of its kind.
TypeOK ==
    /\ port \in Ports /\ paced \in BOOLEAN
    /\ now \in 0 .. Horizon
    /\ pc \in [Producers -> {"check", "fill", "offer", "asleep", "done"}]
    /\ i \in [Producers -> 0 .. Pool]
    /\ n \in [Producers -> Nat]
    /\ tickStart \in [Producers -> 0 .. Horizon]
    /\ accepted \in Nat /\ refused \in Nat /\ published \in Nat
    /\ depth \in Nat /\ entered \in Nat /\ half \in Nat
    /\ delivered \in Nat /\ samples \in Nat
    /\ main \in {"joining", "draining", "reading", "reported", "crashed"}
    /\ endDepth \in 0 .. Cap
    /\ drained \in BOOLEAN
    /\ unread \in SUBSET {"delivered", "samples"}
    /\ seen \in [delivered : Nat, samples : Nat, hollow : Nat]
    /\ row \in [total : Nat, delivered : Nat, samples : Nat, hollow : Nat]

\* WORKLOAD.md: `delivered` must equal `total` once `drained` is true: a
\* drained row accounts for every envelope it says was published.
DrainedRowAccounts ==
    main = "reported" /\ drained => row.delivered = row.total

\* What a publish that gave up does to a drained row: a port that counts every
\* publish reports a `total` larger than `delivered` by exactly the publishes
\* that gave up, so the stall shows; a port that counts what was accepted
\* reports two equal numbers, and the stall shows nowhere.
DrainedRowGap ==
    main = "reported" /\ drained =>
        row.total - row.delivered = IF port.counts = "attempts" THEN refused ELSE 0

\* The percentiles of a drained row are those of exactly the envelopes it says
\* were delivered, although a consumer writes counter and sample in two steps
\* and the main thread reads them, in another order perhaps, without a lock: no
\* sample is missing, and none is a slot that was claimed and not stored to.
DrainedRowSampled ==
    main = "reported" /\ drained => row.samples = row.delivered /\ row.hollow = 0

\* The array of a claiming consumer has a slot for every envelope that may
\* come: Rust indexes it with the counter unchecked, and Java drops samples that
\* are past its end.
SlotsSuffice == port.consumer = "claim" => delivered <= Slots

\* The rate limiter: by any moment a paced producer has taken at most PerTick
\* envelopes for every pause begun so far, however the scheduler, the queue and
\* the sleeps delay it; it never catches up in a burst.  A pause is a tick where
\* sleeps last their full length, and what is left of one where they fall short:
\* the early starts add up to that and to no more.
PacedRate ==
    paced => \A p \in Producers : i[p] <= PerTick * ((now \div Pause) + 1)

\* WORKLOAD.md's pseudocode sleeps what is left of a 20 ms tick: PerTick
\* envelopes and no more for every tick begun so far.
TargetRateKept ==
    paced => \A p \in Producers : i[p] <= PerTick * ((now \div Tick) + 1)

\* A calibration publishes as fast as possible: inside the window no producer
\* sleeps while it has envelopes left.
CalibrationNeverThrottled ==
    ~paced => \A p \in Producers :
        pc[p] = "asleep" /\ now < Deadline => i[p] = Pool

\* A producer that stops before the deadline has used up its pool.
StopsEarlyOnlyWhenExhausted ==
    \A p \in Producers : pc[p] = "done" /\ now < Deadline => i[p] = Pool

\* Only a window that delivered nothing, or that was not drained, ends
\* without a row.
NonEmptyDrainedWindowReports == main = "crashed" => ~drained \/ delivered = 0

\* What a stalled bus costs after the deadline: a producer that reads the
\* deadline before every publish gives up once at most; one that reads it before
\* every batch only (Rust) gives up on as many envelopes as a batch has.
TimeoutsBounded ==
    refused <= P * (IF port.deadline = "publish" THEN 1 ELSE Batch)

\* The window keeps the promise of DeliveryLedger.
Ledger == INSTANCE DeliveryLedger WITH
    accepted  <- accepted,
    consumed  <- Consumed,
    verdict   <- CASE main = "crashed" -> "lost"
                   [] main = "reported" /\ drained -> "valid"
                   [] main = "reported" /\ ~drained -> "invalid"
                   [] main = "reading" /\ ~drained -> "undrained"
                   [] OTHER -> "open",
    total     <- row.total,
    delivered <- row.delivered
KeepsLedger == Ledger!Spec

\* Even if the bus stalls for good, the window closes and the trial ends.
WindowCloses == <>Ended
=============================================================================
