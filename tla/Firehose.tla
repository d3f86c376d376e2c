------------------------------- MODULE Firehose -------------------------------
(***************************************************************************)
(* One firehose trial: P producers publish Total pre-built envelopes as    *)
(* fast as they can, consumers time each of them into a sample array       *)
(* through a counter, and the main thread starts the producers, joins      *)
(* them, shuts the bus down, reads the counters back and reports a row.    *)
(*                                                                         *)
(* The "seq" and "par" configurations share one channel, one counter and   *)
(* one sample array between all producers; the "chan" configuration gives  *)
(* each producer a channel, a counter and an array of its own.  The seven  *)
(* languages run the same protocol with different code at four places,     *)
(* which a profile (module FirehosePorts) records:                         *)
(*   layout    "shared" or "chan";                                         *)
(*   consumer  how a consumer takes a slot: "claim" (atomic fetch-and-add, *)
(*             then the store), "plain" (unsynchronised: read the counter, *)
(*             store, read the counter again, write it back) or "turn"     *)
(*             (one turn of an event loop);                                *)
(*   publish   what a producer does with a refusal: "once" (drops it) or   *)
(*             "spin" (offers the envelope again, for ever);               *)
(*   polls     the loops in which the main thread reads the counters after *)
(*             the shutdown, and which accumulators each read goes to;     *)
(*   empty     what the percentiles of no sample do: "raise" or "row";     *)
(*   teardown  "early" if the counters and arrays die before the bus does. *)
(***************************************************************************)
EXTENDS Integers, Sequences, FiniteSets, SedaBus

CONSTANTS Total,     \* envelopes per trial (TOTAL in every port)
          P,         \* producers, which is also the bus's number of workers
          Ports,     \* the profiles a behaviour may follow
          NoSample   \* the content of a slot nobody has stored to

Accumulators == {"delivered", "samples", "copy", "pos"}

Profiles ==
    [layout   : {"shared", "chan"},
     consumer : {"claim", "plain", "turn"},
     publish  : {"once", "spin"},
     polls    : Seq(Seq(SUBSET Accumulators)),
     empty    : SUBSET {"raise", "row"},
     teardown : {"early", "late"}]

ASSUME TotalAssumption == Total \in Nat \ {0}
ASSUME PAssumption == P \in 1..Total
ASSUME NoSampleAssumption == NoSample \notin Nat \X Nat

\* A consumer without a lock or an atomic counter is registered only on a
\* channel of concurrency 1; the port's comment is "safe: concurrency=1".
ASSUME PortsAssumption ==
    /\ Ports \subseteq Profiles
    /\ \A r \in Ports :
          /\ r.consumer = "plain" => r.layout = "chan"
          /\ \A l \in DOMAIN r.polls : r.polls[l] # <<>>

\* The reads that go to an accumulator: <<loop, step>>.
Reads(r, field) ==
    UNION {{<<l, k>> : k \in {j \in DOMAIN r.polls[l] : field \in r.polls[l][j]}}
              : l \in DOMAIN r.polls}

\* Every channel is counted once for `delivered` and once for the samples.  A
\* copy comes in a loop after the one that sizes its array, and moves its
\* position past a channel when that channel is copied.
ASSUME PollsAssumption ==
    \A r \in Ports :
        /\ \E s \in Reads(r, "delivered") : Reads(r, "delivered") = {s}
        /\ \E s \in Reads(r, "samples") : Reads(r, "samples") = {s}
        /\ \A c \in Reads(r, "copy") :
              /\ \A s \in Reads(r, "samples") : s[1] < c[1]
              /\ \E s \in Reads(r, "pos") :
                    Reads(r, "pos") = {s} /\ s[1] = c[1] /\ c[2] <= s[2]

Producers == 0 .. (P - 1)

\* per_producer + (remainder if p == 0 else 0)
Remainder == Total - (Total \div P) * P
Share(p) == (Total \div P) + (IF p = 0 THEN Remainder ELSE 0)

\* Envelope <<p, k>> is the k-th that producer p pre-builds.
Envelopes == {e \in Producers \X (1..Total) : e[2] <= Share(e[1])}

VARIABLES
    port,       \* the profile, chosen once
    main,       \* the main thread
    producer,   \* each producer thread
    next,       \* the next envelope each producer publishes
    stage,      \* where each envelope is
    idx,        \* the slot the envelope's consumer took
    bump,       \* what a plain consumer read to increment
    count,      \* each channel's counter
    slot,       \* the sample arrays
    drained,    \* what shutdown returned
    poll,       \* the next counter read: <<loop, channel, step>>
    acc,        \* the accumulators the reads went to
    row         \* the row reported, with the accumulators it was built from

trial    == <<main, drained, poll, acc, row>>
producing == <<producer, next>>
consuming == <<idx, bump, count, slot>>
vars == <<port, trial, producing, stage, consuming>>

Shared == port.layout = "shared"
Channels == IF Shared THEN {0} ELSE Producers
Home(e) == IF Shared THEN 0 ELSE e[1]

\* Mutant: every channel gets per_producer slots of queue, the remainder is
\* forgotten.
CapacityWithoutRemainder(c) == IF Shared THEN Total ELSE Total \div P
\* Mutant: the independent channels are given the shared channel's concurrency.
ConcurrencyOfThePool == P

\* The capacity a channel is registered with, the length of its sample array
\* and its concurrency.
Capacity(c) == IF Shared THEN Total ELSE Share(c)
Slots(c) == IF Shared THEN Total ELSE Share(c)
Concurrency == IF Shared THEN P ELSE 1

Index == 0 .. (Total - 1)
Slot == (0 .. (P - 1)) \X Index

HandlerStages == {"entered", "indexed", "stored", "bumping"}
Stages == {"pool", "queued", "delivered", "refused"} \cup HandlerStages

Waiting(c) == {e \in Envelopes : Home(e) = c /\ stage[e] = "queued"}
Handling(c) == {e \in Envelopes : Home(e) = c /\ stage[e] \in HandlerStages}
Busy == {e \in Envelopes : stage[e] \in HandlerStages}
Queued == {e \in Envelopes : stage[e] = "queued"}
Accepted == {e \in Envelopes : stage[e] \notin {"pool", "refused"}}
Consumed == {e \in Envelopes : stage[e] = "delivered"}

Init ==
    /\ port \in Ports
    /\ main = "spawning"
    /\ producer = [p \in Producers |-> "new"]
    /\ next = [p \in Producers |-> 1]
    /\ stage = [e \in Envelopes |-> "pool"]
    /\ idx = [e \in Envelopes |-> 0]
    /\ bump = [e \in Envelopes |-> 0]
    /\ count = [c \in Producers |-> 0]
    /\ slot = [s \in Slot |-> NoSample]
    /\ drained = FALSE
    /\ poll = <<1, 0, 1>>
    /\ acc = [delivered |-> 0, samples |-> 0, pos |-> 0]
    /\ row = [total |-> 0, delivered |-> 0, samples |-> 0]

-----------------------------------------------------------------------------
(* Producers *)

\* The main thread starts the producer threads one after the other; the ones
\* already started run meanwhile.
StartProducer(p) ==
    /\ main = "spawning"
    /\ producer[p] = "new"
    /\ \A q \in 0 .. (p - 1) : producer[q] # "new"
    /\ producer' = [producer EXCEPT ![p] = "publishing"]
    /\ main' = IF p = P - 1 THEN "joining" ELSE main
    /\ UNCHANGED <<port, drained, poll, acc, row, next, stage, consuming>>

\* publish stamps the envelope and the bus takes it, if there is room.  On a
\* full channel publish gives up after its timeout (5 s) and the result is
\* ignored, so the envelope is gone; a spinning port offers it again until
\* there is room.
RoomFor(p) ==
    LET home == Home(<<p, next[p]>>)
    IN  HasRoom(Cardinality(Waiting(home)), Capacity(home))

Publish(p) ==
    /\ producer[p] = "publishing"
    /\ next[p] <= Share(p)
    /\ RoomFor(p) \/ port.publish = "once"
    /\ stage' = [stage EXCEPT ![<<p, next[p]>>] = IF RoomFor(p) THEN "queued" ELSE "refused"]
    /\ next' = [next EXCEPT ![p] = @ + 1]
    /\ UNCHANGED <<port, trial, producer, consuming>>

FinishProducer(p) ==
    /\ producer[p] = "publishing"
    /\ next[p] > Share(p)
    /\ producer' = [producer EXCEPT ![p] = "finished"]
    /\ UNCHANGED <<port, trial, next, stage, consuming>>

-----------------------------------------------------------------------------
(* Consumers *)

\* On an event loop no handler runs while the main function reads the
\* counters: it does so in one turn.
LoopFree == port.consumer = "turn" => main # "polling"

Dispatch(e) ==
    /\ stage[e] = "queued"
    /\ LoopFree
    /\ CanDispatch(Cardinality(Handling(Home(e))), Concurrency, Cardinality(Busy), P)
    /\ stage' = [stage EXCEPT ![e] = "entered"]
    /\ UNCHANGED <<port, trial, producing, consuming>>

\* Mutant: the index is the value after the increment.
ClaimAfterIncrement(e) ==
    /\ port.consumer = "claim"
    /\ stage[e] = "entered"
    /\ idx' = [idx EXCEPT ![e] = count[Home(e)] + 1]
    /\ count' = [count EXCEPT ![Home(e)] = @ + 1]
    /\ stage' = [stage EXCEPT ![e] = "indexed"]
    /\ UNCHANGED <<port, trial, producing, bump, slot>>
\* Mutant: one is subtracted from the value before the increment.
ClaimOneBelow(e) ==
    /\ port.consumer = "claim"
    /\ stage[e] = "entered"
    /\ idx' = [idx EXCEPT ![e] = count[Home(e)] - 1]
    /\ count' = [count EXCEPT ![Home(e)] = @ + 1]
    /\ stage' = [stage EXCEPT ![e] = "indexed"]
    /\ UNCHANGED <<port, trial, producing, bump, slot>>

\* idx = count; count += 1, under the lock or as one atomic instruction.
ClaimSlot(e) ==
    /\ port.consumer = "claim"
    /\ stage[e] = "entered"
    /\ idx' = [idx EXCEPT ![e] = count[Home(e)]]
    /\ count' = [count EXCEPT ![Home(e)] = @ + 1]
    /\ stage' = [stage EXCEPT ![e] = "indexed"]
    /\ UNCHANGED <<port, trial, producing, bump, slot>>

\* The store is a second step: another consumer, or the main thread after a
\* timed-out shutdown, may run between the two.
WriteClaimed(e) ==
    /\ port.consumer = "claim"
    /\ stage[e] = "indexed"
    /\ slot' = [slot EXCEPT ![<<Home(e), idx[e]>>] = e]
    /\ stage' = [stage EXCEPT ![e] = "delivered"]
    /\ UNCHANGED <<port, trial, producing, idx, bump, count>>

\* latencies[idx][counts[idx]] = ... reads the counter without a lock.
ReadIndex(e) ==
    /\ port.consumer = "plain"
    /\ stage[e] = "entered"
    /\ idx' = [idx EXCEPT ![e] = count[Home(e)]]
    /\ stage' = [stage EXCEPT ![e] = "indexed"]
    /\ UNCHANGED <<port, trial, producing, bump, count, slot>>

StoreSample(e) ==
    /\ port.consumer = "plain"
    /\ stage[e] = "indexed"
    /\ slot' = [slot EXCEPT ![<<Home(e), idx[e]>>] = e]
    /\ stage' = [stage EXCEPT ![e] = "stored"]
    /\ UNCHANGED <<port, trial, producing, idx, bump, count>>

\* counts[idx]++ is a read and a write.
ReadCount(e) ==
    /\ port.consumer = "plain"
    /\ stage[e] = "stored"
    /\ bump' = [bump EXCEPT ![e] = count[Home(e)]]
    /\ stage' = [stage EXCEPT ![e] = "bumping"]
    /\ UNCHANGED <<port, trial, producing, idx, count, slot>>

BumpCount(e) ==
    /\ port.consumer = "plain"
    /\ stage[e] = "bumping"
    /\ count' = [count EXCEPT ![Home(e)] = bump[e] + 1]
    /\ stage' = [stage EXCEPT ![e] = "delivered"]
    /\ UNCHANGED <<port, trial, producing, idx, bump, slot>>

TurnConsume(e) ==
    /\ port.consumer = "turn"
    /\ stage[e] = "entered"
    /\ LoopFree
    /\ idx' = [idx EXCEPT ![e] = count[Home(e)]]
    /\ slot' = [slot EXCEPT ![<<Home(e), count[Home(e)]>>] = e]
    /\ count' = [count EXCEPT ![Home(e)] = @ + 1]
    /\ stage' = [stage EXCEPT ![e] = "delivered"]
    /\ UNCHANGED <<port, trial, producing, bump>>

-----------------------------------------------------------------------------
(* The main thread, after the producers are started *)

\* Mutant: only the last producer thread is joined.
JoinLastProducer ==
    /\ main = "joining"
    /\ producer[P - 1] = "finished"
    /\ main' = "draining"
    /\ UNCHANGED <<port, drained, poll, acc, row, producing, stage, consuming>>

JoinProducers ==
    /\ main = "joining"
    /\ \A p \in Producers : producer[p] = "finished"
    /\ main' = "draining"
    /\ UNCHANGED <<port, drained, poll, acc, row, producing, stage, consuming>>

ShutdownDrained ==
    /\ main = "draining"
    /\ Idle(Cardinality(Queued), Cardinality(Busy))
    /\ drained' = TRUE
    /\ main' = "polling"
    /\ UNCHANGED <<port, poll, acc, row, producing, stage, consuming>>

\* Mutant: the result of a shutdown that gave up is taken for a drain.
TimeoutTakenForDrain ==
    /\ main = "draining"
    /\ ~Idle(Cardinality(Queued), Cardinality(Busy))
    /\ drained' = TRUE
    /\ main' = "polling"
    /\ UNCHANGED <<port, poll, acc, row, producing, stage, consuming>>

\* After 60 s the shutdown gives up.  The consumers that run keep running.
ShutdownTimesOut ==
    /\ main = "draining"
    /\ ~Idle(Cardinality(Queued), Cardinality(Busy))
    /\ drained' = FALSE
    /\ main' = "polling"
    /\ UNCHANGED <<port, poll, acc, row, producing, stage, consuming>>

\* Mutant: the loops over the channels stop one short.
AfterOneShort(at) ==
    IF at[3] < Len(port.polls[at[1]]) THEN <<at[1], at[2], at[3] + 1>>
    ELSE IF at[2] + 2 \in Channels THEN <<at[1], at[2] + 1, 1>>
    ELSE <<at[1] + 1, 0, 1>>

\* The read after `at`: the next step of the loop body, then the next
\* channel, then the next loop.
After(at) ==
    IF at[3] < Len(port.polls[at[1]]) THEN <<at[1], at[2], at[3] + 1>>
    ELSE IF at[2] + 1 \in Channels THEN <<at[1], at[2] + 1, 1>>
    ELSE <<at[1] + 1, 0, 1>>

Polling == main = "polling" /\ poll[1] <= Len(port.polls)
Polled == main = "polling" /\ poll[1] > Len(port.polls)
Into == port.polls[poll[1]][poll[3]]
Overruns == "copy" \in Into /\ acc.pos + count[poll[2]] > acc.samples

Added(field) == acc[field] + (IF field \in Into THEN count[poll[2]] ELSE 0)

PollCount ==
    /\ Polling
    /\ ~Overruns
    /\ acc' = [delivered |-> Added("delivered"), samples |-> Added("samples"),
               pos |-> Added("pos")]
    /\ poll' = After(poll)
    /\ UNCHANGED <<port, main, drained, row, producing, stage, consuming>>

\* The array that collects the samples was sized from an earlier read of the
\* counters: copying more than that raises, and the process ends.
CopyOverruns ==
    /\ Polling
    /\ Overruns
    /\ main' = "crashed"
    /\ UNCHANGED <<port, drained, poll, acc, row, producing, stage, consuming>>

\* The percentiles of an empty array: an index error, and the process ends.
StatsRaise ==
    /\ Polled
    /\ acc.samples = 0
    /\ "raise" \in port.empty
    /\ main' = "crashed"
    /\ UNCHANGED <<port, drained, poll, acc, row, producing, stage, consuming>>

\* The function's locals die before the caller prints the row.  Where the bus
\* is declared before the counter and the array, a consumer still running
\* then writes to freed memory, which may end the process.
TeardownFaults ==
    /\ Polled
    /\ port.teardown = "early"
    /\ Busy # {}
    /\ main' = "crashed"
    /\ UNCHANGED <<port, drained, poll, acc, row, producing, stage, consuming>>

ReportRow ==
    /\ Polled
    /\ acc.samples > 0 \/ "row" \in port.empty
    /\ row' = [total |-> Total, delivered |-> acc.delivered, samples |-> acc.samples]
    /\ main' = "reported"
    /\ UNCHANGED <<port, drained, poll, acc, producing, stage, consuming>>

\* A trial that has ended and whose bus has nothing left to do.
Finished ==
    /\ main \in {"reported", "crashed"}
    /\ UNCHANGED vars

ProducerStep(p) ==
    StartProducer(p) \/ Publish(p) \/ FinishProducer(p)

ConsumerStep(e) ==
    \/ Dispatch(e)
    \/ ClaimSlot(e) \/ WriteClaimed(e)
    \/ ReadIndex(e) \/ StoreSample(e) \/ ReadCount(e) \/ BumpCount(e)
    \/ TurnConsume(e)

MainStep ==
    \/ JoinProducers
    \/ ShutdownDrained \/ ShutdownTimesOut
    \/ PollCount \/ CopyOverruns
    \/ StatsRaise \/ TeardownFaults \/ ReportRow

Next ==
    \/ \E p \in Producers : ProducerStep(p)
    \/ \E e \in Envelopes : ConsumerStep(e)
    \/ MainStep
    \/ Finished

Spec == Init /\ [][Next]_vars

\* The scheduler runs every producer thread and the main thread; a timed wait
\* (publish, shutdown) returns.  Nothing is assumed of the bus's consumers.
FairSpec ==
    /\ Spec
    /\ \A p \in Producers : WF_vars(ProducerStep(p))
    /\ WF_vars(MainStep)

-----------------------------------------------------------------------------
(* Properties *)

Ended == main \in {"reported", "crashed"}

\* Every variable holds a value of its kind.
TypeOK ==
    /\ port \in Ports
    /\ main \in {"spawning", "joining", "draining", "polling", "reported", "crashed"}
    /\ producer \in [Producers -> {"new", "publishing", "finished"}]
    /\ next \in [Producers -> Nat \ {0}]
    /\ stage \in [Envelopes -> Stages]
    /\ idx \in [Envelopes -> Nat]
    /\ bump \in [Envelopes -> Nat]
    /\ count \in [Producers -> Nat]
    /\ slot \in [Slot -> Envelopes \cup {NoSample}]
    /\ drained \in BOOLEAN
    /\ poll \in (Nat \ {0}) \X Producers \X (Nat \ {0})
    /\ acc \in [delivered : Nat, samples : Nat, pos : Nat]
    /\ row \in [total : Nat, delivered : Nat, samples : Nat]

\* No consumer ever indexes past the sample array of its channel: the arrays
\* are exactly as long as the number of envelopes that will be published to
\* the channel, so one count too many is an index error in a bus thread.
SlotInBounds ==
    \A e \in Envelopes :
        stage[e] \in HandlerStages \ {"entered"} => idx[e] < Slots(Home(e))

\* A sample once stored stays: no two consumers of a channel, however they
\* interleave between reading the counter, storing and incrementing it, are
\* given the same slot.
NoSampleOverwritten ==
    \A e \in Envelopes :
        stage[e] \in {"stored", "bumping", "delivered"} => slot[<<Home(e), idx[e]>>] = e

\* The channels are as large as the burst, so publish never meets a full one:
\* nothing is dropped by a producer that ignores the result, and the loop of
\* one that spins never turns.
BackpressureNeverEngages ==
    \A p \in Producers :
        producer[p] = "publishing" /\ next[p] <= Share(p)
            => RoomFor(p)

\* A row that says drained accounts for every envelope of the trial, in the
\* counter and in the percentiles, and none of its samples is a slot that was
\* claimed and not yet stored to.
ValidRowIsComplete ==
    main = "reported" /\ drained =>
        /\ row.delivered = Total
        /\ row.samples = Total
        /\ \A c \in Channels : \A k \in 0 .. (Slots(c) - 1) : slot[<<c, k>>] # NoSample

\* A trial whose shutdown reports a full drain always ends with a row: neither
\* the percentiles, nor the copy of the samples, nor the teardown of the
\* function can fail.
DrainedTrialReports == main = "crashed" => ~drained

\* The counters and the arrays are read without a lock after the shutdown:
\* once it has reported a full drain no consumer moves any more.
QuietOnceDrained == [][drained => UNCHANGED <<stage, count, slot>>]_vars

\* The trial keeps the promise of DeliveryLedger.
Ledger == INSTANCE DeliveryLedger WITH
    accepted  <- Cardinality(Accepted),
    consumed  <- Cardinality(Consumed),
    verdict   <- CASE main = "crashed" -> "lost"
                   [] main = "reported" /\ drained -> "valid"
                   [] main = "reported" /\ ~drained -> "invalid"
                   [] main = "polling" /\ ~drained -> "undrained"
                   [] OTHER -> "open",
    total     <- row.total,
    delivered <- row.delivered
KeepsLedger == Ledger!Spec

\* Whatever the bus does with the envelopes, even if it never hands one to a
\* consumer, the trial ends: every wait of the producers and of the main
\* thread is bounded.
TrialEnds == <>Ended

\* WORKLOAD.md: "A run whose Shutdown does not report a full drain is invalid
\* and must be reported as such": an undrained trial still ends with a row.
UndrainedRunReported == main = "crashed" => drained

\* The same, for the trials whose counters showed at least one sample.
NonEmptyUndrainedRunReported ==
    main = "crashed" /\ acc.samples > 0 => drained
=============================================================================
