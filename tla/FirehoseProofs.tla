---------------------------- MODULE FirehoseProofs ----------------------------
(***************************************************************************)
(* Theorems about Firehose, for every Total, every P and every set of      *)
(* profiles.                                                               *)
(*                                                                         *)
(* The argument.  There are Share(p) envelopes of producer p, so a channel *)
(* is home to at most Slots(c) envelopes (laid end to end, Position maps   *)
(* them one to one into 1..Total); what waits on it is among them and the  *)
(* next one is not, so publish always finds room.  A channel's counter     *)
(* equals the number of its envelopes that have taken a slot, less what a  *)
(* plain consumer still has to write back, so a slot taken is below        *)
(* Slots(c); and no two envelopes of a channel hold the same slot, because *)
(* every slot taken is below the counter.  A plain consumer keeps this     *)
(* only because its channel runs one consumer at a time.                   *)
(***************************************************************************)
EXTENDS Firehose, FiniteSetTheorems, TLAPS

LEMMA ProductMonotone ==
  ASSUME NEW a \in Nat, NEW b \in Nat, NEW q \in Nat, a <= b
  PROVE  a * q <= b * q
OBVIOUS

LEMMA DivisionFits ==
  /\ Total \div P \in Nat
  /\ (Total \div P) * P <= Total
BY TotalAssumption, PAssumption

LEMMA ShareType ==
  ASSUME NEW p \in Producers
  PROVE  Share(p) \in Nat /\ Share(p) <= Total
BY TotalAssumption, PAssumption, DivisionFits DEF Share, Remainder, Producers

\* Where the envelope stands if the producers' lists are laid end to end.
Position(e) ==
    IF e[1] = 0 THEN e[2] ELSE Share(0) + (e[1] - 1) * (Total \div P) + e[2]

AtHome(c) == {e \in Envelopes : Home(e) = c}

LEMMA EnvelopeType ==
  ASSUME NEW e \in Envelopes
  PROVE  /\ e[1] \in Producers /\ e[2] \in Nat \ {0}
         /\ e[2] <= Share(e[1]) /\ e = <<e[1], e[2]>>
BY DEF Envelopes

LEMMA EnvelopesFinite == IsFiniteSet(Envelopes)
<1>1. IsFiniteSet(Producers) /\ IsFiniteSet(1..Total)
  BY FS_Interval, TotalAssumption, PAssumption DEF Producers
<1>2. IsFiniteSet(Producers \X (1..Total))
  BY <1>1, FS_Product
<1> QED
  BY <1>2, FS_Subset DEF Envelopes

LEMMA PositionBounds ==
  ASSUME NEW e \in Envelopes
  PROVE  Position(e) \in 1..Total
<1> DEFINE q == Total \div P
<1>1. q \in Nat /\ q * P <= Total /\ P \in Nat /\ P >= 1 /\ Total \in Nat
  BY DivisionFits, PAssumption, TotalAssumption
<1>2. e[1] \in 0..(P-1) /\ e[2] \in Nat \ {0} /\ e[2] <= Share(e[1])
  BY EnvelopeType DEF Producers
<1>3. Share(0) = q + (Total - q * P)
  BY DEF Share, Remainder
<1>4. CASE e[1] = 0
  BY <1>1, <1>2, <1>4, ShareType DEF Position, Producers
<1>5. CASE e[1] # 0
  <2>1. e[2] <= q
    BY <1>1, <1>2, <1>5 DEF Share
  <2>2. e[1] * q <= (P - 1) * q
    BY <1>1, <1>2, ProductMonotone
  <2>3. (e[1] - 1) * q = e[1] * q - q /\ (P - 1) * q = q * P - q
    BY <1>1, <1>2
  <2>4. Position(e) = Share(0) + (e[1] - 1) * q + e[2]
    BY <1>5 DEF Position
  <2>5. (e[1] - 1) * q \in Nat
    BY <1>1, <1>2, <1>5
  <2> HIDE DEF q
  <2> QED
    BY <1>1, <1>2, <1>3, <2>1, <2>2, <2>3, <2>4, <2>5
<1> QED
  BY <1>4, <1>5

LEMMA PositionOrder ==
  ASSUME NEW e \in Envelopes, NEW f \in Envelopes, e[1] < f[1]
  PROVE  Position(e) < Position(f)
<1> DEFINE q == Total \div P
<1>1. q \in Nat /\ Share(0) \in Nat
  BY DivisionFits, PAssumption, ShareType DEF Producers
<1>2. /\ e[1] \in Nat /\ e[2] \in Nat /\ e[2] <= Share(e[1])
      /\ f[1] \in Nat \ {0} /\ f[2] \in Nat \ {0}
  BY PAssumption, EnvelopeType DEF Producers
<1>3. e[1] # 0 => e[2] <= q
  BY <1>1, <1>2 DEF Share
<1>4. Position(f) = Share(0) + (f[1] - 1) * q + f[2]
  BY <1>2 DEF Position
<1>5. (f[1] - 1) * q \in Nat
  BY <1>1, <1>2
<1>6. CASE e[1] = 0
  BY <1>1, <1>2, <1>4, <1>5, <1>6 DEF Position
<1>7. CASE e[1] # 0
  <2> DEFINE below == e[1] * q
             above == (f[1] - 1) * q
  <2>1. below <= above
    BY <1>1, <1>2, ProductMonotone
  <2>2. (e[1] - 1) * q = below - q /\ below \in Nat /\ above \in Nat
    BY <1>1, <1>2, <1>5
  <2>3. Position(e) = Share(0) + (below - q) + e[2]
    BY <1>7, <2>2 DEF Position
  <2>4. Position(f) = Share(0) + above + f[2]
    BY <1>4
  <2> HIDE DEF below, above, q
  <2>5. Share(0) + (below - q) + e[2] < Share(0) + above + f[2]
    BY <1>1, <1>2, <1>3, <1>7, <2>1, <2>2
  <2> QED
    BY <2>3, <2>4, <2>5
<1> QED
  BY <1>6, <1>7

LEMMA PositionInjective ==
  ASSUME NEW e \in Envelopes, NEW f \in Envelopes, Position(e) = Position(f)
  PROVE  e = f
<1> DEFINE q == Total \div P
<1>1. q \in Nat /\ Share(0) \in Nat
  BY DivisionFits, PAssumption, ShareType DEF Producers
<1>2. /\ e[1] \in Nat /\ e[2] \in Nat /\ e = <<e[1], e[2]>>
      /\ f[1] \in Nat /\ f[2] \in Nat /\ f = <<f[1], f[2]>>
  BY PAssumption, EnvelopeType DEF Producers
<1>3. Position(e) \in Int /\ Position(f) \in Int
  BY PositionBounds, TotalAssumption
<1>4. e[1] = f[1]
  BY <1>2, <1>3, PositionOrder
<1>5. e[2] = f[2]
  <2> DEFINE above == (e[1] - 1) * q
  <2>1. above \in Int
    BY <1>1, <1>2
  <2>2. CASE e[1] = 0
    BY <1>2, <1>4, <2>2 DEF Position
  <2>3. CASE e[1] # 0
    <3>1. /\ Position(e) = Share(0) + above + e[2]
          /\ Position(f) = Share(0) + above + f[2]
      BY <1>4, <2>3 DEF Position
    <3> HIDE DEF above
    <3>2. Share(0) + above + e[2] = Share(0) + above + f[2]
      BY <3>1
    <3> QED
      BY <1>1, <1>2, <2>1, <3>2
  <2> QED
    BY <2>2, <2>3
<1> QED
  BY <1>2, <1>4, <1>5

\* A channel is as large as the list of envelopes addressed to it.
LEMMA HomeFits ==
  ASSUME NEW c \in Channels, port.layout \in {"shared", "chan"}
  PROVE  /\ IsFiniteSet(AtHome(c))
         /\ Slots(c) \in Nat /\ Slots(c) <= Total
         /\ Cardinality(AtHome(c)) <= Slots(c)
<1>1. IsFiniteSet(AtHome(c))
  BY EnvelopesFinite, FS_Subset DEF AtHome
<1>2. CASE Shared
  <2>1. [e \in AtHome(c) |-> Position(e)] \in Injection(AtHome(c), 1..Total)
    BY PositionBounds, PositionInjective DEF AtHome, Injection, IsInjective
  <2>2. Cardinality(1..Total) = Total /\ IsFiniteSet(1..Total)
    BY FS_Interval, TotalAssumption
  <2> QED
    BY <1>1, <1>2, <2>1, <2>2, FS_Injection, TotalAssumption DEF Slots
<1>3. CASE ~Shared
  <2>1. c \in Producers /\ \A e \in AtHome(c) : e[1] = c /\ e \in Envelopes
    BY <1>3 DEF Channels, AtHome, Home
  <2>2. Share(c) \in Nat /\ Share(c) <= Total
    BY <2>1, ShareType
  <2>3. [e \in AtHome(c) |-> e[2]] \in Injection(AtHome(c), 1..Share(c))
    BY <2>1, <2>2, EnvelopeType DEF Injection, IsInjective
  <2>4. Cardinality(1..Share(c)) = Share(c) /\ IsFiniteSet(1..Share(c))
    BY <2>2, FS_Interval
  <2> QED
    BY <1>1, <1>3, <2>2, <2>3, <2>4, FS_Injection DEF Slots
<1> QED
  BY <1>2, <1>3

-----------------------------------------------------------------------------
(* Type correctness *)

LEMMA ProfileType ==
  ASSUME NEW r \in Ports
  PROVE  /\ r.layout \in {"shared", "chan"}
         /\ r.consumer \in {"claim", "plain", "turn"}
         /\ r.polls \in Seq(Seq(SUBSET Accumulators))
         /\ r.consumer = "plain" => r.layout = "chan"
BY PortsAssumption DEF Profiles

LEMMA ProducersType == 0 \in Producers /\ Producers \subseteq Nat
BY PAssumption, TotalAssumption DEF Producers

LEMMA HomeType ==
  ASSUME NEW e \in Envelopes
  PROVE  Home(e) \in Channels /\ Home(e) \in Producers
BY EnvelopeType, ProducersType DEF Home, Channels

LEMMA TypeInit == Init => TypeOK
<1> SUFFICES ASSUME Init PROVE TypeOK
  OBVIOUS
<1>1. stage \in [Envelopes -> Stages] /\ slot \in [Slot -> Envelopes \cup {NoSample}]
  BY DEF Init, Stages
<1>2. poll \in (Nat \ {0}) \X Producers \X (Nat \ {0})
  BY ProducersType DEF Init
<1> QED
  BY <1>1, <1>2 DEF Init, TypeOK

\* A store to a slot, in or out of the arrays, leaves an array of samples.
LEMMA StoreType ==
  ASSUME TypeOK, NEW e \in Envelopes, NEW k
  PROVE  [slot EXCEPT ![<<Home(e), k>>] = e] \in [Slot -> Envelopes \cup {NoSample}]
BY DEF TypeOK

LEMMA TypeProducer ==
  ASSUME TypeOK, NEW p \in Producers, ProducerStep(p)
  PROVE  TypeOK'
<1>1. CASE StartProducer(p)
  <2>1. main' \in {"spawning", "joining"}
    BY <1>1 DEF StartProducer
  <2> QED
    BY <1>1, <2>1 DEF TypeOK, StartProducer, consuming
<1>2. CASE Publish(p)
  <2>1. stage' \in [Envelopes -> Stages]
    BY <1>2 DEF TypeOK, Publish, Stages
  <2>2. next' \in [Producers -> Nat \ {0}]
    BY <1>2 DEF TypeOK, Publish
  <2> QED
    BY <1>2, <2>1, <2>2 DEF TypeOK, Publish, trial, consuming
<1>3. CASE FinishProducer(p)
  BY <1>3 DEF TypeOK, FinishProducer, trial, consuming
<1> QED
  BY <1>1, <1>2, <1>3 DEF ProducerStep

LEMMA TypeConsumer ==
  ASSUME TypeOK, NEW e \in Envelopes, ConsumerStep(e)
  PROVE  TypeOK'
<1> USE HomeType
<1>1. CASE Dispatch(e)
  BY <1>1 DEF TypeOK, Dispatch, trial, producing, consuming, Stages, HandlerStages
<1>2. CASE ClaimSlot(e)
  BY <1>2 DEF TypeOK, ClaimSlot, trial, producing, Stages, HandlerStages
<1>3. CASE WriteClaimed(e)
  BY <1>3, StoreType DEF TypeOK, WriteClaimed, trial, producing, Stages
<1>4. CASE ReadIndex(e)
  BY <1>4 DEF TypeOK, ReadIndex, trial, producing, Stages, HandlerStages
<1>5. CASE StoreSample(e)
  BY <1>5, StoreType DEF TypeOK, StoreSample, trial, producing, Stages, HandlerStages
<1>6. CASE ReadCount(e)
  BY <1>6 DEF TypeOK, ReadCount, trial, producing, Stages, HandlerStages
<1>7. CASE BumpCount(e)
  BY <1>7 DEF TypeOK, BumpCount, trial, producing, Stages
<1>8. CASE TurnConsume(e)
  BY <1>8, StoreType DEF TypeOK, TurnConsume, trial, producing, Stages
<1> QED
  BY <1>1, <1>2, <1>3, <1>4, <1>5, <1>6, <1>7, <1>8 DEF ConsumerStep

LEMMA TypeMain ==
  ASSUME TypeOK, MainStep
  PROVE  TypeOK'
<1>1. CASE JoinProducers
  BY <1>1 DEF TypeOK, JoinProducers, producing, consuming
<1>2. CASE ShutdownDrained
  BY <1>2 DEF TypeOK, ShutdownDrained, producing, consuming
<1>3. CASE ShutdownTimesOut
  BY <1>3 DEF TypeOK, ShutdownTimesOut, producing, consuming
<1>4. CASE PollCount
  <2>1. poll[1] \in Nat \ {0} /\ poll[2] \in Producers /\ poll[3] \in Nat \ {0}
    BY DEF TypeOK
  <2>2. After(poll) \in (Nat \ {0}) \X Producers \X (Nat \ {0})
    BY <2>1, ProducersType DEF After, Channels
  <2>3. count[poll[2]] \in Nat
    BY <2>1 DEF TypeOK
  <2>4. Added("delivered") \in Nat /\ Added("samples") \in Nat /\ Added("pos") \in Nat
    BY <2>3 DEF TypeOK, Added
  <2> QED
    BY <1>4, <2>2, <2>4 DEF TypeOK, PollCount, producing, consuming
<1>5. CASE CopyOverruns
  BY <1>5 DEF TypeOK, CopyOverruns, producing, consuming
<1>6. CASE StatsRaise
  BY <1>6 DEF TypeOK, StatsRaise, producing, consuming
<1>7. CASE TeardownFaults
  BY <1>7 DEF TypeOK, TeardownFaults, producing, consuming
<1>8. CASE ReportRow
  BY <1>8, TotalAssumption DEF TypeOK, ReportRow, producing, consuming
<1> QED
  BY <1>1, <1>2, <1>3, <1>4, <1>5, <1>6, <1>7, <1>8 DEF MainStep

LEMMA TypeStutter ==
  ASSUME TypeOK, UNCHANGED vars
  PROVE  TypeOK'
BY DEF TypeOK, vars, trial, producing, consuming

LEMMA TypeNext == TypeOK /\ [Next]_vars => TypeOK'
BY TypeProducer, TypeConsumer, TypeMain, TypeStutter DEF Next, Finished

\* Every variable of the firehose keeps its type, for every Total, P and set
\* of ports.
THEOREM TypeCorrect == Spec => []TypeOK
BY TypeInit, TypeNext, PTL DEF Spec

-----------------------------------------------------------------------------
(* The inductive invariant behind the sample arrays.                       *)
(*                                                                         *)
(* The counter of a channel is the number of its envelopes that have been  *)
(* counted: a claiming consumer counts its envelope when it takes the      *)
(* index, the others when they are done with it.  So while an envelope is  *)
(* uncounted the counter is below the number of envelopes addressed to the *)
(* channel, which is the length of its array.                              *)

Counts == IF port.consumer = "claim" THEN {"indexed", "delivered"} ELSE {"delivered"}
Counted(c) == {e \in AtHome(c) : stage[e] \in Counts}

\* A consumer only goes through the stages of its kind.
StagesOfKind ==
    \A e \in Envelopes :
        /\ port.consumer = "claim" => stage[e] \notin {"stored", "bumping"}
        /\ port.consumer = "turn" => stage[e] \notin {"indexed", "stored", "bumping"}

CountsAgree == \A c \in Channels : count[c] = Cardinality(Counted(c))

\* One consumer at a time on a channel of concurrency 1.
OneAtATime ==
    ~Shared => \A e, f \in Envelopes :
        /\ Home(e) = Home(f)
        /\ stage[e] \in HandlerStages
        /\ stage[f] \in HandlerStages
        => e = f

\* What was counted has an index below the counter, and no two the same.
IndexTaken ==
    \A e \in Envelopes : stage[e] \in Counts =>
        /\ idx[e] < count[Home(e)]
        /\ \A f \in Envelopes :
               Home(f) = Home(e) /\ stage[f] \in Counts /\ idx[f] = idx[e] => f = e

\* What a plain consumer read of the counter is still true.
ReadsFresh ==
    port.consumer = "plain" => \A e \in Envelopes :
        /\ stage[e] \in {"indexed", "stored", "bumping"} => idx[e] = count[Home(e)]
        /\ stage[e] = "bumping" => bump[e] = count[Home(e)]

Unpublished ==
    \A e \in Envelopes : e[2] >= next[e[1]] => stage[e] = "pool"

\* A step moves no envelope, or a producer publishes one, or a consumer moves
\* one.
LEMMA StepShape ==
  ASSUME TypeOK, [Next]_vars
  PROVE  /\ port' = port
         /\ \/ UNCHANGED <<stage, idx, bump, count, slot, next>>
            \/ \E p \in Producers : Publish(p)
            \/ \E e \in Envelopes : ConsumerStep(e)
<1>1. CASE MainStep
  BY <1>1 DEF MainStep, JoinProducers, ShutdownDrained, ShutdownTimesOut, PollCount,
              CopyOverruns, StatsRaise, TeardownFaults, ReportRow, producing, consuming
<1>2. ASSUME NEW p \in Producers, ProducerStep(p)
      PROVE  /\ port' = port
             /\ Publish(p) \/ UNCHANGED <<stage, idx, bump, count, slot, next>>
  BY <1>2 DEF ProducerStep, StartProducer, FinishProducer, Publish, consuming
<1>3. ASSUME NEW e \in Envelopes, ConsumerStep(e)
      PROVE  port' = port
  BY <1>3 DEF ConsumerStep, Dispatch, ClaimSlot, WriteClaimed, ReadIndex, StoreSample,
              ReadCount, BumpCount, TurnConsume
<1>4. CASE UNCHANGED vars
  BY <1>4 DEF vars, producing, consuming
<1> QED
  BY <1>1, <1>2, <1>3, <1>4 DEF Next, Finished

LEMMA ConsumerEffect ==
  ASSUME TypeOK, NEW e \in Envelopes, ConsumerStep(e)
  PROVE  /\ next' = next
         /\ stage[e] \in HandlerStages \cup {"queued"}
         /\ stage'[e] \in HandlerStages \cup {"delivered"}
         /\ \A f \in Envelopes : f # e => stage'[f] = stage[f] /\ idx'[f] = idx[f]
         /\ \A c \in Producers : c # Home(e) => count'[c] = count[c]
BY HomeType DEF TypeOK, ConsumerStep, Dispatch, ClaimSlot, WriteClaimed, ReadIndex,
   StoreSample, ReadCount, BumpCount, TurnConsume, producing, consuming, HandlerStages

\* The profile never changes, nor what depends on it.
LEMMA PortFixed ==
  ASSUME port' = port
  PROVE  /\ Channels' = Channels /\ Shared' = Shared /\ Counts' = Counts
         /\ \A e : Home(e)' = Home(e)
         /\ \A c : AtHome(c)' = AtHome(c) /\ Slots(c)' = Slots(c)
BY DEF Channels, Shared, Counts, Home, AtHome, Slots

LEMMA KindNext ==
  ASSUME TypeOK, StagesOfKind, [Next]_vars
  PROVE  StagesOfKind'
<1>0. port' = port
  BY StepShape
<1>1. CASE UNCHANGED <<stage, idx, bump, count, slot, next>>
  BY <1>0, <1>1 DEF StagesOfKind
<1>2. ASSUME NEW p \in Producers, Publish(p)
      PROVE  StagesOfKind'
  BY <1>0, <1>2 DEF StagesOfKind, Publish, TypeOK
<1>3. ASSUME NEW e \in Envelopes, ConsumerStep(e)
      PROVE  StagesOfKind'
  BY <1>0, <1>3 DEF StagesOfKind, TypeOK, ConsumerStep, Dispatch, ClaimSlot, WriteClaimed,
     ReadIndex, StoreSample, ReadCount, BumpCount, TurnConsume
<1> QED
  BY <1>1, <1>2, <1>3, StepShape

LEMMA UnpublishedNext ==
  ASSUME TypeOK, Unpublished, [Next]_vars
  PROVE  Unpublished'
<1>1. CASE UNCHANGED <<stage, idx, bump, count, slot, next>>
  BY <1>1 DEF Unpublished
<1>2. ASSUME NEW p \in Producers, Publish(p)
      PROVE  Unpublished'
  <2>1. SUFFICES ASSUME NEW e \in Envelopes, e[2] >= next'[e[1]]
                 PROVE  stage'[e] = "pool"
    BY DEF Unpublished
  <2>2. next'[e[1]] >= next[e[1]] /\ e # <<p, next[p]>>
    BY <1>2, <2>1, EnvelopeType DEF Publish, TypeOK
  <2> QED
    BY <1>2, <2>1, <2>2, EnvelopeType DEF Publish, TypeOK, Unpublished
<1>3. ASSUME NEW e \in Envelopes, ConsumerStep(e)
      PROVE  Unpublished'
  BY <1>3, ConsumerEffect DEF Unpublished, HandlerStages
<1> QED
  BY <1>1, <1>2, <1>3, StepShape

LEMMA OneAtATimeNext ==
  ASSUME TypeOK, OneAtATime, [Next]_vars
  PROVE  OneAtATime'
<1>0. port' = port
  BY StepShape
<1>1. CASE UNCHANGED <<stage, idx, bump, count, slot, next>>
  BY <1>0, <1>1, PortFixed DEF OneAtATime
<1>2. ASSUME NEW p \in Producers, Publish(p)
      PROVE  OneAtATime'
  <2>1. \A e \in Envelopes : stage'[e] \in HandlerStages => stage[e] \in HandlerStages
    BY <1>2 DEF Publish, TypeOK, HandlerStages
  <2> QED
    BY <1>0, <2>1, PortFixed DEF OneAtATime
<1>3. ASSUME NEW g \in Envelopes, ConsumerStep(g)
      PROVE  OneAtATime'
  <2>1. CASE Dispatch(g) /\ ~Shared
    <3>1. IsFiniteSet(Handling(Home(g)))
      BY EnvelopesFinite, FS_Subset DEF Handling
    <3>2. Cardinality(Handling(Home(g))) < 1
      BY <2>1 DEF Dispatch, CanDispatch, Concurrency
    <3>3. Handling(Home(g)) = {}
      BY <3>1, <3>2, FS_EmptySet, FS_CardinalityType
    <3>4. \A e \in Envelopes : Home(e) = Home(g) => stage[e] \notin HandlerStages
      BY <3>3 DEF Handling
    <3> QED
      BY <1>0, <1>3, <3>4, PortFixed, ConsumerEffect DEF OneAtATime
  <2>2. CASE ~Dispatch(g)
    <3>1. stage[g] \in HandlerStages
      BY <1>3, <2>2 DEF ConsumerStep, ClaimSlot, WriteClaimed, ReadIndex, StoreSample,
         ReadCount, BumpCount, TurnConsume, HandlerStages
    <3> QED
      BY <1>0, <1>3, <3>1, PortFixed, ConsumerEffect DEF OneAtATime
  <2>3. CASE Shared
    BY <1>0, <2>3, PortFixed DEF OneAtATime
  <2> QED
    BY <2>1, <2>2, <2>3
<1> QED
  BY <1>1, <1>2, <1>3, StepShape

LEMMA CountedFinite ==
  ASSUME NEW c
  PROVE  IsFiniteSet(AtHome(c)) /\ IsFiniteSet(Counted(c))
BY EnvelopesFinite, FS_Subset DEF AtHome, Counted

\* While an envelope of the channel is uncounted there is room in the array.
LEMMA RoomToCount ==
  ASSUME TypeOK, CountsAgree, NEW e \in Envelopes, stage[e] \notin Counts
  PROVE  count[Home(e)] < Slots(Home(e))
<1> DEFINE c == Home(e)
<1>1. c \in Channels /\ c \in Producers
  BY HomeType
<1>2. Cardinality(AtHome(c)) <= Slots(c) /\ Slots(c) \in Nat
  BY <1>1, HomeFits, ProfileType DEF TypeOK
<1>3. e \in AtHome(c) /\ e \notin Counted(c) /\ Counted(c) \subseteq AtHome(c)
  BY DEF AtHome, Counted
<1>4. /\ Cardinality(Counted(c)) <= Cardinality(AtHome(c))
      /\ Cardinality(AtHome(c)) = Cardinality(Counted(c)) => AtHome(c) = Counted(c)
  BY <1>3, CountedFinite, FS_Subset
<1>5. Cardinality(Counted(c)) \in Nat /\ Cardinality(AtHome(c)) \in Nat
  BY CountedFinite, FS_CardinalityType
<1> HIDE DEF c
<1>6. Cardinality(Counted(c)) < Slots(c)
  BY <1>2, <1>3, <1>4, <1>5
<1> QED
  BY <1>1, <1>6 DEF CountsAgree, c

\* Counting one more envelope of a channel is what the counter does.
LEMMA CountOne ==
  ASSUME TypeOK, CountsAgree, port' = port,
         NEW e \in Envelopes, stage[e] \notin Counts, stage'[e] \in Counts,
         \A f \in Envelopes : f # e => stage'[f] = stage[f],
         \A c \in Producers : c # Home(e) => count'[c] = count[c],
         count'[Home(e)] = count[Home(e)] + 1
  PROVE  CountsAgree'
<1> SUFFICES ASSUME NEW c \in Channels
             PROVE  count'[c] = Cardinality(Counted(c)')
  BY PortFixed DEF CountsAgree
<1>0. c \in Producers
  BY ProducersType DEF Channels
<1>1. CASE c = Home(e)
  <2>1. Counted(c)' = Counted(c) \cup {e}
    BY <1>1, PortFixed DEF Counted, AtHome
  <2>2. e \notin Counted(c)
    BY DEF Counted
  <2> QED
    BY <1>1, <2>1, <2>2, CountedFinite, FS_AddElement DEF CountsAgree
<1>2. CASE c # Home(e)
  <2>1. Counted(c)' = Counted(c)
    BY <1>2, PortFixed DEF Counted, AtHome
  <2> QED
    BY <1>0, <1>2, <2>1 DEF CountsAgree
<1> QED
  BY <1>1, <1>2

LEMMA CountNone ==
  ASSUME CountsAgree, port' = port, count' = count,
         \A f \in Envelopes : stage'[f] \in Counts <=> stage[f] \in Counts
  PROVE  CountsAgree'
<1> SUFFICES ASSUME NEW c \in Channels
             PROVE  count'[c] = Cardinality(Counted(c)')
  BY PortFixed DEF CountsAgree
<1>1. Counted(c)' = Counted(c)
  BY PortFixed DEF Counted, AtHome
<1> QED
  BY <1>1 DEF CountsAgree

\* The three kinds of consumer step: those that count, and the others.
CountingStep(e) == ClaimSlot(e) \/ BumpCount(e) \/ TurnConsume(e)

LEMMA CountingEffect ==
  ASSUME TypeOK, StagesOfKind, ReadsFresh, NEW e \in Envelopes, CountingStep(e)
  PROVE  /\ stage[e] \notin Counts /\ stage'[e] \in Counts
         /\ count'[Home(e)] = count[Home(e)] + 1
         /\ idx'[e] = count[Home(e)]
BY HomeType DEF TypeOK, StagesOfKind, ReadsFresh, CountingStep, ClaimSlot, BumpCount,
   TurnConsume, Counts

LEMMA NotCountingEffect ==
  ASSUME TypeOK, StagesOfKind, NEW e \in Envelopes, ConsumerStep(e), ~CountingStep(e)
  PROVE  /\ count' = count
         /\ \A f \in Envelopes : stage'[f] \in Counts <=> stage[f] \in Counts
         /\ \A f \in Envelopes : stage[f] \in Counts => idx'[f] = idx[f]
BY DEF TypeOK, StagesOfKind, ConsumerStep, CountingStep, Dispatch, WriteClaimed, ReadIndex,
   StoreSample, ReadCount, Counts, consuming

LEMMA PublishEffect ==
  ASSUME TypeOK, NEW p \in Producers, Publish(p)
  PROVE  /\ UNCHANGED <<idx, bump, count, slot>>
         /\ <<p, next[p]>> \in Envelopes
         /\ stage'[<<p, next[p]>>] \in {"queued", "refused"}
         /\ \A f \in Envelopes : f # <<p, next[p]>> => stage'[f] = stage[f]
<1>1. next[p] \in 1..Total /\ next[p] <= Share(p)
  BY ShareType, TotalAssumption DEF Publish, TypeOK
<1> QED
  BY <1>1 DEF Publish, consuming, TypeOK, Envelopes

LEMMA NextInPool ==
  ASSUME TypeOK, Unpublished, NEW p \in Producers, <<p, next[p]>> \in Envelopes
  PROVE  stage[<<p, next[p]>>] = "pool"
<1>1. next[p] \in Nat
  BY DEF TypeOK
<1> QED
  BY <1>1 DEF Unpublished

LEMMA CountsNext ==
  ASSUME TypeOK, StagesOfKind, ReadsFresh, CountsAgree, Unpublished, [Next]_vars
  PROVE  CountsAgree'
<1>0. port' = port
  BY StepShape
<1>1. CASE UNCHANGED <<stage, idx, bump, count, slot, next>>
  BY <1>0, <1>1, CountNone
<1>2. ASSUME NEW p \in Producers, Publish(p)
      PROVE  CountsAgree'
  <2>1. stage[<<p, next[p]>>] = "pool"
    BY <1>2, NextInPool, PublishEffect
  <2>2. \A f \in Envelopes : stage'[f] \in Counts <=> stage[f] \in Counts
    BY <1>2, <2>1, PublishEffect DEF Counts
  <2> QED
    BY <1>0, <1>2, <2>2, PublishEffect, CountNone
<1>3. ASSUME NEW e \in Envelopes, ConsumerStep(e)
      PROVE  CountsAgree'
  <2>1. CASE CountingStep(e)
    BY <1>0, <1>3, <2>1, CountingEffect, ConsumerEffect, CountOne
  <2>2. CASE ~CountingStep(e)
    BY <1>0, <1>3, <2>2, NotCountingEffect, CountNone
  <2> QED
    BY <2>1, <2>2
<1> QED
  BY <1>1, <1>2, <1>3, StepShape

LEMMA IndexNext ==
  ASSUME TypeOK, StagesOfKind, ReadsFresh, IndexTaken, Unpublished, [Next]_vars
  PROVE  IndexTaken'
<1>0. port' = port /\ Counts' = Counts /\ \A e : Home(e)' = Home(e)
  BY StepShape, PortFixed
<1>1. CASE UNCHANGED <<stage, idx, bump, count, slot, next>>
  BY <1>0, <1>1 DEF IndexTaken
<1>2. ASSUME NEW p \in Producers, Publish(p)
      PROVE  IndexTaken'
  <2>1. stage[<<p, next[p]>>] = "pool"
    BY <1>2, NextInPool, PublishEffect
  <2>2. \A f \in Envelopes : stage'[f] \in Counts <=> stage[f] \in Counts
    BY <1>2, <2>1, PublishEffect DEF Counts
  <2> QED
    BY <1>0, <1>2, <2>2, PublishEffect DEF IndexTaken
<1>3. ASSUME NEW g \in Envelopes, ConsumerStep(g)
      PROVE  IndexTaken'
  <2>1. CASE CountingStep(g)
    <3>1. \A e \in Envelopes :
             e # g /\ stage'[e] \in Counts /\ Home(e) = Home(g)
                 => idx'[e] < count[Home(g)] /\ idx'[e] \in Nat
      BY <1>3, ConsumerEffect DEF IndexTaken, TypeOK
    <3>2. count[Home(g)] \in Nat /\ count'[Home(g)] = count[Home(g)] + 1
          /\ idx'[g] = count[Home(g)]
      BY <2>1, CountingEffect, HomeType DEF TypeOK
    <3>3. SUFFICES ASSUME NEW e \in Envelopes, stage'[e] \in Counts
                   PROVE  /\ idx'[e] < count'[Home(e)]
                          /\ \A f \in Envelopes :
                                Home(f) = Home(e) /\ stage'[f] \in Counts /\ idx'[f] = idx'[e]
                                    => f = e
      BY <1>0 DEF IndexTaken
    <3>4. CASE Home(e) = Home(g)
      BY <3>1, <3>2, <3>3, <3>4, <1>3, ConsumerEffect DEF IndexTaken
    <3>5. CASE Home(e) # Home(g)
      BY <3>3, <3>5, <1>3, ConsumerEffect, HomeType DEF IndexTaken
    <3> QED
      BY <3>4, <3>5
  <2>2. CASE ~CountingStep(g)
    BY <1>0, <1>3, <2>2, NotCountingEffect DEF IndexTaken
  <2> QED
    BY <2>1, <2>2
<1> QED
  BY <1>1, <1>2, <1>3, StepShape

LEMMA ReadsNext ==
  ASSUME TypeOK, StagesOfKind, ReadsFresh, OneAtATime, [Next]_vars
  PROVE  ReadsFresh'
<1>0. port' = port /\ \A e : Home(e)' = Home(e)
  BY StepShape, PortFixed
<1>1. CASE UNCHANGED <<stage, idx, bump, count, slot, next>>
  BY <1>0, <1>1 DEF ReadsFresh
<1>2. ASSUME NEW p \in Producers, Publish(p)
      PROVE  ReadsFresh'
  BY <1>0, <1>2, PublishEffect DEF ReadsFresh
<1>3. ASSUME NEW g \in Envelopes, ConsumerStep(g), port.consumer = "plain"
      PROVE  ReadsFresh'
  <2>1. ~Shared
    BY <1>3, ProfileType DEF Shared, TypeOK
  <2>2. SUFFICES ASSUME NEW e \in Envelopes
                 PROVE  /\ stage'[e] \in {"indexed", "stored", "bumping"}
                               => idx'[e] = count'[Home(e)]
                        /\ stage'[e] = "bumping" => bump'[e] = count'[Home(e)]
    BY <1>0 DEF ReadsFresh
  <2>3. CASE BumpCount(g)
    <3>1. \A f \in Envelopes : f # g /\ Home(f) = Home(g) => stage[f] \notin HandlerStages
      BY <2>1, <2>3 DEF OneAtATime, BumpCount, HandlerStages
    <3>2. bump' = bump /\ idx' = idx /\ stage'[g] = "delivered"
      BY <2>3 DEF BumpCount, TypeOK
    <3>3. CASE e = g
      BY <3>2, <3>3
    <3>4. CASE e # g /\ Home(e) = Home(g)
      BY <1>3, <3>1, <3>4, ConsumerEffect DEF HandlerStages
    <3>5. CASE Home(e) # Home(g)
      BY <1>3, <3>2, <3>5, ConsumerEffect, HomeType DEF ReadsFresh
    <3> QED
      BY <3>3, <3>4, <3>5
  <2>4. CASE ~BumpCount(g)
    BY <1>3, <2>4 DEF ReadsFresh, TypeOK, ConsumerStep, Dispatch, ClaimSlot, WriteClaimed,
       ReadIndex, StoreSample, ReadCount, TurnConsume, consuming
  <2> QED
    BY <2>3, <2>4
<1>4. port.consumer # "plain" => ReadsFresh'
  BY <1>0 DEF ReadsFresh
<1> QED
  BY <1>1, <1>2, <1>3, <1>4, StepShape

-----------------------------------------------------------------------------
(* What follows for the arrays *)

CountingInv ==
    /\ TypeOK
    /\ StagesOfKind
    /\ CountsAgree
    /\ OneAtATime
    /\ IndexTaken
    /\ ReadsFresh
    /\ Unpublished

LEMMA CountingInit == Init => CountingInv
<1> SUFFICES ASSUME Init PROVE CountingInv
  OBVIOUS
<1>1. TypeOK
  BY TypeInit
<1>2. \A e \in Envelopes : stage[e] = "pool"
  BY DEF Init
<1>3. CountsAgree
  <2>1. \A c \in Channels : Counted(c) = {} /\ c \in Producers
    BY <1>2, ProducersType DEF Counted, AtHome, Counts, Channels
  <2> QED
    BY <2>1, FS_EmptySet DEF CountsAgree, Init
<1> QED
  BY <1>1, <1>2, <1>3 DEF CountingInv, StagesOfKind, OneAtATime, IndexTaken, ReadsFresh,
     Unpublished, Counts, HandlerStages

LEMMA CountingNext == CountingInv /\ [Next]_vars => CountingInv'
BY TypeNext, KindNext, CountsNext, OneAtATimeNext, IndexNext, ReadsNext, UnpublishedNext
   DEF CountingInv

LEMMA CountingInvariant == Spec => []CountingInv
BY CountingInit, CountingNext, PTL DEF Spec

\* No envelope has an index past the end of its array, counted or not.
LEMMA BoundsFromCounting ==
  ASSUME CountingInv, NEW e \in Envelopes,
         stage[e] \in {"indexed", "stored", "bumping", "delivered"}
  PROVE  idx[e] < Slots(Home(e)) /\ <<Home(e), idx[e]>> \in Slot
<1>1. Home(e) \in Channels /\ Home(e) \in Producers
  BY HomeType
<1>2. Slots(Home(e)) \in Nat /\ Slots(Home(e)) <= Total
  BY <1>1, HomeFits, ProfileType DEF CountingInv, TypeOK
<1>3. idx[e] \in Nat /\ count[Home(e)] \in Nat
  BY <1>1 DEF CountingInv, TypeOK
<1>4. CASE stage[e] \in Counts
  <2>1. count[Home(e)] <= Slots(Home(e))
    <3>1. count[Home(e)] = Cardinality(Counted(Home(e)))
      BY <1>1 DEF CountingInv, CountsAgree
    <3>2. Cardinality(Counted(Home(e))) <= Cardinality(AtHome(Home(e)))
      BY CountedFinite, FS_Subset DEF Counted
    <3>3. /\ Cardinality(AtHome(Home(e))) <= Slots(Home(e))
          /\ Cardinality(AtHome(Home(e))) \in Nat
      BY <1>1, HomeFits, ProfileType, CountedFinite, FS_CardinalityType DEF CountingInv, TypeOK
    <3> QED
      BY <1>2, <1>3, <3>1, <3>2, <3>3
  <2>2. idx[e] < count[Home(e)]
    BY <1>4 DEF CountingInv, IndexTaken
  <2> QED
    BY <1>1, <1>2, <1>3, <2>1, <2>2, TotalAssumption DEF Slot, Producers, Index
<1>5. CASE stage[e] \notin Counts
  <2>1. count[Home(e)] < Slots(Home(e))
    BY <1>5, RoomToCount DEF CountingInv
  <2>2. port.consumer = "plain"
    BY <1>5, ProfileType DEF CountingInv, StagesOfKind, Counts, TypeOK
  <2>3. idx[e] = count[Home(e)]
    BY <1>5, <2>2 DEF CountingInv, ReadsFresh, Counts
  <2> QED
    BY <1>1, <1>2, <1>3, <2>1, <2>3, TotalAssumption DEF Slot, Producers, Index
<1> QED
  BY <1>4, <1>5

\* No consumer of any port ever indexes past its sample array, whatever the
\* number of envelopes and of producers, remainder included.
THEOREM IndicesInBounds == Spec => []SlotInBounds
<1>1. CountingInv => SlotInBounds
  BY BoundsFromCounting DEF SlotInBounds, HandlerStages
<1> QED
  BY <1>1, CountingInvariant, PTL

\* There is room on every channel for the envelope that is published next.
LEMMA RoomFromCounting ==
  ASSUME CountingInv
  PROVE  BackpressureNeverEngages
<1>1. SUFFICES ASSUME NEW p \in Producers, next[p] <= Share(p)
               PROVE  RoomFor(p)
  BY DEF BackpressureNeverEngages
<1> DEFINE e == <<p, next[p]>>
           c == Home(e)
<1>2. next[p] \in 1..Total
  BY <1>1, ShareType, TotalAssumption DEF CountingInv, TypeOK
<1>3. e \in Envelopes
  BY <1>1, <1>2 DEF Envelopes
<1>4. stage[e] = "pool"
  BY <1>1, <1>3, NextInPool DEF CountingInv
<1>5. /\ IsFiniteSet(AtHome(c)) /\ Slots(c) \in Nat
      /\ Cardinality(AtHome(c)) <= Slots(c)
  BY <1>1, <1>3, HomeType, HomeFits, ProfileType DEF CountingInv, TypeOK
<1>6. Waiting(c) \subseteq AtHome(c) /\ e \in AtHome(c) /\ e \notin Waiting(c)
  BY <1>3, <1>4 DEF Waiting, AtHome
<1> HIDE DEF c
<1>7. /\ IsFiniteSet(Waiting(c)) /\ Cardinality(Waiting(c)) <= Cardinality(AtHome(c))
      /\ Cardinality(AtHome(c)) = Cardinality(Waiting(c)) => AtHome(c) = Waiting(c)
  BY <1>5, <1>6, FS_Subset
<1>8. Cardinality(Waiting(c)) < Slots(c)
  <2>1. Cardinality(Waiting(c)) \in Nat /\ Cardinality(AtHome(c)) \in Nat
    BY <1>5, <1>7, FS_CardinalityType
  <2> QED
    BY <1>5, <1>6, <1>7, <2>1
<1>9. Slots(c) = Capacity(c)
  BY DEF Slots, Capacity
<1> QED
  BY <1>8, <1>9 DEF RoomFor, HasRoom, c

\* The channels never push back: publish always finds room, so no producer
\* drops an envelope or spins.
THEOREM RoomForEveryEnvelope == Spec => []BackpressureNeverEngages
BY RoomFromCounting, CountingInvariant, PTL

LEMMA StoredNext ==
  ASSUME CountingInv, NoSampleOverwritten, [Next]_vars
  PROVE  NoSampleOverwritten'
<1>0. port' = port /\ (\A e : Home(e)' = Home(e)) /\ TypeOK /\ StagesOfKind /\ ReadsFresh
  BY StepShape, PortFixed DEF CountingInv
<1>1. CASE UNCHANGED <<stage, idx, bump, count, slot, next>>
  BY <1>0, <1>1 DEF NoSampleOverwritten
<1>2. ASSUME NEW p \in Producers, Publish(p)
      PROVE  NoSampleOverwritten'
  BY <1>0, <1>2, PublishEffect DEF NoSampleOverwritten
<1>3. ASSUME NEW g \in Envelopes, ConsumerStep(g)
      PROVE  NoSampleOverwritten'
  <2> DEFINE Stored == {"stored", "bumping", "delivered"}
             at == <<Home(g), idx'[g]>>
  <2>1. SUFFICES ASSUME NEW e \in Envelopes, stage'[e] \in Stored
                 PROVE  slot'[<<Home(e), idx'[e]>>] = e
    BY <1>0 DEF NoSampleOverwritten
  <2>2. CASE WriteClaimed(g) \/ StoreSample(g) \/ TurnConsume(g)
    <3>1. slot' = [slot EXCEPT ![at] = g]
      BY <2>2, HomeType, <1>0 DEF WriteClaimed, StoreSample, TurnConsume, TypeOK
    <3>2. at \in Slot /\ \A f \in Envelopes : f # g /\ stage[f] \in Stored => <<Home(f), idx[f]>> # at
      \* the slot is inside the array, and no other stored sample is there
      <4>1. CASE WriteClaimed(g)
        <5>1. stage[g] = "indexed" /\ idx' = idx /\ port.consumer = "claim"
          BY <4>1 DEF WriteClaimed
        <5>2. \A f \in Envelopes : stage[f] \in Stored => stage[f] \in Counts
          BY <1>0, <5>1 DEF StagesOfKind, Counts
        <5> QED
          BY <5>1, <5>2, BoundsFromCounting DEF CountingInv, IndexTaken, Counts
      <4>2. CASE StoreSample(g)
        <5>1. stage[g] = "indexed" /\ idx' = idx /\ port.consumer = "plain"
          BY <4>2 DEF StoreSample
        <5>2. ~Shared /\ idx[g] = count[Home(g)]
          BY <1>0, <5>1, ProfileType DEF Shared, TypeOK, ReadsFresh
        <5>3. \A f \in Envelopes : f # g /\ Home(f) = Home(g) /\ stage[f] \in Stored
                  => stage[f] \in Counts
          BY <5>1, <5>2 DEF CountingInv, OneAtATime, HandlerStages, Counts
        <5>4. \A f \in Envelopes : f # g /\ Home(f) = Home(g) /\ stage[f] \in Stored
                  => idx[f] < idx[g] /\ idx[f] \in Nat /\ idx[g] \in Nat
          BY <1>0, <5>2, <5>3 DEF CountingInv, IndexTaken, TypeOK
        <5> QED
          BY <5>1, <5>4, BoundsFromCounting
      <4>3. CASE TurnConsume(g)
        <5>1. idx'[g] = count[Home(g)] /\ port.consumer = "turn" /\ stage[g] \notin Counts
          BY <1>0, <4>3, CountingEffect DEF CountingStep, TurnConsume
        <5>2. idx'[g] \in 0 .. (Total - 1)
          <6>1. count[Home(g)] < Slots(Home(g)) /\ count[Home(g)] \in Nat
            BY <1>0, <5>1, RoomToCount, HomeType DEF CountingInv, TypeOK
          <6>2. Slots(Home(g)) \in Nat /\ Slots(Home(g)) <= Total
            BY <1>0, HomeType, HomeFits, ProfileType DEF TypeOK
          <6> QED
            BY <5>1, <6>1, <6>2, TotalAssumption
        <5>3. \A f \in Envelopes : stage[f] \in Stored => stage[f] \in Counts
          BY <1>0, <5>1 DEF StagesOfKind, Counts
        <5>4. \A f \in Envelopes : Home(f) = Home(g) /\ stage[f] \in Stored
                  => idx[f] < idx'[g] /\ idx[f] \in Nat
          BY <1>0, <5>1, <5>3 DEF CountingInv, IndexTaken, TypeOK
        <5> QED
          BY <5>2, <5>4, HomeType DEF Slot, Producers, Index
      <4> QED
        BY <2>2, <4>1, <4>2, <4>3
    <3>3. CASE e = g
      BY <1>0, <3>1, <3>2, <3>3 DEF TypeOK
    <3>4. CASE e # g
      <4>1. stage[e] \in Stored /\ idx'[e] = idx[e] /\ <<Home(e), idx[e]>> # at
        BY <1>0, <1>3, <2>1, <3>2, <3>4, ConsumerEffect
      <4>2. slot'[<<Home(e), idx[e]>>] = slot[<<Home(e), idx[e]>>]
        <5> HIDE DEF at
        <5> QED
          BY <1>0, <3>1, <4>1, BoundsFromCounting DEF TypeOK
      <4> QED
        BY <4>1, <4>2 DEF NoSampleOverwritten
    <3> QED
      BY <3>3, <3>4
  <2>3. CASE ~(WriteClaimed(g) \/ StoreSample(g) \/ TurnConsume(g))
    <3>1. slot' = slot
      BY <1>3, <2>3 DEF ConsumerStep, Dispatch, ClaimSlot, ReadIndex, ReadCount, BumpCount,
         consuming
    <3>2. stage[e] \in Stored /\ idx'[e] = idx[e]
      BY <1>0, <1>3, <2>1, <2>3 DEF ConsumerStep, Dispatch, ClaimSlot, ReadIndex, ReadCount,
         BumpCount, consuming, TypeOK
    <3> QED
      BY <3>1, <3>2 DEF NoSampleOverwritten
  <2> QED
    BY <2>2, <2>3
<1> QED
  BY <1>0, <1>1, <1>2, <1>3, StepShape

\* A stored sample is never overwritten, whichever way the consumers of a
\* channel interleave.
THEOREM SamplesKept == Spec => []NoSampleOverwritten
<1>1. Init => NoSampleOverwritten
  BY DEF Init, NoSampleOverwritten
<1>2. CountingInv /\ NoSampleOverwritten /\ [Next]_vars => NoSampleOverwritten'
  BY StoredNext
<1> QED
  BY <1>1, <1>2, CountingInvariant, PTL DEF Spec

-----------------------------------------------------------------------------
(* After a full drain *)

Joined ==
    main \in {"draining", "polling", "reported", "crashed"} =>
        \A p \in Producers : producer[p] = "finished"

DrainLeavesNothing ==
    drained => /\ main \in {"polling", "reported", "crashed"}
               /\ \A e \in Envelopes : stage[e] \notin HandlerStages \cup {"queued"}

QuietInv == TypeOK /\ Joined /\ DrainLeavesNothing

\* With every producer finished and nothing queued or running, no step moves
\* an envelope.
LEMMA QuietStep ==
  ASSUME QuietInv, drained, [Next]_vars
  PROVE  UNCHANGED <<stage, idx, bump, count, slot, next>>
<1>1. \A p \in Producers : ~Publish(p)
  BY DEF QuietInv, Joined, DrainLeavesNothing, Publish
<1>2. \A e \in Envelopes : ~ConsumerStep(e)
  BY ConsumerEffect DEF QuietInv, DrainLeavesNothing
<1> QED
  BY <1>1, <1>2, StepShape DEF QuietInv

LEMMA JoinedNext ==
  ASSUME QuietInv, [Next]_vars
  PROVE  Joined'
<1>1. CASE UNCHANGED <<main, producer>>
  BY <1>1 DEF QuietInv, Joined
<1>2. ASSUME NEW p \in Producers, ProducerStep(p)
      PROVE  Joined'
  BY <1>2 DEF QuietInv, TypeOK, Joined, ProducerStep, StartProducer, Publish, FinishProducer,
     trial
<1>3. ASSUME NEW e \in Envelopes, ConsumerStep(e)
      PROVE  Joined'
  BY <1>1, <1>3 DEF ConsumerStep, Dispatch, ClaimSlot, WriteClaimed, ReadIndex, StoreSample,
     ReadCount, BumpCount, TurnConsume, trial, producing
<1>4. CASE MainStep
  BY <1>4 DEF QuietInv, Joined, MainStep, JoinProducers, ShutdownDrained, ShutdownTimesOut,
     PollCount, Polling, Polled, CopyOverruns, StatsRaise, TeardownFaults, ReportRow, producing
<1> QED
  BY <1>1, <1>2, <1>3, <1>4 DEF Next, Finished, vars, trial, producing

LEMMA DrainNext ==
  ASSUME QuietInv, [Next]_vars
  PROVE  DrainLeavesNothing'
<1>1. CASE ShutdownDrained
  <2>1. IsFiniteSet(Queued) /\ IsFiniteSet(Busy)
    BY EnvelopesFinite, FS_Subset DEF Queued, Busy
  <2>2. Queued = {} /\ Busy = {}
    BY <1>1, <2>1, FS_EmptySet DEF ShutdownDrained, Idle
  <2> QED
    BY <1>1, <2>2 DEF ShutdownDrained, DrainLeavesNothing, Queued, Busy
<1>2. CASE ~ShutdownDrained
  <2>1. drained' => drained /\ (main \in {"polling", "reported", "crashed"} => main' \in {"polling", "reported", "crashed"})
    BY <1>2 DEF QuietInv, TypeOK, DrainLeavesNothing, Next, Finished, vars, ProducerStep,
       StartProducer, Publish, FinishProducer, ConsumerStep, Dispatch, ClaimSlot,
       WriteClaimed, ReadIndex, StoreSample, ReadCount, BumpCount, TurnConsume, MainStep,
       JoinProducers, ShutdownTimesOut, PollCount, CopyOverruns, StatsRaise, TeardownFaults,
       ReportRow, trial, producing
  <2>2. SUFFICES ASSUME drained'
                 PROVE  /\ main' \in {"polling", "reported", "crashed"}
                        /\ \A e \in Envelopes : stage'[e] \notin HandlerStages \cup {"queued"}
    BY DEF DrainLeavesNothing
  <2>3. UNCHANGED stage
    BY <2>1, <2>2, QuietStep
  <2> QED
    BY <2>1, <2>2, <2>3 DEF QuietInv, DrainLeavesNothing
<1> QED
  BY <1>1, <1>2

LEMMA QuietInvariant == Spec => []QuietInv
<1>1. Init => QuietInv
  BY TypeInit DEF Init, QuietInv, Joined, DrainLeavesNothing
<1>2. QuietInv /\ [Next]_vars => QuietInv'
  BY TypeNext, JoinedNext, DrainNext DEF QuietInv
<1> QED
  BY <1>1, <1>2, PTL DEF Spec

\* Once the shutdown has reported a full drain, the counters and the arrays
\* the main thread reads without a lock do not move.
THEOREM QuietAfterDrain == Spec => QuietOnceDrained
<1>1. QuietInv /\ [Next]_vars => [drained => UNCHANGED <<stage, count, slot>>]_vars
  BY QuietStep
<1> QED
  BY <1>1, QuietInvariant, PTL DEF Spec, QuietOnceDrained
=============================================================================
