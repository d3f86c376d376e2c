-------------------------- MODULE FirehoseRowProofs --------------------------
(***************************************************************************)
(* What the row of a drained firehose trial says, for every Total, every P *)
(* and every set of profiles.                                              *)
(*                                                                         *)
(* The argument.  Publish always finds room, so once the producers are     *)
(* finished every envelope has been accepted, and after a full drain every *)
(* one has been counted.  A channel's counter is then the number of its    *)
(* envelopes, which is exactly Slots(c): Position maps the envelopes onto  *)
(* 1..Total.  So an accumulator holds, before the read of channel c, the   *)
(* number of envelopes in the channels before c, and after the last one    *)
(* Total.  With as many indices taken as an array has slots, and no two    *)
(* the same, every slot has a sample.                                      *)
(***************************************************************************)
EXTENDS FirehoseProofs

-----------------------------------------------------------------------------
(* The exact number of envelopes of a channel *)

LEMMA Quotients ==
  ASSUME NEW a \in Nat, NEW b \in Nat \ {0}
  PROVE  /\ a \div b \in Nat /\ a % b \in 0 .. (b - 1)
         /\ a = (a \div b) * b + (a % b)
OBVIOUS

\* Envelopes of the channels before c.
Before(c) == IF c = 0 THEN 0 ELSE Share(0) + (c - 1) * (Total \div P)

LEMMA BeforeNext ==
  ASSUME NEW c \in Channels, port.layout \in {"shared", "chan"}
  PROVE  /\ Before(c) \in Nat /\ Slots(c) \in Nat
         /\ c + 1 \in Channels => Before(c + 1) = Before(c) + Slots(c)
         /\ c + 1 \notin Channels => Before(c) + Slots(c) = Total
         /\ Before(c) + Slots(c) <= Total
<1> DEFINE q == Total \div P
<1>1. q \in Nat /\ q * P <= Total /\ P \in Nat \ {0} /\ Total \in Nat
  BY DivisionFits, PAssumption, TotalAssumption
<1>2. Share(0) \in Nat /\ Share(0) = q + (Total - q * P)
  BY ShareType, ProducersType DEF Share, Remainder
<1>3. CASE Shared
  BY <1>1, <1>3 DEF Before, Slots, Channels
<1>4. CASE ~Shared
  <2>1. c \in 0 .. (P - 1) /\ Channels = 0 .. (P - 1) /\ Slots(c) = Share(c)
    BY <1>4 DEF Channels, Producers, Slots
  <2>2. c # 0 => Share(c) = q
    BY <1>1, <2>1 DEF Share
  <2>3. Before(c + 1) = Share(0) + c * q
    BY <2>1 DEF Before
  <2>4. c # 0 => Before(c) = Share(0) + (c - 1) * q
    BY DEF Before
  <2>5. c = 0 => Before(c) = 0
    BY DEF Before
  <2>6. (c - 1) * q = c * q - q /\ c * q \in Nat /\ q * P = P * q
    BY <1>1, <2>1
  <2>7. c # 0 => (c - 1) * q \in Nat
    BY <1>1, <2>1
  <2>8. c <= P - 1 /\ (c # P - 1 => c + 1 <= P - 1)
    BY <1>1, <2>1
  <2>9. c * q <= (P - 1) * q /\ (P - 1) * q = q * P - q
    BY <1>1, <2>1, ProductMonotone
  <2>10. c = P - 1 => c * q = q * P - q
    BY <2>9
  <2>11. c + 1 \in Channels <=> c # P - 1
    BY <1>1, <2>1
  <2> HIDE DEF q
  <2>12. Before(c) + Slots(c) = Share(0) + c * q
    <3>1. CASE c = 0
      <4>1. c * q = 0
        BY <1>1, <3>1
      <4> QED
        BY <1>2, <2>1, <2>5, <3>1, <4>1
    <3>2. CASE c # 0
      BY <1>1, <1>2, <2>1, <2>2, <2>4, <2>6, <2>7, <3>2
    <3> QED
      BY <3>1, <3>2
  <2>13. Before(c) \in Nat /\ Slots(c) \in Nat
    BY <1>1, <1>2, <2>1, <2>2, <2>4, <2>5, <2>7
  <2>14. Before(c) + Slots(c) <= Total
    BY <1>1, <1>2, <2>6, <2>9, <2>12
  <2>15. c = P - 1 => Before(c) + Slots(c) = Total
    BY <1>1, <1>2, <2>6, <2>10, <2>12
  <2> QED
    BY <2>3, <2>11, <2>12, <2>13, <2>14, <2>15
<1> QED
  BY <1>3, <1>4

\* Position reaches all of 1..Total.
LEMMA PositionOnto ==
  ASSUME NEW n \in 1 .. Total
  PROVE  \E e \in Envelopes : Position(e) = n
<1> DEFINE q == Total \div P
           m == n - Share(0) - 1
<1>1. q \in Nat /\ q * P <= Total /\ P \in Nat \ {0} /\ Total \in Nat /\ P <= Total
  BY DivisionFits, PAssumption, TotalAssumption
<1>2. Share(0) \in Nat /\ Share(0) = q + (Total - q * P) /\ Share(0) <= Total
  BY ShareType, ProducersType DEF Share, Remainder
<1>3. q # 0
  BY <1>1
<1>4. CASE n <= Share(0)
  <2>1. <<0, n>> \in Envelopes
    BY <1>4, ProducersType DEF Envelopes
  <2>2. Position(<<0, n>>) = n
    BY DEF Position
  <2> QED
    BY <2>1, <2>2
<1>5. CASE n > Share(0)
  <2> DEFINE a == m \div q
             b == m % q
  <2>1. m \in Nat /\ m < (P - 1) * q
    <3>1. (P - 1) * q = q * P - q
      BY <1>1
    <3>2. q * P \in Nat
      BY <1>1
    <3> QED
      BY <1>1, <1>2, <1>5, <3>1, <3>2
  <2>2. a \in Nat /\ b \in 0 .. (q - 1) /\ m = a * q + b
    BY <1>1, <1>3, <2>1, Quotients
  <2>m. n = Share(0) + 1 + m
    BY <1>2
  <2>q. q = Total \div P
    OBVIOUS
  <2> HIDE DEF a, b, q, m
  <2>3. a < P - 1
    <3>1. SUFFICES ASSUME P - 1 <= a PROVE FALSE
      BY <1>1, <2>2
    <3>2. (P - 1) * q <= a * q
      BY <1>1, <2>2, <3>1, ProductMonotone
    <3>3. a * q \in Nat /\ (P - 1) * q \in Nat
      BY <1>1, <2>2
    <3> QED
      BY <2>1, <2>2, <3>2, <3>3
  <2> DEFINE e == <<a + 1, b + 1>>
  <2>4. Share(a + 1) = q
    BY <1>1, <2>2, <2>q DEF Share
  <2>5. e \in Envelopes
    <3>1. a + 1 \in Producers
      BY <1>1, <2>2, <2>3 DEF Producers
    <3>2. b + 1 \in 1 .. Total /\ b + 1 <= q
      <4>1. q <= q * P
        BY <1>1
      <4> QED
        BY <1>1, <2>2, <4>1
    <3> QED
      BY <2>4, <3>1, <3>2 DEF Envelopes
  <2>6. Position(e) = n
    <3>1. Position(e) = Share(0) + a * q + (b + 1)
      BY <2>2, <2>q DEF Position
    <3>2. a * q \in Nat
      BY <1>1, <2>2
    <3> QED
      BY <1>2, <2>2, <2>m, <3>1, <3>2
  <2> QED
    BY <2>5, <2>6
<1> QED
  BY <1>2, <1>4, <1>5

LEMMA AllEnvelopes == Cardinality(Envelopes) = Total
<1> DEFINE f == [e \in Envelopes |-> Position(e)]
<1>1. f \in Injection(Envelopes, 1 .. Total)
  BY PositionBounds, PositionInjective DEF Injection, IsInjective
<1>2. f \in Surjection(Envelopes, 1 .. Total)
  BY PositionBounds, PositionOnto DEF Surjection
<1>3. IsFiniteSet(1 .. Total) /\ Cardinality(1 .. Total) = Total
  BY FS_Interval, TotalAssumption
<1> QED
  BY <1>1, <1>2, <1>3, FS_Injection

LEMMA HomeExact ==
  ASSUME NEW c \in Channels, port.layout \in {"shared", "chan"}
  PROVE  Cardinality(AtHome(c)) = Slots(c)
<1>1. CASE Shared
  <2>1. AtHome(c) = Envelopes
    BY <1>1 DEF AtHome, Home, Channels
  <2> QED
    BY <1>1, <2>1, AllEnvelopes DEF Slots
<1>2. CASE ~Shared
  <2>1. c \in Producers /\ Share(c) \in Nat /\ Share(c) <= Total
    BY <1>2, ShareType DEF Channels
  <2> DEFINE f == [k \in 1 .. Share(c) |-> <<c, k>>]
  <2>2. f \in Injection(1 .. Share(c), AtHome(c))
    <3>1. \A k \in 1 .. Share(c) : <<c, k>> \in Envelopes
      BY <2>1, TotalAssumption DEF Envelopes
    <3>2. \A k \in 1 .. Share(c) : <<c, k>> \in AtHome(c)
      BY <1>2, <3>1 DEF AtHome, Home
    <3> QED
      BY <3>2 DEF Injection, IsInjective
  <2>3. IsFiniteSet(AtHome(c)) /\ Cardinality(AtHome(c)) <= Slots(c) /\ Slots(c) = Share(c)
    BY <1>2, HomeFits DEF Slots
  <2>4. Cardinality(1 .. Share(c)) = Share(c)
    BY <2>1, FS_Interval
  <2>5. Cardinality(1 .. Share(c)) <= Cardinality(AtHome(c))
    BY <2>2, <2>3, FS_Injection
  <2>6. Cardinality(AtHome(c)) \in Nat
    BY <2>3, FS_CardinalityType
  <2> QED
    BY <2>1, <2>3, <2>4, <2>5, <2>6
<1> QED
  BY <1>1, <1>2

-----------------------------------------------------------------------------
(* Everything is accepted, and after a drain counted *)

AllAccepted ==
    /\ \A e \in Envelopes : e[2] < next[e[1]] => stage[e] \notin {"pool", "refused"}
    /\ \A p \in Producers : producer[p] = "finished" => next[p] > Share(p)

LEMMA AcceptedInit == Init => AllAccepted
<1> SUFFICES ASSUME Init PROVE AllAccepted
  OBVIOUS
<1>1. \A e \in Envelopes : ~(e[2] < next[e[1]])
  BY EnvelopeType DEF Init
<1> QED
  BY <1>1 DEF Init, AllAccepted

LEMMA AcceptedNext ==
  ASSUME CountingInv, AllAccepted, [Next]_vars
  PROVE  AllAccepted'
<1>0. TypeOK
  BY DEF CountingInv
<1>1. ASSUME NEW p \in Producers, Publish(p)
      PROVE  AllAccepted'
  <2>1. RoomFor(p)
    BY <1>1, RoomFromCounting DEF BackpressureNeverEngages, Publish
  <2>2. stage' = [stage EXCEPT ![<<p, next[p]>>] = "queued"] /\ producer' = producer
    BY <1>1, <2>1 DEF Publish
  <2>3. next' = [next EXCEPT ![p] = next[p] + 1] /\ next[p] \in Nat
    BY <1>0, <1>1 DEF Publish, TypeOK
  <2>4. ASSUME NEW e \in Envelopes, e[2] < next'[e[1]]
        PROVE  stage'[e] \notin {"pool", "refused"}
    <3>1. CASE e = <<p, next[p]>>
      BY <1>0, <2>2, <3>1 DEF TypeOK
    <3>2. CASE e # <<p, next[p]>>
      <4>1. e[2] < next[e[1]]
        BY <1>0, <2>3, <2>4, <3>2, EnvelopeType DEF TypeOK
      <4> QED
        BY <1>0, <2>2, <3>2, <4>1 DEF TypeOK, AllAccepted
    <3> QED
      BY <3>1, <3>2
  <2>5. \A q \in Producers : producer'[q] = "finished" => next'[q] > Share(q)
    BY <1>0, <1>1, <2>2, <2>3, ShareType DEF Publish, AllAccepted, TypeOK
  <2> QED
    BY <2>4, <2>5 DEF AllAccepted
<1>2. ASSUME NEW p \in Producers, StartProducer(p) \/ FinishProducer(p)
      PROVE  AllAccepted'
  <2>1. UNCHANGED <<stage, next>>
    BY <1>2 DEF StartProducer, FinishProducer
  <2>2. \A q \in Producers : producer'[q] = "finished" => next[q] > Share(q)
    BY <1>0, <1>2 DEF StartProducer, FinishProducer, AllAccepted, TypeOK
  <2> QED
    BY <2>1, <2>2 DEF AllAccepted
<1>3. ASSUME NEW g \in Envelopes, ConsumerStep(g)
      PROVE  AllAccepted'
  <2>1. producer' = producer
    BY <1>3 DEF ConsumerStep, Dispatch, ClaimSlot, WriteClaimed, ReadIndex, StoreSample,
       ReadCount, BumpCount, TurnConsume, producing
  <2> QED
    BY <1>0, <1>3, <2>1, ConsumerEffect DEF AllAccepted, HandlerStages
<1>4. CASE MainStep \/ UNCHANGED vars
  <2>1. UNCHANGED <<stage, next, producer>>
    BY <1>4 DEF MainStep, JoinProducers, ShutdownDrained, ShutdownTimesOut, PollCount,
       CopyOverruns, StatsRaise, TeardownFaults, ReportRow, producing, vars
  <2> QED
    BY <2>1 DEF AllAccepted
<1> QED
  BY <1>1, <1>2, <1>3, <1>4 DEF Next, ProducerStep, Finished

LEMMA DrainedDelivers ==
  ASSUME QuietInv, AllAccepted, drained
  PROVE  \A e \in Envelopes : stage[e] = "delivered"
<1> SUFFICES ASSUME NEW e \in Envelopes PROVE stage[e] = "delivered"
  OBVIOUS
<1>1. e[1] \in Producers /\ e[2] <= Share(e[1]) /\ e[2] \in Nat /\ Share(e[1]) \in Nat
  BY EnvelopeType, ShareType
<1>2. next[e[1]] \in Nat /\ next[e[1]] > Share(e[1])
  BY <1>1 DEF QuietInv, TypeOK, DrainLeavesNothing, Joined, AllAccepted
<1>3. stage[e] \notin {"pool", "refused", "queued"} \cup HandlerStages
  BY <1>1, <1>2 DEF AllAccepted, QuietInv, DrainLeavesNothing
<1> QED
  BY <1>3 DEF QuietInv, TypeOK, Stages

\* After a drain a channel's counter is the length of its array.
LEMMA DrainedCounts ==
  ASSUME CountingInv, QuietInv, AllAccepted, drained, NEW c \in Channels
  PROVE  count[c] = Slots(c)
<1>1. Counted(c) = AtHome(c)
  BY DrainedDelivers DEF Counted, AtHome, Counts
<1> QED
  BY <1>1, HomeExact, ProfileType DEF CountingInv, CountsAgree, TypeOK

-----------------------------------------------------------------------------
(* What the accumulators hold *)

\* What an accumulator that is read at s holds before the read `at`.
SumBefore(at, s) ==
    IF at[1] < s[1] THEN 0
    ELSE IF at[1] > s[1] THEN Total
    ELSE Before(at[2]) + (IF at[3] > s[2] THEN Slots(at[2]) ELSE 0)

\* The place of a read among the loops of the profile.
Places == {s \in Nat \X Nat : s[1] \in DOMAIN port.polls /\ s[2] \in DOMAIN port.polls[s[1]]}

LEMMA ReadsArePlaces ==
  ASSUME TypeOK, NEW field \in Accumulators
  PROVE  /\ Reads(port, field) \subseteq Places
         /\ \A s \in Places : s \in Reads(port, field) <=> field \in port.polls[s[1]][s[2]]
<1>1. port.polls \in Seq(Seq(SUBSET Accumulators))
  BY ProfileType DEF TypeOK
<1>2. \A l \in DOMAIN port.polls : DOMAIN port.polls[l] \subseteq Nat
  BY <1>1
<1>3. DOMAIN port.polls \subseteq Nat
  BY <1>1
<1>4. ASSUME NEW s \in Reads(port, field)
      PROVE  s \in Places
  <2>1. PICK l \in DOMAIN port.polls :
            s \in {<<l, k>> : k \in {j \in DOMAIN port.polls[l] : field \in port.polls[l][j]}}
    BY <1>4 DEF Reads
  <2>2. PICK k \in DOMAIN port.polls[l] : s = <<l, k>>
    BY <2>1
  <2> QED
    BY <1>2, <1>3, <2>2 DEF Places
<1>5. ASSUME NEW s \in Places
      PROVE  s \in Reads(port, field) <=> field \in port.polls[s[1]][s[2]]
  <2>1. s = <<s[1], s[2]>> /\ s[1] \in DOMAIN port.polls /\ s[2] \in DOMAIN port.polls[s[1]]
    BY DEF Places
  <2>2. s \in Reads(port, field) <=>
            \E l \in DOMAIN port.polls : \E k \in DOMAIN port.polls[l] :
                s = <<l, k>> /\ field \in port.polls[l][k]
    BY DEF Reads
  <2> QED
    BY <2>1, <2>2
<1> QED
  BY <1>4, <1>5

PollPlace ==
    /\ poll[2] \in Channels
    /\ poll[1] \in DOMAIN port.polls => poll[3] \in DOMAIN port.polls[poll[1]]

LEMMA AfterPlace ==
  ASSUME TypeOK, PollPlace, poll[1] <= Len(port.polls)
  PROVE  /\ poll[1] \in DOMAIN port.polls /\ poll[3] \in DOMAIN port.polls[poll[1]]
         /\ After(poll)[2] \in Channels
         /\ After(poll)[1] \in DOMAIN port.polls =>
                After(poll)[3] \in DOMAIN port.polls[After(poll)[1]]
<1>1. port.polls \in Seq(Seq(SUBSET Accumulators))
  BY ProfileType DEF TypeOK
<1>2. poll[1] \in Nat \ {0} /\ poll[3] \in Nat \ {0} /\ poll[2] \in Nat
  BY ProducersType DEF TypeOK
<1>3. poll[1] \in DOMAIN port.polls
  BY <1>1, <1>2
<1>4. \A l \in DOMAIN port.polls : port.polls[l] \in Seq(SUBSET Accumulators) /\ port.polls[l] # << >>
  BY <1>1, PortsAssumption DEF TypeOK
<1>5. \A l \in DOMAIN port.polls : 1 \in DOMAIN port.polls[l]
  BY <1>4
<1>6. 0 \in Channels
  BY ProducersType DEF Channels
<1>7. CASE poll[3] < Len(port.polls[poll[1]])
  BY <1>2, <1>3, <1>4, <1>7 DEF After, PollPlace
<1>8. CASE ~(poll[3] < Len(port.polls[poll[1]])) /\ poll[2] + 1 \in Channels
  BY <1>3, <1>5, <1>8 DEF After, PollPlace
<1>9. CASE ~(poll[3] < Len(port.polls[poll[1]])) /\ poll[2] + 1 \notin Channels
  BY <1>3, <1>5, <1>6, <1>9 DEF After, PollPlace
<1> QED
  BY <1>7, <1>8, <1>9

\* One read moves an accumulator on if the read is its own.
LEMMA SumAfter ==
  ASSUME TypeOK, PollPlace, poll[1] <= Len(port.polls), NEW s \in Places
  PROVE  SumBefore(After(poll), s) = SumBefore(poll, s) +
             (IF s = <<poll[1], poll[3]>> THEN Slots(poll[2]) ELSE 0)
<1> DEFINE l == poll[1]
           c == poll[2]
           k == poll[3]
           n == Len(port.polls[l])
<1>p. poll \in (Nat \ {0}) \X Producers \X (Nat \ {0})
  BY DEF TypeOK
<1>1. l \in Nat \ {0} /\ k \in Nat \ {0} /\ c \in Nat /\ c \in Channels
  BY <1>p, ProducersType DEF PollPlace
<1>2. port.polls \in Seq(Seq(SUBSET Accumulators))
  BY ProfileType DEF TypeOK
<1>3. l \in DOMAIN port.polls /\ k \in 1 .. n /\ n \in Nat
  BY <1>2, AfterPlace
<1>4. /\ s[1] \in Nat /\ s[2] \in Nat /\ s = <<s[1], s[2]>>
      /\ s[1] = l => s[2] \in 1 .. n
  BY <1>2 DEF Places
<1>5. /\ Before(c) \in Nat /\ Slots(c) \in Nat
      /\ c + 1 \in Channels => Before(c + 1) = Before(c) + Slots(c)
      /\ c + 1 \notin Channels => Before(c) + Slots(c) = Total
  BY <1>1, BeforeNext, ProfileType DEF TypeOK
<1>6. Before(0) = 0
  BY DEF Before
<1>7. Total \in Nat
  BY TotalAssumption
<1>a. s = <<l, k>> <=> s[1] = l /\ s[2] = k
  BY <1>4
<1>b. SumBefore(poll, s) = IF l < s[1] THEN 0 ELSE IF l > s[1] THEN Total
                           ELSE Before(c) + (IF k > s[2] THEN Slots(c) ELSE 0)
  BY DEF SumBefore
<1>8. CASE k < n
  <2>1. After(poll) = <<l, c, k + 1>>
    BY <1>8 DEF After
  <2>2. SumBefore(After(poll), s) = IF l < s[1] THEN 0 ELSE IF l > s[1] THEN Total
                           ELSE Before(c) + (IF k + 1 > s[2] THEN Slots(c) ELSE 0)
    BY <2>1 DEF SumBefore
  <2> HIDE DEF l, c, k, n
  <2> QED
    BY <1>1, <1>3, <1>4, <1>5, <1>7, <1>a, <1>b, <2>2 DEF l, c, k
<1>9. CASE ~(k < n) /\ c + 1 \in Channels
  <2>1. After(poll) = <<l, c + 1, 1>>
    BY <1>9 DEF After
  <2>2. SumBefore(After(poll), s) = IF l < s[1] THEN 0 ELSE IF l > s[1] THEN Total
                           ELSE Before(c + 1) + (IF 1 > s[2] THEN Slots(c + 1) ELSE 0)
    BY <2>1 DEF SumBefore
  <2> HIDE DEF l, c, k, n
  <2> QED
    BY <1>1, <1>3, <1>4, <1>5, <1>7, <1>9, <1>a, <1>b, <2>2 DEF l, c, k
<1>10. CASE ~(k < n) /\ c + 1 \notin Channels
  <2>1. After(poll) = <<l + 1, 0, 1>>
    BY <1>10 DEF After
  <2>2. SumBefore(After(poll), s) = IF l + 1 < s[1] THEN 0 ELSE IF l + 1 > s[1] THEN Total
                           ELSE Before(0) + (IF 1 > s[2] THEN Slots(0) ELSE 0)
    BY <2>1 DEF SumBefore
  <2>3. s[2] >= 1
    BY <1>2, <1>4 DEF Places
  <2> HIDE DEF l, c, k, n
  <2> QED
    BY <1>1, <1>3, <1>4, <1>5, <1>6, <1>7, <1>10, <1>a, <1>b, <2>2, <2>3 DEF l, c, k
<1> QED
  BY <1>3, <1>8, <1>9, <1>10

-----------------------------------------------------------------------------
(* The reads of a drained trial *)

Fields == {"delivered", "samples", "pos"}

ReadAt(field, s) == s \in Places /\ Reads(port, field) = {s}

BeforePolling ==
    main \in {"spawning", "joining", "draining"} =>
        poll = <<1, 0, 1>> /\ acc = [delivered |-> 0, samples |-> 0, pos |-> 0]

SumsExact ==
    drained => \A field \in Fields, s \in Places :
                   ReadAt(field, s) => acc[field] = SumBefore(poll, s)

RowExact ==
    /\ main = "crashed" => ~drained
    /\ main = "reported" /\ drained => row.delivered = Total /\ row.samples = Total

PollInv == PollPlace /\ BeforePolling /\ SumsExact /\ RowExact

RowInv == CountingInv /\ QuietInv /\ AllAccepted /\ PollInv

LEMMA FieldsRead ==
  ASSUME TypeOK
  PROVE  /\ \E s \in Places : ReadAt("delivered", s)
         /\ \E s \in Places : ReadAt("samples", s)
         /\ \A c \in Reads(port, "copy") :
               \E s, t \in Places : /\ ReadAt("samples", s) /\ ReadAt("pos", t)
                                    /\ s[1] < c[1] /\ t[1] = c[1] /\ c[2] <= t[2]
<1>1. \A field \in Accumulators : Reads(port, field) \subseteq Places
  BY ReadsArePlaces
<1>2. port \in Ports
  BY DEF TypeOK
<1>3. \E s \in Reads(port, "delivered") : Reads(port, "delivered") = {s}
  BY <1>2, PollsAssumption
<1>4. \E s \in Reads(port, "samples") : Reads(port, "samples") = {s}
  BY <1>2, PollsAssumption
<1>5. ASSUME NEW c \in Reads(port, "copy")
      PROVE  \E s, t \in Places : /\ ReadAt("samples", s) /\ ReadAt("pos", t)
                                  /\ s[1] < c[1] /\ t[1] = c[1] /\ c[2] <= t[2]
  <2>1. \A s \in Reads(port, "samples") : s[1] < c[1]
    BY <1>2, PollsAssumption
  <2>2. \E t \in Reads(port, "pos") : Reads(port, "pos") = {t} /\ t[1] = c[1] /\ c[2] <= t[2]
    BY <1>2, PollsAssumption
  <2> QED
    BY <1>1, <1>4, <2>1, <2>2 DEF ReadAt, Accumulators
<1> QED
  BY <1>1, <1>3, <1>4, <1>5 DEF ReadAt, Accumulators

LEMMA PollInit == Init => PollInv
<1> SUFFICES ASSUME Init PROVE PollInv
  OBVIOUS
<1>1. 0 \in Channels
  BY ProducersType DEF Channels
<1>2. port.polls \in Seq(Seq(SUBSET Accumulators))
      /\ \A l \in DOMAIN port.polls : port.polls[l] # << >>
  BY ProfileType, PortsAssumption DEF Init
<1>3. \A l \in DOMAIN port.polls : 1 \in DOMAIN port.polls[l]
  BY <1>2
<1> QED
  BY <1>1, <1>3 DEF Init, PollInv, PollPlace, BeforePolling, SumsExact, RowExact

\* Before the first read every accumulator holds nothing.
LEMMA SumAtStart ==
  ASSUME TypeOK, NEW s \in Places
  PROVE  SumBefore(<<1, 0, 1>>, s) = 0
<1>1. port.polls \in Seq(Seq(SUBSET Accumulators))
  BY ProfileType DEF TypeOK
<1>2. s[1] \in Nat /\ s[2] \in Nat /\ s[1] >= 1 /\ s[2] >= 1
  BY <1>1 DEF Places
<1> QED
  BY <1>2 DEF SumBefore, Before

\* After the last read every accumulator holds Total.
LEMMA SumAtEnd ==
  ASSUME TypeOK, NEW s \in Places, poll[1] > Len(port.polls)
  PROVE  SumBefore(poll, s) = Total
<1>1. port.polls \in Seq(Seq(SUBSET Accumulators))
  BY ProfileType DEF TypeOK
<1>2. s[1] \in DOMAIN port.polls
  BY DEF Places
<1>3. s[1] \in Nat /\ s[1] <= Len(port.polls) /\ Len(port.polls) \in Nat
  BY <1>1, <1>2
<1>4. poll[1] \in Nat
  BY DEF TypeOK
<1>5. s[1] < poll[1] /\ ~(poll[1] < s[1]) /\ ~(s[1] > poll[1])
  BY <1>3, <1>4
<1> QED
  BY <1>5 DEF SumBefore

LEMMA DrainedReads ==
  ASSUME TypeOK, RowInv, drained, Polling
  PROVE  /\ ~Overruns
         /\ PollCount => SumsExact'
<1>1. /\ poll[1] \in DOMAIN port.polls /\ poll[3] \in DOMAIN port.polls[poll[1]]
      /\ poll[2] \in Channels
  BY AfterPlace DEF RowInv, PollInv, Polling, PollPlace
<1>2. count[poll[2]] = Slots(poll[2])
  BY <1>1, DrainedCounts DEF RowInv
<1>3. <<poll[1], poll[3]>> \in Places
  BY <1>1 DEF Places, TypeOK
<1>4. \A field \in Accumulators :
          <<poll[1], poll[3]>> \in Reads(port, field) <=> field \in Into
  BY <1>3, ReadsArePlaces DEF Into
<1>5. /\ Before(poll[2]) \in Nat /\ Slots(poll[2]) \in Nat
      /\ Before(poll[2]) + Slots(poll[2]) <= Total
  BY <1>1, BeforeNext, ProfileType DEF TypeOK
<1>6. ASSUME "copy" \in Into
      PROVE  acc.pos + count[poll[2]] <= acc.samples
  <2>1. PICK s \in Places, t \in Places :
            /\ ReadAt("samples", s) /\ ReadAt("pos", t)
            /\ s[1] < poll[1] /\ t[1] = poll[1] /\ poll[3] <= t[2]
    BY <1>4, <1>6, FieldsRead DEF Accumulators
  <2>2. s[1] \in Nat /\ t[1] \in Nat /\ t[2] \in Nat /\ poll[1] \in Nat /\ poll[3] \in Nat
    BY DEF Places, TypeOK
  <2>3. acc.samples = Total
    BY <2>1, <2>2 DEF RowInv, PollInv, SumsExact, SumBefore, Fields
  <2>4. acc.pos = Before(poll[2])
    <3>1. acc.pos = SumBefore(poll, t)
      BY <2>1 DEF RowInv, PollInv, SumsExact, Fields
    <3> QED
      BY <1>5, <2>1, <2>2, <3>1 DEF SumBefore
  <2> QED
    BY <1>2, <1>5, <2>3, <2>4
<1>7. ~Overruns
  <2>1. acc.pos \in Nat /\ acc.samples \in Nat
    BY DEF TypeOK
  <2>2. acc.pos + count[poll[2]] \in Nat
    BY <1>2, <1>5, <2>1
  <2> QED
    BY <1>6, <2>1, <2>2 DEF Overruns
<1>8. ASSUME PollCount
      PROVE  SumsExact'
  <2>1. UNCHANGED <<port, drained>> /\ poll' = After(poll)
    BY <1>8 DEF PollCount
  <2>2. SUFFICES ASSUME NEW field \in Fields, NEW s \in Places, ReadAt(field, s)
                 PROVE  acc'[field] = SumBefore(After(poll), s)
    <3>1. Places' = Places /\ \A f, t : ReadAt(f, t)' <=> ReadAt(f, t)
      BY <2>1 DEF Places, ReadAt, Reads
    <3>2. \A t : SumBefore(poll, t)' = SumBefore(After(poll), t)
      BY <2>1, PortFixed DEF SumBefore
    <3> QED
      BY <2>1, <3>1, <3>2 DEF SumsExact
  <2>3. acc'[field] = Added(field)
    BY <1>8, <2>2 DEF PollCount, Fields
  <2>4. acc[field] = SumBefore(poll, s)
    BY <2>2 DEF RowInv, PollInv, SumsExact
  <2>5. field \in Into <=> s = <<poll[1], poll[3]>>
    BY <1>4, <2>2 DEF ReadAt, Fields, Accumulators
  <2>6. acc[field] \in Nat
    BY <2>2 DEF TypeOK, Fields
  <2>7. SumBefore(After(poll), s) = SumBefore(poll, s) +
             (IF s = <<poll[1], poll[3]>> THEN Slots(poll[2]) ELSE 0)
    BY SumAfter DEF RowInv, PollInv, Polling
  <2> QED
    BY <1>2, <1>5, <2>3, <2>4, <2>5, <2>6, <2>7 DEF Added
<1> QED
  BY <1>7, <1>8

LEMMA DrainedEnd ==
  ASSUME TypeOK, RowInv, drained, Polled
  PROVE  acc.delivered = Total /\ acc.samples = Total /\ Busy = {}
<1>1. PICK s \in Places : ReadAt("delivered", s)
  BY FieldsRead
<1>2. PICK t \in Places : ReadAt("samples", t)
  BY FieldsRead
<1>3. SumBefore(poll, s) = Total /\ SumBefore(poll, t) = Total
  BY SumAtEnd DEF Polled
<1>4. acc.delivered = Total /\ acc.samples = Total
  BY <1>1, <1>2, <1>3 DEF RowInv, PollInv, SumsExact, Fields
<1> QED
  BY <1>4 DEF RowInv, QuietInv, DrainLeavesNothing, Busy

LEMMA PollNext ==
  ASSUME RowInv, [Next]_vars
  PROVE  PollInv'
<1>0. TypeOK /\ port' = port
  BY StepShape DEF RowInv, CountingInv
<1>a. Places' = Places /\ Channels' = Channels /\ \A f, s : ReadAt(f, s)' <=> ReadAt(f, s)
  BY <1>0, PortFixed DEF Places, ReadAt, Reads
<1>b. ASSUME UNCHANGED <<poll, acc>>, drained' => drained
      PROVE  PollPlace' /\ SumsExact'
  <2>1. \A s : SumBefore(poll, s)' = SumBefore(poll, s)
    BY <1>0, <1>b, PortFixed DEF SumBefore
  <2> QED
    BY <1>0, <1>a, <1>b, <2>1 DEF RowInv, PollInv, PollPlace, SumsExact
<1>1. ASSUME UNCHANGED <<drained, poll, acc, row>>, main' # "crashed" \/ main = "crashed",
             main' = "reported" => main = "reported",
             main' \in {"spawning", "joining", "draining"} => main \in {"spawning", "joining", "draining"}
      PROVE  PollInv'
  BY <1>b, <1>1 DEF RowInv, PollInv, BeforePolling, RowExact
<1>2. CASE UNCHANGED vars
  BY <1>1, <1>2 DEF vars, trial
<1>3. ASSUME NEW p \in Producers, ProducerStep(p)
      PROVE  PollInv'
  BY <1>0, <1>1, <1>3 DEF ProducerStep, StartProducer, Publish, FinishProducer, trial
<1>4. ASSUME NEW e \in Envelopes, ConsumerStep(e)
      PROVE  PollInv'
  BY <1>1, <1>4 DEF ConsumerStep, Dispatch, ClaimSlot, WriteClaimed, ReadIndex, StoreSample,
     ReadCount, BumpCount, TurnConsume, trial
<1>5. CASE JoinProducers
  BY <1>1, <1>5 DEF JoinProducers
<1>6. CASE ShutdownDrained \/ ShutdownTimesOut
  <2>1. /\ UNCHANGED <<poll, acc, row>> /\ main' = "polling"
        /\ poll = <<1, 0, 1>> /\ acc = [delivered |-> 0, samples |-> 0, pos |-> 0]
    BY <1>6 DEF ShutdownDrained, ShutdownTimesOut, RowInv, PollInv, BeforePolling
  <2>2. PollPlace'
    BY <1>0, <1>a, <2>1 DEF RowInv, PollInv, PollPlace
  <2>3. SumsExact'
    <3>1. \A s \in Places : SumBefore(poll, s) = 0
      BY <1>0, <2>1, SumAtStart
    <3>2. \A s : SumBefore(poll, s)' = SumBefore(poll, s)
      BY <1>0, <2>1, PortFixed DEF SumBefore
    <3> QED
      BY <1>a, <2>1, <3>1, <3>2 DEF SumsExact, Fields
  <2> QED
    BY <2>1, <2>2, <2>3 DEF PollInv, BeforePolling, RowExact
<1>7. CASE PollCount
  <2>1. UNCHANGED <<main, drained, row>> /\ poll' = After(poll) /\ main = "polling"
    BY <1>7 DEF PollCount, Polling
  <2>2. PollPlace'
    BY <1>0, <1>7, <1>a, <2>1, AfterPlace DEF RowInv, PollInv, PollPlace, PollCount, Polling
  <2>3. SumsExact'
    BY <1>0, <1>7, <2>1, DrainedReads DEF PollCount, SumsExact
  <2> QED
    BY <2>1, <2>2, <2>3 DEF PollInv, BeforePolling, RowExact
<1>8. CASE CopyOverruns \/ StatsRaise \/ TeardownFaults
  <2>1. UNCHANGED <<drained, poll, acc, row>> /\ main' = "crashed"
    BY <1>8 DEF CopyOverruns, StatsRaise, TeardownFaults
  <2>2. ~drained
    BY <1>0, <1>8, DrainedReads, DrainedEnd, TotalAssumption
       DEF CopyOverruns, StatsRaise, TeardownFaults
  <2> QED
    BY <1>b, <2>1, <2>2 DEF PollInv, BeforePolling, RowExact
<1>9. CASE ReportRow
  <2>1. /\ UNCHANGED <<drained, poll, acc>> /\ main' = "reported"
        /\ row'.delivered = acc.delivered /\ row'.samples = acc.samples
    BY <1>9 DEF ReportRow
  <2>2. drained => acc.delivered = Total /\ acc.samples = Total
    BY <1>0, <1>9, DrainedEnd DEF ReportRow
  <2> QED
    BY <1>b, <2>1, <2>2 DEF PollInv, BeforePolling, RowExact
<1> QED
  BY <1>2, <1>3, <1>4, <1>5, <1>6, <1>7, <1>8, <1>9 DEF Next, MainStep, Finished

LEMMA RowInvariant == Spec => []RowInv
<1>1. Init => RowInv
  BY CountingInit, AcceptedInit, PollInit DEF RowInv, QuietInv, CountingInv, Joined,
     DrainLeavesNothing, Init
<1>2. RowInv /\ [Next]_vars => RowInv'
  BY CountingNext, AcceptedNext, PollNext, TypeNext, JoinedNext, DrainNext
     DEF RowInv, QuietInv
<1> QED
  BY <1>1, <1>2, PTL DEF Spec

-----------------------------------------------------------------------------
(* The theorems *)

\* A trial whose shutdown reported a full drain never ends without a row: the
\* percentiles have samples, the copy fits, and nobody is left for the teardown
\* to meet.
THEOREM DrainedTrialsReport == Spec => []DrainedTrialReports
<1>1. RowInv => DrainedTrialReports
  BY DEF RowInv, PollInv, RowExact, DrainedTrialReports
<1> QED
  BY <1>1, RowInvariant, PTL

\* With everything delivered, as many different indices are taken as there are
\* slots.
LEMMA SlotsFilled ==
  ASSUME RowInv, NoSampleOverwritten, drained, NEW c \in Channels, NEW k \in 0 .. (Slots(c) - 1)
  PROVE  slot[<<c, k>>] # NoSample
<1>1. TypeOK /\ CountingInv /\ \A e \in Envelopes : stage[e] = "delivered"
  BY DrainedDelivers DEF RowInv, CountingInv
<1>2. Slots(c) \in Nat /\ IsFiniteSet(AtHome(c)) /\ Cardinality(AtHome(c)) = Slots(c)
  BY <1>1, HomeFits, HomeExact, ProfileType DEF TypeOK
<1> DEFINE T == 0 .. (Slots(c) - 1)
           f == [e \in AtHome(c) |-> idx[e]]
<1>3. IsFiniteSet(T) /\ Cardinality(T) = Slots(c)
  BY <1>2, FS_Interval
<1>4. ASSUME NEW e \in AtHome(c)
      PROVE  idx[e] \in T
  <2>1. e \in Envelopes /\ Home(e) = c /\ stage[e] = "delivered"
    BY <1>1 DEF AtHome
  <2>2. idx[e] \in Nat
    BY <1>1, <2>1 DEF TypeOK
  <2>3. idx[e] < Slots(c)
    BY <1>1, <2>1, BoundsFromCounting
  <2> QED
    BY <1>2, <2>2, <2>3
<1>5. \A d, e \in AtHome(c) : idx[d] = idx[e] => d = e
  BY <1>1 DEF CountingInv, IndexTaken, AtHome, Counts
<1>6. f \in Injection(AtHome(c), T)
  BY <1>4, <1>5 DEF Injection, IsInjective
<1>7. f \in Surjection(AtHome(c), T)
  BY <1>2, <1>3, <1>6, FS_Injection
<1>8. PICK e \in AtHome(c) : idx[e] = k
  BY <1>7 DEF Surjection
<1>9. slot[<<c, k>>] = e /\ e \in Envelopes
  BY <1>1, <1>8 DEF NoSampleOverwritten, AtHome
<1>10. e \in Nat \X Nat
  BY <1>9, EnvelopeType, ProducersType
<1> QED
  BY <1>9, <1>10, NoSampleAssumption

\* A drained row accounts for every envelope, in the counter and in the
\* percentiles, and every slot the percentiles are computed from has a sample.
THEOREM ValidRowsComplete == Spec => []ValidRowIsComplete
<1>1. RowInv /\ NoSampleOverwritten => ValidRowIsComplete
  BY SlotsFilled DEF RowInv, PollInv, RowExact, ValidRowIsComplete
<1> QED
  BY <1>1, RowInvariant, SamplesKept, PTL

-----------------------------------------------------------------------------
(* The refinement: accepted and consumed are cardinalities of sets of      *)
(* envelopes, which a step of a producer or of a consumer changes by one   *)
(* and no other step changes.                                              *)

LEMMA LedgerSets ==
  /\ IsFiniteSet(Accepted) /\ Cardinality(Accepted) \in Nat
  /\ IsFiniteSet(Consumed) /\ Cardinality(Consumed) \in Nat
  /\ Consumed \subseteq Accepted
<1>1. Accepted \subseteq Envelopes /\ Consumed \subseteq Accepted
  BY DEF Accepted, Consumed
<1>2. IsFiniteSet(Accepted) /\ IsFiniteSet(Consumed)
  BY <1>1, EnvelopesFinite, FS_Subset
<1> QED
  BY <1>1, <1>2, FS_CardinalityType

\* What is accepted and not consumed makes the difference of the two.
LEMMA UnconsumedLeft ==
  ASSUME NEW e \in Envelopes, e \in Accepted, e \notin Consumed
  PROVE  Cardinality(Consumed) < Cardinality(Accepted)
<1>1. Cardinality(Consumed) <= Cardinality(Accepted)
      /\ (Cardinality(Consumed) = Cardinality(Accepted) => Consumed = Accepted)
  BY LedgerSets, FS_Subset
<1> QED
  BY <1>1, LedgerSets

LEMMA PublishAccepts ==
  ASSUME RowInv, NEW p \in Producers, Publish(p)
  PROVE  /\ Cardinality(Accepted)' = Cardinality(Accepted) + 1
         /\ Consumed' = Consumed
<1> DEFINE e == <<p, next[p]>>
<1>1. TypeOK /\ e \in Envelopes /\ stage[e] = "pool"
  BY PublishEffect, NextInPool DEF RowInv, CountingInv
<1>2. RoomFor(p)
  BY RoomFromCounting DEF RowInv, BackpressureNeverEngages, Publish
<1>3. stage' = [stage EXCEPT ![e] = "queued"] /\ stage \in [Envelopes -> Stages]
  BY <1>1, <1>2 DEF Publish, TypeOK
<1>4. Accepted' = Accepted \cup {e} /\ e \notin Accepted /\ Consumed' = Consumed
  BY <1>1, <1>3 DEF Accepted, Consumed
<1> QED
  BY <1>4, LedgerSets, FS_AddElement

LEMMA ConsumerConsumes ==
  ASSUME RowInv, NEW e \in Envelopes, ConsumerStep(e)
  PROVE  /\ Accepted' = Accepted
         /\ \/ Consumed' = Consumed
            \/ /\ Cardinality(Consumed)' = Cardinality(Consumed) + 1
               /\ Cardinality(Consumed) < Cardinality(Accepted)
<1>1. /\ stage[e] \in HandlerStages \cup {"queued"}
      /\ stage'[e] \in HandlerStages \cup {"delivered"}
      /\ \A f \in Envelopes : f # e => stage'[f] = stage[f]
  BY ConsumerEffect DEF RowInv, CountingInv
<1>2. Accepted' = Accepted /\ e \in Accepted /\ e \notin Consumed
  BY <1>1 DEF Accepted, Consumed, HandlerStages
<1>3. CASE stage'[e] = "delivered"
  <2>1. Consumed' = Consumed \cup {e}
    BY <1>1, <1>3 DEF Consumed
  <2>2. Cardinality(Consumed') = Cardinality(Consumed) + 1
    BY <1>2, <2>1, LedgerSets, FS_AddElement
  <2> QED
    BY <1>2, <2>2, UnconsumedLeft
<1>4. CASE stage'[e] # "delivered"
  <2>1. Consumed' = Consumed
    BY <1>1, <1>4 DEF Consumed, HandlerStages
  <2> QED
    BY <1>2, <2>1
<1> QED
  BY <1>3, <1>4

LEMMA LedgerInit == Init => Ledger!Init
<1> SUFFICES ASSUME Init PROVE Ledger!Init
  OBVIOUS
<1>1. Accepted = {} /\ Consumed = {}
  BY DEF Init, Accepted, Consumed
<1>2. Cardinality(Accepted) = 0 /\ Cardinality(Consumed) = 0
  BY <1>1, FS_EmptySet
<1> QED
  BY <1>2 DEF Init, Ledger!Init

LEMMA LedgerNext ==
  ASSUME RowInv, [Next]_vars
  PROVE  [Ledger!Next]_(Ledger!vars)
<1> USE DEF Ledger!vars, Ledger!Next
<1>0. TypeOK /\ TypeOK'
  BY TypeNext DEF RowInv, CountingInv
<1>1. ASSUME NEW p \in Producers, Publish(p)
      PROVE  [Ledger!Next]_(Ledger!vars)
  <2>1. main \in {"spawning", "joining"} /\ UNCHANGED <<main, drained, row>>
    BY <1>0, <1>1 DEF RowInv, QuietInv, Joined, TypeOK, Publish, trial
  <2>2. Cardinality(Accepted)' = Cardinality(Accepted) + 1 /\ Consumed' = Consumed
    BY <1>1, PublishAccepts
  <2> QED
    BY <2>1, <2>2 DEF Ledger!Accept
<1>2. ASSUME NEW e \in Envelopes, ConsumerStep(e)
      PROVE  [Ledger!Next]_(Ledger!vars)
  <2>1. UNCHANGED <<main, drained, row>>
    BY <1>2 DEF ConsumerStep, Dispatch, ClaimSlot, WriteClaimed, ReadIndex, StoreSample,
       ReadCount, BumpCount, TurnConsume, trial
  <2> QED
    BY <1>2, <2>1, ConsumerConsumes DEF Ledger!Consume
<1>s. ASSUME UNCHANGED stage
      PROVE  UNCHANGED <<Accepted, Consumed>>
  BY <1>s DEF Accepted, Consumed
<1>3. ASSUME UNCHANGED stage, UNCHANGED <<drained, row>>,
             \/ main' = main
             \/ main \in {"spawning", "joining"} /\ main' \in {"joining", "draining"}
      PROVE  [Ledger!Next]_(Ledger!vars)
  BY <1>3, <1>s
<1>4. ASSUME NEW p \in Producers, StartProducer(p) \/ FinishProducer(p)
      PROVE  [Ledger!Next]_(Ledger!vars)
  BY <1>3, <1>4 DEF StartProducer, FinishProducer, trial
<1>5. CASE JoinProducers \/ PollCount \/ UNCHANGED vars
  BY <1>3, <1>5 DEF JoinProducers, PollCount, vars, trial
<1>6. CASE ShutdownDrained
  BY <1>6, <1>s DEF ShutdownDrained
<1>7. CASE ShutdownTimesOut
  <2>1. UNCHANGED <<row, Accepted, Consumed>> /\ ~drained'
        /\ main = "draining" /\ main' = "polling"
    BY <1>7, <1>s DEF ShutdownTimesOut
  <2>2. IsFiniteSet(Queued) /\ IsFiniteSet(Busy)
    BY EnvelopesFinite, FS_Subset DEF Queued, Busy
  <2>3. PICK e \in Envelopes : e \in Queued \cup Busy
    <3>1. Queued # {} \/ Busy # {}
      BY <1>7, FS_EmptySet DEF ShutdownTimesOut, Idle
    <3> QED
      BY <3>1 DEF Queued, Busy
  <2>4. e \in Accepted /\ e \notin Consumed
    BY <2>3 DEF Queued, Busy, Accepted, Consumed, HandlerStages
  <2>5. Cardinality(Consumed) < Cardinality(Accepted)
    BY <2>4, UnconsumedLeft
  <2> QED
    BY <2>1, <2>5 DEF Ledger!GiveUp
<1>8. CASE CopyOverruns \/ StatsRaise \/ TeardownFaults
  <2>1. main = "polling" /\ main' = "crashed" /\ UNCHANGED <<drained, row, Accepted, Consumed>>
    BY <1>8, <1>s DEF CopyOverruns, StatsRaise, TeardownFaults, Polling, Polled, consuming
  <2>2. ~drained
    BY <2>1, PollNext DEF PollInv, RowExact
  <2> QED
    BY <2>1, <2>2 DEF Ledger!Lose
<1>9. CASE ReportRow
  <2>1. /\ main = "polling" /\ main' = "reported" /\ UNCHANGED <<drained, Accepted, Consumed>>
        /\ row'.total = Total /\ row'.delivered = acc.delivered
    BY <1>9, <1>s DEF ReportRow, Polled, consuming
  <2>2. CASE drained
    <3>1. Accepted = Envelopes /\ Consumed = Envelopes
      BY <2>2, DrainedDelivers DEF RowInv, Accepted, Consumed
    <3>2. acc.delivered = Total
      BY <1>0, <1>9, <2>2, DrainedEnd DEF ReportRow
    <3> QED
      BY <2>1, <2>2, <3>1, <3>2, AllEnvelopes DEF Ledger!ReportValid
  <2>3. CASE ~drained
    <3>1. Total \in Nat /\ acc.delivered \in Nat
      BY <1>0, TotalAssumption DEF TypeOK
    <3> QED
      BY <2>1, <2>3, <3>1 DEF Ledger!ReportInvalid
  <2> QED
    BY <1>0, <2>2, <2>3 DEF TypeOK
<1> QED
  BY <1>1, <1>2, <1>4, <1>5, <1>6, <1>7, <1>8, <1>9
     DEF Next, ProducerStep, MainStep, Finished

\* Every trial of every profile keeps the promise of DeliveryLedger.
THEOREM TrialKeepsLedger == Spec => KeepsLedger
<1>1. RowInv /\ [Next]_vars => [Ledger!Next]_(Ledger!vars)
  BY LedgerNext
<1> QED
  BY <1>1, LedgerInit, RowInvariant, PTL DEF Spec, KeepsLedger, Ledger!Spec
=============================================================================
