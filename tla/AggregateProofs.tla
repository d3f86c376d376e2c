--------------------------- MODULE AggregateProofs ---------------------------
(***************************************************************************)
(* Aggregate for any raw files and any rows: every row that was read is in *)
(* exactly one average, with all trials of its stage and nothing else; the *)
(* warning names exactly the invalid rows averaged in the two CSV files    *)
(* when both are written; and what a script that dies has done to the CSV  *)
(* files of an earlier run.                                                *)
(***************************************************************************)
EXTENDS Aggregate, ListFacts

-----------------------------------------------------------------------------
(* Means *)

\* A rounded quotient stays between whole numbers that bound the quotient.
LEMMA NearestBetween ==
  ASSUME NEW S \in Nat, NEW n \in Nat \ {0}, NEW m \in Nat
  PROVE  /\ Nearest(S, n, "even") \in Nat
         /\ n * m <= S => m <= Nearest(S, n, "even")
         /\ S <= n * m => Nearest(S, n, "even") <= m
<1> DEFINE q == S \div n
           r == S % n
<1>1. q \in Nat /\ r \in 0 .. (n - 1) /\ S = n * q + r
  OBVIOUS
<1>2. Nearest(S, n, "even") = IF 2 * r > n \/ (2 * r = n /\ q % 2 = 1) THEN q + 1 ELSE q
  BY DEF Nearest
<1> HIDE DEF q, r
<1>3. n * q \in Nat /\ n * (q + 1) = n * q + n /\ n * m \in Nat
  BY <1>1
<1>4. ASSUME n * m <= S PROVE m <= q
  <2>1. n * m < n * (q + 1)
    BY <1>1, <1>3, <1>4
  <2>2. m < q + 1
    BY <1>1, <2>1
  <2> QED
    BY <1>1, <2>2
<1>5. ASSUME S <= n * m PROVE q < m \/ (q = m /\ r = 0)
  <2>1. n * q <= n * m
    BY <1>1, <1>3, <1>5
  <2>2. q <= m
    BY <1>1, <2>1
  <2>3. q = m => r = 0
    BY <1>1, <1>3, <1>5
  <2> QED
    BY <1>1, <2>2, <2>3
<1>6. Nearest(S, n, "even") \in {q, q + 1} /\ (r = 0 => Nearest(S, n, "even") = q)
  BY <1>1, <1>2
<1> QED
  BY <1>1, <1>4, <1>5, <1>6

\* The mean of the trials' rates is between two of these.
LEMMA MeanBetween ==
  ASSUME NEW t, IsFiniteSet(DOMAIN t), DOMAIN t # {}, \A i \in DOMAIN t : t[i].eps \in Nat
  PROVE  \E j, k \in DOMAIN t : t[j].eps <= Mean(t, "eps") /\ Mean(t, "eps") <= t[k].eps
<1> DEFINE e == [i \in DOMAIN t |-> t[i].eps]
           n == Cardinality(DOMAIN t)
           m == Mean(t, "eps")
           S == SumFunction(e)
<1>1. n \in Nat \ {0}
  BY FS_CardinalityType, FS_EmptySet
<1>2. m = Nearest(S, n, "even")
  BY DEF Mean, Sum
<1>3. DOMAIN e = DOMAIN t /\ \A i \in DOMAIN t : e[i] \in Nat /\ e[i] = t[i].eps
  OBVIOUS
<1> HIDE DEF e, n, m, S
<1>4. S \in Nat
  BY <1>3, SumBounds DEF S
<1>5. m \in Nat
  BY <1>1, <1>2, <1>4, NearestBetween
<1>6. \E j \in DOMAIN t : t[j].eps <= m
  <2>1. SUFFICES ASSUME \A i \in DOMAIN e : m + 1 <= e[i] PROVE FALSE
    BY <1>3, <1>5
  <2>2. n * (m + 1) <= S
    BY <1>3, <1>5, <2>1, SumBounds DEF S, n
  <2>3. m + 1 <= m
    BY <1>1, <1>2, <1>4, <1>5, <2>2, NearestBetween
  <2> QED
    BY <1>5, <2>3
<1>7. \E k \in DOMAIN t : m <= t[k].eps
  <2>1. SUFFICES ASSUME \A i \in DOMAIN e : e[i] < m PROVE FALSE
    BY <1>3, <1>5
  <2>2. PICK p \in DOMAIN e : e[p] \in Nat /\ e[p] < m
    BY <1>3, <2>1
  <2>3. m - 1 \in Nat /\ \A i \in DOMAIN e : e[i] <= m - 1
    BY <1>3, <1>5, <2>1, <2>2
  <2>4. S <= n * (m - 1)
    BY <1>3, <2>3, SumBounds DEF S, n
  <2>5. m <= m - 1
    BY <1>1, <1>2, <1>4, <2>3, <2>4, NearestBetween
  <2> QED
    BY <1>5, <2>5
<1> QED
  BY <1>6, <1>7 DEF m

-----------------------------------------------------------------------------
(* Summaries *)

\* Rows have the same key exactly if they are trials of the same stage.
LEMMA KeyIsStage ==
  ASSUME NEW r \in Rows, NEW s \in Rows
  PROVE  Key(r) = Key(s) <=> SameStage(r, s)
<1>1. Key(r) = Key(s) <=> Variant(r) = Variant(s) /\ r.config = s.config /\ Key(r)[3] = Key(s)[3]
  BY DEF Key
<1>2. Variant(r) = Variant(s) <=> r.language = s.language /\ r.interpreter = s.interpreter
  BY RowsAssumption DEF Variant
<1>3. r.config = s.config => (Key(r)[3] = Key(s)[3] <=> r.load = s.load)
  BY RowsAssumption DEF Key, FirehoseConfigs, CapacityConfigs
<1> QED
  BY <1>1, <1>2, <1>3 DEF SameStage

\* The trials of a key are a finite set of rows, which has the key's fields.
LEMMA TrialsOfKey ==
  ASSUME NEW rs \in Seq(Rows), NEW i \in DOMAIN rs
  PROVE  LET k == Key(rs[i])
             t == Trials(rs, k)
             stage == {j \in DOMAIN rs : SameStage(rs[i], rs[j])}
         IN  /\ t = [j \in stage |-> rs[j]] /\ DOMAIN t = stage /\ i \in stage
             /\ \E j, l \in stage : rs[j].eps <= Mean(t, "eps") /\ Mean(t, "eps") <= rs[l].eps
<1> DEFINE k == Key(rs[i])
           t == Trials(rs, k)
           stage == {j \in DOMAIN rs : SameStage(rs[i], rs[j])}
<1>1. Len(rs) \in Nat /\ DOMAIN rs = 1 .. Len(rs) /\ \A j \in DOMAIN rs : rs[j] \in Rows
  OBVIOUS
<1>2. \A j \in DOMAIN rs : Key(rs[j]) = k <=> SameStage(rs[i], rs[j])
  BY <1>1, KeyIsStage
<1>3. t = [j \in stage |-> rs[j]] /\ DOMAIN t = stage
  BY <1>2 DEF Trials
<1>4. i \in stage
  BY DEF SameStage
<1>5. IsFiniteSet(stage)
  <2>1. IsFiniteSet(1 .. Len(rs)) /\ stage \subseteq 1 .. Len(rs)
    BY <1>1, FS_Interval
  <2> QED
    BY <2>1, FS_Subset
<1>6. \A j \in stage : t[j] = rs[j] /\ t[j].eps \in Nat
  BY <1>1, <1>3, RowsAssumption
<1> HIDE DEF t, stage
<1>7. PICK j \in stage, l \in stage : t[j].eps <= Mean(t, "eps") /\ Mean(t, "eps") <= t[l].eps
  BY <1>3, <1>4, <1>5, <1>6, MeanBetween
<1>8. \E j2, l2 \in stage : rs[j2].eps <= Mean(t, "eps") /\ Mean(t, "eps") <= rs[l2].eps
  BY <1>6, <1>7
<1> QED
  BY <1>3, <1>4, <1>8 DEF t, stage

\* What is in the two summaries of rows rs.
SummaryRows(rs) == FirehoseSummary(rs) \union CapacitySummary(rs)

LEMMA SummaryRowOf ==
  ASSUME NEW rs, NEW s \in SummaryRows(rs)
  PROVE  \E i \in DOMAIN rs :
             LET k == Key(rs[i])
             IN  \/ rs[i].config \in FirehoseConfigs /\ s = FirehoseRow(k, Trials(rs, k))
                 \/ rs[i].config \in CapacityConfigs /\ s = CapacityRow(k, Trials(rs, k))
BY DEF SummaryRows, FirehoseSummary, CapacitySummary, Keys

LEMMA RowFields ==
  ASSUME NEW k, NEW t
  PROVE  /\ FirehoseRow(k, t).of = t /\ FirehoseRow(k, t).mean = Mean(t, "eps")
         /\ FirehoseRow(k, t).config = k[2] /\ FirehoseRow(k, t).load = k[3]
         /\ CapacityRow(k, t).of = t /\ CapacityRow(k, t).mean = Mean(t, "eps")
         /\ CapacityRow(k, t).config = k[2]
BY DEF FirehoseRow, CapacityRow

\* A row is averaged once: the summary row of its own key and kind.
LEMMA OneHome ==
  ASSUME NEW rs \in Seq(Rows), NEW i \in DOMAIN rs
  PROVE  LET k == Key(rs[i])
             t == Trials(rs, k)
         IN  \E s \in SummaryRows(rs) :
                 /\ {h \in SummaryRows(rs) : i \in DOMAIN h.of} = {s}
                 /\ s.of = t /\ s.mean = Mean(t, "eps")
<1> DEFINE k == Key(rs[i])
           t == Trials(rs, k)
           home == IF rs[i].config \in FirehoseConfigs THEN FirehoseRow(k, t) ELSE CapacityRow(k, t)
<1>1. \A j \in DOMAIN rs : rs[j] \in Rows
  OBVIOUS
<1>2. home \in SummaryRows(rs)
  BY <1>1, RowsAssumption DEF SummaryRows, FirehoseSummary, CapacitySummary, Keys
<1>3. home.of = t /\ home.mean = Mean(t, "eps") /\ i \in DOMAIN t
  BY RowFields DEF Trials
<1>4. ASSUME NEW h \in SummaryRows(rs), i \in DOMAIN h.of
      PROVE  h = home
  <2>1. PICK j \in DOMAIN rs :
             LET q == Key(rs[j])
             IN  \/ rs[j].config \in FirehoseConfigs /\ h = FirehoseRow(q, Trials(rs, q))
                 \/ rs[j].config \in CapacityConfigs /\ h = CapacityRow(q, Trials(rs, q))
    BY SummaryRowOf
  <2>2. h.of = Trials(rs, Key(rs[j]))
    BY <2>1, RowFields
  <2>3. Key(rs[j]) = k
    BY <1>4, <2>2 DEF Trials
  <2>4. rs[j].config = rs[i].config
    BY <2>3 DEF Key
  <2> QED
    BY <2>1, <2>3, <2>4 DEF FirehoseConfigs, CapacityConfigs
<1> HIDE DEF t, home
<1>5. {h \in SummaryRows(rs) : i \in DOMAIN h.of} = {home}
  BY <1>2, <1>3, <1>4
<1> QED
  BY <1>2, <1>3, <1>5 DEF t

-----------------------------------------------------------------------------
(* What the script holds *)

Computed(rs) == [firehose |-> FirehoseSummary(rs), capacity |-> CapacitySummary(rs)]

\* The rows it has read are the raw files' rows; the summaries are computed from
\* these rows and from nothing else, and before either is written; and a file
\* that has been written holds its summary.
Held ==
    /\ agg \in {"load", "group", "write", "write2", "ok", "died"}
    /\ raw \in Raws
    /\ loaded \in Seq(Rows)
    /\ warned \subseteq Range(loaded)
    /\ agg \in {"group", "write", "write2", "ok"} =>
           warned = {r \in Range(loaded) : Invalid(r)}
    /\ IF agg \in {"write", "write2", "ok"}
       THEN summaries = Computed(loaded)
       ELSE summaries = NoSummary
    /\ csv = [firehose |-> csv.firehose, capacity |-> csv.capacity]
    /\ agg \in {"write2", "ok"} /\ summaries.firehose # {} =>
           csv.firehose = summaries.firehose
    /\ agg = "ok" /\ summaries.capacity # {} =>
           csv.capacity = summaries.capacity

LEMMA LinesAreRows ==
  ASSUME raw \in Raws
  PROVE  FlattenSeq([f \in Files |-> raw[f].lines]) \in Seq(Rows)
<1> DEFINE ss == [f \in Files |-> raw[f].lines]
<1>1. raw \in [Files -> [lines : Seq(Rows), torn : BOOLEAN]]
  BY RawsAssumption
<1>2. Cardinality(Files) \in Nat /\ Files = 1 .. Cardinality(Files)
  BY FilesAssumption, FS_CardinalityType
<1>3. ss \in [Files -> Seq(Rows)]
  BY <1>1
<1>4. ss \in Seq(Seq(Rows))
  BY <1>2, <1>3
<1> HIDE DEF ss
<1> QED
  BY <1>4, FlattenElements DEF Flattened, ss

LEMMA HeldInvariant == Spec => []Held
<1>1. Init => Held
  BY CsvsAssumption DEF Init, Held
<1>2. ASSUME Held, [Next]_<<raw, aggVars>>
      PROVE  Held'
  <2>1. CASE Load
    <3> DEFINE rs == FlattenSeq([f \in Files |-> raw[f].lines])
    <3>1. rs \in Seq(Rows)
      BY <1>2, LinesAreRows DEF Held
    <3>2. CASE rs = << >> \/ \E f \in Files : raw[f].torn
      BY <1>2, <2>1, <3>2 DEF Load, Held
    <3>3. CASE ~(rs = << >> \/ \E f \in Files : raw[f].torn)
      <4>1. /\ agg = "load" /\ agg' = "group" /\ loaded' = rs
            /\ warned' = {r \in Range(rs) : Invalid(r)}
            /\ UNCHANGED <<raw, summaries, csv>>
        BY <2>1, <3>3 DEF Load
      <4> HIDE DEF rs
      <4> QED
        BY <1>2, <3>1, <4>1 DEF Held
    <3> QED
      BY <3>2, <3>3
  <2>2. CASE Group
    BY <1>2, <2>2 DEF Group, Held, Computed
  <2>3. CASE WriteFirehose \/ WriteCapacity
    BY <1>2, <2>3 DEF WriteFirehose, WriteCapacity, Held, working
  <2>4. CASE Ended \/ UNCHANGED <<raw, aggVars>>
    BY <1>2, <2>4 DEF Ended, Held, aggVars, working
  <2> QED
    BY <1>2, <2>1, <2>2, <2>3, <2>4 DEF Next, AggregateStep
<1> QED
  BY <1>1, <1>2, PTL DEF Spec

\* Rows in, rows out, for any raw files.
THEOREM TypeCorrect == Spec => []TypeOK
<1>1. ASSUME Held
      PROVE  TypeOK
  <2>1. \A f \in Files : raw[f].torn \in BOOLEAN /\ Range(raw[f].lines) \subseteq Rows
    <3>1. \A f \in Files : raw[f].torn \in BOOLEAN /\ raw[f].lines \in Seq(Rows)
      BY <1>1, RawsAssumption DEF Held
    <3> QED
      BY <3>1 DEF Range
  <2>2. Range(loaded) \subseteq Rows
    BY <1>1 DEF Held, Range
  <2>3. ASSUME NEW s \in FirehoseSummary(loaded)
        PROVE  s.config \in FirehoseConfigs /\ s.load = 0
    <3>1. PICK i \in DOMAIN loaded : /\ loaded[i].config \in FirehoseConfigs
                                     /\ s = FirehoseRow(Key(loaded[i]), Trials(loaded, Key(loaded[i])))
      BY DEF FirehoseSummary, Keys
    <3>2. Key(loaded[i])[2] \in FirehoseConfigs /\ Key(loaded[i])[3] = 0
      BY <3>1 DEF Key, FirehoseConfigs, CapacityConfigs
    <3> QED
      BY <3>1, <3>2, RowFields
  <2>4. ASSUME NEW s \in CapacitySummary(loaded)
        PROVE  s.config \in CapacityConfigs
    <3>1. PICK i \in DOMAIN loaded : /\ loaded[i].config \in CapacityConfigs
                                     /\ s = CapacityRow(Key(loaded[i]), Trials(loaded, Key(loaded[i])))
      BY DEF CapacitySummary, Keys
    <3>2. Key(loaded[i])[2] \in CapacityConfigs
      BY <3>1 DEF Key
    <3> QED
      BY <3>1, <3>2, RowFields
  <2>5. /\ summaries.firehose \in {{}, FirehoseSummary(loaded)}
        /\ summaries.capacity \in {{}, CapacitySummary(loaded)}
    BY <1>1 DEF Held, Computed, NoSummary
  <2> QED
    BY <1>1, <2>1, <2>2, <2>3, <2>4, <2>5 DEF Held, TypeOK
<1> QED
  BY <1>1, HeldInvariant, PTL

\* The summaries' rows are those computed from the rows read.
LEMMA HeldRows ==
  ASSUME Held, agg \in {"write", "write2", "ok"}
  PROVE  summaries.firehose \union summaries.capacity = SummaryRows(loaded)
BY DEF Held, Computed, SummaryRows

\* Every row that was read is in exactly one average, which is of all trials of
\* its own stage and of nothing else, and lies between two of their rates: for
\* any raw files, any number of builds, programs and trials.
THEOREM EachTrialAveragedOnce == Spec => []AveragedWithItsOwnTrials
<1>1. ASSUME Held
      PROVE  AveragedWithItsOwnTrials
  <2>1. SUFFICES ASSUME agg \in {"write", "write2", "ok"}, NEW i \in DOMAIN loaded
                 PROVE  LET stage == {j \in DOMAIN loaded : SameStage(loaded[i], loaded[j])}
                            homes == {s \in summaries.firehose \union summaries.capacity :
                                          i \in DOMAIN s.of}
                        IN  \E s \in homes :
                                /\ homes = {s} /\ s.of = [j \in stage |-> loaded[j]]
                                /\ \E j, k \in stage : /\ loaded[j].eps <= s.mean
                                                       /\ s.mean <= loaded[k].eps
    BY DEF AveragedWithItsOwnTrials
  <2> DEFINE t == Trials(loaded, Key(loaded[i]))
             stage == {j \in DOMAIN loaded : SameStage(loaded[i], loaded[j])}
             homes == {s \in SummaryRows(loaded) : i \in DOMAIN s.of}
  <2>2. loaded \in Seq(Rows) /\ summaries.firehose \union summaries.capacity = SummaryRows(loaded)
    BY <1>1, <2>1, HeldRows DEF Held
  <2>3. PICK s \in SummaryRows(loaded) : homes = {s} /\ s.of = t /\ s.mean = Mean(t, "eps")
    BY <2>2, OneHome
  <2>4. /\ t = [j \in stage |-> loaded[j]]
        /\ \E j, k \in stage : loaded[j].eps <= Mean(t, "eps") /\ Mean(t, "eps") <= loaded[k].eps
    BY <2>2, TrialsOfKey
  <2> HIDE DEF t, stage
  <2>5. /\ s \in homes /\ homes = {s} /\ s.of = [j \in stage |-> loaded[j]]
        /\ \E j, k \in stage : loaded[j].eps <= s.mean /\ s.mean <= loaded[k].eps
    BY <2>3, <2>4
  <2> QED
    BY <2>2, <2>5 DEF stage
<1> QED
  BY <1>1, HeldInvariant, PTL

\* The rows behind the averages are the rows that were read.
LEMMA AveragedRows ==
  ASSUME NEW rs \in Seq(Rows)
  PROVE  UNION {Range(s.of) : s \in SummaryRows(rs)} = Range(rs)
<1>1. ASSUME NEW s \in SummaryRows(rs), NEW r \in Range(s.of)
      PROVE  r \in Range(rs)
  <2>1. PICK i \in DOMAIN rs : s.of = Trials(rs, Key(rs[i]))
    BY SummaryRowOf, RowFields
  <2>2. PICK j \in DOMAIN s.of : r = s.of[j]
    BY DEF Range
  <2>3. j \in DOMAIN rs /\ r = rs[j]
    BY <2>1, <2>2 DEF Trials
  <2> QED
    BY <2>3 DEF Range
<1>2. ASSUME NEW i \in DOMAIN rs
      PROVE  \E s \in SummaryRows(rs) : rs[i] \in Range(s.of)
  <2>1. PICK s \in SummaryRows(rs) : s.of = Trials(rs, Key(rs[i]))
    BY OneHome
  <2>2. i \in DOMAIN s.of /\ s.of[i] = rs[i]
    BY <2>1 DEF Trials
  <2> QED
    BY <2>2 DEF Range
<1>3. \A r \in Range(rs) : \E i \in DOMAIN rs : r = rs[i]
  BY DEF Range
<1> QED
  BY <1>1, <1>2, <1>3

\* Once both CSV files are written, the warning has named exactly the invalid
\* rows that are averaged in them.
THEOREM InvalidRowsReported == Spec => []WarningCoversCsvs
<1>1. ASSUME Held
      PROVE  WarningCoversCsvs
  <2>1. SUFFICES ASSUME agg = "ok",
                        summaries.firehose # {}, summaries.capacity # {}
                 PROVE  warned = {r \in UNION {Range(s.of) : s \in csv.firehose \union csv.capacity} :
                                      ~r.drained \/ ~r.full}
    BY DEF WarningCoversCsvs
  <2>2. csv.firehose \union csv.capacity = SummaryRows(loaded)
    BY <1>1, <2>1, HeldRows DEF Held
  <2>3. UNION {Range(s.of) : s \in csv.firehose \union csv.capacity} = Range(loaded)
    BY <1>1, <2>2, AveragedRows DEF Held
  <2>4. warned = {r \in Range(loaded) : ~r.drained \/ ~r.full}
    BY <1>1, <2>1 DEF Held, Invalid
  <2> QED
    BY <2>3, <2>4
<1> QED
  BY <1>1, HeldInvariant, PTL

-----------------------------------------------------------------------------
(* A script that dies *)

\* A script that dies has written neither file: the old pair survives.
THEOREM DeathLeavesCsvs == Spec => FailureLeavesCsvs
<1>1. ASSUME Held, [Next]_<<raw, aggVars>>
      PROVE  [agg' = "died" => csv' = csv /\ summaries = NoSummary]_<<raw, aggVars>>
  <2>1. CASE Load \/ Group
    BY <1>1, <2>1 DEF Load, Group, Held
  <2>2. CASE WriteFirehose \/ WriteCapacity
    BY <2>2 DEF WriteFirehose, WriteCapacity
  <2>3. CASE Ended \/ UNCHANGED <<raw, aggVars>>
    BY <2>3 DEF Ended
  <2> QED
    BY <1>1, <2>1, <2>2, <2>3 DEF Next, AggregateStep
<1> QED
  BY <1>1, HeldInvariant, PTL DEF Spec, FailureLeavesCsvs
=============================================================================
