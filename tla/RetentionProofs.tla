--------------------------- MODULE RetentionProofs ---------------------------
(***************************************************************************)
(* Theorems of Retention, for every set of sessions, every retention and   *)
(* every number of failures.  The first parts are about which samples a    *)
(* row was computed from, the last ones about the sums in the rows.        *)
(***************************************************************************)
EXTENDS Retention, SumTheorems, TLAPS

-----------------------------------------------------------------------------
(* The invariant.                                                          *)

\* What these proofs need of the types: everything but the sums.
RowOK(r) == /\ r.batch \in Nat
            /\ r.batch <= batches
            /\ r.from \subseteq Sample
            /\ \A x \in r.from : x.at <= now

Shape ==
  /\ now \in Nat
  /\ samples \subseteq Sample
  /\ gc \in Pass
  /\ batches \in Nat
  /\ gc.hourlyAt <= now
  /\ gc.dailyAt <= now
  /\ \A r \in Reported : RowOK(r)

\* Between its two statements a pass leaves counted samples in the table: those
\* of its own cutoff.  At any other time there are none.
CountedAreDue ==
  "samples" \notin owed =>
    \A r \in Reported : \A x \in r.from :
      x \in samples => /\ gc.pc \in {"daily", "samples"}
                       /\ Before(x.at, SampleRetention, gc.hourlyAt)

\* The same of hourly rows and days.
RolledUpAreDue ==
  "hours" \notin owed =>
    \A d \in daily : \A r \in d.from :
      r \in hourly => /\ gc.pc \in {"samples", "hours"}
                      /\ Before(r.at, HourlyRetention, gc.dailyAt)

\* While the deletion is to come, all of its cutoff has been counted.
DueAreCounted ==
  gc.pc \in {"daily", "samples"} =>
    \A x \in samples : Before(x.at, SampleRetention, gc.hourlyAt) => Counted(x)

DueAreRolledUp ==
  gc.pc \in {"samples", "hours"} =>
    \A r \in hourly : Before(r.at, HourlyRetention, gc.dailyAt) => RolledUp(r)

\* The hour of a row is a number.
HourTimes == \A r \in Reported : r.at \in Nat

\* A cutoff is that of the pass under way.
Fresh ==
  /\ gc.pc \in {"idle", "hourly"} => gc.hourlyAt = 0
  /\ gc.pc \in {"idle", "hourly", "daily"} => gc.dailyAt = 0

CountInv == Shape /\ CountedAreDue /\ CountedOnce
RollInv  == Shape /\ RolledUpAreDue /\ RolledUpOnce
KeepInv  == Shape /\ Fresh /\ HourTimes /\ DueAreCounted /\ DueAreRolledUp

-----------------------------------------------------------------------------
(* Lemmas about the queries.                                               *)

\* An hourly row is computed from the samples of the query that are of its name
\* and hour, and its batch is new.
LEMMA HourRowsFacts ==
  ASSUME NEW S, NEW r \in HourRows(S)
  PROVE  /\ r.batch = batches + 1
         /\ r.from = {x \in S : Owner[x.session] = r.cn /\ HourOf(x.at) = r.at}
         /\ S # {}
<1>1. PICK x \in S : r = HourRow(Owner[x.session], HourOf(x.at), S)
  BY DEF HourRows
<1> QED
  BY <1>1 DEF HourRow

\* Two rows of one INSERT have no sample in common.
LEMMA HourRowsApart ==
  ASSUME NEW S, NEW r \in HourRows(S), NEW q \in HourRows(S), r # q
  PROVE  r.from \cap q.from = {}
<1>1. PICK x \in S : r = HourRow(Owner[x.session], HourOf(x.at), S)
  BY DEF HourRows
<1>2. PICK y \in S : q = HourRow(Owner[y.session], HourOf(y.at), S)
  BY DEF HourRows
<1>3. r.cn # q.cn \/ r.at # q.at
  BY <1>1, <1>2 DEF HourRow
<1> QED
  BY <1>3, HourRowsFacts

\* Every sample of the query is in a row.
LEMMA HourRowsCover ==
  ASSUME NEW S, NEW x \in S
  PROVE  \E r \in HourRows(S) : x \in r.from
<1> DEFINE r == HourRow(Owner[x.session], HourOf(x.at), S)
<1>1. r \in HourRows(S)
  BY DEF HourRows
<1>2. x \in r.from
  BY DEF HourRow
<1> QED
  BY <1>1, <1>2

\* The same three facts of the daily rows.
LEMMA DayRowsFacts ==
  ASSUME NEW H, NEW d \in DayRows(H)
  PROVE  /\ d.from = {r \in H : r.cn = d.cn /\ DayOf(r.at) = d.at}
         /\ d.from \subseteq H
         /\ H # {}
<1>1. PICK r \in H : d = DayRow(r.cn, DayOf(r.at), H)
  BY DEF DayRows
<1> QED
  BY <1>1 DEF DayRow

LEMMA DayRowsApart ==
  ASSUME NEW H, NEW d \in DayRows(H), NEW e \in DayRows(H), d # e
  PROVE  d.from \cap e.from = {}
<1>1. PICK x \in H : d = DayRow(x.cn, DayOf(x.at), H)
  BY DEF DayRows
<1>2. PICK y \in H : e = DayRow(y.cn, DayOf(y.at), H)
  BY DEF DayRows
<1>3. d.cn # e.cn \/ d.at # e.at
  BY <1>1, <1>2 DEF DayRow
<1> QED
  BY <1>3, DayRowsFacts

LEMMA DayRowsCover ==
  ASSUME NEW H, NEW r \in H
  PROVE  \E d \in DayRows(H) : r \in d.from
<1> DEFINE d == DayRow(r.cn, DayOf(r.at), H)
<1>1. d \in DayRows(H)
  BY DEF DayRows
<1>2. r \in d.from
  BY DEF DayRow
<1> QED
  BY <1>1, <1>2

-----------------------------------------------------------------------------
(* What a step does to the rows that are reported.                         *)

\* Only AddUp adds reported rows; a day is made of rows that were reported.
LEMMA AddUpReported ==
  ASSUME NEW S, AddUp(S)
  PROVE  Reported' = Reported \cup HourRows(S)
  BY DEF AddUp, Reported

LEMMA RollUpReported ==
  ASSUME NEW H \in SUBSET hourly, RollUp(H)
  PROVE  Reported' = Reported
<1>1. \A d \in DayRows(H) : d.from \subseteq hourly
  BY DayRowsFacts
<1>2. hourly' = hourly /\ daily' = daily \cup DayRows(H)
  BY DEF RollUp
<1> QED
  BY <1>1, <1>2 DEF Reported

LEMMA DeleteHourlyReported ==
  ASSUME NEW H, DeleteHourly(H)
  PROVE  Reported' \subseteq Reported
  BY DEF DeleteHourly, Left, Reported

\* The five ways in which a step changes the tables; the two failures change
\* none of them.
LEMMA StepKinds ==
  ASSUME Next
  PROVE  \/ \E S \in SUBSET Sessions : Tick(S)
         \/ StartPass
         \/ AddUp({x \in samples : Before(x.at, SampleRetention, now)})
         \/ RollUp({r \in hourly : Before(r.at, HourlyRetention, now)})
         \/ DeleteSamples({x \in samples : Before(x.at, SampleRetention, now)})
         \/ DeleteHourly({r \in hourly : Before(r.at, HourlyRetention, now)})
         \/ StatementFails
         \/ Restart
  BY DEF Next, Step, AggregateSamplesToHourly, AggregateHourlyToDaily,
         PruneOldSamples, PruneOldHourly

-----------------------------------------------------------------------------
(* The shape of the state.                                                 *)

\* The assignments to the record of a pass.
LEMMA PassUpdates ==
  ASSUME NEW p \in Pass, NEW t \in Nat,
         NEW pc \in {"idle", "hourly", "daily", "samples", "hours"}
  PROVE  /\ [p EXCEPT !.pc = pc, !.hourlyAt = t] \in Pass
         /\ [p EXCEPT !.pc = pc, !.dailyAt = t] \in Pass
         /\ [p EXCEPT !.pc = pc] \in Pass
  BY DEF Pass

LEMMA InitShape ==
  Init => Shape
  BY DEF Init, Shape, Reported, Pass, NoPass

LEMMA RowsStayOK ==
  ASSUME Shape, Reported' \subseteq Reported, now' \in Nat, now <= now',
         batches' \in Nat, batches <= batches'
  PROVE  \A r \in Reported' : RowOK(r)'
<1> SUFFICES ASSUME NEW r \in Reported' PROVE RowOK(r)'
  OBVIOUS
<1>1. RowOK(r) /\ now \in Nat /\ batches \in Nat
  BY DEF Shape
<1>2. \A x \in r.from : x.at \in Nat
  BY <1>1 DEF RowOK, Sample
<1> QED
  BY <1>1, <1>2 DEF RowOK

LEMMA NewRowsOK ==
  ASSUME Shape, NEW S \in SUBSET samples, \A x \in S : x.at <= now,
         NewBatch(S), now' = now
  PROVE  \A r \in HourRows(S) : RowOK(r)'
<1> SUFFICES ASSUME NEW r \in HourRows(S) PROVE RowOK(r)'
  OBVIOUS
<1>1. batches \in Nat /\ samples \subseteq Sample
  BY DEF Shape
<1>2. r.batch = batches + 1 /\ r.from \subseteq S /\ S # {}
  BY HourRowsFacts
<1>3. batches' = batches + 1
  BY <1>2 DEF NewBatch
<1> QED
  BY <1>1, <1>2, <1>3 DEF RowOK

LEMMA NextShape ==
  ASSUME Shape, [Next]_vars
  PROVE  Shape'
<1> USE DEF Shape
<1>0. CASE UNCHANGED vars
  BY <1>0 DEF vars, Reported, RowOK
<1>1. ASSUME NEW S \in SUBSET Sessions, Tick(S)
      PROVE  Shape'
  <2>1. /\ now' \in Nat /\ now <= now' /\ batches' = batches /\ gc' = gc
        /\ samples' \subseteq Sample
    BY <1>1 DEF Tick, Sample
  <2>2. Reported' \subseteq Reported
    BY <1>1 DEF Tick, Reported
  <2>3. gc.hourlyAt \in Nat /\ gc.dailyAt \in Nat
    BY DEF Pass
  <2>4. \A r \in Reported' : RowOK(r)'
    BY <2>1, <2>2, RowsStayOK
  <2> QED
    BY <2>1, <2>3, <2>4
<1>2. CASE StartPass
  <2>1. UNCHANGED <<now, samples, hourly, daily, batches>>
    BY <1>2 DEF StartPass
  <2>2. gc' \in Pass /\ gc'.hourlyAt <= now /\ gc'.dailyAt <= now
    BY <1>2 DEF StartPass, NoPass, Pass
  <2>3. \A r \in Reported' : RowOK(r)'
    BY <2>1 DEF Reported, RowOK
  <2> QED
    BY <2>1, <2>2, <2>3
<1>3. CASE AddUp({x \in samples : Before(x.at, SampleRetention, now)})
  <2> DEFINE old == {x \in samples : Before(x.at, SampleRetention, now)}
  <2>1. /\ UNCHANGED <<now, samples, daily>>
        /\ NewBatch(old)
        /\ gc' = [gc EXCEPT !.pc = "daily", !.hourlyAt = now]
    BY <1>3 DEF AddUp
  <2> HIDE DEF old
  <2>2. gc' \in Pass
    BY <2>1, PassUpdates
  <2>2a. gc'.hourlyAt <= now' /\ gc'.dailyAt <= now'
    BY <2>1 DEF Pass
  <2>3. batches' \in Nat /\ batches <= batches'
    BY <2>1 DEF NewBatch
  <2>4. \A x \in old : x.at <= now
    BY LengthsAssumption DEF Before, Sample, old
  <2>4a. old \in SUBSET samples
    BY DEF old
  <2>5. \A r \in HourRows(old) : RowOK(r)'
    BY <2>1, <2>4, <2>4a, NewRowsOK
  <2>6. \A r \in Reported : RowOK(r)'
    <3> SUFFICES ASSUME NEW r \in Reported PROVE RowOK(r)'
      OBVIOUS
    <3>1. RowOK(r)
      OBVIOUS
    <3> QED
      BY <3>1, <2>1, <2>3 DEF RowOK
  <2>7. Reported' = Reported \cup HourRows(old)
    BY <1>3, AddUpReported DEF old
  <2>8. \A r \in Reported' : RowOK(r)'
    BY <2>5, <2>6, <2>7
  <2> QED
    BY <2>1, <2>2, <2>2a, <2>3, <2>8
<1>4. CASE RollUp({r \in hourly : Before(r.at, HourlyRetention, now)})
  <2>1. /\ UNCHANGED <<now, samples>>
        /\ gc' = [gc EXCEPT !.pc = "samples", !.dailyAt = now]
    BY <1>4 DEF RollUp
  <2>2. gc' \in Pass
    BY <2>1, PassUpdates
  <2>2a. gc'.hourlyAt <= now' /\ gc'.dailyAt <= now'
    BY <2>1 DEF Pass
  <2>3. batches' \in Nat /\ batches <= batches'
    BY <1>4 DEF RollUp, NewBatch
  <2>4. Reported' = Reported
    BY <1>4, RollUpReported
  <2>5. \A r \in Reported' : RowOK(r)'
    BY <2>1, <2>3, <2>4, RowsStayOK
  <2> QED
    BY <2>1, <2>2, <2>2a, <2>3, <2>5
<1>5. CASE DeleteSamples({x \in samples : Before(x.at, SampleRetention, now)})
  <2>1. /\ UNCHANGED <<now, hourly, daily, batches>> /\ samples' \subseteq samples
        /\ gc' = [gc EXCEPT !.pc = "hours"]
    BY <1>5 DEF DeleteSamples, Left
  <2>2. gc' \in Pass
    BY <2>1, PassUpdates
  <2>2a. gc'.hourlyAt <= now' /\ gc'.dailyAt <= now'
    BY <2>1 DEF Pass
  <2>3. \A r \in Reported' : RowOK(r)'
    BY <2>1 DEF Reported, RowOK
  <2> QED
    BY <2>1, <2>2, <2>2a, <2>3
<1>6. CASE DeleteHourly({r \in hourly : Before(r.at, HourlyRetention, now)})
  <2>1. UNCHANGED <<now, samples, batches>>
    BY <1>6 DEF DeleteHourly
  <2>2. gc' \in Pass /\ gc'.hourlyAt <= now' /\ gc'.dailyAt <= now'
    BY <1>6 DEF DeleteHourly, Pass, NoPass
  <2>3. \A r \in Reported' : RowOK(r)'
    BY <1>6, <2>1, DeleteHourlyReported, RowsStayOK
  <2> QED
    BY <2>1, <2>2, <2>3
<1>7. CASE StatementFails \/ Restart
  <2>1. UNCHANGED <<now, samples, hourly, daily, batches>>
    BY <1>7 DEF StatementFails, Restart
  <2>2. gc' \in Pass /\ gc'.hourlyAt <= now' /\ gc'.dailyAt <= now'
    BY <1>7, <2>1 DEF StatementFails, Restart, Pass, NoPass, NextPc
  <2>3. \A r \in Reported' : RowOK(r)'
    BY <2>1 DEF Reported, RowOK
  <2> QED
    BY <2>1, <2>2, <2>3
<1> QED
  BY <1>0, <1>1, <1>2, <1>3, <1>4, <1>5, <1>6, <1>7, StepKinds

\* The rows are well-formed at all times.
THEOREM ShapeHolds == Spec => []Shape
<1>1. Init => Shape
  BY InitShape
<1>2. Shape /\ [Next]_vars => Shape'
  BY NextShape
<1> QED
  BY <1>1, <1>2, PTL DEF Spec

-----------------------------------------------------------------------------
(* No sample is counted twice.                                             *)

LEMMA InitCount ==
  Init => CountedAreDue /\ CountedOnce
  BY DEF Init, CountedAreDue, CountedOnce, Reported

\* Owing something is for good, and it is enough to look at steps after which
\* nothing is owed.
LEMMA OwedGrows ==
  ASSUME [Next]_vars
  PROVE  owed \subseteq owed'
<1>1. CASE UNCHANGED vars
  BY <1>1 DEF vars
<1>2. CASE Next
  BY <1>2, StepKinds DEF Tick, StartPass, AddUp, RollUp, DeleteSamples,
     DeleteHourly, StatementFails, Restart
<1> QED
  BY <1>1, <1>2

\* A step that adds no reported row and no old sample, and leaves the pass where
\* it was, or finds no counted sample in the table, keeps the invariant.
LEMMA CountKept ==
  ASSUME CountedAreDue, CountedOnce, "samples" \notin owed,
         Reported' \subseteq Reported,
         \A r \in Reported : \A x \in r.from :
           x \in samples' =>
             /\ x \in samples
             /\ \/ gc' = gc
                \/ /\ gc.pc \in {"daily", "samples"}
                   /\ gc'.pc \in {"daily", "samples"}
                   /\ gc'.hourlyAt = gc.hourlyAt
                \/ gc.pc \notin {"daily", "samples"}
  PROVE  CountedAreDue' /\ CountedOnce'
<1>1. CountedOnce'
  BY DEF CountedOnce
<1>2. ASSUME NEW r \in Reported', NEW x \in r.from, x \in samples'
      PROVE  /\ gc'.pc \in {"daily", "samples"}
             /\ Before(x.at, SampleRetention, gc'.hourlyAt)
  <2>1. r \in Reported /\ x \in samples
    BY <1>2
  <2>2. /\ gc.pc \in {"daily", "samples"}
        /\ Before(x.at, SampleRetention, gc.hourlyAt)
    BY <2>1 DEF CountedAreDue
  <2>3. \/ gc' = gc
        \/ gc'.pc \in {"daily", "samples"} /\ gc'.hourlyAt = gc.hourlyAt
    BY <1>2, <2>1, <2>2
  <2> QED
    BY <2>2, <2>3
<1> QED
  BY <1>1, <1>2 DEF CountedAreDue

LEMMA NextCount ==
  ASSUME CountInv, [Next]_vars
  PROVE  CountedAreDue' /\ CountedOnce'
<1> SUFFICES ASSUME "samples" \notin owed'
             PROVE  CountedAreDue' /\ CountedOnce'
  BY DEF CountedAreDue, CountedOnce
<1> "samples" \notin owed
  BY OwedGrows
<1> Shape /\ CountedAreDue /\ CountedOnce
  BY DEF CountInv
<1>0. CASE UNCHANGED vars
  BY <1>0 DEF vars, Reported, CountedAreDue, CountedOnce
<1>1. ASSUME NEW S \in SUBSET Sessions, Tick(S)
      PROVE  CountedAreDue' /\ CountedOnce'
  <2>1. Reported' = Reported /\ gc' = gc
    BY <1>1 DEF Tick, Reported
  <2>2. \A r \in Reported : \A x \in r.from : x \in samples' => x \in samples
    <3> SUFFICES ASSUME NEW r \in Reported, NEW x \in r.from, x \in samples',
                        x \notin samples
                 PROVE  FALSE
      OBVIOUS
    <3>1. x.at = now + 1
      BY <1>1 DEF Tick
    <3>2. x.at <= now /\ now \in Nat
      BY DEF Shape, RowOK
    <3> QED
      BY <3>1, <3>2
  <2> QED
    BY <2>1, <2>2, CountKept
<1>2. CASE StartPass
  <2>1. Reported' = Reported /\ samples' = samples /\ gc.pc = "idle"
    BY <1>2 DEF StartPass, Reported
  <2> QED
    BY <2>1, CountKept
<1>3. CASE AddUp({x \in samples : Before(x.at, SampleRetention, now)})
  <2> DEFINE old == {x \in samples : Before(x.at, SampleRetention, now)}
  <2>1. Reported' = Reported \cup HourRows(old)
    BY <1>3, AddUpReported
  <2>2. samples' = samples /\ gc.pc = "hourly"
    BY <1>3 DEF AddUp
  <2>3. gc'.pc = "daily" /\ gc'.hourlyAt = now
    BY <1>3 DEF AddUp, Shape, Pass
  <2>4. \A r \in Reported : \A x \in r.from : x \notin samples
    BY <2>2 DEF CountedAreDue
  <2>5. \A r \in HourRows(old) : \A x \in r.from :
          x \in samples /\ Before(x.at, SampleRetention, now)
    BY HourRowsFacts
  <2>6. CountedAreDue'
    <3> SUFFICES ASSUME NEW r \in Reported', NEW x \in r.from, x \in samples
                 PROVE  Before(x.at, SampleRetention, now)
      BY <2>2, <2>3 DEF CountedAreDue
    <3> QED
      BY <2>1, <2>4, <2>5
  <2>7. ASSUME NEW r \in Reported', NEW q \in Reported', r # q
        PROVE  r.from \cap q.from = {}
    <3> HIDE DEF old
    <3>1. CASE r \in Reported /\ q \in Reported
      BY <3>1, <2>7 DEF CountedOnce
    <3>2. CASE r \in HourRows(old) /\ q \in HourRows(old)
      BY <3>2, <2>7, HourRowsApart
    <3>3. CASE r \in Reported /\ q \in HourRows(old)
      BY <3>3, <2>4, <2>5
    <3>4. CASE r \in HourRows(old) /\ q \in Reported
      BY <3>4, <2>4, <2>5
    <3> QED
      BY <2>1, <3>1, <3>2, <3>3, <3>4
  <2> QED
    BY <2>6, <2>7 DEF CountedOnce
<1>4. CASE RollUp({r \in hourly : Before(r.at, HourlyRetention, now)})
  <2>1. Reported' = Reported
    BY <1>4, RollUpReported
  <2>2. samples' = samples /\ gc.pc = "daily"
    BY <1>4 DEF RollUp
  <2>3. gc'.pc = "samples" /\ gc'.hourlyAt = gc.hourlyAt
    BY <1>4 DEF RollUp, Shape, Pass
  <2> QED
    BY <2>1, <2>2, <2>3, CountKept
<1>5. CASE DeleteSamples({x \in samples : Before(x.at, SampleRetention, now)})
  <2> DEFINE old == {x \in samples : Before(x.at, SampleRetention, now)}
  <2>1. Reported' = Reported /\ samples' = samples \ old
    BY <1>5 DEF DeleteSamples, Left, Undone, Reported
  <2>2. \A r \in Reported : \A x \in r.from : x \notin samples'
    <3> SUFFICES ASSUME NEW r \in Reported, NEW x \in r.from,
                        x \in samples, ~Before(x.at, SampleRetention, now)
                 PROVE  FALSE
      BY <2>1
    <3>1. Before(x.at, SampleRetention, gc.hourlyAt)
      BY DEF CountedAreDue
    <3>2. /\ x.at \in Nat /\ now \in Nat
          /\ gc.hourlyAt \in Nat /\ gc.hourlyAt <= now
      BY DEF Shape, Sample, Pass
    <3> QED
      BY <3>1, <3>2, LengthsAssumption DEF Before
  <2> QED
    BY <2>1, <2>2, CountKept
<1>6. CASE DeleteHourly({r \in hourly : Before(r.at, HourlyRetention, now)})
  <2>1. Reported' \subseteq Reported
    BY <1>6, DeleteHourlyReported
  <2>2. samples' = samples /\ gc.pc = "hours"
    BY <1>6 DEF DeleteHourly
  <2> QED
    BY <2>1, <2>2, CountKept
<1>7. CASE StatementFails
  <2>1. Reported' = Reported /\ samples' = samples
    BY <1>7 DEF StatementFails, Reported
  <2>2. gc.pc # "samples"
    BY <1>7 DEF StatementFails
  <2>3. gc.pc = "daily" => gc'.pc = "samples" /\ gc'.hourlyAt = gc.hourlyAt
    BY <1>7 DEF StatementFails, NextPc, Shape, Pass
  <2> QED
    BY <2>1, <2>2, <2>3, CountKept
<1>8. CASE Restart
  <2>1. Reported' = Reported /\ samples' = samples
    BY <1>8 DEF Restart, Reported
  <2>2. gc.pc \notin {"daily", "samples"}
    BY <1>8 DEF Restart, Owing
  <2> QED
    BY <2>1, <2>2, CountKept
<1> QED
  BY <1>0, <1>1, <1>2, <1>3, <1>4, <1>5, <1>6, <1>7, <1>8, StepKinds

\* Unless a deletion failed or was cut off, no sample goes into two hourly rows
\* (runRetention: the INSERTs do not look at what is there already).
THEOREM EachCountedOnce == Spec => []CountedOnce
<1>1. Init => CountInv
  BY InitShape, InitCount DEF CountInv
<1>2. CountInv /\ [Next]_vars => CountInv'
  <2> SUFFICES ASSUME CountInv, [Next]_vars PROVE CountInv'
    OBVIOUS
  <2>1. Shape'
    BY NextShape DEF CountInv
  <2> QED
    BY <2>1, NextCount DEF CountInv
<1>3. CountInv => CountedOnce
  BY DEF CountInv
<1> QED
  BY <1>1, <1>2, <1>3, PTL DEF Spec

-----------------------------------------------------------------------------
(* No hourly row is rolled up twice.                                       *)

LEMMA InitRoll ==
  Init => RolledUpAreDue /\ RolledUpOnce
  BY DEF Init, RolledUpAreDue, RolledUpOnce

\* A step that leaves the days alone, and adds no hourly row that is in one.
LEMMA RollKept ==
  ASSUME RolledUpAreDue, RolledUpOnce, "hours" \notin owed, daily' = daily,
         \A d \in daily : \A r \in d.from :
           r \in hourly' =>
             /\ r \in hourly
             /\ \/ gc' = gc
                \/ /\ gc.pc \in {"samples", "hours"}
                   /\ gc'.pc \in {"samples", "hours"}
                   /\ gc'.dailyAt = gc.dailyAt
                \/ gc.pc \notin {"samples", "hours"}
  PROVE  RolledUpAreDue' /\ RolledUpOnce'
<1>1. RolledUpOnce'
  BY DEF RolledUpOnce
<1>2. ASSUME NEW d \in daily, NEW r \in d.from, r \in hourly'
      PROVE  /\ gc'.pc \in {"samples", "hours"}
             /\ Before(r.at, HourlyRetention, gc'.dailyAt)
  <2>1. r \in hourly
    BY <1>2
  <2>2. /\ gc.pc \in {"samples", "hours"}
        /\ Before(r.at, HourlyRetention, gc.dailyAt)
    BY <2>1 DEF RolledUpAreDue
  <2>3. \/ gc' = gc
        \/ gc'.pc \in {"samples", "hours"} /\ gc'.dailyAt = gc.dailyAt
    BY <1>2, <2>1, <2>2
  <2> QED
    BY <2>2, <2>3
<1> QED
  BY <1>1, <1>2 DEF RolledUpAreDue

\* HourOf yields a number, so cutoffs can be compared.
LEMMA HourIsNat ==
  ASSUME NEW t \in Nat
  PROVE  HourOf(t) \in Nat
  BY LengthsAssumption DEF HourOf

\* What is before a cutoff stays before every later one.
LEMMA BeforeGrows ==
  ASSUME NEW at \in Int, NEW ret \in Nat, NEW t \in Nat, NEW u \in Nat,
         t <= u, Before(at, ret, t)
  PROVE  Before(at, ret, u)
  BY DEF Before

LEMMA NextRoll ==
  ASSUME RollInv, HourTimes, [Next]_vars
  PROVE  RolledUpAreDue' /\ RolledUpOnce'
<1> SUFFICES ASSUME "hours" \notin owed'
             PROVE  RolledUpAreDue' /\ RolledUpOnce'
  BY DEF RolledUpAreDue, RolledUpOnce
<1> "hours" \notin owed
  BY OwedGrows
<1> Shape /\ RolledUpAreDue /\ RolledUpOnce
  BY DEF RollInv
<1>0. CASE UNCHANGED vars
  BY <1>0 DEF vars, RolledUpAreDue, RolledUpOnce
<1>1. ASSUME NEW S \in SUBSET Sessions, Tick(S)
      PROVE  RolledUpAreDue' /\ RolledUpOnce'
  <2>1. daily' = daily /\ hourly' = hourly /\ gc' = gc
    BY <1>1 DEF Tick
  <2> QED
    BY <2>1, RollKept
<1>2. CASE StartPass
  <2>1. daily' = daily /\ hourly' = hourly /\ gc.pc = "idle"
    BY <1>2 DEF StartPass
  <2> QED
    BY <2>1, RollKept
<1>3. CASE AddUp({x \in samples : Before(x.at, SampleRetention, now)})
  <2> DEFINE old == {x \in samples : Before(x.at, SampleRetention, now)}
  <2>1. daily' = daily /\ hourly' = hourly \cup HourRows(old) /\ gc.pc = "hourly"
    BY <1>3 DEF AddUp
  <2>2. \A r \in HourRows(old) : r.batch = batches + 1
    BY HourRowsFacts
  <2>3. \A d \in daily : \A r \in d.from : r.batch <= batches /\ batches \in Nat
    BY DEF Shape, RowOK, Reported
  <2>4. \A d \in daily : \A r \in d.from : r \notin HourRows(old)
    BY <2>2, <2>3
  <2> QED
    BY <2>1, <2>4, RollKept
<1>4. CASE RollUp({r \in hourly : Before(r.at, HourlyRetention, now)})
  <2> DEFINE old == {r \in hourly : Before(r.at, HourlyRetention, now)}
  <2>1. /\ daily' = daily \cup DayRows(old) /\ hourly' = hourly
        /\ gc.pc = "daily" /\ gc'.pc = "samples" /\ gc'.dailyAt = now
    BY <1>4 DEF RollUp, Shape, Pass
  <2>2. \A d \in daily : \A r \in d.from : r \notin hourly
    BY <2>1 DEF RolledUpAreDue
  <2>3. \A d \in DayRows(old) : \A r \in d.from :
          r \in hourly /\ Before(r.at, HourlyRetention, now)
    BY DayRowsFacts
  <2>4. RolledUpAreDue'
    <3> SUFFICES ASSUME NEW d \in daily', NEW r \in d.from, r \in hourly
                 PROVE  Before(r.at, HourlyRetention, now)
      BY <2>1 DEF RolledUpAreDue
    <3> QED
      BY <2>1, <2>2, <2>3
  <2>5. ASSUME NEW d \in daily', NEW e \in daily', d # e
        PROVE  d.from \cap e.from = {}
    <3> HIDE DEF old
    <3>1. CASE d \in daily /\ e \in daily
      BY <3>1, <2>5 DEF RolledUpOnce
    <3>2. CASE d \in DayRows(old) /\ e \in DayRows(old)
      BY <3>2, <2>5, DayRowsApart
    <3>3. CASE d \in daily /\ e \in DayRows(old)
      BY <3>3, <2>2, <2>3
    <3>4. CASE d \in DayRows(old) /\ e \in daily
      BY <3>4, <2>2, <2>3
    <3> QED
      BY <2>1, <3>1, <3>2, <3>3, <3>4
  <2> QED
    BY <2>4, <2>5 DEF RolledUpOnce
<1>5. CASE DeleteSamples({x \in samples : Before(x.at, SampleRetention, now)})
  <2>1. /\ daily' = daily /\ hourly' = hourly /\ gc.pc = "samples"
        /\ gc' = [gc EXCEPT !.pc = "hours"]
    BY <1>5 DEF DeleteSamples
  <2>2. gc'.pc = "hours" /\ gc'.dailyAt = gc.dailyAt
    BY <2>1 DEF Shape, Pass
  <2> QED
    BY <2>1, <2>2, RollKept
<1>6. CASE DeleteHourly({r \in hourly : Before(r.at, HourlyRetention, now)})
  <2> DEFINE old == {r \in hourly : Before(r.at, HourlyRetention, now)}
  <2>1. daily' = daily /\ hourly' = hourly \ old
    BY <1>6 DEF DeleteHourly, Left, Undone
  <2>2. \A d \in daily : \A r \in d.from : r \notin hourly'
    <3> SUFFICES ASSUME NEW d \in daily, NEW r \in d.from,
                        r \in hourly, ~Before(r.at, HourlyRetention, now)
                 PROVE  FALSE
      BY <2>1
    <3>1. Before(r.at, HourlyRetention, gc.dailyAt)
      BY DEF RolledUpAreDue
    <3>2. r.at \in Nat
      BY DEF HourTimes, Reported
    <3>3. now \in Nat /\ gc.dailyAt \in Nat /\ gc.dailyAt <= now
      BY DEF Shape, Pass
    <3> QED
      BY <3>1, <3>2, <3>3, LengthsAssumption, BeforeGrows
  <2> QED
    BY <2>1, <2>2, RollKept
<1>7. CASE StatementFails
  <2>1. daily' = daily /\ hourly' = hourly
    BY <1>7 DEF StatementFails
  <2>2. gc.pc # "hours"
    BY <1>7 DEF StatementFails
  <2>3. gc.pc = "samples" => gc'.pc = "hours" /\ gc'.dailyAt = gc.dailyAt
    BY <1>7 DEF StatementFails, NextPc, Shape, Pass
  <2> QED
    BY <2>1, <2>2, <2>3, RollKept
<1>8. CASE Restart
  <2>1. daily' = daily /\ hourly' = hourly
    BY <1>8 DEF Restart
  <2>2. gc.pc \notin {"samples", "hours"}
    BY <1>8 DEF Restart, Owing
  <2> QED
    BY <2>1, <2>2, RollKept
<1> QED
  BY <1>0, <1>1, <1>2, <1>3, <1>4, <1>5, <1>6, <1>7, <1>8, StepKinds

LEMMA NextHourTimes ==
  ASSUME Shape, HourTimes, [Next]_vars
  PROVE  HourTimes'
<1>1. CASE AddUp({x \in samples : Before(x.at, SampleRetention, now)})
  <2> DEFINE old == {x \in samples : Before(x.at, SampleRetention, now)}
  <2>1. \A r \in HourRows(old) : r.at \in Nat
    <3> SUFFICES ASSUME NEW r \in HourRows(old) PROVE r.at \in Nat
      OBVIOUS
    <3>1. PICK x \in old : r = HourRow(Owner[x.session], HourOf(x.at), old)
      BY DEF HourRows
    <3>2. x.at \in Nat
      BY DEF Shape, Sample
    <3> QED
      BY <3>1, <3>2, HourIsNat DEF HourRow
  <2>2. Reported' = Reported \cup HourRows(old)
    BY <1>1, AddUpReported
  <2> QED
    BY <2>1, <2>2 DEF HourTimes
<1>2. CASE ~AddUp({x \in samples : Before(x.at, SampleRetention, now)})
  <2>1. CASE RollUp({r \in hourly : Before(r.at, HourlyRetention, now)})
    BY <2>1, RollUpReported DEF HourTimes
  <2>2. CASE DeleteHourly({r \in hourly : Before(r.at, HourlyRetention, now)})
    BY <2>2, DeleteHourlyReported DEF HourTimes
  <2>3. CASE UNCHANGED <<hourly, daily>>
    BY <2>3 DEF HourTimes, Reported
  <2> QED
    BY <1>2, <2>1, <2>2, <2>3, StepKinds DEF vars, Tick, StartPass,
       DeleteSamples, StatementFails, Restart
<1> QED
  BY <1>1, <1>2

\* Unless a deletion failed or was cut off, no hourly row goes into two days.
THEOREM EachRolledUpOnce == Spec => []RolledUpOnce
<1>1. Init => RollInv /\ HourTimes
  BY InitShape, InitRoll DEF RollInv, HourTimes, Init, Reported
<1>2. RollInv /\ HourTimes /\ [Next]_vars => RollInv' /\ HourTimes'
  <2> SUFFICES ASSUME RollInv, HourTimes, [Next]_vars
               PROVE  RollInv' /\ HourTimes'
    OBVIOUS
  <2>1. Shape /\ Shape'
    BY NextShape DEF RollInv
  <2>2. HourTimes'
    BY <2>1, NextHourTimes
  <2> QED
    BY <2>1, <2>2, NextRoll DEF RollInv
<1>3. RollInv => RolledUpOnce
  BY DEF RollInv
<1> QED
  BY <1>1, <1>2, <1>3, PTL DEF Spec

-----------------------------------------------------------------------------
(* What is deleted has been counted.                                       *)

\* Nothing is before the cutoff of a statement that was not executed.
LEMMA NothingBeforeZero ==
  ASSUME NEW at \in Nat, NEW ret \in Nat
  PROVE  ~Before(at, ret, 0)
  BY DEF Before

LEMMA NextFresh ==
  ASSUME Shape, Fresh, [Next]_vars
  PROVE  Fresh'
<1>1. CASE UNCHANGED vars
  BY <1>1 DEF vars, Fresh
<1>2. CASE UNCHANGED gc
  BY <1>2 DEF Fresh
<1>3. CASE gc' = NoPass \/ gc' = [NoPass EXCEPT !.pc = "hourly"]
  BY <1>3 DEF Fresh, NoPass
<1>4. CASE AddUp({x \in samples : Before(x.at, SampleRetention, now)})
  BY <1>4 DEF AddUp, Fresh, Shape, Pass
<1>5. CASE RollUp({r \in hourly : Before(r.at, HourlyRetention, now)})
  BY <1>5 DEF RollUp, Fresh, Shape, Pass
<1>6. CASE DeleteSamples({x \in samples : Before(x.at, SampleRetention, now)})
  BY <1>6 DEF DeleteSamples, Fresh, Shape, Pass
<1>7. CASE StatementFails /\ gc.pc # "hours"
  <2>1. gc' = [gc EXCEPT !.pc = NextPc(gc.pc)] /\ gc \in Pass /\ gc.pc # "idle"
    BY <1>7 DEF StatementFails, Shape
  <2>2. gc'.hourlyAt = gc.hourlyAt /\ gc'.dailyAt = gc.dailyAt
    BY <2>1 DEF Pass
  <2>3. /\ gc'.pc = NextPc(gc.pc)
        /\ gc.pc \in {"hourly", "daily", "samples"}
    BY <1>7, <2>1 DEF Pass
  <2> QED
    BY <2>2, <2>3 DEF Fresh, NextPc
<1> QED
  BY <1>1, <1>2, <1>3, <1>4, <1>5, <1>6, <1>7, StepKinds
     DEF Tick, StartPass, DeleteHourly, StatementFails, Restart

LEMMA InitKeep ==
  Init => DueAreCounted /\ DueAreRolledUp
  BY DEF Init, NoPass, DueAreCounted, DueAreRolledUp

LEMMA NextKeep ==
  ASSUME KeepInv, [Next]_vars
  PROVE  DueAreCounted' /\ DueAreRolledUp'
<1> Shape /\ Fresh /\ HourTimes /\ DueAreCounted /\ DueAreRolledUp
  BY DEF KeepInv
<1>0. CASE UNCHANGED vars
  BY <1>0 DEF vars, DueAreCounted, DueAreRolledUp, Counted, RolledUp, Reported
<1>1. ASSUME NEW S \in SUBSET Sessions, Tick(S)
      PROVE  DueAreCounted' /\ DueAreRolledUp'
  <2>1. hourly' = hourly /\ daily' = daily /\ gc' = gc
    BY <1>1 DEF Tick
  <2>2. \A x \in samples' \ samples : ~Before(x.at, SampleRetention, gc.hourlyAt)
    <3> SUFFICES ASSUME NEW x \in samples', x \notin samples,
                        Before(x.at, SampleRetention, gc.hourlyAt)
                 PROVE  FALSE
      OBVIOUS
    <3>1. x.at = now + 1
      BY <1>1 DEF Tick
    <3>2. now \in Nat /\ gc.hourlyAt \in Nat /\ gc.hourlyAt <= now
      BY DEF Shape, Pass
    <3> QED
      BY <3>1, <3>2, LengthsAssumption DEF Before
  <2> QED
    BY <2>1, <2>2 DEF DueAreCounted, DueAreRolledUp, Counted, RolledUp, Reported
<1>2. CASE StartPass
  <2>1. gc'.pc = "hourly"
    BY <1>2 DEF StartPass, NoPass
  <2> QED
    BY <2>1 DEF DueAreCounted, DueAreRolledUp
<1>3. CASE AddUp({x \in samples : Before(x.at, SampleRetention, now)})
  <2> DEFINE old == {x \in samples : Before(x.at, SampleRetention, now)}
  <2>1. samples' = samples /\ gc'.pc = "daily" /\ gc'.hourlyAt = now
    BY <1>3 DEF AddUp, Shape, Pass
  <2>2. Reported' = Reported \cup HourRows(old)
    BY <1>3, AddUpReported
  <2>3. \A x \in old : \E r \in HourRows(old) : x \in r.from
    BY HourRowsCover
  <2>4. \A x \in samples : Before(x.at, SampleRetention, now) => Counted(x)'
    BY <2>2, <2>3 DEF Counted
  <2> QED
    BY <2>1, <2>4 DEF DueAreCounted, DueAreRolledUp
<1>4. CASE RollUp({r \in hourly : Before(r.at, HourlyRetention, now)})
  <2> DEFINE old == {r \in hourly : Before(r.at, HourlyRetention, now)}
  <2>1. /\ samples' = samples /\ hourly' = hourly /\ gc.pc = "daily"
        /\ daily' = daily \cup DayRows(old)
    BY <1>4 DEF RollUp
  <2>2. gc'.hourlyAt = gc.hourlyAt /\ gc'.dailyAt = now /\ gc'.pc = "samples"
    BY <1>4 DEF RollUp, Shape, Pass
  <2>3. Reported' = Reported
    BY <1>4, RollUpReported
  <2>4. \A r \in old : \E d \in DayRows(old) : r \in d.from
    BY DayRowsCover
  <2>5. \A r \in hourly : Before(r.at, HourlyRetention, now) => RolledUp(r)'
    BY <2>1, <2>4 DEF RolledUp
  <2> QED
    BY <2>1, <2>2, <2>3, <2>5 DEF DueAreCounted, DueAreRolledUp, Counted
<1>5. CASE DeleteSamples({x \in samples : Before(x.at, SampleRetention, now)})
  <2>1. /\ hourly' = hourly /\ daily' = daily /\ gc.pc = "samples"
        /\ gc' = [gc EXCEPT !.pc = "hours"]
    BY <1>5 DEF DeleteSamples
  <2>2. gc'.pc = "hours" /\ gc'.dailyAt = gc.dailyAt
    BY <2>1 DEF Shape, Pass
  <2> QED
    BY <2>1, <2>2 DEF DueAreCounted, DueAreRolledUp, RolledUp
<1>6. CASE DeleteHourly({r \in hourly : Before(r.at, HourlyRetention, now)})
  <2>1. gc'.pc = "idle"
    BY <1>6 DEF DeleteHourly, NoPass
  <2> QED
    BY <2>1 DEF DueAreCounted, DueAreRolledUp
<1>7. CASE StatementFails
  <2>1. UNCHANGED <<samples, hourly, daily>>
    BY <1>7 DEF StatementFails
  <2>2. CASE gc.pc = "hours"
    <3>1. gc'.pc = "idle"
      BY <1>7, <2>2 DEF StatementFails, NoPass
    <3> QED
      BY <3>1 DEF DueAreCounted, DueAreRolledUp
  <2>3. CASE gc.pc # "hours"
    <3>1. gc'.hourlyAt = gc.hourlyAt /\ gc'.dailyAt = gc.dailyAt
      BY <1>7, <2>3 DEF StatementFails, Shape, Pass
    <3>2. /\ gc'.pc \in {"daily", "samples"} => gc.pc \in {"hourly", "daily"}
          /\ gc'.pc \in {"samples", "hours"} => gc.pc \in {"daily", "samples"}
      BY <1>7, <2>3 DEF StatementFails, NextPc, Shape, Pass
    <3>3. /\ gc.pc = "hourly" => gc.hourlyAt = 0
          /\ gc.pc = "daily" => gc.dailyAt = 0
      BY DEF Fresh
    <3>4. ASSUME NEW x \in samples
          PROVE  ~Before(x.at, SampleRetention, 0)
      BY LengthsAssumption, NothingBeforeZero DEF Shape, Sample
    <3>5. ASSUME NEW r \in hourly
          PROVE  ~Before(r.at, HourlyRetention, 0)
      BY LengthsAssumption, NothingBeforeZero DEF HourTimes, Reported
    <3>6. DueAreCounted'
      BY <2>1, <3>1, <3>2, <3>3, <3>4 DEF DueAreCounted, Counted, Reported
    <3>7. DueAreRolledUp'
      BY <2>1, <3>1, <3>2, <3>3, <3>5 DEF DueAreRolledUp, RolledUp
    <3> QED
      BY <3>6, <3>7
  <2> QED
    BY <2>2, <2>3
<1>8. CASE Restart
  <2>1. gc'.pc = "idle"
    BY <1>8 DEF Restart, NoPass
  <2> QED
    BY <2>1 DEF DueAreCounted, DueAreRolledUp
<1> QED
  BY <1>0, <1>1, <1>2, <1>3, <1>4, <1>5, <1>6, <1>7, <1>8, StepKinds

LEMMA KeepHolds ==
  Spec => []KeepInv
<1>1. Init => KeepInv
  BY InitShape, InitKeep DEF KeepInv, Fresh, HourTimes, Init, NoPass, Reported
<1>2. KeepInv /\ [Next]_vars => KeepInv'
  BY NextShape, NextFresh, NextHourTimes, NextKeep DEF KeepInv
<1> QED
  BY <1>1, <1>2, PTL DEF Spec

\* A deletion takes no sample of its pass's cutoff that has not been counted,
\* and none at all if no time passed since.
LEMMA DeletedCounted ==
  ASSUME KeepInv, [Next]_vars, NEW x \in samples, x \notin samples',
         gc.hourlyAt = now \/ Before(x.at, SampleRetention, gc.hourlyAt)
  PROVE  Counted(x)
<1>1. samples' # samples
  OBVIOUS
<1>2. DeleteSamples({y \in samples : Before(y.at, SampleRetention, now)})
  BY <1>1, StepKinds DEF vars, Tick, StartPass, AddUp, RollUp, DeleteHourly,
     StatementFails, Restart
<1>3. gc.pc = "samples" /\ Before(x.at, SampleRetention, now)
  BY <1>2 DEF DeleteSamples, Left
<1> QED
  BY <1>3 DEF KeepInv, DueAreCounted

LEMMA DeletedRolledUp ==
  ASSUME KeepInv, [Next]_vars, NEW r \in hourly, r \notin hourly',
         gc.dailyAt = now \/ Before(r.at, HourlyRetention, gc.dailyAt)
  PROVE  RolledUp(r)
<1>1. hourly' # hourly /\ ~(hourly \subseteq hourly')
  OBVIOUS
<1>2. DeleteHourly({q \in hourly : Before(q.at, HourlyRetention, now)})
  BY <1>1, StepKinds DEF vars, Tick, StartPass, AddUp, RollUp, DeleteSamples,
     StatementFails, Restart
<1>3. gc.pc = "hours" /\ Before(r.at, HourlyRetention, now)
  BY <1>2 DEF DeleteHourly, Left
<1> QED
  BY <1>3 DEF KeepInv, DueAreRolledUp

\* Whatever fails in between, a sample that is deleted has been counted, unless
\* the statement that counts it failed, or the sample crossed the cutoff between
\* the two statements (runRetention, "so the data is preserved").
THEOREM NoSampleLost == Spec => PrunedWereCounted
<1>1. KeepInv /\ [Next]_vars =>
        [\A x \in samples \ samples' :
           (gc.hourlyAt = now \/ Before(x.at, SampleRetention, gc.hourlyAt))
             => Counted(x)]_vars
  BY DeletedCounted
<1> QED
  BY <1>1, KeepHolds, PTL DEF Spec, PrunedWereCounted

\* The same of hourly rows and days.
THEOREM NoHourLost == Spec => PrunedWereRolledUp
<1>1. KeepInv /\ [Next]_vars =>
        [\A r \in hourly \ hourly' :
           (gc.dailyAt = now \/ Before(r.at, HourlyRetention, gc.dailyAt))
             => RolledUp(r)]_vars
  BY DeletedRolledUp
<1> QED
  BY <1>1, KeepHolds, PTL DEF Spec, PrunedWereRolledUp

-----------------------------------------------------------------------------
\* While no deletion was skipped, no sample is added up into two hourly rows and no
\* hourly row into two days, however the statements of passes, their failures and
\* restarts follow each other.
THEOREM AddedUpOnceHolds == Spec => []AddedUpOnce
<1>1. CountedOnce /\ RolledUpOnce => AddedUpOnce
  BY DEF AddedUpOnce
<1> QED
  BY <1>1, EachCountedOnce, EachRolledUpOnce, PTL

\* PruneOldSamples and PruneOldHourly delete nothing that the same pass, or one
\* before it, should have added up and did not, unless a statement failed.
THEOREM NothingLost == Spec => PrunedWereAggregated
BY NoSampleLost, NoHourLost DEF PrunedWereAggregated

-----------------------------------------------------------------------------
(* The sums in the rows.                                                   *)

\* The sum of the volumes that rows report.
Total(S) == Sum([r \in S |-> r.delta], S)

\* What the session of each group transferred.
VolumeOf(S) == [s \in {x.session : x \in S} |-> Volume({x \in S : x.session = s})]

\* The sums that the queries make are those of SumTheorems.
LEMMA DeltasAreSum ==
  ASSUME NEW S, IsFiniteSet(S)
  PROVE  MapThenSumSet(LAMBDA r : r.delta, S) = Total(S)
<1> DEFINE f == [r \in S |-> r.delta]
           Build(g) == [s \in SUBSET S |->
                          IF s = {} THEN 0
                          ELSE LET x == CHOOSE x \in s : TRUE
                               IN  x.delta + g[s \ {x}]]
           it == CHOOSE g : g = Build(g)
<1>1. PICK g : Sums(g, f, S)
  BY SumsExist
<1>2. g = Build(g)
  BY <1>1, FirstIsIn DEF Sums, First
<1>3. it = Build(it)
  <2> HIDE DEF Build
  <2> QED
    BY <1>2
<1>4. Sums(it, f, S)
  <2> HIDE DEF it
  <2> QED
    BY <1>3, FirstIsIn DEF Sums, First
<1>5. MapThenSumSet(LAMBDA r : r.delta, S) = it[S]
  BY DEF MapThenSumSet, MapThenFoldSet
<1>6. it[S] = Sum(f, S)
  <2> HIDE DEF it, f
  <2> QED
    BY <1>4, SumsIsSum
<1> QED
  BY <1>5, <1>6 DEF Total

LEMMA TransferIsSum ==
  ASSUME NEW S, IsFiniteSet({x.session : x \in S})
  PROVE  Transfer(S) = Sum(VolumeOf(S), {x.session : x \in S})
<1> DEFINE T == {x.session : x \in S}
           f == VolumeOf(S)
           Build(g) == [s \in SUBSET T |->
                          IF s = {} THEN 0
                          ELSE LET t == CHOOSE t \in s : TRUE
                               IN  Volume({x \in S : x.session = t}) + g[s \ {t}]]
           it == CHOOSE g : g = Build(g)
<1>0. IsFiniteSet(T)
  OBVIOUS
<1>1. PICK g : Sums(g, f, T)
  BY SumsExist
<1>2. g = Build(g)
  BY <1>1, FirstIsIn DEF Sums, First, VolumeOf
<1>3. it = Build(it)
  <2> HIDE DEF Build
  <2> QED
    BY <1>2
<1>4. Sums(it, f, T)
  <2> HIDE DEF it
  <2> QED
    BY <1>3, FirstIsIn DEF Sums, First, VolumeOf
<1>5. Transfer(S) = it[T]
  BY DEF Transfer, MapThenSumSet, MapThenFoldSet
<1>6. it[T] = Sum(f, T)
  <2> HIDE DEF it, f, T
  <2> QED
    BY <1>0, <1>4, SumsIsSum
<1> QED
  BY <1>5, <1>6

LEMMA SpreadIsSum ==
  ASSUME NEW S, IsFiniteSet(S), NEW t
  PROVE  MapThenSumSet(LAMBDA s : Bytes[s][t] - Bytes[s][0], S)
           = Sum([s \in S |-> Bytes[s][t] - Bytes[s][0]], S)
<1> DEFINE f == [s \in S |-> Bytes[s][t] - Bytes[s][0]]
           Build(g) == [u \in SUBSET S |->
                          IF u = {} THEN 0
                          ELSE LET x == CHOOSE x \in u : TRUE
                               IN  (Bytes[x][t] - Bytes[x][0]) + g[u \ {x}]]
           it == CHOOSE g : g = Build(g)
<1>1. PICK g : Sums(g, f, S)
  BY SumsExist
<1>2. g = Build(g)
  BY <1>1, FirstIsIn DEF Sums, First
<1>3. it = Build(it)
  <2> HIDE DEF Build
  <2> QED
    BY <1>2
<1>4. Sums(it, f, S)
  <2> HIDE DEF it
  <2> QED
    BY <1>3, FirstIsIn DEF Sums, First
<1>5. MapThenSumSet(LAMBDA s : Bytes[s][t] - Bytes[s][0], S) = it[S]
  BY DEF MapThenSumSet, MapThenFoldSet
<1>6. it[S] = Sum(f, S)
  <2> HIDE DEF it, f
  <2> QED
    BY <1>4, SumsIsSum
<1> QED
  BY <1>5, <1>6

\* A session's samples between two times show no more than it moved between them.
LEMMA VolumeWithin ==
  ASSUME NEW S \in SUBSET Sample, S # {}, NEW s \in Sessions,
         NEW k \in 0 .. MaxTime, NEW c \in 0 .. MaxTime,
         \A x \in S : x.session = s /\ k <= x.at /\ x.at <= c
  PROVE  Volume(S) \in Nat /\ Volume(S) + Bytes[s][k] <= Bytes[s][c]
<1> DEFINE b == {Bytes[x.session][x.at] : x \in S}
<1>1. /\ Bytes[s] \in [0 .. MaxTime -> Nat]
      /\ \A t, u \in 0 .. MaxTime : t <= u => Bytes[s][t] <= Bytes[s][u]
  BY SessionsAssumption
<1>2. \A x \in S : x.at \in 0 .. MaxTime /\ x.session = s
  BY LengthsAssumption DEF Sample
<1>3. \A y \in b : y \in Nat /\ Bytes[s][k] <= y /\ y <= Bytes[s][c]
  BY <1>1, <1>2
<1>4. b \in SUBSET Nat /\ b # {} /\ Bytes[s][c] \in Nat /\ Bytes[s][k] \in Nat
  BY <1>1, <1>3
<1> HIDE DEF b
<1>5. Max(b) \in b
  <2>1. \E m \in b : \A y \in b : m >= y
    BY <1>3, <1>4, GreatestNumber
  <2> QED
    BY <2>1 DEF Max
<1>6. Min(b) \in b /\ \A y \in b : Min(b) <= y
  <2>1. \E m \in b : \A y \in b : m =< y
    BY <1>4, LeastNumber
  <2> QED
    BY <2>1 DEF Min
<1>7. Volume(S) = Max(b) - Min(b)
  BY DEF Volume, b
<1>8. Max(b) \in Nat /\ Min(b) \in Nat /\ Min(b) <= Max(b)
  BY <1>3, <1>5, <1>6
<1> QED
  BY <1>3, <1>4, <1>5, <1>6, <1>7, <1>8

\* The sessions of a name, and what they had transferred by a time.
Own(cn) == {s \in Sessions : Owner[s] = cn}

MovedBy(t) == [s \in Sessions |-> Bytes[s][t] - Bytes[s][0]]

Moved(cn, t) == Sum(MovedBy(t), Own(cn))

LEMMA OwnFinite ==
  ASSUME NEW cn
  PROVE  IsFiniteSet(Own(cn)) /\ Own(cn) \subseteq Sessions
<1>1. Own(cn) \in SUBSET Sessions
  BY DEF Own
<1> QED
  BY <1>1, SessionsAssumption, FS_Subset

LEMMA MovedByGrows ==
  ASSUME NEW s \in Sessions, NEW k \in 0 .. MaxTime, NEW c \in 0 .. MaxTime,
         k <= c
  PROVE  /\ MovedBy(k)[s] \in Nat /\ MovedBy(c)[s] \in Nat
         /\ MovedBy(k)[s] <= MovedBy(c)[s]
         /\ MovedBy(k)[s] + Bytes[s][0] = Bytes[s][k]
         /\ MovedBy(c)[s] + Bytes[s][0] = Bytes[s][c]
         /\ Bytes[s][0] \in Nat
<1>1. /\ Bytes[s] \in [0 .. MaxTime -> Nat]
      /\ \A t, u \in 0 .. MaxTime : t <= u => Bytes[s][t] <= Bytes[s][u]
  BY SessionsAssumption
<1>2. 0 \in 0 .. MaxTime /\ 0 <= k /\ 0 <= c
  BY LengthsAssumption
<1>3. /\ Bytes[s][0] \in Nat /\ Bytes[s][k] \in Nat /\ Bytes[s][c] \in Nat
      /\ Bytes[s][0] <= Bytes[s][k] /\ Bytes[s][0] <= Bytes[s][c]
      /\ Bytes[s][k] <= Bytes[s][c]
  BY <1>1, <1>2
<1> QED
  BY <1>3 DEF MovedBy

LEMMA MovedIsNat ==
  ASSUME NEW cn, NEW t \in 0 .. MaxTime
  PROVE  Moved(cn, t) \in Nat
<1>1. \A s \in Own(cn) : MovedBy(t)[s] \in Nat
  BY MovedByGrows, OwnFinite
<1> QED
  BY <1>1, OwnFinite, SumIsNat DEF Moved

\* What samples of a name between two times add up to is no more than what its
\* sessions moved between them.
LEMMA TransferWithin ==
  ASSUME NEW S \in SUBSET Sample, NEW cn,
         NEW k \in 0 .. MaxTime, NEW c \in 0 .. MaxTime, k <= c,
         \A x \in S : Owner[x.session] = cn /\ k <= x.at /\ x.at <= c
  PROVE  Transfer(S) \in Nat /\ Transfer(S) + Moved(cn, k) <= Moved(cn, c)
<1> DEFINE T == {x.session : x \in S}
           v == VolumeOf(S)
<1>1. T \in SUBSET Own(cn) /\ Own(cn) \subseteq Sessions
  BY DEF Own, Sample
<1>2. IsFiniteSet(T)
  BY <1>1, OwnFinite, FS_Subset
<1>3. ASSUME NEW s \in T
      PROVE  v[s] \in Nat /\ v[s] + MovedBy(k)[s] <= MovedBy(c)[s]
  <2> DEFINE P == {x \in S : x.session = s}
  <2>1. P \in SUBSET Sample /\ P # {} /\ s \in Sessions
    BY <1>1
  <2>2. \A x \in P : x.session = s /\ k <= x.at /\ x.at <= c
    OBVIOUS
  <2>3. v[s] = Volume(P)
    BY DEF VolumeOf
  <2> HIDE DEF P
  <2>4. Volume(P) \in Nat /\ Volume(P) + Bytes[s][k] <= Bytes[s][c]
    BY <2>1, <2>2, VolumeWithin
  <2> HIDE DEF T, v
  <2>5. /\ MovedBy(k)[s] \in Nat /\ MovedBy(c)[s] \in Nat /\ Bytes[s][0] \in Nat
        /\ MovedBy(k)[s] + Bytes[s][0] = Bytes[s][k]
        /\ MovedBy(c)[s] + Bytes[s][0] = Bytes[s][c]
    BY <2>1, MovedByGrows
  <2> QED
    BY <2>3, <2>4, <2>5
<1>4. Transfer(S) = Sum(v, T)
  BY <1>2, TransferIsSum
<1>5. \A s \in Own(cn) : /\ MovedBy(k)[s] \in Nat /\ MovedBy(c)[s] \in Nat
                         /\ MovedBy(k)[s] <= MovedBy(c)[s]
  BY <1>1, MovedByGrows
<1> HIDE DEF T, v
<1>6. Sum(v, T) \in Nat
  BY <1>2, <1>3, SumIsNat
<1>7. Sum(v, T) + Moved(cn, k) <= Moved(cn, c)
  BY <1>1, <1>3, <1>5, OwnFinite, SumWithin DEF Moved
<1> QED
  BY <1>4, <1>6, <1>7

\* The rows of a name among those of a table.
Of(cn, rows) == {r \in rows : r.cn = cn}

LEMMA HourRowsFinite ==
  ASSUME NEW S, IsFiniteSet(S)
  PROVE  IsFiniteSet(HourRows(S))
<1> DEFINE f == [x \in S |-> HourRow(Owner[x.session], HourOf(x.at), S)]
<1>1. HourRows(S) = {f[x] : x \in S}
  BY DEF HourRows
<1> HIDE DEF f
<1> QED
  BY <1>1, ImageFinite

LEMMA DayRowsFinite ==
  ASSUME NEW H, IsFiniteSet(H)
  PROVE  IsFiniteSet(DayRows(H))
<1> DEFINE f == [r \in H |-> DayRow(r.cn, DayOf(r.at), H)]
<1>1. DayRows(H) = {f[r] : r \in H}
  BY DEF DayRows
<1> HIDE DEF f
<1> QED
  BY <1>1, ImageFinite

LEMMA TotalFacts ==
  ASSUME NEW S, IsFiniteSet(S), \A r \in S : r.delta \in Nat
  PROVE  /\ Total(S) \in Nat
         /\ \A T \in SUBSET S : Total(T) \in Nat /\ Total(T) <= Total(S)
<1> DEFINE f == [r \in S |-> r.delta]
<1>1. \A x \in S : f[x] \in Nat
  OBVIOUS
<1>2. ASSUME NEW T \in SUBSET S
      PROVE  Total(T) = Sum(f, T) /\ Sum(f, T) \in Nat /\ Sum(f, T) <= Sum(f, S)
  <2>1. IsFiniteSet(T)
    BY FS_Subset
  <2>2. Total(T) = Sum(f, T)
    BY <2>1, SumSame DEF Total
  <2> HIDE DEF f
  <2> QED
    BY <1>1, <2>1, <2>2, SumIsNat, SumSubset
<1>3. Total(S) = Sum(f, S)
  BY DEF Total
<1> HIDE DEF f
<1> QED
  BY <1>1, <1>2, <1>3, SumIsNat

LEMMA TotalUnion ==
  ASSUME NEW S, IsFiniteSet(S), NEW T, IsFiniteSet(T),
         \A r \in S \cup T : r.delta \in Nat
  PROVE  Total(S \cup T) <= Total(S) + Total(T)
<1> DEFINE f == [r \in S \cup T |-> r.delta]
<1>1. Total(S) = Sum(f, S) /\ Total(T) = Sum(f, T) /\ Total(S \cup T) = Sum(f, S \cup T)
  BY SumSame DEF Total
<1>2. \A x \in S \cup T : f[x] \in Nat
  OBVIOUS
<1> HIDE DEF f
<1> QED
  BY <1>1, <1>2, SumUnion

LEMMA TotalSplit ==
  ASSUME NEW S, IsFiniteSet(S), \A r \in S : r.delta \in Nat, NEW T \in SUBSET S
  PROVE  Total(S) = Total(T) + Total(S \ T)
<1> DEFINE f == [r \in S |-> r.delta]
<1>0. IsFiniteSet(T) /\ IsFiniteSet(S \ T)
  BY FS_Subset
<1>1. Total(S) = Sum(f, S) /\ Total(T) = Sum(f, T) /\ Total(S \ T) = Sum(f, S \ T)
  BY <1>0, SumSame DEF Total
<1>2. \A x \in S : f[x] \in Nat
  OBVIOUS
<1> HIDE DEF f
<1> QED
  BY <1>1, <1>2, SumSplit

-----------------------------------------------------------------------------
(* The hours of one INSERT follow each other.                              *)

\* An earlier hour is over before a later one begins.
LEMMA MultiplesApart ==
  ASSUME NEW n \in Nat \ {0}, NEW p \in Int, NEW q \in Int, p < q
  PROVE  n * p + n <= n * q
<1>1. p + 1 <= q
  OBVIOUS
<1>2. PICK d \in Nat : q = p + 1 + d
  <2>1. q - p - 1 \in Nat /\ q = p + 1 + (q - p - 1)
    BY <1>1
  <2> QED
    BY <2>1
<1>3. n * q = n * p + n + n * d
  BY <1>2
<1>4. n * d \in Nat
  OBVIOUS
<1>5. n * p \in Int /\ n \in Int
  OBVIOUS
<1> QED
  BY <1>3, <1>4, <1>5

LEMMA HourParts ==
  ASSUME NEW t \in Nat
  PROVE  \E q \in Int : HourOf(t) = HourLen * q /\ HourOf(t) <= t /\ t < HourOf(t) + HourLen
<1> HourLen \in Nat /\ HourLen > 0
  BY LengthsAssumption
<1>1. t = HourLen * (t \div HourLen) + (t % HourLen)
  OBVIOUS
<1>2. t % HourLen \in 0 .. HourLen - 1 /\ t \div HourLen \in Int
  OBVIOUS
<1>3. HourLen * (t \div HourLen) \in Int
  BY <1>2
<1>4. HourOf(t) = HourLen * (t \div HourLen)
  BY <1>1, <1>2, <1>3 DEF HourOf
<1> QED
  BY <1>2, <1>4 DEF HourOf

LEMMA HoursInOrder ==
  ASSUME NEW a \in Nat, NEW b \in Nat, HourOf(a) < HourOf(b)
  PROVE  a < b
<1>1. PICK p \in Int : HourOf(a) = HourLen * p /\ a < HourOf(a) + HourLen
  BY HourParts
<1>2. PICK q \in Int : HourOf(b) = HourLen * q /\ HourOf(b) <= b
  BY HourParts
<1>3. HourLen \in Nat \ {0} /\ HourLen * p \in Int /\ HourLen * q \in Int
  BY LengthsAssumption
<1>4. p < q
  <2> SUFFICES ASSUME q <= p PROVE FALSE
    OBVIOUS
  <2>1. CASE q = p
    BY <2>1, <1>1, <1>2, <1>3
  <2>2. CASE q < p
    <3>1. HourLen * q + HourLen <= HourLen * p
      BY <2>2, <1>3, MultiplesApart
    <3> QED
      BY <3>1, <1>1, <1>2, <1>3
  <2> QED
    BY <2>1, <2>2
<1>5. HourLen * p + HourLen <= HourLen * q
  BY <1>3, <1>4, MultiplesApart
<1> QED
  BY <1>1, <1>2, <1>3, <1>5

\* The row of a name and hour, of samples between two times.
LEMMA HourRowWithin ==
  ASSUME NEW S \in SUBSET Sample, NEW r \in HourRows(S),
         NEW k \in 0 .. MaxTime, NEW c \in 0 .. MaxTime, k <= c,
         \A x \in r.from : k <= x.at /\ x.at <= c
  PROVE  r.delta \in Nat /\ r.delta + Moved(r.cn, k) <= Moved(r.cn, c)
<1>1. PICK x \in S : r = HourRow(Owner[x.session], HourOf(x.at), S)
  BY DEF HourRows
<1>2. r.delta = Transfer(r.from)
  BY <1>1 DEF HourRow
<1>3. /\ r.from \in SUBSET Sample
      /\ \A y \in r.from : Owner[y.session] = r.cn /\ k <= y.at /\ y.at <= c
  BY HourRowsFacts
<1>4. Transfer(r.from) \in Nat /\ Transfer(r.from) + Moved(r.cn, k) <= Moved(r.cn, c)
  BY <1>3, TransferWithin
<1> QED
  BY <1>2, <1>4

LEMMA HourRowsNat ==
  ASSUME NEW S \in SUBSET Sample, \A x \in S : x.at <= MaxTime,
         NEW r \in HourRows(S)
  PROVE  r.delta \in Nat
<1>1. r.from \subseteq S
  BY HourRowsFacts
<1>2. 0 \in 0 .. MaxTime /\ MaxTime \in 0 .. MaxTime /\ 0 <= MaxTime
  BY LengthsAssumption
<1>3. \A x \in r.from : 0 <= x.at /\ x.at <= MaxTime
  BY <1>1 DEF Sample
<1> QED
  BY <1>2, <1>3, HourRowWithin

\* Without the samples of one hour, the rows of the other hours are the same.
LEMMA LastHour ==
  ASSUME NEW S, NEW R \in SUBSET S, NEW h,
         \A x \in S : x \in R <=> HourOf(x.at) # h
  PROVE  /\ HourRows(R) \subseteq HourRows(S)
         /\ \A r \in HourRows(S) : r.at # h => r \in HourRows(R)
<1>1. ASSUME NEW x \in R
      PROVE  HourRow(Owner[x.session], HourOf(x.at), S)
               = HourRow(Owner[x.session], HourOf(x.at), R)
  <2>1. \A cn : {y \in S : Owner[y.session] = cn /\ HourOf(y.at) = HourOf(x.at)}
                  = {y \in R : Owner[y.session] = cn /\ HourOf(y.at) = HourOf(x.at)}
    BY <1>1
  <2> QED
    BY <2>1 DEF HourRow
<1>2. HourRows(R) \subseteq HourRows(S)
  BY <1>1 DEF HourRows
<1>3. ASSUME NEW r \in HourRows(S), r.at # h
      PROVE  r \in HourRows(R)
  <2>1. PICK x \in S : r = HourRow(Owner[x.session], HourOf(x.at), S)
    BY DEF HourRows
  <2>2. r.at = HourOf(x.at)
    BY <2>1 DEF HourRow
  <2>3. x \in R
    BY <1>3, <2>2
  <2> QED
    BY <1>1, <2>1, <2>3 DEF HourRows
<1> QED
  BY <1>2, <1>3

LEMMA MovedGrows ==
  ASSUME NEW cn, NEW k \in 0 .. MaxTime, NEW c \in 0 .. MaxTime, k <= c
  PROVE  Moved(cn, k) <= Moved(cn, c)
<1>1. \A s \in Own(cn) : /\ MovedBy(k)[s] \in Nat /\ MovedBy(c)[s] \in Nat
                         /\ MovedBy(k)[s] <= MovedBy(c)[s]
  BY OwnFinite, MovedByGrows
<1>2. Sum(MovedBy(k), {}) + Moved(cn, k) <= Moved(cn, c)
  BY <1>1, OwnFinite, SumWithin DEF Moved
<1> QED
  BY <1>2, SumEmpty, MovedIsNat

LEMMA TotalSmall ==
  /\ Total({}) = 0
  /\ \A r : r.delta \in Nat => Total({r}) = r.delta
<1>1. Total({}) = 0
  BY SumEmpty DEF Total
<1>2. ASSUME NEW r, r.delta \in Nat
      PROVE  Total({r}) = r.delta
  <2> DEFINE f == [q \in {r} |-> q.delta]
  <2>1. IsFiniteSet({r})
    BY FS_Singleton
  <2>2. Sum(f, {r}) = f[r] + Sum(f, {r} \ {r})
    BY <1>2, <2>1, SumRemove
  <2>3. {r} \ {r} = {} /\ f[r] = r.delta
    OBVIOUS
  <2>4. Sum(f, {r}) = r.delta
    BY <1>2, <2>2, <2>3, SumEmpty
  <2> QED
    BY <2>4 DEF Total
<1> QED
  BY <1>1, <1>2

\* One name has at most one row of an hour.
LEMMA OneRowOfAnHour ==
  ASSUME NEW S, NEW cn, NEW h, NEW r \in HourRows(S), r.cn = cn, r.at = h
  PROVE  {q \in HourRows(S) : q.cn = cn /\ q.at = h} = {r}
<1>1. ASSUME NEW q \in HourRows(S), q.cn = cn, q.at = h
      PROVE  q = HourRow(cn, h, S)
  <2>1. PICK x \in S : q = HourRow(Owner[x.session], HourOf(x.at), S)
    BY DEF HourRows
  <2>2. q.cn = Owner[x.session] /\ q.at = HourOf(x.at)
    BY <2>1 DEF HourRow
  <2> QED
    BY <1>1, <2>1, <2>2
<1> QED
  BY <1>1

\* All rows of a name that one INSERT makes of samples between two times show no
\* more than its sessions moved between them.  Taken by the last hour of a smallest
\* set of samples against it: the samples before that hour fit, and so does its row.
LEMMA HoursWithin ==
  ASSUME NEW S \in SUBSET Sample, IsFiniteSet(S), NEW cn,
         NEW k \in 0 .. MaxTime, NEW c \in 0 .. MaxTime, k <= c,
         \A x \in S : k <= x.at /\ x.at <= c
  PROVE  Total(Of(cn, HourRows(S))) + Moved(cn, k) <= Moved(cn, c)
<1> DEFINE Fits(U, e) ==
             Total(Of(cn, HourRows(U))) + Moved(cn, k) <= Moved(cn, e)
           B == {U \in SUBSET S : \E e \in k .. c : /\ \A x \in U : x.at <= e
                                                    /\ ~ Fits(U, e)}
<1>a. MaxTime \in Nat /\ k \in Nat /\ c \in Nat /\ k .. c \subseteq 0 .. MaxTime
  BY LengthsAssumption
<1>b. \A x \in S : x.at \in Nat
  BY DEF Sample
<1> SUFFICES ASSUME B # {} PROVE FALSE
  BY <1>a
<1>0. B \in SUBSET SUBSET S
  OBVIOUS
<1>1. PICK U \in B : \A V \in B : V \subseteq U => V = U
  <2> HIDE DEF B
  <2> QED
    BY <1>0, SmallestSet
<1>2. PICK e \in k .. c : /\ \A x \in U : x.at <= e
                          /\ ~ Fits(U, e)
  OBVIOUS
<1>3. e \in 0 .. MaxTime /\ k <= e /\ e \in Nat
  BY <1>a
<1>4. U \subseteq S /\ IsFiniteSet(U) /\ U \in SUBSET Sample
  BY FS_Subset
<1>5. U # {}
  <2> SUFFICES ASSUME U = {} PROVE Fits(U, e)
    BY <1>2
  <2>1. Of(cn, HourRows(U)) = {}
    BY DEF Of, HourRows
  <2>2. Moved(cn, k) <= Moved(cn, e)
    BY <1>3, MovedGrows
  <2>3. Total(Of(cn, HourRows(U))) = 0 /\ Moved(cn, k) \in Nat
    BY <2>1, TotalSmall, MovedIsNat
  <2> QED
    BY <2>2, <2>3
<1> DEFINE hours == {HourOf(x.at) : x \in U}
<1>6. PICK h \in hours : \A g \in hours : g <= h
  <2>1. hours \in SUBSET Nat /\ hours # {}
    BY <1>b, <1>4, <1>5, HourIsNat
  <2>2. \A g \in hours : g <= c
    <3> SUFFICES ASSUME NEW x \in U PROVE HourOf(x.at) <= c
      OBVIOUS
    <3>1. x.at \in Nat /\ x.at <= c /\ HourOf(x.at) <= x.at
      BY <1>b, <1>4, HourParts
    <3> QED
      BY <3>1, <1>a, HourIsNat
  <2> HIDE DEF hours
  <2> QED
    BY <2>1, <2>2, <1>a, GreatestNumber
<1> DEFINE P == {x \in U : HourOf(x.at) = h}
           R == {x \in U : HourOf(x.at) # h}
<1>7. PICK z \in P : \A x \in P : z.at <= x.at
  <2> DEFINE times == {x.at : x \in P}
  <2>1. times \in SUBSET Nat /\ times # {}
    BY <1>b, <1>4
  <2>2. PICK m \in times : \A t \in times : m <= t
    <3> HIDE DEF times
    <3> QED
      BY <2>1, LeastNumber
  <2> QED
    BY <2>2
<1>8. z \in U /\ HourOf(z.at) = h /\ z.at \in k .. e /\ z.at \in Nat /\ z.at \in 0 .. MaxTime
  BY <1>2, <1>4, <1>b, <1>a
<1>9. \A x \in R : x.at <= z.at
  <2> SUFFICES ASSUME NEW x \in R PROVE x.at <= z.at
    OBVIOUS
  <2>1. HourOf(x.at) \in hours /\ HourOf(x.at) # h
    OBVIOUS
  <2>2. x.at \in Nat /\ h \in Nat /\ HourOf(x.at) \in Nat
    BY <1>b, <1>4, <1>8, HourIsNat
  <2>3. HourOf(x.at) < HourOf(z.at)
    BY <1>6, <1>8, <2>1, <2>2
  <2> QED
    BY <1>8, <2>2, <2>3, HoursInOrder
<1>10. Fits(R, z.at)
  <2>1. R \in SUBSET S /\ R \subseteq U /\ R # U
    BY <1>4, <1>8
  <2>2. R \notin B
    BY <1>1, <2>1
  <2>3. z.at \in k .. c
    BY <1>8, <1>a, <1>3
  <2> QED
    BY <1>9, <2>1, <2>2, <2>3
<1> DEFINE L == {r \in HourRows(U) : r.cn = cn /\ r.at = h}
<1>11. Total(L) + Moved(cn, z.at) <= Moved(cn, e)
  <2>0. z.at <= e
    BY <1>8, <1>3
  <2>1. CASE L = {}
    <3>1. Moved(cn, z.at) <= Moved(cn, e)
      BY <1>3, <1>8, <2>0, MovedGrows
    <3>2. Total(L) = 0 /\ Moved(cn, z.at) \in Nat
      BY <2>1, <1>8, TotalSmall, MovedIsNat
    <3> HIDE DEF L
    <3> QED
      BY <3>1, <3>2
  <2>2. CASE L # {}
    <3>1. PICK r \in L : TRUE
      BY <2>2
    <3>2. L = {r} /\ r \in HourRows(U) /\ r.cn = cn /\ r.at = h
      BY <3>1, OneRowOfAnHour
    <3>3. \A x \in r.from : x \in P
      BY <3>2, HourRowsFacts
    <3>4. \A x \in r.from : z.at <= x.at /\ x.at <= e
      BY <3>3, <1>2, <1>7
    <3> HIDE DEF L, P, R
    <3>5. r.delta \in Nat /\ r.delta + Moved(cn, z.at) <= Moved(cn, e)
      BY <3>2, <3>4, <1>3, <1>4, <1>8, <2>0, HourRowWithin
    <3> QED
      BY <3>2, <3>5, TotalSmall
  <2> QED
    BY <2>1, <2>2
<1>12. Of(cn, HourRows(U)) = Of(cn, HourRows(R)) \cup L
  <2>1. /\ HourRows(R) \subseteq HourRows(U)
        /\ \A r \in HourRows(U) : r.at # h => r \in HourRows(R)
    <3>1. R \in SUBSET U /\ \A x \in U : x \in R <=> HourOf(x.at) # h
      OBVIOUS
    <3> HIDE DEF R
    <3> QED
      BY <3>1, LastHour
  <2> HIDE DEF R
  <2> QED
    BY <2>1 DEF Of
<1>13. Total(Of(cn, HourRows(U))) <= Total(Of(cn, HourRows(R))) + Total(L)
  <2>1. \A r \in HourRows(U) : r.delta \in Nat
    <3>1. \A x \in U : x.at <= MaxTime
      BY <1>4, <1>b, <1>a
    <3> QED
      BY <3>1, <1>4, HourRowsNat
  <2>2. Of(cn, HourRows(R)) \subseteq HourRows(U) /\ L \subseteq HourRows(U)
    BY <1>12 DEF Of
  <2>3. IsFiniteSet(Of(cn, HourRows(R))) /\ IsFiniteSet(L)
    BY <2>2, <1>4, HourRowsFinite, FS_Subset
  <2> HIDE DEF L, R
  <2> QED
    BY <1>12, <2>1, <2>2, <2>3, TotalUnion
<1>14. /\ Total(Of(cn, HourRows(U))) \in Nat /\ Total(Of(cn, HourRows(R))) \in Nat
       /\ Total(L) \in Nat
  <2>1. \A r \in HourRows(U) : r.delta \in Nat
    <3>1. \A x \in U : x.at <= MaxTime
      BY <1>4, <1>b, <1>a
    <3> QED
      BY <3>1, <1>4, HourRowsNat
  <2>2. Of(cn, HourRows(R)) \subseteq HourRows(U) /\ L \subseteq HourRows(U)
        /\ Of(cn, HourRows(U)) \subseteq HourRows(U)
    BY <1>12 DEF Of
  <2> HIDE DEF L, R
  <2> QED
    BY <2>1, <2>2, <1>4, HourRowsFinite, TotalFacts
<1>15. Moved(cn, k) \in Nat /\ Moved(cn, z.at) \in Nat /\ Moved(cn, e) \in Nat
  BY <1>3, <1>8, MovedIsNat
<1>16. /\ Total(Of(cn, HourRows(R))) + Moved(cn, k) <= Moved(cn, z.at)
       /\ ~ (Total(Of(cn, HourRows(U))) + Moved(cn, k) <= Moved(cn, e))
  BY <1>10, <1>2
<1> HIDE DEF L, P, R, Fits, B
<1> QED
  BY <1>11, <1>13, <1>14, <1>15, <1>16

-----------------------------------------------------------------------------
(* Days are made of hourly rows.                                           *)

\* The days of one INSERT report no more than the hourly rows they are made of.
LEMMA DayRowSum ==
  ASSUME NEW H, IsFiniteSet(H), \A r \in H : r.delta \in Nat, NEW d \in DayRows(H)
  PROVE  d.delta = Total(d.from) /\ d.delta \in Nat
<1>1. PICK r \in H : d = DayRow(r.cn, DayOf(r.at), H)
  BY DEF DayRows
<1>2. d.delta = MapThenSumSet(LAMBDA q : q.delta, d.from)
  BY <1>1 DEF DayRow
<1>3. d.from \in SUBSET H /\ IsFiniteSet(d.from)
  BY DayRowsFacts, FS_Subset
<1>4. MapThenSumSet(LAMBDA q : q.delta, d.from) = Total(d.from)
  BY <1>3, DeltasAreSum
<1>5. Total(d.from) \in Nat
  BY <1>3, TotalFacts
<1> QED
  BY <1>2, <1>4, <1>5

LEMMA DaysWithin ==
  ASSUME NEW H, IsFiniteSet(H), \A r \in H : r.delta \in Nat, NEW cn
  PROVE  Total(Of(cn, DayRows(H))) <= Total(Of(cn, H))
<1> DEFINE D == Of(cn, DayRows(H))
           O == Of(cn, H)
           f == [r \in O |-> r.delta]
           g == [d \in D |-> d.delta]
           part == [d \in D |-> d.from]
<1>1. IsFiniteSet(O) /\ O \subseteq H
  <2>1. O \in SUBSET H
    BY DEF Of
  <2> QED
    BY <2>1, FS_Subset
<1>2. IsFiniteSet(D) /\ D \subseteq DayRows(H)
  <2>1. D \in SUBSET DayRows(H)
    BY DEF Of
  <2> QED
    BY <2>1, DayRowsFinite, FS_Subset
<1>3. part \in [D -> SUBSET O]
  <2>1. \A d \in D : d.from \subseteq O
    BY DayRowsFacts DEF Of
  <2> QED
    BY <2>1
<1>4. \A d, e \in D : d # e => part[d] \cap part[e] = {}
  BY <1>2, DayRowsApart
<1>5. \A r \in O : f[r] \in Nat
  BY <1>1
<1>6. ASSUME NEW d \in D
      PROVE  g[d] = Sum(f, part[d])
  <2>1. d.delta = Total(d.from) /\ d.from \in SUBSET O
    BY <1>2, <1>3, DayRowSum
  <2>2. IsFiniteSet(d.from)
    BY <1>1, <2>1, FS_Subset
  <2>3. Sum([r \in d.from |-> r.delta], d.from) = Sum(f, d.from)
    BY <2>1, <2>2, SumSame
  <2> QED
    BY <2>1, <2>3 DEF Total
<1>7. Sum(g, D) <= Sum(f, O)
  <2> HIDE DEF D, O, f, g, part
  <2> QED
    BY <1>1, <1>2, <1>3, <1>4, <1>5, <1>6, SumOfParts
<1> QED
  BY <1>7 DEF Total

-----------------------------------------------------------------------------
(* The types, the sums among them.                                         *)

\* The tables are finite, and no sample is from the future.
Tables ==
  /\ IsFiniteSet(samples)
  /\ IsFiniteSet(hourly)
  /\ IsFiniteSet(daily)
  /\ \A x \in samples : x.at <= now

TypeInv == TypeOK /\ Tables

LEMMA HourRowsType ==
  ASSUME NEW S \in SUBSET Sample, \A x \in S : x.at <= MaxTime, batches \in Nat
  PROVE  HourRows(S) \subseteq Hour
<1> SUFFICES ASSUME NEW r \in HourRows(S) PROVE r \in Hour
  OBVIOUS
<1>1. PICK x \in S : r = HourRow(Owner[x.session], HourOf(x.at), S)
  BY DEF HourRows
<1>2. x.session \in Sessions /\ x.at \in Nat
  BY DEF Sample
<1>3. Owner[x.session] \in Names /\ HourOf(x.at) \in Nat
  BY <1>2, SessionsAssumption, HourIsNat
<1>4. r.delta \in Nat /\ r.from \in SUBSET Sample
  BY HourRowsNat, HourRowsFacts
<1>5. /\ r = [batch |-> r.batch, cn |-> r.cn, at |-> r.at, delta |-> r.delta,
             from |-> r.from]
      /\ r.batch = batches + 1 /\ r.cn = Owner[x.session] /\ r.at = HourOf(x.at)
  BY <1>1 DEF HourRow
<1> QED
  BY <1>3, <1>4, <1>5 DEF Hour

LEMMA DayIsNat ==
  ASSUME NEW t \in Nat
  PROVE  DayOf(t) \in Nat
<1> DEFINE n == HourLen * HoursPerDay
<1>1. n \in Nat /\ n > 0
  BY LengthsAssumption
<1> HIDE DEF n
<1>2. t % n \in Nat /\ t % n <= t
  BY <1>1
<1> QED
  BY <1>2 DEF DayOf, n

LEMMA DayRowsType ==
  ASSUME NEW H \in SUBSET Hour, IsFiniteSet(H), batches \in Nat
  PROVE  DayRows(H) \subseteq Day
<1> SUFFICES ASSUME NEW d \in DayRows(H) PROVE d \in Day
  OBVIOUS
<1>1. PICK r \in H : d = DayRow(r.cn, DayOf(r.at), H)
  BY DEF DayRows
<1>2. r.cn \in Names /\ r.at \in Nat /\ \A q \in H : q.delta \in Nat
  BY DEF Hour
<1>3. DayOf(r.at) \in Nat
  BY <1>2, DayIsNat
<1>4. d.delta \in Nat /\ d.from \in SUBSET Hour
  BY <1>2, DayRowSum, DayRowsFacts
<1>5. /\ d = [batch |-> d.batch, cn |-> d.cn, at |-> d.at, delta |-> d.delta,
             from |-> d.from]
      /\ d.batch = batches + 1 /\ d.cn = r.cn /\ d.at = DayOf(r.at)
  BY <1>1 DEF DayRow
<1> QED
  BY <1>2, <1>3, <1>4, <1>5 DEF Day

LEMMA InitType ==
  Init => TypeInv
<1> SUFFICES ASSUME Init PROVE TypeInv
  OBVIOUS
<1>1. TypeOK
  BY LengthsAssumption DEF Init, TypeOK, NoPass, Pass
<1>2. Tables
  BY FS_EmptySet DEF Init, Tables
<1> QED
  BY <1>1, <1>2 DEF TypeInv

\* Sampling some sessions once more.
LEMMA TickType ==
  ASSUME TypeInv, NEW S \in SUBSET Sessions, Tick(S)
  PROVE  TypeInv'
<1> TypeOK /\ Tables
  BY DEF TypeInv
<1>1. now \in Nat /\ now < MaxTime /\ now' = now + 1 /\ now' \in 0 .. MaxTime
  BY LengthsAssumption DEF Tick, TypeOK
<1> DEFINE f == [s \in S |-> [session |-> s, at |-> now + 1]]
           new == {f[s] : s \in S}
<1>2. IsFiniteSet(S)
  BY SessionsAssumption, FS_Subset
<1>3. IsFiniteSet(new)
  <2> HIDE DEF f
  <2> QED
    BY <1>2, ImageFinite
<1>4. samples' = samples \cup new
  BY DEF Tick
<1>5. new \subseteq Sample /\ \A x \in new : x.at = now + 1
  BY <1>1 DEF Sample
<1> HIDE DEF new, f
<1>6. IsFiniteSet(samples')
  BY <1>3, <1>4, FS_Union DEF Tables
<1>7. \A x \in samples' : x.at <= now'
  <2>1. \A x \in samples : x.at \in Nat /\ x.at <= now
    BY DEF TypeOK, Tables, Sample
  <2> QED
    BY <2>1, <1>1, <1>4, <1>5
<1>8. taken' \in Nat
  BY <1>2, FS_CardinalityType DEF Tick, TypeOK
<1>9. TypeOK'
  <2>1. samples' \subseteq Sample
    BY <1>4, <1>5 DEF TypeOK
  <2> QED
    BY <2>1, <1>1, <1>8 DEF TypeOK, Tick
<1>10. Tables'
  BY <1>6, <1>7 DEF Tables, Tick
<1> QED
  BY <1>9, <1>10 DEF TypeInv

\* Old samples are of the times of the clock.
LEMMA SamplesTimed ==
  ASSUME TypeInv, NEW S \in SUBSET samples
  PROVE  /\ S \in SUBSET Sample /\ IsFiniteSet(S)
         /\ \A x \in S : x.at \in Nat /\ x.at <= now /\ x.at <= MaxTime
<1>1. S \in SUBSET Sample /\ IsFiniteSet(S)
  BY FS_Subset DEF TypeInv, TypeOK, Tables
<1>2. \A x \in S : x.at \in Nat /\ x.at <= now
  BY <1>1 DEF TypeInv, Tables, Sample
<1>3. now \in Nat /\ now <= MaxTime /\ MaxTime \in Nat
  BY LengthsAssumption DEF TypeInv, TypeOK
<1> QED
  BY <1>1, <1>2, <1>3

LEMMA AddUpType ==
  ASSUME TypeInv, NEW S \in SUBSET samples, AddUp(S)
  PROVE  TypeInv'
<1> TypeOK /\ Tables
  BY DEF TypeInv
<1>1. /\ UNCHANGED <<now, samples, daily, taken, failures, owed>>
      /\ hourly' = hourly \cup HourRows(S)
      /\ gc' = [gc EXCEPT !.pc = "daily", !.hourlyAt = now]
  BY DEF AddUp
<1>2. batches' \in Nat
  BY DEF AddUp, NewBatch, TypeOK
<1>3. gc' \in Pass
  <2>1. now \in Nat
    BY DEF TypeOK
  <2> QED
    BY <1>1, <2>1, PassUpdates DEF TypeOK
<1>4. HourRows(S) \subseteq Hour
  BY SamplesTimed, HourRowsType DEF TypeOK
<1>5. IsFiniteSet(HourRows(S))
  BY SamplesTimed, HourRowsFinite
<1>6. TypeOK'
  BY <1>1, <1>2, <1>3, <1>4 DEF TypeOK
<1>7. IsFiniteSet(hourly')
  BY <1>1, <1>5, FS_Union DEF Tables
<1>8. Tables'
  BY <1>1, <1>7 DEF Tables
<1> QED
  BY <1>6, <1>8 DEF TypeInv

LEMMA RollUpType ==
  ASSUME TypeInv, NEW H \in SUBSET hourly, RollUp(H)
  PROVE  TypeInv'
<1> TypeOK /\ Tables
  BY DEF TypeInv
<1>1. /\ UNCHANGED <<now, samples, hourly, taken, failures, owed>>
      /\ daily' = daily \cup DayRows(H)
      /\ gc' = [gc EXCEPT !.pc = "samples", !.dailyAt = now]
  BY DEF RollUp
<1>2. batches' \in Nat
  BY DEF RollUp, NewBatch, TypeOK
<1>3. gc' \in Pass
  <2>1. now \in Nat
    BY DEF TypeOK
  <2> QED
    BY <1>1, <2>1, PassUpdates DEF TypeOK
<1>4. H \in SUBSET Hour /\ IsFiniteSet(H)
  BY FS_Subset DEF TypeOK, Tables
<1>5. DayRows(H) \subseteq Day /\ IsFiniteSet(DayRows(H))
  BY <1>4, DayRowsType, DayRowsFinite DEF TypeOK
<1>6. TypeOK'
  BY <1>1, <1>2, <1>3, <1>5 DEF TypeOK
<1>7. IsFiniteSet(daily')
  BY <1>1, <1>5, FS_Union DEF Tables
<1>8. Tables'
  BY <1>1, <1>7 DEF Tables
<1> QED
  BY <1>6, <1>8 DEF TypeInv

LEMMA NextType ==
  ASSUME TypeInv, [Next]_vars
  PROVE  TypeInv'
<1> TypeOK /\ Tables
  BY DEF TypeInv
<1>0. CASE UNCHANGED vars
  BY <1>0 DEF vars, TypeInv, TypeOK, Tables
<1>1. ASSUME NEW S \in SUBSET Sessions, Tick(S)
      PROVE  TypeInv'
  BY <1>1, TickType
<1>2. CASE StartPass
  <2>1. gc' \in Pass
    BY <1>2 DEF StartPass, NoPass, Pass
  <2> QED
    BY <1>2, <2>1 DEF StartPass, TypeInv, TypeOK, Tables
<1>3. CASE AddUp({x \in samples : Before(x.at, SampleRetention, now)})
  <2>1. {x \in samples : Before(x.at, SampleRetention, now)} \in SUBSET samples
    OBVIOUS
  <2> QED
    BY <1>3, <2>1, AddUpType
<1>4. CASE RollUp({r \in hourly : Before(r.at, HourlyRetention, now)})
  <2>1. {r \in hourly : Before(r.at, HourlyRetention, now)} \in SUBSET hourly
    OBVIOUS
  <2> QED
    BY <1>4, <2>1, RollUpType
<1>5. CASE DeleteSamples({x \in samples : Before(x.at, SampleRetention, now)})
  <2>1. samples' \in SUBSET samples /\ gc' = [gc EXCEPT !.pc = "hours"]
    BY <1>5 DEF DeleteSamples, Left
  <2>2. gc' \in Pass
    BY <2>1, PassUpdates DEF TypeOK
  <2>3. IsFiniteSet(samples')
    BY <2>1, FS_Subset DEF Tables
  <2>4. owed' \subseteq {"samples", "hours"}
    BY <1>5 DEF DeleteSamples, Undone, TypeOK
  <2>5. UNCHANGED <<now, hourly, daily, batches, taken, failures>>
    BY <1>5 DEF DeleteSamples
  <2> QED
    BY <2>1, <2>2, <2>3, <2>4, <2>5 DEF TypeInv, TypeOK, Tables
<1>6. CASE DeleteHourly({r \in hourly : Before(r.at, HourlyRetention, now)})
  <2>1. hourly' \in SUBSET hourly /\ gc' = NoPass
    BY <1>6 DEF DeleteHourly, Left
  <2>2. gc' \in Pass
    BY <2>1 DEF NoPass, Pass
  <2>3. IsFiniteSet(hourly')
    BY <2>1, FS_Subset DEF Tables
  <2>4. owed' \subseteq {"samples", "hours"}
    BY <1>6 DEF DeleteHourly, Undone, TypeOK
  <2>5. UNCHANGED <<now, samples, daily, batches, taken, failures>>
    BY <1>6 DEF DeleteHourly
  <2> QED
    BY <2>1, <2>2, <2>3, <2>4, <2>5 DEF TypeInv, TypeOK, Tables
<1>7. CASE StatementFails \/ Restart
  <2>1. UNCHANGED <<now, samples, hourly, daily, batches, taken>>
    BY <1>7 DEF StatementFails, Restart
  <2>2. gc' \in Pass
    <3>1. CASE gc' = NoPass
      BY <3>1 DEF NoPass, Pass
    <3>2. CASE gc.pc \in {"hourly", "daily", "samples"} /\ gc' = [gc EXCEPT !.pc = NextPc(gc.pc)]
      <4>1. NextPc(gc.pc) \in {"idle", "hourly", "daily", "samples", "hours"}
        BY <3>2 DEF NextPc
      <4> QED
        BY <3>2, <4>1, PassUpdates DEF TypeOK
    <3>3. gc.pc \in {"idle", "hourly", "daily", "samples", "hours"}
      BY DEF TypeOK, Pass
    <3> QED
      BY <1>7, <3>1, <3>2, <3>3 DEF StatementFails, Restart
  <2>3. failures' \in 0 .. MaxFailures
    BY <1>7, LengthsAssumption DEF StatementFails, Restart, TypeOK
  <2>4. owed' \subseteq {"samples", "hours"}
    BY <1>7 DEF StatementFails, Restart, Owing, TypeOK
  <2> QED
    BY <2>1, <2>2, <2>3, <2>4 DEF TypeInv, TypeOK, Tables
<1> QED
  BY <1>0, <1>1, <1>2, <1>3, <1>4, <1>5, <1>6, <1>7, StepKinds

LEMMA TypesHold ==
  Spec => []TypeInv
<1>1. TypeInv /\ [Next]_vars => TypeInv'
  BY NextType
<1> QED
  BY <1>1, InitType, PTL DEF Spec

\* Every table and counter keeps its type; above all, every volume in a row is a
\* natural number, whatever samples the row was computed from.
THEOREM RowsAreTyped == Spec => []TypeOK
<1>1. TypeInv => TypeOK
  BY DEF TypeInv
<1> QED
  BY <1>1, TypesHold, PTL

-----------------------------------------------------------------------------
(* Nothing is overstated.                                                  *)

\* The hourly rows of a name that are not in a day, and all that is reported of it.
Unrolled(cn) == {r \in hourly : r.cn = cn /\ ~RolledUp(r)}

Reports(cn) == Total(Of(cn, daily)) + Total(Unrolled(cn))

\* The time up to which the rows report: no sample that is still to be counted is
\* from before it, and no name is reported to have moved more by then than it did.
CountedTo(k) ==
  /\ \A x \in samples : k <= x.at \/ Counted(x)
  /\ \A cn \in Names : Reports(cn) <= Moved(cn, k)

SumInv == owed = {} => \E k \in 0 .. now : CountedTo(k)

LEMMA RowSets ==
  ASSUME TypeInv, NEW cn
  PROVE  /\ IsFiniteSet(Of(cn, daily)) /\ IsFiniteSet(Of(cn, hourly))
         /\ IsFiniteSet(Unrolled(cn)) /\ Unrolled(cn) \subseteq Of(cn, hourly)
         /\ \A r \in hourly : r.delta \in Nat
         /\ \A d \in daily : d.delta \in Nat
         /\ \A r \in Of(cn, hourly) : r.delta \in Nat
         /\ \A r \in Unrolled(cn) : r.delta \in Nat
         /\ \A d \in Of(cn, daily) : d.delta \in Nat
         /\ Total(Of(cn, daily)) \in Nat /\ Total(Unrolled(cn)) \in Nat
<1>1. Of(cn, daily) \in SUBSET daily /\ Of(cn, hourly) \in SUBSET hourly
  BY DEF Of
<1>2. Unrolled(cn) \in SUBSET hourly /\ Unrolled(cn) \subseteq Of(cn, hourly)
  BY DEF Unrolled, Of
<1>3. IsFiniteSet(Of(cn, daily)) /\ IsFiniteSet(Of(cn, hourly)) /\ IsFiniteSet(Unrolled(cn))
  BY <1>1, <1>2, FS_Subset DEF TypeInv, Tables
<1>4. /\ \A r \in hourly : r.delta \in Nat
      /\ \A d \in daily : d.delta \in Nat
  BY DEF TypeInv, TypeOK, Hour, Day
<1>5. Total(Of(cn, daily)) \in Nat /\ Total(Unrolled(cn)) \in Nat
  BY <1>1, <1>2, <1>3, <1>4, TotalFacts
<1> QED
  BY <1>1, <1>2, <1>3, <1>4, <1>5

LEMMA NowBounded ==
  ASSUME TypeInv
  PROVE  now \in Nat /\ now <= MaxTime /\ 0 .. now \subseteq 0 .. MaxTime
  BY LengthsAssumption DEF TypeInv, TypeOK

\* A step that adds no row.
LEMMA CountedToKept ==
  ASSUME TypeInv, NEW k \in 0 .. now, CountedTo(k), hourly' \in SUBSET hourly,
         daily' = daily, \A x \in samples' : k <= x.at \/ Counted(x)'
  PROVE  CountedTo(k)'
<1> SUFFICES ASSUME NEW cn \in Names
             PROVE  Reports(cn)' <= Moved(cn, k)
  BY DEF CountedTo
<1>1. Unrolled(cn)' \in SUBSET Unrolled(cn)
  BY DEF Unrolled, RolledUp
<1>2. Total(Unrolled(cn)') <= Total(Unrolled(cn)) /\ Total(Unrolled(cn)') \in Nat
  BY <1>1, RowSets, TotalFacts
<1>3. Reports(cn)' = Total(Of(cn, daily)) + Total(Unrolled(cn)')
  BY DEF Reports
<1>4. Total(Of(cn, daily)) \in Nat /\ Total(Unrolled(cn)) \in Nat /\ Moved(cn, k) \in Nat
  BY RowSets, MovedIsNat, NowBounded
<1>5. Total(Of(cn, daily)) + Total(Unrolled(cn)) <= Moved(cn, k)
  BY DEF CountedTo, Reports
<1> QED
  BY <1>2, <1>3, <1>4, <1>5

\* Adding up old samples moves the time on to the cutoff of the statement.
LEMMA AddUpCountedTo ==
  ASSUME TypeInv, CountedAreDue, "samples" \notin owed,
         NEW k \in 0 .. now, CountedTo(k),
         AddUp({x \in samples : Before(x.at, SampleRetention, now)})
  PROVE  \E c \in 0 .. now : CountedTo(c)'
<1> DEFINE S == {x \in samples : Before(x.at, SampleRetention, now)}
<1>1. /\ gc.pc = "hourly" /\ samples' = samples /\ daily' = daily
      /\ hourly' = hourly \cup HourRows(S)
  BY DEF AddUp
<1>2. \A x \in samples : ~ Counted(x)
  BY <1>1 DEF CountedAreDue, Counted
<1>3. \A x \in samples : k <= x.at /\ x.at \in Nat
  BY <1>2, SamplesTimed DEF CountedTo
<1>4. Reported' = Reported \cup HourRows(S)
  BY AddUpReported
<1>5. S \in SUBSET samples /\ S \in SUBSET Sample /\ IsFiniteSet(S)
  <2>1. S \in SUBSET samples
    OBVIOUS
  <2> HIDE DEF S
  <2> QED
    BY <2>1, SamplesTimed
<1>6. now \in Nat /\ now <= MaxTime /\ k \in Nat /\ k \in 0 .. MaxTime /\ SampleRetention \in Nat
  BY NowBounded, LengthsAssumption
<1>7. CASE S = {}
  <2>1. hourly' = hourly
    BY <1>1, <1>7 DEF HourRows
  <2> HIDE DEF S
  <2>2. CountedTo(k)'
    BY <1>1, <1>3, <2>1, CountedToKept
  <2> QED
    BY <2>2
<1>8. CASE S # {}
  <2> DEFINE c == (now - SampleRetention) - 1
  <2>1. \A x \in S : k <= x.at /\ x.at <= c
    BY <1>3, <1>6 DEF Before
  <2>2. c \in 0 .. now /\ k <= c /\ c \in 0 .. MaxTime /\ c \in Nat
    <3>1. PICK x \in S : TRUE
      BY <1>8
    <3>2. k <= x.at /\ x.at <= c /\ x.at \in Nat
      BY <1>3, <2>1
    <3>3. c \in Int /\ c <= now
      BY <1>6
    <3> HIDE DEF S, c
    <3>4. k <= c
      BY <3>2, <3>3, <1>6
    <3>5. MaxTime \in Nat
      BY LengthsAssumption
    <3> QED
      BY <3>3, <3>4, <3>5, <1>6
  <2>3. \A x \in samples' : c <= x.at \/ Counted(x)'
    <3> SUFFICES ASSUME NEW x \in samples PROVE c <= x.at \/ Counted(x)'
      BY <1>1
    <3>1. CASE x \in S
      <4>1. \E r \in HourRows(S) : x \in r.from
        <5> HIDE DEF S
        <5> QED
          BY <3>1, HourRowsCover
      <4> QED
        BY <4>1, <1>4 DEF Counted
    <3>2. CASE x \notin S
      BY <3>2, <1>3, <1>6 DEF Before
    <3> QED
      BY <3>1, <3>2
  <2> HIDE DEF S, c
  <2>4. ASSUME NEW cn \in Names
        PROVE  Reports(cn)' <= Moved(cn, c)
    <3> DEFINE new == Of(cn, HourRows(S))
    <3>1. Total(new) + Moved(cn, k) <= Moved(cn, c)
      BY <1>5, <1>6, <2>1, <2>2, HoursWithin
    <3>2. IsFiniteSet(new) /\ \A r \in new : r.delta \in Nat
      <4>1. new \in SUBSET HourRows(S)
        BY DEF Of
      <4>2. IsFiniteSet(HourRows(S))
        BY <1>5, HourRowsFinite
      <4>3. \A r \in HourRows(S) : r.delta \in Nat
        BY <1>5, SamplesTimed, HourRowsNat
      <4> HIDE DEF new
      <4> QED
        BY <4>1, <4>2, <4>3, FS_Subset
    <3>3. Unrolled(cn)' \in SUBSET (Unrolled(cn) \cup new)
      BY <1>1 DEF Unrolled, RolledUp, Of
    <3> HIDE DEF new
    <3>4. IsFiniteSet(Unrolled(cn) \cup new) /\ \A r \in Unrolled(cn) \cup new : r.delta \in Nat
      BY <3>2, RowSets, FS_Union
    <3>5. Total(Unrolled(cn)') <= Total(Unrolled(cn) \cup new)
      BY <3>3, <3>4, TotalFacts
    <3>6. Total(Unrolled(cn) \cup new) <= Total(Unrolled(cn)) + Total(new)
      BY <3>2, <3>4, RowSets, TotalUnion
    <3>7. /\ Total(Unrolled(cn)') \in Nat /\ Total(Unrolled(cn) \cup new) \in Nat
          /\ Total(new) \in Nat /\ Total(Unrolled(cn)) \in Nat /\ Total(Of(cn, daily)) \in Nat
      BY <3>2, <3>3, <3>4, RowSets, TotalFacts
    <3>8. Moved(cn, k) \in Nat /\ Moved(cn, c) \in Nat
      BY <1>6, <2>2, MovedIsNat
    <3>9. Reports(cn)' = Total(Of(cn, daily)) + Total(Unrolled(cn)')
      BY <1>1 DEF Reports
    <3>10. Total(Of(cn, daily)) + Total(Unrolled(cn)) <= Moved(cn, k)
      BY DEF CountedTo, Reports
    <3> QED
      BY <3>1, <3>5, <3>6, <3>7, <3>8, <3>9, <3>10
  <2> QED
    BY <2>2, <2>3, <2>4 DEF CountedTo
<1> QED
  BY <1>7, <1>8

\* Days take the place of the hourly rows they were made of.
LEMMA RollUpCountedTo ==
  ASSUME TypeInv, RolledUpAreDue, "hours" \notin owed,
         NEW k \in 0 .. now, CountedTo(k), NEW H \in SUBSET hourly, RollUp(H)
  PROVE  CountedTo(k)'
<1>1. /\ gc.pc = "daily" /\ samples' = samples /\ hourly' = hourly
      /\ daily' = daily \cup DayRows(H)
  BY DEF RollUp
<1>2. Reported' = Reported
  BY RollUpReported
<1>3. \A r \in hourly : ~ RolledUp(r)
  BY <1>1 DEF RolledUpAreDue, RolledUp
<1>4. IsFiniteSet(H) /\ \A r \in H : r.delta \in Nat
  <2>1. IsFiniteSet(hourly) /\ \A r \in hourly : r.delta \in Nat
    BY RowSets DEF TypeInv, Tables
  <2> QED
    BY <2>1, FS_Subset
<1>5. ASSUME NEW cn \in Names
      PROVE  Reports(cn)' <= Moved(cn, k)
  <2> DEFINE days == Of(cn, DayRows(H))
             old == Of(cn, H)
             rest == Of(cn, hourly) \ old
  <2>1. Unrolled(cn) = Of(cn, hourly)
    BY <1>3 DEF Unrolled, Of
  <2>2. Unrolled(cn)' \in SUBSET rest
    <3>1. \A r \in H : RolledUp(r)'
      BY <1>1, DayRowsCover DEF RolledUp
    <3> QED
      BY <1>1, <3>1 DEF Unrolled, Of
  <2>3. Of(cn, daily)' = Of(cn, daily) \cup days
    BY <1>1 DEF Of
  <2>4. Total(days) <= Total(old)
    BY <1>4, DaysWithin
  <2>5. IsFiniteSet(days) /\ \A d \in days : d.delta \in Nat
    <3>1. days \in SUBSET DayRows(H)
      BY DEF Of
    <3>2. IsFiniteSet(DayRows(H)) /\ \A d \in DayRows(H) : d.delta \in Nat
      BY <1>4, DayRowsFinite, DayRowSum
    <3> HIDE DEF days
    <3> QED
      BY <3>1, <3>2, FS_Subset
  <2>6. old \in SUBSET Of(cn, hourly)
    BY DEF Of
  <2>7. rest \in SUBSET Of(cn, hourly)
    OBVIOUS
  <2> HIDE DEF days, old
  <2>8. Total(Of(cn, hourly)) = Total(old) + Total(rest)
    BY <2>6, RowSets, TotalSplit
  <2> HIDE DEF rest
  <2>9. /\ IsFiniteSet(rest) /\ \A r \in rest : r.delta \in Nat
        /\ Total(old) \in Nat /\ Total(rest) \in Nat
    BY <2>6, <2>7, RowSets, TotalFacts, FS_Subset
  <2>10. Total(Unrolled(cn)') \in Nat /\ Total(Unrolled(cn)') <= Total(rest)
    BY <2>2, <2>9, TotalFacts
  <2>11. Total(Of(cn, daily) \cup days) <= Total(Of(cn, daily)) + Total(days)
    BY <2>5, RowSets, TotalUnion
  <2>12. /\ Total(Of(cn, daily) \cup days) \in Nat /\ Total(days) \in Nat
         /\ Total(Of(cn, daily)) \in Nat
    <3>1. /\ IsFiniteSet(Of(cn, daily) \cup days)
          /\ \A d \in Of(cn, daily) \cup days : d.delta \in Nat
      BY <2>5, RowSets, FS_Union
    <3> QED
      BY <3>1, <2>5, RowSets, TotalFacts
  <2>13. Reports(cn)' = Total(Of(cn, daily) \cup days) + Total(Unrolled(cn)')
    BY <2>3 DEF Reports
  <2>14. /\ Total(Of(cn, daily)) + Total(Of(cn, hourly)) <= Moved(cn, k)
         /\ Moved(cn, k) \in Nat
    BY <2>1, MovedIsNat, NowBounded DEF CountedTo, Reports
  <2> QED
    BY <2>4, <2>8, <2>9, <2>10, <2>11, <2>12, <2>13, <2>14
<1>6. \A x \in samples' : k <= x.at \/ Counted(x)'
  BY <1>1, <1>2 DEF CountedTo, Counted
<1> QED
  BY <1>5, <1>6 DEF CountedTo

LEMMA InitSum ==
  Init => SumInv
<1> SUFFICES ASSUME Init PROVE SumInv
  OBVIOUS
<1>1. now = 0 /\ samples = {} /\ hourly = {} /\ daily = {}
  BY DEF Init
<1>2. ASSUME NEW cn \in Names
      PROVE  Reports(cn) <= Moved(cn, 0)
  <2>1. Of(cn, daily) = {} /\ Unrolled(cn) = {}
    BY <1>1 DEF Of, Unrolled
  <2>2. Reports(cn) = 0 /\ Moved(cn, 0) \in Nat
    BY <2>1, TotalSmall, MovedIsNat, LengthsAssumption DEF Reports
  <2> QED
    BY <2>2
<1>3. CountedTo(0)
  BY <1>1, <1>2 DEF CountedTo
<1>4. 0 \in 0 .. now
  BY <1>1
<1> QED
  BY <1>3, <1>4 DEF SumInv

LEMMA NextSum ==
  ASSUME TypeInv, CountedAreDue, RolledUpAreDue, SumInv, [Next]_vars
  PROVE  SumInv'
<1> SUFFICES ASSUME owed' = {}
             PROVE  \E c \in 0 .. now' : CountedTo(c)'
  BY DEF SumInv
<1>a. owed = {}
  BY OwedGrows
<1>b. PICK k \in 0 .. now : CountedTo(k)
  BY <1>a DEF SumInv
<1>c. now \in Nat
  BY NowBounded
<1>0. ASSUME hourly' = hourly, daily' = daily, now' = now, samples' \in SUBSET samples
      PROVE  \E c \in 0 .. now' : CountedTo(c)'
  <2>1. Reported' = Reported
    BY <1>0 DEF Reported
  <2>2. \A x \in samples' : k <= x.at \/ Counted(x)'
    BY <1>0, <1>b, <2>1 DEF CountedTo, Counted
  <2>3. CountedTo(k)'
    BY <1>0, <1>b, <2>2, CountedToKept
  <2> QED
    BY <1>0, <2>3
<1>1. ASSUME NEW S \in SUBSET Sessions, Tick(S)
      PROVE  \E c \in 0 .. now' : CountedTo(c)'
  <2>1. /\ hourly' = hourly /\ daily' = daily /\ now' = now + 1
        /\ samples' = samples \cup {[session |-> s, at |-> now + 1] : s \in S}
    BY <1>1 DEF Tick
  <2>2. Reported' = Reported
    BY <2>1 DEF Reported
  <2>3. \A x \in samples' : k <= x.at \/ Counted(x)'
    <3>1. \A x \in samples' \ samples : k <= x.at
      BY <2>1, <1>c
    <3> QED
      BY <3>1, <1>b, <2>2 DEF CountedTo, Counted
  <2>4. CountedTo(k)'
    BY <1>b, <2>1, <2>3, CountedToKept
  <2>5. k \in 0 .. now'
    BY <2>1, <1>c
  <2> QED
    BY <2>4, <2>5
<1>2. CASE AddUp({x \in samples : Before(x.at, SampleRetention, now)})
  <2>1. now' = now
    BY <1>2 DEF AddUp
  <2> QED
    BY <1>2, <1>a, <1>b, <2>1, AddUpCountedTo
<1>3. CASE RollUp({r \in hourly : Before(r.at, HourlyRetention, now)})
  <2>1. {r \in hourly : Before(r.at, HourlyRetention, now)} \in SUBSET hourly
    OBVIOUS
  <2>2. CountedTo(k)'
    BY <1>3, <1>a, <1>b, <2>1, RollUpCountedTo
  <2>3. now' = now
    BY <1>3 DEF RollUp
  <2> QED
    BY <2>2, <2>3
<1>4. CASE DeleteHourly({r \in hourly : Before(r.at, HourlyRetention, now)})
  <2>1. /\ gc.pc = "hours" /\ samples' = samples /\ daily' = daily /\ now' = now
        /\ hourly' \in SUBSET hourly
    BY <1>4 DEF DeleteHourly, Left
  <2>2. \A x \in samples : ~ Counted(x)
    BY <1>a, <2>1 DEF CountedAreDue, Counted
  <2>3. \A x \in samples' : k <= x.at
    BY <1>b, <2>1, <2>2 DEF CountedTo
  <2>4. CountedTo(k)'
    BY <1>b, <2>1, <2>3, CountedToKept
  <2> QED
    BY <2>1, <2>4
<1>5. CASE DeleteSamples({x \in samples : Before(x.at, SampleRetention, now)})
  BY <1>0, <1>5 DEF DeleteSamples, Left
<1>6. CASE StartPass \/ StatementFails \/ Restart \/ UNCHANGED vars
  BY <1>0, <1>6 DEF StartPass, StatementFails, Restart, vars
<1> QED
  BY <1>1, <1>2, <1>3, <1>4, <1>5, <1>6, StepKinds

LEMMA SumInvSuffices ==
  TypeInv /\ SumInv => NeverOverstated
<1> SUFFICES ASSUME TypeInv, SumInv, owed = {}, NEW cn \in Names
             PROVE  MapThenSumSet(LAMBDA d : d.delta, {d \in daily : d.cn = cn})
                    + MapThenSumSet(LAMBDA r : r.delta,
                                    {r \in hourly : r.cn = cn /\ ~RolledUp(r)})
                    <= MapThenSumSet(LAMBDA s : Bytes[s][now] - Bytes[s][0],
                                     {s \in Sessions : Owner[s] = cn})
  BY DEF NeverOverstated
<1>1. PICK k \in 0 .. now : CountedTo(k)
  BY DEF SumInv
<1>2. MapThenSumSet(LAMBDA d : d.delta, Of(cn, daily)) = Total(Of(cn, daily))
  BY RowSets, DeltasAreSum
<1>3. MapThenSumSet(LAMBDA r : r.delta, Unrolled(cn)) = Total(Unrolled(cn))
  BY RowSets, DeltasAreSum
<1>4. MapThenSumSet(LAMBDA s : Bytes[s][now] - Bytes[s][0], Own(cn)) = Moved(cn, now)
  <2>1. MapThenSumSet(LAMBDA s : Bytes[s][now] - Bytes[s][0], Own(cn))
          = Sum([s \in Own(cn) |-> Bytes[s][now] - Bytes[s][0]], Own(cn))
    BY OwnFinite, SpreadIsSum
  <2>2. Sum([s \in Own(cn) |-> Bytes[s][now] - Bytes[s][0]], Own(cn))
          = Sum(MovedBy(now), Own(cn))
    BY OwnFinite, SumSame DEF MovedBy
  <2> QED
    BY <2>1, <2>2 DEF Moved
<1>5. Total(Of(cn, daily)) + Total(Unrolled(cn)) <= Moved(cn, k)
  BY <1>1 DEF CountedTo, Reports
<1>6. Moved(cn, k) <= Moved(cn, now)
  <2>1. k \in 0 .. MaxTime /\ now \in 0 .. MaxTime /\ k <= now
    BY NowBounded
  <2> QED
    BY <2>1, MovedGrows
<1>7. /\ Total(Of(cn, daily)) \in Nat /\ Total(Unrolled(cn)) \in Nat
      /\ Moved(cn, k) \in Nat /\ Moved(cn, now) \in Nat
  <2>1. k \in 0 .. MaxTime /\ now \in 0 .. MaxTime
    BY NowBounded
  <2> QED
    BY <2>1, RowSets, MovedIsNat
<1>8. Total(Of(cn, daily)) + Total(Unrolled(cn)) <= Moved(cn, now)
  BY <1>5, <1>6, <1>7
<1> QED
  BY <1>2, <1>3, <1>4, <1>8 DEF Of, Unrolled, Own

\* While no deletion was skipped, the traffic history of a name never shows more
\* than its sessions transferred: the volumes of the INSERTs that follow each other
\* (AggregateSamplesToHourly, AggregateHourlyToDaily) are of times that do not
\* overlap, and a day replaces the hours it sums up.
THEOREM HistoryNeverOverstated == Spec => []NeverOverstated
<1> DEFINE I == TypeInv /\ CountInv /\ RollInv /\ HourTimes /\ SumInv
<1>1. Init => I
  BY InitType, InitShape, InitCount, InitRoll, InitSum
     DEF CountInv, RollInv, HourTimes, Init, Reported
<1>2. I /\ [Next]_vars => I'
  <2> SUFFICES ASSUME I, [Next]_vars PROVE I'
    OBVIOUS
  <2>1. TypeInv' /\ Shape'
    BY NextType, NextShape DEF CountInv
  <2>2. CountInv'
    BY <2>1, NextCount DEF CountInv
  <2>3. HourTimes'
    BY NextHourTimes DEF CountInv
  <2>4. RollInv'
    BY <2>1, NextRoll DEF RollInv
  <2>5. SumInv'
    BY NextSum DEF CountInv, RollInv
  <2> QED
    BY <2>1, <2>2, <2>3, <2>4, <2>5
<1>3. I => NeverOverstated
  BY SumInvSuffices
<1> HIDE DEF I
<1> QED
  BY <1>1, <1>2, <1>3, PTL DEF Spec
==============================================================================
