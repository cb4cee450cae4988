------------------------------ MODULE Retention ------------------------------
(***************************************************************************)
(* How traffic samples become hourly and daily rows                        *)
(* (lib/monitor/retention.go, and the loop of lib/monitor/scraper.go that  *)
(* calls it).  One pass of the loop is four SQL statements, each with its  *)
(* own idea of "now": samples that are old enough are added up into hourly *)
(* rows, old hourly rows into daily rows, then the old samples and the old *)
(* hourly rows are deleted.  There is no transaction around them, an error *)
(* is logged and the next statement runs all the same, and the process may *)
(* stop anywhere.  Meanwhile the scraper adds samples.                     *)
(*                                                                         *)
(* A pass may begin at any time: the loop runs hourly, but also five       *)
(* minutes after every start of the process.                               *)
(***************************************************************************)
EXTENDS Naturals, FiniteSets, FiniteSetsExt

CONSTANTS
  Sessions,         \* the VPN sessions: a table, so a finite set
  Names,            \* common names
  Owner,            \* Owner[s]: the common name of session s
  Bytes,            \* Bytes[s][t]: what session s has transferred by time t
  HourLen,          \* length of an hour, in steps of the clock
  HoursPerDay,
  SampleRetention,  \* MonitoringSampleRetentionDays, in steps of the clock
  HourlyRetention,  \* MonitoringHourlyRetentionDays, likewise
  MaxTime,          \* bound on the clock
  MaxSamples,       \* bound on the samples ever taken
  MaxDelete,        \* rows that one deletion can take, 32766 with SQLite
  MaxFailures       \* how many statements may fail, and restarts happen

ASSUME SessionsAssumption ==
  /\ IsFiniteSet(Sessions)
  /\ Owner \in [Sessions -> Names]
  /\ Bytes \in [Sessions -> [0 .. MaxTime -> Nat]]
  /\ \A s \in Sessions : \A t, u \in 0 .. MaxTime :
       t <= u => Bytes[s][t] <= Bytes[s][u]

ASSUME LengthsAssumption ==
  /\ HourLen \in Nat \ {0}
  /\ HoursPerDay \in Nat \ {0}
  /\ SampleRetention \in Nat
  /\ HourlyRetention \in Nat
  /\ MaxTime \in Nat
  /\ MaxSamples \in Nat
  /\ MaxDelete \in Nat
  /\ MaxFailures \in Nat

VARIABLES
  now,       \* the clock
  samples,   \* table traffic_sample
  hourly,    \* table traffic_hourly
  daily,     \* table traffic_daily
  gc,        \* the pass of runRetention under way
  batches,   \* INSERTs that added rows: with its name and hour, a row's id
  taken,     \* samples ever taken
  failures,  \* failures and restarts so far
  owed       \* history: tables whose counted rows were left undeleted

vars == <<now, samples, hourly, daily, gc, batches, taken, failures, owed>>

\* `from' in a row is history: what the row was computed from.
Sample == [session : Sessions, at : Nat]
Hour   == [batch : Nat, cn : Names, at : Nat, delta : Nat,
           from : SUBSET Sample]
Day    == [batch : Nat, cn : Names, at : Nat, delta : Nat, from : SUBSET Hour]

\* The clock at which this pass added up samples and hours; 0 if it did not.
Pass == [pc : {"idle", "hourly", "daily", "samples", "hours"},
         hourlyAt : Nat, dailyAt : Nat]

NoPass == [pc |-> "idle", hourlyAt |-> 0, dailyAt |-> 0]

Init ==
  /\ now = 0
  /\ samples = {}
  /\ hourly = {}
  /\ daily = {}
  /\ gc = NoPass
  /\ batches = 0
  /\ taken = 0
  /\ failures = 0
  /\ owed = {}

-----------------------------------------------------------------------------
(* The queries.                                                            *)

HourOf(t) == t - (t % HourLen)
DayOf(t)  == t - (t % (HourLen * HoursPerDay))

\* The cutoff of a statement that runs at time t.
Before(at, retention, t) == at + retention < t

\* Mutant of the next definition: the difference the wrong way round.
VolumeBackwards(S) ==
  LET b == {Bytes[x.session][x.at] : x \in S}
  IN  Min(b) - Max(b)

\* MAX(bytes) - MIN(bytes) of the samples of one session.
Volume(S) == LET b == {Bytes[x.session][x.at] : x \in S}
             IN  Max(b) - Min(b)

\* Mutants of the next definition: one group for all sessions of a name; the
\* counter itself as the difference.
TransferOfName(S) == Volume(S)
TransferToDate(S) ==
  MapThenSumSet(LAMBDA s : Max({Bytes[s][x.at] : x \in {y \in S : y.session = s}}),
                {x.session : x \in S})

\* SUM over the sessions of what each transferred in the hour.
Transfer(S) ==
  MapThenSumSet(LAMBDA s : Volume({x \in S : x.session = s}),
                {x.session : x \in S})

\* The row for one common name and hour.
HourRow(cn, h, S) ==
  LET part == {x \in S : Owner[x.session] = cn /\ HourOf(x.at) = h}
  IN  [batch |-> batches + 1, cn |-> cn, at |-> h,
       delta |-> Transfer(part), from |-> part]

HourRows(S) == {HourRow(Owner[x.session], HourOf(x.at), S) : x \in S}

\* The row for one common name and day.
DayRow(cn, d, H) ==
  LET part == {r \in H : r.cn = cn /\ DayOf(r.at) = d}
  IN  [batch |-> batches + 1, cn |-> cn, at |-> d,
       delta |-> MapThenSumSet(LAMBDA r : r.delta, part), from |-> part]

DayRows(H) == {DayRow(r.cn, DayOf(r.at), H) : r \in H}

\* INSERT ... SELECT: no conflict clause, every group becomes a new row.
NewBatch(rows) == batches' = IF rows = {} THEN batches ELSE batches + 1

-----------------------------------------------------------------------------
(* The scraper and the clock: some sessions are sampled at each new time.  *)

Tick(S) ==
  /\ now < MaxTime
  /\ taken + Cardinality(S) <= MaxSamples
  /\ now' = now + 1
  /\ samples' = samples \cup {[session |-> s, at |-> now + 1] : s \in S}
  /\ taken' = taken + Cardinality(S)
  /\ UNCHANGED <<hourly, daily, gc, batches, failures, owed>>

-----------------------------------------------------------------------------
(* One pass.                                                               *)

\* Mutant of the next definition: no ticker, only the first passes are made.
StartPassEarly ==
  /\ gc.pc = "idle"
  /\ batches = 0
  /\ gc' = [NoPass EXCEPT !.pc = "hourly"]
  /\ UNCHANGED <<now, samples, hourly, daily, batches, taken, failures, owed>>

StartPass ==
  /\ gc.pc = "idle"
  /\ gc' = [NoPass EXCEPT !.pc = "hourly"]
  /\ UNCHANGED <<now, samples, hourly, daily, batches, taken, failures, owed>>

AddUp(old) ==
  /\ gc.pc = "hourly"
  /\ hourly' = hourly \cup HourRows(old)
  /\ NewBatch(old)
  /\ gc' = [gc EXCEPT !.pc = "daily", !.hourlyAt = now]
  /\ UNCHANGED <<now, samples, daily, taken, failures, owed>>

RollUp(old) ==
  /\ gc.pc = "daily"
  /\ daily' = daily \cup DayRows(old)
  /\ NewBatch(old)
  /\ gc' = [gc EXCEPT !.pc = "samples", !.dailyAt = now]
  /\ UNCHANGED <<now, samples, hourly, taken, failures, owed>>

\* Mutant of the next definition: the statement works on all samples.
AddUpAllSamples == AddUp(samples)

AggregateSamplesToHourly ==
  AddUp({x \in samples : Before(x.at, SampleRetention, now)})

\* Mutant of the next definition: the retention of samples is passed.
RollUpYoungHours ==
  RollUp({r \in hourly : Before(r.at, SampleRetention, now)})

AggregateHourlyToDaily ==
  RollUp({r \in hourly : Before(r.at, HourlyRetention, now)})

\* The database layer reads the ids of the rows and deletes them in a second
\* statement, with one variable for each id: too many, and nothing is deleted.
Left(table, old)  == IF Cardinality(old) <= MaxDelete THEN table \ old ELSE table
Undone(name, old) == IF Cardinality(old) <= MaxDelete THEN {} ELSE {name}

\* The deletion of some samples, or of some hourly rows, in a pass.
DeleteSamples(old) ==
  /\ gc.pc = "samples"
  /\ samples' = Left(samples, old)
  /\ owed' = owed \cup Undone("samples", old)
  /\ gc' = [gc EXCEPT !.pc = "hours"]
  /\ UNCHANGED <<now, hourly, daily, batches, taken, failures>>

DeleteHourly(old) ==
  /\ gc.pc = "hours"
  /\ hourly' = Left(hourly, old)
  /\ owed' = owed \cup Undone("hours", old)
  /\ gc' = NoPass
  /\ UNCHANGED <<now, samples, daily, batches, taken, failures>>

\* Mutants of the next definition: the retention of hourly rows is passed; the
\* samples of the hour at hand are deleted as well.
PruneFewerSamples ==
  DeleteSamples({x \in samples : Before(x.at, HourlyRetention, now)})
PruneWholeHours ==
  DeleteSamples({x \in samples : Before(HourOf(x.at), SampleRetention, now)})

PruneOldSamples ==
  DeleteSamples({x \in samples : Before(x.at, SampleRetention, now)})

\* Mutant of the next definition: the retention of samples is passed.
PruneYoungHours ==
  DeleteHourly({r \in hourly : Before(r.at, SampleRetention, now)})

PruneOldHourly ==
  DeleteHourly({r \in hourly : Before(r.at, HourlyRetention, now)})

NextPc(pc) == CASE pc = "hourly"  -> "daily"
                [] pc = "daily"   -> "samples"
                [] pc = "samples" -> "hours"
                [] pc = "hours"   -> "idle"

\* The deletions that are still to come in this pass.
Owing(pc) == {x \in {"samples", "hours"} :
                \/ x = "samples" /\ pc \in {"daily", "samples"}
                \/ x = "hours"   /\ pc \in {"samples", "hours"}}

\* A statement fails: the error is logged, the next one runs.
StatementFails ==
  /\ gc.pc # "idle"
  /\ failures < MaxFailures
  /\ failures' = failures + 1
  /\ owed' = owed \cup ({gc.pc} \cap {"samples", "hours"})
  /\ gc' = IF gc.pc = "hours" THEN NoPass ELSE [gc EXCEPT !.pc = NextPc(gc.pc)]
  /\ UNCHANGED <<now, samples, hourly, daily, batches, taken>>

\* The process stops in the middle of a pass, and starts again.
Restart ==
  /\ gc.pc # "idle"
  /\ failures < MaxFailures
  /\ failures' = failures + 1
  /\ owed' = owed \cup Owing(gc.pc)
  /\ gc' = NoPass
  /\ UNCHANGED <<now, samples, hourly, daily, batches, taken>>

Step == \/ StartPass
        \/ AggregateSamplesToHourly
        \/ AggregateHourlyToDaily
        \/ PruneOldSamples
        \/ PruneOldHourly

Next == \/ \E S \in SUBSET Sessions : Tick(S)
        \/ Step
        \/ StatementFails
        \/ Restart

Spec == Init /\ [][Next]_vars

\* The goroutine keeps going; statements fail a bounded number of times.
FairSpec == Spec /\ WF_vars(Step)

-----------------------------------------------------------------------------
(* Properties.                                                             *)

TypeOK ==
  /\ now \in 0 .. MaxTime
  /\ samples \subseteq Sample
  /\ hourly \subseteq Hour
  /\ daily \subseteq Day
  /\ gc \in Pass
  /\ batches \in Nat
  /\ taken \in Nat
  /\ failures \in 0 .. MaxFailures
  /\ owed \subseteq {"samples", "hours"}

\* Every hourly row that is still reported, by itself or within a day.
Reported == hourly \cup UNION {d.from : d \in daily}

Counted(x)  == \E r \in Reported : x \in r.from
RolledUp(r) == \E d \in daily : r \in d.from

\* No sample is added up twice, although samples that were added up stay in
\* the table until a later statement, with a later cutoff, deletes them, and
\* passes may follow each other closely.  It takes a deletion that failed, or
\* was cut off, to break it: the INSERT does not recognise what it has counted.
CountedOnce ==
  "samples" \notin owed =>
    \A r, q \in Reported : r # q => r.from \cap q.from = {}

\* The same of hourly rows and days.
RolledUpOnce ==
  "hours" \notin owed =>
    \A d, e \in daily : d # e => d.from \cap e.from = {}

\* Nothing is added up twice on either level.
AddedUpOnce == CountedOnce /\ RolledUpOnce

\* The history of a name never shows more than its sessions transferred,
\* however an hour is cut into several rows and a day into several sums.
NeverOverstated ==
  owed = {} =>
    \A cn \in Names :
      MapThenSumSet(LAMBDA d : d.delta, {d \in daily : d.cn = cn})
      + MapThenSumSet(LAMBDA r : r.delta,
                      {r \in hourly : r.cn = cn /\ ~RolledUp(r)})
      <= MapThenSumSet(LAMBDA s : Bytes[s][now] - Bytes[s][0],
                       {s \in Sessions : Owner[s] = cn})

\* A sample is deleted uncounted only if the statement that should have
\* counted it failed, or if it crossed the cutoff while the pass was running.
PrunedWereCounted ==
  [][\A x \in samples \ samples' :
       (gc.hourlyAt = now \/ Before(x.at, SampleRetention, gc.hourlyAt))
         => Counted(x)]_vars

\* The same of hourly rows and days.
PrunedWereRolledUp ==
  [][\A r \in hourly \ hourly' :
       (gc.dailyAt = now \/ Before(r.at, HourlyRetention, gc.dailyAt))
         => RolledUp(r)]_vars

\* Nothing is deleted on either level before it was added up.
PrunedWereAggregated == PrunedWereCounted /\ PrunedWereRolledUp

\* Old samples do not stay for ever: again and again the table is free of them,
\* whatever fails and whenever the process restarts in between.  It does not
\* hold when more samples get old at once than one deletion can take, after the
\* UI was stopped for days or the retention was shortened.
OldSamplesGo == []<>(\A x \in samples : ~Before(x.at, SampleRetention, now))

\* What lib/monitor/retention.go:11-13 says of the hourly rows: "Rows already
\* aggregated are identified", so that no sample is in two of them.
AggregatedOnce == \A r, q \in Reported : r # q => r.from \cap q.from = {}
==============================================================================
