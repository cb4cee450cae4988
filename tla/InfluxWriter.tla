---------------------------- MODULE InfluxWriter -----------------------------
(***************************************************************************)
(* The InfluxDB side channel (lib/monitor/influx.go): the scraper and the  *)
(* webhook handlers append points to a bounded buffer, one goroutine       *)
(* flushes it on a ticker or when it is full, and an administrator swaps   *)
(* the configuration at run time.  The buffer is under `mu', configuration *)
(* and client under `cfgMu', `buffered' is atomic; no lock spans two of    *)
(* them, so every critical section is a step of its own.                   *)
(***************************************************************************)
EXTENDS Integers, Sequences, FiniteSets

CONSTANTS
  Writers,      \* goroutines that write points: the scraper, webhook handlers;
                \* a process has finitely many
  BufferSize,   \* cfg.BufferSize, or 1000 where that is not positive
  Configs,      \* the outcomes of a reconfiguration, among AllConfigs
  MaxPoints,    \* bound on the points accepted
  MaxReconfigs  \* bound on the calls of Reconfigure

\* "off": not enabled; "on": enabled with a client; "broken": enabled, and the
\* client could not be made (no host, or no token).
AllConfigs == {"off", "on", "broken"}

ASSUME WriterAssumption ==
  /\ IsFiniteSet(Writers)
  /\ BufferSize \in Nat \ {0}
  /\ Configs \subseteq AllConfigs
  /\ MaxPoints \in Nat
  /\ MaxReconfigs \in Nat

VARIABLES
  cfg,        \* the configuration in force
  buffer,     \* the points waiting, oldest first; points are numbered as accepted
  buffered,   \* the depth Stats reports
  signal,     \* is there a token in flushCh?
  writer,     \* control state of each writer
  loop,       \* the flush goroutine: control state, client it read, batch it took
  accepted,   \* number of points appended so far
  delivered,  \* the points InfluxDB took, in order
  errors,     \* points counted as errors
  dropped,    \* points pushed out by newer ones
  reset,      \* points a reconfiguration threw away
  reconfigs   \* calls of Reconfigure so far

vars == <<cfg, buffer, buffered, signal, writer, loop, accepted, delivered, errors,
          dropped, reset, reconfigs>>

Points == 1 .. MaxPoints
NoBatch == <<>>
Waiting == [pc |-> "wait", client |-> FALSE, batch |-> NoBatch]

Enabled == cfg # "off"
Running == loop.pc # "none"     \* flushCh # nil: the goroutine exists

\* NewInfluxWriter; Start replaces a writer it could not make by a disabled one.
Init ==
  /\ cfg \in {"off", "on"}
  /\ loop = [Waiting EXCEPT !.pc = IF cfg = "on" THEN "wait" ELSE "none"]
  /\ buffer = <<>>
  /\ buffered = 0
  /\ signal = FALSE
  /\ writer = [w \in Writers |-> "idle"]
  /\ accepted = 0
  /\ delivered = <<>>
  /\ errors = 0
  /\ dropped = 0
  /\ reset = 0
  /\ reconfigs = 0

-----------------------------------------------------------------------------
(* WriteTraffic and WriteSession.                                          *)

Underway == {w \in Writers : writer[w] = "enqueue"}

\* The check of enabled(), before the point is made.  The bound counts the points
\* under way, so that it stops no writer in the middle.
StartWrite(w) ==
  /\ writer[w] = "idle"
  /\ Enabled
  /\ accepted + Cardinality(Underway) < MaxPoints
  /\ writer' = [writer EXCEPT ![w] = "enqueue"]
  /\ UNCHANGED <<cfg, buffer, buffered, signal, loop, accepted, delivered, errors, dropped,
                 reset, reconfigs>>

\* Mutant: the newest of the waiting points makes room, not the oldest.
PushKeepingOld(b, p) ==
  IF Len(b) >= BufferSize THEN Append(SubSeq(b, 1, Len(b) - 1), p) ELSE Append(b, p)

\* A full buffer loses its oldest point, to keep the newest.
Push(b, p) == Append(IF Len(b) >= BufferSize THEN Tail(b) ELSE b, p)

Overflows(b) == Len(b) >= BufferSize

\* The critical section of enqueue.
Enqueue(w) ==
  /\ writer[w] = "enqueue"
  /\ accepted' = accepted + 1
  /\ buffer' = Push(buffer, accepted + 1)
  /\ IF Overflows(buffer)
     THEN dropped' = dropped + 1 /\ UNCHANGED buffered
     ELSE buffered' = buffered + 1 /\ UNCHANGED dropped
  /\ writer' = [writer EXCEPT ![w] = IF Overflows(buffer') THEN "signal" ELSE "idle"]
  /\ UNCHANGED <<cfg, signal, loop, delivered, errors, reset, reconfigs>>

\* Mutant: flushCh without room for a token, so that a busy loop misses the signal.
SignalIfWaiting(w) ==
  /\ writer[w] = "signal"
  /\ writer' = [writer EXCEPT ![w] = "idle"]
  /\ signal' = (signal \/ loop.pc = "wait")
  /\ UNCHANGED <<cfg, buffer, buffered, loop, accepted, delivered, errors, dropped, reset,
                 reconfigs>>

\* After the unlock: a token for the flush loop unless one is there; a nil channel
\* takes none.
Signal(w) ==
  /\ writer[w] = "signal"
  /\ writer' = [writer EXCEPT ![w] = "idle"]
  /\ signal' = (signal \/ Running)
  /\ UNCHANGED <<cfg, buffer, buffered, loop, accepted, delivered, errors, dropped, reset,
                 reconfigs>>

-----------------------------------------------------------------------------
(* The flush goroutine.                                                    *)

LoopUnchanged == UNCHANGED <<cfg, writer, accepted, dropped, reset, reconfigs>>

\* flushLoop wakes and flush reads the client of the moment.
Wake ==
  /\ loop.pc = "wait"
  /\ loop' = [loop EXCEPT !.pc = "take", !.client = (cfg = "on")]
  /\ UNCHANGED <<buffer, buffered, delivered, errors>>
  /\ LoopUnchanged

WakeByTick   == Wake /\ UNCHANGED signal
WakeBySignal == Wake /\ signal /\ signal' = FALSE

\* Mutants of the next definition: the test for an empty buffer forgotten; the batch
\* taken without a new buffer; nothing done until the buffer is full.
TakeAnyBatch ==
  /\ loop.pc = "take"
  /\ loop' = [loop EXCEPT !.pc = "account", !.batch = buffer]
  /\ buffer' = <<>>
  /\ UNCHANGED <<buffered, signal, delivered, errors>>
  /\ LoopUnchanged

TakeSharedBatch ==
  /\ loop.pc = "take"
  /\ loop' = IF buffer = <<>> THEN Waiting
             ELSE [loop EXCEPT !.pc = "account", !.batch = buffer]
  /\ UNCHANGED <<buffer, buffered, signal, delivered, errors>>
  /\ LoopUnchanged

TakeFullBatch ==
  /\ loop.pc = "take"
  /\ IF Len(buffer) < BufferSize
     THEN loop' = Waiting /\ UNCHANGED buffer
     ELSE loop' = [loop EXCEPT !.pc = "account", !.batch = buffer] /\ buffer' = <<>>
  /\ UNCHANGED <<buffered, signal, delivered, errors>>
  /\ LoopUnchanged

\* Take the whole buffer, or go back to waiting when there is nothing.
TakeBatch ==
  /\ loop.pc = "take"
  /\ loop' = IF buffer = <<>> THEN Waiting
             ELSE [loop EXCEPT !.pc = "account", !.batch = buffer]
  /\ buffer' = <<>>
  /\ UNCHANGED <<buffered, signal, delivered, errors>>
  /\ LoopUnchanged

\* Mutants: the capacity subtracted for the length; the counter set to zero.
AccountCapacity ==
  /\ loop.pc = "account"
  /\ buffered' = buffered - BufferSize
  /\ loop' = [loop EXCEPT !.pc = "clamp"]
  /\ UNCHANGED <<buffer, signal, delivered, errors>>
  /\ LoopUnchanged

AccountAll ==
  /\ loop.pc = "account"
  /\ buffered' = 0
  /\ loop' = [loop EXCEPT !.pc = "clamp"]
  /\ UNCHANGED <<buffer, signal, delivered, errors>>
  /\ LoopUnchanged

\* buffered.Add(-len(batch))
Account ==
  /\ loop.pc = "account"
  /\ buffered' = buffered - Len(loop.batch)
  /\ loop' = [loop EXCEPT !.pc = "clamp"]
  /\ UNCHANGED <<buffer, signal, delivered, errors>>
  /\ LoopUnchanged

\* if buffered.Load() < 0 { buffered.Store(0) }
Clamp ==
  /\ loop.pc = "clamp"
  /\ buffered' = IF buffered < 0 THEN 0 ELSE buffered
  /\ loop' = [loop EXCEPT !.pc = "write"]
  /\ UNCHANGED <<buffer, signal, delivered, errors>>
  /\ LoopUnchanged

\* Mutant: the early return for a missing client before the errors are counted.
WriteUncounted ==
  /\ loop.pc = "write"
  /\ \/ /\ loop.client
        /\ delivered' = delivered \o loop.batch
        /\ UNCHANGED errors
     \/ /\ loop.client
        /\ errors' = errors + Len(loop.batch)
        /\ UNCHANGED delivered
     \/ /\ ~ loop.client
        /\ UNCHANGED <<delivered, errors>>
  /\ loop' = Waiting
  /\ UNCHANGED <<buffer, buffered, signal>>
  /\ LoopUnchanged

\* WritePoints with the client read before; without one the batch is an error.
WriteBatch ==
  /\ loop.pc = "write"
  /\ \/ /\ loop.client
        /\ delivered' = delivered \o loop.batch
        /\ UNCHANGED errors
     \/ /\ errors' = errors + Len(loop.batch)
        /\ UNCHANGED delivered
  /\ loop' = Waiting
  /\ UNCHANGED <<buffer, buffered, signal>>
  /\ LoopUnchanged

LoopStep == WakeBySignal \/ TakeBatch \/ Account \/ Clamp \/ WriteBatch

-----------------------------------------------------------------------------
\* Reconfigure, under cfgMu.  The first time it gets a client it makes a buffer and
\* starts the goroutine.  It does so without mu: an enqueue under way may put the
\* old buffer back.
Reconfigure(c) ==
  /\ reconfigs < MaxReconfigs
  /\ reconfigs' = reconfigs + 1
  /\ cfg' = c
  /\ IF c = "on" /\ ~ Running
     THEN /\ \/ buffer' = <<>> /\ reset' = reset + Len(buffer)
             \/ Underway # {} /\ UNCHANGED <<buffer, reset>>
          /\ loop' = Waiting
     ELSE UNCHANGED <<buffer, reset, loop>>
  /\ UNCHANGED <<buffered, signal, writer, accepted, delivered, errors, dropped>>

Next ==
  \/ \E w \in Writers : StartWrite(w) \/ Enqueue(w) \/ Signal(w)
  \/ WakeByTick
  \/ LoopStep
  \/ \E c \in Configs : Reconfigure(c)

Spec == Init /\ [][Next]_vars

\* A goroutine that can run does; the ticker may be as slow as it likes.
SignalSpec ==
  /\ Spec
  /\ \A w \in Writers : WF_vars(Enqueue(w) \/ Signal(w))
  /\ WF_vars(WakeBySignal) /\ WF_vars(TakeBatch \/ Account \/ Clamp \/ WriteBatch)

\* The ticker fires again and again.
TickerFires == WF_vars(LoopStep \/ WakeByTick)

-----------------------------------------------------------------------------
(* Properties.                                                             *)

Batch == loop.batch

TypeOK ==
  /\ cfg \in AllConfigs
  /\ buffer \in Seq(Points)
  /\ buffered \in Int
  /\ signal \in BOOLEAN
  /\ writer \in [Writers -> {"idle", "enqueue", "signal"}]
  /\ loop \in [pc : {"none", "wait"}, client : {FALSE}, batch : {NoBatch}]
          \cup [pc : {"take"}, client : BOOLEAN, batch : {NoBatch}]
          \cup [pc : {"account", "clamp", "write"}, client : BOOLEAN,
                batch : Seq(Points) \ {NoBatch}]
  /\ accepted \in 0 .. MaxPoints
  /\ delivered \in Seq(Points)
  /\ errors \in Nat /\ dropped \in Nat /\ reset \in Nat
  /\ reconfigs \in 0 .. MaxReconfigs

\* No point disappears without being counted: each accepted point waits, is in the
\* batch being written, was delivered, or is counted as an error or as lost.
Conservation ==
  accepted = Len(buffer) + Len(Batch) + Len(delivered) + errors + dropped + reset

\* The buffer never outgrows its size and holds the newest points, oldest first,
\* whatever overflows and flushes came before.
KeepsNewest ==
  /\ Len(buffer) <= BufferSize
  /\ \A i \in DOMAIN buffer : buffer[i] = accepted - Len(buffer) + i

\* Points reach InfluxDB in the order they were accepted and at most once, also over
\* a change of the configuration.
DeliveredInOrder ==
  LET all == delivered \o Batch \o buffer IN
    \A i, j \in DOMAIN all : i < j => all[i] < all[j]

\* The batch taken from the buffer and not yet subtracted from the counter.
Unsubtracted == IF loop.pc = "account" THEN Len(Batch) ELSE 0

\* The counter behind Stats, which no lock of the buffer protects, never drifts: it is
\* off by the points of a replaced buffer and by nothing else.
DepthAccounted == buffered = Len(buffer) + Unsubtracted + reset

\* The counter behind Stats is never driven below zero, so the clamp never has to
\* repair it (and never overwrites a concurrent increment).
NeverClamped == buffered >= 0

\* "when the buffer fills": a full buffer is flushed even if the ticker never fires,
\* so no signal is lost between the writers and the loop.
FullBufferFlushed ==
  (Running /\ Len(buffer) = BufferSize) ~> Len(buffer) < BufferSize

\* "every FlushInterval": while the ticker fires, no point waits for ever once the
\* loop runs.
EveryPointLeaves ==
  TickerFires =>
    \A p \in Points :
      (Running /\ p \in {buffer[i] : i \in DOMAIN buffer})
        ~> p \notin {buffer[i] : i \in DOMAIN buffer}
==============================================================================
