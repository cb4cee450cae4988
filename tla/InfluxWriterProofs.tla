-------------------------- MODULE InfluxWriterProofs --------------------------
(***************************************************************************)
(* Theorems about InfluxWriter, for every set of writers, every size of    *)
(* the buffer and every bound.                                             *)
(***************************************************************************)
EXTENDS InfluxWriter, TLAPS, SequenceTheorems, FiniteSetTheorems

\* What is needed of the types: points are numbers, and only a loop that has taken a
\* batch holds one.
LoopStates ==
  [pc : {"none", "wait"}, client : {FALSE}, batch : {NoBatch}]
    \cup [pc : {"take"}, client : BOOLEAN, batch : {NoBatch}]
    \cup [pc : {"account", "clamp", "write"}, client : BOOLEAN, batch : Seq(Nat)]

Types ==
  /\ buffer \in Seq(Nat)
  /\ buffered \in Int
  /\ loop \in LoopStates
  /\ accepted \in Nat
  /\ delivered \in Seq(Nat)
  /\ errors \in Nat /\ dropped \in Nat /\ reset \in Nat

\* Inductive as it stands: the counter is right in every state, so the clamp finds
\* nothing to repair, and the buffer ends with the last accepted point.
WriterInv == Types /\ Conservation /\ KeepsNewest /\ DepthAccounted

\* The empty buffer keeps the newest points, none of them.
LEMMA EmptyKeeps ==
  /\ <<>> \in Seq(Nat) /\ Len(<<>>) = 0
  /\ Len(<<>>) <= BufferSize
  /\ \A a : \A i \in DOMAIN <<>> : <<>>[i] = a - Len(<<>>) + i
<1>1. <<>> \in Seq(Nat) /\ Len(<<>>) = 0
  BY EmptySeq
<1>2. DOMAIN <<>> = {}
  BY <1>1, LenProperties
<1>. QED
  BY <1>1, <1>2, WriterAssumption

\* What the definitions say of the lengths, for one state.
LEMMA Lengths ==
  ASSUME Types
  PROVE  /\ Len(buffer) \in Nat /\ Len(delivered) \in Nat /\ Len(loop.batch) \in Nat
         /\ loop.batch \in Seq(Nat)
         /\ loop.pc \in {"none", "wait", "take"} => loop.batch = <<>> /\ Len(loop.batch) = 0
<1>1. loop.batch \in Seq(Nat)
  BY EmptyKeeps DEF Types, LoopStates, NoBatch
<1>2. loop.pc \in {"none", "wait", "take"} => loop.batch = <<>>
  BY DEF Types, LoopStates, NoBatch
<1>. QED
  BY <1>1, <1>2, EmptyKeeps, LenProperties DEF Types

\* The writer starts empty, with nothing counted.
LEMMA WriterInit == Init => WriterInv
<1>. SUFFICES ASSUME Init PROVE WriterInv
  OBVIOUS
<1>1. buffer = <<>> /\ delivered = <<>> /\ loop.batch = <<>> /\ loop.pc # "account"
  BY DEF Init, Waiting, NoBatch
<1>2. Types
  <2>1. loop \in LoopStates
    <3>1. \E p \in {"none", "wait"} : loop = [Waiting EXCEPT !.pc = p]
      BY DEF Init
    <3>. QED  BY <3>1 DEF LoopStates, Waiting, NoBatch
  <2>. QED  BY <2>1, EmptyKeeps DEF Init, Types
<1>3. Conservation /\ DepthAccounted
  BY <1>1, EmptyKeeps DEF Init, Conservation, DepthAccounted, Unsubtracted, Batch
<1>4. KeepsNewest
  BY <1>1, EmptyKeeps DEF KeepsNewest
<1>. QED
  BY <1>2, <1>3, <1>4 DEF WriterInv

\* Sums, apart from the sequences whose lengths they add up.
LEMMA SumOne ==
  ASSUME NEW a \in Int, NEW b \in Int, NEW k \in Int, NEW d \in Int, NEW e \in Int,
         NEW f \in Int, NEW g \in Int, a = b + k + d + e + f + g
  PROVE  /\ a + 1 = b + k + d + e + (f + 1) + g
         /\ a + 1 = (b + 1) + k + d + e + f + g
         /\ a = b + 0 + (d + k) + e + f + g
         /\ a = b + 0 + d + (e + k) + f + g
<1>. QED  OBVIOUS

LEMMA DepthOne ==
  ASSUME NEW a \in Int, NEW b \in Int, NEW u \in Int, NEW g \in Int, a = b + u + g
  PROVE  a + 1 = (b + 1) + u + g
<1>. QED  OBVIOUS

\* A buffer with the newest points has them after one more point too.
LEMMA PushKeeps ==
  ASSUME NEW b \in Seq(Nat), NEW a \in Nat, Len(b) <= BufferSize,
         \A i \in DOMAIN b : b[i] = a - Len(b) + i
  PROVE  /\ Push(b, a + 1) \in Seq(Nat)
         /\ Len(Push(b, a + 1)) <= BufferSize
         /\ Len(Push(b, a + 1)) = IF Overflows(b) THEN Len(b) ELSE Len(b) + 1
         /\ \A i \in DOMAIN Push(b, a + 1) :
              Push(b, a + 1)[i] = (a + 1) - Len(Push(b, a + 1)) + i
<1>1. BufferSize \in Nat \ {0} /\ Len(b) \in Nat /\ a + 1 \in Nat
  BY WriterAssumption, LenProperties
<1>range. \A i \in 1 .. Len(b) : b[i] = a - Len(b) + i
  BY LenProperties
<1>2. CASE Overflows(b)
  <2>1. Len(b) = BufferSize /\ b # <<>>
    <3>1. Len(b) = BufferSize
      BY <1>1, <1>2 DEF Overflows
    <3>. QED  BY <1>1, <3>1, EmptyKeeps
  <2>2. /\ Tail(b) \in Seq(Nat) /\ Len(Tail(b)) = Len(b) - 1
        /\ \A i \in 1 .. Len(Tail(b)) : Tail(b)[i] = b[i + 1]
    BY <2>1, HeadTailProperties
  <2>3. Push(b, a + 1) = Append(Tail(b), a + 1)
    BY <1>2 DEF Push, Overflows
  <2>4. /\ Push(b, a + 1) \in Seq(Nat) /\ Len(Push(b, a + 1)) = Len(Tail(b)) + 1
        /\ \A i \in 1 .. Len(Tail(b)) : Push(b, a + 1)[i] = Tail(b)[i]
        /\ Push(b, a + 1)[Len(Tail(b)) + 1] = a + 1
    <3>1. \A S, e : e \in S /\ Tail(b) \in Seq(S) =>
            /\ Append(Tail(b), e) \in Seq(S) /\ Len(Append(Tail(b), e)) = Len(Tail(b)) + 1
            /\ \A i \in 1 .. Len(Tail(b)) : Append(Tail(b), e)[i] = Tail(b)[i]
            /\ Append(Tail(b), e)[Len(Tail(b)) + 1] = e
      BY AppendProperties
    <3>2. /\ Append(Tail(b), a + 1) \in Seq(Nat)
          /\ Len(Append(Tail(b), a + 1)) = Len(Tail(b)) + 1
          /\ \A i \in 1 .. Len(Tail(b)) : Append(Tail(b), a + 1)[i] = Tail(b)[i]
          /\ Append(Tail(b), a + 1)[Len(Tail(b)) + 1] = a + 1
      BY <1>1, <2>2, <3>1
    <3>. QED  BY <2>3, <3>2
  <2>5. DOMAIN Push(b, a + 1) = 1 .. Len(b) /\ Len(Push(b, a + 1)) = Len(b)
    BY <1>1, <2>2, <2>4, LenProperties
  <2>6. ASSUME NEW i \in 1 .. Len(b)
        PROVE  Push(b, a + 1)[i] = (a + 1) - Len(b) + i
    <3>1. CASE i = Len(b)
      BY <1>1, <2>2, <2>4, <3>1
    <3>2. CASE i # Len(b)
      <4>1. i \in 1 .. Len(Tail(b)) /\ i + 1 \in 1 .. Len(b)
        <5>1. i \in Nat /\ 1 <= i /\ i <= Len(b) /\ Len(Tail(b)) = Len(b) - 1
          BY <1>1, <2>2
        <5>. QED  BY <1>1, <3>2, <5>1
      <4>2. Push(b, a + 1)[i] = b[i + 1]
        BY <2>2, <2>4, <4>1
      <4>3. b[i + 1] = a - Len(b) + (i + 1)
        BY <1>range, <4>1
      <4>. QED  BY <1>1, <4>2, <4>3
    <3>. QED  BY <3>1, <3>2
  <2>. QED  BY <1>1, <1>2, <2>1, <2>4, <2>5, <2>6
<1>3. CASE ~ Overflows(b)
  <2>1. Push(b, a + 1) = Append(b, a + 1) /\ Len(b) < BufferSize
    BY <1>1, <1>3 DEF Push, Overflows
  <2>2. /\ Push(b, a + 1) \in Seq(Nat) /\ Len(Push(b, a + 1)) = Len(b) + 1
        /\ \A i \in 1 .. Len(b) : Push(b, a + 1)[i] = b[i]
        /\ Push(b, a + 1)[Len(b) + 1] = a + 1
    <3>1. /\ Append(b, a + 1) \in Seq(Nat) /\ Len(Append(b, a + 1)) = Len(b) + 1
          /\ \A i \in 1 .. Len(b) : Append(b, a + 1)[i] = b[i]
          /\ Append(b, a + 1)[Len(b) + 1] = a + 1
      <4>. DEFINE e == a + 1
      <4>. e \in Nat
        BY <1>1
      <4>. HIDE DEF e
      <4>. /\ Append(b, e) \in Seq(Nat) /\ Len(Append(b, e)) = Len(b) + 1
           /\ \A i \in 1 .. Len(b) : Append(b, e)[i] = b[i]
           /\ Append(b, e)[Len(b) + 1] = e
        BY AppendProperties
      <4>. QED  BY DEF e
    <3>. QED  BY <2>1, <3>1
  <2>3. DOMAIN Push(b, a + 1) = 1 .. (Len(b) + 1)
    BY <2>2, LenProperties
  <2>4. ASSUME NEW i \in 1 .. (Len(b) + 1)
        PROVE  Push(b, a + 1)[i] = (a + 1) - (Len(b) + 1) + i
    <3>1. CASE i = Len(b) + 1
      BY <1>1, <2>2, <3>1
    <3>2. CASE i # Len(b) + 1
      <4>1. i \in 1 .. Len(b)
        BY <1>1, <3>2
      <4>2. Push(b, a + 1)[i] = b[i] /\ b[i] = a - Len(b) + i
        BY <1>range, <2>2, <4>1
      <4>. QED  BY <1>1, <4>1, <4>2
    <3>. QED  BY <3>1, <3>2
  <2>5. Len(b) + 1 <= BufferSize
    BY <1>1, <2>1
  <2>. QED  BY <1>3, <2>2, <2>3, <2>4, <2>5
<1>. QED  BY <1>2, <1>3

-----------------------------------------------------------------------------
(* Each action keeps the invariant.                                        *)

\* Steps that touch neither the buffer nor what is counted: a writer that begins, the
\* token, and a reconfiguration that starts no goroutine.
LEMMA QuietKeeps ==
  ASSUME WriterInv, UNCHANGED <<buffer, buffered, loop, accepted, delivered, errors,
                                dropped, reset>>
  PROVE  WriterInv'
  BY DEF WriterInv, Types, LoopStates, Conservation, KeepsNewest, DepthAccounted,
         Unsubtracted, Batch

\* A point is appended; the oldest is lost when the buffer is full.
LEMMA EnqueueKeeps ==
  ASSUME WriterInv, NEW w \in Writers, Enqueue(w)
  PROVE  WriterInv'
<1>1. Types /\ KeepsNewest
  BY DEF WriterInv
<1>2. /\ buffer' \in Seq(Nat)
      /\ Len(buffer') <= BufferSize
      /\ Len(buffer') = IF Overflows(buffer) THEN Len(buffer) ELSE Len(buffer) + 1
      /\ \A i \in DOMAIN buffer' : buffer'[i] = (accepted + 1) - Len(buffer') + i
  BY <1>1, PushKeeps DEF Types, KeepsNewest, Enqueue
<1>3. Types'
  BY <1>1, <1>2 DEF Types, Enqueue
<1>4. KeepsNewest'
  BY <1>2 DEF KeepsNewest, Enqueue
<1>5. /\ Len(buffer) \in Nat /\ Len(delivered) \in Nat /\ Len(loop.batch) \in Nat
      /\ accepted \in Nat /\ errors \in Nat /\ dropped \in Nat /\ reset \in Nat
  BY <1>1, Lengths DEF Types
<1>6. /\ loop' = loop /\ delivered' = delivered /\ errors' = errors /\ reset' = reset
      /\ accepted' = accepted + 1
  BY DEF Enqueue
<1>7. \/ /\ Len(buffer') = Len(buffer)
         /\ dropped' = dropped + 1 /\ buffered' = buffered
      \/ /\ Len(buffer') = Len(buffer) + 1
         /\ dropped' = dropped /\ buffered' = buffered + 1
  <2>1. CASE Overflows(buffer)
    BY <1>2, <2>1 DEF Enqueue
  <2>2. CASE ~ Overflows(buffer)
    BY <1>2, <2>2 DEF Enqueue
  <2>. QED  BY <2>1, <2>2
<1>8. Conservation'
  <2>1. accepted = Len(buffer) + Len(loop.batch) + Len(delivered) + errors + dropped + reset
    BY DEF WriterInv, Conservation, Batch
  <2>2. /\ accepted + 1 = Len(buffer) + Len(loop.batch) + Len(delivered) + errors
                            + (dropped + 1) + reset
        /\ accepted + 1 = (Len(buffer) + 1) + Len(loop.batch) + Len(delivered) + errors
                            + dropped + reset
    <3>. DEFINE b == Len(buffer)
                k == Len(loop.batch)
                d == Len(delivered)
    <3>1. /\ b \in Int /\ k \in Int /\ d \in Int /\ accepted \in Int
          /\ errors \in Int /\ dropped \in Int /\ reset \in Int
          /\ accepted = b + k + d + errors + dropped + reset
      BY <1>5, <2>1
    <3>. HIDE DEF b, k, d
    <3>2. /\ accepted + 1 = b + k + d + errors + (dropped + 1) + reset
          /\ accepted + 1 = (b + 1) + k + d + errors + dropped + reset
      BY <3>1, SumOne
    <3>. QED  BY <3>2 DEF b, k, d
  <2>3. accepted' = Len(buffer') + Len(loop'.batch) + Len(delivered') + errors' + dropped'
                     + reset'
    BY <1>6, <1>7, <2>2
  <2>. QED  BY <2>3 DEF Conservation, Batch
<1>9. DepthAccounted'
  <2>. DEFINE u == IF loop.pc = "account" THEN Len(loop.batch) ELSE 0
  <2>1. buffered = Len(buffer) + u + reset
    BY DEF WriterInv, DepthAccounted, Unsubtracted, Batch
  <2>2. u \in Int /\ buffered \in Int
    BY <1>1, <1>5 DEF Types
  <2>3. buffered + 1 = (Len(buffer) + 1) + u + reset
    <3>. HIDE DEF u
    <3>. QED  BY <1>5, <2>1, <2>2, DepthOne
  <2>4. buffered' = Len(buffer') + u + reset'
    BY <1>6, <1>7, <2>1, <2>3
  <2>. QED  BY <1>6, <2>4 DEF DepthAccounted, Unsubtracted, Batch
<1>. QED
  BY <1>3, <1>4, <1>8, <1>9 DEF WriterInv

\* The loop wakes up; it holds no batch before or after.
LEMMA WakeKeeps ==
  ASSUME WriterInv, Wake
  PROVE  WriterInv'
<1>1. Types /\ loop.pc = "wait" /\ loop.batch = <<>>
  BY Lengths DEF WriterInv, Wake
<1>2. loop' \in LoopStates /\ loop'.pc = "take" /\ loop'.batch = loop.batch
  BY <1>1 DEF Types, LoopStates, Wake, NoBatch
<1>. QED
  BY <1>1, <1>2
     DEF WriterInv, Types, Conservation, KeepsNewest, DepthAccounted, Unsubtracted, Batch,
         Wake, LoopUnchanged

\* The buffer becomes the batch: its points are still counted once.
LEMMA TakeBatchKeeps ==
  ASSUME WriterInv, TakeBatch
  PROVE  WriterInv'
<1>1. Types /\ loop.pc = "take" /\ Len(loop.batch) = 0
  BY Lengths DEF WriterInv, TakeBatch
<1>2. buffer' = <<>> /\ loop' \in LoopStates /\ Len(loop'.batch) = Len(buffer)
  <2>1. CASE buffer = <<>>
    BY <1>1, <2>1, EmptyKeeps DEF Types, LoopStates, TakeBatch, Waiting, NoBatch
  <2>2. CASE buffer # <<>>
    BY <1>1, <2>2 DEF Types, LoopStates, TakeBatch
  <2>. QED  BY <2>1, <2>2
<1>3. (IF loop'.pc = "account" THEN Len(loop'.batch) ELSE 0) = Len(buffer)
  <2>1. CASE buffer = <<>>
    BY <2>1, EmptyKeeps DEF TakeBatch, Waiting, NoBatch
  <2>2. CASE buffer # <<>>
    BY <1>1, <1>2, <2>2 DEF Types, LoopStates, TakeBatch
  <2>. QED  BY <2>1, <2>2
<1>4. Types'
  BY <1>1, <1>2, EmptyKeeps DEF Types, TakeBatch, LoopUnchanged
<1>5. KeepsNewest'
  BY <1>2, EmptyKeeps DEF KeepsNewest
<1>6. Conservation' /\ DepthAccounted'
  BY <1>1, <1>2, <1>3, EmptyKeeps, Lengths
     DEF WriterInv, Types, Conservation, DepthAccounted, Unsubtracted, Batch, TakeBatch,
         LoopUnchanged
<1>. QED
  BY <1>4, <1>5, <1>6 DEF WriterInv

\* The batch is subtracted from the counter.
LEMMA AccountKeeps ==
  ASSUME WriterInv, Account
  PROVE  WriterInv'
<1>1. Types /\ loop.pc = "account"
  BY DEF WriterInv, Account
<1>2. loop' \in LoopStates /\ loop'.pc = "clamp" /\ loop'.batch = loop.batch
  BY <1>1 DEF Types, LoopStates, Account, NoBatch
<1>3. /\ buffer' = buffer /\ accepted' = accepted /\ delivered' = delivered
      /\ errors' = errors /\ dropped' = dropped /\ reset' = reset
      /\ buffered' = buffered - Len(loop.batch)
  BY DEF Account, LoopUnchanged
<1>4. /\ Len(buffer) \in Nat /\ Len(loop.batch) \in Nat /\ buffered \in Int /\ reset \in Nat
  BY <1>1, Lengths DEF Types
<1>5. Types'
  <2>1. buffered' \in Int
    BY <1>3, <1>4
  <2>. QED  BY <1>1, <1>2, <1>3, <2>1 DEF Types
<1>6. Conservation' /\ KeepsNewest'
  BY <1>2, <1>3 DEF WriterInv, Conservation, KeepsNewest, Batch
<1>7. DepthAccounted'
  <2>1. buffered = Len(buffer) + Len(loop.batch) + reset
    BY <1>1 DEF WriterInv, DepthAccounted, Unsubtracted, Batch
  <2>2. buffered - Len(loop.batch) = Len(buffer) + 0 + reset
    <3>. DEFINE b == Len(buffer)
                k == Len(loop.batch)
    <3>1. b \in Int /\ k \in Int /\ buffered = b + k + reset
      BY <1>4, <2>1
    <3>. HIDE DEF b, k
    <3>2. buffered - k = b + 0 + reset
      BY <1>4, <3>1
    <3>. QED  BY <3>2 DEF b, k
  <2>3. buffered' = Len(buffer') + 0 + reset'
    BY <1>3, <2>2
  <2>. QED  BY <1>2, <2>3 DEF DepthAccounted, Unsubtracted
<1>. QED
  BY <1>5, <1>6, <1>7 DEF WriterInv

\* The clamp changes nothing, since the counter is not negative.
LEMMA ClampKeeps ==
  ASSUME WriterInv, Clamp
  PROVE  WriterInv'
<1>1. Types /\ loop.pc = "clamp" /\ Len(buffer) \in Nat
  BY Lengths DEF WriterInv, Clamp
<1>2. loop' \in LoopStates /\ loop'.pc = "write" /\ loop'.batch = loop.batch
  BY <1>1 DEF Types, LoopStates, Clamp, NoBatch
<1>3. buffered' = buffered
  BY <1>1 DEF WriterInv, Types, DepthAccounted, Unsubtracted, Clamp
<1>. QED
  BY <1>1, <1>2, <1>3
     DEF WriterInv, Types, Conservation, KeepsNewest, DepthAccounted, Unsubtracted, Batch,
         Clamp, LoopUnchanged

\* The batch is delivered or counted as errors, and given up.
LEMMA WriteBatchKeeps ==
  ASSUME WriterInv, WriteBatch
  PROVE  WriterInv'
<1>1. Types /\ loop.pc = "write"
  BY DEF WriterInv, WriteBatch
<1>nat. /\ Len(buffer) \in Nat /\ Len(delivered) \in Nat /\ Len(loop.batch) \in Nat
        /\ accepted \in Nat /\ errors \in Nat /\ dropped \in Nat /\ reset \in Nat
  BY <1>1, Lengths DEF Types
<1>2. loop' \in LoopStates /\ loop'.pc = "wait" /\ loop'.batch = <<>> /\ Len(loop'.batch) = 0
  BY EmptyKeeps DEF LoopStates, WriteBatch, Waiting, NoBatch
<1>3. /\ delivered' \in Seq(Nat) /\ errors' \in Nat
      /\ \/ Len(delivered') = Len(delivered) + Len(loop.batch) /\ errors' = errors
         \/ Len(delivered') = Len(delivered) /\ errors' = errors + Len(loop.batch)
  <2>seq. loop.batch \in Seq(Nat) /\ delivered \in Seq(Nat)
    BY <1>1, Lengths DEF Types
  <2>1. CASE delivered' = delivered \o loop.batch /\ errors' = errors
    <3>1. delivered' \in Seq(Nat) /\ Len(delivered') = Len(delivered) + Len(loop.batch)
      BY <2>seq, <2>1, ConcatProperties
    <3>. QED  BY <1>nat, <2>1, <3>1
  <2>2. CASE errors' = errors + Len(loop.batch) /\ delivered' = delivered
    <3>1. errors' \in Nat
      BY <1>nat, <2>2
    <3>. QED  BY <2>seq, <2>2, <3>1
  <2>. QED  BY <2>1, <2>2 DEF WriteBatch
<1>4. Types'
  BY <1>1, <1>2, <1>3 DEF Types, WriteBatch, LoopUnchanged
<1>5. Conservation'
  <2>1. buffer' = buffer /\ accepted' = accepted /\ dropped' = dropped /\ reset' = reset
    BY DEF WriteBatch, LoopUnchanged
  <2>2. accepted = Len(buffer) + Len(loop.batch) + Len(delivered) + errors + dropped + reset
    BY DEF WriterInv, Conservation, Batch
  <2>3. /\ accepted = Len(buffer) + 0 + (Len(delivered) + Len(loop.batch)) + errors
                     + dropped + reset
        /\ accepted = Len(buffer) + 0 + Len(delivered) + (errors + Len(loop.batch))
                     + dropped + reset
    <3>. DEFINE b == Len(buffer)
                k == Len(loop.batch)
                d == Len(delivered)
    <3>1. /\ b \in Int /\ k \in Int /\ d \in Int /\ accepted \in Int
          /\ errors \in Int /\ dropped \in Int /\ reset \in Int
          /\ accepted = b + k + d + errors + dropped + reset
      BY <1>nat, <2>2
    <3>. HIDE DEF b, k, d
    <3>2. /\ accepted = b + 0 + (d + k) + errors + dropped + reset
          /\ accepted = b + 0 + d + (errors + k) + dropped + reset
      BY <3>1, SumOne
    <3>. QED  BY <3>2 DEF b, k, d
  <2>4. accepted' = Len(buffer') + 0 + Len(delivered') + errors' + dropped' + reset'
    BY <1>3, <2>1, <2>3
  <2>. QED  BY <1>2, <2>4 DEF Conservation, Batch
<1>6. KeepsNewest' /\ DepthAccounted'
  BY <1>1, <1>2
     DEF WriterInv, KeepsNewest, DepthAccounted, Unsubtracted, WriteBatch, LoopUnchanged
<1>. QED
  BY <1>4, <1>5, <1>6 DEF WriterInv

\* A reconfiguration that starts the goroutine makes a new buffer, or an enqueue under
\* way puts the old one back; any other leaves the points alone.
LEMMA ReconfigureKeeps ==
  ASSUME WriterInv, NEW c \in Configs, Reconfigure(c)
  PROVE  WriterInv'
<1>1. CASE c = "on" /\ ~ Running
  <2>1. Types /\ loop.pc = "none" /\ Len(loop.batch) = 0
    BY <1>1, Lengths DEF WriterInv, Running
  <2>2. loop' \in LoopStates /\ loop'.pc = "wait" /\ Len(loop'.batch) = 0
    <3>1. loop' = Waiting
      BY <1>1 DEF Reconfigure
    <3>. QED  BY <3>1, EmptyKeeps DEF LoopStates, Waiting, NoBatch
  <2>3. CASE buffer' = <<>> /\ reset' = reset + Len(buffer)
    <3>1. Types' /\ KeepsNewest'
      BY <2>1, <2>2, <2>3, EmptyKeeps, Lengths DEF Types, KeepsNewest, Reconfigure
    <3>2. Conservation' /\ DepthAccounted'
      BY <2>1, <2>2, <2>3, EmptyKeeps, Lengths
         DEF WriterInv, Types, Conservation, DepthAccounted, Unsubtracted, Batch, Reconfigure
    <3>. QED  BY <3>1, <3>2 DEF WriterInv
  <2>4. CASE UNCHANGED <<buffer, reset>>
    BY <2>1, <2>2, <2>4, Lengths
       DEF WriterInv, Types, Conservation, KeepsNewest, DepthAccounted, Unsubtracted, Batch,
           Reconfigure
  <2>. QED  BY <1>1, <2>3, <2>4 DEF Reconfigure
<1>2. CASE ~ (c = "on" /\ ~ Running)
  BY <1>2, QuietKeeps DEF Reconfigure
<1>. QED  BY <1>1, <1>2

LEMMA WriterStep == WriterInv /\ [Next]_vars => WriterInv'
<1>. SUFFICES ASSUME WriterInv, [Next]_vars PROVE WriterInv'
  OBVIOUS
<1>1. CASE UNCHANGED vars
  BY <1>1, QuietKeeps DEF vars
<1>2. ASSUME NEW w \in Writers, StartWrite(w) PROVE WriterInv'
  BY <1>2, QuietKeeps DEF StartWrite
<1>3. ASSUME NEW w \in Writers, Enqueue(w) PROVE WriterInv'
  BY <1>3, EnqueueKeeps
<1>4. ASSUME NEW w \in Writers, Signal(w) PROVE WriterInv'
  BY <1>4, QuietKeeps DEF Signal
<1>5. CASE WakeByTick \/ WakeBySignal
  BY <1>5, WakeKeeps DEF WakeByTick, WakeBySignal
<1>6. CASE TakeBatch
  BY <1>6, TakeBatchKeeps
<1>7. CASE Account
  BY <1>7, AccountKeeps
<1>8. CASE Clamp
  BY <1>8, ClampKeeps
<1>9. CASE WriteBatch
  BY <1>9, WriteBatchKeeps
<1>10. ASSUME NEW c \in Configs, Reconfigure(c) PROVE WriterInv'
  BY <1>10, ReconfigureKeeps
<1>. QED
  BY <1>1, <1>2, <1>3, <1>4, <1>5, <1>6, <1>7, <1>8, <1>9, <1>10 DEF Next, LoopStep

LEMMA WriterInvariant == Spec => []WriterInv
<1>. QED
  BY WriterInit, WriterStep, PTL DEF Spec

-----------------------------------------------------------------------------
\* No point disappears uncounted between enqueue, flush and Reconfigure.
THEOREM InfluxCounts == Spec => []Conservation
<1>1. WriterInv => Conservation
  BY DEF WriterInv
<1>. QED
  BY <1>1, WriterInvariant, PTL

\* enqueue bounds the buffer and drops the oldest point, whatever flush and
\* Reconfigure do between two points.
THEOREM InfluxKeepsNewest == Spec => []KeepsNewest
<1>1. WriterInv => KeepsNewest
  BY DEF WriterInv
<1>. QED
  BY <1>1, WriterInvariant, PTL

\* The atomic counter behind Stats never drifts but by the points of a replaced buffer.
THEOREM InfluxDepth == Spec => []DepthAccounted
<1>1. WriterInv => DepthAccounted
  BY DEF WriterInv
<1>. QED
  BY <1>1, WriterInvariant, PTL

\* flush never drives the counter below zero, so its clamp cannot overwrite the
\* increment of a concurrent enqueue.
THEOREM InfluxClampIdle == Spec => []NeverClamped
<1>1. WriterInv => NeverClamped
  <2>. SUFFICES ASSUME WriterInv PROVE NeverClamped
    OBVIOUS
  <2>. QED
    BY Lengths DEF WriterInv, Types, DepthAccounted, Unsubtracted, Batch, NeverClamped
<1>. QED
  BY <1>1, WriterInvariant, PTL

-----------------------------------------------------------------------------
(* The order of deliveries.                                                *)

Ordered(s)  == \A i, j \in 1 .. Len(s) : i < j => s[i] < s[j]
Below(s, k) == \A i \in 1 .. Len(s) : s[i] <= k

\* What has left the buffer is in order, and older than the oldest point a buffer of
\* this length can hold.
Left == delivered \o loop.batch
OrderInv == Ordered(Left) /\ Below(Left, accepted - Len(buffer))

\* The newest points can follow whatever is older than all of them.
LEMMA OrderedConcat ==
  ASSUME NEW s \in Seq(Nat), NEW b \in Seq(Nat), NEW a \in Nat,
         Ordered(s), Below(s, a - Len(b)),
         \A i \in DOMAIN b : b[i] = a - Len(b) + i
  PROVE  s \o b \in Seq(Nat) /\ Ordered(s \o b) /\ Below(s \o b, a)
<1>. DEFINE n == Len(s)
            m == Len(b)
            t == s \o b
<1>1. n \in Nat /\ m \in Nat /\ DOMAIN b = 1 .. m
  BY LenProperties
<1>2. /\ t \in Seq(Nat) /\ Len(t) = n + m
      /\ \A i \in 1 .. n + m : t[i] = IF i <= n THEN s[i] ELSE b[i - n]
  BY ConcatProperties
<1>3. \A i \in 1 .. n : s[i] \in Nat
  BY ElementOfSeq
<1>4. /\ \A i \in 1 .. n : s[i] <= a - m
      /\ \A i, j \in 1 .. n : i < j => s[i] < s[j]
      /\ \A i \in 1 .. m : b[i] = a - m + i
  BY <1>1 DEF Ordered, Below
<1>. HIDE DEF n, m, t
<1>5. /\ \A i \in 1 .. n : t[i] = s[i]
      /\ \A i \in (n + 1) .. (n + m) : t[i] = a - m + (i - n)
  BY <1>1, <1>2, <1>4
<1>6. ASSUME NEW i \in 1 .. n + m, NEW j \in 1 .. n + m, i < j
      PROVE  t[i] < t[j]
  <2>1. CASE j <= n
    BY <1>1, <1>4, <1>5, <1>6, <2>1
  <2>2. CASE i <= n /\ j > n
    <3>i. i \in 1 .. n
      BY <1>1, <2>2
    <3>1. t[i] <= a - m /\ t[i] \in Nat
      BY <1>3, <1>4, <1>5, <3>i
    <3>2. t[j] = a - m + (j - n)
      BY <1>1, <1>5, <2>2
    <3>. QED  BY <1>1, <2>2, <3>1, <3>2
  <2>3. CASE i > n
    <3>1. t[i] = a - m + (i - n) /\ t[j] = a - m + (j - n)
      BY <1>1, <1>5, <1>6, <2>3
    <3>. QED  BY <1>1, <1>6, <3>1
  <2>. QED  BY <1>1, <2>1, <2>2, <2>3
<1>7. ASSUME NEW i \in 1 .. n + m PROVE t[i] <= a
  <2>1. CASE i <= n
    <3>i. i \in 1 .. n
      BY <1>1, <2>1
    <3>1. t[i] <= a - m /\ t[i] \in Nat
      BY <1>3, <1>4, <1>5, <3>i
    <3>. QED  BY <1>1, <3>1
  <2>2. CASE i > n
    <3>1. t[i] = a - m + (i - n)
      BY <1>1, <1>5, <2>2
    <3>. QED  BY <1>1, <2>2, <3>1
  <2>. QED  BY <1>1, <2>1, <2>2
<1>. QED  BY <1>2, <1>6, <1>7 DEF Ordered, Below, t

\* A batch that was not delivered leaves the order of the ones that were.
LEMMA OrderedPrefix ==
  ASSUME NEW s \in Seq(Nat), NEW b \in Seq(Nat), NEW k \in Int,
         Ordered(s \o b), Below(s \o b, k)
  PROVE  Ordered(s) /\ Below(s, k)
<1>1. /\ Len(s) \in Nat /\ Len(b) \in Nat
      /\ Len(s \o b) = Len(s) + Len(b)
      /\ \A i \in 1 .. Len(s) : i \in 1 .. Len(s) + Len(b) /\ (s \o b)[i] = s[i]
  <2>1. Len(s) \in Nat /\ Len(b) \in Nat
    BY LenProperties
  <2>. QED  BY <2>1, ConcatProperties
<1>. QED  BY <1>1 DEF Ordered, Below

\* A higher limit is one too.
LEMMA BelowMore ==
  ASSUME NEW s \in Seq(Nat), NEW k \in Int, NEW l \in Int, k <= l, Below(s, k)
  PROVE  Below(s, l)
<1>1. \A i \in 1 .. Len(s) : s[i] \in Nat
  BY ElementOfSeq
<1>. QED  BY <1>1 DEF Below

\* What WriterInv says of the lengths and of what has left the buffer.
LEMMA LeftFacts ==
  ASSUME WriterInv
  PROVE  /\ Left \in Seq(Nat) /\ delivered \in Seq(Nat) /\ loop.batch \in Seq(Nat)
         /\ buffer \in Seq(Nat) /\ Len(buffer) \in Nat /\ accepted \in Nat
         /\ accepted - Len(buffer) \in Int
         /\ loop.batch = <<>> => Left = delivered
<1>1. /\ delivered \in Seq(Nat) /\ loop.batch \in Seq(Nat) /\ buffer \in Seq(Nat)
      /\ Len(buffer) \in Nat /\ accepted \in Nat
  BY Lengths DEF WriterInv, Types
<1>2. Left \in Seq(Nat) /\ (loop.batch = <<>> => Left = delivered)
  BY <1>1, ConcatProperties, ConcatEmptySeq DEF Left
<1>. QED  BY <1>1, <1>2

\* Nothing leaves the buffer, and the points in it get no older.
LEMMA NothingLeaves ==
  ASSUME WriterInv, OrderInv, Left' = Left, accepted' - Len(buffer') \in Int,
         accepted - Len(buffer) <= accepted' - Len(buffer')
  PROVE  OrderInv'
<1>1. Below(Left, accepted' - Len(buffer'))
  BY LeftFacts, BelowMore DEF OrderInv
<1>. QED  BY <1>1 DEF OrderInv, Ordered, Below

LEMMA OrderStep == WriterInv /\ WriterInv' /\ OrderInv /\ [Next]_vars => OrderInv'
<1>. SUFFICES ASSUME WriterInv, WriterInv', OrderInv, [Next]_vars PROVE OrderInv'
  OBVIOUS
<1>f. /\ Left \in Seq(Nat) /\ delivered \in Seq(Nat) /\ loop.batch \in Seq(Nat)
      /\ buffer \in Seq(Nat) /\ Len(buffer) \in Nat /\ accepted \in Nat
      /\ loop.batch = <<>> => Left = delivered
  BY LeftFacts
<1>0. /\ delivered' \in Seq(Nat) /\ Len(buffer') \in Nat /\ accepted' \in Nat
      /\ accepted' - Len(buffer') \in Int
      /\ loop.batch' = <<>> => Left' = delivered'
  <2>1. delivered' \in Seq(Nat) /\ buffer' \in Seq(Nat) /\ accepted' \in Nat
    BY DEF WriterInv, Types
  <2>2. Len(buffer') \in Nat
    BY <2>1, LenProperties
  <2>3. loop.batch' = <<>> => Left' = delivered'
    BY <2>1, ConcatEmptySeq DEF Left
  <2>. QED  BY <2>1, <2>2, <2>3
<1>1. ASSUME UNCHANGED <<delivered, buffer, accepted>>, loop.batch' = loop.batch
      PROVE  OrderInv'
  BY <1>1 DEF OrderInv, Left, Ordered, Below
<1>2. ASSUME NEW w \in Writers, Enqueue(w) PROVE OrderInv'
  <2>1. Left' = Left /\ accepted' = accepted + 1
    BY <1>2 DEF Enqueue, Left
  <2>2. Len(buffer') <= Len(buffer) + 1
    <3>1. Len(buffer') = IF Overflows(buffer) THEN Len(buffer) ELSE Len(buffer) + 1
      BY <1>2, PushKeeps DEF Enqueue, WriterInv, Types, KeepsNewest
    <3>. QED  BY <1>f, <3>1
  <2>3. accepted - Len(buffer) <= accepted' - Len(buffer')
    BY <1>f, <1>0, <2>1, <2>2
  <2>. QED  BY <1>0, <2>1, <2>3, NothingLeaves
<1>3. CASE TakeBatch
  <2>1. loop.batch = <<>> /\ Left = delivered
    BY <1>f, <1>3, Lengths DEF WriterInv, TakeBatch
  <2>2. /\ buffer' = <<>> /\ accepted' = accepted /\ delivered' = delivered
        /\ loop.batch' = buffer
    <3>1. CASE buffer = <<>>
      BY <1>3, <3>1 DEF TakeBatch, LoopUnchanged, Waiting, NoBatch
    <3>2. CASE buffer # <<>>
      <4>1. loop.pc = "take" /\ loop \in LoopStates
        BY <1>3 DEF TakeBatch, WriterInv, Types
      <4>. QED  BY <1>3, <3>2, <4>1 DEF TakeBatch, LoopUnchanged, LoopStates
    <3>. QED  BY <3>1, <3>2
  <2>3. Ordered(delivered \o buffer) /\ Below(delivered \o buffer, accepted)
    BY <1>f, <2>1, OrderedConcat DEF WriterInv, KeepsNewest, OrderInv
  <2>4. Left' = delivered \o buffer /\ accepted' - Len(buffer') = accepted
    BY <1>f, <2>2, EmptyKeeps DEF Left
  <2>. QED  BY <2>3, <2>4 DEF OrderInv, Ordered, Below
<1>4. CASE WriteBatch
  <2>1. /\ UNCHANGED <<buffer, accepted>> /\ Left' = delivered'
        /\ delivered' = Left \/ delivered' = delivered
    BY <1>0, <1>4 DEF WriteBatch, LoopUnchanged, Waiting, NoBatch, Left
  <2>2. CASE delivered' = Left
    BY <2>1, <2>2 DEF OrderInv, Ordered, Below
  <2>3. CASE delivered' = delivered
    <3>1. Ordered(delivered) /\ Below(delivered, accepted - Len(buffer))
      BY <1>f, OrderedPrefix DEF OrderInv, Left
    <3>. QED  BY <2>1, <2>3, <3>1 DEF OrderInv, Ordered, Below
  <2>. QED  BY <2>1, <2>2, <2>3
<1>5. ASSUME NEW c \in Configs, Reconfigure(c) PROVE OrderInv'
  <2>1. CASE c = "on" /\ ~ Running
    <3>1. loop.batch = <<>> /\ loop.batch' = <<>>
      BY <1>5, <2>1, Lengths DEF WriterInv, Running, Reconfigure, Waiting, NoBatch
    <3>2. Left' = Left /\ accepted' = accepted
      BY <1>f, <1>0, <1>5, <3>1 DEF Reconfigure
    <3>3. buffer' = <<>> \/ buffer' = buffer
      BY <1>5, <2>1 DEF Reconfigure
    <3>4. Len(buffer') <= Len(buffer)
      BY <1>f, <3>3, EmptyKeeps
    <3>5. accepted - Len(buffer) <= accepted' - Len(buffer')
      BY <1>f, <1>0, <3>2, <3>4
    <3>. QED  BY <1>0, <3>2, <3>5, NothingLeaves
  <2>2. CASE ~ (c = "on" /\ ~ Running)
    BY <1>1, <1>5, <2>2 DEF Reconfigure
  <2>. QED  BY <2>1, <2>2
<1>6. ASSUME NEW w \in Writers, StartWrite(w) \/ Signal(w) PROVE OrderInv'
  BY <1>1, <1>6 DEF StartWrite, Signal
<1>7. CASE WakeByTick \/ WakeBySignal \/ Account \/ Clamp
  <2>1. loop.batch' = loop.batch
    <3>1. loop \in LoopStates
      BY DEF WriterInv, Types
    <3>. QED
      BY <1>7, <3>1 DEF WakeByTick, WakeBySignal, Wake, Account, Clamp, LoopStates, NoBatch
  <2>. QED
    BY <1>1, <1>7, <2>1 DEF WakeByTick, WakeBySignal, Wake, Account, Clamp, LoopUnchanged
<1>8. CASE UNCHANGED vars
  BY <1>1, <1>8 DEF vars
<1>. QED
  BY <1>2, <1>3, <1>4, <1>5, <1>6, <1>7, <1>8 DEF Next, LoopStep

\* No batch overtakes another and no point is delivered twice, whichever client the loop
\* had read and whenever the buffer was replaced.
THEOREM InfluxInOrder == Spec => []DeliveredInOrder
<1>1. Init => OrderInv
  <2>. SUFFICES ASSUME Init PROVE OrderInv
    OBVIOUS
  <2>1. delivered = <<>> /\ loop.batch = <<>>
    BY DEF Init, Waiting, NoBatch
  <2>2. Left = <<>>
    BY <2>1, EmptyKeeps, ConcatEmptySeq DEF Left
  <2>. QED  BY <2>2, EmptyKeeps DEF OrderInv, Ordered, Below
<1>2. WriterInv /\ OrderInv => DeliveredInOrder
  <2>. SUFFICES ASSUME WriterInv, OrderInv PROVE DeliveredInOrder
    OBVIOUS
  <2>. DEFINE all == delivered \o loop.batch \o buffer
  <2>1. all = Left \o buffer
    BY DEF Left
  <2>2. Left \o buffer \in Seq(Nat) /\ Ordered(Left \o buffer)
    BY LeftFacts, OrderedConcat DEF WriterInv, KeepsNewest, OrderInv
  <2>3. DOMAIN all = 1 .. Len(all) /\ Ordered(all)
    BY <2>1, <2>2, LenProperties
  <2>. QED  BY <2>3 DEF DeliveredInOrder, Batch, Ordered
<1>. QED
  BY <1>1, <1>2, WriterInvariant, OrderStep, PTL DEF Spec

-----------------------------------------------------------------------------
\* The types in full: a batch that was taken is not empty, and the points under way
\* still find a number.
Idle == [pc : {"none", "wait"}, client : {FALSE}, batch : {NoBatch}]
Took == [pc : {"take"}, client : BOOLEAN, batch : {NoBatch}]
Busy == [pc : {"account", "clamp", "write"}, client : BOOLEAN,
         batch : Seq(Points) \ {NoBatch}]

TypeInv == TypeOK /\ accepted + Cardinality(Underway) <= MaxPoints

\* The points under way: finitely many, and one more or less with each writer.
LEMMA UnderwayFinite ==
  /\ IsFiniteSet(Underway) /\ Cardinality(Underway) \in Nat
  /\ \A w \in Underway : Cardinality(Underway \ {w}) + 1 = Cardinality(Underway)
  /\ \A w : w \notin Underway => Cardinality(Underway \cup {w}) = Cardinality(Underway) + 1
<1>1. IsFiniteSet(Underway) /\ Cardinality(Underway) \in Nat
  <2>1. Underway \in SUBSET Writers
    BY DEF Underway
  <2>. QED  BY <2>1, WriterAssumption, FS_Subset, FS_CardinalityType
<1>2. ASSUME NEW w \in Underway
      PROVE  Cardinality(Underway \ {w}) + 1 = Cardinality(Underway)
  BY <1>1, FS_RemoveElement
<1>3. ASSUME NEW w, w \notin Underway
      PROVE  Cardinality(Underway \cup {w}) = Cardinality(Underway) + 1
  BY <1>1, <1>3, FS_AddElement
<1>. QED  BY <1>1, <1>2, <1>3

\* The state of the loop decides what it holds.
LEMMA LoopKinds ==
  ASSUME TypeOK
  PROVE  /\ loop.pc \in {"none", "wait"} => loop \in Idle
         /\ loop.pc = "take" => loop \in Took
         /\ loop.pc \in {"account", "clamp", "write"} => loop \in Busy
         /\ loop.batch \in Seq(Points) /\ Len(loop.batch) \in Nat
         /\ Len(buffer) \in Nat
<1>1. <<>> \in Seq(Points)
  BY EmptySeq
<1>2. loop \in Idle \cup Took \cup Busy
  BY DEF TypeOK, Idle, Took, Busy
<1>3. loop.batch \in Seq(Points)
  BY <1>1, <1>2 DEF Idle, Took, Busy, NoBatch
<1>. QED  BY <1>2, <1>3, LenProperties DEF Idle, Took, Busy, TypeOK

\* The types hold at the start.
LEMMA TypeInit == Init => TypeInv
<1>. SUFFICES ASSUME Init PROVE TypeInv
  OBVIOUS
<1>1. <<>> \in Seq(Points)
  BY EmptySeq
<1>2. loop \in Idle
  <2>1. \E p \in {"none", "wait"} : loop = [Waiting EXCEPT !.pc = p]
    BY DEF Init
  <2>. QED  BY <2>1 DEF Idle, Waiting
<1>3. TypeOK
  <2>1. /\ cfg \in AllConfigs /\ buffer = <<>> /\ buffered = 0 /\ signal = FALSE
        /\ writer \in [Writers -> {"idle", "enqueue", "signal"}]
        /\ accepted = 0 /\ delivered = <<>> /\ errors = 0 /\ dropped = 0 /\ reset = 0
        /\ reconfigs = 0
    BY DEF Init, AllConfigs
  <2>2. 0 \in 0 .. MaxPoints /\ 0 \in 0 .. MaxReconfigs
    BY WriterAssumption
  <2>3. loop \in Idle \cup Took \cup Busy
    BY <1>2
  <2>4. buffer \in Seq(Points) /\ delivered \in Seq(Points)
    BY <1>1, <2>1
  <2>5. buffered \in Int /\ signal \in BOOLEAN /\ errors \in Nat /\ dropped \in Nat
        /\ reset \in Nat
    <3>1. 0 \in Int /\ 0 \in Nat /\ FALSE \in BOOLEAN
      OBVIOUS
    <3>. QED  BY <2>1, <3>1, Zenon
  <2>6. accepted \in 0 .. MaxPoints /\ reconfigs \in 0 .. MaxReconfigs
    BY <2>1, <2>2
  <2>. QED  BY <2>1, <2>3, <2>4, <2>5, <2>6 DEF TypeOK, Idle, Took, Busy
<1>4. Cardinality(Underway) = 0
  <2>1. Underway = {}
    BY DEF Init, Underway
  <2>. QED  BY <2>1, FS_EmptySet
<1>. QED
  BY <1>3, <1>4, WriterAssumption DEF TypeInv, Init

\* A step that moves no writer and leaves the points alone.
LEMMA LoopTyped ==
  ASSUME TypeInv, UNCHANGED <<cfg, writer, accepted, reset, reconfigs, dropped>>,
         loop' \in Idle \cup Took \cup Busy, buffer' \in Seq(Points),
         buffered' \in Int, signal' \in BOOLEAN, delivered' \in Seq(Points), errors' \in Nat
  PROVE  TypeInv'
BY DEF TypeInv, TypeOK, Idle, Took, Busy, Underway

\* A point under way takes room below the bound.
LEMMA StartWriteTyped ==
  ASSUME TypeInv, NEW w \in Writers, StartWrite(w)
  PROVE  TypeInv'
<1>1. writer' = [writer EXCEPT ![w] = "enqueue"] /\ w \notin Underway
      /\ accepted' = accepted /\ accepted + Cardinality(Underway) < MaxPoints
  BY DEF StartWrite, Underway
<1>2. Underway' = Underway \cup {w}
  BY <1>1 DEF Underway, TypeInv, TypeOK
<1>3. TypeOK'
  BY <1>1 DEF StartWrite, TypeInv, TypeOK
<1>4. accepted \in Nat /\ MaxPoints \in Nat
  BY WriterAssumption DEF TypeInv, TypeOK
<1>. QED
  BY <1>1, <1>2, <1>3, <1>4, UnderwayFinite DEF TypeInv

\* The point that is enqueued takes the number its room was kept for.
LEMMA EnqueueTyped ==
  ASSUME TypeInv, NEW w \in Writers, Enqueue(w)
  PROVE  TypeInv'
<1>. TypeOK
  BY DEF TypeInv
<1>1. /\ accepted' = accepted + 1 /\ buffer' = Push(buffer, accepted + 1)
      /\ writer' = [writer EXCEPT ![w] = IF Overflows(buffer') THEN "signal" ELSE "idle"]
      /\ w \in Underway
  BY DEF Enqueue, Underway
<1>2. Underway' = Underway \ {w}
  BY <1>1 DEF Underway, TypeOK
<1>3. accepted \in Nat /\ MaxPoints \in Nat /\ accepted + Cardinality(Underway) <= MaxPoints
  BY WriterAssumption DEF TypeInv, TypeOK
<1>4. accepted' + Cardinality(Underway') = accepted + Cardinality(Underway)
      /\ Cardinality(Underway') \in Nat
  <2>1. /\ Cardinality(Underway \ {w}) + 1 = Cardinality(Underway)
        /\ Cardinality(Underway) \in Nat
    BY <1>1, UnderwayFinite
  <2>2. Cardinality(Underway \ {w}) \in Nat
    BY UnderwayFinite, FS_RemoveElement, FS_CardinalityType
  <2>. QED  BY <1>1, <1>2, <1>3, <2>1, <2>2
<1>5. accepted + 1 \in Points /\ accepted' \in 0 .. MaxPoints
  BY <1>1, <1>3, <1>4 DEF Points
<1>6. buffer' \in Seq(Points)
  <2>1. CASE Overflows(buffer)
    <3>1. buffer # <<>>
      BY <2>1, EmptyKeeps, WriterAssumption DEF Overflows
    <3>2. Tail(buffer) \in Seq(Points)
      BY <3>1, HeadTailProperties DEF TypeOK
    <3>3. buffer' = Append(Tail(buffer), accepted + 1)
      BY <1>1, <2>1 DEF Push, Overflows
    <3>. QED  BY <1>5, <3>2, <3>3, AppendProperties
  <2>2. CASE ~ Overflows(buffer)
    <3>1. buffer' = Append(buffer, accepted + 1)
      BY <1>1, <2>2 DEF Push, Overflows
    <3>. QED  BY <1>5, <3>1, AppendProperties DEF TypeOK
  <2>. QED  BY <2>1, <2>2
<1>7. writer' \in [Writers -> {"idle", "enqueue", "signal"}]
  BY <1>1 DEF TypeOK
<1>8. buffered' \in Int /\ dropped' \in Nat
  BY DEF Enqueue, TypeOK
<1>9. TypeOK'
  BY <1>5, <1>6, <1>7, <1>8 DEF Enqueue, TypeOK
<1>. QED
  BY <1>3, <1>4, <1>9 DEF TypeInv

\* The signal moves only its writer.
LEMMA SignalTyped ==
  ASSUME TypeInv, NEW w \in Writers, Signal(w)
  PROVE  TypeInv'
<1>1. writer' = [writer EXCEPT ![w] = "idle"] /\ writer[w] = "signal"
  BY DEF Signal
<1>2. Underway' = Underway
  BY <1>1 DEF Underway, TypeInv, TypeOK
<1>3. TypeOK'
  BY <1>1 DEF Signal, TypeInv, TypeOK, Running
<1>. QED
  BY <1>2, <1>3 DEF TypeInv, Signal

\* The flush goroutine holds a batch from the moment it took one until it wrote it.
LEMMA LoopStepTyped ==
  ASSUME TypeInv, LoopStep \/ WakeByTick
  PROVE  TypeInv'
<1>. TypeOK
  BY DEF TypeInv
<1>a. /\ buffer \in Seq(Points) /\ buffered \in Int /\ signal \in BOOLEAN
      /\ delivered \in Seq(Points) /\ errors \in Nat
  BY DEF TypeOK
<1>1. CASE WakeByTick \/ WakeBySignal
  <2>1. loop' \in Took
    BY <1>1, LoopKinds DEF WakeByTick, WakeBySignal, Wake, Idle, Took
  <2>. QED  BY <1>1, <1>a, <2>1, LoopTyped DEF WakeByTick, WakeBySignal, Wake, LoopUnchanged
<1>2. CASE TakeBatch
  <2>1. CASE buffer = <<>>
    <3>1. loop' \in Idle /\ buffer' \in Seq(Points)
      BY <1>2, <2>1, <1>a DEF TakeBatch, Waiting, Idle
    <3>. QED  BY <1>2, <1>a, <3>1, LoopTyped DEF TakeBatch, LoopUnchanged
  <2>2. CASE buffer # <<>>
    <3>1. loop' \in Busy
      BY <1>2, <1>a, <2>2, LoopKinds DEF TakeBatch, Took, Busy, NoBatch
    <3>2. buffer' \in Seq(Points)
      BY <1>2, EmptySeq DEF TakeBatch
    <3>. QED  BY <1>2, <1>a, <3>1, <3>2, LoopTyped DEF TakeBatch, LoopUnchanged
  <2>. QED  BY <2>1, <2>2
<1>3. CASE Account
  <2>1. loop' \in Busy
    BY <1>3, LoopKinds DEF Account, Busy
  <2>2. buffered' \in Int
    BY <1>3, <1>a, LoopKinds DEF Account
  <2>. QED  BY <1>3, <1>a, <2>1, <2>2, LoopTyped DEF Account, LoopUnchanged
<1>4. CASE Clamp
  <2>1. loop' \in Busy
    BY <1>4, LoopKinds DEF Clamp, Busy
  <2>2. buffered' \in Int
    BY <1>4, <1>a DEF Clamp
  <2>. QED  BY <1>4, <1>a, <2>1, <2>2, LoopTyped DEF Clamp, LoopUnchanged
<1>5. CASE WriteBatch
  <2>1. loop' \in Idle
    BY <1>5 DEF WriteBatch, Waiting, Idle
  <2>2. delivered' \in Seq(Points) /\ errors' \in Nat
    <3>1. CASE delivered' = delivered \o loop.batch /\ errors' = errors
      BY <1>a, <3>1, LoopKinds, ConcatProperties
    <3>2. CASE delivered' = delivered /\ errors' = errors + Len(loop.batch)
      BY <1>a, <3>2, LoopKinds
    <3>. QED  BY <1>5, <3>1, <3>2 DEF WriteBatch
  <2>. QED  BY <1>5, <1>a, <2>1, <2>2, LoopTyped DEF WriteBatch, LoopUnchanged
<1>. QED  BY <1>1, <1>2, <1>3, <1>4, <1>5 DEF LoopStep

\* A reconfiguration drops the loop's batch with the loop.
LEMMA ReconfigureTyped ==
  ASSUME TypeInv, NEW c \in Configs, Reconfigure(c)
  PROVE  TypeInv'
<1>. TypeOK
  BY DEF TypeInv
<1>1. cfg' \in AllConfigs /\ reconfigs' \in 0 .. MaxReconfigs
  BY WriterAssumption DEF Reconfigure, TypeOK
<1>2. loop' = loop \/ loop' \in Idle
  <2>1. Waiting \in Idle
    BY DEF Waiting, Idle
  <2>. QED  BY <2>1 DEF Reconfigure
<1>3. buffer' \in Seq(Points) /\ reset' \in Nat
  <2>1. <<>> \in Seq(Points) /\ buffer \in Seq(Points) /\ reset \in Nat
    BY EmptySeq DEF TypeOK
  <2>2. reset + Len(buffer) \in Nat
    BY <2>1, LoopKinds
  <2>3. \/ buffer' = <<>> /\ reset' = reset + Len(buffer)
        \/ buffer' = buffer /\ reset' = reset
    BY DEF Reconfigure
  <2>. QED  BY <2>1, <2>2, <2>3
<1>4. TypeOK'
  BY <1>1, <1>2, <1>3 DEF Reconfigure, TypeOK, Idle
<1>5. Underway' = Underway /\ accepted' = accepted
  BY DEF Reconfigure, Underway
<1>. QED  BY <1>4, <1>5 DEF TypeInv

\* Every step keeps the types.
LEMMA TypeStep == TypeInv /\ [Next]_vars => TypeInv'
<1>. SUFFICES ASSUME TypeInv, [Next]_vars PROVE TypeInv'
  OBVIOUS
<1>1. CASE UNCHANGED vars
  BY <1>1 DEF vars, TypeInv, TypeOK, Underway
<1>. QED
  BY <1>1, StartWriteTyped, EnqueueTyped, SignalTyped, LoopStepTyped, ReconfigureTyped
     DEF Next

\* Every variable keeps its type: a batch that was taken is never empty, and no
\* counter is driven below zero, whatever enqueues, flushes and reconfigurations do.
THEOREM InfluxTypes == Spec => []TypeOK
<1>1. TypeInv => TypeOK
  BY DEF TypeInv
<1>. QED
  BY <1>1, TypeInit, TypeStep, PTL DEF Spec
===============================================================================
