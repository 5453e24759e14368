------------------------------ MODULE GxSystemProofs ------------------------------
(***************************************************************************)
(* Proofs about GxSystem and, for itself, the DmaChannel it extends: for   *)
(* either processor, every set of start modes and every size of counts,    *)
(* bursts, words, FIFO and stores.                                         *)
(*                                                                         *)
(* Of the channel alone, FreezeEnds and EndEventPending are inductive with *)
(* the types.  StopMeansDone is not an invariant but a claim about the     *)
(* step that stops a transfer; it follows from Progress, which accounts    *)
(* for the words of a clean transfer: those moved and those left add up to *)
(* those asked for.                                                        *)
(*                                                                         *)
(* Of the FIFO with its engine and the channel, EngineTruthful is          *)
(* inductive once the counter of stack commands is known to count them.    *)
(***************************************************************************)
EXTENDS GxSystem, FiniteSetTheorems, SequenceTheorems, TLAPS

--------------------------------------------------------------------------------
(* The channel *)

\* the last write asked for an ordinary transfer and found none in progress
Ordinary == clean /\ count # 0 /\ ~repeatMode /\ nextmode # "MemDisplay"

Progress ==
  /\ clean /\ running => startmode = nextmode
  /\ Ordinary => copied + wordcount = count
  /\ Ordinary /\ running /\ nextmode # "GXFifo" => wordcount = 0
  /\ Ordinary /\ ~running /\ enable => copied = 0

ChannelInv == TypeOK /\ FreezeEnds /\ EndEventPending /\ Progress

\* A remainder lies below its divisor.
LEMMA ModRange == ASSUME NEW n \in Nat \ {0}, NEW a \in Int PROVE a % n \in 0 .. n - 1
  OBVIOUS

\* A number below the divisor is its own remainder.
LEMMA ModSmall == ASSUME NEW n \in Nat \ {0}, NEW a \in Int, 0 <= a, a < n PROVE a % n = a
  OBVIOUS

\* The words of one burst: never more than are left, all of them but in burst modes (doCopy).
LEMMA TodoBounds ==
  ASSUME TypeOK
  PROVE  /\ Todo \in 1 .. Wrap - 1
         /\ Todo <= Full \/ Todo = wordcount
         /\ nextmode # "MemDisplay" /\ wordcount # 0 => Todo <= wordcount
         /\ nextmode \notin {"MemDisplay", "GXFifo"} /\ wordcount # 0 => Todo = wordcount
  BY CountAssumption DEF TypeOK, Todo

\* Whatever is done to the channel, its registers keep their types: wordcount stays a
\* 32-bit word, whatever is subtracted from it.
LEMMA WriteTypes ==
  ASSUME TypeOK, NEW en \in BOOLEAN, NEW q \in BOOLEAN, NEW rep \in BOOLEAN,
         NEW mode \in Modes, NEW n \in Word, WriteControl(en, q, rep, mode, n)
  PROVE  TypeOK'
  BY CountAssumption DEF TypeOK, WriteControl, Word, Moved

\* The same for the end of a transfer.
LEMMA StopTypes == ASSUME TypeOK, Stop PROVE TypeOK'
  BY DEF TypeOK, Stop, history

\* The same for an event that begins nothing.
LEMMA WaitTypes == ASSUME TypeOK, NEW low \in BOOLEAN, Wait(low) PROVE TypeOK'
  BY DEF TypeOK, Wait, control, history

\* The same for a burst.
LEMMA CopyTypes ==
  ASSUME TypeOK, NEW low \in BOOLEAN, NEW lastLine \in BOOLEAN, Copy(low, lastLine)
  PROVE  TypeOK'
  <1>1. Todo \in 1 .. Wrap - 1
    BY TodoBounds
  <1>2. wordcount' \in 0 .. Wrap - 1
    <2>1. (wordcount - Todo) % Wrap \in 0 .. Wrap - 1
      BY <1>1, CountAssumption, ModRange DEF TypeOK
    <2> QED BY <2>1 DEF Copy, TypeOK
  <1>3. copied' \in Moved
    BY <1>1, CountAssumption DEF TypeOK, Copy, Moved
  <1>4. /\ enable' \in BOOLEAN /\ running' \in BOOLEAN /\ paused' \in BOOLEAN
        /\ triggered' \in BOOLEAN /\ dmaCheck' \in BOOLEAN /\ frozen' \in BOOLEAN
        /\ due' \in BOOLEAN /\ startmode' \in Modes \cup {"Immediate"}
    BY DEF TypeOK, Copy
  <1>5. UNCHANGED <<irq, repeatMode, nextmode, regIF, count, clean>>
    BY DEF Copy
  <1> QED BY <1>2, <1>3, <1>4, <1>5 DEF TypeOK

\* The same for a trigger.
LEMMA TriggerTypes == ASSUME TypeOK, NEW mode, TryTrigger(mode) PROVE TypeOK'
  BY DEF TypeOK, TryTrigger, Accepts, control

\* A channel just constructed satisfies the invariant.
LEMMA ChannelInit == Init => ChannelInv
  <1> SUFFICES ASSUME Init PROVE ChannelInv
    OBVIOUS
  <1>1. 0 \in Word /\ 0 \in Moved /\ 0 \in 0 .. Wrap - 1
    BY CountAssumption DEF Word, Moved
  <1>2. TypeOK
    BY <1>1 DEF Init, TypeOK
  <1>3. FreezeEnds /\ EndEventPending /\ Progress
    BY DEF Init, FreezeEnds, EndEventPending, Progress, Ordinary
  <1> QED BY <1>2, <1>3 DEF ChannelInv

\* A write of the control register restarts the account of words (write32).
LEMMA ChannelWrite ==
  ASSUME ChannelInv, NEW en \in BOOLEAN, NEW q \in BOOLEAN, NEW rep \in BOOLEAN,
         NEW mode \in Modes, NEW n \in Word, WriteControl(en, q, rep, mode, n)
  PROVE  ChannelInv'
  <1>1. TypeOK'
    BY WriteTypes DEF ChannelInv
  <1>2. FreezeEnds' /\ EndEventPending'
    BY DEF ChannelInv, TypeOK, FreezeEnds, EndEventPending, WriteControl
  <1>3. Progress'
    <2>1. running' = running /\ clean' = ~running /\ count' = n /\ copied' = 0 /\ wordcount' = n
      BY DEF WriteControl
    <2>2. n \in Int
      BY CountAssumption DEF Word
    <2>3. ~(clean' /\ running')
      BY <2>1
    <2>4. copied' + wordcount' = count' /\ copied' = 0
      BY <2>1, <2>2
    <2> QED BY <2>3, <2>4 DEF Progress, Ordinary
  <1> QED BY <1>1, <1>2, <1>3 DEF ChannelInv

\* Ending a transfer gives the bus back (doStop).
LEMMA ChannelStop == ASSUME ChannelInv, Stop PROVE ChannelInv'
  <1>1. TypeOK' /\ FreezeEnds' /\ EndEventPending'
    BY StopTypes DEF ChannelInv, FreezeEnds, EndEventPending, Stop
  <1>2. Progress'
    BY DEF ChannelInv, TypeOK, Progress, Ordinary, Stop, history
  <1> QED BY <1>1, <1>2 DEF ChannelInv

\* An event that finds nothing to do, or a paused burst (exec, doPause).
LEMMA ChannelWait == ASSUME ChannelInv, NEW low \in BOOLEAN, Wait(low) PROVE ChannelInv'
  <1>1. TypeOK' /\ FreezeEnds'
    BY DEF ChannelInv, TypeOK, FreezeEnds, Wait, control, history
  <1>2. EndEventPending'
    BY DEF ChannelInv, TypeOK, EndEventPending, Wait, Stopping
  <1>3. Progress'
    BY DEF ChannelInv, TypeOK, Progress, Ordinary, Wait, control, history
  <1> QED BY <1>1, <1>2, <1>3 DEF ChannelInv

\* A burst moves words from those left to those copied (doCopy).
LEMMA ChannelCopy ==
  ASSUME ChannelInv, NEW low \in BOOLEAN, NEW lastLine \in BOOLEAN, Copy(low, lastLine)
  PROVE  ChannelInv'
  <1>0. TypeOK /\ enable /\ ~Stopping
    BY DEF ChannelInv, Copy, Starting
  <1>1. /\ Todo \in 1 .. Wrap - 1
        /\ nextmode # "MemDisplay" /\ wordcount # 0 => Todo <= wordcount
        /\ nextmode \notin {"MemDisplay", "GXFifo"} /\ wordcount # 0 => Todo = wordcount
    BY <1>0, TodoBounds
  <1>2. TypeOK'
    BY CopyTypes DEF ChannelInv
  <1>3. FreezeEnds' /\ EndEventPending'
    BY DEF Copy, FreezeEnds, EndEventPending
  <1>4. clean' => startmode' = nextmode'
    BY DEF Copy
  <1>5. ASSUME Ordinary'
        PROVE  /\ copied' + wordcount' = count'
               /\ nextmode' # "GXFifo" => wordcount' = 0
    <2>1. Ordinary /\ count' = count /\ nextmode' = nextmode
      BY <1>5 DEF Ordinary, Copy
    <2>2. copied + wordcount = count /\ wordcount # 0
      BY <2>1, <1>0 DEF ChannelInv, TypeOK, Progress, Ordinary, Stopping, Pausing, Word, Moved
    <2>3. Todo <= wordcount /\ (nextmode # "GXFifo" => Todo = wordcount)
      BY <2>1, <2>2, <1>1 DEF Ordinary
    <2>4. wordcount' = wordcount - Todo
      <3>1. wordcount' = (wordcount - Todo) % Wrap
        BY <2>1 DEF Copy, Ordinary
      <3>2. wordcount - Todo \in 0 .. Wrap - 1
        BY <2>3, <1>1, <1>0, CountAssumption DEF TypeOK
      <3>3. Wrap \in Nat \ {0} /\ wordcount - Todo \in Int
            /\ 0 <= wordcount - Todo /\ wordcount - Todo < Wrap
        BY <3>2, CountAssumption
      <3> QED BY <3>1, <3>3, ModSmall
    <2>5. copied' = copied + Todo
      BY <2>2, <2>3, <1>0, <1>1, CountAssumption DEF Copy, TypeOK, Word, Moved
    <2> QED BY <2>1, <2>2, <2>3, <2>4, <2>5, <1>0, <1>1 DEF TypeOK, Word, Moved
  <1>6. running'
    BY DEF Copy
  <1>7. Progress'
    BY <1>4, <1>5, <1>6 DEF Progress
  <1> QED BY <1>2, <1>3, <1>7 DEF ChannelInv

\* Triggers and acknowledgements leave the transfer alone (tryTrigger, REG_IF).
LEMMA ChannelOther ==
  ASSUME ChannelInv, AckIrq \/ \E mode \in Modes : TryTrigger(mode)
  PROVE  ChannelInv'
  <1>1. CASE AckIrq
    <2>1. UNCHANGED <<control, startmode, wordcount, running, paused, triggered, dmaCheck, frozen, history>>
      BY <1>1 DEF AckIrq
    <2>2. TypeOK'
      BY <1>1, <2>1 DEF ChannelInv, TypeOK, AckIrq, control, history
    <2>3. FreezeEnds' /\ EndEventPending'
      BY <2>1 DEF ChannelInv, FreezeEnds, EndEventPending, control, history
    <2>4. Progress'
      BY <2>1 DEF ChannelInv, Progress, Ordinary, control, history
    <2> QED BY <2>2, <2>3, <2>4 DEF ChannelInv
  <1>2. CASE \E mode \in Modes : TryTrigger(mode)
    <2> PICK mode \in Modes : TryTrigger(mode)
      BY <1>2
    <2>1. TypeOK' /\ FreezeEnds' /\ EndEventPending'
      BY DEF ChannelInv, TypeOK, FreezeEnds, EndEventPending, TryTrigger, Accepts, control
    <2>2. Progress'
      BY DEF ChannelInv, Progress, Ordinary, TryTrigger, control
    <2> QED BY <2>1, <2>2 DEF ChannelInv
  <1> QED BY <1>1, <1>2

\* Every step keeps the invariant.
LEMMA ChannelStep == ChannelInv /\ [Next]_vars => ChannelInv'
  <1> SUFFICES ASSUME ChannelInv, [Next]_vars PROVE ChannelInv'
    OBVIOUS
  <1>1. CASE Processor
    <2>1. CASE AckIrq
      BY <2>1, ChannelOther
    <2>2. ASSUME NEW q \in BOOLEAN, NEW rep \in BOOLEAN, NEW mode \in Modes, NEW n \in Word,
                 \/ \E en \in BOOLEAN : \/ WriteControl(en, q, rep, mode, n)
                                      \/ WriteUpperHalf(en, q, rep, mode, n)
                 \/ WriteLowerHalf(q, rep, mode, n)
          PROVE  ChannelInv'
      <3>1. ReadEnable \in BOOLEAN
        BY DEF ReadEnable
      <3>2. \E en \in BOOLEAN : WriteControl(en, q, rep, mode, n)
        BY <2>2, <3>1 DEF WriteUpperHalf, WriteLowerHalf
      <3> QED BY <3>2, ChannelWrite
    <2> QED BY <1>1, <2>1, <2>2 DEF Processor
  <1>2. CASE Hardware
    BY <1>2, ChannelStop, ChannelWait, ChannelCopy DEF Hardware, Exec
  <1>3. CASE \E mode \in Modes \ {"Immediate"} : TryTrigger(mode)
    BY <1>3, ChannelOther
  <1>4. CASE UNCHANGED vars
    BY <1>4 DEF ChannelInv, TypeOK, FreezeEnds, EndEventPending, Progress, Ordinary, vars,
                control, history
  <1> QED BY <1>1, <1>2, <1>3, <1>4 DEF Next

\* ChannelInv holds of every reachable state.
THEOREM ChannelInvariance == Spec => []ChannelInv
  BY ChannelInit, ChannelStep, PTL DEF Spec

\* Types: wordcount stays a 32-bit word, whatever is subtracted from it.
THEOREM ChannelTypes == Spec => []TypeOK
  BY ChannelInvariance, PTL DEF ChannelInv

\* A frozen bus always has an event that will give it back.
THEOREM FreezeHasEnd == Spec => []FreezeEnds
  BY ChannelInvariance, PTL DEF ChannelInv

\* A transfer in progress always has its end event.
THEOREM TransferHasEnd == Spec => []EndEventPending
  BY ChannelInvariance, PTL DEF ChannelInv

\* The claim of StopMeansDone about one step, from the account of words.
LEMMA StopStep ==
  ASSUME ChannelInv, [Next]_vars
  PROVE  [(/\ running /\ ~running' /\ clean
           /\ count # 0 /\ ~repeatMode /\ startmode # "MemDisplay") => copied = count]_vars
  <1> SUFFICES ASSUME running, ~running', clean, count # 0, ~repeatMode,
                      startmode # "MemDisplay"
               PROVE  copied = count
    OBVIOUS
  <1>1. Stop
    <2>1. ~ Processor
      <3>1. ~ AckIrq
        BY DEF AckIrq
      <3>2. ASSUME NEW en, NEW q, NEW rep, NEW mode, NEW n
            PROVE  ~ WriteControl(en, q, rep, mode, n)
        BY DEF WriteControl
      <3> QED BY <3>1, <3>2 DEF Processor, WriteUpperHalf, WriteLowerHalf
    <2>2. ASSUME NEW mode \in Modes PROVE ~ TryTrigger(mode)
      BY DEF TryTrigger
    <2>3. ASSUME NEW low \in BOOLEAN, NEW lastLine \in BOOLEAN
          PROVE  ~ Wait(low) /\ ~ Copy(low, lastLine)
      BY DEF Wait, Copy
    <2>4. vars' # vars
      BY DEF vars
    <2> QED BY <2>1, <2>2, <2>3, <2>4 DEF Next, Hardware, Exec
  <1>2. Ordinary /\ copied + wordcount = count /\ startmode = nextmode
    BY DEF ChannelInv, Progress, Ordinary
  <1>3. wordcount = 0
    BY <1>1, <1>2 DEF ChannelInv, TypeOK, Progress, Stop, Stopping, Pausing
  <1> QED BY <1>2, <1>3 DEF ChannelInv, TypeOK, Moved

\* A clean transfer stops only when every word asked for has moved.
THEOREM StopIsDone == Spec => StopMeansDone
  BY ChannelInvariance, StopStep, PTL DEF Spec, StopMeansDone

\* A frozen bus and a running transfer have their end event ahead (exec, doCopy).
THEOREM EndsAreAhead == Spec => []EndsAhead
<1>1. TypeOK /\ FreezeEnds /\ EndEventPending => EndsAhead
  BY DEF EndsAhead
<1> QED
  BY <1>1, ChannelTypes, FreezeHasEnd, TransferHasEnd, PTL
--------------------------------------------------------------------------------
(* Stack commands of the FIFO *)

Stacks(s) == {i \in DOMAIN s : IsMatrixStackCommand(s[i])}

\* The number of stack commands in a sequence of commands.
LEMMA StackOpsCount ==
  ASSUME NEW s \in Seq(Kind)
  PROVE  /\ IsFiniteSet(Stacks(s)) /\ StackOps(s) = Cardinality(Stacks(s))
         /\ StackOps(s) \in Nat
         /\ StackOps(s) # 0 <=> \E i \in 1 .. Len(s) : s[i] = "stack"
<1>1. DOMAIN s = 1 .. Len(s) /\ Len(s) \in Nat OBVIOUS
<1>2. IsFiniteSet(1 .. Len(s)) BY <1>1, FS_Interval
<1>3. Stacks(s) \in SUBSET (1 .. Len(s)) BY <1>1 DEF Stacks
<1>4. IsFiniteSet(Stacks(s)) BY <1>2, <1>3, FS_Subset
<1>5. StackOps(s) = Cardinality(Stacks(s)) BY DEF StackOps, Stacks
<1>6. Cardinality(Stacks(s)) \in Nat BY <1>4, FS_CardinalityType
<1>7. Cardinality(Stacks(s)) = 0 <=> Stacks(s) = {} BY <1>4, FS_EmptySet
<1>8. Stacks(s) = {} <=> ~ \E i \in 1 .. Len(s) : s[i] = "stack"
  BY <1>1 DEF Stacks, IsMatrixStackCommand
<1> QED BY <1>4, <1>5, <1>6, <1>7, <1>8

\* What is sent behind what waits adds to it.
LEMMA StackOpsConcat ==
  ASSUME NEW s \in Seq(Kind), NEW t \in Seq(Kind)
  PROVE  StackOps(s \o t) = StackOps(s) + StackOps(t)
<1> DEFINE m == Len(s)
           n == Len(t)
           Behind == {i \in (m + 1) .. (m + n) : t[i - m] = "stack"}
<1>1. m \in Nat /\ n \in Nat /\ DOMAIN s = 1 .. m /\ DOMAIN t = 1 .. n OBVIOUS
<1>2. /\ s \o t \in Seq(Kind) /\ Len(s \o t) = m + n /\ DOMAIN (s \o t) = 1 .. m + n
      /\ \A i \in 1 .. m + n : (s \o t)[i] = IF i <= m THEN s[i] ELSE t[i - m]
  BY ConcatProperties
<1>3. Stacks(s) = {i \in 1 .. m : s[i] = "stack"}
      /\ Stacks(t) = {i \in 1 .. n : t[i] = "stack"}
  BY <1>1 DEF Stacks, IsMatrixStackCommand
<1>4. Stacks(s \o t) = {i \in 1 .. m + n : (s \o t)[i] = "stack"}
  BY <1>2 DEF Stacks, IsMatrixStackCommand
<1> HIDE DEF m, n
<1>5. Stacks(s \o t) = Stacks(s) \cup Behind BY <1>1, <1>2, <1>3, <1>4
<1>6. Stacks(s) \cap Behind = {} BY <1>1, <1>3
<1>7. IsFiniteSet(Stacks(s)) /\ IsFiniteSet(Stacks(t)) BY StackOpsCount
<1>8. IsFiniteSet(Behind) /\ Cardinality(Behind) = Cardinality(Stacks(t))
  <2> DEFINE f == [i \in Stacks(t) |-> i + m]
  <2>1. f \in [Stacks(t) -> Behind] BY <1>1, <1>3
  <2>2. \A i, j \in Stacks(t) : f[i] = f[j] => i = j BY <1>1, <1>3
  <2>3. \A k \in Behind : \E i \in Stacks(t) : f[i] = k
    <3> SUFFICES ASSUME NEW k \in Behind PROVE \E i \in Stacks(t) : f[i] = k OBVIOUS
    <3>1. k - m \in Stacks(t) /\ (k - m) + m = k BY <1>1, <1>3
    <3> QED BY <3>1
  <2> HIDE DEF f, Behind
  <2>4. f \in Bijection(Stacks(t), Behind)
    BY <2>1, <2>2, <2>3 DEF Bijection, Injection, Surjection, IsInjective
  <2>5. ExistsBijection(Stacks(t), Behind) BY <2>4 DEF ExistsBijection
  <2> QED BY <1>7, <2>5, FS_Bijection
<1> HIDE DEF Behind
<1>9. Cardinality(Stacks(s \o t)) = Cardinality(Stacks(s)) + Cardinality(Behind)
  <2>1. Cardinality(Stacks(s) \cup Behind)
          = Cardinality(Stacks(s)) + Cardinality(Behind) - Cardinality(Stacks(s) \cap Behind)
    BY <1>7, <1>8, FS_Union
  <2>2. Cardinality(Stacks(s)) \in Nat /\ Cardinality(Behind) \in Nat
    BY <1>7, <1>8, FS_CardinalityType
  <2>3. Cardinality(Stacks(s) \cap Behind) = 0 BY <1>6, FS_EmptySet
  <2> QED BY <1>5, <2>1, <2>2, <2>3
<1> QED BY <1>2, <1>8, <1>9, StackOpsCount

\* What is received and what stays make up what waited.
LEMMA StackOpsSplit ==
  ASSUME NEW s \in Seq(Kind), NEW n \in 0 .. Len(s)
  PROVE  /\ SubSeq(s, n + 1, Len(s)) \in Seq(Kind)
         /\ Len(SubSeq(s, n + 1, Len(s))) = Len(s) - n
         /\ StackOps(SubSeq(s, n + 1, Len(s))) = StackOps(s) - StackOps(SubSeq(s, 1, n))
<1> DEFINE front == SubSeq(s, 1, n)
           rest == SubSeq(s, n + 1, Len(s))
<1>1. Len(s) \in Nat /\ n \in Nat /\ n <= Len(s) OBVIOUS
<1>2. \A i \in 1 .. Len(s) : s[i] \in Kind OBVIOUS
<1>3. front \in Seq(Kind) BY <1>1, <1>2, SubSeqProperties
<1>4. rest \in Seq(Kind) /\ Len(rest) = Len(s) - n
  <2>1. \A i \in (n + 1) .. Len(s) : s[i] \in Kind BY <1>1, <1>2
  <2>2. n + 1 \in Int /\ Len(s) \in Int BY <1>1
  <2>3. rest \in Seq(Kind)
        /\ Len(rest) = IF n + 1 <= Len(s) THEN Len(s) - (n + 1) + 1 ELSE 0
    BY <2>1, <2>2, SubSeqProperties
  <2> QED BY <1>1, <2>3
<1>5. s = front \o rest
  <2>1. 1 \in 1 .. Len(s) + 1 /\ n \in 1 - 1 .. Len(s) /\ Len(s) \in n .. Len(s) BY <1>1
  <2>2. front \o rest = SubSeq(s, 1, Len(s)) BY <2>1, ConcatAdjacentSubSeq
  <2> QED BY <2>2, SubSeqFull
<1> HIDE DEF front, rest
<1>6. StackOps(s) = StackOps(front) + StackOps(rest) BY <1>3, <1>4, <1>5, StackOpsConcat
<1>7. StackOps(front) \in Nat /\ StackOps(rest) \in Nat BY <1>3, <1>4, StackOpsCount
<1>8. StackOps(rest) = StackOps(s) - StackOps(front) BY <1>6, <1>7
<1> QED BY <1>4, <1>8 DEF front, rest

--------------------------------------------------------------------------------
(* The FIFO, its engine and the channel *)

\* What GFX_FIFO and its flags are, and how far matrix_stack_op_size counts.
FifoRight ==
  /\ fifo \in Seq(Kind) /\ Len(fifo) <= Cap
  /\ stackOps = StackOps(fifo) /\ sb = (stackOps # 0)
  /\ fifoLow \in BOOLEAN /\ fifoEmpty \in BOOLEAN
Switches == gxEvent \in BOOLEAN /\ swap \in BOOLEAN /\ freeze0 \in BOOLEAN
            /\ writes \in 0 .. MaxWrites

Inv == TypeOK /\ FifoRight /\ Switches /\ NoStall /\ PausedIsWoken

\* Whatever handles the events of a FIFO that is low wakes a transfer that is paused
\* (GXF_FIFO_handleEvents, tryTrigger).
LEMMA HandleEventsInv ==
  ASSUME Inv, NEW lowest, HandleEvents(lowest), Len(fifo') <= Half => lowest <= Half
  PROVE  TypeOK' /\ PausedIsWoken'
<1>1. CASE lowest <= Half
  <2>1. TryTrigger("GXFifo") BY <1>1 DEF HandleEvents
  <2>2. TypeOK' BY <2>1, TriggerTypes DEF Inv
  <2>3. PausedIsWoken' BY <2>1 DEF PausedIsWoken, TryTrigger, Accepts, control
  <2> QED BY <2>2, <2>3
<1>2. CASE ~(lowest <= Half)
  <2>1. UNCHANGED channel BY <1>2 DEF HandleEvents
  <2>2. TypeOK' BY <2>1 DEF Inv, channel, TypeOK
  <2>3. PausedIsWoken' BY <1>2 DEF PausedIsWoken, IsLow
  <2> QED BY <2>2, <2>3
<1> QED BY <1>1, <1>2

\* Words sent by the processor (GFX_FIFOsend).
LEMMA PushInv ==
  ASSUME Inv, NEW words \in Stores, Push(words), Len(fifo) + Len(words) <= Cap,
         UNCHANGED swap, freeze0' \in BOOLEAN, writes' \in 0 .. MaxWrites
  PROVE  Inv'
<1>1. PICK n \in 1 .. Store : words \in [1 .. n -> Kind]
  <2> DEFINE F(k) == [1 .. k -> Kind]
             Fs == {F(k) : k \in 1 .. Store}
  <2>1. words \in UNION Fs BY DEF Stores
  <2>2. \E k \in 1 .. Store : words \in F(k)
    <3> HIDE DEF F
    <3> QED BY <2>1
  <2> QED BY <2>2
<1>2. n \in Nat /\ n >= 1 BY SizeAssumption
<1>3. words \in Seq(Kind) /\ Len(words) = n BY <1>1, <1>2
<1>4. fifo \in Seq(Kind) /\ Len(fifo) \in Nat BY DEF Inv, FifoRight
<1>5. fifo' = fifo \o words BY DEF Push
<1>6. fifo' \in Seq(Kind) /\ Len(fifo') = Len(fifo) + n
  BY <1>3, <1>4, <1>5, ConcatProperties
<1>7. stackOps' = StackOps(fifo')
  <2>1. StackOps(fifo') = StackOps(fifo) + StackOps(words)
    BY <1>3, <1>4, <1>5, StackOpsConcat
  <2> QED BY <2>1 DEF Push, Inv, FifoRight
<1>8. HandleEvents(Len(fifo) + 1) /\ gxEvent' BY DEF Push
<1>9. FifoRight' BY <1>3, <1>6, <1>7, <1>8 DEF FifoRight, HandleEvents
<1>10. Len(fifo') <= Half => Len(fifo) + 1 <= Half BY <1>2, <1>4, <1>6, SizeAssumption
<1>11. TypeOK' /\ PausedIsWoken' BY <1>8, <1>10, HandleEventsInv
<1>12. Switches' /\ NoStall' BY DEF Inv, Switches, NoStall, Push
<1> QED BY <1>9, <1>11, <1>12 DEF Inv

\* Commands received by the engine (GFX_PIPErecv).
LEMMA PopInv ==
  ASSUME Inv, NEW n \in 0 .. Len(fifo), Pop(n)
  PROVE  /\ TypeOK' /\ FifoRight' /\ PausedIsWoken'
         /\ Len(fifo') = Len(fifo) - n
<1>1. fifo \in Seq(Kind) /\ Len(fifo) \in Nat /\ Len(fifo) <= Cap
  BY DEF Inv, FifoRight
<1>2. fifo' = SubSeq(fifo, n + 1, Len(fifo)) /\ HandleEvents(Len(fifo) - n) BY DEF Pop
<1>3. /\ fifo' \in Seq(Kind) /\ Len(fifo') = Len(fifo) - n
      /\ StackOps(fifo') = StackOps(fifo) - StackOps(SubSeq(fifo, 1, n))
  BY <1>1, <1>2, StackOpsSplit
<1>4. stackOps' = StackOps(fifo') BY <1>3 DEF Pop, Inv, FifoRight
<1>5. Len(fifo') <= Cap BY <1>1, <1>3, SizeAssumption
<1>6. FifoRight' BY <1>2, <1>3, <1>4, <1>5 DEF FifoRight, HandleEvents
<1>7. TypeOK' /\ PausedIsWoken' BY <1>2, <1>3, HandleEventsInv
<1> QED BY <1>3, <1>6, <1>7

\* The engine runs (gfx3d_execute3D).
LEMMA GxExecInv == ASSUME Inv, GxExec PROVE Inv'
<1>1. CASE swap
  <2>1. UNCHANGED <<channel, engine, swap, freeze0, writes>> /\ gxEvent' = FALSE
    BY <1>1 DEF GxExec
  <2>2. TypeOK' BY <2>1 DEF Inv, channel, TypeOK
  <2>3. FifoRight' BY <2>1 DEF Inv, engine, FifoRight, StackOps
  <2>4. Switches' /\ NoStall' BY <1>1, <2>1 DEF Inv, Switches, NoStall
  <2>5. PausedIsWoken' BY <2>1 DEF Inv, PausedIsWoken, IsLow, channel, engine
  <2> QED BY <2>2, <2>3, <2>4, <2>5 DEF Inv
<1>2. CASE ~swap
  <2>1. /\ Pop(Executed) /\ gxEvent' = (Executed > 0)
        /\ swap' = ("swap" \in ToSet(SubSeq(fifo, 1, Executed)))
        /\ UNCHANGED <<freeze0, writes>>
    BY <1>2 DEF GxExec
  <2>2. fifo \in Seq(Kind) /\ Len(fifo) \in Nat BY DEF Inv, FifoRight
  <2>3. Executed \in 0 .. Len(fifo) /\ (Executed = 0 => Len(fifo) = 0)
    BY <2>2, SizeAssumption DEF Executed
  <2>4. TypeOK' /\ FifoRight' /\ PausedIsWoken' /\ Len(fifo') = Len(fifo) - Executed
    BY <2>1, <2>3, PopInv
  <2>5. Switches' BY <2>1 DEF Inv, Switches
  <2>6. NoStall'
    <3>1. CASE Executed = 0
      <4>1. Len(fifo') = 0 /\ fifo' \in Seq(Kind) BY <2>2, <2>3, <2>4, <3>1 DEF FifoRight
      <4>2. fifo' = <<>> BY <4>1
      <4> QED BY <4>2 DEF NoStall
    <3>2. CASE Executed # 0
      <4>1. Executed > 0 BY <2>2, <2>3, <3>2
      <4> QED BY <2>1, <4>1 DEF NoStall
    <3> QED BY <3>1, <3>2
  <2> QED BY <2>4, <2>5, <2>6 DEF Inv
<1> QED BY <1>1, <1>2

\* The size of a burst that is allowed to begin (doCopy).
LEMMA BurstSize ==
  ASSUME TypeOK, nextmode = "GXFifo"
  PROVE  Todo \in 1 .. Batch
BY CountAssumption DEF TypeOK, Todo

\* Any entries a burst sends, none of them too (doCopy, GFX_FIFOsend).
LEMMA BurstOfInv ==
  ASSUME Inv, Copy(IsLow, FALSE), NEW n \in Nat, NEW entries \in [1 .. n -> BurstKinds],
         BurstOf(entries), Len(fifo) + n <= Cap, freeze0' \in BOOLEAN
  PROVE  Inv' /\ Len(fifo') = Len(fifo) + n
<1>1. fifo' = fifo \o entries /\ stackOps' = stackOps + StackOps(entries)
      /\ UNCHANGED <<swap, writes>>
  BY DEF BurstOf
<1>2. \A i \in 1 .. n : entries[i] \in Kind BY BurstAssumption
<1>3. entries \in Seq(Kind) /\ Len(entries) = n BY <1>2
<1>4. fifo \in Seq(Kind) /\ Len(fifo) \in Nat /\ stackOps = StackOps(fifo)
  BY DEF Inv, FifoRight
<1>5. fifo' \in Seq(Kind) /\ Len(fifo') = Len(fifo) + n
  BY <1>1, <1>3, <1>4, ConcatProperties
<1>6. stackOps' = StackOps(fifo')
  <2>1. StackOps(fifo') = StackOps(fifo) + StackOps(entries)
    BY <1>1, <1>3, <1>4, StackOpsConcat
  <2> QED BY <1>1, <1>4, <2>1
<1>7. IsLow \in BOOLEAN BY DEF IsLow
<1>8. TypeOK' BY <1>7, CopyTypes DEF Inv
<1>9. PausedIsWoken' BY DEF PausedIsWoken, Copy
<1>10. Len(fifo') <= Cap BY <1>5
<1>11. CASE entries = <<>>
  <2>1. UNCHANGED <<fifoLow, fifoEmpty, sb, gxEvent>> BY <1>11 DEF BurstOf
  <2>2. Len(entries) = 0 BY <1>11
  <2>3. StackOps(entries) = 0
    <3>1. ~ \E i \in 1 .. Len(entries) : entries[i] = "stack" BY <2>2
    <3> QED BY <1>3, <3>1, StackOpsCount
  <2>4. stackOps \in Nat BY <1>4, StackOpsCount
  <2>5. stackOps' = stackOps BY <1>1, <2>3, <2>4
  <2>6. sb' = (stackOps' # 0)
    <3>1. sb = (stackOps # 0) BY DEF Inv, FifoRight
    <3> QED BY <2>1, <2>5, <3>1
  <2>7. fifo' = fifo BY <1>1, <1>4, <1>11, ConcatEmptySeq
  <2>8. FifoRight' BY <1>5, <1>6, <1>10, <2>1, <2>6 DEF Inv, FifoRight
  <2>9. Switches' /\ NoStall' BY <1>1, <2>1, <2>7 DEF Inv, Switches, NoStall
  <2> QED BY <1>5, <1>8, <1>9, <2>8, <2>9 DEF Inv
<1>12. CASE entries # <<>>
  <2>1. /\ fifoLow' = (Len(fifo') <= Half) /\ fifoEmpty' = FALSE
        /\ sb' = (stackOps' # 0) /\ gxEvent' = TRUE
    BY <1>12 DEF BurstOf
  <2>2. fifoLow' \in BOOLEAN /\ fifoEmpty' \in BOOLEAN
    <3>1. fifoLow' = (Len(fifo') <= Half) BY <2>1
    <3>2. fifoLow' \in BOOLEAN BY <3>1
    <3> QED BY <2>1, <3>2
  <2>3. FifoRight' BY <1>5, <1>6, <1>10, <2>1, <2>2 DEF FifoRight
  <2>4. Switches' /\ NoStall' BY <1>1, <2>1 DEF Inv, Switches, NoStall
  <2> QED BY <1>5, <1>8, <1>9, <2>3, <2>4 DEF Inv
<1> QED BY <1>11, <1>12

\* The port of packed commands: from none to PerWord entries for each word.
LEMMA PackedInv ==
  ASSUME Inv, BurstPacked
  PROVE  /\ Inv' /\ freeze0' = freeze0 /\ Copy(IsLow, FALSE)
         /\ Len(fifo') <= Len(fifo) + PerWord * Todo
<1>1. Copy(IsLow, FALSE) /\ freeze0' = freeze0 BY DEF BurstPacked
<1>2. Todo \in Nat BY CountAssumption, TodoBounds DEF Inv
<1>3. PICK n \in 0 .. PerWord * Todo :
        Len(fifo) + n <= Cap /\ \E entries \in [1 .. n -> BurstKinds] : BurstOf(entries)
  BY DEF BurstPacked
<1>4. PICK entries \in [1 .. n -> BurstKinds] : BurstOf(entries) BY <1>3
<1>5. n \in Nat /\ n <= PerWord * Todo
  <2>1. PerWord * Todo \in Int BY <1>2, SizeAssumption
  <2> QED BY <2>1
<1>6. freeze0' \in BOOLEAN BY <1>1 DEF Inv, Switches
<1>7. Inv' /\ Len(fifo') = Len(fifo) + n BY <1>1, <1>3, <1>4, <1>5, <1>6, BurstOfInv
<1>8. Len(fifo) \in Nat BY DEF Inv, FifoRight
<1> DEFINE most == PerWord * Todo
<1>9. most \in Int /\ n <= most BY <1>2, <1>5, SizeAssumption
<1> HIDE DEF most
<1>10. Len(fifo') <= Len(fifo) + most BY <1>5, <1>7, <1>8, <1>9
<1> QED BY <1>1, <1>7, <1>10 DEF most

\* The ports of single commands: each word one entry, and the limit looked at.
LEMMA SingleInv ==
  ASSUME Inv, BurstSingle
  PROVE  /\ Inv' /\ Copy(IsLow, FALSE)
         /\ freeze0' = (freeze0 \/ Len(fifo') - 1 > Limit)
         /\ Len(fifo') = Len(fifo) + Todo
<1>1. /\ Copy(IsLow, FALSE) /\ Len(fifo) + Todo <= Cap
      /\ freeze0' = (freeze0 \/ Len(fifo') - 1 > Limit)
  BY DEF BurstSingle
<1>2. Todo \in Nat BY CountAssumption, TodoBounds DEF Inv
<1>3. PICK entries \in [1 .. Todo -> BurstKinds] : BurstOf(entries) BY DEF BurstSingle
<1>4. freeze0' \in BOOLEAN BY <1>1
<1> DEFINE n == Todo
<1>5. n \in Nat /\ entries \in [1 .. n -> BurstKinds] /\ Len(fifo) + n <= Cap
  BY <1>1, <1>2, <1>3
<1> HIDE DEF n
<1>6. Inv' /\ Len(fifo') = Len(fifo) + n BY <1>1, <1>3, <1>4, <1>5, BurstOfInv
<1> QED BY <1>1, <1>6 DEF n

\* The other events of the channel: a pause of a transfer that finds the FIFO low would
\* lose it, so exec begins the next burst instead.
LEMMA DmaInv == ASSUME Inv, DmaExec PROVE Inv'
<1>1. CASE BurstPacked \/ BurstSingle BY <1>1, PackedInv, SingleInv
<1>2. ASSUME \/ Stop \/ Wait(IsLow) \/ Copy(IsLow, FALSE),
             UNCHANGED <<engine, gxEvent, swap, freeze0, writes>>
      PROVE  Inv'
  <2>1. IsLow \in BOOLEAN BY DEF IsLow
  <2>2. TypeOK' BY <1>2, <2>1, StopTypes, WaitTypes, CopyTypes DEF Inv
  <2>3. FifoRight' BY <1>2 DEF Inv, engine, FifoRight, StackOps
  <2>4. Switches' /\ NoStall' BY <1>2 DEF Inv, Switches, NoStall, engine
  <2>5. IsLow' = IsLow BY <1>2 DEF IsLow, engine
  <2>6. PausedIsWoken'
    <3>1. CASE Stop BY <3>1 DEF PausedIsWoken, Stop
    <3>2. CASE Wait(IsLow)
      BY <2>5, <3>2 DEF PausedIsWoken, Wait, Stopping, Starting, control
    <3>3. CASE Copy(IsLow, FALSE) BY <3>3 DEF PausedIsWoken, Copy
    <3> QED BY <1>2, <3>1, <3>2, <3>3
  <2> QED BY <2>2, <2>3, <2>4, <2>6 DEF Inv
<1> QED BY <1>1, <1>2 DEF DmaExec

\* The game programs the channel.
LEMMA ProgramInv == ASSUME Inv, ProgramDma PROVE Inv'
<1>1. PICK en \in BOOLEAN, rep \in Repeats, mode \in Modes, n \in Word \ {0} :
        WriteControl(en, FALSE, rep, mode, n)
  BY DEF ProgramDma
<1>2. /\ writes < MaxWrites /\ writes' = writes + 1
      /\ UNCHANGED <<engine, gxEvent, swap, freeze0>>
  BY DEF ProgramDma
<1>3. rep \in BOOLEAN /\ n \in Word BY RepeatsAssumption
<1>4. TypeOK' BY <1>1, <1>3, WriteTypes DEF Inv
<1>5. FifoRight' BY <1>2 DEF Inv, engine, FifoRight, StackOps
<1>6. Switches' /\ NoStall'
  BY <1>2, SizeAssumption DEF Inv, Switches, NoStall, engine
<1>7. PausedIsWoken' BY <1>1 DEF PausedIsWoken, WriteControl, Triggerless
<1> QED BY <1>4, <1>5, <1>6, <1>7 DEF Inv

\* Steps that leave the FIFO and the channel alone.
LEMMA ElseInv ==
  ASSUME Inv, UNCHANGED <<channel, engine, writes>>, freeze0' \in BOOLEAN,
         swap' \in BOOLEAN, gxEvent' \in BOOLEAN,
         (swap' = swap /\ gxEvent' = gxEvent) \/ gxEvent'
  PROVE  Inv'
<1>1. TypeOK' BY DEF Inv, channel, TypeOK
<1>2. FifoRight' BY DEF Inv, engine, FifoRight, StackOps
<1>3. Switches' /\ NoStall' BY DEF Inv, Switches, NoStall, engine
<1>4. PausedIsWoken' BY DEF Inv, PausedIsWoken, IsLow, channel, engine
<1> QED BY <1>1, <1>2, <1>3, <1>4 DEF Inv

\* Nothing waits at first.
LEMMA InitInv == ASSUME SystemInit PROVE Inv
<1>1. TypeOK BY ChannelInit DEF SystemInit, ChannelInv
<1>2. fifo = <<>> /\ fifo \in Seq(Kind) /\ Len(fifo) = 0 BY DEF SystemInit
<1>3. StackOps(fifo) = 0
  <2>1. ~ \E i \in 1 .. Len(fifo) : fifo[i] = "stack" BY <1>2
  <2> QED BY <1>2, <2>1, StackOpsCount
<1>4. FifoRight
  <2>1. Len(fifo) <= Cap BY <1>2, SizeAssumption
  <2>2. stackOps = StackOps(fifo) BY <1>3 DEF SystemInit
  <2>3. sb = (stackOps # 0)
    <3>1. sb = FALSE /\ stackOps = 0 BY DEF SystemInit
    <3> QED BY <3>1
  <2>4. fifoLow \in BOOLEAN /\ fifoEmpty \in BOOLEAN BY DEF SystemInit
  <2> QED BY <1>2, <2>1, <2>2, <2>3, <2>4 DEF FifoRight
<1>5. Switches /\ NoStall
  <2>1. writes \in 0 .. MaxWrites BY SizeAssumption DEF SystemInit
  <2>2. gxEvent \in BOOLEAN /\ swap \in BOOLEAN /\ freeze0 \in BOOLEAN BY DEF SystemInit
  <2>3. NoStall BY <1>2 DEF NoStall
  <2> QED BY <2>1, <2>2, <2>3 DEF Switches
<1>6. PausedIsWoken BY DEF SystemInit, Init, PausedIsWoken
<1> QED BY <1>1, <1>4, <1>5, <1>6 DEF Inv

\* Every step keeps the invariant.
LEMMA StepInv == ASSUME Inv, [SystemNext]_systemVars PROVE Inv'
<1>1. ASSUME NEW words \in Stores, SendDirect(words) \/ SendPacked(words) PROVE Inv'
  <2>1. /\ Push(words) /\ UNCHANGED swap
        /\ writes < MaxWrites /\ writes' = writes + 1
        /\ Len(fifo) + Len(words) <= Cap
    BY <1>1 DEF SendDirect, SendPacked
  <2>a. freeze0' \in BOOLEAN
    <3>1. CASE SendDirect(words) BY <3>1 DEF SendDirect
    <3>2. CASE SendPacked(words) BY <3>2 DEF SendPacked, Inv, Switches
    <3> QED BY <1>1, <3>1, <3>2
  <2>2. writes' \in 0 .. MaxWrites BY <2>1, SizeAssumption DEF Inv, Switches
  <2> QED BY <2>1, <2>a, <2>2, PushInv
<1>2. CASE ProgramDma BY <1>2, ProgramInv
<1>3. CASE Unfreeze BY <1>3, ElseInv DEF Unfreeze, Inv, Switches
<1>4. CASE GxExec BY <1>4, GxExecInv
<1>5. CASE VBlank BY <1>5, ElseInv DEF VBlank, Inv, Switches
<1>6. CASE DmaExec BY <1>6, DmaInv
<1>7. CASE UNCHANGED systemVars
  <2>1. UNCHANGED <<channel, engine, gxEvent, swap, freeze0, writes>> BY <1>7 DEF systemVars
  <2> QED BY <2>1, ElseInv DEF Inv, Switches
<1> QED BY <1>1, <1>2, <1>3, <1>4, <1>5, <1>6, <1>7 DEF SystemNext

\* The flags, the events and the counter around the FIFO agree with what waits in it.
THEOREM Invariance == SystemSpec => []Inv
<1>1. SystemInit => Inv BY InitInv
<1>2. Inv /\ [SystemNext]_systemVars => Inv' BY StepInv
<1> QED BY <1>1, <1>2, PTL DEF SystemSpec

\* The types, and the FIFO within its capacity.
THEOREM TypesAreKept == SystemSpec => []SystemTypeOK
<1>1. Inv => SystemTypeOK
  <2> SUFFICES ASSUME Inv PROVE SystemTypeOK OBVIOUS
  <2>1. stackOps \in Nat BY StackOpsCount DEF Inv, FifoRight
  <2>2. sb \in BOOLEAN BY DEF Inv, FifoRight
  <2> QED BY <2>1, <2>2 DEF Inv, FifoRight, Switches, SystemTypeOK
<1> QED BY <1>1, Invariance, PTL

\* Commands that wait have the engine's event, or a swap that will bring it back.
THEOREM EngineNeverStalls == SystemSpec => []NoStall
<1>1. Inv => NoStall BY DEF Inv
<1> QED BY <1>1, Invariance, PTL

\* A transfer that paused for a full FIFO has its event once the FIFO is low.
THEOREM PausesAreWoken == SystemSpec => []PausedIsWoken
<1>1. Inv => PausedIsWoken BY DEF Inv
<1> QED BY <1>1, Invariance, PTL

\* The busy flag of the matrix stacks is on exactly while a push or pop waits.
THEOREM BusyIsTrue == SystemSpec => []StackBusy
<1>1. Inv => StackBusy
  <2> SUFFICES ASSUME Inv PROVE StackBusy OBVIOUS
  <2>1. fifo \in Seq(Kind) /\ sb = (StackOps(fifo) # 0) BY DEF Inv, FifoRight
  <2> QED BY <2>1, StackOpsCount DEF StackBusy
<1> QED BY <1>1, Invariance, PTL

\* What the run gx_system checks of the flags and events around a FIFO of seven, for a
\* FIFO, bursts and stores of any size.
THEOREM EngineIsTruthful == SystemSpec => []EngineTruthful
BY TypesAreKept, EngineNeverStalls, PausesAreWoken, BusyIsTrue, PTL DEF EngineTruthful

\* A burst of a transfer that goes on begins only when the FIFO is low.
LEMMA BurstStep ==
  ASSUME Inv, [SystemNext]_systemVars, running, startmode = "GXFifo", startmode' = startmode,
         copied' > copied
  PROVE  freeze0' = freeze0 /\ Len(fifo') <= Half + PerWord * Batch
<1>1. copied \in Nat /\ fifo \in Seq(Kind) /\ Len(fifo) \in Nat
  BY CountAssumption DEF Inv, FifoRight, TypeOK, Moved
<1>2. ~(copied' = copied) BY <1>1
<1>3. ASSUME NEW n, HandleEvents(n) PROVE FALSE
  BY <1>2, <1>3 DEF HandleEvents, TryTrigger, channel
<1>4. ~ \E words \in Stores : SendDirect(words) \/ SendPacked(words)
  BY <1>3 DEF SendDirect, SendPacked, Push
<1>5. ~ ProgramDma
  <2> SUFFICES ASSUME ProgramDma PROVE FALSE OBVIOUS
  <2>1. copied' = 0 BY DEF ProgramDma, WriteControl
  <2> QED BY <1>1, <2>1
<1>6. ~ GxExec BY <1>2, <1>3 DEF GxExec, Pop, channel
<1>7. ~ Unfreeze /\ ~ VBlank /\ ~ UNCHANGED systemVars
  BY <1>2 DEF Unfreeze, VBlank, systemVars, channel
<1>8. ~ Stop /\ ~ Wait(IsLow) BY <1>2 DEF Stop, Wait, history
<1>9. BurstPacked \/ BurstSingle
  <2>1. DmaExec BY <1>4, <1>5, <1>6, <1>7 DEF SystemNext
  <2>2. nextmode # "GXFifo" => ~ Copy(IsLow, FALSE) BY DEF Copy
  <2> QED BY <1>8, <2>1, <2>2 DEF DmaExec
<1>10. nextmode = "GXFifo" /\ Starting(IsLow) BY <1>9 DEF BurstPacked, BurstSingle, Copy
<1>11. Len(fifo) <= Half BY <1>10 DEF Starting, Stopping, IsLow
<1>12. Todo \in 1 .. Batch BY <1>10, BurstSize DEF Inv
<1>13. Todo <= PerWord * Todo /\ PerWord * Todo <= PerWord * Batch
       /\ PerWord * Todo \in Int /\ PerWord * Batch \in Int
  BY <1>12, CountAssumption, SizeAssumption
<1> DEFINE sent == PerWord * Todo
           most == PerWord * Batch
<1>14. Todo <= sent /\ sent <= most /\ sent \in Int /\ most \in Int BY <1>13
<1>15. CASE BurstPacked
  <2>1. freeze0' = freeze0 /\ Len(fifo') <= Len(fifo) + sent BY <1>15, PackedInv
  <2>2. Len(fifo') \in Int BY <1>15, PackedInv DEF Inv, FifoRight
  <2> HIDE DEF sent, most
  <2>3. Len(fifo') <= Half + most BY <1>1, <1>11, <1>14, <2>1, <2>2, SizeAssumption
  <2> QED BY <2>1, <2>3 DEF most
<1>16. CASE BurstSingle
  <2>1. /\ freeze0' = (freeze0 \/ Len(fifo') - 1 > Limit)
        /\ Len(fifo') = Len(fifo) + Todo
    BY <1>16, SingleInv
  <2>2. Todo \in Int /\ Todo <= Batch BY <1>12, CountAssumption
  <2> HIDE DEF sent, most
  <2>3. Len(fifo') <= Half + most BY <1>1, <1>11, <1>14, <2>1, <2>2, SizeAssumption
  <2>4. ~(Len(fifo') - 1 > Limit)
    BY <1>1, <1>11, <2>1, <2>2, CountAssumption, SizeAssumption
  <2>5. freeze0 \in BOOLEAN BY DEF Inv, Switches
  <2>6. freeze0' = freeze0 BY <2>1, <2>4, <2>5
  <2> QED BY <2>3, <2>6 DEF most
<1> QED BY <1>9, <1>15, <1>16

\* The channel never freezes the bus against the engine it feeds, whichever ports its
\* words are for and however many entries a packed word sends.
THEOREM BurstsFit == SystemSpec => BurstFits
<1>1. Inv /\ [SystemNext]_systemVars =>
        [(running /\ startmode = "GXFifo" /\ startmode' = startmode /\ copied' > copied)
           => freeze0' = freeze0 /\ Len(fifo') <= Half + PerWord * Batch]_systemVars
  BY BurstStep
<1> QED BY <1>1, Invariance, PTL DEF SystemSpec, BurstFits

================================================================================
