----------------------------- MODULE IpcFifoProofs -----------------------------
(***************************************************************************)
(* For every depth, word set and set of control values: the counters and   *)
(* status bits of the IPC FIFOs are right, no interrupt edge is lost, and  *)
(* the rings implement the two channels of IpcChannel.                     *)
(***************************************************************************)
EXTENDS IpcFifo, SequenceTheorems, TLAPS

IInv == TypeOK /\ RingConsistent /\ StatusTruthful

\* Remote is the other CPU.
LEMMA RemoteFacts ==
  \A p \in Cpu : Remote(p) \in Cpu /\ Remote(p) # p /\ Remote(Remote(p)) = p
BY CpuAssumption DEF Cpu, Remote

\* Advancing a slot stays in the ring and is +1 modulo Depth.
LEMMA AdvanceFacts ==
  ASSUME NEW s \in Slot
  PROVE  Advance(s) \in Slot /\ (Advance(s) = s + 1 \/ Advance(s) + Depth = s + 1)
BY DepthAssumption DEF Slot, Advance

\* A freshly initialised FIFO satisfies the inductive invariant.
LEMMA InitIInv == Init => IInv
BY DepthAssumption, RemoteFacts
   DEF Init, IInv, TypeOK, RingConsistent, StatusTruthful, Slot, Bit, Status, Writeable, Irq

\* Every step keeps the types.
LEMMA NextTypeOK == TypeOK /\ [Next]_vars => TypeOK'
<1> SUFFICES ASSUME TypeOK, [Next]_vars PROVE TypeOK'
  OBVIOUS
<1> USE DepthAssumption, RemoteFacts, AdvanceFacts
    DEF TypeOK, SetCnt, MakeIrq, Bit, Status, Writeable, Irq, ring
<1>1. ASSUME NEW p \in Cpu, SendOverflow(p) PROVE TypeOK'
  BY <1>1 DEF SendOverflow, Fail
<1>2. ASSUME NEW p \in Cpu, NEW w \in Word, SendWord(p, w) PROVE TypeOK'
  BY <1>2 DEF SendWord
<1>3. ASSUME NEW p \in Cpu, RecvDisabled(p) PROVE TypeOK'
  BY <1>3 DEF RecvDisabled
<1>4. ASSUME NEW p \in Cpu, RecvUnderflow(p) PROVE TypeOK'
  BY <1>4 DEF RecvUnderflow, Fail
<1>5. ASSUME NEW p \in Cpu, RecvWord(p) PROVE TypeOK'
  BY <1>5 DEF RecvWord
<1>6. ASSUME NEW p \in Cpu, NEW val \in CntValue, WriteCnt(p, val) PROVE TypeOK'
  <2>1. head' \in [Cpu -> Slot] /\ tail' \in [Cpu -> Slot] /\ size' \in [Cpu -> 0 .. Depth]
    <3>1. 0 \in Slot /\ 0 \in 0 .. Depth
      BY DepthAssumption DEF Slot
    <3>2. CASE "SENDCLEAR" \in val
      <4>1. /\ head' = [head EXCEPT ![p] = 0]
            /\ tail' = [tail EXCEPT ![p] = 0]
            /\ size' = [size EXCEPT ![p] = 0]
        BY <1>6, <3>2, Zenon DEF WriteCnt, ClearRing
      <4> QED
        BY <3>1, <4>1, Zenon
    <3>3. CASE "SENDCLEAR" \notin val
      <4>1. UNCHANGED <<head, tail, size>>
        BY <1>6, <3>3, Zenon DEF WriteCnt, ClearRing
      <4> QED
        BY <4>1
    <3> QED
      BY <3>2, <3>3, Zenon
  <2>2. CntLocal(p, val) \in SUBSET Bit /\ CntRemote(p, val) \in SUBSET Bit
    BY DEF CntLocal, CntRemote
  <2>3. cnt' \in [Cpu -> SUBSET Bit]
    BY <1>6, <2>2 DEF WriteCnt
  <2>4. IF_bits' \in [Cpu -> SUBSET Irq]
    BY <1>6 DEF WriteCnt, DueIrq
  <2> QED
    BY <1>6, <2>1, <2>3, <2>4 DEF WriteCnt, ClearRing
<1>7. ASSUME NEW p \in Cpu, NEW i \in Irq, AckIrq(p, i) PROVE TypeOK'
  BY <1>7 DEF AckIrq
<1>8. CASE Reset
  BY <1>8 DEF Reset, Slot
<1>9. CASE UNCHANGED vars
  BY <1>9 DEF vars
<1> QED
  BY <1>1, <1>2, <1>3, <1>4, <1>5, <1>6, <1>7, <1>8, <1>9 DEF Next

\* The registers and counters of the IPC FIFOs stay in their types.
THEOREM TypeCorrect == Spec => []TypeOK
<1>1. Init => TypeOK
  BY InitIInv DEF IInv
<1> QED
  BY <1>1, NextTypeOK, PTL DEF Spec
--------------------------------------------------------------------------------
\* A ring at head h and tail t holding n words.
RingOk(h, t, n) == t = h + n \/ t + Depth = h + n

\* Pushing onto a ring that has room, and popping from one that is not empty,
\* keep head, tail and size consistent.
LEMMA PushPop ==
  ASSUME NEW h \in Slot, NEW t \in Slot, NEW n \in 0 .. Depth, RingOk(h, t, n)
  PROVE  /\ n < Depth => RingOk(h, Advance(t), n + 1)
         /\ n > 0 => RingOk(Advance(h), t, n - 1)
BY DepthAssumption DEF RingOk, Slot, Advance

\* Every step keeps the counters of both rings consistent.
LEMMA NextRing == TypeOK /\ RingConsistent /\ [Next]_vars => RingConsistent'
<1> SUFFICES ASSUME TypeOK, RingConsistent, [Next]_vars, NEW r \in Cpu
             PROVE  RingOk(head'[r], tail'[r], size'[r])
  BY DEF RingConsistent, RingOk
<1> USE RemoteFacts
<1>0. /\ head \in [Cpu -> Slot] /\ tail \in [Cpu -> Slot] /\ size \in [Cpu -> 0 .. Depth]
      /\ RingOk(head[r], tail[r], size[r])
  BY DEF TypeOK, RingConsistent, RingOk
<1>1. CASE UNCHANGED ring
  BY <1>0, <1>1 DEF ring
<1>2. ASSUME NEW p \in Cpu, NEW w \in Word, SendWord(p, w)
      PROVE  RingOk(head'[r], tail'[r], size'[r])
  <2>1. /\ head' = head
        /\ tail' = [tail EXCEPT ![p] = Advance(@)]
        /\ size' = [size EXCEPT ![p] = @ + 1]
        /\ size[p] < Depth
    BY <1>2 DEF SendWord
  <2> QED
    BY <1>0, <2>1, PushPop
<1>3. ASSUME NEW p \in Cpu, RecvWord(p)
      PROVE  RingOk(head'[r], tail'[r], size'[r])
  <2>1. /\ tail' = tail
        /\ head' = [head EXCEPT ![Remote(p)] = Advance(@)]
        /\ size' = [size EXCEPT ![Remote(p)] = @ - 1]
        /\ size[Remote(p)] > 0
    BY <1>3 DEF RecvWord
  <2> QED
    BY <1>0, <2>1, PushPop
<1>4. ASSUME NEW p \in Cpu, NEW val \in CntValue, WriteCnt(p, val)
      PROVE  RingOk(head'[r], tail'[r], size'[r])
  <2>1. CASE "SENDCLEAR" \in val
    <3>1. /\ head' = [head EXCEPT ![p] = 0]
          /\ tail' = [tail EXCEPT ![p] = 0]
          /\ size' = [size EXCEPT ![p] = 0]
      BY <1>4, <2>1, Zenon DEF WriteCnt, ClearRing
    <3> QED
      BY <1>0, <3>1 DEF RingOk
  <2>2. CASE "SENDCLEAR" \notin val
    <3>1. UNCHANGED <<head, tail, size>>
      BY <1>4, <2>2, Zenon DEF WriteCnt, ClearRing
    <3> QED
      BY <1>0, <3>1
  <2> QED
    BY <2>1, <2>2, Zenon
<1>5. CASE Reset
  BY <1>5 DEF Reset, RingOk
<1> QED
  BY <1>1, <1>2, <1>3, <1>4, <1>5
     DEF Next, vars, ring, SendOverflow, RecvDisabled, RecvUnderflow, AckIrq, Fail
--------------------------------------------------------------------------------
\* The registers local and remote tell the truth about a ring of n words.
StatusOk(local, remote, n) ==
  /\ "SENDEMPTY" \in local <=> n = 0
  /\ "SENDFULL" \in local <=> n = Depth
  /\ "RECVEMPTY" \in remote <=> n = 0
  /\ "RECVFULL" \in remote <=> n = Depth

\* A CPU is one of a pair.
LEMMA Pair == \A p, r \in Cpu : r = p \/ r = Remote(p)
BY CpuAssumption DEF Cpu, Remote

\* Reading back what SetCnt wrote.
LEMMA SetCntFacts ==
  ASSUME TypeOK, NEW p \in Cpu, NEW local, NEW remote, SetCnt(p, local, remote)
  PROVE  cnt'[p] = local /\ cnt'[Remote(p)] = remote
BY RemoteFacts DEF SetCnt, TypeOK

\* Every step keeps all eight status bits truthful.
LEMMA NextStatus == TypeOK /\ StatusTruthful /\ [Next]_vars => StatusTruthful'
<1> SUFFICES ASSUME TypeOK, StatusTruthful, [Next]_vars, NEW r \in Cpu
             PROVE  StatusOk(cnt'[r], cnt'[Remote(r)], size'[r])
  BY DEF StatusTruthful, StatusOk
<1> USE RemoteFacts, DepthAssumption
<1>0. /\ size \in [Cpu -> 0 .. Depth] /\ cnt \in [Cpu -> SUBSET Bit]
      /\ \A q \in Cpu : StatusOk(cnt[q], cnt[Remote(q)], size[q])
  BY DEF TypeOK, StatusTruthful, StatusOk
<1>1. CASE UNCHANGED <<size, cnt>>
  BY <1>0, <1>1
<1>2. ASSUME NEW p \in Cpu, Fail(p)
      PROVE  StatusOk(cnt'[r], cnt'[Remote(r)], size'[r])
  <2>1. size' = size /\ cnt' = [cnt EXCEPT ![p] = @ \union {"FIFOERROR"}]
    BY <1>2 DEF Fail, ring
  <2> QED
    BY <1>0, <2>1 DEF StatusOk
<1>3. ASSUME NEW p \in Cpu, NEW w \in Word, SendWord(p, w)
      PROVE  StatusOk(cnt'[r], cnt'[Remote(r)], size'[r])
  <2> DEFINE full == IF size[p] + 1 = Depth THEN {"SENDFULL"} ELSE {}
             fullR == IF size[p] + 1 = Depth THEN {"RECVFULL"} ELSE {}
  <2>1. /\ size' = [size EXCEPT ![p] = @ + 1]
        /\ size[p] < Depth
        /\ cnt'[p] = (cnt[p] \ {"SENDEMPTY", "SENDFULL", "FIFOERROR"}) \union full
        /\ cnt'[Remote(p)] =
              (cnt[Remote(p)] \ {"RECVEMPTY", "RECVFULL", "FIFOERROR"}) \union fullR
    BY <1>3, SetCntFacts DEF SendWord
  <2>2. StatusOk(cnt'[p], cnt'[Remote(p)], size'[p])
    BY <1>0, <2>1 DEF StatusOk
  <2>3. StatusOk(cnt'[Remote(p)], cnt'[p], size'[Remote(p)])
    BY <1>0, <2>1 DEF StatusOk
  <2> QED
    BY <2>2, <2>3, Pair
<1>4. ASSUME NEW p \in Cpu, RecvWord(p)
      PROVE  StatusOk(cnt'[r], cnt'[Remote(r)], size'[r])
  <2> DEFINE q == Remote(p)
             drained == size[q] = 1
  <2>1. /\ size' = [size EXCEPT ![q] = @ - 1]
        /\ size[q] > 0
        /\ cnt'[p] = (cnt[p] \ {"RECVEMPTY", "RECVFULL", "FIFOERROR"})
                         \union (IF drained THEN {"RECVEMPTY"} ELSE {})
        /\ cnt'[q] = (cnt[q] \ {"SENDEMPTY", "SENDFULL", "FIFOERROR"})
                         \union (IF drained THEN {"SENDEMPTY"} ELSE {})
    BY <1>4, SetCntFacts DEF RecvWord
  <2>2. StatusOk(cnt'[q], cnt'[p], size'[q])
    BY <1>0, <2>1 DEF StatusOk
  <2>3. StatusOk(cnt'[p], cnt'[q], size'[p])
    BY <1>0, <2>1 DEF StatusOk
  <2> QED
    BY <2>2, <2>3, Pair
<1>5. ASSUME NEW p \in Cpu, NEW val \in CntValue, WriteCnt(p, val)
      PROVE  StatusOk(cnt'[r], cnt'[Remote(r)], size'[r])
  <2>1. cnt'[p] = CntLocal(p, val) /\ cnt'[Remote(p)] = CntRemote(p, val)
    BY <1>5, SetCntFacts DEF WriteCnt
  <2>2. size' = IF "SENDCLEAR" \in val THEN [size EXCEPT ![p] = 0] ELSE size
    BY <1>5, Zenon DEF WriteCnt, ClearRing
  <2>3. StatusOk(cnt'[p], cnt'[Remote(p)], size'[p])
    BY <1>0, <2>1, <2>2 DEF StatusOk, CntLocal, CntRemote, Writeable
  <2>4. StatusOk(cnt'[Remote(p)], cnt'[p], size'[Remote(p)])
    BY <1>0, <2>1, <2>2 DEF StatusOk, CntLocal, CntRemote, Writeable
  <2> QED
    BY <2>3, <2>4, Pair
<1>6. CASE Reset
  BY <1>6 DEF Reset, StatusOk
<1> QED
  BY <1>1, <1>2, <1>3, <1>4, <1>5, <1>6
     DEF Next, vars, ring, SendOverflow, RecvDisabled, RecvUnderflow, AckIrq

\* The inductive invariant: types, counters and status bits together.
LEMMA InvariantHolds == Spec => []IInv
<1>1. IInv /\ [Next]_vars => IInv'
  BY NextTypeOK, NextRing, NextStatus DEF IInv
<1> QED
  BY InitIInv, <1>1, PTL DEF Spec

\* Head, tail and size of both rings never drift apart.
THEOREM RingCorrect == Spec => []RingConsistent
BY InvariantHolds, PTL DEF IInv

\* The status bits both CPUs poll always tell the truth.
THEOREM StatusCorrect == Spec => []StatusTruthful
BY InvariantHolds, PTL DEF IInv
--------------------------------------------------------------------------------
\* Given the invariant, a step that makes an enabled condition true sets its bit.
LEMMA StepEdge ==
  ASSUME IInv, IInv', [Next]_vars, NEW r \in Cpu, NEW i \in Level(r)', i \notin Level(r)
  PROVE  i \in IF_bits'[r]
<1> USE RemoteFacts
<1>0. /\ size \in [Cpu -> 0 .. Depth] /\ cnt \in [Cpu -> SUBSET Bit]
      /\ IF_bits \in [Cpu -> SUBSET Irq]
      /\ \A q \in Cpu : StatusOk(cnt[q], cnt[Remote(q)], size[q])
      /\ \A q \in Cpu : StatusOk(cnt'[q], cnt'[Remote(q)], size'[q])
      /\ size' \in [Cpu -> 0 .. Depth]
  BY DEF IInv, TypeOK, StatusTruthful, StatusOk
<1>a. \/ /\ i = "IPCFIFO_SENDEMPTY"
         /\ "SENDIRQEN" \in cnt'[r] /\ size'[r] = 0
         /\ ~("SENDIRQEN" \in cnt[r] /\ size[r] = 0)
      \/ /\ i = "IPCFIFO_RECVNONEMPTY"
         /\ "RECVIRQEN" \in cnt'[r] /\ size'[Remote(r)] > 0
         /\ ~("RECVIRQEN" \in cnt[r] /\ size[Remote(r)] > 0)
  BY DEF Level, Irq
<1>1. ASSUME UNCHANGED size, NEW p \in Cpu, cnt' = [cnt EXCEPT ![p] = @ \union {"FIFOERROR"}]
      PROVE  FALSE
  BY <1>0, <1>a, <1>1
<1>2. ASSUME UNCHANGED <<size, cnt>>
      PROVE  FALSE
  BY <1>0, <1>a, <1>2
<1>3. ASSUME NEW p \in Cpu, NEW w \in Word, SendWord(p, w)
      PROVE  i \in IF_bits'[r]
  <2> DEFINE q == Remote(p)
  <2>1. /\ size' = [size EXCEPT ![p] = @ + 1]
        /\ "SENDIRQEN" \in cnt'[p] <=> "SENDIRQEN" \in cnt[p]
        /\ "SENDIRQEN" \in cnt'[q] <=> "SENDIRQEN" \in cnt[q]
        /\ "RECVIRQEN" \in cnt'[p] <=> "RECVIRQEN" \in cnt[p]
        /\ "RECVIRQEN" \in cnt'[q] <=> "RECVIRQEN" \in cnt[q]
    BY <1>3, SetCntFacts DEF SendWord, IInv
  <2>2. "RECVIRQEN" \in cnt[q] => "IPCFIFO_RECVNONEMPTY" \in IF_bits'[q]
    BY <1>0, <1>3 DEF SendWord, MakeIrq
  <2>3. r = q /\ i = "IPCFIFO_RECVNONEMPTY"
    BY <1>0, <1>a, <2>1, Pair
  <2> QED
    BY <1>a, <2>1, <2>2, <2>3
<1>4. ASSUME NEW p \in Cpu, RecvWord(p)
      PROVE  i \in IF_bits'[r]
  <2> DEFINE q == Remote(p)
  <2>1. /\ size' = [size EXCEPT ![q] = @ - 1]
        /\ "SENDIRQEN" \in cnt'[p] <=> "SENDIRQEN" \in cnt[p]
        /\ "SENDIRQEN" \in cnt'[q] <=> "SENDIRQEN" \in cnt[q]
        /\ "RECVIRQEN" \in cnt'[p] <=> "RECVIRQEN" \in cnt[p]
        /\ "RECVIRQEN" \in cnt'[q] <=> "RECVIRQEN" \in cnt[q]
    BY <1>4, SetCntFacts DEF RecvWord, IInv
  <2>2. size[q] = 1 /\ "SENDIRQEN" \in cnt[q] => "IPCFIFO_SENDEMPTY" \in IF_bits'[q]
    BY <1>0, <1>4 DEF RecvWord, MakeIrq
  <2>3. r = q /\ i = "IPCFIFO_SENDEMPTY" /\ size[q] = 1
    BY <1>0, <1>a, <2>1, Pair
  <2> QED
    BY <1>a, <2>1, <2>2, <2>3
<1>5. ASSUME NEW p \in Cpu, NEW val \in CntValue, WriteCnt(p, val)
      PROVE  i \in IF_bits'[r]
  <2>1. cnt'[p] = CntLocal(p, val) /\ cnt'[Remote(p)] = CntRemote(p, val)
    BY <1>5, SetCntFacts DEF WriteCnt, IInv
  <2>2. size' = IF "SENDCLEAR" \in val THEN [size EXCEPT ![p] = 0] ELSE size
    BY <1>5, Zenon DEF WriteCnt, ClearRing
  <2>3. IF_bits'[p] = IF_bits[p] \union DueIrq(cnt'[p])
    BY <1>0, <1>5, <2>1 DEF WriteCnt, MakeIrq
  <2>4. \A f \in {"SENDIRQEN", "RECVIRQEN"} : f \in cnt'[Remote(p)] <=> f \in cnt[Remote(p)]
    BY <2>1 DEF CntRemote
  <2>5. r = p
    <3>1. CASE r = Remote(p)
      BY <1>0, <1>a, <2>2, <2>4, <3>1
    <3> QED
      BY <3>1, Pair
  <2>6. i \in DueIrq(cnt'[p])
    BY <1>0, <1>a, <2>5 DEF DueIrq, StatusOk, Irq
  <2> QED
    BY <2>3, <2>5, <2>6
<1>6. CASE Reset
  BY <1>6, <1>a DEF Reset
<1> QED
  BY <1>1, <1>2, <1>3, <1>4, <1>5, <1>6
     DEF Next, vars, ring, SendOverflow, RecvDisabled, RecvUnderflow, AckIrq, Fail

\* No interrupt edge is ever lost: a CPU halted until its IPC interrupt wakes.
THEOREM EdgesKept == Spec => NoLostEdge
<1>1. IInv /\ IInv' /\ [Next]_vars => [\A p \in Cpu : Level(p)' \ Level(p) \subseteq IF_bits'[p]]_vars
  BY StepEdge
<1> QED
  BY <1>1, InvariantHolds, PTL DEF Spec, NoLostEdge
--------------------------------------------------------------------------------
\* The words of a ring held at head h with n words: Contents as an operator of
\* the ring's parts, so that it can be compared before and after a step.
Words(b, h, n) ==
  [i \in 1 .. n |-> b[IF h + i - 1 < Depth THEN h + i - 1 ELSE h + i - 1 - Depth]]

\* Writing at the tail of a ring with room appends the word.
LEMMA PushAppends ==
  ASSUME NEW b \in [Slot -> Word \union {NoWord}], NEW w \in Word,
         NEW h \in Slot, NEW t \in Slot, NEW n \in 0 .. Depth, n < Depth, RingOk(h, t, n)
  PROVE  /\ Words(b, h, n) \in Seq(Word \union {NoWord})
         /\ Len(Words(b, h, n)) = n
         /\ Words([b EXCEPT ![t] = w], h, n + 1) = Append(Words(b, h, n), w)
<1> USE DepthAssumption DEF Slot
<1>1. \A i \in 1 .. n + 1 :
        (IF h + i - 1 < Depth THEN h + i - 1 ELSE h + i - 1 - Depth) \in Slot
  OBVIOUS
<1>2. Words(b, h, n) \in Seq(Word \union {NoWord}) /\ Len(Words(b, h, n)) = n
  BY <1>1 DEF Words
<1>3. Words([b EXCEPT ![t] = w], h, n + 1) \in Seq(Word \union {NoWord})
  BY <1>1 DEF Words
<1>4. Len(Words([b EXCEPT ![t] = w], h, n + 1)) = n + 1
  BY <1>1 DEF Words
<1>5. \A i \in 1 .. n + 1 : Words([b EXCEPT ![t] = w], h, n + 1)[i] = Append(Words(b, h, n), w)[i]
  BY <1>1, <1>2 DEF Words, RingOk
<1>6. /\ Append(Words(b, h, n), w) \in Seq(Word \union {NoWord})
      /\ Len(Append(Words(b, h, n), w)) = n + 1
  BY <1>2
<1>7. Words([b EXCEPT ![t] = w], h, n + 1) = Append(Words(b, h, n), w)
  BY <1>3, <1>4, <1>5, <1>6, SeqEqual
<1> QED
  BY <1>2, <1>7

\* Reading at the head of a ring that is not empty takes its oldest word.
LEMMA PopTakesHead ==
  ASSUME NEW b \in [Slot -> Word \union {NoWord}],
         NEW h \in Slot, NEW n \in 1 .. Depth
  PROVE  /\ Words(b, h, n) \in Seq(Word \union {NoWord})
         /\ Words(b, h, n) # <<>>
         /\ Head(Words(b, h, n)) = b[h]
         /\ Words(b, Advance(h), n - 1) = Tail(Words(b, h, n))
<1> USE DepthAssumption DEF Slot
<1>1. \A i \in 1 .. n :
        (IF h + i - 1 < Depth THEN h + i - 1 ELSE h + i - 1 - Depth) \in Slot
  OBVIOUS
<1>2. /\ Words(b, h, n) \in Seq(Word \union {NoWord}) /\ Len(Words(b, h, n)) = n
      /\ Words(b, h, n)[1] = b[h]
  BY <1>1 DEF Words
<1>3. Advance(h) \in Slot
  BY AdvanceFacts
<1>4. /\ Words(b, Advance(h), n - 1) \in Seq(Word \union {NoWord})
      /\ Len(Words(b, Advance(h), n - 1)) = n - 1
  BY <1>3 DEF Words
<1>5. \A i \in 1 .. n - 1 : Words(b, Advance(h), n - 1)[i] = Words(b, h, n)[i + 1]
  BY <1>1 DEF Words, Advance
<1> QED
  BY <1>2, <1>4, <1>5
\* The channel contents and the enable flags the rings stand for.
Chan == [p \in Cpu |-> Contents(p)]
On == {p \in Cpu : "FIFOENABLE" \in cnt[p]}

\* Contents is Words of the ring's parts.
LEMMA ContentsWords == \A p \in Cpu : Contents(p) = Words(buf[p], head[p], size[p])
BY DEF Contents, Words

\* A step that edits the registers of both CPUs in their status bits alone
\* leaves the enable flags as they were.
LEMMA OnKept ==
  ASSUME TypeOK, NEW p \in Cpu, NEW local, NEW remote, SetCnt(p, local, remote),
         "FIFOENABLE" \in local <=> "FIFOENABLE" \in cnt[p],
         "FIFOENABLE" \in remote <=> "FIFOENABLE" \in cnt[Remote(p)]
  PROVE  On' = On
<1>1. \A q \in Cpu : "FIFOENABLE" \in cnt'[q] <=> "FIFOENABLE" \in cnt[q]
  BY SetCntFacts, Pair, RemoteFacts
<1> QED
  BY <1>1 DEF On

\* Every step of the rings is a step of the channels or leaves them unchanged.
LEMMA StepRefines == IInv /\ IInv' /\ [Next]_vars => [Channel!Next]_(Channel!vars)
<1> SUFFICES ASSUME IInv, IInv', [Next]_vars PROVE Channel!Next \/ UNCHANGED <<Chan, On, ret>>
  BY DEF Channel!vars, Chan, On
<1> USE RemoteFacts, DepthAssumption
<1>0. /\ TypeOK /\ TypeOK'
      /\ \A q \in Cpu : RingOk(head[q], tail[q], size[q])
  BY DEF IInv, RingConsistent, RingOk
<1>a. \A q \in Cpu : Chan[q] = Words(buf[q], head[q], size[q])
                      /\ Chan'[q] = Words(buf'[q], head'[q], size'[q])
  BY DEF Chan, Contents, Words
<1>1. ASSUME NEW p \in Cpu, Fail(p)
      PROVE  UNCHANGED <<Chan, On>>
  <2>1. UNCHANGED Chan
    BY <1>1 DEF Fail, ring, Chan, Contents
  <2>2. \A q \in Cpu : "FIFOENABLE" \in cnt'[q] <=> "FIFOENABLE" \in cnt[q]
    BY <1>0, <1>1 DEF Fail, TypeOK
  <2> QED
    BY <2>1, <2>2 DEF On
<1>2. ASSUME NEW p \in Cpu, SendOverflow(p) PROVE UNCHANGED <<Chan, On, ret>>
  BY <1>1, <1>2 DEF SendOverflow
<1>3. ASSUME NEW p \in Cpu, NEW w \in Word, SendWord(p, w) PROVE Channel!Put(p, w)
  <2>1. On' = On /\ p \in On
    <3> DEFINE local == (cnt[p] \ {"SENDEMPTY", "SENDFULL", "FIFOERROR"})
                           \union (IF size[p] + 1 = Depth THEN {"SENDFULL"} ELSE {})
               remote == (cnt[Remote(p)] \ {"RECVEMPTY", "RECVFULL", "FIFOERROR"})
                           \union (IF size[p] + 1 = Depth THEN {"RECVFULL"} ELSE {})
    <3>1. SetCnt(p, local, remote) /\ "FIFOENABLE" \in cnt[p]
      BY <1>3, Zenon DEF SendWord
    <3>2. /\ "FIFOENABLE" \in local <=> "FIFOENABLE" \in cnt[p]
          /\ "FIFOENABLE" \in remote <=> "FIFOENABLE" \in cnt[Remote(p)]
      OBVIOUS
    <3> HIDE DEF local, remote
    <3> QED
      BY <1>0, <3>1, <3>2, OnKept DEF On
  <2>2. /\ buf' = [buf EXCEPT ![p][tail[p]] = w] /\ head' = head
        /\ size' = [size EXCEPT ![p] = @ + 1] /\ size[p] < Depth /\ ret' = ret
    BY <1>3 DEF SendWord
  <2>3. Len(Chan[p]) = size[p] /\ Chan'[p] = Append(Chan[p], w)
    <3>1. /\ buf[p] \in [Slot -> Word \union {NoWord}] /\ head[p] \in Slot
          /\ tail[p] \in Slot /\ size[p] \in 0 .. Depth
      BY <1>0 DEF TypeOK
    <3>2. /\ buf'[p] = [buf[p] EXCEPT ![tail[p]] = w] /\ head'[p] = head[p]
          /\ size'[p] = size[p] + 1
      BY <1>0, <2>2 DEF TypeOK
    <3> QED
      <4>1. /\ Chan[p] = Words(buf[p], head[p], size[p])
            /\ Chan'[p] = Words([buf[p] EXCEPT ![tail[p]] = w], head[p], size[p] + 1)
        BY <1>a, <3>2
      <4>2. RingOk(head[p], tail[p], size[p]) /\ size[p] < Depth
        BY <1>0, <2>2
      <4>3. /\ Len(Words(buf[p], head[p], size[p])) = size[p]
            /\ Words([buf[p] EXCEPT ![tail[p]] = w], head[p], size[p] + 1)
                 = Append(Words(buf[p], head[p], size[p]), w)
        BY <3>1, <4>2, PushAppends
      <4> QED
        BY <4>1, <4>3, Zenon
  <2>4. \A q \in Cpu : q # p => Chan'[q] = Chan[q]
    BY <1>0, <1>a, <2>2 DEF TypeOK
  <2>5. Chan' = [Chan EXCEPT ![p] = Append(@, w)]
    BY <2>3, <2>4 DEF Chan
  <2> QED
    BY <2>1, <2>2, <2>3, <2>5 DEF Channel!Put, Chan, On
<1>4. ASSUME NEW p \in Cpu, RecvDisabled(p) PROVE Channel!ReadNothing(p)
  BY <1>4 DEF RecvDisabled, ring, Channel!ReadNothing, Channel!Remote, Remote, Contents
<1>5. ASSUME NEW p \in Cpu, RecvUnderflow(p) PROVE Channel!ReadNothing(p)
  <2>1. Contents(Remote(p)) = <<>>
    BY <1>5 DEF RecvUnderflow, Contents
  <2>2. UNCHANGED <<Chan, On>> /\ ret' = [ret EXCEPT ![p] = NoWord]
    BY <1>1, <1>5 DEF RecvUnderflow
  <2> QED
    BY <2>1, <2>2 DEF Channel!ReadNothing, Channel!Remote, Remote, Chan, On
<1>6. ASSUME NEW p \in Cpu, RecvWord(p) PROVE Channel!Take(p)
  <2> DEFINE q == Remote(p)
  <2>1. On' = On /\ p \in On
    <3> DEFINE local == (cnt[p] \ {"RECVEMPTY", "RECVFULL", "FIFOERROR"})
                           \union (IF size[q] = 1 THEN {"RECVEMPTY"} ELSE {})
               remote == (cnt[q] \ {"SENDEMPTY", "SENDFULL", "FIFOERROR"})
                           \union (IF size[q] = 1 THEN {"SENDEMPTY"} ELSE {})
    <3>1. SetCnt(p, local, remote) /\ "FIFOENABLE" \in cnt[p]
      BY <1>6, Zenon DEF RecvWord
    <3>2. /\ "FIFOENABLE" \in local <=> "FIFOENABLE" \in cnt[p]
          /\ "FIFOENABLE" \in remote <=> "FIFOENABLE" \in cnt[q]
      OBVIOUS
    <3> HIDE DEF local, remote
    <3> QED
      BY <1>0, <3>1, <3>2, OnKept DEF On
  <2>2. /\ head' = [head EXCEPT ![q] = Advance(@)] /\ buf' = buf
        /\ size' = [size EXCEPT ![q] = @ - 1] /\ size[q] > 0
        /\ ret' = [ret EXCEPT ![p] = buf[q][head[q]]]
    BY <1>6 DEF RecvWord
  <2>3. Chan[q] # <<>> /\ Head(Chan[q]) = buf[q][head[q]] /\ Chan'[q] = Tail(Chan[q])
    <3>1. /\ buf[q] \in [Slot -> Word \union {NoWord}] /\ head[q] \in Slot
          /\ size[q] \in 1 .. Depth
      BY <1>0, <2>2 DEF TypeOK
    <3>2. buf'[q] = buf[q] /\ head'[q] = Advance(head[q]) /\ size'[q] = size[q] - 1
      BY <1>0, <2>2 DEF TypeOK
    <3> QED
      <4>1. /\ Chan[q] = Words(buf[q], head[q], size[q])
            /\ Chan'[q] = Words(buf[q], Advance(head[q]), size[q] - 1)
        BY <1>a, <3>2
      <4>2. /\ Words(buf[q], head[q], size[q]) # <<>>
            /\ Head(Words(buf[q], head[q], size[q])) = buf[q][head[q]]
            /\ Words(buf[q], Advance(head[q]), size[q] - 1)
                 = Tail(Words(buf[q], head[q], size[q]))
        BY <3>1, PopTakesHead
      <4> QED
        BY <4>1, <4>2, Zenon
  <2>4. \A r \in Cpu : r # q => Chan'[r] = Chan[r]
    BY <1>0, <1>a, <2>2 DEF TypeOK
  <2>5. Chan' = [Chan EXCEPT ![q] = Tail(@)]
    BY <2>3, <2>4 DEF Chan
  <2> QED
    BY <2>1, <2>2, <2>3, <2>5 DEF Channel!Take, Channel!Remote, Remote, Chan, On
<1>7. ASSUME NEW p \in Cpu, NEW val \in CntValue, WriteCnt(p, val) PROVE Channel!Control(p)
  <2>1. cnt'[p] = CntLocal(p, val) /\ cnt'[Remote(p)] = CntRemote(p, val) /\ ret' = ret
    BY <1>0, <1>7, SetCntFacts DEF WriteCnt
  <2>2. "FIFOENABLE" \in cnt'[Remote(p)] <=> "FIFOENABLE" \in cnt[Remote(p)]
    BY <2>1 DEF CntRemote
  <2>3. On' \in {On \union {p}, On \ {p}}
    BY <2>2, Pair DEF On
  <2>5. Chan' = Chan \/ Chan' = [Chan EXCEPT ![p] = <<>>]
    <3>1. CASE "SENDCLEAR" \in val
      <4>1. buf' = buf /\ head' = [head EXCEPT ![p] = 0] /\ size' = [size EXCEPT ![p] = 0]
        BY <1>7, <3>1, Zenon DEF WriteCnt, ClearRing
      <4>2. Chan'[p] = <<>>
        <5>1. size'[p] = 0
          BY <1>0, <4>1 DEF TypeOK
        <5> QED
          BY <5>1 DEF Chan, Contents
      <4>3. \A q \in Cpu : q # p => Chan'[q] = Chan[q]
        BY <1>0, <1>a, <4>1 DEF TypeOK
      <4> QED
        BY <4>2, <4>3 DEF Chan
    <3>2. CASE "SENDCLEAR" \notin val
      <4>1. UNCHANGED <<buf, head, size>>
        BY <1>7, <3>2, Zenon DEF WriteCnt, ClearRing
      <4> QED
        BY <4>1 DEF Chan, Contents
    <3> QED
      BY <3>1, <3>2, Zenon
  <2> QED
    BY <2>1, <2>3, <2>5 DEF Channel!Control, Chan, On
<1>8. ASSUME NEW p \in Cpu, NEW i \in Irq, AckIrq(p, i) PROVE UNCHANGED <<Chan, On, ret>>
  BY <1>8 DEF AckIrq, ring, Chan, On, Contents
<1>9. CASE Reset
  <2>1. \A p \in Cpu : size'[p] = 0 /\ "FIFOENABLE" \notin cnt'[p] /\ ret' = ret
    BY <1>9 DEF Reset
  <2>2. Chan' = [p \in Cpu |-> <<>>]
    BY <2>1 DEF Chan, Contents
  <2>3. Channel!Restart
    BY <1>9, <2>1, <2>2 DEF Channel!Restart, Channel!Cpu, Cpu, Chan, Reset
  <2> QED
    BY <2>3 DEF Channel!Next
<1>10. CASE UNCHANGED vars
  BY <1>10 DEF vars, Chan, On, Contents
<1>11. Channel!Cpu = Cpu
  BY DEF Channel!Cpu, Cpu
<1> QED
  BY <1>2, <1>3, <1>4, <1>5, <1>6, <1>7, <1>8, <1>9, <1>10, <1>11 DEF Next, Channel!Next

\* The rings implement the channels: no word is lost, repeated or reordered.
THEOREM Refinement == Spec => ImplementsChannel
<1>1. Init => Channel!Init
  <2>1. Init => Chan = [p \in Cpu |-> <<>>]
    BY DEF Init, Chan, Contents
  <2> QED
    BY <2>1 DEF Init, Channel!Init, Channel!Cpu, Cpu, Chan
<1> QED
  BY <1>1, StepRefines, InvariantHolds, PTL DEF Spec, ImplementsChannel, Channel!Spec

\* Counters and status bits of both rings together are right at every moment (FIFO.cpp).
THEOREM RingsCorrect == Spec => []RingsTruthful
<1>1. TypeOK /\ RingConsistent /\ StatusTruthful => RingsTruthful
  BY DEF RingsTruthful
<1> QED
  BY <1>1, TypeCorrect, RingCorrect, StatusCorrect, PTL
================================================================================
