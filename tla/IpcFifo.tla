-------------------------------- MODULE IpcFifo --------------------------------
(***************************************************************************)
(* The two IPC FIFOs between the ARM9 and the ARM7 (src/jni/FIFO.cpp).     *)
(* Each CPU owns one ring of Depth words that it writes and the other CPU  *)
(* reads.  The register IPCFIFOCNT of a CPU is kept as the set of its bits *)
(* that are 1, under their names in registers.h; `cnt & 0xBFFC' is then a  *)
(* set difference.  IF is the part of reg_IF_bits the FIFOs can raise.     *)
(***************************************************************************)
EXTENDS Naturals, Sequences, TLC

CONSTANTS ARM9, ARM7,   \* the two CPUs
          Word,         \* the values a CPU may send
          NoWord,       \* the 0 an unsuccessful read returns
          Depth,        \* words per ring: 16 in the code
          CntValue      \* values written to IPCFIFOCNT, as sets of bits

Cpu == {ARM9, ARM7}
Symmetry == Permutations(Word) \union Permutations(Cpu)
Remote(p) == IF p = ARM9 THEN ARM7 ELSE ARM9

Writeable == {"SENDIRQEN", "RECVIRQEN", "FIFOENABLE"}
Status == {"SENDEMPTY", "SENDFULL", "RECVEMPTY", "RECVFULL", "FIFOERROR"}
Bit == Writeable \union Status
Irq == {"IPCFIFO_SENDEMPTY", "IPCFIFO_RECVNONEMPTY"}
Slot == 0 .. Depth - 1

ASSUME CpuAssumption == ARM9 # ARM7
ASSUME DepthAssumption == Depth \in Nat /\ Depth > 0
ASSUME CntAssumption == CntValue \subseteq SUBSET (Bit \union {"SENDCLEAR"})

VARIABLES buf, head, tail, size,  \* ipc_fifo[p]
          cnt,                    \* IPCFIFOCNT of p
          IF_bits,                \* reg_IF_bits[p], the FIFO's two bits
          ret                     \* what IPC_FIFOrecv last returned to p

ring == <<buf, head, tail, size>>
vars == <<buf, head, tail, size, cnt, IF_bits, ret>>

TypeOK ==
  /\ buf \in [Cpu -> [Slot -> Word \union {NoWord}]]
  /\ head \in [Cpu -> Slot]
  /\ tail \in [Cpu -> Slot]
  /\ size \in [Cpu -> 0 .. Depth]
  /\ cnt \in [Cpu -> SUBSET Bit]
  /\ IF_bits \in [Cpu -> SUBSET Irq]
  /\ ret \in [Cpu -> Word \union {NoWord}]

Init ==
  /\ buf = [p \in Cpu |-> [s \in Slot |-> NoWord]]
  /\ head = [p \in Cpu |-> 0]
  /\ tail = [p \in Cpu |-> 0]
  /\ size = [p \in Cpu |-> 0]
  /\ cnt = [p \in Cpu |-> {"SENDEMPTY", "RECVEMPTY"}]
  /\ IF_bits = [p \in Cpu |-> {}]
  /\ ret = [p \in Cpu |-> NoWord]

\* head++ and tail++ with their wrap: `if (tail > 15) tail = 0'
AdvanceNoWrap(s) == s + 1   \* mutant: the wrap forgotten
Advance(s) == IF s + 1 = Depth THEN 0 ELSE s + 1

\* what both CPUs' IPCFIFOCNT become when p reports local and its peer remote
SetCnt(p, local, remote) == cnt' = [cnt EXCEPT ![p] = local, ![Remote(p)] = remote]

MakeIrq(p, irqs) == IF_bits' = [IF_bits EXCEPT ![p] = @ \union irqs]

Fail(p) ==
  /\ cnt' = [cnt EXCEPT ![p] = @ \union {"FIFOERROR"}]
  /\ UNCHANGED <<ring, IF_bits>>

--------------------------------------------------------------------------------
SendOverflow(p) ==
  /\ "FIFOENABLE" \in cnt[p]
  /\ size[p] = Depth
  /\ Fail(p)
  /\ UNCHANGED ret

SendWord(p, w) ==
  LET full == IF size[p] + 1 = Depth THEN {"SENDFULL"} ELSE {}
      fullR == IF size[p] + 1 = Depth THEN {"RECVFULL"} ELSE {}
  IN /\ "FIFOENABLE" \in cnt[p]
     /\ size[p] < Depth
     /\ buf' = [buf EXCEPT ![p][tail[p]] = w]
     /\ tail' = [tail EXCEPT ![p] = Advance(@)]
     /\ size' = [size EXCEPT ![p] = @ + 1]
     /\ SetCnt(p,
          (cnt[p] \ {"SENDEMPTY", "SENDFULL", "FIFOERROR"}) \union full,
          (cnt[Remote(p)] \ {"RECVEMPTY", "RECVFULL", "FIFOERROR"}) \union fullR)
     /\ MakeIrq(Remote(p), IF "RECVIRQEN" \in cnt[Remote(p)]
                           THEN {"IPCFIFO_RECVNONEMPTY"} ELSE {})
     /\ UNCHANGED <<head, ret>>

\* IPC_FIFOrecv by p: it reads the ring of Remote(p)
RecvDisabled(p) ==
  /\ "FIFOENABLE" \notin cnt[p]
  /\ ret' = [ret EXCEPT ![p] = NoWord]
  /\ UNCHANGED <<ring, cnt, IF_bits>>

RecvUnderflow(p) ==
  /\ "FIFOENABLE" \in cnt[p]
  /\ size[Remote(p)] = 0
  /\ Fail(p)
  /\ ret' = [ret EXCEPT ![p] = NoWord]

RecvWord(p) ==
  LET q == Remote(p)
      drained == size[q] = 1
  IN /\ "FIFOENABLE" \in cnt[p]
     /\ size[q] > 0
     /\ ret' = [ret EXCEPT ![p] = buf[q][head[q]]]
     /\ head' = [head EXCEPT ![q] = Advance(@)]
     /\ size' = [size EXCEPT ![q] = @ - 1]
     /\ SetCnt(p,
          (cnt[p] \ {"RECVEMPTY", "RECVFULL", "FIFOERROR"})
             \union (IF drained THEN {"RECVEMPTY"} ELSE {}),
          (cnt[q] \ {"SENDEMPTY", "SENDFULL", "FIFOERROR"})
             \union (IF drained THEN {"SENDEMPTY"} ELSE {}))
     /\ MakeIrq(q, IF drained /\ "SENDIRQEN" \in cnt[q]
                   THEN {"IPCFIFO_SENDEMPTY"} ELSE {})
     /\ UNCHANGED <<buf, tail>>

\* IPC_FIFOcnt: p writes val to its IPCFIFOCNT
\* mutant: SENDCLEAR empties the ring but leaves its head where it was
ClearRingKeepHead(p, val) ==
  /\ UNCHANGED <<buf, head>>
  /\ IF "SENDCLEAR" \in val
     THEN /\ tail' = [tail EXCEPT ![p] = 0]
          /\ size' = [size EXCEPT ![p] = 0]
     ELSE UNCHANGED <<tail, size>>

ClearRing(p, val) ==
  /\ buf' = buf
  /\ IF "SENDCLEAR" \in val
     THEN /\ head' = [head EXCEPT ![p] = 0]
          /\ tail' = [tail EXCEPT ![p] = 0]
          /\ size' = [size EXCEPT ![p] = 0]
     ELSE UNCHANGED <<head, tail, size>>

CntLocal(p, val) ==
  LET acked == cnt[p] \ (val \intersect {"FIFOERROR"})
      cleared == IF "SENDCLEAR" \in val
                 THEN (acked \ {"SENDFULL"}) \union {"SENDEMPTY"} ELSE acked
  IN (cleared \ Writeable) \union (val \intersect Writeable)

CntRemoteStale(p, val) == cnt[Remote(p)]   \* mutant: the peer is not told

CntRemote(p, val) ==
  IF "SENDCLEAR" \in val
  THEN (cnt[Remote(p)] \ {"RECVFULL"}) \union {"RECVEMPTY"} ELSE cnt[Remote(p)]

DueIrqNone(local) == {}   \* mutant: the state of the code before r4326

\* the interrupts a freshly written control value makes due at once
DueIrq(local) ==
  {i \in Irq :
     \/ i = "IPCFIFO_SENDEMPTY" /\ {"SENDIRQEN", "SENDEMPTY"} \subseteq local
     \/ i = "IPCFIFO_RECVNONEMPTY" /\ "RECVIRQEN" \in local /\ "RECVEMPTY" \notin local}

WriteCnt(p, val) ==
  /\ ClearRing(p, val)
  /\ SetCnt(p, CntLocal(p, val), CntRemote(p, val))
  /\ MakeIrq(p, DueIrq(CntLocal(p, val)))
  /\ UNCHANGED ret

\* REG_IF_WriteByte: writing 1 to a bit of IF acknowledges it
AckIrq(p, i) ==
  /\ i \in IF_bits[p]
  /\ IF_bits' = [IF_bits EXCEPT ![p] = @ \ {i}]
  /\ UNCHANGED <<ring, cnt, ret>>

\* MMU_Reset: both IPC_FIFOinit, and reg_IF_bits zeroed
Reset ==
  /\ buf' = [p \in Cpu |-> [s \in Slot |-> NoWord]]
  /\ head' = [p \in Cpu |-> 0]
  /\ tail' = [p \in Cpu |-> 0]
  /\ size' = [p \in Cpu |-> 0]
  /\ cnt' = [p \in Cpu |-> {"SENDEMPTY", "RECVEMPTY"}]
  /\ IF_bits' = [p \in Cpu |-> {}]
  /\ UNCHANGED ret

Next ==
  \/ \E p \in Cpu :
       \/ SendOverflow(p)
       \/ \E w \in Word : SendWord(p, w)
       \/ RecvDisabled(p) \/ RecvUnderflow(p) \/ RecvWord(p)
       \/ \E val \in CntValue : WriteCnt(p, val)
       \/ \E i \in Irq : AckIrq(p, i)
  \/ Reset

Spec == Init /\ [][Next]_vars

--------------------------------------------------------------------------------
(***************************************************************************)
(* Properties                                                              *)
(***************************************************************************)
\* The tail of a ring is its head advanced by its size: the three counters the
\* code updates separately in send, recv and cnt never drift apart.
RingConsistent ==
  \A p \in Cpu : tail[p] = head[p] + size[p] \/ tail[p] + Depth = head[p] + size[p]

\* The status bits are four independent copies of one fact, held in two
\* registers and edited incrementally by three functions; on both sides they
\* always tell the truth about the ring they describe.
StatusTruthful ==
  \A p \in Cpu :
    /\ "SENDEMPTY" \in cnt[p] <=> size[p] = 0
    /\ "SENDFULL" \in cnt[p] <=> size[p] = Depth
    /\ "RECVEMPTY" \in cnt[Remote(p)] <=> size[p] = 0
    /\ "RECVFULL" \in cnt[Remote(p)] <=> size[p] = Depth

\* The rings with the status bits of both registers (FIFO.cpp): types, counters and the
\* four copies of "empty" and "full".
RingsTruthful == TypeOK /\ RingConsistent /\ StatusTruthful

\* p has an interrupt enabled whose condition holds
Level(p) ==
  {i \in Irq : CASE i = "IPCFIFO_SENDEMPTY" -> "SENDIRQEN" \in cnt[p] /\ size[p] = 0
                 [] OTHER -> "RECVIRQEN" \in cnt[p] /\ size[Remote(p)] > 0}

\* No edge is lost: whenever an enabled condition becomes true (a word arrives,
\* the ring drains, the enable bit is written late), the bit is set in IF by that
\* same step.  A CPU halted on the interrupt would otherwise sleep for ever.
NoLostEdge == [][\A p \in Cpu : Level(p)' \ Level(p) \subseteq IF_bits'[p]]_vars

\* The words of p's ring, oldest first.
Contents(p) ==
  [i \in 1 .. size[p] |->
     buf[p][IF head[p] + i - 1 < Depth THEN head[p] + i - 1 ELSE head[p] + i - 1 - Depth]]

Channel == INSTANCE IpcChannel WITH
  chan <- [p \in Cpu |-> Contents(p)],
  on <- {p \in Cpu : "FIFOENABLE" \in cnt[p]}

\* The rings with their counters behave as two bounded channels: words are
\* neither lost, repeated nor reordered, across wrap-around, clears and resets.
ImplementsChannel == Channel!Spec
================================================================================
