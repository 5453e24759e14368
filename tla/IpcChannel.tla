------------------------------- MODULE IpcChannel -------------------------------
(***************************************************************************)
(* What the IPC FIFOs promise the programs of the two CPUs: a bounded      *)
(* first-in first-out channel in each direction.  A word accepted from p   *)
(* reaches the other CPU once, in order, unless p empties its channel; a   *)
(* read that has nothing to return returns NoWord and changes nothing.     *)
(***************************************************************************)
EXTENDS Naturals, Sequences

CONSTANTS ARM9, ARM7, Word, NoWord, Depth

Cpu == {ARM9, ARM7}
Remote(p) == IF p = ARM9 THEN ARM7 ELSE ARM9

VARIABLES chan,   \* chan[p]: the words p sent and its peer has not read
          on,     \* the CPUs that have enabled their FIFOs
          ret     \* what the last read of p returned

vars == <<chan, on, ret>>

Init ==
  /\ chan = [p \in Cpu |-> <<>>]
  /\ on = {}
  /\ ret = [p \in Cpu |-> NoWord]

Put(p, w) ==
  /\ p \in on
  /\ Len(chan[p]) < Depth
  /\ chan' = [chan EXCEPT ![p] = Append(@, w)]
  /\ UNCHANGED <<on, ret>>

Take(p) ==
  /\ p \in on
  /\ chan[Remote(p)] # <<>>
  /\ ret' = [ret EXCEPT ![p] = Head(chan[Remote(p)])]
  /\ chan' = [chan EXCEPT ![Remote(p)] = Tail(@)]
  /\ UNCHANGED on

ReadNothing(p) ==
  /\ p \in on => chan[Remote(p)] = <<>>
  /\ ret' = [ret EXCEPT ![p] = NoWord]
  /\ UNCHANGED <<chan, on>>

\* p reprograms its side and may throw away the words it sent
Control(p) ==
  /\ on' \in {on \union {p}, on \ {p}}
  /\ chan' \in {chan, [chan EXCEPT ![p] = <<>>]}
  /\ UNCHANGED ret

Restart ==
  /\ chan' = [p \in Cpu |-> <<>>]
  /\ on' = {}
  /\ UNCHANGED ret

Next ==
  \/ \E p \in Cpu : (\E w \in Word : Put(p, w)) \/ Take(p) \/ ReadNothing(p) \/ Control(p)
  \/ Restart

Spec == Init /\ [][Next]_vars
================================================================================
