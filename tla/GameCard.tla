------------------------------ MODULE GameCard ------------------------------
(***************************************************************************)
(* The game card as both processors reach it: the command bytes and the    *)
(* control word in their pages, MMU_writeToGCControl and MMU_readFromGC,   *)
(* and the card itself (slot1_retail.cpp).  Addresses and sizes are in     *)
(* words.  Beside them runs what the game believes of its block.           *)
(***************************************************************************)
EXTENDS Integers

CONSTANTS CardProcs,    \* the processors that use the card
          GameCommands, \* commands the games send: op and address
          Sizes,        \* of a block: field of the control word -> words
          Block,        \* words of a data read, 0x80
          DummyBlock,   \* words of a dummy read, 0x800
          Secure,       \* first address that is read as it is
          Area,         \* what an address below it is taken modulo
          CardMask, RomSize,
          MaxControls   \* bound: writes of the control word

\* a command byte selects one of these, the card's or those that bypass it
Ops == {"read0", "read", "chipId", "dummy", "key1", "other"}

ASSUME CardAssumption ==
  /\ 0 \notin CardProcs /\ GameCommands \subseteq [op : Ops, adr : Nat]
  /\ 0 \in DOMAIN Sizes /\ \A s \in DOMAIN Sizes : Sizes[s] \in Nat
  /\ Block \in Nat /\ DummyBlock \in Nat /\ MaxControls \in Nat

VARIABLES
  card,     \* per processor: nds_dscard
  control,  \* per processor: the control word and the command bytes in its page
  auxIrq,   \* bit 14 of AUX_SPI_CNT
  block,    \* per processor: the block the game asked for, by its own account
  heard,    \* what the last step gave: a word, an interrupt, a trigger for DMA
  savedCard

cardVars == <<card, control, auxIrq, block, heard, savedCard>>

Ones == -1
Zero == [op |-> "read0", adr |-> 0]  \* a cleared command is the unencrypted data read
Nothing == [word |-> 0, by |-> 0, irq |-> FALSE, dma |-> FALSE]
NoBlock == [cmd |-> Zero, asked |-> 0, got |-> 0, told |-> TRUE, changed |-> FALSE]
Fresh == [card |-> [p \in CardProcs |-> [command |-> Zero, address |-> 0, count |-> 0, mode |-> "normal"]],
          control |-> [p \in CardProcs |-> [start |-> FALSE, ready |-> FALSE, size |-> 0, command |-> Zero]],
          aux |-> FALSE]

CardInit ==
  /\ card = Fresh.card /\ control = Fresh.control /\ auxIrq = Fresh.aux
  /\ block = [p \in CardProcs |-> NoBlock] /\ heard = Nothing
  /\ savedCard = [state |-> Fresh, block |-> block, left |-> MaxControls]

-----------------------------------------------------------------------------
(* The card *)

Redirected(op, a) == IF op = "read" /\ a < Secure THEN Secure + (a % Area) ELSE a

\* the card stands at an address, with that many words to go
Positioned(c, a, n) == [c EXCEPT !.address = a, !.count = n]

\* mutant: the redirection is applied to the block as it begins
CardCommandEarly(c) ==
  CASE c.command.op \in {"read0", "read"} ->
         Positioned(c, Redirected(c.command.op, c.command.adr), Block)
    [] c.command.op = "chipId" -> Positioned(c, 0, 1)
    [] OTHER -> Positioned(c, 0, 0)

\* Words and address of a command; the size of the control word counts for nothing here.
CardCommand(c) ==
  CASE c.command.op \in {"read0", "read"} -> Positioned(c, c.command.adr, Block)
    [] c.command.op = "chipId" -> Positioned(c, 0, 1)
    [] OTHER -> Positioned(c, 0, 0)



CardWord(c) ==
  LET a == Redirected(c.command.op, c.address % CardMask)
  IN  IF c.command.op \notin {"read0", "read"} THEN 0
      ELSE IF a >= RomSize THEN Ones ELSE a

-----------------------------------------------------------------------------
(* MMU_writeToGCControl *)

Latched(p) == [card[p] EXCEPT !.command = control[p].command]

\* What the command makes of the words the control word asks for.
Started(c, size) ==
  LET asked == [c EXCEPT !.count = Sizes[size]]
  IN  CASE c.mode = "key1" -> Positioned(asked, 0, 0)
        [] c.mode # "key1" /\ c.command.op = "dummy" -> Positioned(asked, 0, DummyBlock)
        [] c.mode # "key1" /\ c.command.op = "key1" -> [asked EXCEPT !.mode = "key1"]
        [] OTHER -> CardCommand(asked)

\* mutant: the start bit stays when there is nothing to read
WriteControlStarted(p, start, size, next) ==
  /\ card' = [card EXCEPT ![p] = next]
  /\ control' = [control EXCEPT ![p].start = start, ![p].size = size, ![p].ready = (start /\ next.count > 0)]
  /\ heard' = [Nothing EXCEPT !.dma = (start /\ next.count > 0)]

\* Without words the transfer is over before it began, and nobody is told.
WriteControl(p, start, size, next) ==
  /\ card' = [card EXCEPT ![p] = next]
  /\ control' = [control EXCEPT ![p].start = (start /\ next.count > 0), ![p].size = size,
                                ![p].ready = (start /\ next.count > 0)]
  /\ heard' = [Nothing EXCEPT !.dma = (start /\ next.count > 0)]

WriteToGCControl(p, start, size) ==
  LET c == Latched(p)
      next == IF start THEN Started(c, size) ELSE Positioned(c, 0, 0)
  IN  /\ WriteControl(p, start, size, next)
      /\ block' = [block EXCEPT ![p] = IF start THEN [cmd |-> c.command, asked |-> next.count, got |-> 0,
                                                      told |-> next.count = 0, changed |-> FALSE]
                                       ELSE NoBlock]

-----------------------------------------------------------------------------
(* MMU_readFromGC *)

\* the word at the card's address, for a command the card knows or one of the two that bypass it
ReadWord(c) == IF c.command.op \in {"dummy", "key1"} THEN Ones ELSE CardWord(c)

\* mutant: the last word is given but the transfer stays open
ReadFromGCOpen(p) ==
  LET c == card[p]
      left == c.count - 1
  IN  /\ c.count > 0
      /\ card' = [card EXCEPT ![p] = Positioned(c, c.address + 1, left)]
      /\ control' = control
      /\ heard' = [word |-> ReadWord(c), by |-> p, irq |-> left = 0 /\ auxIrq, dma |-> FALSE]
      /\ block' = [block EXCEPT ![p].got = @ + 1, ![p].told = (left = 0)]

ReadFromGC(p) ==
  LET c == card[p]
      left == c.count - 1
  IN  /\ c.count > 0
      /\ card' = [card EXCEPT ![p] = Positioned(c, c.address + 1, left)]
      /\ control' = IF left > 0 THEN control ELSE [control EXCEPT ![p].start = FALSE, ![p].ready = FALSE]
      /\ heard' = [word |-> ReadWord(c), by |-> p, irq |-> left = 0 /\ auxIrq, dma |-> FALSE]
      /\ block' = [block EXCEPT ![p].got = @ + 1, ![p].told = (left = 0)]


-----------------------------------------------------------------------------
(* The game *)

\* the eight command bytes are in the page; the card sees them at the next write of the control word
SetCommand(p) ==
  \E c \in GameCommands \ {control[p].command} :
    /\ savedCard.left > 0
    /\ control' = [control EXCEPT ![p].command = c]
    /\ heard' = Nothing /\ UNCHANGED <<card, auxIrq, block, savedCard>>

SetControl(p) ==
  /\ savedCard.left > 0
  /\ \E start \in BOOLEAN, size \in DOMAIN Sizes : WriteToGCControl(p, start, size)
  /\ savedCard' = [savedCard EXCEPT !.left = @ - 1] /\ UNCHANGED auxIrq

\* A write of the low half alone takes the start bit of the page with it.
SetControlLow(p) ==
  /\ savedCard.left > 0
  /\ WriteToGCControl(p, control[p].start, control[p].size)
  /\ savedCard' = [savedCard EXCEPT !.left = @ - 1] /\ UNCHANGED auxIrq

\* A write of the upper byte alone reaches the page and not the card.
SetControlByte(p) ==
  /\ savedCard.left > 0
  /\ \E start \in BOOLEAN, size \in DOMAIN Sizes :
       control' = [control EXCEPT ![p].start = start, ![p].size = size]
  /\ block' = [block EXCEPT ![p].changed = TRUE]
  /\ savedCard' = [savedCard EXCEPT !.left = @ - 1]
  /\ heard' = Nothing /\ UNCHANGED <<card, auxIrq>>

SetAux == /\ savedCard.left > 0 /\ auxIrq' = ~auxIrq /\ heard' = Nothing /\ UNCHANGED <<card, control, block, savedCard>>

Read(p) == ReadFromGC(p) /\ UNCHANGED <<auxIrq, savedCard>>

-----------------------------------------------------------------------------
(* Savestates: of the card only address and words (saves.cpp, MC0A .. MC1T); one is made in the *)
(* middle of a block, and loaded once                                                          *)

SaveCard ==
  /\ savedCard.state = Fresh /\ heard.by \in CardProcs /\ card[heard.by].count > 0
  /\ savedCard' = [savedCard EXCEPT !.state = [card |-> card, control |-> control, aux |-> auxIrq], !.block = block]
  /\ heard' = Nothing /\ UNCHANGED <<card, control, auxIrq, block>>

RestoredCard(p) == Positioned(Fresh.card[p], savedCard.state.card[p].address, savedCard.state.card[p].count)
LoadCard ==
  /\ savedCard.state # Fresh
  /\ card' = [p \in CardProcs |-> RestoredCard(p)]
  /\ control' = savedCard.state.control /\ auxIrq' = savedCard.state.aux
  /\ block' = [p \in CardProcs |-> [savedCard.block[p] EXCEPT !.changed = @ \/ savedCard.state.card[p].mode # "normal"]]
  /\ savedCard' = [savedCard EXCEPT !.state = Fresh, !.left = 0]
  /\ heard' = Nothing

CardNext ==
  \/ \E p \in CardProcs : SetCommand(p) \/ SetControl(p) \/ SetControlLow(p) \/ SetControlByte(p) \/ Read(p)
  \/ SetAux \/ SaveCard \/ LoadCard

CardSpec == CardInit /\ [][CardNext]_cardVars

-----------------------------------------------------------------------------
\* A game that polls the control word sees a word ready as long as one is left and no longer,
\* also across a savestate; the start bit says the same until it is written by itself.
PollingTruthful ==
  \A p \in CardProcs :
    /\ control[p].ready <=> card[p].count > 0
    /\ ~block[p].changed => control[p].start = control[p].ready
    /\ heard.dma => \E q \in CardProcs : control[q].ready

\* A block has as many words as the command gives it, and they come one behind the other:
\* where a data read crosses the start of the readable part, its end or the end of the address
\* space of the card it goes on as the card would, whatever command bytes were written meanwhile.
\* A savestate in the block of a read that is redirected, or of a command that is no data read,
\* goes on with other words: the command is not in it.
Expected(cmd, i) ==
  CASE cmd.op \in {"read0", "read"} ->
         LET a == Redirected(cmd.op, (cmd.adr + i) % CardMask) IN IF a >= RomSize THEN Ones ELSE a
    [] cmd.op \in {"dummy", "key1"} -> Ones
    [] OTHER -> 0
Reloaded(p) == card[p].command # block[p].cmd
WordsInOrder ==
  \A p \in CardProcs :
    /\ block[p].got + card[p].count = block[p].asked
    /\ heard.by = p =>
         \/ heard.word = Expected(block[p].cmd, block[p].got - 1)
         \/ Reloaded(p) /\ (block[p].cmd.op \notin {"read", "read0"} \/ (block[p].cmd.adr + block[p].got - 1) % CardMask < Secure)

\* A game that has started a block with words in it and asked for the interrupt is either owed
\* a word or has had it; and nobody is interrupted for a block that goes on.
EndsTold ==
  \A p \in CardProcs :
    /\ (heard.irq /\ heard.by = p) => card[p].count = 0 /\ block[p].asked > 0
    /\ card[p].count = 0 => block[p].told

\* Who waits for the card is owed a word or has been told of the end, and the words are those the
\* command asked for (MMU_writeToGCControl, MMU_readFromGC), but for the exceptions the parts name.
CardTrue == PollingTruthful /\ WordsInOrder /\ EndsTold
=============================================================================
