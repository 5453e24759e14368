------------------------------ MODULE BiosCalls ------------------------------
(***************************************************************************)
(* The software interrupts that are answered without a BIOS (bios.cpp):    *)
(* copies, decompression, checksums and arithmetic.  Each is called once   *)
(* on a memory of Room bytes, of which byte a holds the value Old(a).  The *)
(* waiting calls belong to Interrupts.                                     *)
(*                                                                         *)
(* A compressed stream is the sequence of what its flags and lengths say:  *)
(* literals, references and runs.                                          *)
(***************************************************************************)
EXTENDS Integers, Sequences, SequencesExt, FiniteSets, Bitwise, TLC

CONSTANTS Room,      \* bytes of memory
          Targets,   \* where calls write
          Streams,   \* LZ77 streams: sequences of literals and references
          Runs,      \* run length streams
          Lengths,   \* the lengths their headers state
          Texts,     \* what is summed up: sequences of halfwords
          Operands   \* operands of a division, signed bytes

VARIABLES
  ram,      \* what the calls read and write
  io,       \* HALTCNT of ARM7, POSTFLG of ARM9, SOUNDBIAS
  R,        \* R[0], R[1] and R[3] of the caller
  call      \* the call that was made, with its arguments

biosVars == <<ram, io, R, call>>

Old(a) == 1000 + a
BiosInit ==
  /\ ram = [a \in 0 .. Room - 1 |-> Old(a)]
  /\ io \in [post : {0}, halt : {0}, bias : {0, 256, 512}]
  /\ R = [r \in {0, 1, 3} |-> 0]
  /\ call = [name |-> "none"]

-----------------------------------------------------------------------------
(* The tables of calls *)

BothTables ==
  3 :> "WaitByLoop" @@ 4 :> "intrWaitARM" @@ 5 :> "waitVBlankARM" @@ 6 :> "wait4IRQ" @@
  9 :> "divide" @@ 11 :> "copy" @@ 12 :> "fastCopy" @@ 13 :> "bios_sqrt" @@ 14 :> "getCRC16" @@
  15 :> "isDebugger" @@ 16 :> "BitUnPack" @@ 17 :> "LZ77UnCompWram" @@ 18 :> "LZ77UnCompVram" @@
  19 :> "UnCompHuffman" @@ 20 :> "RLUnCompWram" @@ 21 :> "RLUnCompVram" @@
  22 :> "Diff8bitUnFilterWram" @@ 31 :> "setHaltCR"
ARM9_swi_tab == BothTables @@ 24 :> "Diff16bitUnFilter"
ARM7_swi_tab ==
  BothTables @@ 7 :> "sleep" @@ 8 :> "SoundBias" @@ 26 :> "getSineTab" @@ 27 :> "getPitchTab" @@
  28 :> "getVolumeTab" @@ 29 :> "getBootProcs"
Calls(p) == IF p = "ARM9" THEN ARM9_swi_tab ELSE ARM7_swi_tab

\* the numbers below 32 that no call has are bios_nop
Called(p, name) == \E n \in DOMAIN Calls(p) : Calls(p)[n] = name

-----------------------------------------------------------------------------
(* copy, fastCopy *)

Aligned(a, w) == w * (a \div w)
Sequence(n) == [k \in 1 .. n |-> k - 1]

\* mutant: as memmove does it
MoveWhole(m, dst, src, w, n) ==
  [a \in DOMAIN m |-> IF a \in dst .. dst + n * w - 1 THEN m[src + (a - dst)] ELSE m[a]]

\* unit by unit, each read when the ones below it have been written
Move(m, dst, src, w, n) ==
  LET One(s, k) == [a \in DOMAIN s |-> IF (a - dst) \div w = k THEN s[src + (a - dst)] ELSE s[a]]
  IN  FoldLeft(One, m, Sequence(n))

\* one unit, read before the first is written
Fill(m, dst, src, w, n) ==
  [a \in DOMAIN m |-> IF a \in dst .. dst + n * w - 1 THEN m[src + ((a - dst) % w)] ELSE m[a]]

Copy(name, dst, src, w, fill, n) ==
  /\ call' = [name |-> name, dst |-> Aligned(dst, w), src |-> Aligned(src, w), w |-> w, fill |-> fill, n |-> n]
  /\ ram' = IF fill THEN Fill(ram, Aligned(dst, w), Aligned(src, w), w, n)
                    ELSE Move(ram, Aligned(dst, w), Aligned(src, w), w, n)
  /\ UNCHANGED <<io, R>>

copy == \E dst \in Targets, src \in {2, 5, 9}, w \in {2, 4}, fill \in BOOLEAN, n \in 0 .. 2 :
           Copy("copy", dst, src, w, fill, n)
fastCopy == \E dst \in Targets, src \in {2, 5, 9}, fill \in BOOLEAN, n \in 0 .. 2 :
               Copy("fastCopy", dst, src, 4, fill, n)

-----------------------------------------------------------------------------
(* Decompression *)

\* The bytes of a stream: of a reference each is offset + 1 behind itself.
Plain(v) == [back |-> FALSE, v |-> v]
Back(offset) == [back |-> TRUE, v |-> offset]
BytesOf(item) ==
  CASE item.kind = "literal" -> <<Plain(item.v)>>
    [] item.kind = "reference" -> [k \in 1 .. item.n + 3 |-> Back(item.v)]
    [] item.kind = "run" -> [k \in 1 .. item.n + 3 |-> Plain(item.v)]
    [] item.kind = "plain" -> [k \in 1 .. item.n + 1 |-> Plain(item.v + k)]
Bytes(stream, len) ==
  LET all == FlattenSeq([i \in DOMAIN stream |-> BytesOf(stream[i])])
  IN  SubSeq(all, 1, IF len < Len(all) THEN len ELSE Len(all))

\* the address a reference reads counts the bytes held back
Fetch(s, b) == IF b.back THEN s.ram[s.dest + Len(s.held) - b.v - 1] ELSE b.v

Write08(s, b) == [s EXCEPT !.ram = [@ EXCEPT ![s.dest] = Fetch(s, b)], !.dest = @ + 1]

\* mutant: the address without the bytes held back
Write16Behind(s, b) ==
  LET v == IF b.back THEN s.ram[s.dest - b.v - 1] ELSE b.v
  IN  IF s.held = <<>> THEN [s EXCEPT !.held = <<v>>]
      ELSE [s EXCEPT !.ram = [@ EXCEPT ![Aligned(s.dest, 2)] = s.held[1], ![Aligned(s.dest, 2) + 1] = v],
                     !.dest = @ + 2, !.held = <<>>]

\* two bytes are written together, to an even address
Write16(s, b) ==
  IF s.held = <<>> THEN [s EXCEPT !.held = <<Fetch(s, b)>>]
  ELSE [s EXCEPT !.ram = [@ EXCEPT ![Aligned(s.dest, 2)] = s.held[1], ![Aligned(s.dest, 2) + 1] = Fetch(s, b)],
                 !.dest = @ + 2, !.held = <<>>]

\* A source in the lowest 32 MB of a 256 MB page, where the BIOS would be, is refused.
Decompress(name, dst, stream, len, refused) ==
  LET start == [ram |-> ram, dest |-> dst, held |-> <<>>]
      bytes == Bytes(stream, len)
      last == IF name \in {"LZ77UnCompVram", "RLUnCompVram"} THEN FoldLeft(Write16, start, bytes)
                                                             ELSE FoldLeft(Write08, start, bytes)
  IN  /\ call' = [name |-> name, to |-> dst, stream |-> stream, len |-> len, refused |-> refused]
      /\ ram' = IF refused THEN ram ELSE last.ram
      /\ UNCHANGED <<io, R>>

LZ77UnCompWram == \E dst \in Targets, s \in Streams, len \in Lengths, no \in BOOLEAN :
                     Decompress("LZ77UnCompWram", dst, s, len, no)
LZ77UnCompVram == \E dst \in Targets, s \in Streams, len \in Lengths, no \in BOOLEAN :
                     Decompress("LZ77UnCompVram", dst, s, len, no)
RLUnCompWram == \E dst \in Targets, s \in Runs, len \in Lengths, no \in BOOLEAN :
                   Decompress("RLUnCompWram", dst, s, len, no)
RLUnCompVram == \E dst \in Targets, s \in Runs, len \in Lengths, no \in BOOLEAN :
                   Decompress("RLUnCompVram", dst, s, len, no)

\* These read their header as a byte, which leaves nothing of its length.
HeaderLength(width, len) == IF width = 32 THEN len ELSE 0

\* with a length of 0 the tree is never walked
UnCompHuffman(len) ==
  /\ HeaderLength(8, len) = 0
  /\ call' = [name |-> "UnCompHuffman", coded |-> len]
  /\ UNCHANGED <<ram, io, R>>

\* The first unit is written before the length is looked at.
Sums(units, w) == [k \in DOMAIN units |-> FoldLeft(LAMBDA x, d : (x + d) % 256^w, 0, SubSeq(units, 1, k))]
Unfilter(name, dst, units, w, refused) ==
  LET len == HeaderLength(8, Len(units) * w)
      n == IF len > w THEN len \div w ELSE 1
  IN  /\ call' = [name |-> name, at |-> dst, units |-> units, wide |-> w, denied |-> refused]
      /\ ram' = IF refused THEN ram
                ELSE [a \in DOMAIN ram |->
                        IF a \in Aligned(dst, w) .. Aligned(dst, w) + n * w - 1
                        THEN (Sums(units, w)[(a - Aligned(dst, w)) \div w + 1] \div 256^((a - Aligned(dst, w)) % w)) % 256
                        ELSE ram[a]]
      /\ UNCHANGED <<io, R>>

Diff8bitUnFilterWram == \E dst \in Targets, no \in BOOLEAN : Unfilter("Diff8bitUnFilterWram", dst, <<7, 1, 255>>, 1, no)
Diff16bitUnFilter == \E dst \in Targets, no \in BOOLEAN : Unfilter("Diff16bitUnFilter", dst, <<769, 1>>, 2, no)

-----------------------------------------------------------------------------
(* BitUnPack *)

\* mutant: a word is begun anew before it is full
PutEarly(s, f, size) ==
  LET data == IF s.bitwritecount < 8 THEN (s.data + f * 2^s.bitwritecount) % 256 ELSE s.data
  IN  IF s.bitwritecount + size >= 16
      THEN [data |-> 0, bitwritecount |-> 0, dest |-> s.dest + 4, ram |-> [s.ram EXCEPT ![s.dest] = data]]
      ELSE [s EXCEPT !.data = data, !.bitwritecount = @ + size]

\* One field: of the word it ends, the write stores the low byte alone.
Put(s, f, size) ==
  LET data == IF s.bitwritecount < 8 THEN (s.data + f * 2^s.bitwritecount) % 256 ELSE s.data
  IN  IF s.bitwritecount + size >= 32
      THEN [data |-> 0, bitwritecount |-> 0, dest |-> s.dest + 4, ram |-> [s.ram EXCEPT ![s.dest] = data]]
      ELSE [s EXCEPT !.data = data, !.bitwritecount = @ + size]

\* The fields of a byte, lowest first; the base of the header is one byte and so never has the
\* bit that asks to add it.
Fields(b, bits) == [k \in 1 .. 8 \div bits |-> (b \div 2^(bits * (k - 1))) % 2^bits]
BitUnPack ==
  \E dst \in Targets, text \in {<<27, 228>>, <<129, 66>>}, bits \in {1, 2, 3, 4, 8}, size \in {8, 12, 16, 32} :
     LET fields == FlattenSeq([i \in DOMAIN text |-> Fields(text[i], bits)])
         start == [data |-> 0, bitwritecount |-> 0, dest |-> dst, ram |-> ram]
         known == bits # 3 /\ size # 12
     IN  /\ dst + ((Len(fields) * size) \div 8) <= Room
         /\ call' = [name |-> "BitUnPack", into |-> dst, fields |-> IF known THEN fields ELSE <<>>, size |-> size]
         /\ ram' = IF known THEN FoldLeft(LAMBDA s, f : Put(s, f, size), start, fields).ram ELSE ram
         /\ UNCHANGED <<io, R>>

-----------------------------------------------------------------------------
(* Checksum and arithmetic *)

\* val, the remainders of the sixteen nibbles
NibbleTable == <<0, 52225, 55297, 5120, 61441, 15360, 10240, 58369, 40961, 27648, 30720, 46081,
                 20480, 39937, 34817, 17408>>
\* mutant: the nibbles from the high end
CrcHalfwordHigh(crc, v) ==
  FoldLeft(LAMBDA c, j : ((c \div 16) ^^ NibbleTable[(c % 16) + 1]) ^^ NibbleTable[((v \div 16^(3 - j)) % 16) + 1],
           crc, <<0, 1, 2, 3>>)
CrcHalfword(crc, v) ==
  FoldLeft(LAMBDA c, j : ((c \div 16) ^^ NibbleTable[(c % 16) + 1]) ^^ NibbleTable[((v \div 16^j) % 16) + 1],
           crc, <<0, 1, 2, 3>>)
\* whole halfwords: an odd last byte is left out
getCRC16 ==
  \E crc \in {0, 65535}, text \in Texts :
     /\ call' = [name |-> "getCRC16", crc |-> crc, text |-> text]
     /\ R' = [R EXCEPT ![0] = FoldLeft(CrcHalfword, crc, text), ![3] = IF text = <<>> THEN 0 ELSE Last(text)]
     /\ UNCHANGED <<ram, io>>

\* The quotient of C, a signed byte; of the least number by -1 it is the least number.
Signed(x) == IF x % 256 >= 128 THEN (x % 256) - 256 ELSE x % 256
Magnitude(x) == IF x < 0 THEN -x ELSE x
\* mutant: rounded down
QuotientDown(a, b) == IF b > 0 THEN a \div b ELSE (-a) \div (-b)

Quotient(a, b) == (IF (a < 0) # (b < 0) THEN -1 ELSE 1) * (Magnitude(a) \div Magnitude(b))
divide ==
  \E num, dnum \in Operands :
     /\ call' = [name |-> "divide", num |-> num, dnum |-> dnum]
     /\ R' = IF dnum = 0 THEN [R EXCEPT ![0] = num, ![1] = dnum]
             ELSE [r \in {0, 1, 3} |->
                     CASE r = 0 -> Signed(Quotient(num, dnum))
                       [] r = 1 -> num - Quotient(num, dnum) * dnum
                       [] r = 3 -> Magnitude(Signed(Quotient(num, dnum)))]
     /\ UNCHANGED <<ram, io>>

bios_sqrt ==
  \E x \in {0, 3, 4, 255} :
     /\ call' = [name |-> "bios_sqrt", x |-> x]
     /\ R' = [R EXCEPT ![0] = CHOOSE r \in 0 .. x : r * r <= x /\ x < (r + 1) * (r + 1)]
     /\ UNCHANGED <<ram, io>>

-----------------------------------------------------------------------------
(* The small calls: each changes a register of the caller or one of the machine *)

Answer(p, name, r, i) == /\ Called(p, name) /\ call' = [name |-> name, by |-> p] /\ R' = r /\ io' = i /\ UNCHANGED ram

WaitByLoop(p) == Answer(p, "WaitByLoop", [R EXCEPT ![0] = 0], io)
sleep(p) == Answer(p, "sleep", R, [io EXCEPT !.halt = 192])
setHaltCR(p, v) == Answer(p, "setHaltCR", R, IF p = "ARM9" THEN [io EXCEPT !.post = v] ELSE [io EXCEPT !.halt = v])
isDebugger(p, console) == Answer(p, "isDebugger", [R EXCEPT ![0] = IF console THEN 1 ELSE 0], io)
SoundBias(p) == Answer(p, "SoundBias", R, [io EXCEPT !.bias = IF @ = 0 THEN 0 ELSE 512])
getBootProcs(p) == Answer(p, "getBootProcs", [r \in {0, 1, 3} |-> (0 :> 2606 @@ 1 :> 11324 @@ 3 :> 1535)[r]], io)

\* An index beyond its table is left as it is; an entry is named by its index.
TableSize == [getSineTab |-> 64, getPitchTab |-> 768, getVolumeTab |-> 724]
Entry(i) == 4096 + i
Lookup(p, name, i) ==
  Answer(p, name, [R EXCEPT ![0] = IF i < TableSize[name] THEN Entry(i) ELSE i], io)

Small ==
  \E p \in {"ARM9", "ARM7"} :
     \/ WaitByLoop(p) \/ sleep(p) \/ SoundBias(p) \/ getBootProcs(p)
     \/ \E v \in {64, 128} : setHaltCR(p, v)
     \/ \E console \in BOOLEAN : isDebugger(p, console)
     \/ \E name \in DOMAIN TableSize, i \in {0, 63, 64, 723, 768} : Lookup(p, name, i)

BiosNext ==
  /\ call.name = "none"
  /\ \/ copy \/ fastCopy \/ LZ77UnCompWram \/ LZ77UnCompVram \/ RLUnCompWram \/ RLUnCompVram
     \/ \E len \in Lengths : UnCompHuffman(len)
     \/ Diff8bitUnFilterWram \/ Diff16bitUnFilter \/ BitUnPack \/ getCRC16 \/ divide \/ bios_sqrt \/ Small

-----------------------------------------------------------------------------
\* A copy goes forward: a destination less than the length behind the source repeats
\* what lies between them, as a fill repeats one unit (copy, fastCopy).
CopiesForward ==
  call.name \in {"copy", "fastCopy"} =>
    LET size == call.n * call.w
        gap == call.dst - call.src
        period == IF call.fill THEN call.w ELSE IF gap \in 1 .. size - 1 THEN gap ELSE Room
    IN  \A a \in DOMAIN ram :
          ram[a] = IF a \in call.dst .. call.dst + size - 1 THEN Old(call.src + ((a - call.dst) % period)) ELSE Old(a)

\* What a stream stands for, byte by byte, and what lies in front of it.
Meaning(bytes, dst) ==
  LET m[k \in 0 .. Len(bytes)] ==
        IF k = 0 THEN 0
        ELSE IF ~bytes[k].back THEN bytes[k].v
        ELSE IF k - bytes[k].v - 1 >= 1 THEN m[k - bytes[k].v - 1] ELSE Old(dst + k - bytes[k].v - 2)
  IN  m

\* A decompression writes what its stream stands for and nothing else, except that the
\* Vram calls lose the last byte of an odd length, and that they need an even
\* destination and no reference to the byte just before, which they still hold
\* (LZ77UnComp, RLUnComp).  A refused one writes nothing.
Decompressed ==
  call.name \in {"LZ77UnCompWram", "LZ77UnCompVram", "RLUnCompWram", "RLUnCompVram"} =>
    LET bytes == Bytes(call.stream, call.len)
        pairs == call.name \in {"LZ77UnCompVram", "RLUnCompVram"}
        n == IF call.refused THEN 0 ELSE IF pairs THEN Aligned(Len(bytes), 2) ELSE Len(bytes)
    IN  \/ pairs /\ (call.to % 2 = 1 \/ Back(0) \in Range(bytes))
        \/ \A a \in DOMAIN ram :
             ram[a] = IF a \in call.to .. call.to + n - 1 THEN Meaning(bytes, call.to)[a - call.to + 1] ELSE Old(a)

\* A filtered stream gives its first unit only, and a Huffman stream nothing.
FirstUnitOnly ==
  /\ call.name = "UnCompHuffman" => \A a \in DOMAIN ram : ram[a] = Old(a)
  /\ call.name \in {"Diff8bitUnFilterWram", "Diff16bitUnFilter"} =>
       LET at == Aligned(call.at, call.wide)
       IN  Cardinality({a \in DOMAIN ram : ram[a] # Old(a)}) = IF call.denied THEN 0 ELSE call.wide

\* Of every unpacked word its lowest byte arrives, four bytes apart, and no other byte
\* changes; a word that is not full at the end is lost (BitUnPack).
UnpacksLowBytes ==
  call.name = "BitUnPack" =>
    LET perWord == 32 \div call.size
        inByte == IF call.size >= 8 THEN 1 ELSE 8 \div call.size
        word(j) == SubSeq(call.fields, perWord * j + 1, perWord * (j + 1))
        low(j) == FoldLeft(LAMBDA x, k : x + word(j)[k + 1] * 2^(call.size * k), 0, Sequence(inByte)) % 256
    IN  \A a \in DOMAIN ram :
          LET j == (a - call.into) \div 4
          IN  ram[a] = IF a >= call.into /\ (a - call.into) % 4 = 0 /\ j < Len(call.fields) \div perWord
                       THEN low(j) ELSE Old(a)

\* The checksum by nibbles is the one by bits that save files carry, for whole halfwords.
BitwiseCrc(crc, v) ==
  FoldLeft(LAMBDA c, k : IF c % 2 = 1 THEN (c \div 2) ^^ 40961 ELSE c \div 2, crc ^^ v, Sequence(8))
ChecksumByBits ==
  call.name = "getCRC16" =>
    R[0] = FoldLeft(LAMBDA c, v : BitwiseCrc(BitwiseCrc(c, v % 256), v \div 256), call.crc, call.text)

\* Quotient and remainder give the dividend back, the remainder smaller than the
\* divisor and with the sign of the dividend; only the least number by -1 has no quotient
\* that fits (divide).
DividesTruly ==
  call.name = "divide" /\ call.dnum # 0 =>
    /\ R[0] * call.dnum + R[1] = call.num \/ (call.num = -128 /\ call.dnum = -1)
    /\ Magnitude(R[1]) < Magnitude(call.dnum)
    /\ R[1] = 0 \/ (R[1] < 0) = (call.num < 0)

BiosRight == CopiesForward /\ Decompressed /\ FirstUnitOnly /\ UnpacksLowBytes /\ ChecksumByBits /\ DividesTruly
=============================================================================
