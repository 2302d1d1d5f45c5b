---------------------------- MODULE WindowProofs ----------------------------
(***************************************************************************)
(* The r900 parser reads the right samples for every chip length, block    *)
(* size, packet length and payload, whatever blocks have packets.  The     *)
(* invariant says of every buffer which stretch of the stream it holds;    *)
(* the parser's history is a block behind while a block waits to be parsed.*)
(* Behind that, what the filters of Demod make of the samples, for every   *)
(* signal, chip length and position.                                       *)
(***************************************************************************)
EXTENDS Window, Demod, SequenceTheorems, TLAPS

(* Where the parser's history ends.                                        *)
heard == IF pc = "parse" THEN end - BlockSize ELSE end

DecoderHolds ==
  /\ \A i \in 0 .. BlockSize + SymbolLength - 1 :
       Signal[i] = end - BlockSize - SymbolLength + i
  /\ \A q \in 0 .. BufferLength - 1 :
       Quantized[q] = end - BufferLength - SymbolLength + q

HistoryHolds ==
  \A i \in 0 .. BufferLength - 1 : p_signal[i] = heard - BufferLength + i

DigitsFresh ==
  pc = "packets" =>
    \A i \in 0 .. BufferLength - DigitLength - 1 :
      p_quantized[i] = end - BufferLength + i

IInv == TypeOK /\ DecoderHolds /\ HistoryHolds /\ DigitsFresh /\ PayloadAligned
-----------------------------------------------------------------------------
LEMMA Sizes ==
  /\ SymbolLength \in Nat \ {0} /\ DigitLength \in Nat \ {0}
  /\ SymbolLength = 2 * ChipLength /\ DigitLength = 4 * ChipLength
  /\ PreambleLength \in Nat \ {0} /\ PacketLength \in Nat /\ BufferLength \in Nat
  /\ SymbolLength <= PreambleLength
  /\ PayloadSymbols * DigitLength \in Nat
  /\ PreambleLength + PayloadSymbols * DigitLength <= PacketLength
  /\ BufferLength = PacketLength + BlockSize
  /\ BlockSize \in Nat \ {0} /\ SymbolLength <= BlockSize
  /\ MaxBlocks * BlockSize \in Nat
  /\ ChipLength \in Nat \ {0}
BY WindowAssumption
DEF SymbolLength, DigitLength, PreambleLength, PacketLength, BufferLength

(* A chip lies within its digit, a digit within the payload.               *)
LEMMA Offsets ==
  ASSUME NEW k \in Digits, NEW c \in Chips
  PROVE  /\ k * DigitLength \in Nat /\ c * ChipLength \in Nat
         /\ k * DigitLength <= PayloadSymbols * DigitLength - DigitLength
         /\ c * ChipLength <= DigitLength - ChipLength
<1>1. k \in Nat /\ k <= PayloadSymbols - 1 /\ PayloadSymbols \in Nat
  BY WindowAssumption DEF Digits
<1>2. k * DigitLength <= (PayloadSymbols - 1) * DigitLength
  BY <1>1, Sizes
<1>3. (PayloadSymbols - 1) * DigitLength = PayloadSymbols * DigitLength - DigitLength
  BY <1>1, Sizes
<1>4. c \in {0, 1, 2, 3}
  BY DEF Chips
<1>5. c * ChipLength \in Nat /\ c * ChipLength <= DigitLength - ChipLength
  BY <1>4, Sizes
<1> QED
  BY <1>1, <1>2, <1>3, <1>5, Sizes

(* The digits and chips of a packet are within the buffers, and the digits *)
(* within what the filter decides.                                         *)
LEMMA PayloadInRange ==
  ASSUME NEW idx \in 0 .. BlockSize - 1, NEW k \in Digits, NEW c \in Chips
  PROVE  /\ payloadIdx(idx) \in Nat
         /\ payloadIdx(idx) + k * DigitLength \in 0 .. BufferLength - DigitLength - 1
         /\ payloadIdx(idx) + k * DigitLength + c * ChipLength \in 0 .. BufferLength - 1
BY Sizes, Offsets DEF payloadIdx
-----------------------------------------------------------------------------
LEMMA InitIInv == Init => IInv
<1> SUFFICES ASSUME Init PROVE IInv
  OBVIOUS
<1>1. \A k \in Digits, c \in Chips :
        k * DigitLength \in Int /\ c * ChipLength \in Int
  BY Offsets
<1>2. \A k \in Digits : k * DigitLength \in Int
  BY <1>1 DEF Chips
<1>3. payload \in [preamble : Int, digits : [Digits -> Int],
                   chips : [Digits -> [Chips -> Int]]]
  <2>1. payload.digits \in [Digits -> Int]
    BY <1>2, Sizes DEF Init
  <2>2. \A k \in Digits, c \in Chips :
          PreambleLength + k * DigitLength + c * ChipLength \in Int
    BY <1>1, Sizes
  <2>3. payload.chips \in [Digits -> [Chips -> Int]]
    BY <2>2 DEF Init
  <2> QED BY <2>1, <2>3 DEF Init
<1>4. TypeOK
  <2>1. /\ Signal \in [0 .. BlockSize + SymbolLength - 1 -> Int]
        /\ Quantized \in [0 .. BufferLength - 1 -> Int]
        /\ p_signal \in [0 .. BufferLength - 1 -> Int]
    BY Sizes DEF Init
  <2>2. p_quantized \in [0 .. BufferLength - 1 -> Int]
    BY <2>1 DEF Init
  <2>3. end \in 0 .. MaxBlocks * BlockSize
    BY Sizes DEF Init
  <2> QED
    BY <1>3, <2>1, <2>2, <2>3 DEF Init, TypeOK
<1>5. PayloadAligned
  BY <1>1, <1>2, Sizes DEF Init, PayloadAligned
<1>6. DecoderHolds /\ HistoryHolds /\ DigitsFresh
  BY Sizes DEF Init, DecoderHolds, HistoryHolds, DigitsFresh, heard
<1> QED
  BY <1>4, <1>5, <1>6 DEF IInv

LEMMA DecodeStep == IInv /\ Decode => IInv'
<1> SUFFICES ASSUME IInv, Decode PROVE IInv'
  OBVIOUS
<1>1. end \in Nat /\ end' = end + BlockSize /\ heard' = heard
      /\ DOMAIN Signal = 0 .. BlockSize + SymbolLength - 1
      /\ DOMAIN Quantized = 0 .. BufferLength - 1
  BY Sizes DEF IInv, TypeOK, Decode, heard
<1>2. ASSUME NEW i \in 0 .. BlockSize + SymbolLength - 1
      PROVE  Signal'[i] = end' - BlockSize - SymbolLength + i
  <2>1. CASE i < SymbolLength
    <3>1. i + BlockSize \in 0 .. BlockSize + SymbolLength - 1
      BY <2>1, Sizes
    <3>2. Signal'[i] = Signal[i + BlockSize]
      BY <1>1, <2>1 DEF Decode
    <3> QED
      BY <1>1, <3>1, <3>2, Sizes DEF IInv, DecoderHolds
  <2>2. CASE ~(i < SymbolLength)
    <3>1. Signal'[i] = end + i - SymbolLength
      BY <1>1, <2>2 DEF Decode
    <3> QED
      BY <1>1, <3>1, Sizes
  <2> QED BY <2>1, <2>2
<1>3. ASSUME NEW q \in 0 .. BufferLength - 1
      PROVE  Quantized'[q] = end' - BufferLength - SymbolLength + q
  <2>1. CASE q < PacketLength
    <3>1. q + BlockSize \in 0 .. BufferLength - 1
      BY <2>1, Sizes
    <3>2. Quantized'[q] = Quantized[q + BlockSize]
      BY <1>1, <2>1 DEF Decode
    <3> QED
      BY <1>1, <3>1, <3>2, Sizes DEF IInv, DecoderHolds
  <2>2. CASE ~(q < PacketLength)
    <3>1. q - PacketLength \in 0 .. BlockSize + SymbolLength - 1
      BY <2>2, Sizes
    <3>2. Quantized'[q] = Signal'[q - PacketLength]
      BY <1>1, <2>2 DEF Decode
    <3> QED
      BY <1>1, <1>2, <3>1, <3>2, Sizes
  <2> QED BY <2>1, <2>2
<1>4. TypeOK'
  <2>1. Signal' \in [0 .. BlockSize + SymbolLength - 1 -> Int]
    <3>1. \A i \in 0 .. BlockSize + SymbolLength - 1 : Signal'[i] \in Int
      BY <1>1, <1>2, Sizes
    <3> QED BY <1>1, <3>1 DEF Decode
  <2>2. Quantized' \in [0 .. BufferLength - 1 -> Int]
    <3>1. \A q \in 0 .. BufferLength - 1 : Quantized'[q] \in Int
      BY <1>1, <1>3, Sizes
    <3> QED BY <1>1, <3>1 DEF Decode
  <2>3. end' \in 0 .. MaxBlocks * BlockSize
    BY <1>1, Sizes DEF Decode
  <2> QED BY <2>1, <2>2, <2>3 DEF IInv, TypeOK, Decode
<1>5. DecoderHolds'
  BY <1>2, <1>3 DEF DecoderHolds
<1>6. HistoryHolds' /\ DigitsFresh' /\ PayloadAligned'
  BY <1>1 DEF IInv, HistoryHolds, DigitsFresh, PayloadAligned, Decode
<1> QED
  BY <1>4, <1>5, <1>6 DEF IInv

LEMMA ParseStep == IInv /\ Parse => IInv'
<1> SUFFICES ASSUME IInv, Parse PROVE IInv'
  OBVIOUS
<1>1. end \in Nat /\ heard = end - BlockSize /\ heard' = end' /\ end' = end
      /\ DOMAIN p_signal = 0 .. BufferLength - 1
      /\ DOMAIN p_quantized = 0 .. BufferLength - 1
  <2>1. end \in Nat
    BY Sizes DEF IInv, TypeOK
  <2>2. pc' # "parse" /\ pc = "parse" /\ end' = end
    BY DEF Parse
  <2>3. heard = end - BlockSize /\ heard' = end'
    BY <2>2 DEF heard
  <2>4. DOMAIN p_signal = 0 .. BufferLength - 1 /\ DOMAIN p_quantized = 0 .. BufferLength - 1
    BY DEF IInv, TypeOK
  <2> QED BY <2>1, <2>2, <2>3, <2>4
<1>2. ASSUME NEW i \in 0 .. BufferLength - 1
      PROVE  Shifted[i] = end - BufferLength + i
  <2>1. CASE i < PacketLength
    <3>1. i + BlockSize \in 0 .. BufferLength - 1
      BY <2>1, Sizes
    <3>2. Shifted[i] = p_signal[i + BlockSize]
      BY <1>1, <2>1 DEF Shifted
    <3> QED
      BY <1>1, <3>1, <3>2, Sizes DEF IInv, HistoryHolds
  <2>2. CASE ~(i < PacketLength)
    <3>1. i - PacketLength + SymbolLength \in 0 .. BlockSize + SymbolLength - 1
      BY <2>2, Sizes
    <3>2. Shifted[i] = Signal[i - PacketLength + SymbolLength]
      BY <1>1, <2>2 DEF Shifted
    <3> QED
      BY <1>1, <3>1, <3>2, Sizes DEF IInv, DecoderHolds
  <2> QED BY <2>1, <2>2
<1>3. Shifted \in [0 .. BufferLength - 1 -> Int]
  <2>1. \A i \in 0 .. BufferLength - 1 : Shifted[i] \in Int
    BY <1>1, <1>2, Sizes
  <2> QED BY <1>1, <2>1 DEF Shifted
<1>4. DigitsOf(Shifted) \in [0 .. BufferLength - 1 -> Int]
  BY <1>1, <1>3 DEF DigitsOf, IInv, TypeOK
<1>5. TypeOK'
  BY <1>3, <1>4 DEF IInv, TypeOK, Parse
<1>6. HistoryHolds'
  BY <1>1, <1>2 DEF HistoryHolds, Parse
<1>7. DigitsFresh'
  <2> SUFFICES ASSUME pc' = "packets", NEW i \in 0 .. BufferLength - DigitLength - 1
               PROVE  p_quantized'[i] = end' - BufferLength + i
    BY DEF DigitsFresh
  <2>1. i \in 0 .. BufferLength - 1 /\ i < BufferLength - DigitLength
    BY Sizes
  <2>2. p_quantized' = DigitsOf(Shifted)
    BY DEF Parse
  <2>3. DigitsOf(Shifted)[i] = Shifted[i]
    BY <1>1, <2>1 DEF DigitsOf
  <2> QED
    BY <1>1, <1>2, <2>1, <2>2, <2>3
<1>8. DecoderHolds' /\ PayloadAligned'
  BY DEF IInv, DecoderHolds, PayloadAligned, Parse
<1> QED
  BY <1>5, <1>6, <1>7, <1>8 DEF IInv

LEMMA PacketStep ==
  ASSUME IInv, NEW idx \in pkts, ParsePacket(idx)
  PROVE  IInv'
<1>1. idx \in 0 .. BlockSize - 1 /\ idx \in 0 .. BufferLength - 1
      /\ end \in Nat /\ end' = end /\ heard = end /\ heard' = end
  BY Sizes DEF IInv, TypeOK, ParsePacket, heard
<1>2. payload'.preamble = end - BufferLength - SymbolLength + idx
  BY <1>1 DEF IInv, DecoderHolds, ParsePacket
<1>3. payloadIdx(idx) = idx + PreambleLength - SymbolLength
  BY DEF payloadIdx
<1>4. ASSUME NEW k \in Digits
      PROVE  /\ payload'.digits[k] \in Int
             /\ payload'.digits[k] = payload'.preamble + PreambleLength + k * DigitLength
  <2>0. 0 \in Chips
    BY DEF Chips
  <2>1. payloadIdx(idx) + k * DigitLength \in 0 .. BufferLength - DigitLength - 1
    BY <1>1, <2>0, PayloadInRange
  <2>2. payload'.digits[k] = p_quantized[payloadIdx(idx) + k * DigitLength]
    BY DEF ParsePacket
  <2>3. payload'.digits[k] = end - BufferLength + (payloadIdx(idx) + k * DigitLength)
    BY <2>1, <2>2 DEF IInv, DigitsFresh, ParsePacket
  <2>4. k * DigitLength \in Nat
    BY <2>0, Offsets
  <2> QED
    BY <1>1, <1>2, <1>3, <2>3, <2>4, Sizes
<1>5. ASSUME NEW k \in Digits, NEW c \in Chips
      PROVE  /\ payload'.chips[k][c] \in Int
             /\ payload'.chips[k][c] =
                  payload'.preamble + PreambleLength + k * DigitLength + c * ChipLength
  <2>1. payloadIdx(idx) + k * DigitLength + c * ChipLength \in 0 .. BufferLength - 1
    BY <1>1, PayloadInRange
  <2>2. payload'.chips[k][c] =
          p_signal[payloadIdx(idx) + k * DigitLength + c * ChipLength]
    BY DEF ParsePacket
  <2>3. payload'.chips[k][c] =
          end - BufferLength + (payloadIdx(idx) + k * DigitLength + c * ChipLength)
    BY <1>1, <2>1, <2>2 DEF IInv, HistoryHolds
  <2>4. k * DigitLength \in Nat /\ c * ChipLength \in Nat
    BY Offsets
  <2> QED
    BY <1>1, <1>2, <1>3, <2>3, <2>4, Sizes
<1>6. TypeOK'
  <2>1. payload'.digits \in [Digits -> Int]
    BY <1>4 DEF ParsePacket
  <2>3. payload'.chips \in [Digits -> [Chips -> Int]]
    BY <1>5 DEF ParsePacket
  <2>4. payload'.preamble \in Int
    BY <1>1, <1>2, Sizes
  <2>5. payload' \in [preamble : Int, digits : [Digits -> Int],
                      chips : [Digits -> [Chips -> Int]]]
    BY <2>1, <2>3, <2>4 DEF ParsePacket
  <2>6. pc' \in {"decode", "parse", "packets"} /\ pkts' \subseteq 0 .. BlockSize - 1
    BY DEF IInv, TypeOK, ParsePacket
  <2> QED
    BY <2>5, <2>6 DEF IInv, TypeOK, ParsePacket
<1>7. PayloadAligned'
  BY <1>4, <1>5 DEF PayloadAligned
<1>8. DecoderHolds' /\ HistoryHolds' /\ DigitsFresh'
  BY <1>1 DEF IInv, DecoderHolds, HistoryHolds, DigitsFresh, ParsePacket
<1> QED
  BY <1>6, <1>7, <1>8 DEF IInv

(* The invariant is inductive.                                             *)
THEOREM Invariance == Spec => []IInv
<1>1. IInv /\ [Next]_vars => IInv'
  <2> SUFFICES ASSUME IInv, [Next]_vars PROVE IInv'
    OBVIOUS
  <2>1. CASE Decode
    BY <2>1, DecodeStep
  <2>2. CASE Parse
    BY <2>2, ParseStep
  <2>3. CASE \E idx \in pkts : ParsePacket(idx)
    BY <2>3, PacketStep
  <2>4. CASE EndOfStream \/ UNCHANGED vars
    BY <2>4 DEF EndOfStream, vars, IInv, TypeOK, DecoderHolds, HistoryHolds,
                DigitsFresh, PayloadAligned, heard
  <2> QED BY <2>1, <2>2, <2>3, <2>4 DEF Next
<1> QED BY InitIInv, <1>1, PTL DEF Spec

(* The buffers keep their lengths and hold positions of the stream.        *)
THEOREM TypeCorrect == Spec => []TypeOK
<1>1. IInv => TypeOK
  BY DEF IInv
<1> QED BY Invariance, <1>1, PTL

(* Every r900 payload is read from behind its own preamble (r900.go's      *)
(* payloadIdx and history).                                                *)
THEOREM ReadsOwnPayload == Spec => []PayloadAligned
<1>1. IInv => PayloadAligned
  BY DEF IInv
<1> QED BY Invariance, <1>1, PTL

(* The parser's history never falls behind the decoder's decisions, with   *)
(* or without packets in a block.                                          *)
THEOREM KeepsLockStep == Spec => []InLockStep
<1>1. IInv => InLockStep
  BY Sizes DEF IInv, TypeOK, DecoderHolds, HistoryHolds, InLockStep, heard
<1> QED BY Invariance, <1>1, PTL
-----------------------------------------------------------------------------
(* The five sums that a digit is decided from.                             *)
Sums(c, idx, cl) == \A k \in 0 .. 4 : c[idx + k * cl] \in Int

(* Every carrying chip of d is stronger than every other one.              *)
Clear(d, c, idx, cl) ==
  \A on \in On(d), off \in 0 .. 3 \ On(d) : Chip(c, idx, cl, on) > Chip(c, idx, cl, off)

(* The chips' energies are the differences of the sums.                    *)
LEMMA Energies ==
  ASSUME NEW c, NEW idx \in Nat, NEW cl \in Nat, Sums(c, idx, cl)
  PROVE  /\ \A k \in {idx, idx + cl, idx + 2 * cl, idx + 3 * cl, idx + 4 * cl} : c[k] \in Int
         /\ Chip(c, idx, cl, 0) = c[idx + cl] - c[idx]
         /\ Chip(c, idx, cl, 1) = c[idx + 2 * cl] - c[idx + cl]
         /\ Chip(c, idx, cl, 2) = c[idx + 3 * cl] - c[idx + 2 * cl]
         /\ Chip(c, idx, cl, 3) = c[idx + 4 * cl] - c[idx + 3 * cl]
  <1>1. /\ idx + 0 * cl = idx /\ idx + 1 * cl = idx + cl
        /\ idx + (0 + 1) * cl = idx + cl /\ idx + (1 + 1) * cl = idx + 2 * cl
        /\ idx + (2 + 1) * cl = idx + 3 * cl /\ idx + (3 + 1) * cl = idx + 4 * cl
    OBVIOUS
  <1>2. /\ c[idx + 0 * cl] \in Int /\ c[idx + 1 * cl] \in Int /\ c[idx + 2 * cl] \in Int
        /\ c[idx + 3 * cl] \in Int /\ c[idx + 4 * cl] \in Int
    BY DEF Sums
  <1> QED BY <1>1, <1>2 DEF Chip

(* The simplified kernels add and subtract the four energies as the three  *)
(* patterns say.                                                           *)
LEMMA Kernels ==
  ASSUME NEW c, NEW idx \in Nat, NEW cl \in Nat, Sums(c, idx, cl),
         NEW e0, NEW e1, NEW e2, NEW e3,
         e0 = Chip(c, idx, cl, 0), e1 = Chip(c, idx, cl, 1),
         e2 = Chip(c, idx, cl, 2), e3 = Chip(c, idx, cl, 3)
  PROVE  /\ e0 \in Int /\ e1 \in Int /\ e2 \in Int /\ e3 \in Int
         /\ Kernel(c, idx, cl) = <<e0 + e1 - e2 - e3, e0 - e1 + e2 - e3, e0 - e1 - e2 + e3>>
  BY Energies DEF Kernel

(* Which chips carry, digit by digit.                                      *)
LEMMA Patterns ==
  /\ On(0) = {2, 3} /\ On(1) = {1, 3} /\ On(2) = {1, 2}
  /\ On(3) = {0, 1} /\ On(4) = {0, 2} /\ On(5) = {0, 3}
  <1>1. /\ 0 % 3 = 0 /\ 1 % 3 = 1 /\ 2 % 3 = 2 /\ 3 % 3 = 0 /\ 4 % 3 = 1 /\ 5 % 3 = 2
    OBVIOUS
  <1>2. /\ chipPatterns[1] = {0, 1} /\ chipPatterns[2] = {0, 2} /\ chipPatterns[3] = {0, 3}
    BY DEF chipPatterns
  <1>3. /\ On(0) = 0 .. 3 \ {0, 1} /\ On(1) = 0 .. 3 \ {0, 2} /\ On(2) = 0 .. 3 \ {0, 3}
        /\ On(3) = {0, 1} /\ On(4) = {0, 2} /\ On(5) = {0, 3}
    BY <1>1, <1>2 DEF On
  <1> QED BY <1>3

(* A digit whose carrying chips are the stronger ones is read as what it   *)
(* is, at any chip length, level and position: no sum in filter is off, no *)
(* pattern stands in the wrong place and argmax breaks no tie wrongly.     *)
THEOREM DigitRead ==
  ASSUME NEW c, NEW idx \in Nat, NEW cl \in Nat, Sums(c, idx, cl),
         NEW d \in 0 .. 5, Clear(d, c, idx, cl)
  PROVE  Digit(c, idx, cl) = d
  <1> DEFINE e0 == Chip(c, idx, cl, 0)
             e1 == Chip(c, idx, cl, 1)
             e2 == Chip(c, idx, cl, 2)
             e3 == Chip(c, idx, cl, 3)
             x == e0 + e1 - e2 - e3
             y == e0 - e1 + e2 - e3
             z == e0 - e1 - e2 + e3
  <1>1. /\ e0 \in Int /\ e1 \in Int /\ e2 \in Int /\ e3 \in Int
        /\ Kernel(c, idx, cl) = <<x, y, z>>
    BY Kernels
  (* The strongest of the three kernels and its sign are the digit.        *)
  <1>2. ASSUME NEW i \in Int, NEW j \in Int, NEW k \in Int
        PROVE  LET a == <<i, j, k>>
                   digit == argmax(a) + IF a[argmax(a) + 1] > 0 THEN 3 ELSE 0 IN
               /\ Abs(i) > Abs(j) /\ Abs(i) > Abs(k) => digit = IF i > 0 THEN 3 ELSE 0
               /\ Abs(j) > Abs(i) /\ Abs(j) > Abs(k) => digit = IF j > 0 THEN 4 ELSE 1
               /\ Abs(k) > Abs(i) /\ Abs(k) > Abs(j) => digit = IF k > 0 THEN 5 ELSE 2
    <2>1. Abs(i) \in Int /\ Abs(j) \in Int /\ Abs(k) \in Int
      BY DEF Abs
    <2> QED BY <2>1 DEF argmax
  <1>3. /\ Abs(x) > Abs(y) /\ Abs(x) > Abs(z) => Digit(c, idx, cl) = IF x > 0 THEN 3 ELSE 0
        /\ Abs(y) > Abs(x) /\ Abs(y) > Abs(z) => Digit(c, idx, cl) = IF y > 0 THEN 4 ELSE 1
        /\ Abs(z) > Abs(x) /\ Abs(z) > Abs(y) => Digit(c, idx, cl) = IF z > 0 THEN 5 ELSE 2
    <2>1. x \in Int /\ y \in Int /\ z \in Int
      BY <1>1
    <2> HIDE DEF x, y, z
    <2> QED BY <1>1, <1>2, <2>1 DEF Digit
  <1> HIDE DEF e0, e1, e2, e3
  <1>4. CASE d = 0
    <2>1. e2 > e0 /\ e2 > e1 /\ e3 > e0 /\ e3 > e1
      BY <1>4, Patterns DEF Clear, e0, e1, e2, e3
    <2>2. x < 0 /\ Abs(x) > Abs(y) /\ Abs(x) > Abs(z)
      BY <1>1, <2>1 DEF Abs
    <2> QED BY <1>1, <1>3, <1>4, <2>2
  <1>5. CASE d = 1
    <2>1. e1 > e0 /\ e1 > e2 /\ e3 > e0 /\ e3 > e2
      BY <1>5, Patterns DEF Clear, e0, e1, e2, e3
    <2>2. y < 0 /\ Abs(y) > Abs(x) /\ Abs(y) > Abs(z)
      BY <1>1, <2>1 DEF Abs
    <2> QED BY <1>1, <1>3, <1>5, <2>2
  <1>6. CASE d = 2
    <2>1. e1 > e0 /\ e1 > e3 /\ e2 > e0 /\ e2 > e3
      BY <1>6, Patterns DEF Clear, e0, e1, e2, e3
    <2>2. z < 0 /\ Abs(z) > Abs(x) /\ Abs(z) > Abs(y)
      BY <1>1, <2>1 DEF Abs
    <2> QED BY <1>1, <1>3, <1>6, <2>2
  <1>7. CASE d = 3
    <2>1. e0 > e2 /\ e0 > e3 /\ e1 > e2 /\ e1 > e3
      BY <1>7, Patterns DEF Clear, e0, e1, e2, e3
    <2>2. x > 0 /\ Abs(x) > Abs(y) /\ Abs(x) > Abs(z)
      BY <1>1, <2>1 DEF Abs
    <2> QED BY <1>1, <1>3, <1>7, <2>2
  <1>8. CASE d = 4
    <2>1. e0 > e1 /\ e0 > e3 /\ e2 > e1 /\ e2 > e3
      BY <1>8, Patterns DEF Clear, e0, e1, e2, e3
    <2>2. y > 0 /\ Abs(y) > Abs(x) /\ Abs(y) > Abs(z)
      BY <1>1, <2>1 DEF Abs
    <2> QED BY <1>1, <1>3, <1>8, <2>2
  <1>9. CASE d = 5
    <2>1. e0 > e1 /\ e0 > e2 /\ e3 > e1 /\ e3 > e2
      BY <1>9, Patterns DEF Clear, e0, e1, e2, e3
    <2>2. z > 0 /\ Abs(z) > Abs(x) /\ Abs(z) > Abs(y)
      BY <1>1, <2>1 DEF Abs
    <2> QED BY <1>1, <1>3, <1>9, <2>2
  <1> QED BY <1>4, <1>5, <1>6, <1>7, <1>8, <1>9

(* The sums behind RSSI and SNR in terms of the four energies.             *)
LEMMA Parts ==
  ASSUME NEW c, NEW idx \in Nat, NEW cl \in Nat, Sums(c, idx, cl),
         NEW e0, NEW e1, NEW e2, NEW e3,
         e0 = Chip(c, idx, cl, 0), e1 = Chip(c, idx, cl, 1),
         e2 = Chip(c, idx, cl, 2), e3 = Chip(c, idx, cl, 3)
  PROVE  /\ SigSum(0, c, idx, cl) = e2 + e3 /\ NoiseSum(0, c, idx, cl) = e0 + e1
         /\ SigSum(1, c, idx, cl) = e1 + e3 /\ NoiseSum(1, c, idx, cl) = e0 + e2
         /\ SigSum(2, c, idx, cl) = e1 + e2 /\ NoiseSum(2, c, idx, cl) = e0 + e3
         /\ SigSum(3, c, idx, cl) = e0 + e1 /\ NoiseSum(3, c, idx, cl) = e2 + e3
         /\ SigSum(4, c, idx, cl) = e0 + e2 /\ NoiseSum(4, c, idx, cl) = e1 + e3
         /\ SigSum(5, c, idx, cl) = e0 + e3 /\ NoiseSum(5, c, idx, cl) = e1 + e2
  <1>1. /\ e0 \in Int /\ e1 \in Int /\ e2 \in Int /\ e3 \in Int
    BY Kernels
  <1>2. ASSUME NEW S
        PROVE  Part(S, c, idx, cl) = (IF 0 \in S THEN e0 ELSE 0) + (IF 1 \in S THEN e1 ELSE 0)
                                   + (IF 2 \in S THEN e2 ELSE 0) + (IF 3 \in S THEN e3 ELSE 0)
    BY DEF Part
  <1>3. /\ Part({0, 1}, c, idx, cl) = e0 + e1 /\ Part({2, 3}, c, idx, cl) = e2 + e3
        /\ Part({0, 2}, c, idx, cl) = e0 + e2 /\ Part({1, 3}, c, idx, cl) = e1 + e3
        /\ Part({0, 3}, c, idx, cl) = e0 + e3 /\ Part({1, 2}, c, idx, cl) = e1 + e2
    BY <1>1, <1>2
  <1>4. /\ 0 .. 3 \ {0, 1} = {2, 3} /\ 0 .. 3 \ {2, 3} = {0, 1}
        /\ 0 .. 3 \ {0, 2} = {1, 3} /\ 0 .. 3 \ {1, 3} = {0, 2}
        /\ 0 .. 3 \ {0, 3} = {1, 2} /\ 0 .. 3 \ {1, 2} = {0, 3}
    OBVIOUS
  <1> QED BY <1>3, <1>4, Patterns DEF SigSum, NoiseSum

(* Whatever was received, the digit decided for is the likeliest one: the  *)
(* chips it calls carrying hold at least as much energy as those of any    *)
(* other digit, and as its own other half.  So no packet's sums give a     *)
(* negative SNR (rounding left aside).                                     *)
THEOREM DigitLikeliest ==
  ASSUME NEW c, NEW idx \in Nat, NEW cl \in Nat, Sums(c, idx, cl)
  PROVE  LET d == Digit(c, idx, cl) IN
         /\ d \in 0 .. 5
         /\ SigSum(d, c, idx, cl) >= NoiseSum(d, c, idx, cl)
         /\ \A other \in 0 .. 5 : SigSum(d, c, idx, cl) >= SigSum(other, c, idx, cl)
  <1> DEFINE e0 == Chip(c, idx, cl, 0)
             e1 == Chip(c, idx, cl, 1)
             e2 == Chip(c, idx, cl, 2)
             e3 == Chip(c, idx, cl, 3)
             a == <<e0 + e1 - e2 - e3, e0 - e1 + e2 - e3, e0 - e1 - e2 + e3>>
             d == Digit(c, idx, cl)
             Sig(x) == SigSum(x, c, idx, cl)
             Noise(x) == NoiseSum(x, c, idx, cl)
  <1>1. /\ e0 \in Int /\ e1 \in Int /\ e2 \in Int /\ e3 \in Int
        /\ Kernel(c, idx, cl) = a
    BY Kernels
  <1>2. d = argmax(a) + IF a[argmax(a) + 1] > 0 THEN 3 ELSE 0
    BY <1>1 DEF Digit
  <1>3. /\ Sig(0) = e2 + e3 /\ Sig(1) = e1 + e3 /\ Sig(2) = e1 + e2
        /\ Sig(3) = e0 + e1 /\ Sig(4) = e0 + e2 /\ Sig(5) = e0 + e3
        /\ Noise(0) = e0 + e1 /\ Noise(1) = e0 + e2 /\ Noise(2) = e0 + e3
        /\ Noise(3) = e2 + e3 /\ Noise(4) = e1 + e3 /\ Noise(5) = e1 + e2
    BY Parts
  <1> HIDE DEF Sig, Noise
  (* Every kernel is the difference of two digits' energies.               *)
  <1>4. /\ a[1] = Sig(3) - Sig(0) /\ a[2] = Sig(4) - Sig(1) /\ a[3] = Sig(5) - Sig(2)
        /\ Sig(3) + Sig(0) = Sig(4) + Sig(1) /\ Sig(4) + Sig(1) = Sig(5) + Sig(2)
        /\ \A x \in 0 .. 5 : Sig(x) \in Int
    BY <1>1, <1>3
  <1>5. /\ Noise(0) = Sig(3) /\ Noise(1) = Sig(4) /\ Noise(2) = Sig(5)
        /\ Noise(3) = Sig(0) /\ Noise(4) = Sig(1) /\ Noise(5) = Sig(2)
    BY <1>3
  <1>6. d \in 0 .. 5
    BY <1>1, <1>2 DEF argmax
  <1> HIDE DEF a, d
  <1>7. \A other \in 0 .. 5 : Sig(d) >= Sig(other)
    <2>1. CASE argmax(a) = 0
      <3>1. Abs(a[1]) >= Abs(a[2]) /\ Abs(a[1]) >= Abs(a[3])
        BY <2>1 DEF argmax
      <3>2. d = IF a[1] > 0 THEN 3 ELSE 0
        BY <1>2, <2>1
      <3> QED BY <1>4, <3>1, <3>2 DEF Abs
    <2>2. CASE argmax(a) = 1
      <3>1. Abs(a[2]) >= Abs(a[1]) /\ Abs(a[2]) >= Abs(a[3])
        BY <1>4, <2>2 DEF argmax, Abs
      <3>2. d = IF a[2] > 0 THEN 4 ELSE 1
        BY <1>2, <2>2
      <3> QED BY <1>4, <3>1, <3>2 DEF Abs
    <2>3. CASE argmax(a) = 2
      <3>1. Abs(a[3]) >= Abs(a[1]) /\ Abs(a[3]) >= Abs(a[2])
        BY <1>4, <2>3 DEF argmax, Abs
      <3>2. d = IF a[3] > 0 THEN 5 ELSE 2
        BY <1>2, <2>3
      <3> QED BY <1>4, <3>1, <3>2 DEF Abs
    <2> QED BY <2>1, <2>2, <2>3 DEF argmax
  <1>8. \E other \in 0 .. 5 : Noise(d) = Sig(other)
    BY <1>5, <1>6
  <1> QED BY <1>6, <1>7, <1>8 DEF Sig, Noise, d

(* No sample is silent: bytes are whole numbers and the table's centre is  *)
(* between two of them.  So RSSI and SNR take their special values, -99 and*)
(* 99, only from buffers that still begin with the initial zeros, or where *)
(* float32 has rounded the energy of a chip away, which is not modelled.   *)
THEOREM NeverSilent ==
  ASSUME NEW input \in Seq(0 .. 255), NEW i \in DOMAIN Execute(input)
  PROVE  Execute(input)[i] \in Nat /\ Execute(input)[i] >= 2
  <1>1. ASSUME NEW b \in 0 .. 255
        PROVE  MagLUT(b) \in Nat /\ MagLUT(b) >= 1
    <2> DEFINE x == 255 - 2 * b
    <2>1. x \in Int /\ (x >= 1 \/ x <= -1)
      OBVIOUS
    <2>2. ASSUME NEW y \in Int, y >= 1 \/ y <= -1 PROVE y * y \in Nat /\ y * y >= 1
      BY <2>2
    <2> QED BY <2>1, <2>2 DEF MagLUT
  <1>2. i \in 1 .. Len(input) \div 2
    BY DEF Execute
  <1>3. 2 * i - 1 \in 1 .. Len(input) /\ 2 * i \in 1 .. Len(input)
    BY <1>2
  <1>4. \A j \in 1 .. Len(input) : input[j] \in 0 .. 255
    BY ElementOfSeq
  <1>5. Execute(input)[i] = MagLUT(input[2 * i - 1]) + MagLUT(input[2 * i])
    BY <1>2 DEF Execute
  <1>6. /\ MagLUT(input[2 * i - 1]) \in Nat /\ MagLUT(input[2 * i - 1]) >= 1
        /\ MagLUT(input[2 * i]) \in Nat /\ MagLUT(input[2 * i]) >= 1
    BY <1>1, <1>3, <1>4
  <1> QED BY <1>5, <1>6
=============================================================================
