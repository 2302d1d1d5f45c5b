------------------------------- MODULE Window -------------------------------
(***************************************************************************)
(* Which samples the r900 parser reads for a packet.  Decode keeps the     *)
(* newest samples in Signal and the bit decisions made from them in        *)
(* Quantized; the parser keeps a longer history of samples of its own,     *)
(* fills it from Signal after the fact, and finds the payload from the     *)
(* index of the preamble in Quantized.  Samples are stood for by their     *)
(* positions in the stream (those before its start are negative), bit and  *)
(* digit decisions by the position of the first sample they rest on.       *)
(***************************************************************************)
EXTENDS Integers

CONSTANTS
  ChipLength,
  PreambleSymbols,
  PacketSymbols,   \* the longest packet of all registered protocols
  PayloadSymbols,  \* digits in an r900 payload, of four chips each
  BlockSize,
  MaxBlocks

SymbolLength == 2 * ChipLength
DigitLength == 4 * ChipLength
PreambleLength == PreambleSymbols * SymbolLength
PacketLength == PacketSymbols * SymbolLength
BufferLength == PacketLength + BlockSize

(* Geometry.tla shows that registering the protocols establishes this.     *)
ASSUME WindowAssumption ==
  /\ ChipLength \in Nat \ {0} /\ PreambleSymbols \in Nat \ {0}
  /\ PacketSymbols \in Nat /\ PayloadSymbols \in Nat \ {0} /\ MaxBlocks \in Nat
  /\ BlockSize \in Nat /\ BlockSize >= SymbolLength
  /\ PreambleLength + PayloadSymbols * DigitLength <= PacketLength

VARIABLES
  pc,          \* "decode", "parse" or "packets"
  end,         \* samples received
  Signal,      \* the decoder's newest samples
  Quantized,   \* its bit decisions
  pkts,        \* indices of the packets still to be parsed
  p_signal,    \* the parser's samples
  p_quantized, \* its digit decisions
  payload      \* what the last packet was read from: [preamble, digits, chips]

vars == <<pc, end, Signal, Quantized, pkts, p_signal, p_quantized, payload>>

Digits == 0 .. PayloadSymbols - 1
Chips == 0 .. 3

TypeOK ==
  /\ pc \in {"decode", "parse", "packets"}
  /\ end \in 0 .. MaxBlocks * BlockSize
  /\ Signal \in [0 .. BlockSize + SymbolLength - 1 -> Int]
  /\ Quantized \in [0 .. BufferLength - 1 -> Int]
  /\ pkts \subseteq 0 .. BlockSize - 1
  /\ p_signal \in [0 .. BufferLength - 1 -> Int]
  /\ p_quantized \in [0 .. BufferLength - 1 -> Int]
  /\ payload \in [preamble : Int, digits : [Digits -> Int],
                  chips : [Digits -> [Chips -> Int]]]

(* The buffers are made of zeros, as if silence had come before the stream.*)
Init ==
  /\ pc = "decode" /\ end = 0 /\ pkts = {}
  /\ Signal = [i \in 0 .. BlockSize + SymbolLength - 1 |-> i - BlockSize - SymbolLength]
  /\ Quantized = [q \in 0 .. BufferLength - 1 |-> q - BufferLength - SymbolLength]
  /\ p_signal = [i \in 0 .. BufferLength - 1 |-> i - BufferLength]
  /\ p_quantized = p_signal
  /\ payload = [preamble |-> 0,
                digits |-> [k \in Digits |-> PreambleLength + k * DigitLength],
                chips |-> [k \in Digits |-> [c \in Chips |->
                             PreambleLength + k * DigitLength + c * ChipLength]]]
-----------------------------------------------------------------------------
(* Decode: shift both buffers, compute the new samples, filter; the search *)
(* may find a preamble at any of the first BlockSize indices.  The filter  *)
(* decides on the symbol that begins at its index, so it reaches back a    *)
(* symbol before the new block.                                            *)
Decode ==
  /\ pc = "decode"
  /\ end + BlockSize <= MaxBlocks * BlockSize
  /\ end' = end + BlockSize
  /\ Signal' = [i \in DOMAIN Signal |->
                  IF i < SymbolLength THEN Signal[i + BlockSize]
                  ELSE end + i - SymbolLength]
  /\ Quantized' = [q \in DOMAIN Quantized |->
                     IF q < PacketLength THEN Quantized[q + BlockSize]
                     ELSE Signal'[q - PacketLength]]
  /\ pkts' \in SUBSET (0 .. BlockSize - 1)
  /\ pc' = "parse"
  /\ UNCHANGED <<p_signal, p_quantized, payload>>

(* The history after a block.                                              *)
Shifted ==
  [i \in DOMAIN p_signal |->
     IF i < PacketLength THEN p_signal[i + BlockSize]
     ELSE Signal[i - PacketLength + SymbolLength]]

(* The digit decisions of the history; the last ones, which would reach    *)
(* beyond it, keep what they were.                                         *)
DigitsOf(samples) ==
  [i \in DOMAIN p_quantized |->
     IF i < BufferLength - DigitLength THEN samples[i] ELSE p_quantized[i]]

MutSkipQuietBlock ==
  /\ pc = "parse"
  /\ p_signal' = IF pkts = {} THEN p_signal ELSE Shifted
  /\ IF pkts = {} THEN pc' = "decode" /\ UNCHANGED p_quantized
                  ELSE pc' = "packets" /\ p_quantized' = DigitsOf(Shifted)
  /\ UNCHANGED <<end, Signal, Quantized, pkts, payload>>

(* Parse begins: the history takes the block even when there is nothing to *)
(* parse, the filter runs only when there is.                              *)
Parse ==
  /\ pc = "parse"
  /\ p_signal' = Shifted
  /\ IF pkts = {} THEN pc' = "decode" /\ UNCHANGED p_quantized
                  ELSE pc' = "packets" /\ p_quantized' = DigitsOf(Shifted)
  /\ UNCHANGED <<end, Signal, Quantized, pkts, payload>>

MutNotBackASymbol(idx) == idx + PreambleLength

(* Quantized looks back a symbol, the history does not.                    *)
payloadIdx(idx) == idx + PreambleLength - SymbolLength

(* One packet: the digits, and the chips whose energies give the RSSI.     *)
ParsePacket(idx) ==
  /\ pc = "packets"
  /\ idx \in pkts /\ \A other \in pkts : idx <= other
  /\ payload' =
       [preamble |-> Quantized[idx],
        digits |-> [k \in Digits |-> p_quantized[payloadIdx(idx) + k * DigitLength]],
        chips |-> [k \in Digits |-> [c \in Chips |->
          p_signal[payloadIdx(idx) + k * DigitLength + c * ChipLength]]]]
  /\ pkts' = pkts \ {idx}
  /\ pc' = IF pkts' = {} THEN "decode" ELSE "packets"
  /\ UNCHANGED <<end, Signal, Quantized, p_signal, p_quantized>>

(* The stream of the model is over.                                        *)
EndOfStream ==
  /\ pc = "decode" /\ end = MaxBlocks * BlockSize
  /\ UNCHANGED vars

Next == Decode \/ Parse \/ (\E idx \in pkts : ParsePacket(idx)) \/ EndOfStream

Spec == Init /\ [][Next]_vars
-----------------------------------------------------------------------------
(* Whatever blocks had packets, a packet is read from the samples right    *)
(* behind its own preamble, digit by digit and chip by chip, and the digit *)
(* decisions are those of this block.                                      *)
PayloadAligned ==
  /\ \A k \in Digits :
       payload.digits[k] = payload.preamble + PreambleLength + k * DigitLength
  /\ \A k \in Digits, c \in Chips :
       payload.chips[k][c] =
         payload.preamble + PreambleLength + k * DigitLength + c * ChipLength

(* Between two calls of Decode the two buffers hold the same stretch of    *)
(* the stream, the decisions a symbol behind the samples.                  *)
InLockStep ==
  pc = "decode" =>
    \A i \in 0 .. BufferLength - 1 : Quantized[i] = p_signal[i] - SymbolLength
=============================================================================
