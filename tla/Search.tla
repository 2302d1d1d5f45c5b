------------------------------- MODULE Search -------------------------------
(***************************************************************************)
(* The preamble search of protocol.Decoder over the stream of bit          *)
(* decisions: each block is appended to Quantized, and for each preamble   *)
(* Search narrows a list of candidates, first on bytes of eight decisions  *)
(* (a byte survives while it holds at least one decision equal to the      *)
(* preamble's), then on single positions; Slice cuts a packet at each      *)
(* position that is left.  One step is one pass over the list.             *)
(***************************************************************************)
EXTENDS Integers

CONSTANTS
  W,             \* decisions in a packed byte (8 in the code)
  SymbolBytes,   \* symLenByte: packed bytes in a symbol
  BlockBytes,    \* packed bytes in a block
  PacketSymbols,
  Preambles,     \* functions from 0 .. n - 1 to {0, 1}
  MaxBlocks

Bit == {0, 1}

(* Allocate and the registered protocols: a symbol is a whole number of    *)
(* bytes for every -symbollength, no preamble is longer than a packet.     *)
ASSUME SearchAssumption ==
  /\ W \in Nat \ {0} /\ SymbolBytes \in Nat \ {0} /\ BlockBytes \in Nat \ {0}
  /\ PacketSymbols \in Nat \ {0} /\ MaxBlocks \in Nat
  /\ \A pre \in Preambles :
       \E n \in 1 .. PacketSymbols : pre \in [0 .. n - 1 -> Bit]

SymbolLength == SymbolBytes * W
BlockSize == BlockBytes * W
PacketLength == PacketSymbols * SymbolLength
BufferLength == PacketLength + BlockSize

VARIABLES
  stream,    \* the decisions of the whole stream, by position (never read ahead)
  block,     \* blocks appended to Quantized
  Quantized, \* the newest BufferLength decisions, zero before the first block
  todo,      \* preambles still to be searched for in this block
  preamble,  \* the one being searched for
  phase,     \* "idle", "byte", "expand", "bit" or "slice"
  pIdx,      \* the preamble symbol of the next pass
  cand,      \* sIdxA, the list of candidates, bytes or positions (ascending)
  pkts,      \* the packets of the last Slice: [idx, bits]
  found      \* history: stream positions of the packets of each preamble

vars == <<stream, block, Quantized, todo, preamble, phase, pIdx, cand, pkts, found>>

Streams == [0 .. MaxBlocks * BlockSize - 1 -> Bit]

TypeOK ==
  /\ stream \in Streams
  /\ block \in 0 .. MaxBlocks
  /\ Quantized \in [0 .. BufferLength - 1 -> Bit]
  /\ todo \subseteq Preambles
  /\ preamble \in Preambles
  /\ phase \in {"idle", "byte", "expand", "bit", "slice"}
  /\ pIdx \in 0 .. PacketSymbols
  /\ cand \subseteq 0 .. BlockSize - 1

(* What the stream holds at a position; the buffer starts out with zeros.  *)
At(t) == IF t \in DOMAIN stream THEN stream[t] ELSE 0

(* The stream position of an index into Quantized.                         *)
Position(i) == block * BlockSize - BufferLength + i

Init ==
  /\ stream \in Streams
  /\ block = 0
  /\ Quantized = [i \in 0 .. BufferLength - 1 |-> 0]
  /\ todo = {}
  /\ preamble \in Preambles
  /\ phase = "idle" /\ pIdx = 0 /\ cand = {} /\ pkts = {}
  /\ found = [pre \in Preambles |-> {}]
-----------------------------------------------------------------------------
(* Decode: shift the buffer and append the decisions of the new block.     *)
Shift ==
  /\ phase = "idle" /\ todo = {}
  /\ block < MaxBlocks
  /\ block' = block + 1
  /\ Quantized' = [i \in 0 .. BufferLength - 1 |->
       IF i < PacketLength THEN Quantized[i + BlockSize]
                           ELSE stream[block * BlockSize + i - PacketLength]]
  /\ todo' = Preambles
  /\ UNCHANGED <<stream, preamble, phase, pIdx, cand, pkts, found>>

(* Search is called; its list is left over from the call before.           *)
Start ==
  /\ phase = "idle"
  /\ preamble' \in todo
  /\ todo' = todo \ {preamble'}
  /\ phase' = "byte" /\ pIdx' = 0
  /\ UNCHANGED <<stream, block, Quantized, cand, pkts, found>>

(* The byte b of `packed' is not the mask for this symbol, all ones for 0  *)
(* and all zeros for 1: some decision in it is the symbol.                 *)
MutByteIsAll(b, bit) == \A i \in 0 .. W - 1 : Quantized[b * W + i] = bit
ByteHas(b, bit) == \E i \in 0 .. W - 1 : Quantized[b * W + i] = bit

PreambleLen(pre) == CHOOSE n \in 1 .. PacketSymbols : DOMAIN pre = 0 .. n - 1

MutOneByteMore == IF pIdx = 0 THEN 0 .. BlockBytes ELSE cand

(* The bytes a pass looks at.                                              *)
Bytes == IF pIdx = 0 THEN 0 .. BlockBytes - 1 ELSE cand

(* The first pass makes the list, the others thin it out; an empty list    *)
(* after one of those ends the search with no packets.                     *)
BytePass ==
  /\ phase = "byte"
  /\ pIdx < PreambleLen(preamble)
  /\ cand' = {b \in Bytes : ByteHas(b + pIdx * SymbolBytes, preamble[pIdx])}
  /\ pIdx' = pIdx + 1
  /\ phase' = IF pIdx # 0 /\ cand' = {} THEN "slice"
              ELSE IF pIdx + 1 = PreambleLen(preamble) THEN "expand" ELSE "byte"
  /\ UNCHANGED <<stream, block, Quantized, todo, preamble, pkts, found>>

(* From bytes to the positions in them.                                    *)
Expand ==
  /\ phase = "expand"
  /\ cand' = {b * W + i : b \in cand, i \in 0 .. W - 1}
  /\ phase' = "bit" /\ pIdx' = 0
  /\ UNCHANGED <<stream, block, Quantized, todo, preamble, pkts, found>>

BitPass ==
  /\ phase = "bit"
  /\ pIdx < PreambleLen(preamble)
  /\ cand' = {i \in cand : Quantized[pIdx * SymbolLength + i] = preamble[pIdx]}
  /\ pIdx' = pIdx + 1
  /\ phase' = IF cand' = {} \/ pIdx + 1 = PreambleLen(preamble) THEN "slice" ELSE "bit"
  /\ UNCHANGED <<stream, block, Quantized, todo, preamble, pkts, found>>

MutLastPositionLost(i) == i < BlockSize - 1

(* Slice leaves positions beyond the block to the next one.                *)
InBlock(i) == i <= BlockSize

MutPacketAfterPreamble(i) ==
  [idx |-> i,
   bits |-> [j \in 0 .. PacketSymbols - 1 |->
               Quantized[(i + (j + 1) * SymbolLength) % BufferLength]]]

Packet(i) ==
  [idx |-> i,
   bits |-> [j \in 0 .. PacketSymbols - 1 |-> Quantized[i + j * SymbolLength]]]

Slice ==
  /\ phase = "slice"
  /\ LET within == {i \in cand : InBlock(i)} IN
     /\ pkts' = {Packet(i) : i \in within}
     /\ found' = [found EXCEPT ![preamble] = @ \cup {Position(i) : i \in within}]
  /\ phase' = "idle"
  /\ UNCHANGED <<stream, block, Quantized, todo, preamble, pIdx, cand>>

(* The stream of the model is over.                                        *)
EndOfStream ==
  /\ phase = "idle" /\ todo = {} /\ block = MaxBlocks
  /\ UNCHANGED vars

Next == Shift \/ Start \/ BytePass \/ Expand \/ BitPass \/ Slice \/ EndOfStream

Spec == Init /\ [][Next]_vars
-----------------------------------------------------------------------------
(* The reference: where a preamble is, in the buffer and in the stream.    *)
Matches(pre) ==
  {i \in 0 .. BlockSize - 1 :
     \A j \in DOMAIN pre : Quantized[i + j * SymbolLength] = pre[j]}

PreambleAt(pre, t) == \A j \in DOMAIN pre : At(t + j * SymbolLength) = pre[j]

(* The byte filter and the early returns lose nothing and add nothing: the *)
(* search ends with exactly the positions at which the preamble is.        *)
SearchExact == phase = "slice" => cand = Matches(preamble)

(* No position of the stream is looked at in two blocks: a packet of the   *)
(* next block is none of those found before.                               *)
FoundOnce ==
  [][found' # found =>
       \A i \in cand : Position(i) \notin found[preamble]]_vars

(* Between two blocks every preamble that began a packet's length and a    *)
(* block ago or earlier has been found.                                    *)
NoneOverlooked ==
  (phase = "idle" /\ todo = {}) =>
    \A pre \in Preambles :
      found[pre] = {t \in BlockSize - BufferLength .. Position(BlockSize - 1) :
                      block > 0 /\ PreambleAt(pre, t)}

(* A packet is whole: every one of its symbols is the stream's, and it     *)
(* begins with the preamble.  (With every preamble still to be searched    *)
(* for, the packets are those of the block before.)                        *)
PacketsWhole ==
  (phase = "idle" /\ todo # Preambles) =>
    \A pkt \in pkts :
      /\ \A j \in 0 .. PacketSymbols - 1 :
           pkt.bits[j] = At(Position(pkt.idx) + j * SymbolLength)
      /\ \A j \in DOMAIN preamble : pkt.bits[j] = preamble[j]
=============================================================================
