---------------------------- MODULE SearchProofs ----------------------------
(***************************************************************************)
(* The search is exact, for every byte width, symbol length, block size,   *)
(* packet length, set of preambles and stream.  What the byte passes need  *)
(* is only that they never drop a byte that holds a match; the bit passes  *)
(* then leave nothing else.                                                *)
(***************************************************************************)
EXTENDS Search, TLAPS

(* The bytes in which some match begins.                                   *)
BytesOfMatches ==
  {b \in 0 .. BlockBytes - 1 : \E i \in 0 .. W - 1 : b * W + i \in Matches(preamble)}

ByteCandidates ==
  (phase = "byte" /\ pIdx # 0) \/ phase = "expand" =>
    /\ BytesOfMatches \subseteq cand
    /\ cand \subseteq 0 .. BlockBytes - 1

BitCandidates ==
  phase = "bit" =>
    /\ Matches(preamble) \subseteq cand
    /\ cand \subseteq 0 .. BlockSize - 1
    /\ \A i \in cand : \A j \in 0 .. pIdx - 1 :
         Quantized[i + j * SymbolLength] = preamble[j]

PassInRange ==
  phase \in {"byte", "bit"} => pIdx < PreambleLen(preamble)

IInv == TypeOK /\ PassInRange /\ ByteCandidates /\ BitCandidates /\ SearchExact
-----------------------------------------------------------------------------
LEMMA Sizes ==
  /\ SymbolLength \in Nat \ {0} /\ BlockSize \in Nat \ {0}
  /\ PacketLength \in Nat \ {0} /\ BufferLength \in Nat
  /\ BlockBytes <= BlockSize
  /\ SymbolLength <= PacketLength
BY SearchAssumption DEF SymbolLength, BlockSize, PacketLength, BufferLength

LEMMA LengthIs ==
  ASSUME NEW pre \in Preambles
  PROVE  PreambleLen(pre) \in 1 .. PacketSymbols /\ DOMAIN pre = 0 .. PreambleLen(pre) - 1
<1>1. PICK n \in 1 .. PacketSymbols : pre \in [0 .. n - 1 -> Bit]
  BY SearchAssumption
<1>2. DOMAIN pre = 0 .. n - 1
  BY <1>1
<1> QED
  BY <1>2 DEF PreambleLen

(* Every position of a block lies in one of its bytes.                     *)
LEMMA ByteOf ==
  ASSUME NEW m \in 0 .. BlockSize - 1
  PROVE  \E b \in 0 .. BlockBytes - 1, i \in 0 .. W - 1 : m = b * W + i
<1> DEFINE b == m \div W
           i == m % W
<1>0. m \in Int /\ W \in Int /\ W > 0
  BY SearchAssumption, Sizes
<1> HIDE DEF b, i
<1>1. b \in Int /\ i \in 0 .. W - 1 /\ m = b * W + i
  <2>1. b \in Int
    BY <1>0 DEF b
  <2>2. i \in 0 .. W - 1
    BY <1>0 DEF i
  <2>3. m = b * W + i
    BY <1>0 DEF b, i
  <2> QED BY <2>1, <2>2, <2>3
<1>2. b >= 0
  BY <1>1, SearchAssumption
<1>3. b < BlockBytes
  BY <1>1, SearchAssumption DEF BlockSize
<1>4. b \in 0 .. BlockBytes - 1
  BY <1>1, <1>2, <1>3, SearchAssumption
<1> QED
  BY <1>1, <1>4, Zenon

(* A byte and the one j symbols later hold decisions j symbols apart.      *)
LEMMA SymbolsApart ==
  ASSUME NEW b \in Int, NEW i \in Int, NEW j \in Int
  PROVE  (b + j * SymbolBytes) * W + i = (b * W + i) + j * SymbolLength
BY SearchAssumption DEF SymbolLength

(* ... and begins within the block.                                        *)
LEMMA PositionInBlock ==
  ASSUME NEW b \in 0 .. BlockBytes - 1, NEW i \in 0 .. W - 1
  PROVE  b * W + i \in 0 .. BlockSize - 1
<1>1. b * W <= (BlockBytes - 1) * W
  BY SearchAssumption
<1>2. (BlockBytes - 1) * W = BlockSize - W
  BY SearchAssumption DEF BlockSize
<1>3. b * W \in Nat
  BY SearchAssumption
<1> QED
  BY <1>1, <1>2, <1>3, SearchAssumption, Sizes
-----------------------------------------------------------------------------
LEMMA InitIInv == Init => IInv
<1> SUFFICES ASSUME Init PROVE IInv
  OBVIOUS
<1>1. TypeOK
  BY SearchAssumption, Sizes DEF Init, TypeOK, Bit
<1> QED
  BY <1>1 DEF Init, IInv, PassInRange, ByteCandidates, BitCandidates, SearchExact

LEMMA ShiftStep == IInv /\ Shift => IInv'
<1> SUFFICES ASSUME IInv, Shift PROVE IInv'
  OBVIOUS
<1>1. TypeOK'
  <2>1. \A i \in 0 .. BufferLength - 1 : Quantized'[i] \in Bit
    <3> SUFFICES ASSUME NEW i \in 0 .. BufferLength - 1 PROVE Quantized'[i] \in Bit
      OBVIOUS
    <3>1. CASE i < PacketLength
      <4>1. i + BlockSize \in 0 .. BufferLength - 1
        BY <3>1, Sizes DEF BufferLength
      <4> QED
        BY <3>1, <4>1 DEF Shift, IInv, TypeOK
    <3>2. CASE i >= PacketLength
      <4> DEFINE n == i - PacketLength
      <4>1. n \in 0 .. BlockSize - 1
        BY <3>2, Sizes DEF BufferLength
      <4>2. block \in Nat /\ block + 1 <= MaxBlocks /\ MaxBlocks \in Nat
        BY SearchAssumption DEF Shift, IInv, TypeOK
      <4>3. block * BlockSize \in Nat /\ (block + 1) * BlockSize <= MaxBlocks * BlockSize
        BY <4>2, Sizes
      <4>4. (block + 1) * BlockSize = block * BlockSize + BlockSize
        BY <4>2, Sizes
      <4>5. block * BlockSize + n \in 0 .. MaxBlocks * BlockSize - 1
        BY <4>1, <4>2, <4>3, <4>4, Sizes
      <4>6. block * BlockSize + i - PacketLength = block * BlockSize + n
        BY <4>2, <4>3, Sizes
      <4> QED
        BY <3>2, <4>5, <4>6, Sizes DEF Shift, IInv, TypeOK, Streams
    <3> QED
      BY <3>1, <3>2, Sizes
  <2>2. Quantized' \in [0 .. BufferLength - 1 -> Bit]
    BY <2>1 DEF Shift
  <2> QED
    BY <2>2, SearchAssumption DEF Shift, IInv, TypeOK
<1> QED
  BY <1>1 DEF Shift, IInv, PassInRange, ByteCandidates, BitCandidates, SearchExact

LEMMA StartStep == IInv /\ Start => IInv'
<1> SUFFICES ASSUME IInv, Start PROVE IInv'
  OBVIOUS
<1>1. TypeOK'
  BY SearchAssumption DEF Start, IInv, TypeOK
<1>2. PassInRange'
  BY <1>1, LengthIs DEF Start, PassInRange, TypeOK
<1> QED
  BY <1>1, <1>2 DEF Start, IInv, ByteCandidates, BitCandidates, SearchExact

(* A byte pass keeps every byte in which a match begins: the decision that *)
(* equals the symbol is in the byte the pass looks at.                     *)
LEMMA BytePassStep == IInv /\ BytePass => IInv'
<1> SUFFICES ASSUME IInv, BytePass PROVE IInv'
  OBVIOUS
<1>0. /\ PreambleLen(preamble) \in 1 .. PacketSymbols
      /\ DOMAIN preamble = 0 .. PreambleLen(preamble) - 1
      /\ pIdx \in DOMAIN preamble
  BY LengthIs DEF BytePass, IInv, TypeOK
<1>1. Bytes \subseteq 0 .. BlockBytes - 1 /\ BytesOfMatches \subseteq Bytes
  BY DEF IInv, ByteCandidates, BytePass, BytesOfMatches, Bytes
<1>2. cand' = {b \in Bytes : ByteHas(b + pIdx * SymbolBytes, preamble[pIdx])}
  BY DEF BytePass
<1>3. BytesOfMatches \subseteq cand'
  <2> SUFFICES ASSUME NEW b \in BytesOfMatches
               PROVE  ByteHas(b + pIdx * SymbolBytes, preamble[pIdx])
    BY <1>1, <1>2
  <2>1. PICK i \in 0 .. W - 1 : b * W + i \in Matches(preamble)
    BY DEF BytesOfMatches
  <2>2. Quantized[(b * W + i) + pIdx * SymbolLength] = preamble[pIdx]
    BY <1>0, <2>1 DEF Matches
  <2>3. b \in Int /\ i \in Int /\ pIdx \in Int
    BY SearchAssumption DEF BytesOfMatches, IInv, TypeOK
  <2>4. Quantized[(b + pIdx * SymbolBytes) * W + i] = preamble[pIdx]
    BY <2>2, <2>3, SymbolsApart
  <2> QED
    BY <2>4 DEF ByteHas
<1>4. cand' \subseteq 0 .. BlockBytes - 1
  BY <1>1, <1>2
<1>5. TypeOK'
  <2>1. cand' \subseteq 0 .. BlockSize - 1
    BY <1>4, Sizes, SearchAssumption
  <2>2. pIdx' \in 0 .. PacketSymbols
    BY <1>0, SearchAssumption DEF BytePass, IInv, TypeOK
  <2> QED
    BY <2>1, <2>2 DEF BytePass, IInv, TypeOK
<1>6. PassInRange'
  BY <1>0, SearchAssumption DEF BytePass, IInv, TypeOK, PassInRange
<1>7. ByteCandidates'
  BY <1>3, <1>4 DEF ByteCandidates, BytesOfMatches, Matches, BytePass
<1>8. BitCandidates'
  BY DEF BytePass, BitCandidates
<1>9. SearchExact'
  <2> SUFFICES ASSUME phase' = "slice" PROVE cand' = Matches(preamble)
    BY DEF SearchExact, BytePass, Matches
  <2>1. cand' = {} /\ BytesOfMatches = {}
    BY <1>3 DEF BytePass
  <2>2. ASSUME NEW m \in Matches(preamble) PROVE FALSE
    <3>1. PICK b \in 0 .. BlockBytes - 1, i \in 0 .. W - 1 : m = b * W + i
      BY ByteOf DEF Matches
    <3>2. b \in BytesOfMatches
      BY <3>1 DEF BytesOfMatches
    <3> QED
      BY <2>1, <3>2
  <2> QED
    BY <2>1, <2>2
<1> QED
  BY <1>5, <1>6, <1>7, <1>8, <1>9 DEF IInv

LEMMA ExpandStep == IInv /\ Expand => IInv'
<1> SUFFICES ASSUME IInv, Expand PROVE IInv'
  OBVIOUS
<1>1. BytesOfMatches \subseteq cand /\ cand \subseteq 0 .. BlockBytes - 1
  BY DEF IInv, ByteCandidates, Expand
<1>2. cand' = {b * W + i : b \in cand, i \in 0 .. W - 1}
  BY DEF Expand
<1>3. cand' \subseteq 0 .. BlockSize - 1
  <2> SUFFICES ASSUME NEW b \in cand, NEW i \in 0 .. W - 1
               PROVE  b * W + i \in 0 .. BlockSize - 1
    BY <1>2
  <2> QED
    BY <1>1, PositionInBlock
<1>4. Matches(preamble) \subseteq cand'
  <2> SUFFICES ASSUME NEW m \in Matches(preamble) PROVE m \in cand'
    OBVIOUS
  <2>1. PICK b \in 0 .. BlockBytes - 1, i \in 0 .. W - 1 : m = b * W + i
    BY ByteOf DEF Matches
  <2>2. b \in cand
    BY <1>1, <2>1 DEF BytesOfMatches
  <2> QED
    BY <1>2, <2>1, <2>2
<1>5. TypeOK'
  BY <1>3, SearchAssumption DEF Expand, IInv, TypeOK
<1>6. PassInRange'
  BY LengthIs DEF Expand, IInv, TypeOK, PassInRange
<1>7. BitCandidates'
  BY <1>3, <1>4 DEF Expand, BitCandidates, Matches
<1> QED
  BY <1>5, <1>6, <1>7 DEF IInv, Expand, ByteCandidates, SearchExact

LEMMA BitPassStep == IInv /\ BitPass => IInv'
<1> SUFFICES ASSUME IInv, BitPass PROVE IInv'
  OBVIOUS
<1>0. /\ PreambleLen(preamble) \in 1 .. PacketSymbols
      /\ DOMAIN preamble = 0 .. PreambleLen(preamble) - 1
      /\ pIdx \in DOMAIN preamble
      /\ pIdx \in Nat /\ SymbolLength \in Nat
  BY LengthIs, Sizes, SearchAssumption DEF BitPass, IInv, TypeOK
<1>1. /\ Matches(preamble) \subseteq cand
      /\ cand \subseteq 0 .. BlockSize - 1
      /\ \A i \in cand : \A j \in 0 .. pIdx - 1 :
           Quantized[i + j * SymbolLength] = preamble[j]
  BY DEF IInv, BitCandidates, BitPass
<1>2. cand' = {i \in cand : Quantized[i + pIdx * SymbolLength] = preamble[pIdx]}
  <2>1. \A i \in cand : pIdx * SymbolLength + i = i + pIdx * SymbolLength
    BY <1>0, <1>1, Sizes
  <2> QED
    BY <2>1 DEF BitPass
<1>3. Matches(preamble) \subseteq cand'
  BY <1>0, <1>1, <1>2 DEF Matches
<1>4. \A i \in cand' : \A j \in 0 .. pIdx :
        Quantized[i + j * SymbolLength] = preamble[j]
  <2>1. \A j \in 0 .. pIdx : j = pIdx \/ j \in 0 .. pIdx - 1
    BY <1>0
  <2> QED
    BY <1>1, <1>2, <2>1
<1>5. TypeOK'
  <2>1. pIdx' \in 0 .. PacketSymbols
    BY <1>0, SearchAssumption DEF BitPass
  <2>2. cand' \subseteq 0 .. BlockSize - 1
    BY <1>1, <1>2
  <2> QED
    BY <2>1, <2>2 DEF BitPass, IInv, TypeOK
<1>6. PassInRange'
  BY <1>0, SearchAssumption DEF BitPass, IInv, TypeOK, PassInRange
<1>7. BitCandidates'
  <2>1. pIdx' - 1 = pIdx
    BY <1>0 DEF BitPass
  <2> QED
    BY <1>1, <1>2, <1>3, <1>4, <2>1 DEF BitPass, BitCandidates, Matches
<1>8. SearchExact'
  <2> SUFFICES ASSUME phase' = "slice" PROVE cand' = Matches(preamble)
    BY DEF SearchExact, BitPass, Matches
  <2>1. CASE cand' = {}
    BY <1>3, <2>1
  <2>2. CASE pIdx + 1 = PreambleLen(preamble)
    <3>1. DOMAIN preamble = 0 .. pIdx
      BY <1>0, <2>2
    <3>2. cand' \subseteq Matches(preamble)
      BY <1>1, <1>2, <1>4, <3>1 DEF Matches
    <3> QED
      BY <1>3, <3>2
  <2> QED
    BY <2>1, <2>2 DEF BitPass
<1> QED
  BY <1>5, <1>6, <1>7, <1>8 DEF IInv, BitPass, ByteCandidates

LEMMA SliceStep == IInv /\ Slice => IInv'
BY DEF Slice, IInv, TypeOK, PassInRange, ByteCandidates, BitCandidates, SearchExact

LEMMA NextIInv == IInv /\ [Next]_vars => IInv'
<1> SUFFICES ASSUME IInv, [Next]_vars PROVE IInv'
  OBVIOUS
<1>1. CASE EndOfStream \/ UNCHANGED vars
  <2> USE <1>1 DEF EndOfStream, vars
  <2>1. TypeOK' /\ PassInRange'
    BY DEF IInv, TypeOK, PassInRange
  <2>2. Matches(preamble)' = Matches(preamble) /\ BytesOfMatches' = BytesOfMatches
    BY DEF Matches, BytesOfMatches
  <2>3. ByteCandidates'
    BY <2>2 DEF IInv, ByteCandidates
  <2>4. BitCandidates' /\ SearchExact'
    BY <2>2 DEF IInv, BitCandidates, SearchExact
  <2> QED
    BY <2>1, <2>3, <2>4 DEF IInv
<1> QED
  BY <1>1, ShiftStep, StartStep, BytePassStep, ExpandStep, BitPassStep, SliceStep
     DEF Next

THEOREM Invariance == Spec => []IInv
BY InitIInv, NextIInv, PTL DEF Spec

(* The search keeps its types; in particular every candidate is a position *)
(* of the newest block's length at the head of the buffer.                 *)
THEOREM TypeCorrect == Spec => []TypeOK
<1>1. IInv => TypeOK
  BY DEF IInv
<1> QED
  BY <1>1, Invariance, PTL

(* Search returns exactly the positions at which the preamble is.          *)
THEOREM SearchCorrect == Spec => []SearchExact
<1>1. IInv => SearchExact
  BY DEF IInv
<1> QED
  BY <1>1, Invariance, PTL
-----------------------------------------------------------------------------
(* Block after block: the buffer holds the newest part of the stream, so   *)
(* what Matches finds in it are preambles of the stream, and the positions *)
(* of one block follow on those of the block before.                       *)
BufferIsStream ==
  \A i \in 0 .. BufferLength - 1 : Quantized[i] = At(Position(i))

(* The preambles that the first k blocks show.                             *)
Shown(pre, k) ==
  {t \in BlockSize - BufferLength .. k * BlockSize - BufferLength + BlockSize - 1 :
     k > 0 /\ PreambleAt(pre, t)}

Pending(pre) == pre \in todo \/ (phase # "idle" /\ pre = preamble)

FoundIsShown ==
  /\ found \in [Preambles -> SUBSET Int]
  /\ \A pre \in Preambles :
       found[pre] = Shown(pre, IF Pending(pre) THEN block - 1 ELSE block)

SearchedOnce ==
  /\ phase # "idle" => preamble \notin todo
  /\ block = 0 => phase = "idle" /\ todo = {}

StreamInv == BufferIsStream /\ FoundIsShown /\ SearchedOnce

LEMMA SymbolInBuffer ==
  ASSUME NEW i \in 0 .. BlockSize - 1, NEW j \in 0 .. PacketSymbols - 1
  PROVE  i + j * SymbolLength \in 0 .. BufferLength - 1
<1>1. j * SymbolLength <= (PacketSymbols - 1) * SymbolLength
  BY Sizes, SearchAssumption
<1>2. (PacketSymbols - 1) * SymbolLength = PacketLength - SymbolLength
  BY Sizes, SearchAssumption DEF PacketLength
<1>3. j * SymbolLength \in Nat
  BY Sizes, SearchAssumption
<1> QED
  BY <1>1, <1>2, <1>3, Sizes DEF BufferLength

LEMMA MatchesAreInStream ==
  ASSUME IInv, BufferIsStream, NEW pre \in Preambles, NEW i \in 0 .. BlockSize - 1
  PROVE  i \in Matches(pre) <=> PreambleAt(pre, Position(i))
<1>1. \A j \in DOMAIN pre : j \in 0 .. PacketSymbols - 1
  BY LengthIs, SearchAssumption
<1>2. \A j \in DOMAIN pre :
        Quantized[i + j * SymbolLength] = At(Position(i) + j * SymbolLength)
  <2> SUFFICES ASSUME NEW j \in DOMAIN pre
               PROVE  Quantized[i + j * SymbolLength] = At(Position(i) + j * SymbolLength)
    OBVIOUS
  <2>1. Quantized[i + j * SymbolLength] = At(Position(i + j * SymbolLength))
    BY <1>1, SymbolInBuffer DEF BufferIsStream
  <2>2. block * BlockSize \in Int /\ BufferLength \in Int /\ j * SymbolLength \in Int
    BY <1>1, Sizes, SearchAssumption DEF IInv, TypeOK
  <2>3. Position(i + j * SymbolLength) = Position(i) + j * SymbolLength
    BY <2>2 DEF Position
  <2> QED
    BY <2>1, <2>3
<1> QED
  BY <1>2 DEF Matches, PreambleAt

LEMMA InitStream == Init => StreamInv
<1> SUFFICES ASSUME Init PROVE StreamInv
  OBVIOUS
<1>1. BufferIsStream
  <2> SUFFICES ASSUME NEW i \in 0 .. BufferLength - 1 PROVE At(Position(i)) = 0
    BY DEF BufferIsStream, Init
  <2>1. Position(i) < 0
    BY Sizes DEF Position, Init
  <2>2. Position(i) \notin DOMAIN stream
    BY <2>1 DEF Init, Streams
  <2> QED
    BY <2>2 DEF At
<1>2. FoundIsShown
  BY DEF FoundIsShown, Shown, Pending, Init
<1> QED
  BY <1>1, <1>2 DEF StreamInv, SearchedOnce, Init

LEMMA ShiftStream == IInv /\ StreamInv /\ Shift => StreamInv'
<1> SUFFICES ASSUME IInv, StreamInv, Shift PROVE StreamInv'
  OBVIOUS
<1>0. /\ block \in Nat /\ block + 1 <= MaxBlocks /\ MaxBlocks \in Nat
      /\ BlockSize \in Nat \ {0} /\ PacketLength \in Nat \ {0}
      /\ BufferLength = PacketLength + BlockSize
      /\ DOMAIN stream = 0 .. MaxBlocks * BlockSize - 1
  BY Sizes, SearchAssumption DEF Shift, IInv, TypeOK, BufferLength, Streams
<1>1. /\ block * BlockSize \in Nat
      /\ (block + 1) * BlockSize = block * BlockSize + BlockSize
      /\ (block + 1) * BlockSize <= MaxBlocks * BlockSize
      /\ MaxBlocks * BlockSize \in Nat
  BY <1>0
<1>2. BufferIsStream'
  <2> SUFFICES ASSUME NEW i \in 0 .. BufferLength - 1
               PROVE  Quantized'[i] = At(Position(i))'
    BY DEF BufferIsStream
  <2> DEFINE t == block * BlockSize + BlockSize - BufferLength + i
  <2>0. At(Position(i))' = At(t)
    <3>1. Position(i)' = t
      BY <1>0, <1>1 DEF Position, Shift
    <3> QED
      BY <3>1 DEF At, Shift
  <2>1. i \in Int /\ BufferLength \in Int /\ BlockSize \in Int
    BY <1>0
  <2>2. CASE i < PacketLength
    <3>1. i + BlockSize \in 0 .. BufferLength - 1
      BY <2>2, <1>0
    <3>2. Quantized'[i] = At(Position(i + BlockSize))
      BY <2>2, <3>1 DEF Shift, StreamInv, BufferIsStream
    <3>3. Position(i + BlockSize) = t
      <4> DEFINE s == block * BlockSize
      <4>1. s \in Int
        BY <1>1
      <4> HIDE DEF s
      <4>2. s - BufferLength + (i + BlockSize) = s + BlockSize - BufferLength + i
        BY <2>1, <4>1
      <4> QED
        BY <4>2 DEF Position, s
    <3> QED
      BY <2>0, <3>2, <3>3
  <2>3. CASE i >= PacketLength
    <3>1. t = block * BlockSize + i - PacketLength
      BY <2>1, <1>0, <1>1
    <3>2. t \in DOMAIN stream
      <4> DEFINE s == block * BlockSize
                 last == MaxBlocks * BlockSize
      <4>1. s \in Nat /\ last \in Nat /\ s + BlockSize <= last
        BY <1>1
      <4> HIDE DEF s, last
      <4>2. s + i - PacketLength \in 0 .. last - 1
        BY <4>1, <2>1, <2>3, <1>0
      <4> QED
        BY <4>2, <3>1, <1>0 DEF s, last
    <3>3. Quantized'[i] = stream[t]
      BY <2>3, <3>1, <1>0 DEF Shift
    <3> QED
      BY <2>0, <3>2, <3>3 DEF At
  <2> QED
    BY <2>2, <2>3, <1>0
<1>3. FoundIsShown'
  <2>1. \A pre \in Preambles : ~Pending(pre) /\ Pending(pre)'
    BY DEF Pending, Shift
  <2>2. \A pre \in Preambles : found'[pre] = Shown(pre, block)
    BY <2>1 DEF StreamInv, FoundIsShown, Shift
  <2>3. ASSUME NEW pre \in Preambles PROVE Shown(pre, block - 1)' = Shown(pre, block)
    <3>1. block' - 1 = block
      BY <1>0 DEF Shift
    <3>2. \A t : PreambleAt(pre, t)' <=> PreambleAt(pre, t)
      BY DEF Shift, PreambleAt, At
    <3> QED
      BY <3>1, <3>2 DEF Shown
  <2> QED
    BY <2>1, <2>2, <2>3 DEF FoundIsShown, StreamInv, Shift
<1>4. SearchedOnce'
  BY <1>0 DEF SearchedOnce, Shift
<1> QED
  BY <1>2, <1>3, <1>4 DEF StreamInv

(* A search that starts or goes on reads the buffer and finds nothing yet. *)
LEMMA PassStream ==
  IInv /\ StreamInv /\ (Start \/ BytePass \/ Expand \/ BitPass) => StreamInv'
<1> SUFFICES ASSUME IInv, StreamInv, Start \/ BytePass \/ Expand \/ BitPass
             PROVE  StreamInv'
  OBVIOUS
<1>1. UNCHANGED <<stream, block, Quantized, found>>
  BY DEF Start, BytePass, Expand, BitPass
<1>2. \A pre \in Preambles : Pending(pre)' <=> Pending(pre)
  BY DEF Start, BytePass, Expand, BitPass, Pending
<1>3. BufferIsStream'
  BY <1>1 DEF StreamInv, BufferIsStream, At, Position
<1>4. FoundIsShown'
  <2>1. \A pre \in Preambles, k \in Int : Shown(pre, k)' = Shown(pre, k)
    BY <1>1 DEF Shown, PreambleAt, At
  <2>2. block \in Int
    BY DEF IInv, TypeOK
  <2>3. ASSUME NEW pre \in Preambles
        PROVE  found'[pre] = Shown(pre, IF Pending(pre) THEN block - 1 ELSE block)'
    <3>1. found[pre] = Shown(pre, IF Pending(pre) THEN block - 1 ELSE block)
      BY DEF StreamInv, FoundIsShown
    <3>2. CASE Pending(pre)
      BY <3>1, <3>2, <2>1, <2>2, <1>1, <1>2 DEF Shown
    <3>3. CASE ~Pending(pre)
      BY <3>1, <3>3, <2>1, <2>2, <1>1, <1>2 DEF Shown
    <3> QED
      BY <3>2, <3>3
  <2> QED
    BY <2>3, <1>1 DEF StreamInv, FoundIsShown
<1>5. SearchedOnce'
  BY DEF Start, BytePass, Expand, BitPass, StreamInv, SearchedOnce
<1> QED
  BY <1>3, <1>4, <1>5 DEF StreamInv

(* The positions of a block are new, and they extend what was shown.       *)
LEMMA NewPositions ==
  ASSUME IInv, StreamInv, Slice
  PROVE  /\ \A i \in cand : Position(i) \notin found[preamble]
         /\ found' = [found EXCEPT ![preamble] = @ \cup {Position(i) : i \in cand}]
         /\ found[preamble] \cup {Position(i) : i \in cand} = Shown(preamble, block)
<1> DEFINE s == block * BlockSize
           first == BlockSize - BufferLength
<1>1. /\ block \in Nat /\ block > 0 /\ BlockSize \in Nat \ {0}
      /\ BufferLength \in Nat /\ preamble \in Preambles
      /\ cand \subseteq 0 .. BlockSize - 1
  BY Sizes DEF IInv, TypeOK, StreamInv, SearchedOnce, Slice
<1>2. s \in Int /\ s >= BlockSize /\ (block - 1) * BlockSize = s - BlockSize
  BY <1>1
<1>3. cand = {i \in 0 .. BlockSize - 1 : PreambleAt(preamble, Position(i))}
  <2>1. cand = Matches(preamble)
    BY DEF IInv, SearchExact, Slice
  <2> QED
    BY <1>1, <2>1, MatchesAreInStream DEF Matches, StreamInv
<1>4. found[preamble] = Shown(preamble, block - 1)
  BY <1>1 DEF StreamInv, FoundIsShown, Pending, Slice
<1>5. \A i \in Int : Position(i) = s - BufferLength + i
  BY DEF Position
<1> HIDE DEF s
<1>6. Shown(preamble, block - 1) =
        {t \in first .. s - BufferLength - 1 : block - 1 > 0 /\ PreambleAt(preamble, t)}
  <2>1. s - BlockSize - BufferLength + BlockSize - 1 = s - BufferLength - 1
    BY <1>1, <1>2
  <2> QED
    BY <1>2, <2>1 DEF Shown
<1>7. Shown(preamble, block) =
        {t \in first .. s - BufferLength + BlockSize - 1 : PreambleAt(preamble, t)}
  BY <1>1 DEF Shown, s
<1>8. {Position(i) : i \in cand} =
        {t \in s - BufferLength .. s - BufferLength + BlockSize - 1 :
           PreambleAt(preamble, t)}
  <2>1. ASSUME NEW i \in cand
        PROVE  /\ Position(i) \in s - BufferLength .. s - BufferLength + BlockSize - 1
               /\ PreambleAt(preamble, Position(i))
    BY <1>1, <1>2, <1>3, <1>5
  <2>2. ASSUME NEW t \in s - BufferLength .. s - BufferLength + BlockSize - 1,
               PreambleAt(preamble, t)
        PROVE  \E i \in cand : t = Position(i)
    <3> DEFINE i == t - (s - BufferLength)
    <3>1. i \in 0 .. BlockSize - 1 /\ i \in Int /\ s - BufferLength + i = t
      BY <1>1, <1>2
    <3>2. Position(i) = t
      BY <3>1, <1>5
    <3>3. i \in cand
      BY <3>1, <3>2, <2>2, <1>3
    <3> QED
      BY <3>2, <3>3
  <2> QED
    BY <2>1, <2>2
<1>9. block - 1 > 0 \/ s - BufferLength - 1 < first
  <2>1. CASE block = 1
    <3>1. s = BlockSize
      BY <2>1, <1>1 DEF s
    <3> QED
      BY <3>1, <1>1
  <2> QED
    BY <2>1, <1>1
<1>10. \A i \in cand : Position(i) \notin found[preamble]
  BY <1>1, <1>2, <1>4, <1>5, <1>6
<1>11. \A i \in cand : i <= BlockSize
  BY <1>1
<1>12. found' = [found EXCEPT ![preamble] = @ \cup {Position(i) : i \in cand}]
  <2>1. {i \in cand : InBlock(i)} = cand
    BY <1>11 DEF InBlock
  <2> QED
    BY <2>1 DEF Slice
<1>13. found[preamble] \cup {Position(i) : i \in cand} = Shown(preamble, block)
  <2> DEFINE before == first .. s - BufferLength - 1
             now == s - BufferLength .. s - BufferLength + BlockSize - 1
             all == first .. s - BufferLength + BlockSize - 1
  <2>1. \A t \in before : block - 1 > 0
    BY <1>1, <1>2, <1>9
  <2>2. all = before \cup now
    BY <1>1, <1>2
  <2> QED
    BY <1>4, <1>6, <1>7, <1>8, <2>1, <2>2
<1> QED
  BY <1>10, <1>12, <1>13

LEMMA SliceStream == IInv /\ StreamInv /\ Slice => StreamInv'
<1> SUFFICES ASSUME IInv, StreamInv, Slice PROVE StreamInv'
  OBVIOUS
<1>0. UNCHANGED <<stream, block, Quantized, todo, preamble>> /\ phase' = "idle"
  BY DEF Slice
<1>1. BufferIsStream'
  BY <1>0 DEF StreamInv, BufferIsStream, At, Position
<1>2. \A pre \in Preambles : Shown(pre, block - 1)' = Shown(pre, block - 1)
                          /\ Shown(pre, block)' = Shown(pre, block)
  BY <1>0 DEF Shown, PreambleAt, At
<1>3. found \in [Preambles -> SUBSET Int] /\ preamble \in Preambles
  BY DEF StreamInv, FoundIsShown, IInv, TypeOK
<1>4. Shown(preamble, block) \in SUBSET Int
  BY Sizes DEF Shown, IInv, TypeOK
<1>5. found'[preamble] = Shown(preamble, block)
  BY <1>3, NewPositions
<1>6. \A pre \in Preambles \ {preamble} : found'[pre] = found[pre]
  BY <1>3, NewPositions
<1>7. found' \in [Preambles -> SUBSET Int]
  BY <1>3, <1>4, NewPositions
<1>8. ASSUME NEW pre \in Preambles
      PROVE  found'[pre] = Shown(pre, IF Pending(pre) THEN block - 1 ELSE block)'
  <2>1. CASE pre = preamble
    <3>1. ~Pending(pre)'
      BY <2>1, <1>0 DEF Pending, StreamInv, SearchedOnce, Slice
    <3>2. Shown(pre, IF Pending(pre) THEN block - 1 ELSE block)' = Shown(pre, block)'
      BY <3>1 DEF Shown
    <3> QED
      BY <3>2, <2>1, <1>2, <1>5
  <2>2. CASE pre # preamble
    <3>1. Pending(pre)' <=> Pending(pre)
      BY <2>2, <1>0 DEF Pending
    <3>2. found[pre] = Shown(pre, IF Pending(pre) THEN block - 1 ELSE block)
      BY DEF StreamInv, FoundIsShown
    <3>3. CASE Pending(pre)
      BY <3>1, <3>2, <3>3, <2>2, <1>2, <1>6 DEF Shown
    <3>4. CASE ~Pending(pre)
      BY <3>1, <3>2, <3>4, <2>2, <1>2, <1>6 DEF Shown
    <3> QED
      BY <3>3, <3>4
  <2> QED
    BY <2>1, <2>2
<1>9. SearchedOnce'
  BY <1>0 DEF SearchedOnce, StreamInv, Slice
<1> QED
  BY <1>1, <1>7, <1>8, <1>9 DEF StreamInv, FoundIsShown

LEMMA NextStream == IInv /\ StreamInv /\ [Next]_vars => StreamInv'
<1> SUFFICES ASSUME IInv, StreamInv, [Next]_vars PROVE StreamInv'
  OBVIOUS
<1>1. CASE EndOfStream \/ UNCHANGED vars
  <2> USE <1>1 DEF EndOfStream, vars
  <2>1. BufferIsStream' /\ SearchedOnce'
    BY DEF StreamInv, BufferIsStream, SearchedOnce, At, Position
  <2>2. FoundIsShown'
    BY DEF StreamInv, FoundIsShown, Shown, Pending, PreambleAt, At
  <2> QED
    BY <2>1, <2>2 DEF StreamInv
<1> QED
  BY <1>1, ShiftStream, PassStream, SliceStream DEF Next

THEOREM StreamInvariance == Spec => [](IInv /\ StreamInv)
BY InitIInv, NextIInv, InitStream, NextStream, PTL DEF Spec

(* For every stream: between two blocks exactly the preambles that the     *)
(* blocks received so far can show have been found, wherever they lie with *)
(* respect to byte and block boundaries.                                   *)
THEOREM NothingOverlooked == Spec => []NoneOverlooked
<1>1. IInv /\ StreamInv => NoneOverlooked
  <2> SUFFICES ASSUME IInv, StreamInv, phase = "idle", todo = {}, NEW pre \in Preambles
               PROVE  found[pre] = {t \in BlockSize - BufferLength .. Position(BlockSize - 1) :
                                      block > 0 /\ PreambleAt(pre, t)}
    BY DEF NoneOverlooked
  <2>1. found[pre] = Shown(pre, block)
    BY DEF StreamInv, FoundIsShown, Pending
  <2>2. Position(BlockSize - 1) = block * BlockSize - BufferLength + BlockSize - 1
    <3> DEFINE s == block * BlockSize
    <3>1. s \in Int /\ BlockSize \in Int /\ BufferLength \in Int
      BY Sizes DEF IInv, TypeOK
    <3> HIDE DEF s
    <3>2. s - BufferLength + (BlockSize - 1) = s - BufferLength + BlockSize - 1
      BY <3>1
    <3> QED
      BY <3>2 DEF Position, s
  <2> QED
    BY <2>1, <2>2 DEF Shown
<1> QED
  BY <1>1, StreamInvariance, PTL

(* ... and none of them twice.                                             *)
THEOREM FoundOnlyOnce == Spec => FoundOnce
<1>1. IInv /\ StreamInv /\ [Next]_vars =>
        (found' # found => \A i \in cand : Position(i) \notin found[preamble])
  <2> SUFFICES ASSUME IInv, StreamInv, [Next]_vars, found' # found
               PROVE  \A i \in cand : Position(i) \notin found[preamble]
    OBVIOUS
  <2>1. Slice
    BY DEF Next, vars, Shift, Start, BytePass, Expand, BitPass, EndOfStream
  <2> QED
    BY <2>1, NewPositions
<1> QED
  BY <1>1, StreamInvariance, PTL DEF Spec, FoundOnce
-----------------------------------------------------------------------------
(* A packet cut at a match is the stream's, and begins with its preamble.  *)
LEMMA SliceCutsWhole == ASSUME IInv, StreamInv, Slice PROVE PacketsWhole'
<1>1. /\ UNCHANGED <<stream, block, Quantized, preamble>>
      /\ pkts' = {Packet(i) : i \in {i \in cand : InBlock(i)}}
      /\ cand = Matches(preamble) /\ preamble \in Preambles
  BY DEF Slice, IInv, TypeOK, SearchExact
<1>2. ASSUME NEW i \in Matches(preamble), NEW j \in 0 .. PacketSymbols - 1
      PROVE  Packet(i).bits[j] = At(Position(i) + j * SymbolLength)
  <2>1. i \in 0 .. BlockSize - 1
    BY DEF Matches
  <2>2. Packet(i).bits[j] = At(Position(i + j * SymbolLength))
    BY <2>1, SymbolInBuffer DEF Packet, StreamInv, BufferIsStream
  <2>3. block * BlockSize \in Int /\ BufferLength \in Int /\ j * SymbolLength \in Int
    BY Sizes, SearchAssumption DEF IInv, TypeOK
  <2>4. Position(i + j * SymbolLength) = Position(i) + j * SymbolLength
    BY <2>1, <2>3 DEF Position
  <2> QED
    BY <2>2, <2>4
<1>3. ASSUME NEW i \in Matches(preamble), NEW j \in DOMAIN preamble
      PROVE  Packet(i).bits[j] = preamble[j]
  <2>1. j \in 0 .. PacketSymbols - 1
    BY <1>1, LengthIs, SearchAssumption
  <2> QED
    BY <2>1 DEF Packet, Matches
<1>4. ASSUME NEW pkt \in pkts'
      PROVE  /\ \A j \in 0 .. PacketSymbols - 1 :
                  pkt.bits[j] = At(Position(pkt.idx) + j * SymbolLength)
             /\ \A j \in DOMAIN preamble : pkt.bits[j] = preamble[j]
  <2>1. PICK i \in Matches(preamble) : pkt = Packet(i)
    BY <1>1
  <2>2. pkt.idx = i
    BY <2>1 DEF Packet
  <2> QED
    BY <2>1, <2>2, <1>2, <1>3
<1> QED
  BY <1>1, <1>4 DEF PacketsWhole, At, Position

(* Every packet a search hands to the parsers is whole, whichever block    *)
(* boundaries it straddles.                                                *)
THEOREM CutsWholePackets == Spec => []PacketsWhole
<1>1. Init => PacketsWhole
  BY DEF Init, PacketsWhole
<1>2. IInv /\ StreamInv /\ PacketsWhole /\ [Next]_vars => PacketsWhole'
  <2> SUFFICES ASSUME IInv, StreamInv, PacketsWhole, [Next]_vars PROVE PacketsWhole'
    OBVIOUS
  <2>1. CASE EndOfStream \/ UNCHANGED vars
    BY <2>1 DEF EndOfStream, vars, PacketsWhole, At, Position
  <2>2. CASE Shift \/ Start \/ BytePass \/ Expand \/ BitPass
    BY <2>2 DEF Shift, Start, BytePass, Expand, BitPass, PacketsWhole
  <2> QED
    BY <2>1, <2>2, SliceCutsWhole DEF Next
<1> QED
  BY <1>1, <1>2, StreamInvariance, PTL DEF Spec
=============================================================================
