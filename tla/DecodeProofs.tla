---------------------------- MODULE DecodeProofs ----------------------------
(***************************************************************************)
(* For any parsers and preambles, wrapped or not: no parser sends on a     *)
(* closed channel, and every parser takes every block exactly once.  Both  *)
(* rest on the wait group counting the parsers that have not finished.     *)
(* No message of a block is lost, and none is overwritten while it is      *)
(* handled, though its parser reads every packet into one buffer: a call   *)
(* implements Delivery.  It has finitely many steps, and until it is over  *)
(* some goroutine can take the next one.                                   *)
(***************************************************************************)
EXTENDS Decode, FiniteSetTheorems, TLAPS

Active == {p \in Parsers : at[p] # "off"}

(* What the states of plain and of wrapping parsers can be.                *)
Kinds ==
  \A p \in Parsers :
    /\ p \in Wrapped => at[p] # "start"
    /\ p \notin Wrapped => at[p] # "range" /\ inner[p] = "off"
    /\ at[p] = "off" => inner[p] = "off"
    /\ p \in Wrapped /\ at[p] = "emit" => left[p] < MaxMsgs

Counted == wg = Cardinality(Active)

(* Parsers run between their launch and the end of the range.              *)
Phases ==
  /\ closer = "closed" => Active = {}
  /\ cpc = "idle" => Active = {}
  /\ cpc = "launch" => closer = "off"
  /\ cpc # "launch" => todo = {}
  /\ \A p \in Parsers : PreambleOf[p] \in todo => at[p] = "off"

(* A parser that is still to be launched, or to start.                     *)
Behind(p) == PreambleOf[p] \in todo \/ at[p] = "start" \/ inner[p] = "start"

InTurn == \A p \in Parsers : worked[p] = IF Behind(p) THEN block - 1 ELSE block

IInv == TypeOK /\ Kinds /\ Counted /\ Phases /\ InTurn
-----------------------------------------------------------------------------
LEMMA ActiveFinite == IsFiniteSet(Active) /\ Cardinality(Active) \in 0 .. Cardinality(Parsers)
<1>1. Active \subseteq Parsers /\ IsFiniteSet(Parsers)
  BY DecodeAssumption DEF Active
<1> QED
  BY <1>1, FS_Subset, FS_CardinalityType

LEMMA InitIInv == Init => IInv
<1> SUFFICES ASSUME Init PROVE IInv
  OBVIOUS
<1>1. Active = {}
  BY DEF Init, Active
<1>2. Counted
  BY <1>1, FS_EmptySet DEF Init, Counted
<1>3. TypeOK
  <2>1. heap \in [Arrays -> Packets] /\ hand \in Messages \cup {NoMessage}
    BY DecodeAssumption DEF Init, Packets, NoPacket
  <2> QED
    BY <1>2, <2>1, ActiveFinite, DecodeAssumption DEF Init, TypeOK, Counted
<1> QED
  BY <1>1, <1>2, <1>3, DecodeAssumption DEF Init, IInv, Kinds, Phases, InTurn, Behind

(* The steps of a parser that neither start nor end it.                    *)
LEMMA SameActive ==
  ASSUME IInv, UNCHANGED wg, \A p \in Parsers : at[p] # "off" <=> at'[p] # "off"
  PROVE  Active' = Active /\ Counted'
<1>1. Active' = Active
  BY DEF Active
<1> QED
  BY <1>1 DEF IInv, Counted

(* A parser that was active is off.                                        *)
LEMMA OneLess ==
  ASSUME IInv, NEW p \in Parsers, at[p] # "off", at' = [at EXCEPT ![p] = "off"],
         wg' = wg - 1
  PROVE  Active' = Active \ {p} /\ Counted' /\ wg' \in 0 .. Cardinality(Parsers)
<1>1. Active' = Active \ {p}
  BY DEF Active, IInv, TypeOK
<1>2. p \in Active
  BY DEF Active
<1>3. Cardinality(Active \ {p}) = Cardinality(Active) - 1
  BY <1>2, ActiveFinite, FS_RemoveElement
<1>4. Counted'
  BY <1>1, <1>3 DEF IInv, Counted
<1>5. wg' \in 0 .. Cardinality(Parsers)
  BY <1>1, <1>4, ActiveFinite, FS_RemoveElement, FS_CardinalityType, FS_Subset, DecodeAssumption
     DEF Counted, Active
<1> QED
  BY <1>1, <1>4, <1>5

LEMMA LaunchStep == ASSUME IInv, NEW preamble \in Preambles, Launch(preamble) PROVE IInv'
<1> DEFINE started == ParsersOf(preamble)
<1>1. /\ cpc = "launch" /\ closer = "off" /\ preamble \in todo /\ cpc' = cpc
      /\ closer' = closer /\ block' = block /\ worked' = worked
      /\ todo' = todo \ {preamble}
      /\ started \subseteq Parsers /\ IsFiniteSet(started)
  BY DecodeAssumption, FS_Subset DEF Launch, IInv, Phases, ParsersOf
<1>2. \A p \in started : at[p] = "off" /\ inner[p] = "off"
  BY <1>1 DEF IInv, Phases, Kinds, ParsersOf
<1>3. /\ at' = [p \in Parsers |-> IF p \notin started THEN at[p]
                                  ELSE IF p \in Wrapped THEN "range" ELSE "start"]
      /\ inner' = [p \in Parsers |->
                     IF p \in started \cap Wrapped THEN "start" ELSE inner[p]]
  BY DEF Launch
<1>4. Active' = Active \cup started /\ Active \cap started = {}
  BY <1>1, <1>2, <1>3 DEF Active, IInv, TypeOK
<1>5. Counted'
  <2>1. Cardinality(Active \cup started) = Cardinality(Active) + Cardinality(started)
    <3>1. Cardinality(Active \cup started) =
            Cardinality(Active) + Cardinality(started) - Cardinality(Active \cap started)
      BY <1>1, ActiveFinite, FS_Union
    <3>2. Cardinality(Active \cap started) = 0
      BY <1>4, FS_EmptySet
    <3>3. Cardinality(Active) \in Int /\ Cardinality(started) \in Int
      BY <1>1, ActiveFinite, FS_CardinalityType
    <3> QED
      BY <3>1, <3>2, <3>3
  <2> QED
    BY <1>4, <2>1 DEF Counted, IInv, Launch, Joined
<1>6. TypeOK'
  <2>1. wg' \in 0 .. Cardinality(Parsers)
    <3>1. Active' \subseteq Parsers
      BY <1>1, <1>4 DEF Active
    <3> QED
      BY <3>1, <1>5, DecodeAssumption, FS_Subset, FS_CardinalityType DEF Counted
  <2>2. left' \in [Parsers -> 0 .. MaxMsgs]
    <3>1. PICK found \in [started -> 0 .. MaxMsgs] :
            left' = [p \in Parsers |-> IF p \in started THEN found[p] ELSE left[p]]
      BY DEF Launch
    <3> QED
      BY <3>1 DEF IInv, TypeOK
  <2>3. at' \in [Parsers -> {"off", "start", "range", "emit"}]
        /\ inner' \in [Parsers -> {"off", "start", "emit", "done", "closed"}]
    BY <1>3 DEF IInv, TypeOK
  <2>4. heap' = heap /\ hand' = hand
    BY DEF Launch
  <2> QED
    BY <1>1, <2>1, <2>2, <2>3, <2>4 DEF IInv, TypeOK
<1>7. Kinds'
  <2>1. \A p \in Parsers \ started : left'[p] = left[p]
    BY <1>1 DEF Launch, IInv, TypeOK
  <2> QED
    BY <1>2, <1>3, <2>1 DEF IInv, Kinds
<1>8. Phases'
  BY <1>1, <1>2, <1>3, DecodeAssumption DEF IInv, Phases, ParsersOf
<1>9. InTurn'
  <2> SUFFICES ASSUME NEW p \in Parsers PROVE Behind(p)' <=> Behind(p)
    BY <1>1 DEF IInv, InTurn
  <2>1. CASE p \in started
    BY <2>1, <1>1, <1>2, <1>3 DEF Behind, ParsersOf
  <2>2. CASE p \notin started
    BY <2>2, <1>1, <1>3 DEF Behind, ParsersOf
  <2> QED
    BY <2>1, <2>2
<1> QED
  BY <1>5, <1>6, <1>7, <1>8, <1>9 DEF IInv

LEMMA ConsumerStep ==
  IInv /\ (StartDecode \/ SpawnCloser \/ Handle \/ RangeEnds) => IInv'
<1> SUFFICES ASSUME IInv, StartDecode \/ SpawnCloser \/ Handle \/ RangeEnds PROVE IInv'
  OBVIOUS
<1>0. UNCHANGED <<at, inner, left, worked, wg>>
  BY DEF StartDecode, SpawnCloser, Handle, RangeEnds
<1>1. Active' = Active /\ Counted'
  BY <1>0, SameActive
<1>2. TypeOK'
  <2>1. heap' \in [Arrays -> Packets] /\ hand' \in Messages \cup {NoMessage}
    <3>1. Collected \in [Arrays -> Packets]
      BY DecodeAssumption DEF Collected, IInv, TypeOK, Packets, NoPacket
    <3> QED
      BY <3>1 DEF IInv, TypeOK, StartDecode, SpawnCloser, Handle, RangeEnds
  <2> QED
    BY <2>1, DecodeAssumption
       DEF IInv, TypeOK, StartDecode, SpawnCloser, Handle, RangeEnds
<1>3. Kinds'
  BY <1>0 DEF IInv, Kinds
<1>4. Phases'
  BY <1>0, <1>1
     DEF IInv, Phases, Active, StartDecode, SpawnCloser, Handle, RangeEnds
<1>5. InTurn'
  <2>1. CASE StartDecode
    <3>1. \A p \in Parsers : ~Behind(p) /\ Behind(p)'
      BY <2>1, DecodeAssumption DEF IInv, Phases, Kinds, Active, Behind, StartDecode
    <3>2. block' - 1 = block
      BY <2>1 DEF StartDecode, IInv, TypeOK
    <3> QED
      BY <3>1, <3>2, <1>0 DEF IInv, InTurn
  <2>2. CASE SpawnCloser \/ Handle \/ RangeEnds
    <3>1. \A p \in Parsers : Behind(p)' <=> Behind(p)
      BY <2>2, <1>0 DEF Behind, SpawnCloser, Handle, RangeEnds
    <3>2. block' = block
      BY <2>2 DEF SpawnCloser, Handle, RangeEnds
    <3> QED
      BY <3>1, <3>2, <1>0 DEF IInv, InTurn
  <2> QED
    BY <2>1, <2>2
<1> QED
  BY <1>1, <1>2, <1>3, <1>4, <1>5 DEF IInv

(* The closer sees a count of zero: then nobody is active.                 *)
LEMMA CloserStep == IInv /\ Closer => IInv'
<1> SUFFICES ASSUME IInv, Closer PROVE IInv'
  OBVIOUS
<1>1. Active' = Active /\ Counted'
  BY SameActive DEF Closer
<1>2. Active = {}
  BY ActiveFinite, FS_EmptySet DEF Closer, IInv, Counted
<1>3. cpc # "launch"
  BY DEF Closer, IInv, Phases
<1> QED
  BY <1>1, <1>2, <1>3
     DEF Closer, IInv, TypeOK, Kinds, Phases, InTurn, Behind

(* The arrays and the message in hand keep their types.                    *)
LEMMA DataTypes ==
  ASSUME IInv, NEW p \in Parsers,
         \/ Work(p) \/ ReadPacket(p) \/ SkipPacket(p) \/ Send(p)
         \/ InnerWork(p) \/ InnerSend(p)
         \/ InnerDone(p) \/ InnerClose(p) \/ Forward(p)
  PROVE  heap' \in [Arrays -> Packets] /\ hand' \in Messages \cup {NoMessage}
<1>0. /\ heap \in [Arrays -> Packets] /\ hand \in Messages \cup {NoMessage}
      /\ left[p] \in 0 .. MaxMsgs /\ block \in 0 .. MaxBlocks /\ MaxMsgs \in Nat
  BY DecodeAssumption DEF IInv, TypeOK
<1>1. CASE Work(p) \/ InnerWork(p) \/ InnerSend(p) \/ InnerDone(p) \/ InnerClose(p)
  BY <1>0, <1>1 DEF Work, InnerWork, InnerSend, Fewer, InnerDone, InnerClose
<1>2. CASE ReadPacket(p)
  <2>1. <<block, left[p]>> \in Packets
    BY <1>0 DEF Packets
  <2> QED
    BY <1>0, <1>2, <2>1 DEF ReadPacket
<1>3. CASE SkipPacket(p)
  <2>1. <<block, 0>> \in Packets
    BY <1>0 DEF Packets
  <2> QED
    BY <1>0, <1>3, <2>1 DEF SkipPacket
<1>4. ASSUME NEW k \in 0 .. MaxMsgs PROVE Message(p, k) \in Messages
  BY <1>0 DEF Message, Messages, Slices, Packets, Arrays
<1>5. CASE Send(p)
  BY <1>0, <1>4, <1>5 DEF Send, Fewer
<1>6. CASE Forward(p)
  <2>1. left[p] + 1 \in 0 .. MaxMsgs
    BY <1>0, <1>6 DEF IInv, Kinds, Forward
  <2> QED
    BY <1>0, <1>4, <1>6, <2>1 DEF Forward
<1> QED
  BY <1>1, <1>2, <1>3, <1>5, <1>6

(* A parser starts, sends or forwards: it stays active.                    *)
LEMMA ParserStep ==
  ASSUME IInv, NEW p \in Parsers,
         \/ Work(p) \/ ReadPacket(p) \/ SkipPacket(p) \/ Send(p)
         \/ InnerWork(p) \/ InnerSend(p)
         \/ InnerDone(p) \/ InnerClose(p) \/ Forward(p)
  PROVE  IInv'
<1> USE DEF Work, ReadPacket, SkipPacket, Send, Fewer, InnerWork, InnerSend, InnerDone,
        InnerClose, Forward
<1>0. UNCHANGED <<block, todo, wg, closer>>
  OBVIOUS
<1>1. \A q \in Parsers : at[q] # "off" <=> at'[q] # "off"
  BY DEF IInv, TypeOK, Kinds
<1>2. Active' = Active /\ Counted'
  BY <1>0, <1>1, SameActive
<1>3. at[p] # "off" /\ PreambleOf[p] \notin todo
  <2>1. at[p] # "off"
    BY DEF IInv, TypeOK, Kinds, Parsing
  <2> QED
    BY <2>1 DEF IInv, Phases
<1>4. TypeOK'
  <2>1. left' \in [Parsers -> 0 .. MaxMsgs]
    BY DecodeAssumption DEF IInv, TypeOK
  <2>2. worked' \in [Parsers -> 0 .. MaxBlocks]
    BY DEF IInv, TypeOK
  <2>3. /\ at' \in [Parsers -> {"off", "start", "range", "emit"}]
        /\ inner' \in [Parsers -> {"off", "start", "emit", "done", "closed"}]
        /\ cpc' \in {"idle", "launch", "range", "handle", "gone"}
    BY DEF IInv, TypeOK
  <2>4. heap' \in [Arrays -> Packets] /\ hand' \in Messages \cup {NoMessage}
    BY DataTypes
  <2> QED
    BY <2>1, <2>2, <2>3, <2>4, <1>0 DEF IInv, TypeOK
<1>5. Kinds'
  <2>1. CASE ReadPacket(p) \/ SkipPacket(p)
    BY <2>1 DEF IInv, Kinds
  <2>2. CASE Work(p) \/ Send(p)
    <3>1. p \notin Wrapped
      BY <2>2 DEF IInv, Kinds
    <3> QED
      BY <2>2, <3>1 DEF IInv, Kinds, TypeOK
  <2>3. CASE InnerWork(p) \/ InnerDone(p) \/ InnerClose(p) \/ Forward(p)
    BY <2>3, <1>1 DEF IInv, Kinds, TypeOK
  <2>4. CASE InnerSend(p)
    BY <2>4, <1>1, DecodeAssumption DEF IInv, Kinds, TypeOK
  <2> QED
    BY <2>1, <2>2, <2>3, <2>4
<1>6. Phases'
  <2>1. cpc' = cpc \/ (cpc = "range" /\ cpc' = "handle")
    OBVIOUS
  <2> QED
    BY <1>0, <1>1, <1>2, <1>3, <2>1 DEF IInv, Phases, Active
<1>7. InTurn'
  <2> SUFFICES ASSUME NEW q \in Parsers
               PROVE  worked'[q] = IF Behind(q)' THEN block - 1 ELSE block
    BY <1>0 DEF InTurn
  <2>1. CASE q # p
    BY <2>1 DEF IInv, TypeOK, InTurn, Behind
  <2>2. CASE q = p /\ (Work(p) \/ InnerWork(p))
    <3>1. worked'[p] = block
      BY <2>2 DEF IInv, TypeOK
    <3>2. ~Behind(p)'
      BY <2>2, <1>3 DEF IInv, TypeOK, Kinds, Behind
    <3> QED
      BY <2>2, <3>1, <3>2
  <2>3. CASE q = p /\ ~(Work(p) \/ InnerWork(p))
    <3>1. worked' = worked
      BY <2>3
    <3>2. Behind(p)' <=> Behind(p)
      BY <2>3 DEF IInv, TypeOK, Kinds, Behind
    <3> QED
      BY <2>3, <3>1, <3>2 DEF IInv, InTurn
  <2> QED
    BY <2>1, <2>2, <2>3
<1> QED
  BY <1>2, <1>4, <1>5, <1>6, <1>7 DEF IInv

(* A parser calls Done.                                                    *)
LEMMA DoneStep ==
  ASSUME IInv, NEW p \in Parsers, Done(p) \/ WrapperDone(p)
  PROVE  IInv'
<1> USE DEF Done, WrapperDone
<1>0. UNCHANGED <<cpc, block, todo, closer, left, worked>>
  OBVIOUS
<1>1. at[p] # "off" /\ at' = [at EXCEPT ![p] = "off"] /\ wg' = wg - 1
  OBVIOUS
<1>2. Active' = Active \ {p} /\ Counted' /\ wg' \in 0 .. Cardinality(Parsers)
  BY <1>1, OneLess
<1>3. inner' = inner \/ inner' = [inner EXCEPT ![p] = "off"]
  OBVIOUS
<1>4. TypeOK'
  BY <1>0, <1>1, <1>2, <1>3 DEF IInv, TypeOK
<1>5. Kinds'
  BY DEF IInv, Kinds, TypeOK
<1>6. Phases'
  BY <1>0, <1>1, <1>2 DEF IInv, Phases, TypeOK
<1>7. InTurn'
  <2>1. \A q \in Parsers : Behind(q)' <=> Behind(q)
    BY DEF IInv, TypeOK, Kinds, Behind
  <2> QED
    BY <1>0, <2>1 DEF IInv, InTurn
<1> QED
  BY <1>2, <1>4, <1>5, <1>6, <1>7 DEF IInv

LEMMA NextIInv == IInv /\ [Next]_vars => IInv'
<1> SUFFICES ASSUME IInv, [Next]_vars PROVE IInv'
  OBVIOUS
<1>1. CASE Over \/ UNCHANGED vars
  BY <1>1 DEF Over, vars, IInv, TypeOK, Kinds, Counted, Phases, InTurn, Behind, Active
<1>2. CASE Consumer
  BY <1>2, ConsumerStep, LaunchStep DEF Consumer
<1>3. ASSUME NEW p \in Parsers, Parser(p) PROVE IInv'
  BY <1>3, ParserStep, DoneStep DEF Parser
<1> QED
  BY <1>1, <1>2, <1>3, CloserStep DEF Next
-----------------------------------------------------------------------------
THEOREM Invariance == Spec => []IInv
BY InitIInv, NextIInv, PTL DEF Spec

(* The types hold: the wait group stays between zero and the number of     *)
(* parsers (a negative count panics).                                      *)
THEOREM TypeCorrect == Spec => []TypeOK
<1>1. IInv => TypeOK
  BY DEF IInv
<1> QED
  BY <1>1, Invariance, PTL

(* No parser sends on the closed channel.                                  *)
THEOREM CloseIsLast == Spec => []NoSendOnClosed
<1>1. IInv => NoSendOnClosed
  BY DEF IInv, Phases, Active, NoSendOnClosed, Sending
<1> QED
  BY <1>1, Invariance, PTL

(* When the decoder goroutine is between two blocks every parser has taken *)
(* the last one.                                                           *)
THEOREM KeepsStep == Spec => []InStep
<1>1. IInv => InStep
  BY DEF IInv, Phases, Kinds, Active, InTurn, Behind, InStep
<1> QED
  BY <1>1, Invariance, PTL

(* The block a parser takes is the one after the last it took.             *)
THEOREM TakesEveryBlock == Spec => EveryBlockOnce
<1>1. IInv /\ IInv' /\ [Next]_vars =>
        \A p \in Parsers : worked'[p] # worked[p] => worked'[p] = worked[p] + 1
  <2> SUFFICES ASSUME IInv, [Next]_vars, NEW p \in Parsers, worked'[p] # worked[p]
               PROVE  worked'[p] = worked[p] + 1
    OBVIOUS
  <2>1. PICK q \in Parsers : Work(q) \/ InnerWork(q)
    BY DEF Next, vars, Over, Closer, Consumer, Parser, StartDecode, Launch, SpawnCloser,
           Handle, RangeEnds, ReadPacket, SkipPacket, Send, Fewer, Done, InnerSend,
          InnerDone, InnerClose, Forward, WrapperDone
  <2>2. q = p /\ worked'[p] = block
    BY <2>1 DEF Work, InnerWork, IInv, TypeOK
  <2>3. Behind(p)
    BY <2>1, <2>2 DEF Work, InnerWork, Behind
  <2>4. worked[p] = block - 1 /\ block \in Int
    BY <2>3 DEF IInv, InTurn, TypeOK
  <2> QED
    BY <2>2, <2>4
<1> QED
  BY <1>1, Invariance, PTL DEF Spec, EveryBlockOnce
-----------------------------------------------------------------------------
(* The arrays.  A parser's buffer holds a packet of this call only once it *)
(* has started, a message about to be sent has its own array filled, and   *)
(* so has one that a wrapper is about to forward.                          *)
Filled(p) ==
  /\ heap[<<p, 0>>][1] <= block
  /\ Behind(p) => heap[<<p, 0>>][1] # block
  /\ left[p] > 0 /\ heap[<<p, 0>>] = <<block, left[p]>> =>
       heap[<<p, left[p]>>] = <<block, left[p]>>
  /\ p \in Wrapped /\ at[p] = "emit" =>
       heap[<<p, left[p] + 1>>] = <<block, left[p] + 1>>

(* The message being handled is one its parser does not count any more.    *)
InHand ==
  cpc = "handle" =>
    \E p \in Parsers : \E k \in 1 .. MaxMsgs :
      /\ hand = [from |-> p, packet |-> <<block, k>>, slices |-> <<p, k>>]
      /\ left[p] < k
      /\ heap[<<p, k>>] = <<block, k>>

DInv == (\A p \in Parsers : Filled(p)) /\ InHand

LEMMA InitDInv == Init => DInv
<1> SUFFICES ASSUME Init PROVE DInv
  OBVIOUS
<1>1. InHand
  BY DEF Init, InHand
<1>2. ASSUME NEW p \in Parsers PROVE Filled(p)
  <2>1. heap[<<p, 0>>] = <<0, 0>> /\ block = 0 /\ left[p] = 0
    BY DecodeAssumption DEF Init, Arrays, NoPacket
  <2>2. ~Behind(p) /\ at[p] = "off"
    BY DEF Init, Behind
  <2> QED
    BY <2>1, <2>2 DEF Filled
<1> QED
  BY <1>1, <1>2 DEF DInv

(* A new call: no packet of it is in any buffer, no message in hand.       *)
LEMMA StartKeepsData == ASSUME IInv, DInv, StartDecode PROVE DInv'
<1>1. /\ block' = block + 1 /\ cpc' = "launch" /\ UNCHANGED <<at, inner, left>>
      /\ heap' = Collected /\ block \in Nat
  BY DecodeAssumption DEF StartDecode, IInv, TypeOK
<1>2. ASSUME NEW p \in Parsers PROVE Filled(p)'
  <2>1. heap'[<<p, 0>>] = heap[<<p, 0>>] /\ heap[<<p, 0>>] \in Packets
    BY <1>1, DecodeAssumption DEF Collected, Arrays, IInv, TypeOK
  <2>2. heap'[<<p, 0>>][1] \in Nat /\ heap'[<<p, 0>>][1] < block'
    <3>1. heap[<<p, 0>>][1] \in Nat
      BY <2>1, DecodeAssumption DEF Packets
    <3>2. heap[<<p, 0>>][1] <= block
      BY DEF DInv, Filled
    <3> QED
      BY <1>1, <2>1, <3>1, <3>2
  <2>3. at'[p] = "off"
    BY <1>1 DEF StartDecode, IInv, Phases, Active
  <2>4. heap'[<<p, 0>>] # <<block', left'[p]>>
    BY <2>2
  <2> QED
    BY <1>1, <2>2, <2>3, <2>4 DEF Filled
<1> QED
  BY <1>1, <1>2 DEF DInv, InHand

(* A launched parser has not read a packet of this call.                   *)
LEMMA LaunchKeepsData ==
  ASSUME IInv, DInv, NEW preamble \in Preambles, Launch(preamble) PROVE DInv'
<1>1. /\ UNCHANGED <<cpc, block, heap, hand>> /\ cpc = "launch"
      /\ preamble \in todo /\ todo' = todo \ {preamble}
  BY DEF Launch
<1>2. ASSUME NEW p \in Parsers PROVE Filled(p)'
  <2>1. CASE p \in ParsersOf(preamble)
    <3>1. Behind(p) /\ heap[<<p, 0>>][1] # block
      BY <1>1, <2>1 DEF ParsersOf, Behind, DInv, Filled
    <3>2. at'[p] # "emit"
      BY <2>1 DEF Launch
    <3>3. heap'[<<p, 0>>] # <<block', left'[p]>>
      BY <1>1, <3>1
    <3> QED
      BY <1>1, <3>1, <3>2, <3>3 DEF DInv, Filled
  <2>2. CASE p \notin ParsersOf(preamble)
    <3>1. at'[p] = at[p] /\ inner'[p] = inner[p] /\ left'[p] = left[p]
      BY <2>2 DEF Launch
    <3>2. Behind(p)' <=> Behind(p)
      BY <1>1, <2>2, <3>1 DEF Behind, ParsersOf
    <3> QED
      BY <1>1, <3>1, <3>2 DEF DInv, Filled
  <2> QED
    BY <2>1, <2>2
<1> QED
  BY <1>1, <1>2 DEF DInv, InHand

(* A parser reads a packet: it writes its buffer and an array that no      *)
(* message in anybody's hand points to.                                    *)
LEMMA ReadKeepsData ==
  ASSUME IInv, DInv, NEW p \in Parsers, ReadPacket(p) \/ SkipPacket(p) PROVE DInv'
<1>0. /\ UNCHANGED <<cpc, block, todo, at, inner, left, hand>>
      /\ heap \in [Arrays -> Packets]
      /\ left[p] \in 0 .. MaxMsgs /\ block \in Nat /\ MaxMsgs \in Nat
  BY DecodeAssumption DEF ReadPacket, SkipPacket, IInv, TypeOK
<1>1. ~Behind(p)
  <2>1. at[p] # "off" /\ at[p] # "start" /\ inner[p] # "start"
    BY DEF ReadPacket, SkipPacket, Parsing, IInv, Kinds
  <2> QED
    BY <2>1 DEF IInv, Phases, Behind
<1>2. heap'[<<p, 0>>] \in {<<block, left[p]>>, <<block, 0>>}
  BY <1>0 DEF ReadPacket, SkipPacket, Arrays
<1>3. ASSUME NEW q \in Parsers, NEW k \in 1 .. MaxMsgs, q # p \/ k # left[p]
      PROVE  heap'[<<q, k>>] = heap[<<q, k>>]
  BY <1>0, <1>3 DEF ReadPacket, SkipPacket, Arrays
<1>4. ASSUME NEW q \in Parsers PROVE Filled(q)'
  <2>1. CASE q # p
    <3>1. heap'[<<q, 0>>] = heap[<<q, 0>>]
      BY <1>0, <2>1 DEF ReadPacket, SkipPacket, Arrays
    <3>2. left[q] \in 0 .. MaxMsgs /\ (q \in Wrapped /\ at[q] = "emit" => left[q] < MaxMsgs)
      BY DEF IInv, TypeOK, Kinds
    <3>3. Behind(q)' <=> Behind(q)
      BY <1>0 DEF Behind
    <3>4. left[q] > 0 => heap'[<<q, left[q]>>] = heap[<<q, left[q]>>]
      BY <1>0, <1>3, <2>1, <3>2
    <3>5. q \in Wrapped /\ at[q] = "emit" =>
            heap'[<<q, left[q] + 1>>] = heap[<<q, left[q] + 1>>]
      BY <1>0, <1>3, <2>1, <3>2
    <3> QED
      BY <1>0, <3>1, <3>3, <3>4, <3>5 DEF DInv, Filled
  <2>2. CASE q = p
    <3>1. heap'[<<p, 0>>][1] = block' /\ ~Behind(p)'
      BY <1>0, <1>1, <1>2 DEF Behind
    <3>2. left[p] > 0 /\ heap'[<<p, 0>>] = <<block, left[p]>> =>
            heap'[<<p, left[p]>>] = <<block, left[p]>>
      BY <1>0 DEF ReadPacket, SkipPacket, Arrays
    <3>3. p \in Wrapped /\ at[p] = "emit" =>
            heap'[<<p, left[p] + 1>>] = <<block, left[p] + 1>>
      <4> SUFFICES ASSUME p \in Wrapped, at[p] = "emit"
                   PROVE  heap'[<<p, left[p] + 1>>] = <<block, left[p] + 1>>
        OBVIOUS
      <4>1. left[p] + 1 \in 1 .. MaxMsgs /\ left[p] + 1 # left[p]
        BY <1>0 DEF IInv, Kinds
      <4>2. heap'[<<p, left[p] + 1>>] = heap[<<p, left[p] + 1>>]
        BY <1>3, <4>1
      <4> QED
        BY <4>2 DEF DInv, Filled
    <3> QED
      BY <1>0, <2>2, <3>1, <3>2, <3>3 DEF Filled
  <2> QED
    BY <2>1, <2>2
<1>5. InHand'
  <2> SUFFICES ASSUME cpc = "handle" PROVE InHand'
    BY <1>0 DEF InHand
  <2>1. PICK q \in Parsers, k \in 1 .. MaxMsgs :
          /\ hand = [from |-> q, packet |-> <<block, k>>, slices |-> <<q, k>>]
          /\ left[q] < k
          /\ heap[<<q, k>>] = <<block, k>>
    BY DEF DInv, InHand
  <2>2. heap'[<<q, k>>] = heap[<<q, k>>]
    BY <1>0, <1>3, <2>1
  <2> QED
    BY <1>0, <2>1, <2>2 DEF InHand
<1> QED
  BY <1>4, <1>5 DEF DInv

(* A message changes hands.                                                *)
LEMMA SendKeepsData ==
  ASSUME IInv, DInv, NEW p \in Parsers, Send(p) \/ InnerSend(p) \/ Forward(p) PROVE DInv'
<1>0. /\ UNCHANGED <<block, todo, heap, inner>>
      /\ left \in [Parsers -> 0 .. MaxMsgs] /\ at \in [Parsers -> {"off", "start", "range", "emit"}]
      /\ block \in Nat /\ MaxMsgs \in Nat
  BY DecodeAssumption DEF Send, Fewer, InnerSend, Forward, IInv, TypeOK
<1>1. ASSUME NEW q \in Parsers PROVE Behind(q)' => Behind(q)
  BY <1>0 DEF Send, Fewer, InnerSend, Forward, Behind
<1>2. ASSUME NEW q \in Parsers, q # p PROVE Filled(q)'
  BY <1>0, <1>1, <1>2 DEF Send, Fewer, InnerSend, Forward, DInv, Filled
<1>3. Filled(p)'
  <2>1. CASE Send(p)
    <3>1. p \notin Wrapped /\ left'[p] = left[p] - 1 /\ heap'[<<p, 0>>] # <<block, left'[p]>>
      BY <1>0, <2>1 DEF Send, Fewer
    <3> QED
      BY <1>0, <1>1, <3>1 DEF DInv, Filled
  <2>2. CASE InnerSend(p)
    <3>1. left'[p] = left[p] - 1 /\ left[p] = left'[p] + 1
      BY <1>0, <2>2 DEF InnerSend, Fewer
    <3>2. heap'[<<p, 0>>] # <<block, left'[p]>>
      BY <1>0, <2>2, <3>1 DEF InnerSend, Fewer
    <3>3. heap'[<<p, left'[p] + 1>>] = <<block, left'[p] + 1>>
      BY <1>0, <2>2, <3>1 DEF InnerSend, Fewer, DInv, Filled
    <3> QED
      BY <1>0, <1>1, <3>1, <3>2, <3>3 DEF DInv, Filled
  <2>3. CASE Forward(p)
    <3>1. left' = left /\ at'[p] = "range"
      BY <1>0, <2>3 DEF Forward
    <3> QED
      BY <1>0, <1>1, <3>1 DEF DInv, Filled
  <2> QED
    BY <2>1, <2>2, <2>3
<1>4. InHand'
  <2>1. CASE Send(p)
    <3>1. hand' = [from |-> p, packet |-> <<block, left[p]>>, slices |-> <<p, left[p]>>]
      BY <2>1 DEF Send, Fewer, Message, Slices
    <3>2. left'[p] < left[p] /\ left[p] \in 1 .. MaxMsgs
      BY <1>0, <2>1 DEF Send, Fewer
    <3>3. heap'[<<p, left[p]>>] = <<block, left[p]>>
      BY <1>0, <2>1 DEF Send, Fewer, DInv, Filled
    <3> QED
      BY <1>0, <3>1, <3>2, <3>3 DEF InHand
  <2>2. CASE InnerSend(p)
    <3> SUFFICES ASSUME cpc = "handle" PROVE InHand'
      BY <2>2 DEF InnerSend, Fewer, InHand
    <3>1. hand' = hand /\ \A q \in Parsers : left'[q] <= left[q]
      BY <1>0, <2>2 DEF InnerSend, Fewer
    <3>2. PICK q \in Parsers, k \in 1 .. MaxMsgs :
            /\ hand = [from |-> q, packet |-> <<block, k>>, slices |-> <<q, k>>]
            /\ left[q] < k
            /\ heap[<<q, k>>] = <<block, k>>
      BY DEF DInv, InHand
    <3>3. left'[q] < k
      BY <1>0, <2>2, <3>2 DEF InnerSend, Fewer
    <3> QED
      BY <1>0, <3>1, <3>2, <3>3 DEF InHand
  <2>3. CASE Forward(p)
    <3>1. hand' = [from |-> p, packet |-> <<block, left[p] + 1>>, slices |-> <<p, left[p] + 1>>]
      BY <2>3 DEF Forward, Message, Slices
    <3>2. left' = left /\ left[p] < left[p] + 1 /\ left[p] + 1 \in 1 .. MaxMsgs
      BY <1>0, <2>3 DEF Forward, IInv, Kinds
    <3>3. heap'[<<p, left[p] + 1>>] = <<block, left[p] + 1>>
      BY <1>0, <2>3 DEF Forward, DInv, Filled
    <3> QED
      BY <1>0, <3>1, <3>2, <3>3 DEF InHand
  <2> QED
    BY <2>1, <2>2, <2>3
<1> QED
  BY <1>2, <1>3, <1>4 DEF DInv

(* The other steps touch no array and put no message in hand.              *)
LEMMA OthersKeepData ==
  ASSUME IInv, DInv,
         \/ SpawnCloser \/ Handle \/ RangeEnds \/ Closer \/ Over \/ UNCHANGED vars
         \/ \E p \in Parsers : \/ Work(p) \/ Done(p) \/ InnerWork(p)
                             \/ InnerDone(p) \/ InnerClose(p) \/ WrapperDone(p)
  PROVE  DInv'
<1>0. /\ UNCHANGED <<block, todo, heap, left>>
      /\ cpc' = "handle" => cpc = "handle" /\ hand' = hand
  BY DEF SpawnCloser, Handle, RangeEnds, Closer, Over, vars, Work, Done, InnerWork,
         InnerDone, InnerClose, WrapperDone
<1>1. ASSUME NEW q \in Parsers
      PROVE  /\ at'[q] = "start" => at[q] = "start"
             /\ inner'[q] = "start" => inner[q] = "start"
             /\ q \in Wrapped /\ at'[q] = "emit" => at[q] = "emit"
  BY DEF SpawnCloser, Handle, RangeEnds, Closer, Over, vars, Work, Done, InnerWork,
         InnerDone, InnerClose, WrapperDone, IInv, TypeOK, Kinds
<1>2. ASSUME NEW q \in Parsers PROVE Filled(q)'
  <2>1. Behind(q)' => Behind(q)
    BY <1>0, <1>1 DEF Behind
  <2> QED
    BY <1>0, <1>1, <2>1 DEF DInv, Filled
<1>3. InHand'
  BY <1>0 DEF DInv, InHand
<1> QED
  BY <1>2, <1>3 DEF DInv

LEMMA NextDInv == IInv /\ DInv /\ [Next]_vars => DInv'
<1> SUFFICES ASSUME IInv, DInv, [Next]_vars PROVE DInv'
  OBVIOUS
<1>1. CASE Consumer
  BY <1>1, StartKeepsData, LaunchKeepsData, OthersKeepData DEF Consumer
<1>2. ASSUME NEW p \in Parsers, Parser(p) PROVE DInv'
  BY <1>2, ReadKeepsData, SendKeepsData, OthersKeepData DEF Parser
<1>3. CASE Closer \/ Over \/ UNCHANGED vars
  BY <1>3, OthersKeepData
<1> QED
  BY <1>1, <1>2, <1>3 DEF Next

(* The decoder goroutine reads in every message the packet it was made of, *)
(* whatever its parser reads into its buffer meanwhile.                    *)
THEOREM MessagesIntact == Spec => []HandledAsFound
<1>1. DInv => HandledAsFound
  <2> SUFFICES ASSUME DInv, cpc = "handle" PROVE heap[hand.slices] = hand.packet
    BY DEF HandledAsFound
  <2>1. PICK p \in Parsers, k \in 1 .. MaxMsgs :
          /\ hand = [from |-> p, packet |-> <<block, k>>, slices |-> <<p, k>>]
          /\ left[p] < k
          /\ heap[<<p, k>>] = <<block, k>>
    BY DEF DInv, InHand
  <2>2. hand.slices = <<p, k>> /\ hand.packet = <<block, k>>
    BY <2>1
  <2> QED
    BY <2>1, <2>2
<1> QED
  BY <1>1, InitDInv, NextDInv, Invariance, PTL DEF Spec
-----------------------------------------------------------------------------
(* The messages of a block.  A parser that is over has none left, and each *)
(* message found was handled, is in hand, with a wrapper, or still to come.*)
Spent ==
  \A p \in Parsers : at[p] = "off" \/ inner[p] \in {"done", "closed"} => left[p] = 0

InWrapper(a) ==
  a[1] \in Wrapped /\ at[a[1]] = "emit" /\ a[2] = left[a[1]] + 1

Outstanding(a) ==
  \/ a[2] \in 1 .. left[a[1]]
  \/ InWrapper(a)
  \/ cpc = "handle" /\ a = Handled

MInv ==
  /\ Spent
  /\ made \subseteq Arrays /\ got \subseteq Arrays
  /\ \A a \in Arrays : a \in made <=> a \in got \/ Outstanding(a)

LEMMA InitMInv == Init => MInv
<1> SUFFICES ASSUME Init PROVE MInv
  OBVIOUS
<1>1. ASSUME NEW a \in Arrays PROVE ~Outstanding(a)
  BY DEF Init, Outstanding, InWrapper, Arrays
<1> QED
  BY <1>1 DEF Init, MInv, Spent

(* Nobody is active when a call begins, so nothing is outstanding.         *)
LEMMA IdleNoneLeft ==
  ASSUME IInv, MInv, Active = {}, cpc # "handle", NEW a \in Arrays
  PROVE  ~Outstanding(a)
<1>1. a[1] \in Parsers /\ at[a[1]] = "off" /\ left[a[1]] = 0
  BY DEF Active, MInv, Spent, Arrays
<1> QED
  BY <1>1 DEF Outstanding, InWrapper

LEMMA StartKeepsCount == ASSUME IInv, MInv, StartDecode PROVE MInv'
<1>1. Active = {} /\ cpc # "handle" /\ cpc' # "handle" /\ UNCHANGED <<at, inner, left>>
      /\ made' = {} /\ got' = {}
  BY DEF StartDecode, IInv, Phases
<1>2. ASSUME NEW a \in Arrays PROVE ~Outstanding(a)'
  <2>1. ~Outstanding(a)
    BY <1>1, IdleNoneLeft
  <2> QED
    BY <1>1, <2>1 DEF Outstanding, InWrapper
<1> QED
  BY <1>1, <1>2 DEF MInv, Spent

LEMMA LaunchKeepsCount ==
  ASSUME IInv, MInv, NEW preamble \in Preambles, Launch(preamble) PROVE MInv'
<1> DEFINE started == ParsersOf(preamble)
<1>1. PICK found \in [started -> 0 .. MaxMsgs] :
        /\ left' = [p \in Parsers |-> IF p \in started THEN found[p] ELSE left[p]]
        /\ made' = made \cup {a \in Arrays : a[1] \in started /\ a[2] \in 1 .. found[a[1]]}
  BY DEF Launch
<1>2. /\ preamble \in todo /\ cpc = "launch" /\ cpc' = "launch" /\ got' = got
      /\ at' = [p \in Parsers |-> IF p \notin started THEN at[p]
                                  ELSE IF p \in Wrapped THEN "range" ELSE "start"]
      /\ inner' = [p \in Parsers |->
                     IF p \in started \cap Wrapped THEN "start" ELSE inner[p]]
  BY DEF Launch
<1>3. ASSUME NEW p \in started
      PROVE  /\ p \in Parsers /\ at[p] = "off" /\ inner[p] = "off" /\ left[p] = 0
             /\ left'[p] = found[p] /\ at'[p] \in {"range", "start"}
             /\ inner'[p] \in {"start", "off"}
  BY <1>1, <1>2 DEF ParsersOf, IInv, Phases, Kinds, MInv, Spent
<1>4. ASSUME NEW p \in Parsers \ started
      PROVE  left'[p] = left[p] /\ at'[p] = at[p] /\ inner'[p] = inner[p]
  BY <1>1, <1>2
<1>5. Spent'
  <2> SUFFICES ASSUME NEW p \in Parsers, at'[p] = "off" \/ inner'[p] \in {"done", "closed"}
               PROVE  left'[p] = 0
    BY DEF Spent
  <2>1. p \notin started
    BY <1>3
  <2> QED
    BY <1>4, <2>1 DEF MInv, Spent
<1>6. ASSUME NEW a \in Arrays PROVE a \in made' <=> a \in got' \/ Outstanding(a)'
  <2>1. a[1] \in Parsers
    BY DEF Arrays
  <2>2. CASE a[1] \in started
    <3>0. /\ at[a[1]] = "off" /\ left[a[1]] = 0 /\ left'[a[1]] = found[a[1]]
          /\ at'[a[1]] # "emit"
      BY <1>3, <2>2
    <3>1. ~Outstanding(a)
      <4>1. a[2] \notin 1 .. left[a[1]]
        BY <3>0
      <4> QED
        BY <1>2, <3>0, <4>1 DEF Outstanding, InWrapper
    <3>2. Outstanding(a)' <=> a[2] \in 1 .. found[a[1]]
      BY <1>2, <3>0 DEF Outstanding, InWrapper
    <3> QED
      BY <1>1, <1>2, <2>2, <3>1, <3>2 DEF MInv
  <2>3. CASE a[1] \notin started
    <3>0. left'[a[1]] = left[a[1]] /\ at'[a[1]] = at[a[1]]
      BY <1>4, <2>1, <2>3
    <3>1. Outstanding(a)' <=> Outstanding(a)
      BY <1>2, <3>0 DEF Outstanding, InWrapper
    <3> QED
      BY <1>1, <1>2, <2>3, <3>1 DEF MInv
  <2> QED
    BY <2>2, <2>3
<1> QED
  BY <1>1, <1>2, <1>5, <1>6 DEF MInv

LEMMA HandleKeepsCount == ASSUME IInv, DInv, MInv, Handle PROVE MInv'
<1>1. PICK p \in Parsers, k \in 1 .. MaxMsgs :
        hand = [from |-> p, packet |-> <<block, k>>, slices |-> <<p, k>>]
  BY DEF Handle, DInv, InHand
<1>2. Handled \in Arrays
  BY <1>1, DecodeAssumption DEF Arrays, Handled
<1>3. UNCHANGED <<at, inner, left, made>> /\ cpc = "handle" /\ cpc' # "handle"
      /\ got' = got \cup {Handled}
  BY DEF Handle
<1>4. ASSUME NEW a \in Arrays PROVE a \in made' <=> a \in got' \/ Outstanding(a)'
  BY <1>3 DEF MInv, Outstanding, InWrapper
<1> QED
  BY <1>2, <1>3, <1>4 DEF MInv, Spent

(* A message goes from a parser to its wrapper or into the hand.           *)
LEMMA SendKeepsCount ==
  ASSUME IInv, MInv, NEW p \in Parsers, Send(p) \/ InnerSend(p) \/ Forward(p) PROVE MInv'
<1>0. /\ UNCHANGED <<made, got, inner>>
      /\ left \in [Parsers -> 0 .. MaxMsgs] /\ at \in [Parsers -> {"off", "start", "range", "emit"}]
      /\ left[p] \in Nat /\ at[p] \in {"range", "emit"}
  BY DecodeAssumption DEF Send, Fewer, InnerSend, Forward, IInv, TypeOK
<1>1. ASSUME NEW q \in Parsers, q # p
      PROVE  left'[q] = left[q] /\ at'[q] = at[q]
  BY <1>0, <1>1 DEF Send, Fewer, InnerSend, Forward
<1>2. Spent'
  <2>1. at'[p] # "off" /\ (inner[p] \in {"done", "closed"} => left'[p] = left[p])
    BY <1>0 DEF Send, Fewer, InnerSend, Forward, MInv, Spent
  <2> QED
    BY <1>0, <1>1, <2>1 DEF MInv, Spent
<1>3. ASSUME NEW a \in Arrays PROVE Outstanding(a)' <=> Outstanding(a)
  <2>1. a = <<a[1], a[2]>> /\ a[1] \in Parsers /\ a[2] \in Nat
    BY DecodeAssumption DEF Arrays
  <2>2. CASE Send(p)
    <3>1. /\ p \notin Wrapped /\ left'[p] = left[p] - 1 /\ left[p] > 0 /\ cpc # "handle"
          /\ cpc' = "handle" /\ hand'.from = p /\ hand'.packet[2] = left[p]
      BY <1>0, <2>2 DEF Send, Fewer, Message
    <3>2. CASE a[1] = p
      BY <1>0, <2>1, <3>1, <3>2 DEF Outstanding, Handled, InWrapper
    <3>3. CASE a[1] # p
      BY <1>1, <2>1, <3>1, <3>3 DEF Outstanding, Handled, InWrapper
    <3> QED
      BY <3>2, <3>3
  <2>3. CASE InnerSend(p)
    <3>1. /\ p \in Wrapped /\ left'[p] = left[p] - 1 /\ left[p] > 0
          /\ at[p] = "range" /\ at'[p] = "emit" /\ UNCHANGED <<cpc, hand>>
      BY <1>0, <2>3 DEF InnerSend, Fewer, IInv, Kinds
    <3>2. CASE a[1] = p
      BY <1>0, <2>1, <3>1, <3>2 DEF Outstanding, Handled, InWrapper
    <3>3. CASE a[1] # p
      BY <1>1, <2>1, <3>1, <3>3 DEF Outstanding, Handled, InWrapper
    <3> QED
      BY <3>2, <3>3
  <2>4. CASE Forward(p)
    <3>1. /\ p \in Wrapped /\ left' = left /\ at[p] = "emit" /\ at'[p] = "range" /\ cpc # "handle"
          /\ cpc' = "handle" /\ hand'.from = p /\ hand'.packet[2] = left[p] + 1
      BY <1>0, <2>4 DEF Forward, Message
    <3>2. CASE a[1] = p
      BY <1>0, <2>1, <3>1, <3>2 DEF Outstanding, Handled, InWrapper
    <3>3. CASE a[1] # p
      BY <1>1, <2>1, <3>1, <3>3 DEF Outstanding, Handled, InWrapper
    <3> QED
      BY <3>2, <3>3
  <2> QED
    BY <2>2, <2>3, <2>4
<1> QED
  BY <1>0, <1>2, <1>3 DEF MInv

(* The other steps move no message, and end no parser that has one left.   *)
LEMMA OthersKeepCount ==
  ASSUME IInv, MInv,
         \/ SpawnCloser \/ RangeEnds \/ Closer \/ Over \/ UNCHANGED vars
         \/ \E p \in Parsers : \/ Work(p) \/ Done(p) \/ InnerWork(p) \/ ReadPacket(p) \/ SkipPacket(p)
                             \/ InnerDone(p) \/ InnerClose(p) \/ WrapperDone(p)
  PROVE  MInv'
<1>0. /\ UNCHANGED <<left, made, got>>
      /\ cpc' = "handle" => cpc = "handle" /\ hand' = hand
      /\ cpc = "handle" => cpc' = "handle" /\ hand' = hand
  BY DEF SpawnCloser, RangeEnds, Closer, Over, vars, Work, Done, InnerWork,
         ReadPacket, SkipPacket, InnerDone, InnerClose, WrapperDone
<1>1. ASSUME NEW q \in Parsers
      PROVE  /\ q \in Wrapped => (at'[q] = "emit" <=> at[q] = "emit")
             /\ at'[q] = "off" \/ inner'[q] \in {"done", "closed"} => left[q] = 0
  BY DEF SpawnCloser, RangeEnds, Closer, Over, vars, Work, Done, InnerWork, ReadPacket,
         SkipPacket, InnerDone, InnerClose, WrapperDone, IInv, TypeOK, Kinds, MInv, Spent
<1>2. Spent'
  BY <1>0, <1>1 DEF Spent
<1>3. ASSUME NEW a \in Arrays PROVE Outstanding(a)' <=> Outstanding(a)
  BY <1>0, <1>1, DecodeAssumption DEF Outstanding, Handled, InWrapper
<1> QED
  BY <1>0, <1>2, <1>3 DEF MInv

LEMMA NextMInv == IInv /\ DInv /\ MInv /\ [Next]_vars => MInv'
<1> SUFFICES ASSUME IInv, DInv, MInv, [Next]_vars PROVE MInv'
  OBVIOUS
<1>1. CASE Consumer
  BY <1>1, StartKeepsCount, LaunchKeepsCount, HandleKeepsCount, OthersKeepCount DEF Consumer
<1>2. ASSUME NEW p \in Parsers, Parser(p) PROVE MInv'
  BY <1>2, SendKeepsCount, OthersKeepCount DEF Parser
<1>3. CASE Closer \/ Over \/ UNCHANGED vars
  BY <1>3, OthersKeepCount
<1> QED
  BY <1>1, <1>2, <1>3 DEF Next

(* When the range over a block ends, every message found in it has been    *)
(* handled, for any parsers, wrapped or not, and any number of messages.   *)
THEOREM NoneLost == Spec => []NothingLost
<1>1. IInv /\ MInv => NothingLost
  <2> SUFFICES ASSUME IInv, MInv, cpc = "idle" PROVE got = made
    BY DEF NothingLost
  <2>1. \A a \in Arrays : ~Outstanding(a)
    BY IdleNoneLeft DEF IInv, Phases
  <2> QED
    BY <2>1 DEF MInv
<1> QED
  BY <1>1, InitDInv, NextDInv, InitMInv, NextMInv, Invariance, PTL DEF Spec
-----------------------------------------------------------------------------
(* What has been handled, or is in hand, is past: neither its parser nor a *)
(* wrapper has it to send any more, so it does not come again.             *)
Past(a) == a[2] > left[a[1]] /\ ~InWrapper(a)

OInv ==
  /\ cpc = "launch" => got = {}
  /\ cpc = "handle" => Past(Handled) /\ Handled \notin got
  /\ \A a \in got : Past(a)

LEMMA InitOInv == Init => OInv
BY DEF Init, OInv

LEMMA ConsumerKeepsPast ==
  ASSUME IInv, DInv, MInv, OInv, Consumer PROVE OInv'
<1>1. CASE StartDecode
  BY <1>1 DEF StartDecode, OInv
<1>2. ASSUME NEW preamble \in Preambles, Launch(preamble) PROVE OInv'
  BY <1>2 DEF Launch, OInv
<1>3. CASE Handle
  BY <1>3 DEF Handle, OInv, Past, InWrapper
<1>4. CASE SpawnCloser
  BY <1>4 DEF SpawnCloser, OInv, Past, InWrapper
<1>5. CASE RangeEnds
  BY <1>5 DEF RangeEnds, OInv, Past, InWrapper
<1> QED
  BY <1>1, <1>2, <1>3, <1>4, <1>5 DEF Consumer

LEMMA InHandArray == ASSUME IInv, DInv, cpc = "handle" PROVE Handled \in Arrays
<1>1. PICK p \in Parsers, k \in 1 .. MaxMsgs :
        hand = [from |-> p, packet |-> <<block, k>>, slices |-> <<p, k>>]
  BY DEF DInv, InHand
<1> QED
  BY <1>1, DecodeAssumption DEF Arrays, Handled

(* A parser sends a message that no one had before.                        *)
LEMMA SendKeepsPast ==
  ASSUME IInv, MInv, OInv, NEW p \in Parsers, Send(p) \/ Forward(p) PROVE OInv'
<1>0. PICK k \in Int : k = IF p \in Wrapped THEN left[p] + 1 ELSE left[p]
  BY DecodeAssumption DEF IInv, TypeOK
<1>1. /\ left \in [Parsers -> 0 .. MaxMsgs] /\ at \in [Parsers -> {"off", "start", "range", "emit"}]
      /\ MaxMsgs \in Nat
  BY DecodeAssumption DEF IInv, TypeOK
<1>2. /\ cpc = "range" /\ cpc' = "handle" /\ got' = got
      /\ Handled' = <<p, k>>
  BY <1>0 DEF Send, Forward, Message, Handled
<1>3. \A a \in Arrays : a[1] \in Parsers /\ a[2] \in Nat /\ a = <<a[1], a[2]>>
  BY <1>1 DEF Arrays
<1>4. ASSUME NEW a \in Arrays, Past(a) PROVE Past(a)' /\ a # <<p, k>>
  <2>1. CASE Send(p)
    BY <1>0, <1>1, <1>3, <1>4, <2>1 DEF Send, Fewer, Past, InWrapper
  <2>2. CASE Forward(p)
    BY <1>0, <1>1, <1>3, <1>4, <2>2 DEF Forward, Past, InWrapper
  <2> QED
    BY <2>1, <2>2
<1>5. Past(<<p, k>>)'
  BY <1>0, <1>1 DEF Send, Forward, Fewer, Past, InWrapper
<1>6. got \subseteq Arrays /\ \A a \in got : Past(a)
  BY DEF MInv, OInv
<1> QED
  BY <1>2, <1>4, <1>5, <1>6 DEF OInv

LEMMA InnerSendKeepsPast ==
  ASSUME IInv, DInv, MInv, OInv, NEW p \in Parsers, InnerSend(p) PROVE OInv'
<1>1. /\ left \in [Parsers -> 0 .. MaxMsgs] /\ at \in [Parsers -> {"off", "start", "range", "emit"}]
      /\ MaxMsgs \in Nat
  BY DecodeAssumption DEF IInv, TypeOK
<1>2. UNCHANGED <<cpc, got, hand, Handled>>
  BY DEF InnerSend, Handled
<1>3. \A a \in Arrays : a[1] \in Parsers /\ a[2] \in Nat
  BY <1>1 DEF Arrays
<1>4. ASSUME NEW a \in Arrays, Past(a) PROVE Past(a)'
  BY <1>1, <1>3, <1>4 DEF InnerSend, Fewer, Past, InWrapper
<1>5. got \subseteq Arrays
  BY DEF MInv
<1> QED
  BY <1>2, <1>4, <1>5, InHandArray DEF OInv

LEMMA OthersKeepPast ==
  ASSUME IInv, OInv, NEW p \in Parsers,
         \/ Closer \/ Over \/ UNCHANGED vars
         \/ Work(p) \/ ReadPacket(p) \/ SkipPacket(p) \/ Done(p)
         \/ InnerWork(p) \/ InnerDone(p) \/ InnerClose(p) \/ WrapperDone(p)
  PROVE  OInv'
<1>1. UNCHANGED <<cpc, left, got, hand, Handled>>
  BY DEF Closer, Over, vars, Work, ReadPacket, SkipPacket, Done, InnerWork, InnerDone,
         InnerClose, WrapperDone, Handled
<1>2. ASSUME NEW q \in Wrapped, at'[q] = "emit" PROVE at[q] = "emit"
  BY <1>2, DecodeAssumption
     DEF Closer, Over, vars, Work, ReadPacket, SkipPacket, Done, InnerWork, InnerDone,
         InnerClose, WrapperDone, IInv, TypeOK, Kinds
<1> QED
  BY <1>1, <1>2 DEF OInv, Past, InWrapper

LEMMA NextOInv == IInv /\ DInv /\ MInv /\ OInv /\ [Next]_vars => OInv'
<1> SUFFICES ASSUME IInv, DInv, MInv, OInv, [Next]_vars PROVE OInv'
  OBVIOUS
<1>1. CASE Consumer
  BY <1>1, ConsumerKeepsPast
<1>2. ASSUME NEW p \in Parsers, Parser(p) PROVE OInv'
  BY <1>2, SendKeepsPast, InnerSendKeepsPast, OthersKeepPast DEF Parser
<1>3. CASE Closer \/ Over \/ UNCHANGED vars
  BY <1>3 DEF Closer, Over, vars, OInv, Past, InWrapper, Handled
<1> QED
  BY <1>1, <1>2, <1>3 DEF Next
-----------------------------------------------------------------------------
(* Decode implements Delivery: no step of a goroutine shows but the hand-  *)
(* over of a message, and that message is the one that was found.          *)
Msg(a) == [from |-> a[1], packet |-> <<block, a[2]>>]

LEMMA OneMessageEach ==
  ASSUME NEW a \in Arrays, NEW b \in Arrays, Msg(a) = Msg(b) PROVE a = b
<1>1. a = <<a[1], a[2]>> /\ b = <<b[1], b[2]>>
  BY DEF Arrays
<1>2. Msg(a).from = Msg(b).from /\ Msg(a).packet[2] = Msg(b).packet[2]
  OBVIOUS
<1> QED
  BY <1>1, <1>2 DEF Msg

(* What the decoder goroutine sees in the message in its hand.             *)
SeenAsFound == Handled \in Arrays /\ Content = Msg(Handled)

LEMMA ContentAsFound == IInv /\ DInv /\ cpc = "handle" => SeenAsFound
<1> SUFFICES ASSUME IInv, DInv, cpc = "handle" PROVE SeenAsFound
  OBVIOUS
<1>1. PICK p \in Parsers, k \in 1 .. MaxMsgs :
        /\ hand = [from |-> p, packet |-> <<block, k>>, slices |-> <<p, k>>]
        /\ heap[<<p, k>>] = <<block, k>>
  BY DEF DInv, InHand
<1>2. Handled = <<p, k>>
  BY <1>1 DEF Handled
<1>3. Content = [from |-> p, packet |-> <<block, k>>]
  BY <1>1 DEF Content
<1> QED
  BY <1>2, <1>3, InHandArray DEF Msg, SeenAsFound

LEMMA ContentAsFoundNext == (IInv /\ DInv /\ cpc = "handle" => SeenAsFound)'
BY ContentAsFound, PTL

LEMMA SendTakes ==
  ASSUME IInv, DInv, MInv, OInv, IInv', DInv', NEW p \in Parsers, Send(p) \/ Forward(p)
  PROVE  \E m \in Inbox : Delivered!Take(m)
<1>0. PICK k \in Int : k = IF p \in Wrapped THEN left[p] + 1 ELSE left[p]
  BY DecodeAssumption DEF IInv, TypeOK
<1> DEFINE a == <<p, k>>
<1>1. /\ cpc = "range" /\ cpc' = "handle" /\ UNCHANGED <<block, made, got>>
      /\ Handled' = a
  BY <1>0 DEF Send, Forward, Message, Handled
<1>2. a \in Arrays /\ Content' = Msg(a)
  <2>1. SeenAsFound'
    BY <1>1, ContentAsFoundNext
  <2> QED
    BY <1>1, <2>1 DEF SeenAsFound, Msg, Arrays
<1>3. Outstanding(a) /\ ~Past(a)
  <2>1. left \in [Parsers -> 0 .. MaxMsgs] /\ MaxMsgs \in Nat
    BY DecodeAssumption DEF IInv, TypeOK
  <2> QED
    BY <1>0, <2>1 DEF Send, Forward, Outstanding, InWrapper, Past
<1>4. a \in made /\ a \notin got
  BY <1>2, <1>3 DEF MInv, OInv
<1>5. Unread = made \ got /\ Unread' = Unread \ {a} /\ Unread \subseteq Arrays
  BY <1>1 DEF Unread, MInv
<1>6. Inbox = {Msg(b) : b \in Unread} /\ Inbox' = {Msg(b) : b \in Unread'}
  BY <1>1 DEF Inbox, Msg
<1>7. Msg(a) \in Inbox /\ Inbox' = Inbox \ {Msg(a)}
  <2> HIDE DEF a
  <2> QED
    BY <1>2, <1>4, <1>5, <1>6, OneMessageEach
<1>8. Phase = "range" /\ Phase' = "handle"
  BY <1>1 DEF Phase
<1> QED
  BY <1>2, <1>7, <1>8 DEF Delivered!Take

LEMMA ConsumerDelivers ==
  ASSUME IInv, DInv, MInv, OInv, IInv', DInv', MInv', Consumer
  PROVE  [Delivered!Next]_(Delivered!vars)
<1> USE DEF Phase, Content, Delivered!vars
<1>1. CASE StartDecode
  BY <1>1 DEF StartDecode, Unread, Inbox
<1>2. ASSUME NEW preamble \in Preambles, Launch(preamble)
      PROVE  UNCHANGED Delivered!vars
  BY <1>2 DEF Launch, Unread, Inbox
<1>3. CASE SpawnCloser
  <2>1. cpc = "launch" /\ cpc' = "range" /\ Unread' = (made \ got)' /\ Unread = {}
    BY <1>3 DEF SpawnCloser, Unread
  <2>2. Unread' \subseteq Arrays /\ block' \in 0 .. MaxBlocks
    BY <2>1 DEF MInv, IInv, TypeOK
  <2>3. Inbox' \subseteq [from : Parsers, packet : Packets]
    BY <2>2 DEF Inbox, Arrays, Packets
  <2> QED
    BY <2>1, <2>3 DEF Delivered!Next, Delivered!Call
<1>4. CASE Handle
  <2>1. cpc = "handle" /\ block' = block /\ UNCHANGED made /\ got' = got \cup {Handled}
    BY <1>4 DEF Handle
  <2>2. CASE cpc' = "range"
    <3>1. Unread' = Unread
      BY <2>1, <2>2 DEF Unread
    <3>2. Inbox' = Inbox
      BY <2>1, <3>1 DEF Inbox
    <3> QED
      BY <2>1, <2>2, <3>2 DEF Delivered!Next, Delivered!Handled
  <2>3. CASE cpc' = "gone"
    <3>1. Inbox' = {}
      BY <2>3 DEF Inbox, Unread
    <3> QED
      BY <2>1, <2>3, <3>1 DEF Delivered!Next, Delivered!Handled
  <2> QED
    BY <1>4, <2>2, <2>3 DEF Handle
<1>5. CASE RangeEnds
  <2>1. cpc = "range" /\ closer = "closed" /\ cpc' = "idle"
    BY <1>5 DEF RangeEnds
  <2>2. \A a \in Arrays : ~Outstanding(a)
    BY <2>1, IdleNoneLeft DEF IInv, Phases
  <2>3. Unread = {} /\ Unread' = {}
    BY <2>1, <2>2 DEF Unread, MInv
  <2>4. Inbox = {} /\ Inbox' = {}
    BY <2>3 DEF Inbox
  <2> QED
    BY <2>1, <2>4 DEF Delivered!Next, Delivered!End
<1> QED
  BY <1>1, <1>2, <1>3, <1>4, <1>5 DEF Consumer

(* The other steps are out of the decoder goroutine's sight.               *)
LEMMA OthersHidden ==
  ASSUME IInv, DInv, IInv', DInv', NEW p \in Parsers,
         \/ Closer \/ Over \/ UNCHANGED vars
         \/ Work(p) \/ ReadPacket(p) \/ SkipPacket(p) \/ Done(p) \/ InnerSend(p)
         \/ InnerWork(p) \/ InnerDone(p) \/ InnerClose(p) \/ WrapperDone(p)
  PROVE  UNCHANGED <<Phase, Inbox, Content>>
<1>1. UNCHANGED <<cpc, block, made, got, hand>>
  BY DEF Closer, Over, vars, Work, ReadPacket, SkipPacket, Done, InnerSend, InnerWork,
         InnerDone, InnerClose, WrapperDone
<1>2. UNCHANGED <<Phase, Inbox>>
  BY <1>1 DEF Phase, Inbox, Unread, Handled
<1>3. CASE cpc = "handle"
  <2>1. SeenAsFound /\ SeenAsFound'
    BY <1>1, <1>3, ContentAsFound, ContentAsFoundNext
  <2>2. Msg(Handled)' = Msg(Handled)
    BY <1>1 DEF Msg, Handled
  <2> QED
    BY <1>2, <2>1, <2>2 DEF SeenAsFound
<1>4. CASE cpc # "handle"
  BY <1>1, <1>2, <1>4 DEF Content
<1> QED
  BY <1>3, <1>4

LEMMA StepDelivers ==
  ASSUME IInv, DInv, MInv, OInv, IInv', DInv', MInv', [Next]_vars
  PROVE  [Delivered!Next]_(Delivered!vars)
<1>1. CASE Consumer
  BY <1>1, ConsumerDelivers
<1>2. ASSUME NEW p \in Parsers, Parser(p) PROVE [Delivered!Next]_(Delivered!vars)
  BY <1>2, SendTakes, OthersHidden DEF Parser, Delivered!Next, Delivered!vars
<1>3. CASE Closer \/ Over \/ UNCHANGED vars
  <2>1. CASE cpc = "handle"
    <3>1. PICK p \in Parsers : TRUE
      BY <2>1, ContentAsFound DEF SeenAsFound, Arrays
    <3> QED
      BY <1>3, OthersHidden DEF Delivered!vars
  <2>2. CASE cpc # "handle"
    BY <1>3, <2>2 DEF Closer, Over, vars, Delivered!vars, Phase, Inbox, Unread, Content
  <2> QED
    BY <2>1, <2>2
<1> QED
  BY <1>1, <1>2, <1>3 DEF Next

(* A call of Decode with all its goroutines delivers the messages found in *)
(* the block, each once and as it was found: a theorem about Decode, the   *)
(* parsers and the range in Run.                                           *)
THEOREM ImplementsDelivery == Spec => DeliversEach
<1>1. Init => Delivered!Init
  BY DEF Init, Delivered!Init, Phase, Inbox, Unread, Content
<1> QED
  BY <1>1, Invariance, InitDInv, NextDInv, InitMInv, NextMInv, InitOInv, NextOInv,
     StepDelivers, PTL DEF Spec, DeliversEach, Delivered!Spec
-----------------------------------------------------------------------------
(* A call ends.  What is still to be done in it is a finite set: preambles *)
(* to search, stages of the call, of each parser and of each packet.  No   *)
(* step of any goroutine adds to it and every one takes something away.    *)
Waiting(p) == PreambleOf[p] \in todo

Reading(p) ==
  \/ at[p] = "start" \/ inner[p] \in {"start", "emit"}
  \/ p \notin Wrapped /\ at[p] = "emit"

CallStage(s) ==
  \/ s = "return" /\ cpc = "launch"
  \/ s = "close"  /\ (cpc = "launch" \/ closer = "wait")
  \/ s = "end"    /\ cpc \in {"launch", "range", "handle"}

ParserStage(p, s) ==
  \/ Waiting(p)
  \/ s = "work"  /\ Behind(p)
  \/ s = "last"  /\ Reading(p)
  \/ s = "close" /\ inner[p] \in {"start", "emit", "done"}
  \/ s = "done"  /\ at[p] # "off"

(* A packet is read once before its message is sent, and packets without a *)
(* message are skipped before that or not at all.                          *)
PacketStage(a, s) ==
  LET p == a[1]
      k == a[2]
  IN  \/ Waiting(p)
      \/ /\ s = "skip" /\ Reading(p) /\ k <= left[p]
         /\ k = left[p] => heap[<<p, 0>>] \notin {<<block, 0>>, <<block, k>>}
      \/ /\ s = "read" /\ Reading(p) /\ k \in 1 .. left[p]
         /\ k = left[p] => heap[<<p, 0>>] # <<block, k>>
      \/ s = "send"    /\ k \in 1 .. left[p]
      \/ s = "forward" /\ (k \in 1 .. left[p] \/ InWrapper(a))
      \/ s = "handle"  /\ Outstanding(a)

CallNames == {"return", "close", "end"}
ParserNames == {"work", "last", "close", "done"}
PacketNames == {"skip", "read", "send", "forward", "handle"}

CallStages == {s \in CallNames : CallStage(s)}
ParserStages == {t \in Parsers \X ParserNames : ParserStage(t[1], t[2])}
PacketStages == {t \in Arrays \X PacketNames : PacketStage(t[1], t[2])}

StillToDo == <<todo, CallStages, ParserStages, PacketStages>>

Less ==
  /\ todo' \subseteq todo /\ CallStages' \subseteq CallStages
  /\ ParserStages' \subseteq ParserStages /\ PacketStages' \subseteq PacketStages
  /\ StillToDo' # StillToDo

LEMMA FiniteWork ==
  IInv => /\ IsFiniteSet(todo) /\ IsFiniteSet(CallStages)
          /\ IsFiniteSet(ParserStages) /\ IsFiniteSet(PacketStages)
<1>1. ASSUME NEW x, NEW y, NEW z, NEW u, NEW v PROVE IsFiniteSet({x, y, z, u, v})
  <2>1. IsFiniteSet({x} \cup {y})
    BY FS_Singleton, FS_Union
  <2>2. IsFiniteSet(({x} \cup {y}) \cup {z})
    BY <2>1, FS_Singleton, FS_Union
  <2>3. IsFiniteSet({u} \cup {v})
    BY FS_Singleton, FS_Union
  <2>4. IsFiniteSet((({x} \cup {y}) \cup {z}) \cup ({u} \cup {v}))
    BY <2>2, <2>3, FS_Union
  <2>5. {x, y, z, u, v} = (({x} \cup {y}) \cup {z}) \cup ({u} \cup {v})
    OBVIOUS
  <2> QED
    BY <2>4, <2>5
<1>2. IsFiniteSet(CallNames) /\ IsFiniteSet(ParserNames) /\ IsFiniteSet(PacketNames)
  <2>1. /\ CallNames = {"return", "close", "end", "end", "end"}
        /\ ParserNames = {"work", "last", "close", "done", "done"}
        /\ PacketNames = {"skip", "read", "send", "forward", "handle"}
    BY DEF CallNames, ParserNames, PacketNames
  <2> QED
    BY <1>1, <2>1
<1>3. IsFiniteSet(Arrays)
  <2>1. IsFiniteSet(0 .. MaxMsgs)
    BY FS_Interval, DecodeAssumption
  <2> QED
    BY <2>1, FS_Product, DecodeAssumption DEF Arrays
<1>4. IsFiniteSet(Parsers \X ParserNames) /\ IsFiniteSet(Arrays \X PacketNames)
  BY <1>2, <1>3, FS_Product, DecodeAssumption
<1>5. /\ CallStages \subseteq CallNames /\ ParserStages \subseteq Parsers \X ParserNames
      /\ PacketStages \subseteq Arrays \X PacketNames
  BY DEF CallStages, ParserStages, PacketStages
<1> QED
  BY <1>2, <1>4, <1>5, FS_Subset, DecodeAssumption DEF IInv, TypeOK

(* Nothing is added, and one stage is taken away.                          *)
LEMMA LessIf ==
  ASSUME todo' \subseteq todo,
         \A s \in CallNames : CallStage(s)' => CallStage(s),
         \A p \in Parsers : \A s \in ParserNames : ParserStage(p, s)' => ParserStage(p, s),
         \A a \in Arrays : \A s \in PacketNames : PacketStage(a, s)' => PacketStage(a, s),
         \/ todo' # todo
         \/ \E s \in CallNames : CallStage(s) /\ ~CallStage(s)'
         \/ \E p \in Parsers : \E s \in ParserNames : ParserStage(p, s) /\ ~ParserStage(p, s)'
         \/ \E a \in Arrays : \E s \in PacketNames : PacketStage(a, s) /\ ~PacketStage(a, s)'
  PROVE  Less
<1>1. CallStages' \subseteq CallStages
  BY DEF CallStages
<1>2. ParserStages' \subseteq ParserStages
  BY DEF ParserStages
<1>3. PacketStages' \subseteq PacketStages
  BY DEF PacketStages
<1>4. CASE todo' # todo
  BY <1>1, <1>2, <1>3, <1>4 DEF Less, StillToDo
<1>5. CASE \E s \in CallNames : CallStage(s) /\ ~CallStage(s)'
  <2>1. CallStages' # CallStages
    BY <1>5 DEF CallStages
  <2> QED
    BY <1>1, <1>2, <1>3, <2>1 DEF Less, StillToDo
<1>6. CASE \E p \in Parsers : \E s \in ParserNames : ParserStage(p, s) /\ ~ParserStage(p, s)'
  <2>1. PICK p \in Parsers, s \in ParserNames : ParserStage(p, s) /\ ~ParserStage(p, s)'
    BY <1>6
  <2>2. <<p, s>> \in ParserStages /\ <<p, s>> \notin ParserStages'
    BY <2>1 DEF ParserStages
  <2> QED
    BY <1>1, <1>2, <1>3, <2>2 DEF Less, StillToDo
<1>7. CASE \E a \in Arrays : \E s \in PacketNames : PacketStage(a, s) /\ ~PacketStage(a, s)'
  <2>1. PICK a \in Arrays, s \in PacketNames : PacketStage(a, s) /\ ~PacketStage(a, s)'
    BY <1>7
  <2>2. <<a, s>> \in PacketStages /\ <<a, s>> \notin PacketStages'
    BY <2>1 DEF PacketStages
  <2> QED
    BY <1>1, <1>2, <1>3, <2>2 DEF Less, StillToDo
<1> QED
  BY <1>4, <1>5, <1>6, <1>7

(* A launch makes nothing that was not to come: until then everything of   *)
(* the preamble's parsers is still to be done.                             *)
LEMMA LaunchLess ==
  ASSUME IInv, NEW preamble \in Preambles, Launch(preamble) PROVE Less
<1>1. /\ preamble \in todo /\ todo' = todo \ {preamble}
      /\ UNCHANGED <<cpc, block, closer, heap, hand>>
  BY DEF Launch
<1>2. \A s \in CallNames : CallStage(s)' => CallStage(s)
  BY <1>1 DEF CallStage
<1>3. ASSUME NEW p \in Parsers, ~Waiting(p)
      PROVE  left'[p] = left[p] /\ at'[p] = at[p] /\ inner'[p] = inner[p] /\ ~Waiting(p)'
  BY <1>1, <1>3 DEF Launch, Waiting, ParsersOf
<1>4. ASSUME NEW p \in Parsers, NEW s \in ParserNames, ParserStage(p, s)'
      PROVE  ParserStage(p, s)
  BY <1>3, <1>4 DEF ParserStage, Behind, Reading, Waiting
<1>5. ASSUME NEW a \in Arrays, NEW s \in PacketNames, PacketStage(a, s)'
      PROVE  PacketStage(a, s)
  <2>1. CASE Waiting(a[1])
    BY <2>1 DEF PacketStage
  <2>2. CASE ~Waiting(a[1])
    <3>1. a[1] \in Parsers
      BY DEF Arrays
    <3>2. /\ Reading(a[1])' <=> Reading(a[1])
          /\ InWrapper(a)' <=> InWrapper(a)
          /\ Outstanding(a)' <=> Outstanding(a)
      BY <1>1, <1>3, <2>2, <3>1 DEF Reading, InWrapper, Outstanding, Handled
    <3> QED
      BY <1>1, <1>3, <1>5, <2>2, <3>1, <3>2 DEF PacketStage
  <2> QED
    BY <2>1, <2>2
<1> QED
  BY <1>1, <1>2, <1>4, <1>5, LessIf

(* The call's own steps.                                                   *)
LEMMA CallLess ==
  ASSUME IInv, DInv, OInv, SpawnCloser \/ Handle \/ RangeEnds \/ Closer PROVE Less
<1>1. UNCHANGED <<todo, block, at, inner, left, heap>>
  BY DEF SpawnCloser, Handle, RangeEnds, Closer
<1>2. \A s \in CallNames : CallStage(s)' => CallStage(s)
  BY DEF SpawnCloser, Handle, RangeEnds, Closer, CallStage
<1>3. \A p \in Parsers : \A s \in ParserNames : ParserStage(p, s)' => ParserStage(p, s)
  BY <1>1 DEF ParserStage, Behind, Reading, Waiting
<1>4. ASSUME NEW a \in Arrays PROVE Outstanding(a)' => Outstanding(a)
  BY <1>1 DEF SpawnCloser, Handle, RangeEnds, Closer, Outstanding, InWrapper, Handled
<1>5. \A a \in Arrays : \A s \in PacketNames : PacketStage(a, s)' => PacketStage(a, s)
  BY <1>1, <1>4 DEF PacketStage, Waiting, Reading, InWrapper
<1>6. CASE Handle
  <2>1. Handled \in Arrays /\ Past(Handled) /\ cpc = "handle" /\ cpc' # "handle"
    BY <1>6, InHandArray DEF Handle, OInv
  <2>2. ~Waiting(Handled[1])
    BY <2>1 DEF IInv, Phases, Waiting
  <2>3. PacketStage(Handled, "handle")
    BY <2>1 DEF PacketStage, Outstanding
  <2>4. ASSUME NEW a \in Arrays, a = Handled PROVE ~PacketStage(a, "handle")'
    <3>1. a[1] \in Parsers /\ a[2] \in Int /\ left[a[1]] \in Int
      BY DecodeAssumption DEF Arrays, IInv, TypeOK
    <3>2. ~Outstanding(a)'
      BY <1>1, <2>1, <2>4, <3>1 DEF Outstanding, InWrapper, Past
    <3> QED
      BY <1>1, <2>2, <2>4, <3>2 DEF PacketStage, Waiting
  <2> QED
    BY <1>1, <1>2, <1>3, <1>5, <2>1, <2>3, <2>4, LessIf DEF PacketNames
<1>7. CASE SpawnCloser \/ RangeEnds \/ Closer
  <2>1. \E s \in CallNames : CallStage(s) /\ ~CallStage(s)'
    BY <1>7 DEF SpawnCloser, RangeEnds, Closer, CallStage, CallNames, IInv, Phases
  <2> QED
    BY <1>1, <1>2, <1>3, <1>5, <2>1, LessIf
<1> QED
  BY <1>6, <1>7

(* A parser that does something has been launched.                         *)
LEMMA ParserLaunched ==
  ASSUME IInv, NEW p \in Parsers, Parser(p)
  PROVE  /\ ~Waiting(p) /\ UNCHANGED <<todo, block, closer>>
         /\ \A s \in CallNames : CallStage(s)' => CallStage(s)
<1> USE DEF Parser, Work, ReadPacket, SkipPacket, Send, Fewer, Done, InnerWork, InnerSend,
        InnerDone, InnerClose, Forward, WrapperDone
<1>1. at[p] # "off"
  BY DEF IInv, Kinds, Parsing
<1>2. ~Waiting(p)
  BY <1>1 DEF IInv, Phases, Waiting
<1>3. UNCHANGED <<todo, block, closer>> /\ (cpc' = cpc \/ (cpc = "range" /\ cpc' = "handle"))
  OBVIOUS
<1> QED
  BY <1>2, <1>3 DEF CallStage

LEMMA StagesLess ==
  ASSUME IInv, NEW p \in Parsers,
         \/ Work(p) \/ InnerWork(p)
         \/ Done(p) \/ InnerDone(p) \/ InnerClose(p) \/ WrapperDone(p)
  PROVE  Less
<1> USE DEF Work, InnerWork, Done, InnerDone, InnerClose, WrapperDone
<1>1. /\ ~Waiting(p) /\ UNCHANGED <<todo, block>>
      /\ \A s \in CallNames : CallStage(s)' => CallStage(s)
  BY ParserLaunched DEF Parser
<1>2. /\ UNCHANGED <<cpc, left, heap, hand, Handled>>
      /\ \A q \in Parsers : q # p => at'[q] = at[q] /\ inner'[q] = inner[q]
  BY DEF IInv, TypeOK, Handled
<1>3. \A q \in Parsers : Reading(q)' => Reading(q)
  BY <1>2 DEF IInv, TypeOK, Kinds, Reading
<1>4. ASSUME NEW q \in Parsers, NEW s \in ParserNames, ParserStage(q, s)'
      PROVE  ParserStage(q, s)
  BY <1>1, <1>2, <1>3, <1>4 DEF ParserStage, Waiting, Behind, IInv, TypeOK, Kinds
<1>5. ASSUME NEW a \in Arrays PROVE InWrapper(a)' => InWrapper(a)
  BY <1>2 DEF InWrapper, IInv, TypeOK, Kinds, Arrays
<1>6. \A a \in Arrays : \A s \in PacketNames : PacketStage(a, s)' => PacketStage(a, s)
  BY <1>1, <1>2, <1>3, <1>5 DEF PacketStage, Waiting, Outstanding, Arrays
<1>7. \E s \in ParserNames : ParserStage(p, s) /\ ~ParserStage(p, s)'
  BY <1>1 DEF ParserStage, ParserNames, Waiting, Behind, Reading, IInv, TypeOK, Kinds
<1> QED
  BY <1>1, <1>4, <1>6, <1>7, LessIf

LEMMA ReadLess ==
  ASSUME IInv, NEW p \in Parsers, ReadPacket(p) \/ SkipPacket(p) PROVE Less
<1>1. /\ ~Waiting(p) /\ UNCHANGED <<todo, block>>
      /\ \A s \in CallNames : CallStage(s)' => CallStage(s)
  BY ParserLaunched DEF Parser
<1>2. /\ UNCHANGED <<cpc, at, inner, left, hand, Handled>> /\ Reading(p)
      /\ heap \in [Arrays -> Packets] /\ left[p] \in 0 .. MaxMsgs /\ MaxMsgs \in Nat
  BY DecodeAssumption
     DEF ReadPacket, SkipPacket, Parsing, Reading, Handled, IInv, TypeOK
<1>3. \A q \in Parsers : \A s \in ParserNames : ParserStage(q, s)' => ParserStage(q, s)
  BY <1>1, <1>2 DEF ParserStage, Waiting, Behind, Reading
<1>0. PICK a : a = <<p, left[p]>>
  OBVIOUS
<1>4. a \in Arrays /\ <<p, 0>> \in Arrays /\ \A q \in Parsers : <<q, 0>> \in Arrays
  BY <1>0, <1>2 DEF Arrays
<1>5. \A q \in Parsers : q # p => heap'[<<q, 0>>] = heap[<<q, 0>>]
  BY <1>2, <1>4 DEF ReadPacket, SkipPacket
<1>6. CASE ReadPacket(p)
  <2>1. heap'[<<p, 0>>] = <<block, left[p]>> /\ heap[<<p, 0>>] # <<block, left[p]>>
        /\ left[p] > 0
    BY <1>2, <1>4, <1>6 DEF ReadPacket
  <2>2. \A b \in Arrays : \A s \in PacketNames : PacketStage(b, s)' => PacketStage(b, s)
    BY <1>1, <1>2, <1>5, <2>1 DEF PacketStage, Waiting, Reading, Outstanding, InWrapper, Arrays
  <2>3. PacketStage(a, "read") /\ ~PacketStage(a, "read")'
    BY <1>0, <1>1, <1>2, <2>1 DEF PacketStage, Waiting
  <2> QED
    BY <1>1, <1>3, <1>4, <2>2, <2>3, LessIf DEF PacketNames
<1>7. CASE SkipPacket(p)
  <2>1. heap'[<<p, 0>>] = <<block, 0>> /\ heap[<<p, 0>>] \notin {<<block, 0>>, <<block, left[p]>>}
    BY <1>2, <1>4, <1>7 DEF SkipPacket
  <2>2. \A b \in Arrays : \A s \in PacketNames : PacketStage(b, s)' => PacketStage(b, s)
    BY <1>1, <1>2, <1>5, <2>1 DEF PacketStage, Waiting, Reading, Outstanding, InWrapper, Arrays
  <2>3. PacketStage(a, "skip") /\ ~PacketStage(a, "skip")'
    BY <1>0, <1>1, <1>2, <2>1 DEF PacketStage, Waiting
  <2> QED
    BY <1>1, <1>3, <1>4, <2>2, <2>3, LessIf DEF PacketNames
<1> QED
  BY <1>6, <1>7

(* A message goes to the channel or to the wrapper, and packet k is sent.  *)
LEMMA SendLess ==
  ASSUME IInv, DInv, NEW p \in Parsers, Send(p) \/ InnerSend(p) PROVE Less
<1>1. /\ ~Waiting(p) /\ UNCHANGED <<todo, block>>
      /\ \A s \in CallNames : CallStage(s)' => CallStage(s)
  BY ParserLaunched DEF Parser
<1>2. PICK k \in 1 .. MaxMsgs : k = left[p]
  BY DecodeAssumption DEF Send, InnerSend, IInv, TypeOK
<1>3. /\ left' = [left EXCEPT ![p] = k - 1] /\ UNCHANGED <<inner, heap>>
      /\ left \in [Parsers -> 0 .. MaxMsgs] /\ MaxMsgs \in Nat
  BY <1>2, DecodeAssumption DEF Send, InnerSend, Fewer, IInv, TypeOK
<1>4. /\ \A q \in Parsers : q # p => at'[q] = at[q]
      /\ at[p] # "off" /\ (at[p] = "start" <=> at'[p] = "start")
      /\ at'[p] = "emit" /\ (p \notin Wrapped => at[p] = "emit")
  BY DEF Send, InnerSend, IInv, TypeOK, Kinds
<1>5. \A q \in Parsers : Reading(q)' <=> Reading(q)
  BY <1>3, <1>4 DEF Reading
<1>6. \A q \in Parsers : \A s \in ParserNames : ParserStage(q, s)' => ParserStage(q, s)
  BY <1>1, <1>3, <1>4, <1>5 DEF ParserStage, Waiting, Behind
<1>7. ASSUME NEW a \in Arrays
      PROVE  /\ InWrapper(a)' => InWrapper(a) \/ a = <<p, k>>
             /\ Outstanding(a)' => Outstanding(a)
  <2>0. a[1] \in Parsers /\ a[2] \in Nat /\ a = <<a[1], a[2]>>
    BY <1>3 DEF Arrays
  <2>1. InWrapper(a)' => InWrapper(a) \/ a = <<p, k>>
    BY <1>2, <1>3, <1>4, <2>0 DEF InWrapper
  <2>2. cpc' = "handle" /\ a = Handled' => a = <<p, k>> \/ (cpc = "handle" /\ a = Handled)
    BY <1>2 DEF Send, InnerSend, Message, Handled
  <2>3. a[2] \in 1 .. left'[a[1]] => a[2] \in 1 .. left[a[1]]
    BY <1>2, <1>3, <2>0
  <2>4. a = <<p, k>> => a[2] \in 1 .. left[a[1]]
    BY <1>2
  <2> QED
    BY <2>1, <2>2, <2>3, <2>4 DEF Outstanding
<1>8. ASSUME NEW a \in Arrays, NEW s \in PacketNames, PacketStage(a, s)'
      PROVE  PacketStage(a, s)
  <2>0. a[1] \in Parsers /\ a[2] \in Nat /\ a = <<a[1], a[2]>> /\ (Waiting(a[1])' <=> Waiting(a[1]))
    BY <1>1, <1>3 DEF Arrays, Waiting
  <2>1. CASE a[1] # p
    BY <1>1, <1>3, <1>5, <1>7, <1>8, <2>0, <2>1 DEF PacketStage
  <2>2. CASE a[1] = p
    <3>1. left[p] = k /\ left'[p] = k - 1
      BY <1>2, <1>3
    <3>2. s \in {"skip", "read", "send"} => PacketStage(a, s)
      BY <1>1, <1>5, <1>8, <2>0, <2>2, <3>1 DEF PacketStage
    <3>3. s = "forward" => PacketStage(a, s)
      BY <1>1, <1>7, <1>8, <2>0, <2>2, <3>1 DEF PacketStage
    <3>4. s = "handle" => PacketStage(a, s)
      BY <1>1, <1>7, <1>8, <2>0, <2>2 DEF PacketStage
    <3> QED
      BY <3>2, <3>3, <3>4 DEF PacketNames
  <2> QED
    BY <2>1, <2>2
<1>9. <<p, k>> \in Arrays /\ PacketStage(<<p, k>>, "send") /\ ~PacketStage(<<p, k>>, "send")'
  BY <1>1, <1>2, <1>3 DEF PacketStage, Waiting, Arrays
<1> QED
  BY <1>1, <1>6, <1>8, <1>9, LessIf DEF PacketNames

LEMMA ForwardLess == ASSUME IInv, NEW p \in Parsers, Forward(p) PROVE Less
<1>1. /\ ~Waiting(p) /\ UNCHANGED <<todo, block>>
      /\ \A s \in CallNames : CallStage(s)' => CallStage(s)
  BY ParserLaunched DEF Parser
<1>2. /\ UNCHANGED <<inner, left, heap>> /\ at' = [at EXCEPT ![p] = "range"]
      /\ at[p] = "emit" /\ p \in Wrapped /\ cpc = "range" /\ cpc' = "handle"
      /\ left[p] \in 0 .. MaxMsgs - 1 /\ MaxMsgs \in Nat
      /\ at \in [Parsers -> {"off", "start", "range", "emit"}]
  BY DecodeAssumption DEF Forward, IInv, TypeOK, Kinds
<1>0. PICK f : f = <<p, left[p] + 1>>
  OBVIOUS
<1>3. f \in Arrays /\ Handled' = f /\ InWrapper(f) /\ ~InWrapper(f)'
  BY <1>0, <1>2 DEF Arrays, Forward, Message, Handled, InWrapper
<1>4. \A q \in Parsers : Reading(q)' <=> Reading(q)
  BY <1>2 DEF Reading
<1>5. \A q \in Parsers : \A s \in ParserNames : ParserStage(q, s)' => ParserStage(q, s)
  BY <1>1, <1>2, <1>4 DEF ParserStage, Waiting, Behind
<1>6. ASSUME NEW a \in Arrays
      PROVE  (InWrapper(a)' => InWrapper(a)) /\ (Outstanding(a)' => Outstanding(a))
  <2>1. a[1] \in Parsers
    BY DEF Arrays
  <2>2. InWrapper(a)' => InWrapper(a)
    BY <1>2, <2>1 DEF InWrapper
  <2> QED
    BY <1>2, <1>3, <2>2 DEF Outstanding
<1>7. \A a \in Arrays : \A s \in PacketNames : PacketStage(a, s)' => PacketStage(a, s)
  <2> SUFFICES ASSUME NEW a \in Arrays, NEW s \in PacketNames, PacketStage(a, s)'
               PROVE  PacketStage(a, s)
    OBVIOUS
  <2>1. a[1] \in Parsers
    BY DEF Arrays
  <2> QED
    BY <1>1, <1>2, <1>4, <1>6, <2>1 DEF PacketStage, Waiting
<1>8. PacketStage(f, "forward") /\ ~PacketStage(f, "forward")'
  BY <1>0, <1>1, <1>2, <1>3 DEF PacketStage, Waiting
<1> QED
  BY <1>1, <1>3, <1>5, <1>7, <1>8, LessIf DEF PacketNames

(* Whatever runs, and in whatever order, a call that has begun has less to *)
(* do after each step: a call of Decode has finitely many steps.           *)
THEOREM EachStepEndsSomething == Spec => [][StartDecode \/ Less]_vars
<1>1. IInv /\ DInv /\ OInv /\ [Next]_vars => [StartDecode \/ Less]_vars
  BY LaunchLess, CallLess, StagesLess, ReadLess, SendLess, ForwardLess
     DEF Next, Consumer, Parser, Over
<1> QED
  BY <1>1, Invariance, InitDInv, NextDInv, InitMInv, NextMInv, InitOInv, NextOInv, PTL DEF Spec

(* ... and until it is over some goroutine can take a step.  The guards of *)
(* a parser's steps:                                                       *)
CanStep(p) ==
  \/ at[p] = "start" \/ inner[p] \in {"start", "done"}
  \/ Parsing(p) /\ (left[p] = 0 \/ heap[<<p, 0>>] # <<block, left[p]>>)
  \/ Parsing(p) /\ (IF p \in Wrapped THEN at[p] = "range" ELSE cpc = "range")
  \/ p \in Wrapped /\ at[p] = "emit" /\ cpc = "range"
  \/ at[p] = "range" /\ inner[p] = "closed"

SomebodyCanStep ==
  \/ cpc \in {"launch", "handle"}
  \/ cpc = "range" /\ closer = "closed"
  \/ closer = "wait" /\ wg = 0
  \/ \E p \in Parsers : CanStep(p)

LInv ==
  /\ cpc \in {"range", "handle"} => closer # "off"
  /\ \A p \in Wrapped : at[p] # "off" => inner[p] # "off"

LEMMA NextLInv == IInv /\ LInv /\ [Next]_vars => LInv'
<1> SUFFICES ASSUME IInv, LInv, [Next]_vars PROVE LInv'
  OBVIOUS
<1> USE DecodeAssumption DEF LInv
<1>1. CASE StartDecode \/ SpawnCloser \/ Handle \/ RangeEnds \/ Closer \/ Over \/ UNCHANGED vars
  BY <1>1 DEF StartDecode, SpawnCloser, Handle, RangeEnds, Closer, Over, vars
<1>2. ASSUME NEW preamble \in Preambles, Launch(preamble) PROVE LInv'
  BY <1>2 DEF Launch
<1>3. ASSUME NEW p \in Parsers, Parser(p) PROVE LInv'
  <2>0. /\ at \in [Parsers -> {"off", "start", "range", "emit"}]
        /\ inner \in [Parsers -> {"off", "start", "emit", "done", "closed"}]
        /\ \A q \in Wrapped : q \in Parsers /\ at[q] # "start"
    BY DEF IInv, TypeOK, Kinds
  <2>1. closer' = closer /\ (cpc' = cpc \/ (cpc = "range" /\ cpc' = "handle"))
    BY <1>3 DEF Parser, Work, ReadPacket, SkipPacket, Send, Done, InnerWork, InnerSend,
                InnerDone, InnerClose, Forward, WrapperDone
  <2>2. ASSUME NEW q \in Wrapped, at'[q] # "off" PROVE inner'[q] # "off"
    <3>1. at[q] # "off" /\ inner[q] # "off"
      BY <1>3, <2>0, <2>2
         DEF Parser, Work, ReadPacket, SkipPacket, Send, Done, InnerWork, InnerSend,
             InnerDone, InnerClose, Forward, WrapperDone
    <3> QED
      BY <1>3, <2>0, <2>2, <3>1
         DEF Parser, Work, ReadPacket, SkipPacket, Send, Done, InnerWork, InnerSend,
             InnerDone, InnerClose, Forward, WrapperDone
  <2> QED
    BY <2>1, <2>2
<1> QED
  BY <1>1, <1>2, <1>3 DEF Next, Consumer

(* Until a call is over or abandoned some goroutine can go on: the parsers *)
(* the decoder goroutine waits for never all wait for one another.         *)
THEOREM NeverStuck == Spec => [](cpc \in {"launch", "range", "handle"} => SomebodyCanStep)
<1>1. IInv /\ LInv /\ cpc \in {"launch", "range", "handle"} => SomebodyCanStep
  <2> SUFFICES ASSUME IInv, LInv, cpc = "range", closer = "wait", wg # 0
               PROVE  SomebodyCanStep
    BY DEF SomebodyCanStep, LInv, IInv, TypeOK
  <2>1. PICK p \in Parsers : at[p] # "off"
    BY FS_EmptySet DEF IInv, Counted, Active
  <2>2. p \notin Wrapped => CanStep(p)
    BY <2>1 DEF CanStep, Parsing, IInv, Kinds, TypeOK
  <2>3. p \in Wrapped => CanStep(p)
    BY <2>1 DEF CanStep, Parsing, IInv, Kinds, TypeOK, LInv
  <2> QED
    BY <2>2, <2>3 DEF SomebodyCanStep
<1>2. Init => LInv
  BY DecodeAssumption DEF Init, LInv
<1> QED
  BY <1>1, <1>2, NextLInv, Invariance, PTL DEF Spec
=============================================================================
