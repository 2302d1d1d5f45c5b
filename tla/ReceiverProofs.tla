--------------------------- MODULE ReceiverProofs ---------------------------
(***************************************************************************)
(* For every block length: the receiver keeps its types, hands the decoder *)
(* a stream without gaps until it is cancelled, decodes nothing unfiltered *)
(* before that, records only real causes, leaves the connection and the    *)
(* sample file alone once main has closed them, and each of its steps is a *)
(* step of the abstract stage.  Its goroutines never all wait for one      *)
(* another, and once the reader has stopped each step is nearer to the end.*)
(***************************************************************************)
EXTENDS Receiver, TLAPS

One(b) == IF b THEN 1 ELSE 0

(* The wait group counts the goroutines that have not called Done yet.     *)
WgCounts ==
  wg = One(rpc \in {"deadline", "read", "send", "wgDone"})
     + One(dpc \in {"wait", "drain", "wgDone"})
     + One(ppc \in {"select", "decode", "wgDone"})

(* Run starts the three goroutines together; the program dies of a message *)
(* type it does not know before that.                                      *)
Started ==
  /\ mpc \in {"new", "run"} => rpc = "off" /\ dpc = "off" /\ ppc = "off"
  /\ mpc \in {"select", "wait", "closeFile", "returned"} =>
       rpc # "off" /\ dpc # "off" /\ ppc # "off"

(* A goroutine that has left its loop did so with a cause on record.       *)
LeftWithCause ==
  /\ rpc \in {"wgDone", "close", "canc", "exit"} => Cancelled
  /\ dpc \in {"drain", "wgDone", "exit"} => Cancelled
  /\ ppc \in {"wgDone", "canc", "exit"} => Cancelled

(* The drainer stays until the reader has closed the channel.              *)
DrainerLast == dpc \in {"wgDone", "exit"} => ChannelClosed

(* The connection is closed by main, after every Done.                     *)
ClosedAfterWait ==
  /\ sdr = "closed" <=> mpc \in {"closeFile", "returned"}
  /\ sdr = "closed" => wg = 0

(* While nothing is cancelled NewReceiver has come to its end before Run.  *)
ConfiguredOrCancelled ==
  (mpc = "run" \/ ppc # "off") /\ ~Cancelled => configured

IInv ==
  /\ TypeOK
  /\ ConfiguredOrCancelled
  /\ WgCounts
  /\ Started
  /\ LeftWithCause
  /\ DrainerLast
  /\ ClosedAfterWait
  /\ NoGapBeforeCancel
  /\ CauseIsReal

-----------------------------------------------------------------------------
LEMMA InitIInv == Init => IInv
<1> SUFFICES ASSUME Init PROVE IInv
  OBVIOUS
<1>1. TypeOK
  <2>1. configured \in BOOLEAN
    BY Zenon DEF Init
  <2> QED
    BY <2>1, BlockLenAssumption, MaxDroppedAssumption DEF Init, TypeOK, Causes
<1>2. ConfiguredOrCancelled
  BY DEF Init, ConfiguredOrCancelled
<1>3. /\ WgCounts /\ Started /\ LeftWithCause /\ DrainerLast /\ ClosedAfterWait
      /\ NoGapBeforeCancel /\ CauseIsReal
  BY DEF Init, WgCounts, One, Started, LeftWithCause, DrainerLast, ClosedAfterWait,
         NoGapBeforeCancel, CauseIsReal, Cancelled
<1> QED
  BY <1>1, <1>2, <1>3 DEF IInv

(* Every action keeps the invariant, one step for each goroutine.          *)
LEMMA NextIInv == IInv /\ [Next]_vars => IInv'
<1> SUFFICES ASSUME IInv, [Next]_vars PROVE IInv'
  OBVIOUS
<1> USE BlockLenAssumption, MaxDroppedAssumption
    DEF IInv, TypeOK, WgCounts, One, Started, LeftWithCause, DrainerLast,
        ClosedAfterWait, NoGapBeforeCancel, CauseIsReal, Cancelled,
        Cancel, Causes, RealCauses, Alive, ChannelClosed, ConfiguredOrCancelled
<1>1. CASE Interrupt \/ Propagate
  <2>1. CASE Interrupt
    BY <2>1 DEF Interrupt
  <2>2. CASE Propagate
    BY <2>2 DEF Propagate
  <2> QED
    BY <1>1, <2>1, <2>2
<1>2. CASE Main
  <2>1. CASE UnknownMsgType
    BY <2>1 DEF UnknownMsgType
  <2>2. CASE NewReceiver
    BY <2>2 DEF NewReceiver
  <2>3. CASE Run
    BY <2>3 DEF Run
  <2>4. CASE MainSelect
    BY <2>4 DEF MainSelect
  <2>5. CASE Close
    BY <2>5 DEF Close
  <2>6. CASE MainReturn
    BY <2>6 DEF MainReturn
  <2>7. CASE NilConnection
    BY <2>7 DEF NilConnection
  <2> QED
    BY <1>2, <2>1, <2>2, <2>3, <2>4, <2>5, <2>6, <2>7 DEF Main
<1>3. CASE Reader
  <2>1. CASE ReaderDeadline
    BY <2>1 DEF ReaderDeadline
  <2>2. CASE ReaderRead
    BY <2>2 DEF ReaderRead
  <2>3. CASE ReaderStop
    BY <2>3 DEF ReaderStop
  <2>4. CASE SendToDecoder
    BY <2>4 DEF SendToDecoder
  <2>5. CASE SendToDrainer
    BY <2>5 DEF SendToDrainer
  <2>6. CASE ReaderWgDone
    BY <2>6 DEF ReaderWgDone
  <2>7. CASE ReaderClose
    BY <2>7 DEF ReaderClose
  <2>8. CASE ReaderCanc
    BY <2>8 DEF ReaderCanc
  <2> QED
    BY <1>3, <2>1, <2>2, <2>3, <2>4, <2>5, <2>6, <2>7, <2>8 DEF Reader
<1>4. CASE Drainer
  <2>1. CASE DrainerWake
    BY <2>1 DEF DrainerWake
  <2>2. CASE DrainerEnd
    BY <2>2 DEF DrainerEnd
  <2>3. CASE DrainerWgDone
    BY <2>3 DEF DrainerWgDone
  <2> QED
    BY <1>4, <2>1, <2>2, <2>3 DEF Drainer
<1>5. CASE Decoder
  <2>1. CASE DecoderStop
    BY <2>1 DEF DecoderStop
  <2>2. CASE DecoderBlock
    BY <2>2 DEF DecoderBlock
  <2>3. CASE DecoderFatal
    BY <2>3 DEF DecoderFatal
  <2>4. CASE DecoderWgDone
    BY <2>4 DEF DecoderWgDone
  <2>5. CASE DecoderCanc
    BY <2>5 DEF DecoderCanc
  <2> QED
    BY <1>5, <2>1, <2>2, <2>3, <2>4, <2>5 DEF Decoder
<1>6. CASE Ended \/ UNCHANGED vars
  BY <1>6 DEF Ended, vars
<1> QED
  BY <1>1, <1>2, <1>3, <1>4, <1>5, <1>6 DEF Next
-----------------------------------------------------------------------------
THEOREM Invariance == Spec => []IInv
BY InitIInv, NextIInv, PTL DEF Spec

(* The types hold in every reachable state: the wait group never goes      *)
(* below zero and a Read never writes past the end of its block.           *)
THEOREM TypeCorrect == Spec => []TypeOK
<1>1. IInv => TypeOK
  BY DEF IInv
<1> QED
  BY <1>1, Invariance, PTL

(* The decoder's stream has no gap before the receiver is cancelled.       *)
THEOREM GapFree == Spec => []NoGapBeforeCancel
<1>1. IInv => NoGapBeforeCancel
  BY DEF IInv
<1> QED
  BY <1>1, Invariance, PTL

(* No block is decoded without the filters before the receiver is          *)
(* cancelled.                                                              *)
THEOREM ConfiguredFirst == Spec => []ConfiguredUntilCancelled
<1>1. IInv => ConfiguredUntilCancelled
  BY DEF IInv, ConfiguredOrCancelled, ConfiguredUntilCancelled
<1> QED
  BY <1>1, Invariance, PTL

(* The recorded cause is never the context.Canceled of a deferred call.    *)
THEOREM RealCause == Spec => []CauseIsReal
<1>1. IInv => CauseIsReal
  BY DEF IInv
<1> QED
  BY <1>1, Invariance, PTL

(* After main closes the connection no goroutine reads, decodes or drains. *)
THEOREM CloseIsLast == Spec => []NoUseAfterClose
<1>1. IInv => NoUseAfterClose
  <2> SUFFICES ASSUME IInv, sdr = "closed" PROVE NoUseAfterClose
    BY DEF NoUseAfterClose
  <2>1. wg = 0 /\ rpc # "off" /\ dpc # "off" /\ ppc # "off"
    BY DEF IInv, ClosedAfterWait, Started
  <2>2. /\ rpc \notin {"deadline", "read", "send", "wgDone"}
        /\ dpc \notin {"wait", "drain", "wgDone"}
        /\ ppc \notin {"select", "decode", "wgDone"}
    BY <2>1 DEF IInv, WgCounts, One
  <2>3. dpc = "exit" /\ ppc \in {"canc", "exit"}
    BY <2>1, <2>2 DEF IInv, TypeOK
  <2>4. rpc \in {"canc", "exit"}
    BY <2>3 DEF IInv, DrainerLast, ChannelClosed
  <2> QED
    BY <2>3, <2>4 DEF NoUseAfterClose
<1> QED
  BY <1>1, Invariance, PTL
-----------------------------------------------------------------------------
(* The receiver implements the safety part of the abstract stage: blocks   *)
(* are only thrown away after a cause, the first cause stays, and main     *)
(* only returns with one on record.  IInv is what makes it true: a Done    *)
(* from all three goroutines means that a cause is recorded.               *)
LEMMA StepSimulation == IInv /\ IInv' /\ [Next]_vars => [Stage!Next]_(Stage!vars)
<1> SUFFICES ASSUME IInv, IInv', [Next]_vars PROVE [Stage!Next]_(Stage!vars)
  OBVIOUS
<1> USE DEF IInv, TypeOK, NoGapBeforeCancel, CauseIsReal, Started, ClosedAfterWait, LeftWithCause,
        WgCounts, One, Cancelled, Cancel, Causes, RealCauses, Alive, Stage!vars, Stage!Next,
        Stage!Pass, Stage!Drop, Stage!Cancel, Stage!Finish, Stage!Abort
<1>1. CASE Interrupt \/ Propagate
  <2>1. CASE Interrupt
    BY <2>1 DEF Interrupt
  <2>2. CASE Propagate
    BY <2>2 DEF Propagate
  <2> QED
    BY <1>1, <2>1, <2>2
<1>2. CASE Main
  <2>1. CASE UnknownMsgType
    BY <2>1 DEF UnknownMsgType
  <2>2. CASE NewReceiver
    BY <2>2 DEF NewReceiver
  <2>3. CASE Run
    BY <2>3 DEF Run
  <2>4. CASE MainSelect
    BY <2>4 DEF MainSelect
  <2>5. CASE Close
    BY <2>5 DEF Close
  <2>6. CASE MainReturn
    BY <2>6 DEF MainReturn
  <2>7. CASE NilConnection
    BY <2>7 DEF NilConnection
  <2> QED
    BY <1>2, <2>1, <2>2, <2>3, <2>4, <2>5, <2>6, <2>7 DEF Main
<1>3. CASE Reader
  <2>1. CASE ReaderDeadline
    BY <2>1 DEF ReaderDeadline
  <2>2. CASE ReaderRead
    BY <2>2 DEF ReaderRead
  <2>3. CASE ReaderStop
    BY <2>3 DEF ReaderStop
  <2>4. CASE SendToDecoder
    BY <2>4 DEF SendToDecoder
  <2>5. CASE SendToDrainer
    BY <2>5 DEF SendToDrainer
  <2>6. CASE ReaderWgDone
    BY <2>6 DEF ReaderWgDone
  <2>7. CASE ReaderClose
    BY <2>7 DEF ReaderClose
  <2>8. CASE ReaderCanc
    BY <2>8 DEF ReaderCanc
  <2> QED
    BY <1>3, <2>1, <2>2, <2>3, <2>4, <2>5, <2>6, <2>7, <2>8 DEF Reader
<1>4. CASE Drainer
  <2>1. CASE DrainerWake
    BY <2>1 DEF DrainerWake
  <2>2. CASE DrainerEnd
    BY <2>2 DEF DrainerEnd
  <2>3. CASE DrainerWgDone
    BY <2>3 DEF DrainerWgDone
  <2> QED
    BY <1>4, <2>1, <2>2, <2>3 DEF Drainer
<1>5. CASE Decoder
  <2>1. CASE DecoderStop
    BY <2>1 DEF DecoderStop
  <2>2. CASE DecoderBlock
    BY <2>2 DEF DecoderBlock
  <2>3. CASE DecoderFatal
    BY <2>3 DEF DecoderFatal
  <2>4. CASE DecoderWgDone
    BY <2>4 DEF DecoderWgDone
  <2>5. CASE DecoderCanc
    BY <2>5 DEF DecoderCanc
  <2> QED
    BY <1>5, <2>1, <2>2, <2>3, <2>4, <2>5 DEF Decoder
<1>6. CASE Ended \/ UNCHANGED vars
  BY <1>6 DEF Ended, vars
<1> QED
  BY <1>1, <1>2, <1>3, <1>4, <1>5, <1>6 DEF Next

THEOREM ImplementsStage == Spec => Stage!Steps
<1>1. Init => Stage!Init
  BY DEF Init, Stage!Init
<1> QED
  BY <1>1, StepSimulation, Invariance, PTL DEF Spec, Stage!Steps
-----------------------------------------------------------------------------
(* The end of the process.  In every state some goroutine, or main, can    *)
(* take a step: the guards of their actions.                               *)
MainCanStep ==
  \/ mpc \in {"new", "run", "closeFile"}
  \/ mpc = "select" /\ (ctx = "done" \/ Cancelled)
  \/ mpc = "wait" /\ wg = 0

ReaderCanStep ==
  \/ rpc \in {"deadline", "read", "wgDone", "close", "canc"}
  \/ rpc = "send" /\ (Cancelled \/ ppc = "select" \/ dpc = "drain")

DrainerCanStep ==
  \/ dpc = "wait" /\ Cancelled
  \/ dpc = "drain" /\ ChannelClosed
  \/ dpc = "wgDone"

DecoderCanStep ==
  \/ ppc = "select" /\ (Cancelled \/ ChannelClosed)
  \/ ppc \in {"decode", "wgDone", "canc"}

(* The reader, the drainer, the decoder and main never all wait for one    *)
(* another, whatever was cancelled and whatever the decoder is doing: a    *)
(* theorem about Receiver.Run and main for every block length.             *)
THEOREM NeverStuck ==
  Spec => [](Alive => MainCanStep \/ ReaderCanStep \/ DrainerCanStep \/ DecoderCanStep)
<1> DEFINE Goes == MainCanStep \/ ReaderCanStep \/ DrainerCanStep \/ DecoderCanStep
<1>1. IInv => (Alive => Goes)
  <2> SUFFICES ASSUME IInv, Alive, ~Goes PROVE FALSE
    OBVIOUS
  <2> USE DEF IInv, TypeOK, Started, LeftWithCause, WgCounts, One, Alive, Cancelled, ChannelClosed
  <2>1. mpc \in {"select", "wait"} /\ rpc # "off" /\ dpc # "off" /\ ppc # "off"
    BY DEF MainCanStep
  <2>2. rpc \in {"send", "exit"}
    BY <2>1 DEF ReaderCanStep
  <2>3. rpc = "exit"
    <3>1. rpc = "send" => ~Cancelled /\ ppc \in {"wgDone", "canc", "exit", "decode"}
      BY <2>1 DEF ReaderCanStep
    <3> QED
      BY <2>2, <3>1 DEF DecoderCanStep
  <2>4. Cancelled /\ mpc = "wait" /\ wg # 0
    BY <2>1, <2>3 DEF MainCanStep
  <2>5. dpc = "exit" /\ ppc = "exit"
    BY <2>1, <2>3, <2>4 DEF DrainerCanStep, DecoderCanStep
  <2> QED
    BY <2>3, <2>4, <2>5
<1> QED
  BY <1>1, Invariance, PTL

(* Steps still to come once the reader has left its loop.                  *)
Stopped == rpc \in {"wgDone", "close", "canc", "exit"}

ToGo ==
    (CASE rpc = "wgDone" -> 3 [] rpc = "close" -> 2 [] rpc = "canc" -> 1 [] OTHER -> 0)
  + (CASE ppc = "decode" -> 4 [] ppc = "select" -> 3 [] ppc = "wgDone" -> 2
       [] ppc = "canc" -> 1 [] OTHER -> 0)
  + (CASE dpc = "wait" -> 3 [] dpc = "drain" -> 2 [] dpc = "wgDone" -> 1 [] OTHER -> 0)
  + (CASE mpc = "select" -> 3 [] mpc = "wait" -> 2 [] mpc = "closeFile" -> 1 [] OTHER -> 0)
  + One(ctx = "open")

(* Nothing the goroutines do after the reader has stopped can go round in  *)
(* circles: each step brings the process nearer to its end, the user's     *)
(* interrupt included.                                                     *)
THEOREM NearerToTheEnd == Spec => [][Stopped => ToGo \in Nat /\ ToGo' \in Nat /\ ToGo' < ToGo]_vars
<1>1. IInv /\ [Next]_vars => [Stopped => ToGo \in Nat /\ ToGo' \in Nat /\ ToGo' < ToGo]_vars
  <2> SUFFICES ASSUME IInv, Next, vars' # vars, Stopped
               PROVE  ToGo \in Nat /\ ToGo' \in Nat /\ ToGo' < ToGo
    OBVIOUS
  <2> USE DEF IInv, TypeOK, Started, LeftWithCause, Cancelled, Cancel, Alive, Stopped, ToGo, One
  <2>1. CASE Interrupt \/ Propagate \/ Ended
    BY <2>1 DEF Interrupt, Propagate, Ended
  <2>2. CASE Main
    BY <2>2 DEF Main, UnknownMsgType, NewReceiver, Run, MainSelect, Close, NilConnection, MainReturn
  <2>3. CASE Reader
    BY <2>3 DEF Reader, ReaderDeadline, ReaderRead, ReaderStop, SendToDecoder, SendToDrainer,
                ReaderWgDone, ReaderClose, ReaderCanc
  <2>4. CASE Drainer
    BY <2>4 DEF Drainer, DrainerWake, DrainerEnd, DrainerWgDone
  <2>5. CASE Decoder
    BY <2>5 DEF Decoder, DecoderStop, DecoderBlock, DecoderFatal, DecoderWgDone, DecoderCanc
  <2> QED
    BY <2>1, <2>2, <2>3, <2>4, <2>5 DEF Next
<1> QED
  BY <1>1, Invariance, PTL DEF Spec
=============================================================================
