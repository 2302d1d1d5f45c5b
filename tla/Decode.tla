------------------------------- MODULE Decode -------------------------------
(***************************************************************************)
(* One call of Decoder.Decode after another, with its goroutines: every    *)
(* registered parser runs on the packets found for its preamble and sends  *)
(* its messages on the call's unbuffered channel, a closer waits for all   *)
(* of them and closes the channel, and the decoder goroutine of            *)
(* Receiver.Run ranges over it.  The parsers share the sample buffers,     *)
(* which the next call shifts.  A wrapped parser (r900bcd) runs another    *)
(* parser on a channel and a wait group of its own.  A parser reads every  *)
(* packet into one buffer, and goes on to the next while the decoder       *)
(* goroutine works on its last message.                                    *)
(***************************************************************************)
EXTENDS Integers, FiniteSets

CONSTANTS
  Parsers,
  Preambles,
  PreambleOf, \* the preamble each parser is registered under
  Wrapped,    \* the parsers that wrap another one
  MaxMsgs,    \* messages one parser finds in one block
  MaxBlocks   \* calls of Decode

ASSUME DecodeAssumption ==
  /\ IsFiniteSet(Parsers) /\ IsFiniteSet(Preambles)
  /\ PreambleOf \in [Parsers -> Preambles]
  /\ Wrapped \subseteq Parsers
  /\ MaxMsgs \in Nat
  /\ MaxBlocks \in Nat

VARIABLES
  cpc,     \* the decoder goroutine: "idle", "launch", "range", "handle", "gone"
  block,   \* blocks shifted into the shared buffers so far
  todo,    \* preambles still to be searched in this call
  wg,      \* the decoder's wait group
  closer,  \* "off", "wait" or "closed", which is also the channel's state
  at,      \* each parser: "off", "start", "emit"; a wrapping one: "off", "range", "emit"
  inner,   \* the parser inside a wrapping one: "off", "start", "emit", "done", "closed"
  left,    \* messages each parser has yet to send
  worked,  \* the block each parser last took from the shared buffers
  made,    \* history: the messages of this block, <<p, k>> for p's packet k
  got,     \* history: those the decoder goroutine has handled
  heap,    \* the arrays: <<p, 0>> is p's packet buffer, <<p, k>> what the slices
           \* of its message about packet k point to; each holds a packet
  hand     \* the message the decoder goroutine received last

vars == <<cpc, block, todo, wg, closer, at, inner, left, worked, made, got, heap, hand>>

(* Packet k of block b; a packet 0 is one that yields no message.          *)
Packets == (0 .. MaxBlocks) \X (0 .. MaxMsgs)
Arrays == Parsers \X (0 .. MaxMsgs)
NoPacket == <<0, 0>>
Messages == [from : Parsers, packet : Packets, slices : Arrays]
NoMessage == [packet |-> NoPacket, slices |-> NoPacket]

TypeOK ==
  /\ cpc \in {"idle", "launch", "range", "handle", "gone"}
  /\ block \in 0 .. MaxBlocks
  /\ todo \subseteq Preambles
  /\ wg \in 0 .. Cardinality(Parsers)
  /\ closer \in {"off", "wait", "closed"}
  /\ at \in [Parsers -> {"off", "start", "range", "emit"}]
  /\ inner \in [Parsers -> {"off", "start", "emit", "done", "closed"}]
  /\ left \in [Parsers -> 0 .. MaxMsgs]
  /\ worked \in [Parsers -> 0 .. MaxBlocks]
  /\ heap \in [Arrays -> Packets]
  /\ hand \in Messages \cup {NoMessage}

Init ==
  /\ cpc = "idle" /\ block = 0 /\ todo = {} /\ wg = 0 /\ closer = "off"
  /\ at = [p \in Parsers |-> "off"] /\ inner = [p \in Parsers |-> "off"]
  /\ left = [p \in Parsers |-> 0] /\ worked = [p \in Parsers |-> 0]
  /\ made = {} /\ got = {}
  /\ heap = [a \in Arrays |-> NoPacket] /\ hand = NoMessage

ParsersOf(preamble) == {p \in Parsers : PreambleOf[p] = preamble}
-----------------------------------------------------------------------------
(* The arrays of handled messages are garbage, the packet buffers are kept *)
(* from call to call.                                                      *)
Collected == [a \in Arrays |-> IF a[2] = 0 THEN heap[a] ELSE NoPacket]

MutShiftWhileParsing ==
  /\ cpc \in {"idle", "range"}
  /\ block < MaxBlocks
  /\ block' = block + 1
  /\ todo' = Preambles
  /\ cpc' = "launch"
  /\ closer' = "off"
  /\ made' = {} /\ got' = {}
  /\ heap' = Collected /\ hand' = NoMessage
  /\ UNCHANGED <<wg, at, inner, left, worked>>

(* The decoder goroutine calls Decode: the buffers are shifted and filled  *)
(* and a new channel is made.                                              *)
StartDecode ==
  /\ cpc = "idle"
  /\ block < MaxBlocks
  /\ block' = block + 1
  /\ todo' = Preambles
  /\ cpc' = "launch"
  /\ closer' = "off"
  /\ made' = {} /\ got' = {}
  /\ heap' = Collected /\ hand' = NoMessage
  /\ UNCHANGED <<wg, at, inner, left, worked>>

(* What one turn of the loop adds to the wait group.                       *)
Joined(parsers) == Cardinality(parsers)

(* One turn of the loop over the preambles, which a Go map yields in any   *)
(* order: search and slice, add to the wait group, start the parsers.  The *)
(* packets decide how many messages each will find.                        *)
Launch(preamble) ==
  LET started == ParsersOf(preamble) IN
  /\ cpc = "launch"
  /\ preamble \in todo
  /\ todo' = todo \ {preamble}
  /\ wg' = wg + Joined(started)
  /\ \E found \in [started -> 0 .. MaxMsgs] :
       /\ left' = [p \in Parsers |-> IF p \in started THEN found[p] ELSE left[p]]
       /\ made' = made \cup {a \in Arrays : a[1] \in started /\ a[2] \in 1 .. found[a[1]]}
  /\ at' = [p \in Parsers |->
              IF p \notin started THEN at[p]
              ELSE IF p \in Wrapped THEN "range" ELSE "start"]
  /\ inner' = [p \in Parsers |->
                 IF p \in started \cap Wrapped THEN "start" ELSE inner[p]]
  /\ UNCHANGED <<cpc, block, closer, worked, got, heap, hand>>

(* The closer is started after all parsers, and Decode returns.            *)
SpawnCloser ==
  /\ cpc = "launch"
  /\ todo = {}
  /\ closer' = "wait"
  /\ cpc' = "range"
  /\ UNCHANGED <<block, todo, wg, at, inner, left, worked, made, got, heap, hand>>

MutCloseEarly ==
  /\ closer = "wait"
  /\ closer' = "closed"
  /\ UNCHANGED <<cpc, block, todo, wg, at, inner, left, worked, made, got, heap, hand>>

Closer ==
  /\ closer = "wait"
  /\ wg = 0
  /\ closer' = "closed"
  /\ UNCHANGED <<cpc, block, todo, wg, at, inner, left, worked, made, got, heap, hand>>

(* The message in hand, as the history counts it.                          *)
Handled == <<hand.from, hand.packet[2]>>

(* The message is handled and the range goes on, or the decoder goroutine  *)
(* leaves it for good (-single without ids, or an encoding error).  What   *)
(* outlives the message (digest, last checksum) is copied out of it.       *)
Handle ==
  /\ cpc = "handle"
  /\ cpc' \in {"range", "gone"}
  /\ got' = got \cup {Handled}
  /\ hand' = NoMessage
  /\ UNCHANGED <<block, todo, wg, closer, at, inner, left, worked, made, heap>>

RangeEnds ==
  /\ cpc = "range"
  /\ closer = "closed"
  /\ cpc' = "idle"
  /\ UNCHANGED <<block, todo, wg, closer, at, inner, left, worked, made, got, heap, hand>>
-----------------------------------------------------------------------------
(* A plain parser: take the block (the r900 parser copies Decoder.Signal   *)
(* into its history even when there are no packets; the others only read   *)
(* the packets of this call), send what it finds, call Done.               *)
Work(p) ==
  /\ at[p] = "start"
  /\ at' = [at EXCEPT ![p] = "emit"]
  /\ worked' = [worked EXCEPT ![p] = block]
  /\ UNCHANGED <<cpc, block, todo, wg, closer, inner, left, made, got, heap, hand>>

Parsing(p) == IF p \in Wrapped THEN inner[p] = "emit" ELSE at[p] = "emit"

(* The next packet is copied into the buffer and passes: a message is made *)
(* of it, whose slices are arrays of its own.                              *)
ReadPacket(p) ==
  /\ Parsing(p) /\ left[p] > 0
  /\ heap[<<p, 0>>] # <<block, left[p]>>
  /\ heap' = [heap EXCEPT ![<<p, 0>>] = <<block, left[p]>>,
                         ![<<p, left[p]>>] = <<block, left[p]>>]
  /\ UNCHANGED <<cpc, block, todo, wg, closer, at, inner, left, worked, made, got, hand>>

(* Or it is one seen before, fails a checksum or has no id, and the parser *)
(* goes on; two such packets in a row look the same.                       *)
SkipPacket(p) ==
  /\ Parsing(p)
  /\ heap[<<p, 0>>] \notin {<<block, 0>>, <<block, left[p]>>}
  /\ heap' = [heap EXCEPT ![<<p, 0>>] = <<block, 0>>]
  /\ UNCHANGED <<cpc, block, todo, wg, closer, at, inner, left, worked, made, got, hand>>

MutAlias(p, k) == <<p, 0>>

(* Where the slices of a new message point.                                *)
Slices(p, k) == <<p, k>>

Message(p, k) == [from |-> p, packet |-> <<block, k>>, slices |-> Slices(p, k)]

MutForgetSeen(p) == left

(* The packet is marked as seen and makes no second message.               *)
Fewer(p) == [left EXCEPT ![p] = @ - 1]

Send(p) ==
  /\ p \notin Wrapped
  /\ at[p] = "emit" /\ left[p] > 0
  /\ heap[<<p, 0>>] = <<block, left[p]>>
  /\ cpc = "range"
  /\ cpc' = "handle"
  /\ hand' = Message(p, left[p])
  /\ left' = Fewer(p)
  /\ UNCHANGED <<block, todo, wg, closer, at, inner, worked, made, got, heap>>

MutReturnWithoutDone(p) ==
  /\ p \notin Wrapped
  /\ at[p] = "emit" /\ left[p] = 0
  /\ at' = [at EXCEPT ![p] = "off"]
  /\ UNCHANGED <<cpc, block, todo, wg, closer, inner, left, worked, made, got, heap, hand>>

Done(p) ==
  /\ p \notin Wrapped
  /\ at[p] = "emit" /\ left[p] = 0
  /\ at' = [at EXCEPT ![p] = "off"]
  /\ wg' = wg - 1
  /\ UNCHANGED <<cpc, block, todo, closer, inner, left, worked, made, got, heap, hand>>
-----------------------------------------------------------------------------
(* A wrapping parser: the parser inside sends on the local channel, its    *)
(* own closer closes that, and the wrapper forwards each message.          *)
InnerWork(p) ==
  /\ inner[p] = "start"
  /\ inner' = [inner EXCEPT ![p] = "emit"]
  /\ worked' = [worked EXCEPT ![p] = block]
  /\ UNCHANGED <<cpc, block, todo, wg, closer, at, left, made, got, heap, hand>>

InnerSend(p) ==
  /\ inner[p] = "emit" /\ left[p] > 0
  /\ heap[<<p, 0>>] = <<block, left[p]>>
  /\ at[p] = "range"
  /\ at' = [at EXCEPT ![p] = "emit"]
  /\ left' = Fewer(p)
  /\ UNCHANGED <<cpc, block, todo, wg, closer, inner, worked, made, got, heap, hand>>

InnerDone(p) ==
  /\ inner[p] = "emit" /\ left[p] = 0
  /\ inner' = [inner EXCEPT ![p] = "done"]
  /\ UNCHANGED <<cpc, block, todo, wg, closer, at, left, worked, made, got, heap, hand>>

InnerClose(p) ==
  /\ inner[p] = "done"
  /\ inner' = [inner EXCEPT ![p] = "closed"]
  /\ UNCHANGED <<cpc, block, todo, wg, closer, at, left, worked, made, got, heap, hand>>

Forward(p) ==
  /\ p \in Wrapped
  /\ at[p] = "emit"
  /\ cpc = "range"
  /\ cpc' = "handle"
  /\ hand' = Message(p, left[p] + 1)
  /\ at' = [at EXCEPT ![p] = "range"]
  /\ UNCHANGED <<block, todo, wg, closer, inner, left, worked, made, got, heap>>

MutWrapperDoesNotWait(p) ==
  /\ at[p] = "range"
  /\ at' = [at EXCEPT ![p] = "off"]
  /\ wg' = wg - 1
  /\ UNCHANGED <<cpc, block, todo, closer, inner, left, worked, made, got, heap, hand>>

WrapperDone(p) ==
  /\ at[p] = "range"
  /\ inner[p] = "closed"
  /\ at' = [at EXCEPT ![p] = "off"]
  /\ inner' = [inner EXCEPT ![p] = "off"]
  /\ wg' = wg - 1
  /\ UNCHANGED <<cpc, block, todo, closer, left, worked, made, got, heap, hand>>
-----------------------------------------------------------------------------
Consumer ==
  \/ StartDecode
  \/ \E preamble \in Preambles : Launch(preamble)
  \/ SpawnCloser \/ Handle \/ RangeEnds

Parser(p) ==
  \/ Work(p) \/ ReadPacket(p) \/ SkipPacket(p) \/ Send(p) \/ Done(p)
  \/ InnerWork(p) \/ InnerSend(p) \/ InnerDone(p) \/ InnerClose(p)
  \/ Forward(p) \/ WrapperDone(p)

(* No more blocks, or the decoder goroutine has left and the parsers that  *)
(* still have a message to send wait for ever (the process is ending).     *)
Over ==
  /\ cpc = "gone" \/ (cpc = "idle" /\ block = MaxBlocks)
  /\ UNCHANGED vars

Next == Consumer \/ Closer \/ Over \/ \E p \in Parsers : Parser(p)

(* Every goroutine is scheduled.                                           *)
Fairness ==
  /\ WF_vars(Consumer) /\ WF_vars(Closer)
  /\ \A p \in Parsers : WF_vars(Parser(p))

Spec == Init /\ [][Next]_vars /\ Fairness
-----------------------------------------------------------------------------
Sending(p) == at[p] = "emit" /\ (p \in Wrapped \/ left[p] > 0)

(* The channel is closed after the last message: no parser can still send  *)
(* on it, which would panic.                                               *)
NoSendOnClosed == closer = "closed" => \A p \in Parsers : ~Sending(p)

(* When the range over a block ends every message found in it was handled: *)
(* a part of DeliversEach.                                                 *)
NothingLost == cpc = "idle" => got = made

(* Each parser takes every block from the shared buffers exactly once and  *)
(* in order, whatever the goroutines of neighbouring blocks are doing: the *)
(* r900 history is built from nothing else.                                *)
EveryBlockOnce ==
  [][\A p \in Parsers : worked'[p] # worked[p] => worked'[p] = worked[p] + 1]_vars

(* ... and none is left behind when the next block comes.                  *)
InStep == cpc = "idle" => \A p \in Parsers : worked[p] = block

(* What the decoder goroutine reads in a message is the packet it was made *)
(* of, in all fields, although the parser may have read the next packet    *)
(* into its buffer already, or finished.                                   *)
HandledAsFound == cpc = "handle" => heap[hand.slices] = hand.packet

(* Every message found comes to the decoder goroutine once, with what its  *)
(* slices hold being what was found, and the range ends behind the last.   *)
Unread ==
  CASE cpc = "range"  -> made \ got
    [] cpc = "handle" -> made \ (got \cup {Handled})
    [] OTHER          -> {}

Phase == IF cpc = "launch" THEN "idle" ELSE cpc
Inbox == {[from |-> a[1], packet |-> <<block, a[2]>>] : a \in Unread}
Content ==
  IF cpc = "handle" THEN [from |-> hand.from, packet |-> heap[hand.slices]] ELSE NoMessage

Delivered == INSTANCE Delivery WITH
  Messages <- [from : Parsers, packet : Packets],
  None <- NoMessage,
  phase <- Phase, inbox <- Inbox, hand <- Content

DeliversEach == Delivered!Spec

(* A call of Decode is consumed to its end or abandoned.                   *)
DecodeEnds == (cpc = "launch") ~> (cpc \in {"idle", "gone"})
=============================================================================
