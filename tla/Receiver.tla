------------------------------ MODULE Receiver ------------------------------
(***************************************************************************)
(* The life of one rtlamr process: main, NewReceiver, and the three        *)
(* goroutines of Receiver.Run (the reader, the decoder and the drainer)    *)
(* with the unbuffered block channel, the wait group and the two contexts  *)
(* they share.  What the decoder does with a block is in Report.tla and    *)
(* Decode.tla; here it is one step with its possible outcomes.             *)
(***************************************************************************)
EXTENDS Integers

CONSTANTS
  BlockLen,   \* bytes in a block (Cfg.BlockSize2); Read may return any part
  MaxDropped  \* the count of drained blocks saturates here

ASSUME BlockLenAssumption == BlockLen \in Nat \ {0}
ASSUME MaxDroppedAssumption == MaxDropped \in Nat \ {0}

(* What context.Cause(rcvr.ctx) may answer: the first error given to canc, *)
(* main's context, or context.Canceled after canc(nil).                    *)
RealCauses ==
  {"main", "Connect", "HandleFlags", "SetDeadline", "Read", "Encode", "single"}
Causes == RealCauses \cup {"Canceled"}

VARIABLES
  ctx,     \* main's context: "open" or "done" (interrupt or -duration)
  cause,   \* cause of the receiver's context; "none" while it is open
  sdr,     \* the rtl_tcp connection: "down", "up" or "closed"
  mpc,     \* main
  rpc,     \* the reader
  offset,  \* bytes of the current block read so far
  dpc,     \* the drainer
  ppc,     \* the decoder
  wg,      \* the receiver's wait group
  skipped, \* blocks drained since the decoder last received one
  configured \* NewReceiver came to its end: filters chosen, tuner set

vars == <<ctx, cause, sdr, mpc, rpc, offset, dpc, ppc, wg, skipped, configured>>

TypeOK ==
  /\ ctx \in {"open", "done"}
  /\ cause \in Causes \cup {"none"}
  /\ sdr \in {"down", "up", "closed"}
  /\ mpc \in {"new", "run", "select", "wait", "closeFile", "returned", "fatal"}
  /\ rpc \in {"off", "deadline", "read", "send", "wgDone", "close", "canc", "exit"}
  /\ offset \in 0 .. BlockLen
  /\ dpc \in {"off", "wait", "drain", "wgDone", "exit"}
  /\ ppc \in {"off", "select", "decode", "wgDone", "canc", "exit"}
  /\ wg \in 0 .. 3
  /\ skipped \in 0 .. MaxDropped
  /\ configured \in BOOLEAN

Init ==
  /\ ctx = "open" /\ cause = "none" /\ sdr = "down"
  /\ mpc = "new" /\ rpc = "off" /\ dpc = "off" /\ ppc = "off"
  /\ offset = 0 /\ wg = 0 /\ skipped = 0 /\ configured = FALSE

(* The process exists: goroutines stop wherever they are when main returns *)
(* or os.Exit is called.                                                   *)
Alive == mpc \notin {"returned", "fatal"}

MutLastCauseWins(c) == cause' = c

(* canc(err): the first cause stays, later ones are ignored.               *)
Cancel(c) == cause' = IF cause = "none" THEN c ELSE cause

Cancelled == cause # "none"

MutNeverClosed == FALSE

(* close(blockCh) is the reader's second deferred call.                    *)
ChannelClosed == rpc \in {"canc", "exit"}
-----------------------------------------------------------------------------
(* Contexts.  An interrupt or the end of -duration closes main's context;  *)
(* cancelling its child is a separate step of the same cancel call.        *)
Interrupt ==
  /\ Alive
  /\ ctx = "open"
  /\ ctx' = "done"
  /\ UNCHANGED <<configured, cause, sdr, mpc, rpc, offset, dpc, ppc, wg, skipped>>

Propagate ==
  /\ Alive
  /\ ctx = "done" /\ cause = "none"
  /\ Cancel("main")
  /\ UNCHANGED <<configured, ctx, sdr, mpc, rpc, offset, dpc, ppc, wg, skipped>>
-----------------------------------------------------------------------------
(* main.  Its deferred calls run in the order Close (wait, then close the  *)
(* connection), close the sample file.  Run follows NewReceiver even when  *)
(* that failed.                                                            *)
UnknownMsgType ==
  /\ mpc = "new"
  /\ mpc' = "fatal"
  /\ UNCHANGED <<configured, ctx, cause, sdr, rpc, offset, dpc, ppc, wg, skipped>>

MutFailSilently ==
  /\ mpc = "new"
  /\ mpc' = "run"
  /\ sdr' = "up"
  /\ configured' \in BOOLEAN
  /\ UNCHANGED <<ctx, cause, rpc, offset, dpc, ppc, wg, skipped>>

(* Connect may fail with or without a connection left in the SDR.  Only    *)
(* behind both early returns are the filters added and the tuner set.      *)
NewReceiver ==
  /\ mpc = "new"
  /\ mpc' = "run"
  /\ \/ sdr' = "up" /\ configured' = TRUE /\ UNCHANGED cause
     \/ sdr' \in {"down", "up"} /\ Cancel("Connect") /\ UNCHANGED configured
     \/ sdr' = "up" /\ Cancel("HandleFlags") /\ UNCHANGED configured
  /\ UNCHANGED <<ctx, rpc, offset, dpc, ppc, wg, skipped>>

Run ==
  /\ mpc = "run"
  /\ mpc' = "select"
  /\ wg' = wg + 3
  /\ rpc' = "deadline" /\ dpc' = "wait" /\ ppc' = "select"
  /\ UNCHANGED <<configured, ctx, cause, sdr, offset, skipped>>

MainSelect ==
  /\ mpc = "select"
  /\ ctx = "done" \/ Cancelled
  /\ mpc' = "wait"
  /\ UNCHANGED <<configured, ctx, cause, sdr, rpc, offset, dpc, ppc, wg, skipped>>

MutCloseWithoutWait ==
  /\ mpc = "wait"
  /\ mpc' = "closeFile"
  /\ sdr' = "closed"
  /\ UNCHANGED <<configured, ctx, cause, rpc, offset, dpc, ppc, wg, skipped>>

(* rtltcp's SDR embeds its connection.  Where Connect left none, a method  *)
(* of it may answer with an error or panic, which ends the process.        *)
NilConnection ==
  /\ sdr = "down"
  /\ \/ Alive /\ rpc = "deadline"
     \/ mpc = "wait" /\ wg = 0
  /\ mpc' = "fatal"
  /\ UNCHANGED <<configured, ctx, cause, sdr, rpc, offset, dpc, ppc, wg, skipped>>

Close ==
  /\ mpc = "wait"
  /\ wg = 0
  /\ mpc' = "closeFile"
  /\ sdr' = "closed"
  /\ UNCHANGED <<configured, ctx, cause, rpc, offset, dpc, ppc, wg, skipped>>

(* The sample file is closed, main's context is cancelled and main is over.*)
MainReturn ==
  /\ mpc = "closeFile"
  /\ mpc' = "returned"
  /\ ctx' = "done"
  /\ UNCHANGED <<configured, cause, sdr, rpc, offset, dpc, ppc, wg, skipped>>
-----------------------------------------------------------------------------
(* The reader.                                                             *)
ReaderDeadline ==
  /\ Alive
  /\ rpc = "deadline"
  /\ \/ /\ sdr = "up"
        /\ rpc' = "read"
        /\ offset' = 0
        /\ UNCHANGED cause
     \/ /\ Cancel("SetDeadline")
        /\ rpc' = "wgDone"
        /\ UNCHANGED offset
  /\ UNCHANGED <<configured, ctx, sdr, mpc, dpc, ppc, wg, skipped>>

(* One Read: some of the bytes still missing, or an error (the deadline is *)
(* one), which leaves the partial block behind.                            *)
ReaderRead ==
  /\ Alive
  /\ rpc = "read"
  /\ \/ /\ sdr = "up"
        /\ \E n \in 1 .. BlockLen - offset : offset' = offset + n
        /\ rpc' = IF offset' = BlockLen THEN "send" ELSE "read"
        /\ UNCHANGED cause
     \/ /\ Cancel("Read")
        /\ rpc' = "wgDone"
        /\ UNCHANGED offset
  /\ UNCHANGED <<configured, ctx, sdr, mpc, dpc, ppc, wg, skipped>>

(* The reader's select: stop, or hand the block to whichever goroutine is  *)
(* receiving.                                                              *)
ReaderStop ==
  /\ Alive
  /\ rpc = "send"
  /\ Cancelled
  /\ rpc' = "wgDone"
  /\ UNCHANGED <<configured, ctx, cause, sdr, mpc, offset, dpc, ppc, wg, skipped>>

SendToDecoder ==
  /\ Alive
  /\ rpc = "send" /\ ppc = "select"
  /\ rpc' = "deadline" /\ ppc' = "decode"
  /\ skipped' = 0
  /\ UNCHANGED <<configured, ctx, cause, sdr, mpc, offset, dpc, wg>>

SendToDrainer ==
  /\ Alive
  /\ rpc = "send" /\ dpc = "drain"
  /\ rpc' = "deadline"
  /\ skipped' = IF skipped < MaxDropped THEN skipped + 1 ELSE skipped
  /\ UNCHANGED <<configured, ctx, cause, sdr, mpc, offset, dpc, ppc, wg>>

(* Its deferred calls, last one first.                                     *)
ReaderWgDone ==
  /\ Alive
  /\ rpc = "wgDone"
  /\ wg' = wg - 1
  /\ rpc' = "close"
  /\ UNCHANGED <<configured, ctx, cause, sdr, mpc, offset, dpc, ppc, skipped>>

ReaderClose ==
  /\ Alive
  /\ rpc = "close"
  /\ rpc' = "canc"
  /\ UNCHANGED <<configured, ctx, cause, sdr, mpc, offset, dpc, ppc, wg, skipped>>

ReaderCanc ==
  /\ Alive
  /\ rpc = "canc"
  /\ Cancel("Canceled")
  /\ rpc' = "exit"
  /\ UNCHANGED <<configured, ctx, sdr, mpc, offset, dpc, ppc, wg, skipped>>

Reader ==
  \/ ReaderDeadline \/ ReaderRead \/ ReaderStop
  \/ SendToDecoder \/ SendToDrainer
  \/ ReaderWgDone \/ ReaderClose \/ ReaderCanc
-----------------------------------------------------------------------------
(* The drainer.                                                            *)
MutDrainAtOnce ==
  /\ Alive
  /\ dpc = "wait"
  /\ dpc' = "drain"
  /\ UNCHANGED <<configured, ctx, cause, sdr, mpc, rpc, offset, ppc, wg, skipped>>

DrainerWake ==
  /\ Alive
  /\ dpc = "wait"
  /\ Cancelled
  /\ dpc' = "drain"
  /\ UNCHANGED <<configured, ctx, cause, sdr, mpc, rpc, offset, ppc, wg, skipped>>

DrainerEnd ==
  /\ Alive
  /\ dpc = "drain"
  /\ ChannelClosed
  /\ dpc' = "wgDone"
  /\ UNCHANGED <<configured, ctx, cause, sdr, mpc, rpc, offset, ppc, wg, skipped>>

DrainerWgDone ==
  /\ Alive
  /\ dpc = "wgDone"
  /\ wg' = wg - 1
  /\ dpc' = "exit"
  /\ UNCHANGED <<configured, ctx, cause, sdr, mpc, rpc, offset, ppc, skipped>>

Drainer == DrainerWake \/ DrainerEnd \/ DrainerWgDone
-----------------------------------------------------------------------------
(* The decoder.  Receiving a block is SendToDecoder.                       *)
DecoderStop ==
  /\ Alive
  /\ ppc = "select"
  /\ Cancelled \/ ChannelClosed
  /\ ppc' = "wgDone"
  /\ UNCHANGED <<configured, ctx, cause, sdr, mpc, rpc, offset, dpc, wg, skipped>>

MutLeaveSilently ==
  /\ Alive
  /\ ppc = "decode"
  /\ ppc' \in {"select", "exit"}
  /\ UNCHANGED <<configured, ctx, cause, sdr, mpc, rpc, offset, dpc, wg, skipped>>

(* The block's messages are handled and the loop goes on, or encoding      *)
(* fails, or -single is complete.                                          *)
DecoderBlock ==
  /\ Alive
  /\ ppc = "decode"
  /\ \/ ppc' = "select" /\ UNCHANGED cause
     \/ ppc' = "wgDone" /\ Cancel("Encode")
     \/ ppc' = "wgDone" /\ Cancel("single")
  /\ UNCHANGED <<configured, ctx, sdr, mpc, rpc, offset, dpc, wg, skipped>>

(* Writing the raw samples fails: os.Exit.                                 *)
DecoderFatal ==
  /\ Alive
  /\ ppc = "decode"
  /\ mpc' = "fatal"
  /\ UNCHANGED <<configured, ctx, cause, sdr, rpc, offset, dpc, ppc, wg, skipped>>

DecoderWgDone ==
  /\ Alive
  /\ ppc = "wgDone"
  /\ wg' = wg - 1
  /\ ppc' = "canc"
  /\ UNCHANGED <<configured, ctx, cause, sdr, mpc, rpc, offset, dpc, skipped>>

DecoderCanc ==
  /\ Alive
  /\ ppc = "canc"
  /\ Cancel("Canceled")
  /\ ppc' = "exit"
  /\ UNCHANGED <<configured, ctx, sdr, mpc, rpc, offset, dpc, wg, skipped>>

Decoder ==
  DecoderStop \/ DecoderBlock \/ DecoderFatal \/ DecoderWgDone \/ DecoderCanc
-----------------------------------------------------------------------------
Main ==
  \/ UnknownMsgType \/ NewReceiver \/ Run
  \/ MainSelect \/ Close \/ NilConnection \/ MainReturn

(* The process has ended.                                                  *)
Ended == ~Alive /\ UNCHANGED vars

Next == Interrupt \/ Propagate \/ Main \/ Reader \/ Drainer \/ Decoder \/ Ended

(* Goroutines are scheduled, a Read returns by its deadline and the writes *)
(* of encoded messages return.  Go's select picks at random among its      *)
(* ready cases, so a reader that keeps finding the context done does not   *)
(* send for ever.  Nothing makes an interrupt happen.                      *)
Fairness ==
  /\ WF_vars(Propagate) /\ WF_vars(Main)
  /\ WF_vars(Reader) /\ SF_vars(ReaderStop)
  /\ WF_vars(Drainer) /\ WF_vars(Decoder)

Spec == Init /\ [][Next]_vars /\ Fairness
-----------------------------------------------------------------------------
(* Until the receiver is cancelled no block is drained: the decoder's      *)
(* buffers, which join consecutive blocks, get the stream without a gap.   *)
NoGapBeforeCancel == ~Cancelled => skipped = 0

(* A block that is decoded in a receiver nobody cancelled is decoded with  *)
(* the command line's filters and tuner settings, although Run follows a   *)
(* NewReceiver that gave up half way: every way to give up cancels first.  *)
(* (After that, select may still take a block, unfiltered.)                *)
ConfiguredUntilCancelled == ppc = "decode" /\ ~Cancelled => configured

(* Once main is past rcvr.Close no goroutine touches the connection or the *)
(* sample file again: only their last canc(nil) can be left, and the       *)
(* channel is closed.                                                      *)
NoUseAfterClose ==
  sdr = "closed" =>
    /\ rpc \in {"canc", "exit"}
    /\ dpc = "exit"
    /\ ppc \in {"canc", "exit"}

(* The logged cause is a reason: the deferred canc(nil) calls never come   *)
(* first.  It is a part of StageSpec.                                      *)
CauseIsReal == cause # "Canceled"

(* A block that was read is handed over or given up: the reader is not     *)
(* left in its select, whatever became of the decoder.                     *)
NoStuckSend == (Alive /\ rpc = "send") ~> (~Alive \/ rpc # "send")

(* A cancelled receiver or context ends the process.                       *)
CancelEnds == (ctx = "done" \/ Cancelled) ~> ~Alive

(* Receiver.Run with its goroutines implements the stage.                  *)
Stage == INSTANCE StreamStage WITH
  None <- "none",
  why <- cause,
  dropped <- skipped,
  outcome <- CASE mpc = "returned" -> "finished"
               [] mpc = "fatal" -> "aborted"
               [] OTHER -> "running"

StageSpec == Stage!Spec
=============================================================================
