---------------------------- MODULE StreamStage ----------------------------
(***************************************************************************)
(* What Receiver.Run promises, without its goroutines: a stage between a   *)
(* source of sample blocks and a decoder.  It hands on every block until   *)
(* something stops it.  The first thing that stops it is recorded as the   *)
(* cause and never changes; from then on blocks may be thrown away.  The   *)
(* stage ends in an orderly way, which only follows a recorded cause, or   *)
(* the program aborts.                                                     *)
(***************************************************************************)
EXTENDS Integers

CONSTANTS
  RealCauses, \* what can stop the stage; context.Canceled is not one of them
  None,       \* no cause yet
  MaxDropped  \* the count of dropped blocks saturates here

VARIABLES
  why,     \* the recorded cause
  dropped, \* blocks thrown away since the last one that was handed on
  outcome  \* "running", "finished" or "aborted"

vars == <<why, dropped, outcome>>

Init == why = None /\ dropped = 0 /\ outcome = "running"

(* A block reaches the decoder.                                            *)
Pass ==
  /\ outcome = "running"
  /\ dropped' = 0
  /\ UNCHANGED <<why, outcome>>

(* A block is read and thrown away: only once a cause is recorded.         *)
Drop ==
  /\ outcome = "running"
  /\ why # None
  /\ dropped' = IF dropped < MaxDropped THEN dropped + 1 ELSE dropped
  /\ UNCHANGED <<why, outcome>>

(* The first reason to stop is recorded.                                   *)
Cancel ==
  /\ outcome = "running"
  /\ why = None
  /\ why' \in RealCauses
  /\ UNCHANGED <<dropped, outcome>>

Finish ==
  /\ outcome = "running"
  /\ why # None
  /\ outcome' = "finished"
  /\ UNCHANGED <<why, dropped>>

Abort ==
  /\ outcome = "running"
  /\ outcome' = "aborted"
  /\ UNCHANGED <<why, dropped>>

Next == Pass \/ Drop \/ Cancel \/ Finish \/ Abort

Steps == Init /\ [][Next]_vars

(* Once stopped, the stage does end.                                       *)
Ends == (why # None) ~> (outcome # "running")

Spec == Steps /\ Ends
=============================================================================
