------------------------------ MODULE Delivery ------------------------------
(***************************************************************************)
(* What Decoder.Decode promises to the goroutine that ranges over its      *)
(* result, without the parsers, the channel and the closer: the messages   *)
(* of the block come one at a time, in any order, each once and as it was  *)
(* found, stay as they are while they are handled, and the range ends when *)
(* there are no more.  The goroutine may leave instead; what is left then  *)
(* is never received.                                                      *)
(***************************************************************************)
CONSTANTS
  Messages,
  None       \* no message

VARIABLES
  phase, \* "idle", "range", "handle" or "gone"
  inbox, \* messages of the call that are still to come
  hand   \* the message that is being handled

vars == <<phase, inbox, hand>>

Init == phase = "idle" /\ inbox = {} /\ hand = None

(* Decode returns.                                                         *)
Call ==
  /\ phase = "idle" /\ phase' = "range"
  /\ inbox' \in SUBSET Messages
  /\ UNCHANGED hand

Take(m) ==
  /\ phase = "range" /\ phase' = "handle"
  /\ inbox' = inbox \ {m}
  /\ hand' = m

Handled ==
  /\ phase = "handle"
  /\ \/ phase' = "range" /\ UNCHANGED inbox
     \/ phase' = "gone" /\ inbox' = {}
  /\ hand' = None

End ==
  /\ phase = "range" /\ phase' = "idle"
  /\ inbox = {}
  /\ UNCHANGED <<inbox, hand>>

Next == Call \/ (\E m \in inbox : Take(m)) \/ Handled \/ End

Spec == Init /\ [][Next]_vars
=============================================================================
