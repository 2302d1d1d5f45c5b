------------------------------ MODULE Launcher ------------------------------
(***************************************************************************)
(* The processes of rtlamrscan: one rtl_tcp and one rtlamr for each        *)
(* dongle, started by main, restarted by runDecoder and taken down again   *)
(* through the context, by the Windows job object where main could make    *)
(* one, or not at all.  What the decoders are told is in CommandLine.tla,  *)
(* what becomes of their output in Survey.tla, when they exit in           *)
(* Receiver.tla.                                                           *)
(***************************************************************************)
EXTENDS Integers

CONSTANTS
  MaxDongles,  \* maxDongles
  MaxAttempts  \* maxAttempts of runDecoder

ASSUME DonglesAssumption == MaxDongles \in Nat \ {0}
ASSUME AttemptsAssumption == MaxAttempts \in Nat \ {0}

Devices == 0 .. MaxDongles - 1

VARIABLES
  windows,  \* the platform: proc_windows.go or proc_other.go
  auto,     \* -dongles 0
  want,     \* dongles to look for
  job,      \* main and its children are in a job that is killed on close
  mpc,      \* main
  found,    \* dongles whose rtl_tcp is taken for running
  ctx,      \* "open", or "done" after Ctrl+C or stop()
  tcp,      \* the rtl_tcp processes
  dec,      \* the rtlamr processes: "ok" and "failed" are exit statuses
  run,      \* the runDecoder goroutines
  attempt   \* their attempts

launch == <<windows, auto, want, job>>
vars == <<windows, auto, want, job, mpc, found, ctx, tcp, dec, run, attempt>>

TypeOK ==
  /\ windows \in BOOLEAN /\ auto \in BOOLEAN /\ want \in 1 .. MaxDongles
  /\ job \in BOOLEAN
  /\ mpc \in {"job", "gps", "test", "start", "spawn", "grace", "launch", "select",
              "wait", "prompt", "tested", "finished", "fatal", "late", "closed"}
  /\ found \in 0 .. want
  /\ ctx \in {"open", "done"}
  /\ tcp \in [Devices -> {"none", "up", "dead"}]
  /\ dec \in [Devices -> {"none", "up", "ok", "failed"}]
  /\ run \in [Devices -> {"off", "start", "spawn", "scan", "pause", "over"}]
  /\ attempt \in [Devices -> 0 .. MaxAttempts]

Init ==
  /\ windows \in BOOLEAN /\ auto \in BOOLEAN
  /\ want \in IF auto THEN {MaxDongles} ELSE 1 .. MaxDongles
  /\ job = FALSE /\ mpc = "job" /\ found = 0 /\ ctx = "open"
  /\ tcp = [d \in Devices |-> "none"]
  /\ dec = [d \in Devices |-> "none"]
  /\ run = [d \in Devices |-> "off"]
  /\ attempt = [d \in Devices |-> 0]

(* The launcher exists.  It ends because all decoders are over, with an    *)
(* error, after waiting five seconds for nothing, or because its window is *)
(* closed.                                                                 *)
Ends == {"finished", "fatal", "late", "closed"}
Alive == mpc \notin Ends

Running(d) == tcp[d] = "up" \/ dec[d] = "up"

(* wg.Wait has returned: every goroutine that was started is over.         *)
AllOver == \A d \in Devices : run[d] \in {"off", "over"}

(* Away from Windows there is no job object.  On Windows it may not be     *)
(* created, configured or joined: main logs a warning and goes on.         *)
killChildrenOnExit ==
  /\ mpc = "job"
  /\ job' \in IF windows THEN BOOLEAN ELSE {FALSE}
  /\ mpc' = "gps"
  /\ UNCHANGED <<windows, auto, want, found, ctx, tcp, dec, run, attempt>>

MutNoJob == UNCHANGED <<tcp, dec>>

(* The launcher's end closes the job, which kills every child; without the *)
(* job they stay.                                                          *)
JobCloses ==
  IF job
  THEN /\ tcp' = [d \in Devices |-> IF tcp[d] = "up" THEN "dead" ELSE tcp[d]]
       /\ dec' = [d \in Devices |-> IF dec[d] = "up" THEN "failed" ELSE dec[d]]
  ELSE UNCHANGED <<tcp, dec>>

End(how) ==
  /\ mpc' = how
  /\ JobCloses
  /\ UNCHANGED <<launch, found, ctx, run, attempt>>

(* fatal asks for Enter on Windows and calls os.Exit: no deferred call and *)
(* no cancellation.                                                        *)
Fatal ==
  IF windows
  THEN mpc' = "prompt" /\ UNCHANGED <<launch, found, ctx, tcp, dec, run, attempt>>
  ELSE End("fatal")

Enter ==
  \/ mpc = "prompt" /\ End("fatal")
  \/ mpc = "tested" /\ End("finished")
-----------------------------------------------------------------------------
(* The user: Ctrl+C, caught once the context is there, and the window's X  *)
(* or a signal main does not catch.                                        *)
Interrupt ==
  /\ Alive /\ mpc # "job"
  /\ ctx = "open"
  /\ ctx' = "done"
  /\ UNCHANGED <<launch, mpc, found, tcp, dec, run, attempt>>

CloseWindow ==
  /\ Alive
  /\ End("closed")
-----------------------------------------------------------------------------
(* A position receiver, if there is one, is opened before the radios;      *)
(* -gpstest watches it for two minutes or until Ctrl+C and that is all.    *)
startGPS ==
  /\ mpc = "gps"
  /\ \/ /\ mpc' \in {"test", "start"}
        /\ UNCHANGED <<launch, found, ctx, tcp, dec, run, attempt>>
     \/ Fatal

runGPSTest ==
  /\ mpc = "test"
  /\ IF windows
     THEN mpc' = "tested" /\ UNCHANGED <<launch, found, ctx, tcp, dec, run, attempt>>
     ELSE End("finished")

(* main starts the rtl_tcp of one dongle after the other and watches each  *)
(* for three seconds.  An error ends the search in auto-detect mode when   *)
(* a dongle was found, and the launcher otherwise.                         *)
NoDongle ==
  IF auto /\ found > 0
  THEN mpc' = "launch" /\ UNCHANGED <<launch, found, ctx, tcp, dec, run, attempt>>
  ELSE Fatal

(* exec looks at the context once, before it starts the process.           *)
startRtlTCP ==
  /\ mpc = "start"
  /\ found < want
  /\ IF ctx = "open"
     THEN mpc' = "spawn" /\ UNCHANGED <<launch, found, ctx, tcp, dec, run, attempt>>
     ELSE NoDongle

SpawnRtlTCP ==
  /\ mpc = "spawn"
  /\ \/ /\ tcp' = [tcp EXCEPT ![found] = "up"]
        /\ mpc' = "grace"
        /\ UNCHANGED <<launch, found, ctx, dec, run, attempt>>
     \/ NoDongle

(* At the end of the three seconds an exit may just be too late.           *)
Grace ==
  /\ mpc = "grace"
  /\ \/ tcp[found] = "dead" /\ NoDongle
     \/ /\ found' = found + 1
        /\ mpc' = "start"
        /\ UNCHANGED <<launch, ctx, tcp, dec, run, attempt>>

Searched ==
  /\ mpc = "start"
  /\ found = want
  /\ mpc' = "launch"
  /\ UNCHANGED <<launch, found, ctx, tcp, dec, run, attempt>>

(* The csv files are opened and the goroutines started, unless a file or   *)
(* the frequency list is no good.                                          *)
Launch ==
  /\ mpc = "launch"
  /\ \/ /\ mpc' = "select"
        /\ run' = [d \in Devices |-> IF d < found THEN "start" ELSE "off"]
        /\ UNCHANGED <<launch, found, ctx, tcp, dec, attempt>>
     \/ Fatal
     \/ End("fatal")

(* rtl_tcp may exit at any time, and is killed once the context is done    *)
(* and the launcher is still there to do it.                               *)
TcpExits(d) ==
  /\ tcp[d] = "up"
  /\ tcp' = [tcp EXCEPT ![d] = "dead"]
  /\ UNCHANGED <<launch, mpc, found, ctx, dec, run, attempt>>

Killed(d) ==
  /\ Alive
  /\ ctx = "done"
  /\ \/ tcp[d] = "up" /\ tcp' = [tcp EXCEPT ![d] = "dead"] /\ UNCHANGED dec
     \/ dec[d] = "up" /\ dec' = [dec EXCEPT ![d] = "failed"] /\ UNCHANGED tcp
  /\ UNCHANGED <<launch, mpc, found, ctx, run, attempt>>
-----------------------------------------------------------------------------
(* runDecoder.  Again exec looks at the context, then starts the process.  *)
MutStartAnyway(d) ==
  /\ Alive
  /\ run[d] = "start"
  /\ run' = [run EXCEPT ![d] = "spawn"]
  /\ attempt' = [attempt EXCEPT ![d] = @ + 1]
  /\ UNCHANGED <<launch, mpc, found, ctx, tcp, dec>>

StartDecoder(d) ==
  /\ Alive
  /\ run[d] = "start"
  /\ attempt' = [attempt EXCEPT ![d] = @ + 1]
  /\ run' = [run EXCEPT ![d] = IF ctx = "open" THEN "spawn" ELSE "over"]
  /\ UNCHANGED <<launch, mpc, found, ctx, tcp, dec>>

SpawnDecoder(d) ==
  /\ Alive
  /\ run[d] = "spawn"
  /\ \/ /\ dec' = [dec EXCEPT ![d] = "up"]
        /\ run' = [run EXCEPT ![d] = "scan"]
     \/ /\ run' = [run EXCEPT ![d] = "over"]
        /\ UNCHANGED dec
  /\ UNCHANGED <<launch, mpc, found, ctx, tcp, attempt>>

(* rtlamr exits: with status 0 when main returns, whatever the cause, with *)
(* another status when it is fatal.                                        *)
DecoderExits(d) ==
  /\ dec[d] = "up"
  /\ \E status \in {"ok", "failed"} : dec' = [dec EXCEPT ![d] = status]
  /\ UNCHANGED <<launch, mpc, found, ctx, tcp, run, attempt>>

MutGiveUpEarly(d) == ctx = "done" \/ dec[d] = "ok" \/ attempt[d] + 1 >= MaxAttempts
GiveUp(d) == ctx = "done" \/ dec[d] = "ok" \/ attempt[d] >= MaxAttempts

MutNoWait(d) == dec[d] # "none"

(* Its output has ended and Wait has returned.                             *)
Reaped(d) == dec[d] \in {"ok", "failed"}

DecoderOver(d) ==
  /\ Alive
  /\ run[d] = "scan"
  /\ Reaped(d)
  /\ run' = [run EXCEPT ![d] = IF GiveUp(d) THEN "over" ELSE "pause"]
  /\ UNCHANGED <<launch, mpc, found, ctx, tcp, dec, attempt>>

Pause(d) ==
  /\ Alive
  /\ run[d] = "pause"
  /\ run' = [run EXCEPT ![d] = "start"]
  /\ UNCHANGED <<launch, mpc, found, ctx, tcp, dec, attempt>>

runDecoder(d) == StartDecoder(d) \/ SpawnDecoder(d) \/ DecoderOver(d) \/ Pause(d)
-----------------------------------------------------------------------------
(* main waits for Ctrl+C or for the last decoder, cancels the context and  *)
(* gives the goroutines five seconds.                                      *)
Select ==
  /\ mpc = "select"
  /\ ctx = "done" \/ AllOver
  /\ ctx' = "done"
  /\ mpc' = "wait"
  /\ UNCHANGED <<launch, found, tcp, dec, run, attempt>>

Finish ==
  /\ mpc = "wait"
  /\ AllOver
  /\ End("finished")

FiveSeconds ==
  /\ mpc = "wait"
  /\ End("late")

Main ==
  \/ killChildrenOnExit \/ startGPS \/ runGPSTest
  \/ startRtlTCP \/ SpawnRtlTCP \/ Grace \/ Searched \/ Launch
  \/ Select \/ Finish \/ FiveSeconds

Ended == ~Alive /\ UNCHANGED vars

Next ==
  \/ Interrupt \/ CloseWindow \/ Enter \/ Main \/ Ended
  \/ \E d \in Devices :
       TcpExits(d) \/ Killed(d) \/ DecoderExits(d) \/ runDecoder(d)

(* main and the goroutines run on; exec's own goroutine gets to kill.      *)
(* Neither the user nor a child has to do anything.                        *)
Fairness ==
  /\ WF_vars(Main)
  /\ \A d \in Devices : WF_vars(Killed(d)) /\ WF_vars(runDecoder(d))

Spec == Init /\ [][Next]_vars /\ Fairness
-----------------------------------------------------------------------------
(* Ctrl+C ends the launcher, at whatever point it comes, unless an error   *)
(* or the preflight leaves the prompt for Enter; where the job object was  *)
(* made and joined, nothing the launcher started outlives it, Ctrl+C or X. *)
StopEnds ==
  (ctx = "done" \/ ~Alive) ~>
    \/ mpc \in {"prompt", "tested"}
    \/ ~Alive /\ (job => \A d \in Devices : ~Running(d))

(* A launcher that left because its goroutines were over has left no       *)
(* rtlamr behind, on either platform, and no row was still to come.        *)
NoStrayDecoder == mpc = "finished" => \A d \in Devices : dec[d] # "up"

(* The processes that exec has looked at the context for and not started   *)
(* yet, and the processes that run.                                        *)
UnderWay ==
  {<<"rtlamr", d>> : d \in {e \in Devices : run[e] = "spawn"}}
    \cup (IF mpc = "spawn" THEN {<<"rtl_tcp", found>>} ELSE {})

Up ==
  {<<"rtlamr", d>> : d \in {e \in Devices : dec[e] = "up"}}
    \cup {<<"rtl_tcp", d>> : d \in {e \in Devices : tcp[e] = "up"}}

(* After Ctrl+C no start gets under way, not that of the next rtl_tcp of a *)
(* search, not that of a decoder whose goroutine pauses, whatever else     *)
(* runs for the same dongle; what was under way may still come up, once.   *)
NoStartAfterStop ==
  [][ctx = "done" =>
       UnderWay' \subseteq UnderWay /\ Up' \ Up \subseteq UnderWay \ UnderWay']_vars

(* A decoder that dies is tried again until its attempts are used up or    *)
(* the scan stops.                                                         *)
Restarted ==
  \A d \in Devices :
    (dec[d] = "failed" /\ run[d] = "scan" /\ attempt[d] < MaxAttempts)
      ~> (run[d] = "start" \/ ctx = "done" \/ ~Alive)

(* main.go:419: all child processes are killed when the launcher exits,    *)
(* however it exits.                                                       *)
NoOrphans == ~Alive /\ mpc # "closed" => \A d \in Devices : ~Running(d)
=============================================================================
