--------------------------- MODULE LauncherProofs ---------------------------
(***************************************************************************)
(* For any number of dongles and attempts: the launcher's types hold, a    *)
(* launcher that ends because its goroutines are over leaves no rtlamr     *)
(* behind, and after Ctrl+C no start gets under way; a launcher that was   *)
(* stopped has less to do after each step, and where the job object was    *)
(* made none that ended, however it did, leaves a process running.         *)
(***************************************************************************)
EXTENDS Launcher, TLAPS

(* Before the scan there are no goroutines and no decoders, and a dongle   *)
(* is only started and watched when one is still wanted.                   *)
Searching ==
  /\ mpc \in {"job", "gps", "test", "tested", "start", "spawn", "grace", "launch"} =>
       \A d \in Devices : run[d] = "off" /\ dec[d] = "none" /\ attempt[d] = 0
  /\ mpc \in {"spawn", "grace"} => found < want

(* The dongles the search has not come to have no rtl_tcp.                 *)
Untried ==
  /\ mpc \in {"job", "gps", "start", "spawn", "grace"} =>
       \A d \in Devices : d > found => tcp[d] = "none"
  /\ mpc \in {"job", "gps", "start", "spawn"} =>
       \A d \in Devices : d = found => tcp[d] = "none"

(* A decoder that runs has a goroutine that waits for it, or had one when  *)
(* the launcher ended.                                                     *)
Watched == \A d \in Devices : dec[d] = "up" => run[d] = "scan"

(* A goroutine that will start a decoder has an attempt left.              *)
AttemptLeft ==
  \A d \in Devices : run[d] \in {"start", "pause"} => attempt[d] < MaxAttempts

IInv == TypeOK /\ Searching /\ Untried /\ Watched /\ AttemptLeft /\ NoStrayDecoder

-----------------------------------------------------------------------------
LEMMA InitIInv == Init => IInv
<1> SUFFICES ASSUME Init PROVE IInv
  OBVIOUS
<1>1. want \in 1 .. MaxDongles
  BY DonglesAssumption DEF Init
<1>4. TypeOK
  <2>1. found \in 0 .. want /\ 0 \in 0 .. MaxAttempts
    BY <1>1, DonglesAssumption, AttemptsAssumption DEF Init
  <2>2. attempt \in [Devices -> 0 .. MaxAttempts]
    BY <2>1 DEF Init
  <2> QED
    BY <1>1, <2>1, <2>2 DEF Init, TypeOK
<1>2. Searching /\ Untried /\ Watched /\ NoStrayDecoder
  BY DEF Init, Searching, Untried, Watched, NoStrayDecoder
<1>3. AttemptLeft
  BY DEF Init, AttemptLeft
<1> QED
  BY <1>2, <1>3, <1>4 DEF IInv

(* The end of the launcher, however it comes about, in a state in which    *)
(* no decoder runs or for another reason than that all goroutines are over.*)
LEMMA EndKeeps ==
  ASSUME IInv, NEW how \in Ends, End(how),
         how = "finished" => \A d \in Devices : dec[d] # "up"
  PROVE  IInv'
BY DEF IInv, TypeOK, Searching, Untried, Watched, AttemptLeft, NoStrayDecoder, Alive,
       Ends, End, JobCloses, launch

LEMMA FatalKeeps == ASSUME IInv, mpc \notin Ends, Fatal PROVE IInv'
<1>1. CASE windows
  BY <1>1 DEF Fatal, IInv, TypeOK, Searching, Untried, Watched, AttemptLeft, NoStrayDecoder,
              Alive, Ends, launch
<1>2. CASE ~windows
  <2>1. End("fatal")
    BY <1>2 DEF Fatal
  <2> QED
    BY <2>1, EndKeeps DEF Ends
<1> QED
  BY <1>1, <1>2 DEF IInv, TypeOK

LEMMA NoDongleKeeps == ASSUME IInv, mpc \in {"start", "spawn", "grace"}, NoDongle PROVE IInv'
<1>1. CASE auto /\ found > 0
  BY <1>1 DEF NoDongle, IInv, TypeOK, Searching, Untried, Watched, AttemptLeft, NoStrayDecoder,
              Alive, Ends, launch
<1>2. CASE ~(auto /\ found > 0)
  <2>1. Fatal
    BY <1>2 DEF NoDongle
  <2> QED
    BY <2>1, FatalKeeps DEF Ends
<1> QED
  BY <1>1, <1>2

LEMMA NextIInv == IInv /\ [Next]_vars => IInv'
<1> SUFFICES ASSUME IInv, [Next]_vars PROVE IInv'
  OBVIOUS
<1>1. CASE Interrupt
  BY <1>1 DEF Interrupt, IInv, TypeOK, Searching, Untried, Watched, AttemptLeft, NoStrayDecoder,
              Alive, Ends, launch
<1>2. CASE CloseWindow
  BY <1>2, EndKeeps DEF CloseWindow, Ends
<1>3. CASE Enter
  <2>1. CASE mpc = "prompt"
    BY <1>3, <2>1, EndKeeps DEF Enter, Ends
  <2>2. CASE mpc # "prompt"
    <3>1. mpc = "tested" /\ End("finished")
      BY <1>3, <2>2 DEF Enter
    <3>2. \A d \in Devices : dec[d] # "up"
      BY <3>1 DEF IInv, Searching
    <3> QED
      BY <3>1, <3>2, EndKeeps DEF Ends
  <2> QED
    BY <2>1, <2>2
<1>4. CASE Main
  <2>1. CASE startRtlTCP
    <3>1. CASE ctx = "done"
      BY <2>1, <3>1, NoDongleKeeps DEF startRtlTCP
    <3>2. CASE ctx = "open"
      BY <2>1, <3>2 DEF startRtlTCP, IInv, TypeOK, Searching, Untried, Watched, AttemptLeft,
                        NoStrayDecoder, Alive, Ends, launch
    <3> QED
      BY <3>1, <3>2 DEF IInv, TypeOK
  <2>10. CASE SpawnRtlTCP
    <3>1. CASE NoDongle
      BY <2>10, <3>1, NoDongleKeeps DEF SpawnRtlTCP
    <3>2. CASE ~NoDongle
      <4>1. /\ mpc = "spawn" /\ found \in Devices
            /\ tcp' = [tcp EXCEPT ![found] = "up"] /\ mpc' = "grace"
            /\ UNCHANGED <<launch, found, ctx, dec, run, attempt>>
        BY <2>10, <3>2, DonglesAssumption DEF SpawnRtlTCP, IInv, TypeOK, Searching, Devices
      <4> QED
        BY <4>1 DEF IInv, TypeOK, Searching, Untried, Watched, AttemptLeft, NoStrayDecoder,
                    Alive, Ends, launch
    <3> QED
      BY <3>1, <3>2
  <2>11. CASE killChildrenOnExit
    BY <2>11 DEF killChildrenOnExit, IInv, TypeOK, Searching, Untried, Watched, AttemptLeft,
                 NoStrayDecoder, Alive, Ends
  <2>2. CASE Grace
    <3>1. CASE NoDongle
      BY <2>2, <3>1, NoDongleKeeps DEF Grace
    <3>2. CASE ~NoDongle
      <4>1. /\ mpc = "grace" /\ found' = found + 1 /\ mpc' = "start"
            /\ UNCHANGED <<launch, ctx, tcp, dec, run, attempt>>
        BY <2>2, <3>2 DEF Grace
      <4>2. found' \in 0 .. want
        BY <4>1, DonglesAssumption DEF IInv, TypeOK, Searching
      <4>3. Untried'
        BY <4>1, DonglesAssumption DEF IInv, TypeOK, Untried, Devices
      <4> QED
        BY <4>1, <4>2, <4>3 DEF IInv, TypeOK, Searching, Watched, AttemptLeft, NoStrayDecoder,
                                Alive, Ends, launch
    <3> QED
      BY <3>1, <3>2
  <2>3. CASE Searched
    BY <2>3 DEF Searched, IInv, TypeOK, Searching, Untried, Watched, AttemptLeft, NoStrayDecoder,
                Alive, Ends, launch
  <2>4. CASE Launch
    <3>1. CASE Fatal
      BY <2>4, <3>1, FatalKeeps DEF Launch, Ends
    <3>2. CASE End("fatal")
      BY <3>2, EndKeeps DEF Ends
    <3>3. CASE ~Fatal /\ ~End("fatal")
      <4>1. /\ mpc = "launch" /\ mpc' = "select"
            /\ run' = [d \in Devices |-> IF d < found THEN "start" ELSE "off"]
            /\ UNCHANGED <<launch, found, ctx, tcp, dec, attempt>>
        BY <2>4, <3>3 DEF Launch
      <4> QED
        BY <4>1, AttemptsAssumption
           DEF IInv, TypeOK, Searching, Untried, Watched, AttemptLeft, NoStrayDecoder,
               Alive, Ends, launch
    <3> QED
      BY <3>1, <3>2, <3>3
  <2>5. CASE Select
    BY <2>5 DEF Select, IInv, TypeOK, Searching, Untried, Watched, AttemptLeft, NoStrayDecoder,
                Alive, Ends, launch
  <2>6. CASE Finish
    <3>1. \A d \in Devices : dec[d] # "up"
      BY <2>6 DEF Finish, AllOver, IInv, Watched, Alive, Ends
    <3> QED
      BY <2>6, <3>1, EndKeeps DEF Finish, Ends
  <2>7. CASE FiveSeconds
    BY <2>7, EndKeeps DEF FiveSeconds, Ends
  <2>8. CASE startGPS
    <3>1. CASE Fatal
      BY <2>8, <3>1, FatalKeeps DEF startGPS, Ends
    <3>2. CASE ~Fatal
      BY <2>8, <3>2 DEF startGPS, IInv, TypeOK, Searching, Untried, Watched, AttemptLeft,
                        NoStrayDecoder, Alive, Ends, launch
    <3> QED
      BY <3>1, <3>2
  <2>9. CASE runGPSTest
    <3>1. CASE windows
      BY <2>9, <3>1 DEF runGPSTest, IInv, TypeOK, Searching, Untried, Watched, AttemptLeft,
                        NoStrayDecoder, Alive, Ends, launch
    <3>2. CASE ~windows
      <4>1. mpc = "test" /\ End("finished")
        BY <2>9, <3>2 DEF runGPSTest
      <4>2. \A d \in Devices : dec[d] # "up"
        BY <4>1 DEF IInv, Searching
      <4> QED
        BY <4>1, <4>2, EndKeeps DEF Ends
    <3> QED
      BY <3>1, <3>2 DEF IInv, TypeOK
  <2> QED
    BY <1>4, <2>1, <2>2, <2>3, <2>4, <2>5, <2>6, <2>7, <2>8, <2>9, <2>10, <2>11 DEF Main
<1>5. ASSUME NEW d \in Devices,
             TcpExits(d) \/ Killed(d) \/ DecoderExits(d) \/ runDecoder(d)
      PROVE  IInv'
  <2> USE DEF IInv, TypeOK, Searching, Untried, Watched, AttemptLeft, NoStrayDecoder,
              Alive, Ends, launch
  <2>1. CASE TcpExits(d)
    BY <2>1 DEF TcpExits
  <2>2. CASE Killed(d)
    BY <2>2 DEF Killed
  <2>3. CASE DecoderExits(d)
    BY <2>3 DEF DecoderExits
  <2>4. CASE StartDecoder(d)
    BY <2>4, AttemptsAssumption DEF StartDecoder
  <2>7. CASE SpawnDecoder(d)
    BY <2>7 DEF SpawnDecoder
  <2>5. CASE DecoderOver(d)
    BY <2>5, AttemptsAssumption DEF DecoderOver, GiveUp, Reaped
  <2>6. CASE Pause(d)
    BY <2>6 DEF Pause
  <2> QED
    BY <1>5, <2>1, <2>2, <2>3, <2>4, <2>5, <2>6, <2>7 DEF runDecoder
<1>6. CASE Ended \/ UNCHANGED vars
  BY <1>6 DEF Ended, vars, IInv, TypeOK, Searching, Untried, Watched, AttemptLeft,
              NoStrayDecoder, Alive, Ends
<1> QED
  BY <1>1, <1>2, <1>3, <1>4, <1>5, <1>6 DEF Next

THEOREM Invariance == Spec => []IInv
BY InitIInv, NextIInv, PTL DEF Spec
-----------------------------------------------------------------------------
(* The types hold: found never passes what was asked for and no decoder    *)
(* gets more than MaxAttempts attempts.                                    *)
THEOREM TypeCorrect == Spec => []TypeOK
<1>1. IInv => TypeOK
  BY DEF IInv
<1> QED
  BY <1>1, Invariance, PTL

(* main returns after the last Done only when every rtlamr was reaped.     *)
THEOREM DecodersReaped == Spec => []NoStrayDecoder
<1>1. IInv => NoStrayDecoder
  BY DEF IInv
<1> QED
  BY <1>1, Invariance, PTL

(* What the end of the launcher does leaves nothing new running.           *)
LEMMA NoneUp ==
  ASSUME IInv, JobCloses \/ UNCHANGED <<tcp, dec>>
  PROVE  Up' \subseteq Up
BY DEF JobCloses, Up, IInv, TypeOK

(* A step of main that does not look at the context and starts nothing.    *)
LEMMA MainStartsNone ==
  ASSUME IInv, JobCloses \/ UNCHANGED <<tcp, dec>>, mpc' # "spawn",
         \A d \in Devices : run'[d] = "spawn" => run[d] = "spawn"
  PROVE  UnderWay' \subseteq UnderWay /\ Up' \ Up \subseteq UnderWay \ UnderWay'
BY NoneUp DEF UnderWay

(* No step under a context that is done gets a start under way, and a      *)
(* process that comes up was under way and is no more.                     *)
LEMMA StepStartsNothing ==
  IInv /\ [Next]_vars =>
    [ctx = "done" =>
       UnderWay' \subseteq UnderWay /\ Up' \ Up \subseteq UnderWay \ UnderWay']_vars
<1> SUFFICES ASSUME IInv, [Next]_vars, ctx = "done"
             PROVE  UnderWay' \subseteq UnderWay /\ Up' \ Up \subseteq UnderWay \ UnderWay'
  OBVIOUS
<1>1. ASSUME NEW how \in Ends, End(how)
      PROVE  mpc' # "spawn" /\ JobCloses /\ UNCHANGED run
  BY <1>1 DEF End, Ends
<1>2. CASE Fatal
  BY <1>1, <1>2, MainStartsNone DEF Fatal, Ends
<1>3. CASE NoDongle
  BY <1>2, <1>3, MainStartsNone DEF NoDongle
<1>4. CASE SpawnRtlTCP /\ ~NoDongle
  <2>1. /\ mpc = "spawn" /\ mpc' = "grace" /\ tcp' = [tcp EXCEPT ![found] = "up"]
        /\ UNCHANGED <<found, dec, run>>
    BY <1>4 DEF SpawnRtlTCP
  <2>2. <<"rtl_tcp", found>> \in UnderWay \ UnderWay' /\ UnderWay' \subseteq UnderWay
    BY <2>1 DEF UnderWay
  <2>3. Up' \ Up \subseteq {<<"rtl_tcp", found>>}
    BY <2>1 DEF Up, IInv, TypeOK
  <2> QED
    BY <2>2, <2>3
<1>5. CASE Launch
  <2>1. CASE Fatal \/ End("fatal")
    BY <1>1, <1>2, <2>1, MainStartsNone DEF Ends
  <2>2. CASE ~(Fatal \/ End("fatal"))
    <3>1. /\ mpc' = "select" /\ run' = [d \in Devices |-> IF d < found THEN "start" ELSE "off"]
          /\ UNCHANGED <<tcp, dec>>
      BY <1>5, <2>2 DEF Launch
    <3> QED
      BY <3>1, MainStartsNone
  <2> QED
    BY <2>1, <2>2
<1>6. CASE killChildrenOnExit \/ startGPS \/ runGPSTest
  <2>1. CASE \E how \in Ends : End(how)
    BY <1>1, <2>1, MainStartsNone
  <2>2. CASE ~\E how \in Ends : End(how)
    BY <1>2, <1>6, <2>2, MainStartsNone DEF killChildrenOnExit, startGPS, runGPSTest, Ends
  <2> QED
    BY <2>1, <2>2
<1>7. CASE startRtlTCP \/ (Grace /\ ~NoDongle) \/ Searched \/ Select
  BY <1>3, <1>7, MainStartsNone DEF startRtlTCP, Grace, Searched, Select
<1>8. CASE Finish \/ FiveSeconds \/ CloseWindow \/ Enter
  BY <1>1, <1>8, MainStartsNone DEF Finish, FiveSeconds, CloseWindow, Enter, Ends
<1>9. ASSUME NEW d \in Devices,
             TcpExits(d) \/ Killed(d) \/ DecoderExits(d) \/ DecoderOver(d) \/ Pause(d)
               \/ StartDecoder(d)
      PROVE  UnderWay' \subseteq UnderWay /\ Up' \ Up \subseteq UnderWay \ UnderWay'
  <2>1. UnderWay' \subseteq UnderWay
    BY <1>9 DEF TcpExits, Killed, DecoderExits, DecoderOver, Pause, StartDecoder, UnderWay,
                IInv, TypeOK
  <2>2. Up' \subseteq Up
    BY <1>9 DEF TcpExits, Killed, DecoderExits, DecoderOver, Pause, StartDecoder, Up,
                IInv, TypeOK
  <2> QED
    BY <2>1, <2>2
<1>10. ASSUME NEW d \in Devices, SpawnDecoder(d)
       PROVE  UnderWay' \subseteq UnderWay /\ Up' \ Up \subseteq UnderWay \ UnderWay'
  <2>1. /\ run[d] = "spawn" /\ UNCHANGED <<mpc, found, tcp>>
        /\ \/ run' = [run EXCEPT ![d] = "scan"] /\ dec' = [dec EXCEPT ![d] = "up"]
           \/ run' = [run EXCEPT ![d] = "over"] /\ UNCHANGED dec
    BY <1>10 DEF SpawnDecoder
  <2>2. UnderWay' \subseteq UnderWay
    BY <2>1 DEF UnderWay, IInv, TypeOK
  <2>3. <<"rtlamr", d>> \in UnderWay \ UnderWay'
    BY <2>1 DEF UnderWay, IInv, TypeOK
  <2>4. Up' \ Up \subseteq {<<"rtlamr", d>>}
    BY <2>1 DEF Up, IInv, TypeOK
  <2> QED
    BY <2>2, <2>3, <2>4
<1>11. CASE Interrupt \/ Ended \/ UNCHANGED vars
  BY <1>11 DEF Interrupt, Ended, vars, UnderWay, Up
<1> QED
  BY <1>3, <1>4, <1>5, <1>6, <1>7, <1>8, <1>9, <1>10, <1>11
     DEF Next, Main, runDecoder, Grace, SpawnRtlTCP

(* After Ctrl+C neither the search nor a pausing goroutine gets the start  *)
(* of a process under way, whatever else runs for the same dongle; only    *)
(* what exec was already starting comes up, once.                          *)
THEOREM StartsNothing == Spec => NoStartAfterStop
BY StepStartsNothing, Invariance, PTL DEF Spec, NoStartAfterStop
-----------------------------------------------------------------------------
(* A job object that was created, configured and joined takes everything   *)
(* with the launcher, however that ends: after the last Done, with an      *)
(* error, late, or by its window.                                          *)
NoneOutlive == job /\ ~Alive => \A d \in Devices : ~Running(d)

LEMMA EndsMain == ASSUME IInv, NEW how \in Ends, End(how), job
                  PROVE  \A d \in Devices : ~Running(d)'
BY DEF IInv, TypeOK, End, JobCloses, Running

LEMMA NextNoneOutlive == IInv /\ NoneOutlive /\ [Next]_vars => NoneOutlive'
<1> SUFFICES ASSUME IInv, NoneOutlive, [Next]_vars, job', ~Alive'
             PROVE  \A d \in Devices : ~Running(d)'
  BY DEF NoneOutlive
<1> USE DEF Alive, Ends
<1>1. CASE killChildrenOnExit
  BY <1>1 DEF killChildrenOnExit
<1>2. CASE ~killChildrenOnExit
  <2>0. job
    BY <1>2 DEF Next, vars, launch, Interrupt, CloseWindow, Enter, End, Main, startGPS, Fatal,
           runGPSTest, startRtlTCP, SpawnRtlTCP, NoDongle, Grace, Searched, Launch, Select,
           Finish, FiveSeconds, Ended, TcpExits, Killed, DecoderExits, runDecoder,
           StartDecoder, SpawnDecoder, DecoderOver, Pause
  <2>1. CASE \E how \in Ends : End(how)
    BY <2>0, <2>1, EndsMain
  <2>2. CASE UNCHANGED mpc
    <3>1. \A d \in Devices : ~Running(d)
      BY <2>0, <2>2 DEF NoneOutlive
    <3>2. mpc \in Ends
      BY <2>2
    <3>3. CASE Ended \/ UNCHANGED vars
      BY <3>1, <3>3 DEF Ended, vars, Running
    <3>4. ASSUME NEW e \in Devices,
                 TcpExits(e) \/ Killed(e) \/ DecoderExits(e) \/ runDecoder(e)
          PROVE  \A d \in Devices : ~Running(d)'
      BY <3>1, <3>2, <3>4
         DEF TcpExits, Killed, DecoderExits, runDecoder, StartDecoder, SpawnDecoder,
             DecoderOver, Pause, Running, IInv, TypeOK
    <3>5. ~Main /\ ~Interrupt /\ ~CloseWindow /\ ~Enter
      BY <3>2 DEF Main, killChildrenOnExit, startGPS, runGPSTest, startRtlTCP, SpawnRtlTCP,
                  Grace, Searched, Launch, Select, Finish, FiveSeconds, Interrupt,
                  CloseWindow, Enter
    <3> QED
      BY <3>3, <3>4, <3>5 DEF Next
  <2>3. CASE mpc' # mpc /\ ~\E how \in Ends : End(how)
    BY <1>2, <2>0, <2>3
       DEF Next, vars, Interrupt, CloseWindow, Enter, Main, startGPS, Fatal, runGPSTest,
           startRtlTCP, SpawnRtlTCP, NoDongle, Grace, Searched, Launch, Select, Finish,
           FiveSeconds, Ended, TcpExits, Killed, DecoderExits, runDecoder, StartDecoder,
           SpawnDecoder, DecoderOver, Pause
  <2> QED
    BY <2>1, <2>2, <2>3
<1> QED
  BY <1>1, <1>2

(* What the comment at AssignProcessToJobObject says, where nothing failed *)
(* before it: a theorem about every way main can end.                      *)
THEOREM JobLeavesNone == Spec => []NoneOutlive
<1>1. Init => NoneOutlive
  BY DEF Init, NoneOutlive, Alive, Ends
<1> QED
  BY <1>1, NextNoneOutlive, Invariance, PTL DEF Spec
-----------------------------------------------------------------------------
(* What can still happen once the context is done: the stations main has   *)
(* before it, processes that run or are being started, and turns of the    *)
(* goroutines.                                                             *)
MainLeft ==
  CASE mpc = "job" -> 9 [] mpc = "spawn" -> 8
    [] mpc = "gps" -> 7 [] mpc = "grace" -> 6 [] mpc = "start" -> 5 [] mpc = "launch" -> 4
    [] mpc = "select" -> 3 [] mpc \in {"wait", "test"} -> 2
    [] mpc \in {"prompt", "tested"} -> 1 [] OTHER -> 0

TcpLeft == {d \in Devices : tcp[d] = "up" \/ (mpc = "spawn" /\ d = found)}
DecLeft == {d \in Devices : dec[d] = "up" \/ run[d] = "spawn"}
TurnsLeft == {d \in Devices : run[d] \in {"off", "pause"}}
RunsLeft == {d \in Devices : run[d] # "over"}
SpawnsLeft == {d \in Devices : run[d] = "spawn"}

Less ==
  /\ MainLeft \in 0 .. 9 /\ MainLeft' \in 0 .. MainLeft
  /\ TcpLeft' \subseteq TcpLeft /\ DecLeft' \subseteq DecLeft
  /\ TurnsLeft' \subseteq TurnsLeft /\ RunsLeft' \subseteq RunsLeft
  /\ SpawnsLeft' \subseteq SpawnsLeft
  /\ <<MainLeft, TcpLeft, DecLeft, TurnsLeft, RunsLeft, SpawnsLeft>>' #
       <<MainLeft, TcpLeft, DecLeft, TurnsLeft, RunsLeft, SpawnsLeft>>

LEMMA MainGoesOn ==
  ASSUME IInv, ctx = "done", MainLeft' < MainLeft, UNCHANGED run,
         mpc' # "spawn",
         \/ UNCHANGED <<tcp, dec>>
         \/ JobCloses
  PROVE  Less
<1>1. MainLeft \in 0 .. 9 /\ MainLeft' \in 0 .. 9
  BY DEF MainLeft
<1>2. TcpLeft' \subseteq TcpLeft /\ DecLeft' \subseteq DecLeft
  BY DEF JobCloses, TcpLeft, DecLeft, IInv, TypeOK
<1>3. TurnsLeft' = TurnsLeft /\ RunsLeft' = RunsLeft /\ SpawnsLeft' = SpawnsLeft
  BY DEF TurnsLeft, RunsLeft, SpawnsLeft
<1> QED
  BY <1>1, <1>2, <1>3 DEF Less

LEMMA EndGoesOn == ASSUME IInv, ctx = "done", Alive, NEW how \in Ends, End(how) PROVE Less
<1>1. MainLeft' = 0 /\ MainLeft \in 1 .. 9 /\ mpc' # "spawn"
  BY DEF End, Ends, Alive, IInv, TypeOK, MainLeft
<1> QED
  BY <1>1, MainGoesOn DEF End

LEMMA FatalGoesOn ==
  ASSUME IInv, ctx = "done", Alive, mpc \notin {"prompt", "tested"}, Fatal PROVE Less
<1>1. CASE windows
  <2>1. MainLeft' = 1 /\ MainLeft \in 2 .. 9 /\ mpc' # "spawn" /\ UNCHANGED <<tcp, dec, run>>
    BY <1>1 DEF Fatal, Ends, Alive, IInv, TypeOK, MainLeft
  <2> QED
    BY <2>1, MainGoesOn
<1>2. CASE ~windows
  BY <1>2, EndGoesOn DEF Fatal, Ends
<1> QED
  BY <1>1, <1>2

LEMMA NoDongleGoesOn ==
  ASSUME IInv, ctx = "done", mpc \in {"start", "spawn", "grace"}, NoDongle PROVE Less
<1>1. CASE auto /\ found > 0
  <2>1. MainLeft' = 4 /\ MainLeft \in 5 .. 9 /\ mpc' # "spawn" /\ UNCHANGED <<tcp, dec, run>>
    BY <1>1 DEF NoDongle, MainLeft
  <2> QED
    BY <2>1, MainGoesOn
<1>2. CASE ~(auto /\ found > 0)
  BY <1>2, FatalGoesOn DEF NoDongle, Alive, Ends
<1> QED
  BY <1>1, <1>2

LEMMA MainLess == ASSUME IInv, ctx = "done", Main PROVE Less
<1> USE DEF Alive, Ends
<1>1. CASE startGPS
  <2>1. CASE Fatal
    BY <1>1, <2>1, FatalGoesOn DEF startGPS
  <2>2. CASE ~Fatal
    <3>1. MainLeft' < MainLeft /\ mpc' # "spawn" /\ UNCHANGED <<tcp, dec, run>>
      BY <1>1, <2>2 DEF startGPS, MainLeft
    <3> QED
      BY <3>1, MainGoesOn
  <2> QED
    BY <2>1, <2>2
<1>2. CASE runGPSTest
  <2>1. CASE windows
    <3>1. MainLeft' < MainLeft /\ mpc' # "spawn" /\ UNCHANGED <<tcp, dec, run>>
      BY <1>2, <2>1 DEF runGPSTest, MainLeft
    <3> QED
      BY <3>1, MainGoesOn
  <2>2. CASE ~windows
    BY <1>2, <2>2, EndGoesOn DEF runGPSTest
  <2> QED
    BY <2>1, <2>2
<1>3. CASE startRtlTCP
  BY <1>3, NoDongleGoesOn DEF startRtlTCP
<1>4. CASE Grace
  <2>1. CASE NoDongle
    BY <1>4, <2>1, NoDongleGoesOn DEF Grace
  <2>2. CASE ~NoDongle
    <3>1. MainLeft' < MainLeft /\ mpc' # "spawn" /\ UNCHANGED <<tcp, dec, run>>
      BY <1>4, <2>2 DEF Grace, MainLeft
    <3> QED
      BY <3>1, MainGoesOn
  <2> QED
    BY <2>1, <2>2
<1>5. CASE Searched \/ Select
  <2>1. MainLeft' < MainLeft /\ mpc' # "spawn" /\ UNCHANGED <<tcp, dec, run>>
    BY <1>5 DEF Searched, Select, MainLeft
  <2> QED
    BY <2>1, MainGoesOn
<1>6. CASE Launch
  <2>1. CASE Fatal
    BY <1>6, <2>1, FatalGoesOn DEF Launch
  <2>2. CASE End("fatal")
    BY <1>6, <2>2, EndGoesOn DEF Launch
  <2>3. CASE ~Fatal /\ ~End("fatal")
    <3>1. /\ MainLeft = 4 /\ MainLeft' = 3 /\ UNCHANGED <<tcp, dec>>
          /\ mpc # "spawn" /\ mpc' # "spawn"
          /\ run' = [d \in Devices |-> IF d < found THEN "start" ELSE "off"]
          /\ \A d \in Devices : run[d] = "off"
      BY <1>6, <2>3 DEF Launch, MainLeft, IInv, Searching
    <3>2. TcpLeft' = TcpLeft /\ DecLeft' = DecLeft
      BY <3>1 DEF TcpLeft, DecLeft
    <3>3. TurnsLeft' \subseteq TurnsLeft /\ RunsLeft' \subseteq RunsLeft
      BY <3>1 DEF TurnsLeft, RunsLeft
    <3>4. SpawnsLeft' \subseteq SpawnsLeft
      BY <3>1 DEF SpawnsLeft
    <3> QED
      BY <3>1, <3>2, <3>3, <3>4 DEF Less
  <2> QED
    BY <2>1, <2>2, <2>3
<1>7. CASE Finish \/ FiveSeconds
  BY <1>7, EndGoesOn DEF Finish, FiveSeconds
<1>8. CASE SpawnRtlTCP
  <2>1. CASE NoDongle
    BY <1>8, <2>1, NoDongleGoesOn DEF SpawnRtlTCP
  <2>2. CASE ~NoDongle
    <3>1. /\ mpc = "spawn" /\ mpc' = "grace" /\ tcp' = [tcp EXCEPT ![found] = "up"]
          /\ UNCHANGED <<found, dec, run>>
      BY <1>8, <2>2 DEF SpawnRtlTCP
    <3>2. MainLeft = 8 /\ MainLeft' = 6
      BY <3>1 DEF MainLeft
    <3>3. TcpLeft' \subseteq TcpLeft
      BY <3>1 DEF TcpLeft, IInv, TypeOK
    <3> QED
      BY <3>1, <3>2, <3>3 DEF Less, DecLeft, TurnsLeft, RunsLeft, SpawnsLeft
  <2> QED
    BY <2>1, <2>2
<1>9. CASE killChildrenOnExit
  <2>1. MainLeft' < MainLeft /\ mpc' # "spawn" /\ UNCHANGED <<tcp, dec, run>>
    BY <1>9 DEF killChildrenOnExit, MainLeft
  <2> QED
    BY <2>1, MainGoesOn
<1> QED
  BY <1>1, <1>2, <1>3, <1>4, <1>5, <1>6, <1>7, <1>8, <1>9 DEF Main

LEMMA ChildrenLess ==
  ASSUME IInv, ctx = "done", NEW d \in Devices,
         TcpExits(d) \/ Killed(d) \/ DecoderExits(d) \/ runDecoder(d)
  PROVE  Less
<1> USE DEF IInv, TypeOK
<1>0. MainLeft \in 0 .. 9 /\ MainLeft' = MainLeft /\ UNCHANGED <<mpc, found>>
  BY DEF MainLeft, TcpExits, Killed, DecoderExits, runDecoder, StartDecoder, SpawnDecoder,
         DecoderOver, Pause
<1>1. CASE TcpExits(d) \/ (Killed(d) /\ tcp' # tcp)
  <2>1. tcp[d] = "up" /\ tcp' = [tcp EXCEPT ![d] = "dead"] /\ UNCHANGED <<dec, run>>
    BY <1>1 DEF TcpExits, Killed
  <2>2. TcpLeft' = TcpLeft \ {d} /\ d \in TcpLeft
    BY <1>0, <2>1 DEF TcpLeft, Untried
  <2> QED
    BY <1>0, <2>1, <2>2 DEF Less, DecLeft, TurnsLeft, RunsLeft, SpawnsLeft
<1>2. CASE DecoderExits(d) \/ (Killed(d) /\ tcp' = tcp)
  <2>1. DecLeft' = DecLeft \ {d} /\ d \in DecLeft /\ UNCHANGED <<tcp, run>>
    BY <1>2 DEF DecoderExits, Killed, DecLeft, Watched
  <2> QED
    BY <1>0, <2>1 DEF Less, TcpLeft, TurnsLeft, RunsLeft, SpawnsLeft
<1>3. CASE SpawnDecoder(d)
  <2>1. /\ run[d] = "spawn" /\ UNCHANGED tcp
        /\ \/ run' = [run EXCEPT ![d] = "scan"] /\ dec' = [dec EXCEPT ![d] = "up"]
           \/ run' = [run EXCEPT ![d] = "over"] /\ UNCHANGED dec
    BY <1>3 DEF SpawnDecoder
  <2>2. UNCHANGED <<TcpLeft, TurnsLeft>>
    BY <1>0, <2>1 DEF TcpLeft, TurnsLeft
  <2>3. /\ DecLeft' \subseteq DecLeft /\ RunsLeft' \subseteq RunsLeft
        /\ SpawnsLeft' = SpawnsLeft \ {d} /\ d \in SpawnsLeft
    BY <2>1 DEF DecLeft, RunsLeft, SpawnsLeft
  <2> QED
    BY <1>0, <2>2, <2>3 DEF Less
<1>4. CASE StartDecoder(d) \/ DecoderOver(d) \/ Pause(d)
  <2>1. UNCHANGED tcp /\ DecLeft' \subseteq DecLeft /\ SpawnsLeft' \subseteq SpawnsLeft
    BY <1>4 DEF StartDecoder, DecoderOver, Pause, DecLeft, SpawnsLeft
  <2>2. CASE Pause(d)
    <3>1. TurnsLeft' = TurnsLeft \ {d} /\ d \in TurnsLeft /\ RunsLeft' = RunsLeft
      BY <2>2 DEF Pause, TurnsLeft, RunsLeft
    <3> QED
      BY <1>0, <2>1, <3>1 DEF Less, TcpLeft
  <2>3. CASE StartDecoder(d) \/ DecoderOver(d)
    <3>1. TurnsLeft' \subseteq TurnsLeft /\ RunsLeft' = RunsLeft \ {d} /\ d \in RunsLeft
      BY <2>3 DEF StartDecoder, DecoderOver, GiveUp, TurnsLeft, RunsLeft
    <3> QED
      BY <1>0, <2>1, <3>1 DEF Less, TcpLeft
  <2> QED
    BY <1>4, <2>2, <2>3
<1> QED
  BY <1>1, <1>2, <1>3, <1>4 DEF runDecoder, Killed

(* After Ctrl+C everything moves towards the end: main never goes back to  *)
(* a station, no process comes up and no goroutine gets another attempt.   *)
THEOREM StopWindsDown == Spec => [][ctx = "done" => Less]_vars
<1>1. IInv /\ [Next]_vars => [ctx = "done" => Less]_vars
  <2> SUFFICES ASSUME IInv, Next, vars' # vars, ctx = "done" PROVE Less
    OBVIOUS
  <2>1. CASE CloseWindow \/ Enter
    BY <2>1, EndGoesOn DEF CloseWindow, Enter, Alive, Ends
  <2>2. CASE Interrupt \/ Ended
    BY <2>2 DEF Interrupt, Ended
  <2> QED
    BY <2>1, <2>2, MainLess, ChildrenLess DEF Next
<1> QED
  BY <1>1, Invariance, PTL DEF Spec
=============================================================================
