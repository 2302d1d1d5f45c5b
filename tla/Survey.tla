------------------------------- MODULE Survey -------------------------------
(***************************************************************************)
(* What rtlamrscan does with the lines its decoders print.  Each runDecoder*)
(* goroutine passes a line through statsLine, which keeps the dashboard's  *)
(* numbers, in survey mode through surveyMapper, and to a csvSink that     *)
(* several of them may share, while the serial reader keeps the position   *)
(* that the mapper stamps.                                                 *)
(***************************************************************************)
EXTENDS Integers, Sequences, FiniteSets

CONSTANTS
  Radios,     \* the dongles in use; ErtRadio is the second one
  ErtRadio,
  ErtTypes,   \* message types of the second dongle in mixed mode
  Positions,  \* what the receiver may report
  MaxAge,     \* gpsMaxAge, in ticks of the clock
  MaxRows,    \* bound: messages of one decoder
  None

ASSUME RadioAssumption == IsFiniteSet(Radios) /\ ErtRadio \in Radios
ASSUME ErtAssumption == ErtTypes \subseteq {"scm", "scm+", "idm"}
ASSUME AgeAssumption == MaxAge \in Nat
ASSUME RowsAssumption == MaxRows \in Nat

VARIABLES
  mode,
  useGps,   \* -gps was given
  puck,     \* the last GGA sentence: [pos, age]; the world's side of gps
  hand,     \* a GGA sentence that is parsed and not stored yet, or None
  gps,      \* gpsReader: fix and valid, motion, and the ages of both
  wrote,    \* csv.Encoder.wroteHeader of each rtlamr process
  printed,  \* rows each radio's processes have printed
  pipe,     \* lines on their way to the launcher
  pc,       \* where each goroutine is with its line
  line,     \* that line
  stamp,    \* its position columns; files below do without them
  colIdx,   \* the header whose columns statsLine (and the mapper) remember, or None
  bursts,   \* radioInfo.Bursts
  meters,   \* statsCollector.meters: [bursts, leak] of each id
  heard,    \* history: the same of each meter, as its messages said
  files     \* the csv files: sequences of lines

decoders == <<wrote, printed, heard>>
position == <<puck, hand, gps>>
stats == <<colIdx, bursts, meters>>
vars == <<mode, useGps, puck, hand, gps, wrote, printed, pipe, pc, line, stamp, files,
          colIdx, bursts, meters, heard>>

Zero == "0,0"    \* the zero value of gpsFix
Blank == "blank" \* empty position columns

ASSUME PositionAssumption == Positions \cap {None, Zero, Blank} = {}

(* Ages stop counting when they are past all limits.                       *)
Ages == 0 .. MaxAge + 1
Sentences == [pos : Positions \cup {None}, age : Ages]
ASSUME NoneAssumption == None \notin Sentences

Older(age) == IF age > MaxAge THEN age ELSE age + 1

Types == {"r900"} \cup ErtTypes
ASSUME TypesAssumption == None \notin Types
header(type) == [kind |-> "header", type |-> type]
surveyColumns == header("survey")

(* Each type's columns behind Time, Offset and Length (idm's go on).       *)
Headers(type) ==
  CASE type = "r900" -> <<"ID", "Unkn1", "NoUse", "BackFlow", "Consumption", "Unkn3",
                          "Leak", "LeakNow", "RSSI", "SNR">>
    [] type = "scm" -> <<"ID", "Type", "TamperPhy", "TamperEnc", "Consumption", "Checksum">>
    [] type = "scm+" -> <<"FrameSync", "ProtocolID", "EndpointType", "EndpointID",
                          "Consumption", "Tamper", "PacketCRC">>
    [] type = "idm" -> <<"Preamble", "PacketTypeID", "PacketLength", "HammingCode",
                         "ApplicationVersion", "ERTType", "ERTSerialNumber",
                         "ConsumptionIntervalCount", "ModuleProgrammingState">>

(* One meter of each type; a leak is a level, as Leak and LeakNow are.     *)
Meter(type) ==
  CASE type = "r900" -> "1000000001" [] type = "scm" -> "20000002"
    [] type = "scm+" -> "30000003" [] type = "idm" -> "40000004"
Leaks(type) == IF type = "r900" /\ ~useGps THEN {0, 1} ELSE {0}
message(r, type, leak) == [kind |-> "row", type |-> type, radio |-> r, leak |-> leak]

(* Mixed mode has one file for each dongle, the others share one.          *)
sink(r) == IF mode = "mixed" /\ r = ErtRadio THEN "ert" ELSE "main"
msgType(r) == IF mode = "mixed" /\ r = ErtRadio THEN ErtTypes ELSE {"r900"}

(* What a cell of the statistics may take for an id: a meter's, or what    *)
(* stands in another column.                                               *)
Ids == (UNION {{Headers(type)[i] : i \in DOMAIN Headers(type)} : type \in Types})
         \cup {Meter(type) : type \in Types}
Unseen == [bursts |-> 0, leak |-> 0]
Worst(seen, leak) == [bursts |-> seen.bursts + 1,
                      leak |-> IF leak > seen.leak THEN leak ELSE seen.leak]

Reported(pos) == [pos |-> pos, age |-> 0]

TypeOK ==
  /\ mode \in {"survey", "water", "mixed"} /\ useGps \in BOOLEAN
  /\ puck \in Sentences
  /\ hand \in Sentences \cup {None}
  /\ gps \in [fix : Positions \cup {Zero}, valid : BOOLEAN, age : Ages,
              speed : {"0", "moving"}, motionAge : Ages]
  /\ wrote \in [Radios -> BOOLEAN]
  /\ printed \in [Radios -> 0 .. MaxRows] /\ bursts \in [Radios -> 0 .. MaxRows]
  /\ pc \in [Radios -> {"scan", "stats", "next", "write"}]
  /\ colIdx \in [Radios -> Types \cup {None}]

(* newCSVSink and, in survey mode, the header that main writes itself.  In *)
(* the other modes the receiver only feeds the dashboard and is left out.  *)
Init ==
  /\ mode \in {"survey", "water", "mixed"}
  /\ useGps \in IF mode = "survey" THEN BOOLEAN ELSE {FALSE}
  /\ puck = [pos |-> None, age |-> MaxAge + 1]
  /\ hand = None
  /\ gps = [fix |-> Zero, valid |-> FALSE, age |-> MaxAge + 1,
            speed |-> "0", motionAge |-> MaxAge + 1]
  /\ wrote = [r \in Radios |-> FALSE]
  /\ printed = [r \in Radios |-> 0]
  /\ pipe = [r \in Radios |-> << >>]
  /\ pc = [r \in Radios |-> "scan"]
  /\ line = [r \in Radios |-> None]
  /\ stamp = [r \in Radios |-> None]
  /\ colIdx = [r \in Radios |-> None]
  /\ bursts = [r \in Radios |-> 0]
  /\ meters = [id \in Ids |-> Unseen]
  /\ heard = [type \in Types |-> Unseen]
  /\ files = [s \in {"main", "ert"} |->
                IF s = "main" /\ mode = "survey" THEN <<surveyColumns>> ELSE << >>]
-----------------------------------------------------------------------------
(* Time passes; sentences in hand, stored and spoken grow old.             *)
Tick ==
  /\ useGps
  /\ puck' = [puck EXCEPT !.age = Older(@)]
  /\ hand' = IF hand = None THEN None ELSE [hand EXCEPT !.age = Older(@)]
  /\ gps' = [gps EXCEPT !.age = Older(@), !.motionAge = Older(@)]
  /\ UNCHANGED <<mode, useGps, decoders, pipe, pc, line, stamp, stats, files>>

(* parseGGA: a position, or a well-formed sentence without a usable one.   *)
(* The time of the fix is taken before the lock.                           *)
HearGGA ==
  /\ useGps
  /\ hand = None
  /\ \E pos \in Positions \cup {None} : puck' = Reported(pos)
  /\ hand' = puck'
  /\ UNCHANGED <<mode, useGps, gps, decoders, pipe, pc, line, stamp, stats, files>>

MutKeepFix ==
  /\ hand # None
  /\ gps' = [gps EXCEPT !.fix = IF hand.pos = None THEN @ ELSE hand.pos,
                        !.valid = @ \/ hand.pos # None, !.age = hand.age]
  /\ hand' = None
  /\ UNCHANGED <<mode, useGps, puck, decoders, pipe, pc, line, stamp, stats, files>>

(* The locked half of handleSentence.                                      *)
StoreFix ==
  /\ hand # None
  /\ gps' = [gps EXCEPT !.fix = IF hand.pos = None THEN Zero ELSE hand.pos,
                        !.valid = hand.pos # None, !.age = hand.age]
  /\ hand' = None
  /\ UNCHANGED <<mode, useGps, puck, decoders, pipe, pc, line, stamp, stats, files>>

(* A valid RMC sentence; a void one changes nothing.                       *)
HearRMC ==
  /\ useGps
  /\ hand = None
  /\ gps' = [gps EXCEPT !.speed = "moving", !.motionAge = 0]
  /\ UNCHANGED <<mode, useGps, puck, hand, decoders, pipe, pc, line, stamp, stats, files>>

handleSentence == HearGGA \/ StoreFix \/ HearRMC

(* The position columns of a row.                                          *)
statusSnapshot ==
  IF gps.valid /\ gps.age <= MaxAge
  THEN [pos |-> gps.fix, speed |-> IF gps.motionAge <= MaxAge THEN gps.speed ELSE "0"]
  ELSE [pos |-> Blank, speed |-> Blank]
-----------------------------------------------------------------------------
(* csv.Encoder: the first message of a process brings the header of its    *)
(* type, whatever types follow.                                            *)
Encode(r) ==
  /\ pipe[r] = << >>
  /\ printed[r] < MaxRows
  /\ \E type \in msgType(r) : \E leak \in Leaks(type) :
       /\ pipe' = [pipe EXCEPT ![r] =
                     IF wrote[r] THEN <<message(r, type, leak)>>
                     ELSE <<header(type), message(r, type, leak)>>]
       /\ heard' = [heard EXCEPT ![type] = Worst(@, leak)]
  /\ wrote' = [wrote EXCEPT ![r] = TRUE]
  /\ printed' = [printed EXCEPT ![r] = @ + 1]
  /\ UNCHANGED <<mode, useGps, position, pc, line, stamp, stats, files>>

(* The process ends, runDecoder has read all it printed, and starts anew.  *)
Restart(r) ==
  /\ wrote[r]
  /\ pipe[r] = << >> /\ pc[r] = "scan"
  /\ wrote' = [wrote EXCEPT ![r] = FALSE]
  /\ UNCHANGED <<mode, useGps, position, printed, heard, pipe, pc, line, stamp, stats, files>>

Scan(r) ==
  /\ pc[r] = "scan"
  /\ pipe[r] # << >>
  /\ line' = [line EXCEPT ![r] = Head(pipe[r])]
  /\ pipe' = [pipe EXCEPT ![r] = Tail(@)]
  /\ pc' = [pc EXCEPT ![r] = "stats"]
  /\ UNCHANGED <<mode, useGps, position, decoders, stamp, stats, files>>

(* A row's cell in a column of the header: the meter's id where the row's  *)
(* own type has its id, otherwise whatever stands there.                   *)
Cell(l, i) ==
  LET name == Headers(l.type)[i] IN
  IF name \in {"ID", "ERTSerialNumber", "EndpointID"} THEN Meter(l.type) ELSE name

(* The cells of a row in the columns of that name; none is the empty text. *)
get(r, name) ==
  {Cell(line[r], i) :
     i \in {i \in DOMAIN Headers(colIdx[r]) \cap DOMAIN Headers(line[r].type) :
              Headers(colIdx[r])[i] = name}}

(* The id is looked up under three names in turn.                          *)
idOf(r) ==
  IF get(r, "ID") # {} THEN get(r, "ID")
  ELSE IF get(r, "ERTSerialNumber") # {} THEN get(r, "ERTSerialNumber")
  ELSE get(r, "EndpointID")

leakOf(r) == IF get(r, "Leak") = {"Leak"} THEN line[r].leak ELSE 0

CountBurst(r) == bursts' = [bursts EXCEPT ![r] = @ + 1]

MutLastLeak(r) ==
  meters' = [id \in Ids |->
               IF id \in idOf(r)
               THEN [bursts |-> meters[id].bursts + 1, leak |-> leakOf(r)]
               ELSE meters[id]]

(* A row counts for its meter, if it has an id, with the worst leak seen.  *)
CountMeter(r) ==
  meters' = [id \in Ids |->
               IF id \in idOf(r) THEN Worst(meters[id], leakOf(r)) ELSE meters[id]]

MutCountLines(r) ==
  /\ pc[r] = "stats"
  /\ bursts' = [bursts EXCEPT ![r] = IF @ < MaxRows THEN @ + 1 ELSE @]
  /\ pc' = [pc EXCEPT ![r] = "next"]
  /\ UNCHANGED <<mode, useGps, position, decoders, pipe, line, stamp, files, colIdx, meters>>

(* statsLine: a header sets the columns, a row behind one is a burst of    *)
(* this radio and of its meter.                                            *)
record(r) ==
  /\ pc[r] = "stats"
  /\ colIdx' = IF line[r].kind = "header" THEN [colIdx EXCEPT ![r] = line[r].type] ELSE colIdx
  /\ IF line[r].kind = "row" /\ colIdx[r] # None
     THEN CountBurst(r) /\ CountMeter(r)
     ELSE UNCHANGED <<bursts, meters>>
  /\ pc' = [pc EXCEPT ![r] = "next"]
  /\ UNCHANGED <<mode, useGps, position, decoders, pipe, line, stamp, files>>

(* surveyMapper keeps the decoder's header to itself, drops a row without  *)
(* one and stamps the others with what the receiver says now; the other    *)
(* modes have no mapper.                                                   *)
handleLine(r) ==
  /\ pc[r] = "next"
  /\ IF mode = "survey" /\ (line[r].kind = "header" \/ colIdx[r] = None)
     THEN /\ pc' = [pc EXCEPT ![r] = "scan"]
          /\ line' = [line EXCEPT ![r] = None]
          /\ UNCHANGED stamp
     ELSE /\ pc' = [pc EXCEPT ![r] = "write"]
          /\ stamp' = IF mode = "survey" THEN [stamp EXCEPT ![r] = statusSnapshot] ELSE stamp
          /\ UNCHANGED line
  /\ UNCHANGED <<mode, useGps, position, decoders, pipe, stats, files>>

MutDropHeaders(file, l) == file # << >> /\ l.kind = "header" /\ file[Len(file)] = l
Repeated(file, l) == file # << >> /\ l = file[1]

Written(file, l) == IF Repeated(file, l) THEN << >> ELSE <<l>>

(* csvSink: the first line is the header, and is not written again.        *)
writeLine(r) ==
  /\ pc[r] = "write"
  /\ files' = [files EXCEPT ![sink(r)] = @ \o Written(@, line[r])]
  /\ pc' = [pc EXCEPT ![r] = "scan"]
  /\ line' = [line EXCEPT ![r] = None]
  /\ stamp' = [stamp EXCEPT ![r] = None]
  /\ UNCHANGED <<mode, useGps, position, decoders, pipe, stats>>

Goroutine(r) == Scan(r) \/ record(r) \/ handleLine(r) \/ writeLine(r)

Next ==
  \/ Tick \/ handleSentence
  \/ \E r \in Radios : Encode(r) \/ Restart(r) \/ Goroutine(r)

Spec == Init /\ [][Next]_vars
-----------------------------------------------------------------------------
(* What the receiver's last sentence is good for.                          *)
Stamp == IF puck.pos # None /\ puck.age <= MaxAge THEN puck.pos ELSE Blank

(* A row carries the position of the receiver's last sentence while that   *)
(* is fresh, and none when it is old, had no fix, or there is no receiver; *)
(* only a sentence that is still being stored may be missed.  It is never  *)
(* 0,0, and has a speed only with a position.                              *)
HonestPosition ==
  [][\A r \in Radios : (pc[r] = "next" /\ pc'[r] = "write" /\ mode = "survey") =>
       LET row == stamp'[r] IN
         /\ hand = None => row.pos = Stamp
         /\ row.pos # Zero
         /\ row.pos = Blank <=> row.speed = Blank
         /\ ~useGps => row.pos = Blank]_vars

FirstLineOnce ==
  \A s \in DOMAIN files :
    files[s] # << >> =>
      /\ files[s][1].kind = "header"
      /\ \A i \in 2 .. Len(files[s]) : files[s][i] # files[s][1]

(* A file begins with a header that does not come again, though several    *)
(* decoders print it and every restart repeats it; and behind it there are *)
(* only rows, but for the file of mixed mode's second dongle, where a      *)
(* restarted decoder may begin with another type's header.                 *)
HeaderOnce ==
  /\ FirstLineOnce
  /\ \A i \in 2 .. Len(files["main"]) : files["main"][i].kind = "row"

RowsOf(r) ==
  Cardinality({i \in DOMAIN files[sink(r)] :
                 LET l == files[sink(r)][i] IN l.kind = "row" /\ l.radio = r})

(* When a radio's lines are handled, each of its messages is one row of    *)
(* its file and one burst on the dashboard.                                *)
NoRowLost ==
  \A r \in Radios :
    (pc[r] = "scan" /\ pipe[r] = << >>) =>
      RowsOf(r) = printed[r] /\ bursts[r] = printed[r]

(* The lines of every radio have been handled.                             *)
Quiet == \A r \in Radios : pc[r] = "scan" /\ pipe[r] = << >>

(* The dashboard's list of leaking meters.                                 *)
Leaking == {id \in Ids : meters[id].leak > 0}

(* A meter whose type is decoded alone is on the dashboard with each of    *)
(* its bursts, whichever radios heard it, and is listed as leaking, with   *)
(* the worst level, from the first burst that said so.                     *)
CountedByMeter ==
  Quiet => \A type \in Types \ ErtTypes :
             /\ meters[Meter(type)] = heard[type]
             /\ heard[type].leak > 0 => Meter(type) \in Leaking

(* "header-driven, so it works for any message type": ... for every type.  *)
EveryTypeCounted == Quiet => \A type \in Types : meters[Meter(type)] = heard[type]
=============================================================================
