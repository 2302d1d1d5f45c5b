---------------------------- MODULE SurveyProofs ----------------------------
(***************************************************************************)
(* For any number of radios, restarts, positions and any age limit: a      *)
(* survey row carries what the position receiver said last, or nothing;    *)
(* every csv file begins with a header that does not come again; and no    *)
(* row a decoder printed is lost on its way to a file or to the dashboard. *)
(***************************************************************************)
EXTENDS Survey, FiniteSetTheorems, TLAPS

(* What the serial reader works on.                                        *)
PositionTypeOK ==
  /\ useGps \in BOOLEAN
  /\ puck \in Sentences
  /\ hand \in Sentences \cup {None}
  /\ gps \in [fix : Positions \cup {Zero}, valid : BOOLEAN, age : Ages,
              speed : {"0", "moving"}, motionAge : Ages]

(* Where the goroutines are, and a stamp for each.                         *)
LinesTypeOK ==
  /\ pc \in [Radios -> {"scan", "stats", "next", "write"}]
  /\ DOMAIN stamp = Radios

(* A sentence in hand is the last one; with none in hand the stored fix is *)
(* the last one's, of the same age.                                        *)
Current ==
  /\ hand # None => hand = puck
  /\ hand = None => /\ gps.valid <=> puck.pos # None
                    /\ gps.age = puck.age
                    /\ gps.valid => gps.fix = puck.pos

(* The zero value is never taken for a fix.                                *)
ValidIsReal == gps.valid => gps.fix \in Positions

(* Without -gps nothing is heard.                                          *)
Silent == ~useGps => ~gps.valid /\ hand = None

PInv == PositionTypeOK /\ LinesTypeOK /\ Current /\ ValidIsReal /\ Silent

-----------------------------------------------------------------------------
LEMMA InitPInv == Init => PInv
<1> SUFFICES ASSUME Init PROVE PInv
  OBVIOUS
<1>1. LinesTypeOK
  BY DEF Init, LinesTypeOK
<1>2. MaxAge + 1 \in Ages
  BY AgeAssumption DEF Ages
<1>3. PositionTypeOK
  BY <1>2 DEF Init, PositionTypeOK, Sentences
<1>4. hand = None /\ puck.pos = None /\ gps.valid = FALSE /\ gps.age = puck.age
  BY DEF Init
<1> QED
  BY <1>1, <1>3, <1>4 DEF PInv, Current, ValidIsReal, Silent

(* The printing and handling of lines leaves the position alone.           *)
LEMMA LinesKeepPosition ==
  ASSUME NEW r \in Radios, Encode(r) \/ Restart(r) \/ Goroutine(r)
  PROVE  UNCHANGED <<useGps, position>>
BY DEF Encode, Restart, Goroutine, Scan, record, handleLine, writeLine, position

LEMMA LinesKeepTypes ==
  ASSUME LinesTypeOK, NEW r \in Radios, Encode(r) \/ Restart(r) \/ Goroutine(r)
  PROVE  LinesTypeOK'
BY DEF LinesTypeOK, Encode, Restart, Goroutine, Scan, record, handleLine, writeLine

LEMMA PositionKeepsTypes ==
  ASSUME LinesTypeOK, Tick \/ handleSentence \/ UNCHANGED vars PROVE LinesTypeOK'
BY DEF LinesTypeOK, Tick, handleSentence, HearGGA, StoreFix, HearRMC, vars

LEMMA NextPInv == PInv /\ [Next]_vars => PInv'
<1> SUFFICES ASSUME PInv, [Next]_vars PROVE PInv'
  OBVIOUS
<1> USE AgeAssumption, NoneAssumption
    DEF PInv, PositionTypeOK, Current, ValidIsReal, Silent, Sentences, Ages
<1>1. CASE Tick
  <2>1. \A a \in Ages : Older(a) \in Ages
    BY DEF Older
  <2>2. /\ puck' = [puck EXCEPT !.age = Older(@)]
        /\ gps' = [gps EXCEPT !.age = Older(@), !.motionAge = Older(@)]
        /\ useGps' = useGps
    BY <1>1 DEF Tick
  <2>3. /\ puck' \in Sentences
        /\ puck'.pos = puck.pos /\ puck'.age = Older(puck.age)
        /\ gps' \in [fix : Positions \cup {Zero}, valid : BOOLEAN, age : Ages,
                     speed : {"0", "moving"}, motionAge : Ages]
        /\ gps'.valid = gps.valid /\ gps'.fix = gps.fix /\ gps'.age = Older(gps.age)
    BY <2>1, <2>2
  <2>4. hand = None => hand' = None
    BY <1>1 DEF Tick
  <2>5. hand # None => hand' = puck'
    BY <1>1 DEF Tick
  <2>6. hand # None => hand' # None
    BY <2>3, <2>5
  <2>7. PositionTypeOK'
    BY <2>2, <2>3, <2>4, <2>5
  <2>8. Current' /\ ValidIsReal' /\ Silent'
    <3>1. Current'
      BY <2>3, <2>4, <2>5, <2>6
    <3>2. ValidIsReal' /\ Silent'
      BY <2>2, <2>3, <2>4
    <3> QED
      BY <3>1, <3>2
  <2> QED
    BY <1>1, <2>7, <2>8, PositionKeepsTypes
<1>2. CASE HearGGA
  BY <1>2, PositionKeepsTypes DEF HearGGA, Reported, handleSentence
<1>3. CASE StoreFix
  BY <1>3, PositionKeepsTypes DEF StoreFix, handleSentence
<1>4. CASE HearRMC
  <2>1. /\ UNCHANGED <<useGps, puck, hand>>
        /\ gps' = [gps EXCEPT !.speed = "moving", !.motionAge = 0]
        /\ useGps
    BY <1>4 DEF HearRMC, position
  <2>2. 0 \in Ages
    BY AgeAssumption
  <2>3. /\ gps' \in [fix : Positions \cup {Zero}, valid : BOOLEAN, age : Ages,
                     speed : {"0", "moving"}, motionAge : Ages]
        /\ gps'.valid = gps.valid /\ gps'.fix = gps.fix /\ gps'.age = gps.age
    BY <2>1, <2>2
  <2>4. PositionTypeOK'
    BY <2>1, <2>3
  <2>5. Current' /\ ValidIsReal' /\ Silent'
    BY <2>1, <2>3
  <2> QED
    BY <1>4, <2>4, <2>5, PositionKeepsTypes DEF handleSentence
<1>5. ASSUME NEW r \in Radios, Encode(r) \/ Restart(r) \/ Goroutine(r) PROVE PInv'
  BY <1>5, LinesKeepPosition, LinesKeepTypes DEF position
<1>6. CASE UNCHANGED vars
  BY <1>6, PositionKeepsTypes DEF vars
<1> QED
  BY <1>1, <1>2, <1>3, <1>4, <1>5, <1>6 DEF Next, handleSentence

THEOREM PositionInvariance == Spec => []PInv
BY InitPInv, NextPInv, PTL DEF Spec
-----------------------------------------------------------------------------
(* The snapshot a row is stamped with.                                     *)
LEMMA SnapshotHonest ==
  ASSUME PInv
  PROVE  /\ hand = None => statusSnapshot.pos = Stamp
         /\ statusSnapshot.pos # Zero
         /\ statusSnapshot.pos = Blank <=> statusSnapshot.speed = Blank
         /\ ~useGps => statusSnapshot.pos = Blank
<1> USE PositionAssumption
    DEF PInv, PositionTypeOK, Current, ValidIsReal, Silent, Sentences
<1>1. CASE gps.valid /\ gps.age <= MaxAge
  <2>1. /\ statusSnapshot.pos = gps.fix
        /\ statusSnapshot.speed \in {"0", "moving"}
    BY <1>1 DEF statusSnapshot
  <2>2. gps.fix \in Positions /\ gps.fix # Zero /\ gps.fix # Blank
    BY <1>1
  <2>3. hand = None => Stamp = gps.fix
    BY <1>1 DEF Stamp
  <2>4. statusSnapshot.speed # Blank
    BY <2>1 DEF Blank
  <2> QED
    BY <1>1, <2>1, <2>2, <2>3, <2>4
<1>2. CASE ~(gps.valid /\ gps.age <= MaxAge)
  <2>1. statusSnapshot.pos = Blank /\ statusSnapshot.speed = Blank
    BY <1>2 DEF statusSnapshot
  <2>2. hand = None => Stamp = Blank
    BY <1>2 DEF Stamp
  <2>3. Blank # Zero
    BY DEF Blank, Zero
  <2> QED
    BY <2>1, <2>2, <2>3
<1> QED
  BY <1>1, <1>2

(* Only handleLine takes a goroutine from "next" to "write".               *)
LEMMA StampedByHandleLine ==
  ASSUME LinesTypeOK, [Next]_vars, NEW r \in Radios, pc[r] = "next", pc'[r] = "write"
  PROVE  handleLine(r)
<1> USE DEF LinesTypeOK
<1>1. CASE Tick \/ handleSentence \/ UNCHANGED vars
  BY <1>1 DEF Tick, handleSentence, HearGGA, StoreFix, HearRMC, vars
<1>2. ASSUME NEW q \in Radios, Encode(q) \/ Restart(q) \/ Goroutine(q)
      PROVE  handleLine(r)
  <2>1. CASE q = r
    BY <1>2, <2>1 DEF Encode, Restart, Goroutine, Scan, record, writeLine
  <2>2. CASE q # r
    BY <1>2, <2>2 DEF Encode, Restart, Goroutine, Scan, record, handleLine, writeLine
  <2> QED
    BY <2>1, <2>2
<1> QED
  BY <1>1, <1>2 DEF Next

(* Every row of every survey is honest about its position.                 *)
LEMMA StepHonest ==
  PInv /\ [Next]_vars =>
    [\A r \in Radios : (pc[r] = "next" /\ pc'[r] = "write" /\ mode = "survey") =>
       LET row == stamp'[r] IN
         /\ hand = None => row.pos = Stamp
         /\ row.pos # Zero
         /\ row.pos = Blank <=> row.speed = Blank
         /\ ~useGps => row.pos = Blank]_vars
<1> SUFFICES ASSUME PInv, [Next]_vars, NEW r \in Radios,
                    pc[r] = "next", pc'[r] = "write", mode = "survey"
             PROVE  /\ hand = None => stamp'[r].pos = Stamp
                    /\ stamp'[r].pos # Zero
                    /\ stamp'[r].pos = Blank <=> stamp'[r].speed = Blank
                    /\ ~useGps => stamp'[r].pos = Blank
  OBVIOUS
<1>1. handleLine(r)
  BY StampedByHandleLine DEF PInv
<1>2. stamp'[r] = statusSnapshot
  BY <1>1 DEF handleLine, PInv, LinesTypeOK
<1> QED
  BY <1>2, SnapshotHonest

THEOREM RowsHonest == Spec => HonestPosition
BY StepHonest, PositionInvariance, PTL DEF Spec, HonestPosition
-----------------------------------------------------------------------------
(* The lines.  A pipe holds at most one row, with or without a header.     *)
HeaderLines == {header(type) : type \in Types}
RowLines(r) == [kind : {"row"}, type : Types, radio : {r}, leak : {0, 1}]
Lines == HeaderLines \cup {surveyColumns} \cup UNION {RowLines(r) : r \in Radios}

PipeOK(lines, r) ==
  \/ lines = << >>
  \/ \E row \in RowLines(r) :
       lines = <<row>> \/ \E h \in HeaderLines : lines = <<h, row>>

FlowTypeOK ==
  /\ mode \in {"survey", "water", "mixed"}
  /\ pc \in [Radios -> {"scan", "stats", "next", "write"}]
  /\ wrote \in [Radios -> BOOLEAN]
  /\ printed \in [Radios -> Nat] /\ bursts \in [Radios -> Nat]
  /\ DOMAIN line = Radios /\ DOMAIN pipe = Radios /\ DOMAIN colIdx = Radios
  /\ files \in [{"main", "ert"} -> Seq(Lines)]
  /\ \A r \in Radios :
       /\ PipeOK(pipe[r], r)
       /\ pc[r] # "scan" => line[r] \in HeaderLines \cup RowLines(r)

(* The next line a goroutine handles is a header.                          *)
HeaderNext(r) ==
  IF pc[r] # "scan" THEN line[r].kind = "header"
  ELSE IF pipe[r] = << >> THEN ~wrote[r] ELSE Head(pipe[r]).kind = "header"

(* No row reaches statsLine, the mapper or a file before a header did.     *)
ColumnsFirst(r) == colIdx[r] = None => HeaderNext(r) /\ pc[r] \in {"scan", "stats"}
FileFirst(r) == files[sink(r)] = << >> => mode # "survey" /\ HeaderNext(r)

HInv ==
  /\ FlowTypeOK
  /\ \A r \in Radios : ColumnsFirst(r) /\ FileFirst(r)
  /\ FirstLineOnce

LEMMA LineKinds ==
  /\ \A l \in HeaderLines : l.kind = "header" /\ l.type \in Types
  /\ \A r : \A l \in RowLines(r) : l.kind = "row" /\ l.radio = r
  /\ surveyColumns.kind = "header"
BY DEF HeaderLines, RowLines, header, surveyColumns

LEMMA AppendLine ==
  ASSUME NEW f \in Seq(Lines), NEW l \in Lines
  PROVE  /\ f \o <<l>> \in Seq(Lines)
         /\ Len(f \o <<l>>) = Len(f) + 1
         /\ \A i \in 1 .. Len(f) : (f \o <<l>>)[i] = f[i]
         /\ (f \o <<l>>)[Len(f) + 1] = l
OBVIOUS

LEMMA InitHInv == Init => HInv
<1> SUFFICES ASSUME Init PROVE HInv
  OBVIOUS
<1>1. /\ files \in [{"main", "ert"} -> Seq(Lines)]
      /\ files["ert"] = << >>
      /\ files["main"] = IF mode = "survey" THEN <<surveyColumns>> ELSE << >>
  <2>1. <<surveyColumns>> \in Seq(Lines) /\ << >> \in Seq(Lines)
    BY DEF Lines
  <2> QED
    BY <2>1 DEF Init
<1>2. FlowTypeOK
  BY <1>1 DEF Init, FlowTypeOK, PipeOK
<1>3. \A r \in Radios : ColumnsFirst(r) /\ FileFirst(r)
  BY <1>1 DEF Init, ColumnsFirst, FileFirst, HeaderNext, sink
<1>4. FirstLineOnce
  BY <1>1, LineKinds DEF FirstLineOnce, FlowTypeOK
<1> QED
  BY <1>2, <1>3, <1>4 DEF HInv

(* What the other goroutines are about.                                    *)
LEMMA OthersKeepHeaders ==
  ASSUME HInv, Tick \/ handleSentence \/ UNCHANGED vars PROVE HInv'
<1>1. UNCHANGED <<mode, wrote, printed, pipe, pc, line, colIdx, bursts, files>>
  BY DEF Tick, handleSentence, HearGGA, StoreFix, HearRMC, vars, decoders, stats
<1> QED
  BY <1>1 DEF HInv, FlowTypeOK, PipeOK, ColumnsFirst, FileFirst, HeaderNext, sink, FirstLineOnce

LEMMA EncodeKeepsHeaders == ASSUME HInv, NEW r \in Radios, Encode(r) PROVE HInv'
<1>1. /\ UNCHANGED <<mode, pc, line, colIdx, bursts, files>>
      /\ pipe[r] = << >>
      /\ wrote' = [wrote EXCEPT ![r] = TRUE] /\ printed' = [printed EXCEPT ![r] = @ + 1]
  BY DEF Encode, stats
<1>2a. PICK type \in msgType(r) : \E leak \in Leaks(type) :
        pipe' = [pipe EXCEPT ![r] = IF wrote[r] THEN <<message(r, type, leak)>>
                                    ELSE <<header(type), message(r, type, leak)>>]
  BY DEF Encode
<1>2. PICK leak \in Leaks(type) :
        pipe' = [pipe EXCEPT ![r] = IF wrote[r] THEN <<message(r, type, leak)>>
                                    ELSE <<header(type), message(r, type, leak)>>]
  BY <1>2a
<1>3. type \in Types /\ header(type) \in HeaderLines /\ message(r, type, leak) \in RowLines(r)
  <2>1. type \in Types
    BY DEF msgType, Types
  <2>2. leak \in {0, 1}
    BY DEF Leaks
  <2> QED
    BY <2>1, <2>2 DEF HeaderLines, RowLines, message
<1>4. /\ DOMAIN pipe' = Radios
      /\ wrote[r] => pipe'[r] = <<message(r, type, leak)>>
      /\ ~wrote[r] => pipe'[r] = <<header(type), message(r, type, leak)>>
      /\ \A q \in Radios \ {r} : pipe'[q] = pipe[q] /\ wrote'[q] = wrote[q]
  BY <1>1, <1>2 DEF HInv, FlowTypeOK
<1>5. FlowTypeOK'
  <2>1. PipeOK(pipe'[r], r)
    BY <1>1, <1>3, <1>4 DEF HInv, FlowTypeOK, PipeOK
  <2>2. \A q \in Radios : PipeOK(pipe'[q], q)
    BY <1>4, <2>1 DEF HInv, FlowTypeOK
  <2> QED
    BY <1>1, <1>4, <2>2 DEF HInv, FlowTypeOK
<1>6. ASSUME NEW q \in Radios, HeaderNext(q) PROVE HeaderNext(q)'
  <2>1. CASE q = r
    <3>1. CASE pc[r] = "scan"
      <4>1. pipe'[r] = <<header(type), message(r, type, leak)>>
        BY <1>1, <1>4, <1>6, <2>1, <3>1 DEF HeaderNext
      <4>2. Head(pipe'[r]) = header(type) /\ pipe'[r] # << >>
        BY <4>1
      <4> QED
        BY <1>1, <1>3, <2>1, <3>1, <4>2, LineKinds DEF HeaderNext
    <3>2. CASE pc[r] # "scan"
      BY <1>1, <1>6, <2>1, <3>2 DEF HeaderNext
    <3> QED
      BY <3>1, <3>2
  <2>2. CASE q # r
    BY <1>1, <1>4, <1>6, <2>2 DEF HeaderNext
  <2> QED
    BY <2>1, <2>2
<1>7. \A q \in Radios : ColumnsFirst(q)' /\ FileFirst(q)'
  BY <1>1, <1>6 DEF HInv, ColumnsFirst, FileFirst, sink
<1> QED
  BY <1>1, <1>5, <1>7 DEF HInv, FirstLineOnce

LEMMA RestartKeepsHeaders == ASSUME HInv, NEW r \in Radios, Restart(r) PROVE HInv'
<1>1. /\ UNCHANGED <<mode, printed, pipe, pc, line, colIdx, bursts, files>>
      /\ pipe[r] = << >> /\ pc[r] = "scan" /\ wrote' = [wrote EXCEPT ![r] = FALSE]
  BY DEF Restart, stats
<1>2. \A q \in Radios : HeaderNext(q) => HeaderNext(q)'
  BY <1>1 DEF HeaderNext, HInv, FlowTypeOK
<1>3. FlowTypeOK'
  BY <1>1 DEF HInv, FlowTypeOK, PipeOK
<1> QED
  BY <1>1, <1>2, <1>3 DEF HInv, FirstLineOnce, ColumnsFirst, FileFirst, sink

(* Scan takes the line whose turn it is.                                   *)
LEMMA ScanTakes ==
  ASSUME FlowTypeOK, NEW r \in Radios, Scan(r)
  PROVE  /\ UNCHANGED <<mode, wrote, printed, colIdx, bursts, files>>
         /\ pc[r] = "scan" /\ pipe[r] # << >>
         /\ pc' = [pc EXCEPT ![r] = "stats"]
         /\ line' = [line EXCEPT ![r] = Head(pipe[r])]
         /\ DOMAIN pipe' = Radios /\ \A q \in Radios \ {r} : pipe'[q] = pipe[q]
         /\ \/ Head(pipe[r]) \in RowLines(r) /\ pipe'[r] = << >>
            \/ Head(pipe[r]) \in HeaderLines /\ \E row \in RowLines(r) : pipe'[r] = <<row>>
<1>1. /\ UNCHANGED <<mode, wrote, printed, colIdx, bursts, files>>
      /\ pc[r] = "scan" /\ pipe[r] # << >>
      /\ pc' = [pc EXCEPT ![r] = "stats"]
      /\ line' = [line EXCEPT ![r] = Head(pipe[r])]
      /\ pipe' = [pipe EXCEPT ![r] = Tail(@)]
  BY DEF Scan, decoders, stats
<1>2. DOMAIN pipe' = Radios /\ pipe'[r] = Tail(pipe[r])
      /\ \A q \in Radios \ {r} : pipe'[q] = pipe[q]
  BY <1>1 DEF FlowTypeOK
<1>3. PICK row \in RowLines(r) :
        pipe[r] = <<row>> \/ \E h \in HeaderLines : pipe[r] = <<h, row>>
  BY <1>1 DEF FlowTypeOK, PipeOK
<1>4. CASE pipe[r] = <<row>>
  <2>1. Head(<<row>>) = row /\ Tail(<<row>>) = << >>
    OBVIOUS
  <2> QED
    BY <1>1, <1>2, <1>4, <2>1
<1>5. ASSUME NEW h \in HeaderLines, pipe[r] = <<h, row>>
      PROVE  Head(pipe[r]) \in HeaderLines /\ pipe'[r] = <<row>>
  <2>1. Head(<<h, row>>) = h /\ Tail(<<h, row>>) = <<row>>
    OBVIOUS
  <2> QED
    BY <1>2, <1>5, <2>1
<1> QED
  BY <1>1, <1>2, <1>3, <1>4, <1>5

LEMMA ScanKeepsHeaders == ASSUME HInv, NEW r \in Radios, Scan(r) PROVE HInv'
<1>0. FlowTypeOK
  BY DEF HInv
<1>1. FlowTypeOK'
  <2>0. PipeOK(pipe'[r], r)
    BY <1>0, ScanTakes DEF PipeOK
  <2>1. \A q \in Radios : PipeOK(pipe'[q], q)
    BY <1>0, <2>0, ScanTakes DEF FlowTypeOK
  <2>2. \A q \in Radios : pc'[q] # "scan" => line'[q] \in HeaderLines \cup RowLines(q)
    BY <1>0, ScanTakes DEF FlowTypeOK
  <2> QED
    BY <1>0, <2>1, <2>2, ScanTakes DEF FlowTypeOK
<1>2. \A q \in Radios : HeaderNext(q) => HeaderNext(q)'
  BY <1>0, ScanTakes DEF HeaderNext, FlowTypeOK
<1>3. \A q \in Radios : pc[q] \in {"scan", "stats"} => pc'[q] \in {"scan", "stats"}
  BY <1>0, ScanTakes DEF FlowTypeOK
<1> QED
  BY <1>0, <1>1, <1>2, <1>3, ScanTakes DEF HInv, FirstLineOnce, ColumnsFirst, FileFirst, sink

LEMMA RecordKeepsHeaders == ASSUME HInv, NEW r \in Radios, record(r) PROVE HInv'
<1>1. /\ UNCHANGED <<mode, wrote, printed, pipe, line, files>>
      /\ pc[r] = "stats" /\ pc' = [pc EXCEPT ![r] = "next"]
      /\ colIdx' = IF line[r].kind = "header" THEN [colIdx EXCEPT ![r] = line[r].type] ELSE colIdx
      /\ bursts' = bursts \/ bursts' = [bursts EXCEPT ![r] = @ + 1]
  BY DEF record, CountBurst, decoders
<1>2. line[r] \in HeaderLines \cup RowLines(r)
  BY <1>1 DEF HInv, FlowTypeOK
<1>3. colIdx'[r] # None /\ \A q \in Radios \ {r} : colIdx'[q] = colIdx[q]
  <2>1. CASE line[r] \in HeaderLines
    BY <1>1, <2>1, LineKinds, TypesAssumption DEF HInv, FlowTypeOK
  <2>2. CASE line[r] \in RowLines(r)
    <3>1. line[r].kind # "header"
      BY <2>2, LineKinds
    <3> QED
      BY <1>1, <3>1 DEF HInv, ColumnsFirst, HeaderNext
  <2> QED
    BY <1>2, <2>1, <2>2
<1>4. FlowTypeOK'
  <2>1. DOMAIN colIdx' = Radios
    BY <1>1 DEF HInv, FlowTypeOK
  <2>2. bursts' \in [Radios -> Nat]
    <3>1. bursts \in [Radios -> Nat] /\ bursts[r] + 1 \in Nat
      BY DEF HInv, FlowTypeOK
    <3> QED
      BY <1>1, <3>1
  <2> QED
    BY <1>1, <2>1, <2>2 DEF HInv, FlowTypeOK
<1>5. \A q \in Radios : HeaderNext(q)' <=> HeaderNext(q)
  BY <1>1 DEF HeaderNext, HInv, FlowTypeOK
<1>6. \A q \in Radios \ {r} : pc'[q] = pc[q]
  BY <1>1 DEF HInv, FlowTypeOK
<1>7. ASSUME NEW q \in Radios PROVE ColumnsFirst(q)'
  BY <1>3, <1>5, <1>6 DEF HInv, ColumnsFirst
<1> QED
  BY <1>1, <1>4, <1>5, <1>7 DEF HInv, FirstLineOnce, FileFirst, sink

(* handleLine drops a header in survey mode and nothing else.              *)
LEMMA HandleDrops ==
  ASSUME HInv, NEW r \in Radios, handleLine(r)
  PROVE  /\ UNCHANGED <<mode, wrote, printed, pipe, colIdx, bursts, files>>
         /\ pc[r] = "next" /\ colIdx[r] # None
         /\ \/ /\ mode = "survey" /\ line[r] \in HeaderLines
               /\ pc' = [pc EXCEPT ![r] = "scan"] /\ line' = [line EXCEPT ![r] = None]
            \/ pc' = [pc EXCEPT ![r] = "write"] /\ line' = line
<1>1. /\ UNCHANGED <<mode, wrote, printed, pipe, colIdx, bursts, files>>
      /\ pc[r] = "next"
  BY DEF handleLine, decoders, stats
<1>2. colIdx[r] # None /\ line[r] \in HeaderLines \cup RowLines(r)
  BY <1>1 DEF HInv, ColumnsFirst, FlowTypeOK
<1>3. line[r].kind = "header" => line[r] \in HeaderLines
  BY <1>2, LineKinds
<1> QED
  BY <1>1, <1>2, <1>3 DEF handleLine

LEMMA HandleKeepsHeaders == ASSUME HInv, NEW r \in Radios, handleLine(r) PROVE HInv'
<1>1. FlowTypeOK'
  <2>1. /\ pc' \in [Radios -> {"scan", "stats", "next", "write"}]
        /\ DOMAIN line' = Radios
    BY HandleDrops DEF HInv, FlowTypeOK
  <2>2. \A q \in Radios : pc'[q] # "scan" => line'[q] = line[q] /\ pc[q] # "scan"
    BY HandleDrops DEF HInv, FlowTypeOK
  <2> QED
    BY <2>1, <2>2, HandleDrops DEF HInv, FlowTypeOK
<1>2. ASSUME NEW q \in Radios PROVE ColumnsFirst(q)' /\ FileFirst(q)'
  <2>1. CASE q = r
    <3>1. FileFirst(r)'
      <4>1. CASE mode = "survey"
        BY <4>1, HandleDrops DEF HInv, FileFirst, sink
      <4>2. CASE mode # "survey"
        <5>1. pc'[r] = "write" /\ line' = line
          BY <4>2, HandleDrops DEF HInv, FlowTypeOK
        <5> QED
          BY <4>2, <5>1, HandleDrops DEF HInv, FileFirst, HeaderNext, sink
      <4> QED
        BY <4>1, <4>2
    <3> QED
      BY <2>1, <3>1, HandleDrops DEF ColumnsFirst
  <2>2. CASE q # r
    BY <2>2, HandleDrops DEF HInv, FlowTypeOK, ColumnsFirst, FileFirst, HeaderNext, sink
  <2> QED
    BY <2>1, <2>2
<1> QED
  BY <1>1, <1>2, HandleDrops DEF HInv, FirstLineOnce

(* A sink drops a repetition of its first line, which is a header, and     *)
(* appends every other line.                                               *)
LEMMA WriteAppends ==
  ASSUME HInv, NEW r \in Radios, writeLine(r)
  PROVE  /\ UNCHANGED <<mode, wrote, printed, pipe, colIdx, bursts>>
         /\ pc[r] = "write" /\ pc' = [pc EXCEPT ![r] = "scan"]
         /\ line' = [line EXCEPT ![r] = None]
         /\ \/ line[r] \in HeaderLines /\ files' = files /\ files[sink(r)] # << >>
            \/ /\ line[r] \in Lines /\ ~Repeated(files[sink(r)], line[r])
               /\ files' = [files EXCEPT ![sink(r)] = @ \o <<line[r]>>]
<1>1. /\ UNCHANGED <<mode, wrote, printed, pipe, colIdx, bursts>>
      /\ pc[r] = "write" /\ pc' = [pc EXCEPT ![r] = "scan"]
      /\ line' = [line EXCEPT ![r] = None]
      /\ files' = [files EXCEPT ![sink(r)] = @ \o Written(@, line[r])]
  BY DEF writeLine, decoders, stats
<1>2. /\ line[r] \in HeaderLines \cup RowLines(r) /\ line[r] \in Lines
      /\ sink(r) \in {"main", "ert"} /\ files[sink(r)] \in Seq(Lines)
  BY <1>1 DEF HInv, FlowTypeOK, Lines, sink
<1>3. CASE Repeated(files[sink(r)], line[r])
  <2>1. files[sink(r)] # << >> /\ line[r] = files[sink(r)][1]
    BY <1>3 DEF Repeated
  <2>2. line[r].kind = "header"
    BY <1>2, <2>1 DEF HInv, FirstLineOnce, FlowTypeOK
  <2>3. line[r] \in HeaderLines
    BY <1>2, <2>2, LineKinds
  <2>4. files[sink(r)] \o << >> = files[sink(r)]
    BY <1>2
  <2>5. files' = files
    BY <1>1, <1>2, <1>3, <2>4 DEF Written, HInv, FlowTypeOK
  <2> QED
    BY <1>1, <2>1, <2>3, <2>5
<1>4. CASE ~Repeated(files[sink(r)], line[r])
  BY <1>1, <1>2, <1>4 DEF Written
<1> QED
  BY <1>3, <1>4

LEMMA WriteMovesOn ==
  ASSUME HInv, NEW r \in Radios, writeLine(r)
  PROVE  /\ pc' \in [Radios -> {"scan", "stats", "next", "write"}] /\ pc'[r] = "scan"
         /\ DOMAIN line' = Radios
         /\ \A q \in Radios \ {r} :
              pc'[q] = pc[q] /\ line'[q] = line[q] /\ (HeaderNext(q)' <=> HeaderNext(q))
         /\ \A q \in Radios : sink(q)' = sink(q)
<1>1. /\ pc' \in [Radios -> {"scan", "stats", "next", "write"}] /\ pc'[r] = "scan"
      /\ DOMAIN line' = Radios
      /\ \A q \in Radios \ {r} : pc'[q] = pc[q] /\ line'[q] = line[q]
  <2>1. pc \in [Radios -> {"scan", "stats", "next", "write"}] /\ DOMAIN line = Radios
    BY DEF HInv, FlowTypeOK
  <2>2. pc' = [pc EXCEPT ![r] = "scan"] /\ line' = [line EXCEPT ![r] = None]
    BY WriteAppends
  <2> QED
    BY <2>1, <2>2
<1>2. \A q \in Radios \ {r} : HeaderNext(q)' <=> HeaderNext(q)
  <2>1. wrote' = wrote /\ pipe' = pipe
    BY WriteAppends
  <2> QED
    BY <1>1, <2>1 DEF HeaderNext
<1>3. \A q \in Radios : sink(q)' = sink(q)
  BY WriteAppends DEF sink
<1> QED
  BY <1>1, <1>2, <1>3

LEMMA WriteKeepsHeaders == ASSUME HInv, NEW r \in Radios, writeLine(r) PROVE HInv'
<1> DEFINE s == sink(r)
           f == files[s]
<1>0. s \in {"main", "ert"} /\ f \in Seq(Lines) /\ s' = s
  BY WriteAppends DEF sink, HInv, FlowTypeOK
<1>1. CASE files' = files /\ f # << >>
  <2>1. FlowTypeOK'
    BY <1>1, WriteAppends, WriteMovesOn DEF HInv, FlowTypeOK
  <2>2. ASSUME NEW q \in Radios PROVE ColumnsFirst(q)' /\ FileFirst(q)'
    <3>1. CASE q = r
      BY <1>1, <3>1, WriteAppends, WriteMovesOn DEF HInv, ColumnsFirst, FileFirst
    <3>2. CASE q # r
      BY <1>1, <3>2, WriteAppends, WriteMovesOn DEF HInv, ColumnsFirst, FileFirst
    <3> QED
      BY <3>1, <3>2
  <2> QED
    BY <1>1, <2>1, <2>2 DEF HInv, FirstLineOnce
<1>2. CASE /\ line[r] \in Lines /\ ~Repeated(f, line[r])
           /\ files' = [files EXCEPT ![s] = f \o <<line[r]>>]
  <2> DEFINE g == f \o <<line[r]>>
  <2>1. /\ g \in Seq(Lines) /\ Len(g) = Len(f) + 1 /\ Len(f) \in Nat
        /\ \A i \in 1 .. Len(f) : g[i] = f[i]
        /\ g[Len(f) + 1] = line[r]
    BY <1>0, <1>2, AppendLine
  <2> HIDE DEF g
  <2>2. files'[s] = g /\ \A u \in {"main", "ert"} \ {s} : files'[u] = files[u]
    BY <1>0, <1>2 DEF g, HInv, FlowTypeOK
  <2>3. FlowTypeOK'
    <3>1. files' \in [{"main", "ert"} -> Seq(Lines)]
      BY <1>0, <1>2, <2>1 DEF g, HInv, FlowTypeOK
    <3> QED
      BY <3>1, WriteAppends, WriteMovesOn DEF HInv, FlowTypeOK
  <2>4. g # << >>
    BY <2>1
  <2>5. ASSUME NEW q \in Radios PROVE ColumnsFirst(q)' /\ FileFirst(q)'
    <3>1. CASE q = r
      <4>1. FileFirst(r)'
        BY <1>0, <2>2, <2>4 DEF FileFirst
      <4>2. colIdx'[r] # None
        BY WriteAppends DEF HInv, ColumnsFirst
      <4> QED
        BY <3>1, <4>1, <4>2 DEF ColumnsFirst
    <3>2. CASE q # r
      <4>1. HeaderNext(q)' <=> HeaderNext(q)
        BY <3>2, WriteMovesOn
      <4>2. pc'[q] = pc[q] /\ colIdx'[q] = colIdx[q] /\ sink(q)' = sink(q) /\ mode' = mode
        BY <3>2, WriteAppends, WriteMovesOn
      <4>3. sink(q) \in {"main", "ert"}
        BY DEF sink
      <4>4. files'[sink(q)] = << >> => files[sink(q)] = << >>
        BY <2>2, <2>4, <4>3
      <4> QED
        BY <4>1, <4>2, <4>4 DEF HInv, ColumnsFirst, FileFirst
    <3> QED
      BY <3>1, <3>2
  <2>6. FirstLineOnce'
    <3>1. DOMAIN files' = {"main", "ert"}
      BY <2>3 DEF FlowTypeOK
    <3>2. ASSUME NEW u \in {"main", "ert"} \ {s}, files'[u] # << >>
          PROVE  /\ files'[u][1].kind = "header"
                 /\ \A i \in 2 .. Len(files'[u]) : files'[u][i] # files'[u][1]
      BY <2>2, <3>2 DEF HInv, FlowTypeOK, FirstLineOnce
    <3>3. CASE f = << >>
      <4>1. line[r].kind = "header"
        BY <3>3, WriteAppends DEF HInv, FileFirst, HeaderNext
      <4>2. Len(f) = 0
        BY <3>3
      <4>3. Len(g) = 1 /\ g[1] = line[r]
        BY <2>1, <4>2
      <4> QED
        BY <2>2, <3>1, <3>2, <4>1, <4>3 DEF FirstLineOnce
    <3>4. CASE f # << >>
      <4>1. /\ f[1].kind = "header" /\ \A i \in 2 .. Len(f) : f[i] # f[1]
            /\ line[r] # f[1]
        BY <1>0, <1>2, <3>4 DEF HInv, FlowTypeOK, FirstLineOnce, Repeated
      <4>2. Len(f) >= 1
        BY <1>0, <3>4
      <4>3. g[1] = f[1] /\ \A i \in 2 .. Len(g) : g[i] = f[i] \/ (i = Len(f) + 1 /\ g[i] = line[r])
        BY <2>1, <4>2
      <4>4. \A i \in 2 .. Len(g) : i <= Len(f) \/ i = Len(f) + 1
        BY <2>1
      <4>5. ASSUME NEW i \in 2 .. Len(g) PROVE g[i] # g[1]
        <5>1. CASE i <= Len(f)
          <6>1. i \in 2 .. Len(f) /\ g[i] = f[i]
            BY <2>1, <5>1
          <6> QED
            BY <4>1, <4>3, <6>1
        <5>2. CASE i = Len(f) + 1
          BY <2>1, <4>1, <4>3, <5>2
        <5> QED
          BY <4>4, <5>1, <5>2
      <4> QED
        BY <2>2, <3>1, <3>2, <4>1, <4>3, <4>5 DEF FirstLineOnce
    <3> QED
      BY <3>3, <3>4
  <2> QED
    BY <2>3, <2>5, <2>6 DEF HInv
<1> QED
  BY <1>1, <1>2, WriteAppends

LEMMA NextHInv == HInv /\ [Next]_vars => HInv'
<1> SUFFICES ASSUME HInv, [Next]_vars PROVE HInv'
  OBVIOUS
<1>1. ASSUME NEW r \in Radios, Encode(r) \/ Restart(r) \/ Goroutine(r) PROVE HInv'
  BY <1>1, EncodeKeepsHeaders, RestartKeepsHeaders, ScanKeepsHeaders, RecordKeepsHeaders,
     HandleKeepsHeaders, WriteKeepsHeaders DEF Goroutine
<1> QED
  BY <1>1, OthersKeepHeaders DEF Next

THEOREM HeaderInvariance == Spec => []HInv
BY InitHInv, NextHInv, PTL DEF Spec

(* A file that is not that of mixed mode's second dongle gets lines of one *)
(* type only, and in survey mode no decoder's header.                      *)
MainHeader == IF mode = "survey" THEN surveyColumns ELSE header("r900")

MainFlow(r) ==
  sink(r) = "main" =>
    /\ \A i \in DOMAIN pipe[r] : pipe[r][i].type = "r900"
    /\ pc[r] # "scan" => line[r].type = "r900"
    /\ pc[r] = "write" /\ mode = "survey" => line[r].kind = "row"

MainInv ==
  /\ \A r \in Radios : MainFlow(r)
  /\ \A i \in DOMAIN files["main"] :
       files["main"][i].kind = "header" => files["main"][i] = MainHeader

LEMMA InitMainInv == Init => MainInv
BY DEF Init, MainInv, MainFlow, MainHeader

(* A step of one radio's process or goroutine up to the file.              *)
LEMMA FlowKeepsMain ==
  ASSUME HInv, MainInv, NEW r \in Radios, MainFlow(r)', UNCHANGED <<mode, files>>,
         \A q \in Radios \ {r} : UNCHANGED <<pipe[q], pc[q], line[q]>>
  PROVE  MainInv'
<1>1. ASSUME NEW q \in Radios \ {r} PROVE MainFlow(q)'
  BY DEF MainInv, MainFlow, sink
<1>2. MainHeader' = MainHeader
  BY DEF MainHeader
<1> QED
  BY <1>1, <1>2 DEF MainInv

LEMMA EncodeKeepsMain == ASSUME HInv, MainInv, NEW r \in Radios, Encode(r) PROVE MainInv'
<1>1. PICK type \in msgType(r) : \E leak \in Leaks(type) :
        pipe' = [pipe EXCEPT ![r] = IF wrote[r] THEN <<message(r, type, leak)>>
                                    ELSE <<header(type), message(r, type, leak)>>]
  BY DEF Encode
<1>2. PICK leak \in Leaks(type) :
        pipe' = [pipe EXCEPT ![r] = IF wrote[r] THEN <<message(r, type, leak)>>
                                    ELSE <<header(type), message(r, type, leak)>>]
  BY <1>1
<1>3. UNCHANGED <<mode, pc, line, files>> /\ DOMAIN pipe = Radios
  BY DEF Encode, HInv, FlowTypeOK
<1>4. ASSUME sink(r) = "main" PROVE \A i \in DOMAIN pipe'[r] : pipe'[r][i].type = "r900"
  <2>1. type = "r900"
    BY <1>4 DEF sink, msgType
  <2>2. message(r, type, leak).type = "r900" /\ header(type).type = "r900"
    BY <2>1 DEF message, header
  <2>3. \/ pipe'[r] = <<message(r, type, leak)>>
        \/ pipe'[r] = <<header(type), message(r, type, leak)>>
    BY <1>2, <1>3
  <2> QED
    BY <2>2, <2>3
<1>5. MainFlow(r)'
  BY <1>3, <1>4 DEF MainInv, MainFlow, sink
<1> QED
  BY <1>2, <1>3, <1>5, FlowKeepsMain

LEMMA ScanKeepsMain == ASSUME HInv, MainInv, NEW r \in Radios, Scan(r) PROVE MainInv'
<1>0. FlowTypeOK
  BY DEF HInv
<1>1. /\ UNCHANGED <<mode, files>> /\ pc' = [pc EXCEPT ![r] = "stats"]
      /\ line' = [line EXCEPT ![r] = Head(pipe[r])] /\ pipe[r] # << >>
      /\ \A q \in Radios \ {r} : pipe'[q] = pipe[q]
      /\ pipe' = [pipe EXCEPT ![r] = Tail(@)]
  BY <1>0, ScanTakes DEF Scan
<1>2. PICK row \in RowLines(r) :
        pipe[r] = <<row>> \/ \E h \in HeaderLines : pipe[r] = <<h, row>>
  BY <1>0, <1>1 DEF FlowTypeOK, PipeOK
<1>3. ASSUME sink(r) = "main"
      PROVE  /\ Head(pipe[r]).type = "r900"
             /\ \A i \in DOMAIN Tail(pipe[r]) : Tail(pipe[r])[i].type = "r900"
  <2>1. \A i \in DOMAIN pipe[r] : pipe[r][i].type = "r900"
    BY <1>3 DEF MainInv, MainFlow
  <2>2. CASE pipe[r] = <<row>>
    BY <2>1, <2>2
  <2>3. CASE \E h \in HeaderLines : pipe[r] = <<h, row>>
    <3>1. PICK h \in HeaderLines : pipe[r] = <<h, row>>
      BY <2>3
    <3>2. h.type = "r900" /\ row.type = "r900"
      BY <2>1, <3>1
    <3>3. Head(pipe[r]) = h /\ Tail(pipe[r]) = <<row>>
      BY <3>1
    <3>4. \A i \in DOMAIN <<row>> : <<row>>[i] = row
      OBVIOUS
    <3> QED
      BY <3>2, <3>3, <3>4
  <2> QED
    BY <1>2, <2>2, <2>3
<1>4. MainFlow(r)'
  BY <1>0, <1>1, <1>3 DEF FlowTypeOK, MainFlow, sink
<1> QED
  BY <1>0, <1>1, <1>4, FlowKeepsMain DEF FlowTypeOK

LEMMA WriteKeepsMain == ASSUME HInv, MainInv, NEW r \in Radios, writeLine(r) PROVE MainInv'
<1>1. /\ UNCHANGED <<mode, pipe>> /\ pc[r] = "write"
      /\ pc' = [pc EXCEPT ![r] = "scan"] /\ line' = [line EXCEPT ![r] = None]
      /\ DOMAIN pc = Radios /\ DOMAIN line = Radios
      /\ DOMAIN files = {"main", "ert"} /\ files["main"] \in Seq(Lines)
  BY WriteAppends DEF HInv, FlowTypeOK
<1>2. ASSUME NEW q \in Radios PROVE MainFlow(q)'
  BY <1>1 DEF MainInv, MainFlow, sink
<1>3. MainHeader' = MainHeader
  BY <1>1 DEF MainHeader
<1>4. CASE files'["main"] = files["main"]
  BY <1>2, <1>3, <1>4 DEF MainInv
<1>5. CASE files'["main"] # files["main"]
  <2>1. /\ sink(r) = "main" /\ line[r] \in Lines
        /\ files'["main"] = files["main"] \o <<line[r]>>
    <3>1. /\ line[r] \in Lines /\ sink(r) \in {"main", "ert"}
          /\ files' = [files EXCEPT ![sink(r)] = @ \o <<line[r]>>]
      BY <1>5, WriteAppends DEF sink
    <3>2. sink(r) = "main"
      BY <1>1, <1>5, <3>1
    <3> QED
      BY <1>1, <3>1, <3>2
  <2>2. line[r].kind = "header" => line[r] = MainHeader
    <3> SUFFICES ASSUME line[r].kind = "header" PROVE line[r] = MainHeader
      OBVIOUS
    <3>1. mode # "survey" /\ line[r].type = "r900"
      BY <1>1, <2>1 DEF MainInv, MainFlow
    <3>2. line[r] \in HeaderLines
      BY <1>1, LineKinds DEF HInv, FlowTypeOK
    <3> QED
      BY <3>1, <3>2 DEF HeaderLines, header, MainHeader
  <2>3. ASSUME NEW i \in DOMAIN files'["main"], files'["main"][i].kind = "header"
        PROVE  files'["main"][i] = MainHeader
    <3>1. i \in 1 .. Len(files["main"]) \/ i = Len(files["main"]) + 1
      BY <1>1, <2>1
    <3> QED
      BY <1>1, <2>1, <2>2, <2>3, <3>1, AppendLine DEF MainInv
  <2> QED
    BY <1>2, <1>3, <2>3 DEF MainInv
<1> QED
  BY <1>4, <1>5

LEMMA NextMainInv == HInv /\ MainInv /\ [Next]_vars => MainInv'
<1> SUFFICES ASSUME HInv, MainInv, [Next]_vars PROVE MainInv'
  OBVIOUS
<1>1. CASE Tick \/ handleSentence \/ UNCHANGED vars
  <2>1. UNCHANGED <<mode, pipe, pc, line, files>>
    BY <1>1 DEF Tick, handleSentence, HearGGA, StoreFix, HearRMC, vars
  <2> QED
    BY <2>1 DEF MainInv, MainFlow, MainHeader, sink
<1>2. ASSUME NEW r \in Radios, Restart(r) PROVE MainInv'
  <2>1. UNCHANGED <<mode, pipe, pc, line, files>>
    BY <1>2 DEF Restart
  <2> QED
    BY <2>1 DEF MainInv, MainFlow, MainHeader, sink
<1>3. ASSUME NEW r \in Radios, record(r) PROVE MainInv'
  <2>1. UNCHANGED <<mode, pipe, line, files>> /\ pc[r] = "stats"
        /\ pc' = [pc EXCEPT ![r] = "next"] /\ DOMAIN pc = Radios
    BY <1>3 DEF record, HInv, FlowTypeOK
  <2>2. MainFlow(r)'
    BY <2>1 DEF MainInv, MainFlow, sink
  <2> QED
    BY <2>1, <2>2, FlowKeepsMain
<1>4. ASSUME NEW r \in Radios, handleLine(r) PROVE MainInv'
  <2>1. /\ UNCHANGED <<mode, pipe, files>> /\ pc[r] = "next"
        /\ DOMAIN pc = Radios /\ DOMAIN line = Radios
        /\ \/ pc' = [pc EXCEPT ![r] = "scan"] /\ line' = [line EXCEPT ![r] = None]
           \/ /\ pc' = [pc EXCEPT ![r] = "write"] /\ line' = line
              /\ mode = "survey" => line[r].kind = "row"
    <3>1. line[r] \in HeaderLines \cup RowLines(r)
      BY <1>4 DEF handleLine, HInv, FlowTypeOK
    <3>2. line[r].kind \in {"header", "row"}
      BY <3>1, LineKinds
    <3> QED
      BY <1>4, <3>2 DEF handleLine, HInv, FlowTypeOK
  <2>2. MainFlow(r)'
    BY <2>1 DEF MainInv, MainFlow, sink
  <2> QED
    BY <2>1, <2>2, FlowKeepsMain
<1> QED
  BY <1>1, <1>2, <1>3, <1>4, EncodeKeepsMain, ScanKeepsMain, WriteKeepsMain
     DEF Next, Goroutine

(* However many decoders print into a file and however often they are      *)
(* restarted, it begins with a header that never comes again; and but for  *)
(* mixed mode's second dongle only rows follow it.                         *)
THEOREM HeaderComesOnce == Spec => []HeaderOnce
<1>1. HInv /\ MainInv => HeaderOnce
  <2> SUFFICES ASSUME HInv, MainInv, NEW i \in 2 .. Len(files["main"])
               PROVE  files["main"][i].kind = "row"
    BY DEF HeaderOnce, HInv
  <2>1. /\ DOMAIN files = {"main", "ert"} /\ files["main"] \in Seq(Lines)
        /\ 1 \in DOMAIN files["main"] /\ i \in DOMAIN files["main"]
        /\ files["main"] # << >> /\ files["main"][i] \in Lines
    BY DEF HInv, FlowTypeOK
  <2>2. files["main"][1].kind = "header" /\ files["main"][i] # files["main"][1]
    BY <2>1 DEF HInv, FirstLineOnce
  <2>3. files["main"][i].kind # "header"
    BY <2>1, <2>2 DEF MainInv
  <2>4. files["main"][i].kind \in {"header", "row"}
    BY <2>1, LineKinds DEF Lines
  <2> QED
    BY <2>3, <2>4
<1> QED
  BY <1>1, InitHInv, NextHInv, InitMainInv, NextMainInv, PTL DEF Spec
-----------------------------------------------------------------------------
(* Each message printed is a row in the file, or still on its way there,   *)
(* and a burst, or still on its way to statsLine.                          *)
InPipe(r) == IF pipe[r] = << >> THEN 0 ELSE 1
RowIn(r, where) == IF pc[r] \in where /\ line[r].kind = "row" THEN 1 ELSE 0

RowsCounted ==
  \A r \in Radios : RowsOf(r) + RowIn(r, {"stats", "next", "write"}) + InPipe(r) = printed[r]
BurstsCounted ==
  \A r \in Radios : bursts[r] + RowIn(r, {"stats"}) + InPipe(r) = printed[r]

RowIndices(file, r) == {i \in DOMAIN file : file[i].kind = "row" /\ file[i].radio = r}

LEMMA RowsFinite ==
  ASSUME NEW file \in Seq(Lines), NEW r
  PROVE  /\ IsFiniteSet(RowIndices(file, r))
         /\ Cardinality(RowIndices(file, r)) \in Nat
         /\ file = << >> => Cardinality(RowIndices(file, r)) = 0
<1>1. IsFiniteSet(1 .. Len(file)) /\ RowIndices(file, r) \subseteq 1 .. Len(file)
  BY FS_Interval DEF RowIndices
<1>2. IsFiniteSet(RowIndices(file, r)) /\ Cardinality(RowIndices(file, r)) \in Nat
  BY <1>1, FS_Subset, FS_CardinalityType
<1>3. file = << >> => RowIndices(file, r) = {}
  BY DEF RowIndices
<1> QED
  BY <1>2, <1>3, FS_EmptySet

(* A line more is a row more for the radio it is of, and for no other.     *)
LEMMA RowsAppend ==
  ASSUME NEW file \in Seq(Lines), NEW l \in Lines, NEW r
  PROVE  Cardinality(RowIndices(file \o <<l>>, r)) =
           Cardinality(RowIndices(file, r)) + IF l.kind = "row" /\ l.radio = r THEN 1 ELSE 0
<1> DEFINE g == file \o <<l>>
           n == Len(file) + 1
<1>1. /\ g \in Seq(Lines) /\ Len(g) = n /\ Len(file) \in Nat /\ g[n] = l
      /\ \A i \in 1 .. Len(file) : g[i] = file[i]
  BY AppendLine
<1> HIDE DEF g
<1>2. DOMAIN g = 1 .. Len(file) \cup {n} /\ DOMAIN file = 1 .. Len(file) /\ n \notin 1 .. Len(file)
  BY <1>1
<1>3. CASE l.kind = "row" /\ l.radio = r
  <2>1. RowIndices(g, r) = RowIndices(file, r) \cup {n} /\ n \notin RowIndices(file, r)
    BY <1>1, <1>2, <1>3 DEF RowIndices
  <2> QED
    BY <1>3, <2>1, RowsFinite, FS_AddElement DEF g
<1>4. CASE ~(l.kind = "row" /\ l.radio = r)
  <2>1. RowIndices(g, r) = RowIndices(file, r)
    BY <1>1, <1>2, <1>4 DEF RowIndices
  <2> QED
    BY <1>4, <2>1, RowsFinite DEF g
<1> QED
  BY <1>3, <1>4

LEMMA RowsOfIs == \A r : RowsOf(r) = Cardinality(RowIndices(files[sink(r)], r))
BY DEF RowsOf, RowIndices

CInv == RowsCounted /\ BurstsCounted

(* What the counts are made of, for one radio.                             *)
LEMMA Counts ==
  ASSUME HInv, NEW r \in Radios
  PROVE  /\ RowsOf(r) \in Nat /\ bursts[r] \in Nat /\ printed[r] \in Nat
         /\ InPipe(r) \in 0 .. 1 /\ \A where : RowIn(r, where) \in 0 .. 1
<1>1. files[sink(r)] \in Seq(Lines)
  BY DEF HInv, FlowTypeOK, sink
<1> QED
  BY <1>1, RowsOfIs, RowsFinite DEF HInv, FlowTypeOK, InPipe, RowIn

LEMMA InitCInv == Init => CInv
<1> SUFFICES ASSUME Init, NEW r \in Radios
             PROVE  /\ RowsOf(r) + RowIn(r, {"stats", "next", "write"}) + InPipe(r) = printed[r]
                    /\ bursts[r] + RowIn(r, {"stats"}) + InPipe(r) = printed[r]
  BY DEF CInv, RowsCounted, BurstsCounted
<1>1. pc[r] = "scan" /\ pipe[r] = << >> /\ printed[r] = 0 /\ bursts[r] = 0
  BY DEF Init
<1>2. RowsOf(r) = 0
  <2>1. files[sink(r)] = << >> \/ files[sink(r)] = <<surveyColumns>>
    BY DEF Init, sink
  <2>2. RowIndices(files[sink(r)], r) = {}
    BY <2>1, LineKinds DEF RowIndices
  <2> QED
    BY <2>2, RowsOfIs, FS_EmptySet
<1> QED
  BY <1>1, <1>2 DEF RowIn, InPipe

LEMMA EncodeCounts == ASSUME HInv, CInv, NEW r \in Radios, Encode(r) PROVE CInv'
<1>1. /\ UNCHANGED <<mode, pc, line, bursts, files>> /\ pipe[r] = << >>
      /\ printed' = [printed EXCEPT ![r] = @ + 1]
  BY DEF Encode, stats
<1>2. pipe'[r] # << >> /\ \A q \in Radios \ {r} : pipe'[q] = pipe[q]
  BY DEF Encode, HInv, FlowTypeOK
<1>3. ASSUME NEW q \in Radios
      PROVE  /\ RowsOf(q)' = RowsOf(q) /\ \A where : RowIn(q, where)' = RowIn(q, where)
             /\ InPipe(q)' = IF q = r THEN InPipe(q) + 1 ELSE InPipe(q)
             /\ printed'[q] = IF q = r THEN printed[q] + 1 ELSE printed[q]
  BY <1>1, <1>2 DEF RowsOf, RowIn, InPipe, sink, HInv, FlowTypeOK
<1>4. ASSUME NEW q \in Radios
      PROVE  /\ RowsOf(q)' + RowIn(q, {"stats", "next", "write"})' + InPipe(q)' = printed'[q]
             /\ bursts'[q] + RowIn(q, {"stats"})' + InPipe(q)' = printed'[q]
  <2>1. /\ RowsOf(q) + RowIn(q, {"stats", "next", "write"}) + InPipe(q) = printed[q]
        /\ bursts[q] + RowIn(q, {"stats"}) + InPipe(q) = printed[q]
    BY DEF CInv, RowsCounted, BurstsCounted
  <2>2. /\ RowsOf(q)' = RowsOf(q) /\ bursts'[q] = bursts[q]
        /\ RowIn(q, {"stats", "next", "write"})' = RowIn(q, {"stats", "next", "write"})
        /\ RowIn(q, {"stats"})' = RowIn(q, {"stats"})
    BY <1>1, <1>3
  <2> QED
    BY <1>3, <2>1, <2>2, Counts
<1> QED
  BY <1>4 DEF CInv, RowsCounted, BurstsCounted

(* A goroutine's step: the other radios' counts stay, and of its own a row *)
(* goes from one place to the next.                                        *)
LEMMA GoroutineCounts ==
  ASSUME HInv, CInv, NEW r \in Radios,
         printed' = printed,
         \A q \in Radios \ {r} :
           /\ RowsOf(q)' = RowsOf(q) /\ bursts'[q] = bursts[q] /\ InPipe(q)' = InPipe(q)
           /\ \A where : RowIn(q, where)' = RowIn(q, where),
         RowsOf(r)' + RowIn(r, {"stats", "next", "write"})' + InPipe(r)' =
           RowsOf(r) + RowIn(r, {"stats", "next", "write"}) + InPipe(r),
         bursts'[r] + RowIn(r, {"stats"})' + InPipe(r)' =
           bursts[r] + RowIn(r, {"stats"}) + InPipe(r)
  PROVE  CInv'
<1>1. ASSUME NEW q \in Radios
      PROVE  /\ RowsOf(q)' + RowIn(q, {"stats", "next", "write"})' + InPipe(q)' = printed'[q]
             /\ bursts'[q] + RowIn(q, {"stats"})' + InPipe(q)' = printed'[q]
  BY DEF CInv, RowsCounted, BurstsCounted
<1> QED
  BY <1>1 DEF CInv, RowsCounted, BurstsCounted

LEMMA ScanCounts == ASSUME HInv, CInv, NEW r \in Radios, Scan(r) PROVE CInv'
<1>0. FlowTypeOK
  BY DEF HInv
<1>1. /\ UNCHANGED <<mode, printed, bursts, files>>
      /\ pc[r] = "scan" /\ pc'[r] = "stats" /\ pipe[r] # << >> /\ line'[r] = Head(pipe[r])
      /\ \A q \in Radios \ {r} : pc'[q] = pc[q] /\ line'[q] = line[q] /\ pipe'[q] = pipe[q]
  BY <1>0, ScanTakes DEF FlowTypeOK
<1>2. \/ line'[r].kind = "row" /\ pipe'[r] = << >>
      \/ line'[r].kind = "header" /\ pipe'[r] # << >>
  BY <1>0, <1>1, ScanTakes, LineKinds
<1>3. \A q \in Radios \ {r} :
           /\ RowsOf(q)' = RowsOf(q) /\ bursts'[q] = bursts[q] /\ InPipe(q)' = InPipe(q)
           /\ \A where : RowIn(q, where)' = RowIn(q, where)
  BY <1>1 DEF RowsOf, RowIn, InPipe, sink
<1>4. /\ RowsOf(r)' = RowsOf(r) /\ bursts'[r] = bursts[r] /\ InPipe(r) = 1
      /\ RowIn(r, {"stats", "next", "write"}) = 0 /\ RowIn(r, {"stats"}) = 0
  BY <1>1 DEF RowsOf, RowIn, InPipe, sink
<1>5. /\ RowIn(r, {"stats", "next", "write"})' + InPipe(r)' = 1
      /\ RowIn(r, {"stats"})' + InPipe(r)' = 1
  BY <1>1, <1>2 DEF RowIn, InPipe
<1>6. /\ InPipe(r)' \in 0 .. 1 /\ RowIn(r, {"stats", "next", "write"})' \in 0 .. 1
      /\ RowIn(r, {"stats"})' \in 0 .. 1
  BY DEF InPipe, RowIn
<1> QED
  BY <1>1, <1>3, <1>4, <1>5, <1>6, Counts, GoroutineCounts

LEMMA RecordCounts == ASSUME HInv, CInv, NEW r \in Radios, record(r) PROVE CInv'
<1>1. /\ UNCHANGED <<mode, printed, pipe, line, files>>
      /\ pc[r] = "stats" /\ pc' = [pc EXCEPT ![r] = "next"]
      /\ bursts' = IF line[r].kind = "row" /\ colIdx[r] # None
                   THEN [bursts EXCEPT ![r] = @ + 1] ELSE bursts
  BY DEF record, CountBurst, decoders
<1>2. line[r].kind = "row" => colIdx[r] # None
  BY <1>1 DEF HInv, ColumnsFirst, HeaderNext
<1>3. /\ pc'[r] = "next" /\ \A q \in Radios \ {r} : pc'[q] = pc[q] /\ bursts'[q] = bursts[q]
      /\ bursts'[r] = IF line[r].kind = "row" THEN bursts[r] + 1 ELSE bursts[r]
  BY <1>1, <1>2 DEF HInv, FlowTypeOK
<1>4. \A q \in Radios \ {r} :
           /\ RowsOf(q)' = RowsOf(q) /\ InPipe(q)' = InPipe(q)
           /\ \A where : RowIn(q, where)' = RowIn(q, where)
  BY <1>1, <1>3 DEF RowsOf, RowIn, InPipe, sink
<1>5. /\ RowsOf(r)' = RowsOf(r) /\ InPipe(r)' = InPipe(r)
      /\ RowIn(r, {"stats", "next", "write"})' = RowIn(r, {"stats", "next", "write"})
      /\ RowIn(r, {"stats"})' = 0
      /\ RowIn(r, {"stats"}) = IF line[r].kind = "row" THEN 1 ELSE 0
  BY <1>1, <1>3 DEF RowsOf, RowIn, InPipe, sink
<1>6. bursts'[r] + RowIn(r, {"stats"})' + InPipe(r)' = bursts[r] + RowIn(r, {"stats"}) + InPipe(r)
  BY <1>3, <1>5, Counts
<1> QED
  BY <1>1, <1>3, <1>4, <1>5, <1>6, GoroutineCounts

LEMMA HandleCounts == ASSUME HInv, CInv, NEW r \in Radios, handleLine(r) PROVE CInv'
<1>1. /\ UNCHANGED <<mode, printed, pipe, bursts, files>> /\ pc[r] = "next"
      /\ \/ line[r] \in HeaderLines /\ pc'[r] = "scan"
         \/ pc'[r] = "write" /\ line'[r] = line[r]
      /\ \A q \in Radios \ {r} : pc'[q] = pc[q] /\ line'[q] = line[q]
  BY HandleDrops DEF HInv, FlowTypeOK
<1>2. \A q \in Radios \ {r} :
           /\ RowsOf(q)' = RowsOf(q) /\ bursts'[q] = bursts[q] /\ InPipe(q)' = InPipe(q)
           /\ \A where : RowIn(q, where)' = RowIn(q, where)
  BY <1>1 DEF RowsOf, RowIn, InPipe, sink
<1>3. /\ RowsOf(r)' = RowsOf(r) /\ bursts'[r] = bursts[r] /\ InPipe(r)' = InPipe(r)
      /\ RowIn(r, {"stats"})' = 0 /\ RowIn(r, {"stats"}) = 0
  BY <1>1 DEF RowsOf, RowIn, InPipe, sink
<1>4. RowIn(r, {"stats", "next", "write"})' = RowIn(r, {"stats", "next", "write"})
  BY <1>1, LineKinds DEF RowIn
<1> QED
  BY <1>1, <1>2, <1>3, <1>4, GoroutineCounts

(* A row is never taken for a repetition of the header.                    *)
LEMMA WriteCounts == ASSUME HInv, CInv, NEW r \in Radios, writeLine(r) PROVE CInv'
<1> DEFINE s == sink(r)
           l == line[r]
<1>1. /\ UNCHANGED <<mode, printed, pipe, bursts>>
      /\ pc[r] = "write" /\ pc'[r] = "scan"
      /\ \A q \in Radios \ {r} : pc'[q] = pc[q] /\ line'[q] = line[q]
      /\ \A q \in Radios : sink(q)' = sink(q)
  BY WriteAppends, WriteMovesOn
<1>2. l \in HeaderLines \cup RowLines(r) /\ l \in Lines /\ sink(r) \in {"main", "ert"}
  BY <1>1 DEF HInv, FlowTypeOK, Lines, sink
<1>3. ASSUME NEW q \in Radios
      PROVE  RowsOf(q)' = RowsOf(q) + IF q = r /\ l.kind = "row" THEN 1 ELSE 0
  <2>1. sink(q) \in {"main", "ert"} /\ files[sink(q)] \in Seq(Lines)
    BY DEF sink, HInv, FlowTypeOK
  <2>2. RowsOf(q)' = Cardinality(RowIndices(files'[sink(q)], q))
    BY <1>1 DEF RowsOf, RowIndices
  <2>3. RowsOf(q) = Cardinality(RowIndices(files[sink(q)], q)) /\ RowsOf(q) \in Nat
    BY RowsOfIs, Counts
  <2>4. CASE l \in HeaderLines /\ files' = files
    <3>1. l.kind # "row"
      BY <2>4, LineKinds
    <3> QED
      BY <2>2, <2>3, <2>4, <3>1
  <2>5. CASE files' = [files EXCEPT ![s] = @ \o <<l>>]
    <3>1. l.kind = "row" => l.radio = r
      BY <1>2, LineKinds
    <3>2. CASE sink(q) = s
      <4>1. files'[sink(q)] = files[sink(q)] \o <<l>>
        BY <2>1, <2>5, <3>2 DEF HInv, FlowTypeOK
      <4>2. Cardinality(RowIndices(files[sink(q)] \o <<l>>, q)) =
              Cardinality(RowIndices(files[sink(q)], q))
                + IF l.kind = "row" /\ l.radio = q THEN 1 ELSE 0
        BY <1>2, <2>1, RowsAppend
      <4> QED
        BY <2>2, <2>3, <3>1, <4>1, <4>2
    <3>3. CASE sink(q) # s
      <4>1. files'[sink(q)] = files[sink(q)] /\ q # r
        BY <2>1, <2>5, <3>3 DEF HInv, FlowTypeOK
      <4> QED
        BY <2>2, <2>3, <4>1
    <3> QED
      BY <3>2, <3>3
  <2> QED
    BY <2>4, <2>5, WriteAppends
<1>4. \A q \in Radios \ {r} :
           /\ RowsOf(q)' = RowsOf(q) /\ bursts'[q] = bursts[q] /\ InPipe(q)' = InPipe(q)
           /\ \A where : RowIn(q, where)' = RowIn(q, where)
  BY <1>1, <1>3, Counts DEF RowIn, InPipe
<1>5. /\ bursts'[r] = bursts[r] /\ InPipe(r)' = InPipe(r)
      /\ RowIn(r, {"stats"})' = 0 /\ RowIn(r, {"stats"}) = 0
      /\ RowIn(r, {"stats", "next", "write"})' = 0
      /\ RowIn(r, {"stats", "next", "write"}) = IF l.kind = "row" THEN 1 ELSE 0
  BY <1>1 DEF RowIn, InPipe
<1>6. RowsOf(r)' + RowIn(r, {"stats", "next", "write"})' + InPipe(r)' =
        RowsOf(r) + RowIn(r, {"stats", "next", "write"}) + InPipe(r)
  BY <1>3, <1>5, Counts
<1> QED
  BY <1>1, <1>4, <1>5, <1>6, GoroutineCounts

LEMMA NextCInv == HInv /\ CInv /\ [Next]_vars => CInv'
<1> SUFFICES ASSUME HInv, CInv, [Next]_vars PROVE CInv'
  OBVIOUS
<1>1. ASSUME NEW r \in Radios, Encode(r) \/ Goroutine(r) PROVE CInv'
  BY <1>1, EncodeCounts, ScanCounts, RecordCounts, HandleCounts, WriteCounts DEF Goroutine
<1>2. CASE Tick \/ handleSentence \/ UNCHANGED vars \/ \E r \in Radios : Restart(r)
  <2>1. UNCHANGED <<mode, printed, pipe, pc, line, bursts, files>>
    BY <1>2 DEF Tick, handleSentence, HearGGA, StoreFix, HearRMC, Restart, vars, decoders, stats
  <2> QED
    BY <2>1 DEF CInv, RowsCounted, BurstsCounted, RowsOf, RowIn, InPipe, sink
<1> QED
  BY <1>1, <1>2 DEF Next

(* When a radio's lines are handled, each message it printed, before and   *)
(* after any restart, is a row of its file and a burst on the dashboard.   *)
THEOREM RowsKept == Spec => []NoRowLost
<1>1. HInv /\ CInv => NoRowLost
  <2> SUFFICES ASSUME HInv, CInv, NEW r \in Radios, pc[r] = "scan", pipe[r] = << >>
               PROVE  RowsOf(r) = printed[r] /\ bursts[r] = printed[r]
    BY DEF NoRowLost
  <2>1. /\ RowIn(r, {"stats", "next", "write"}) = 0 /\ RowIn(r, {"stats"}) = 0
        /\ InPipe(r) = 0
    BY DEF RowIn, InPipe
  <2>2. /\ RowsOf(r) + RowIn(r, {"stats", "next", "write"}) + InPipe(r) = printed[r]
        /\ bursts[r] + RowIn(r, {"stats"}) + InPipe(r) = printed[r]
    BY DEF CInv, RowsCounted, BurstsCounted
  <2> QED
    BY <2>1, <2>2, Counts
<1> QED
  BY <1>1, InitHInv, NextHInv, InitCInv, NextCInv, PTL DEF Spec
-----------------------------------------------------------------------------
(* The dashboard's table.  A message that meters does not count yet is     *)
(* still in a pipe or in a goroutine's hands on the way to statsLine.      *)
Places == Radios \X {"pipe", "line"}
Waiting(x) ==
  IF x[2] = "pipe" THEN pipe[x[1]] # << >>
  ELSE pc[x[1]] = "stats" /\ line[x[1]].kind = "row"
RowAt(x) == IF x[2] = "pipe" THEN pipe[x[1]][Len(pipe[x[1]])] ELSE line[x[1]]
Pending == {x \in Places : Waiting(x) /\ RowAt(x).type = "r900"}

Id == Meter("r900")

(* Every line a radio handles is of one of its types, and so are the       *)
(* columns that are remembered for it.                                     *)
OwnTypes ==
  \A r \in Radios :
    /\ pc[r] # "scan" => line[r].type \in msgType(r)
    /\ \A i \in DOMAIN pipe[r] : pipe[r][i].type \in msgType(r)
    /\ colIdx[r] \in msgType(r) \cup {None}

Counters == [bursts : Nat, leak : {0, 1}]
BurstsOfMeter == heard["r900"].bursts = meters[Id].bursts + Cardinality(Pending)
LeakOfMeter ==
  /\ meters[Id].leak <= heard["r900"].leak
  /\ \A x \in Pending : RowAt(x).leak <= heard["r900"].leak
  /\ heard["r900"].leak = meters[Id].leak
       \/ \E x \in Pending : RowAt(x).leak = heard["r900"].leak

BInv ==
  /\ meters[Id] \in Counters /\ heard["r900"] \in Counters
  /\ DOMAIN meters = Ids /\ DOMAIN heard = Types
  /\ OwnTypes /\ BurstsOfMeter /\ LeakOfMeter

LEMMA PendingFinite == IsFiniteSet(Pending) /\ Cardinality(Pending) \in Nat
<1>1. IsFiniteSet({"pipe", "line"})
  <2>1. IsFiniteSet({"pipe"}) /\ IsFiniteSet({"line"})
    BY FS_Singleton
  <2>2. {"pipe", "line"} = {"pipe"} \cup {"line"}
    OBVIOUS
  <2> QED
    BY <2>1, <2>2, FS_Union
<1>2. IsFiniteSet(Places)
  BY <1>1, RadioAssumption, FS_Product DEF Places
<1> QED
  BY <1>2, FS_Subset, FS_CardinalityType DEF Pending

(* The last of one or two lines.                                           *)
LEMMA LastLine ==
  ASSUME NEW a, NEW b
  PROVE  /\ <<a>> # << >> /\ <<a>>[Len(<<a>>)] = a /\ DOMAIN <<a>> = {1}
         /\ <<b, a>> # << >> /\ <<b, a>>[Len(<<b, a>>)] = a /\ DOMAIN <<b, a>> = {1, 2}
OBVIOUS

LEMMA PlaceKinds ==
  /\ \A x \in Places : x[1] \in Radios /\ x = <<x[1], x[2]>> /\ x[2] \in {"pipe", "line"}
  /\ \A r \in Radios : \A w \in {"pipe", "line"} :
       <<r, w>> \in Places /\ <<r, w>>[1] = r /\ <<r, w>>[2] = w
BY DEF Places

LEMMA MeterKnown == "r900" \in Types /\ Id \in Ids
<1>1. "r900" \in Types
  BY DEF Types
<1>2. Id \in {Meter(type) : type \in Types}
  BY <1>1 DEF Id
<1> DEFINE M == {Meter(type) : type \in Types}
           C == {{Headers(type)[i] : i \in DOMAIN Headers(type)} : type \in Types}
<1>3. Ids = (UNION C) \cup M
  BY DEF Ids
<1> HIDE DEF C
<1> QED
  BY <1>1, <1>2, <1>3

(* Nothing was heard of the meter and nothing waits for a row.             *)
LEMMA InitBInv == Init => BInv
<1> SUFFICES ASSUME Init PROVE BInv
  OBVIOUS
<1>1. "r900" \in Types /\ Id \in Ids
  BY MeterKnown
<1>2. /\ meters = [id \in Ids |-> Unseen] /\ heard = [type \in Types |-> Unseen]
      /\ \A r \in Radios : pipe[r] = << >> /\ pc[r] = "scan" /\ colIdx[r] = None
  BY DEF Init
<1>3. Pending = {}
  BY <1>2, PlaceKinds DEF Pending, Waiting
<1>4. meters[Id] = Unseen /\ heard["r900"] = Unseen
  BY <1>1, <1>2
<1>5. Unseen \in Counters /\ Unseen.bursts = 0 /\ Unseen.leak = 0
  BY DEF Unseen, Counters
<1>6. BurstsOfMeter
  BY <1>3, <1>4, <1>5, FS_EmptySet DEF BurstsOfMeter
<1>7. LeakOfMeter
  BY <1>3, <1>4, <1>5 DEF LeakOfMeter
<1>8. OwnTypes
  BY <1>2 DEF OwnTypes
<1> QED
  BY <1>2, <1>4, <1>5, <1>6, <1>7, <1>8 DEF BInv

(* Steps at which no message appears, moves or is counted.                 *)
LEMMA SamePending ==
  ASSUME BInv, UNCHANGED <<meters, heard>>, OwnTypes', Pending' = Pending,
         \A x \in Pending : RowAt(x)' = RowAt(x)
  PROVE  BInv'
<1>1. BurstsOfMeter'
  BY DEF BInv, BurstsOfMeter
<1>2. LeakOfMeter'
  BY DEF BInv, LeakOfMeter
<1> QED
  BY <1>1, <1>2 DEF BInv

LEMMA WorstOf ==
  ASSUME NEW seen \in Counters, NEW leak \in {0, 1}
  PROVE  /\ Worst(seen, leak) \in Counters
         /\ Worst(seen, leak).bursts = seen.bursts + 1
         /\ seen.leak <= Worst(seen, leak).leak /\ leak <= Worst(seen, leak).leak
         /\ Worst(seen, leak).leak \in {seen.leak, leak}
BY DEF Worst, Counters

(* What waits is a row of its radio.                                       *)
LEMMA PendingRows == ASSUME HInv PROVE \A x \in Pending : RowAt(x).leak \in {0, 1}
<1> SUFFICES ASSUME NEW x \in Pending PROVE RowAt(x).leak \in {0, 1}
  OBVIOUS
<1>1. x \in Places /\ Waiting(x)
  BY DEF Pending
<1>2. CASE x[2] = "pipe"
  <2>1. PICK w \in RowLines(x[1]) :
          pipe[x[1]] = <<w>> \/ \E h \in HeaderLines : pipe[x[1]] = <<h, w>>
    <3>1. x[1] \in Radios /\ pipe[x[1]] # << >>
      BY <1>1, <1>2, PlaceKinds DEF Waiting
    <3>2. PipeOK(pipe[x[1]], x[1])
      BY <3>1 DEF HInv, FlowTypeOK
    <3> QED
      BY <3>1, <3>2 DEF PipeOK
  <2>2. pipe[x[1]][Len(pipe[x[1]])] = w
    <3>1. CASE pipe[x[1]] = <<w>>
      BY <3>1, LastLine
    <3>2. ASSUME NEW h \in HeaderLines, pipe[x[1]] = <<h, w>>
          PROVE  pipe[x[1]][Len(pipe[x[1]])] = w
      BY <3>2, LastLine
    <3> QED
      BY <2>1, <3>1, <3>2
  <2> QED
    BY <1>2, <2>1, <2>2 DEF RowAt, RowLines
<1>3. CASE x[2] # "pipe"
  <2>1. line[x[1]] \in HeaderLines \cup RowLines(x[1]) /\ line[x[1]].kind = "row"
    BY <1>1, <1>3, PlaceKinds DEF HInv, FlowTypeOK, Waiting
  <2> QED
    BY <1>3, <2>1, LineKinds DEF RowAt, RowLines
<1> QED
  BY <1>2, <1>3

LEMMA EncodeCountsMeter == ASSUME HInv, BInv, NEW r \in Radios, Encode(r) PROVE BInv'
<1> DEFINE here == <<r, "pipe">>
<1>1. /\ UNCHANGED <<mode, pc, line, colIdx, meters>> /\ pipe[r] = << >>
  BY DEF Encode, stats
<1>2a. PICK type \in msgType(r) : \E leak \in Leaks(type) :
        /\ pipe' = [pipe EXCEPT ![r] = IF wrote[r] THEN <<message(r, type, leak)>>
                                       ELSE <<header(type), message(r, type, leak)>>]
        /\ heard' = [heard EXCEPT ![type] = Worst(@, leak)]
  BY DEF Encode
<1>2. PICK leak \in Leaks(type) :
        /\ pipe' = [pipe EXCEPT ![r] = IF wrote[r] THEN <<message(r, type, leak)>>
                                       ELSE <<header(type), message(r, type, leak)>>]
        /\ heard' = [heard EXCEPT ![type] = Worst(@, leak)]
  BY <1>2a
<1> DEFINE row == message(r, type, leak)
<1>3. /\ row.kind = "row" /\ row.type = type /\ row.leak = leak /\ leak \in {0, 1}
      /\ header(type).type = type /\ type \in Types
  BY DEF message, header, Leaks, msgType, Types
<1>4. /\ pipe'[r] = <<row>> \/ pipe'[r] = <<header(type), row>>
      /\ \A q \in Radios \ {r} : pipe'[q] = pipe[q]
  BY <1>2 DEF HInv, FlowTypeOK
<1> HIDE DEF row
<1>5. pipe'[r] # << >> /\ pipe'[r][Len(pipe'[r])] = row /\ \A i \in DOMAIN pipe'[r] : pipe'[r][i].type = type
  <2>1. CASE pipe'[r] = <<row>>
    BY <1>3, <2>1, LastLine
  <2>2. CASE pipe'[r] = <<header(type), row>>
    <3>1. \A i \in DOMAIN pipe'[r] : i = 1 \/ i = 2
      BY <2>2, LastLine
    <3>2. pipe'[r][1] = header(type) /\ pipe'[r][2] = row
      BY <2>2
    <3> QED
      BY <1>3, <2>2, <3>1, <3>2, LastLine
  <2> QED
    BY <1>4, <2>1, <2>2
<1>6. OwnTypes'
  <2>1. \A q \in Radios : msgType(q)' = msgType(q)
    BY <1>1 DEF msgType
  <2> QED
    BY <1>1, <1>4, <1>5, <2>1 DEF BInv, OwnTypes
<1>7. /\ here \in Places /\ here \notin Pending
      /\ Waiting(here)' /\ RowAt(here)' = row
      /\ \A x \in Places \ {here} : Waiting(x)' = Waiting(x) /\ RowAt(x)' = RowAt(x)
  <2>1. here \in Places /\ ~Waiting(here)
    BY <1>1, PlaceKinds DEF Waiting
  <2>2. Waiting(here)' /\ RowAt(here)' = row
    BY <1>5, PlaceKinds DEF Waiting, RowAt
  <2>3. ASSUME NEW x \in Places \ {here}
        PROVE  Waiting(x)' = Waiting(x) /\ RowAt(x)' = RowAt(x)
    <3>1. x[2] = "pipe" => x[1] \in Radios \ {r}
      BY PlaceKinds
    <3> QED
      BY <1>1, <1>4, <3>1, PlaceKinds DEF Waiting, RowAt
  <2> QED
    BY <2>1, <2>2, <2>3 DEF Pending
<1>8. CASE type = "r900"
  <2>1. Pending' = Pending \cup {here}
    BY <1>3, <1>7, <1>8 DEF Pending
  <2>2. Cardinality(Pending)' = Cardinality(Pending) + 1
    BY <1>7, <2>1, PendingFinite, FS_AddElement
  <2>3. heard'["r900"] = Worst(heard["r900"], leak) /\ DOMAIN heard' = Types
    BY <1>2, <1>3, <1>8 DEF BInv
  <2>4. meters'[Id] = meters[Id] /\ meters[Id] \in Counters /\ heard["r900"] \in Counters
    BY <1>1 DEF BInv
  <2>5. /\ heard'["r900"] \in Counters
        /\ heard'["r900"].bursts = heard["r900"].bursts + 1
        /\ heard["r900"].leak <= heard'["r900"].leak /\ leak <= heard'["r900"].leak
        /\ heard'["r900"].leak \in {heard["r900"].leak, leak}
    BY <1>3, <2>3, <2>4, WorstOf
  <2>6. BurstsOfMeter'
    <3>1. heard["r900"].bursts = meters[Id].bursts + Cardinality(Pending)
      BY DEF BInv, BurstsOfMeter
    <3>2. heard["r900"].bursts \in Nat /\ meters[Id].bursts \in Nat
      BY <2>4 DEF Counters
    <3> QED
      BY <2>2, <2>4, <2>5, <3>1, <3>2, PendingFinite DEF BurstsOfMeter
  <2>7. LeakOfMeter'
    <3>1. \A x \in Pending : RowAt(x)' = RowAt(x) /\ x # here
      BY <1>7 DEF Pending
    <3>2. RowAt(here)'.leak = leak
      BY <1>3, <1>7
    <3>3. \A x \in Pending : RowAt(x).leak <= heard["r900"].leak /\ RowAt(x).leak \in {0, 1}
      <4> QED
        BY PendingRows DEF BInv, LeakOfMeter
    <3>4. meters[Id].leak \in {0, 1} /\ heard["r900"].leak \in {0, 1} /\ heard'["r900"].leak \in {0, 1}
      BY <2>4, <2>5 DEF Counters
    <3>5. \A x \in Pending' : RowAt(x)'.leak <= heard'["r900"].leak
      BY <1>3, <2>1, <2>5, <3>1, <3>2, <3>3, <3>4
    <3>6. meters[Id].leak <= heard'["r900"].leak
      BY <2>5, <3>4 DEF BInv, LeakOfMeter
    <3>7. \/ heard'["r900"].leak = meters[Id].leak
          \/ \E x \in Pending' : RowAt(x)'.leak = heard'["r900"].leak
      BY <2>1, <2>5, <3>1, <3>2 DEF BInv, LeakOfMeter
    <3> QED
      BY <2>4, <3>5, <3>6, <3>7 DEF LeakOfMeter
  <2> QED
    BY <1>1, <1>6, <2>3, <2>4, <2>5, <2>6, <2>7 DEF BInv
<1>9. CASE type # "r900"
  <2>1. Pending' = Pending
    BY <1>3, <1>7, <1>9 DEF Pending
  <2>2. heard'["r900"] = heard["r900"] /\ DOMAIN heard' = Types
    BY <1>2, <1>9 DEF BInv
  <2>3. \A x \in Pending : RowAt(x)' = RowAt(x)
    BY <1>7 DEF Pending
  <2>4. BurstsOfMeter'
    BY <1>1, <2>1, <2>2 DEF BInv, BurstsOfMeter
  <2>5. LeakOfMeter'
    BY <1>1, <2>1, <2>2, <2>3 DEF BInv, LeakOfMeter
  <2> QED
    BY <1>1, <1>6, <2>2, <2>4, <2>5 DEF BInv
<1> QED
  BY <1>8, <1>9

(* A message that moves on is still waiting, and still the same.           *)
LEMMA MovedPending ==
  ASSUME BInv, UNCHANGED <<meters, heard>>, OwnTypes',
         NEW here \in Pending, NEW there, there \notin Pending,
         Pending' = (Pending \ {here}) \cup {there},
         \A x \in Pending \ {here} : RowAt(x)' = RowAt(x),
         RowAt(there)' = RowAt(here)
  PROVE  BInv'
<1>1. Cardinality(Pending') = Cardinality(Pending)
  <2>1. /\ IsFiniteSet(Pending \ {here})
        /\ Cardinality(Pending \ {here}) = Cardinality(Pending) - 1
    BY PendingFinite, FS_RemoveElement
  <2>2. Cardinality((Pending \ {here}) \cup {there}) = Cardinality(Pending \ {here}) + 1
    BY <2>1, FS_AddElement
  <2> QED
    BY <2>1, <2>2, PendingFinite
<1>2. BurstsOfMeter'
  BY <1>1 DEF BInv, BurstsOfMeter
<1>3. LeakOfMeter'
  <2>1. \A x \in Pending : \E y \in Pending' : RowAt(y)' = RowAt(x)
    OBVIOUS
  <2>2. \A y \in Pending' : \E x \in Pending : RowAt(y)' = RowAt(x)
    OBVIOUS
  <2> QED
    BY <2>1, <2>2 DEF BInv, LeakOfMeter
<1> QED
  BY <1>2, <1>3 DEF BInv

(* A row leaves the pipe for the goroutine's hands; a header in front of it*)
(* leaves it where it is.                                                  *)
LEMMA ScanKeepsMeters == ASSUME HInv, BInv, NEW r \in Radios, Scan(r) PROVE BInv'
<1> DEFINE here == <<r, "pipe">>
           there == <<r, "line">>
<1>1. /\ UNCHANGED <<mode, colIdx, meters, heard>> /\ pc[r] = "scan" /\ pipe[r] # << >>
      /\ pc'[r] = "stats" /\ line'[r] = Head(pipe[r]) /\ pipe'[r] = Tail(pipe[r])
      /\ \A q \in Radios \ {r} : pc'[q] = pc[q] /\ line'[q] = line[q] /\ pipe'[q] = pipe[q]
  BY DEF Scan, decoders, stats, HInv, FlowTypeOK
<1>2. PICK row \in RowLines(r) :
        pipe[r] = <<row>> \/ \E h \in HeaderLines : pipe[r] = <<h, row>>
  BY <1>1 DEF HInv, FlowTypeOK, PipeOK
<1>3. /\ here \in Places /\ there \in Places /\ here # there
      /\ \A x \in Places \ {here, there} :
           Waiting(x)' = Waiting(x) /\ RowAt(x)' = RowAt(x)
  <2>1. ASSUME NEW x \in Places \ {here, there} PROVE x[1] \in Radios \ {r}
    BY PlaceKinds
  <2> QED
    BY <1>1, <2>1, PlaceKinds DEF Waiting, RowAt
<1>4. /\ Waiting(here) /\ ~Waiting(there)
      /\ Waiting(there)' = (Head(pipe[r]).kind = "row") /\ RowAt(there)' = Head(pipe[r])
      /\ Waiting(here)' = (Tail(pipe[r]) # << >>)
  BY <1>1, PlaceKinds DEF Waiting, RowAt
<1>5. \A q \in Radios : msgType(q)' = msgType(q)
  BY <1>1 DEF msgType
<1>6. CASE pipe[r] = <<row>>
  <2>1. Head(pipe[r]) = row /\ Tail(pipe[r]) = << >> /\ row.kind = "row"
    BY <1>6, LineKinds
  <2>2. RowAt(here) = row
    BY <1>6, PlaceKinds, LastLine DEF RowAt
  <2>3. OwnTypes'
    <3>1. row.type \in msgType(r)
      BY <1>6, LastLine DEF BInv, OwnTypes
    <3>2. DOMAIN pipe'[r] = {}
      BY <1>1, <2>1
    <3> QED
      BY <1>1, <1>5, <2>1, <3>1, <3>2 DEF BInv, OwnTypes
  <2>4. CASE row.type = "r900"
    <3>1. here \in Pending /\ there \notin Pending
      BY <1>3, <1>4, <2>2, <2>4 DEF Pending
    <3>2. Pending' = (Pending \ {here}) \cup {there}
      BY <1>3, <1>4, <2>1, <2>4 DEF Pending
    <3>3. \A x \in Pending \ {here} : RowAt(x)' = RowAt(x)
      BY <1>3, <3>1 DEF Pending
    <3> QED
      BY <1>1, <1>4, <2>1, <2>2, <2>3, <3>1, <3>2, <3>3, MovedPending
  <2>5. CASE row.type # "r900"
    <3>1. here \notin Pending /\ there \notin Pending
      BY <1>4, <2>2, <2>5 DEF Pending
    <3>2. Pending' = Pending
      BY <1>3, <1>4, <2>1, <2>5, <3>1 DEF Pending
    <3>3. \A x \in Pending : RowAt(x)' = RowAt(x)
      BY <1>3, <3>1 DEF Pending
    <3> QED
      BY <1>1, <2>3, <3>2, <3>3, SamePending
  <2> QED
    BY <2>4, <2>5
<1>7. ASSUME NEW h \in HeaderLines, pipe[r] = <<h, row>> PROVE BInv'
  <2>1. Head(pipe[r]) = h /\ Tail(pipe[r]) = <<row>> /\ h.kind # "row"
    BY <1>7, LineKinds
  <2>2. RowAt(here) = row /\ RowAt(here)' = row /\ Waiting(here)'
    <3>1. RowAt(here) = row
      BY <1>7, PlaceKinds, LastLine DEF RowAt
    <3>2. pipe'[r] = <<row>>
      BY <1>1, <2>1
    <3>3. RowAt(here)' = pipe'[r][Len(pipe'[r])]
      BY PlaceKinds DEF RowAt
    <3>4. RowAt(here)' = row
      BY <3>2, <3>3, LastLine
    <3> QED
      BY <1>4, <2>1, <3>1, <3>4, LastLine
  <2>3. OwnTypes'
    <3>1. row.type \in msgType(r) /\ h.type \in msgType(r)
      <4>1. 1 \in DOMAIN pipe[r] /\ 2 \in DOMAIN pipe[r] /\ pipe[r][1] = h /\ pipe[r][2] = row
        BY <1>7, LastLine
      <4> QED
        BY <4>1 DEF BInv, OwnTypes
    <3>2. DOMAIN pipe'[r] = {1} /\ pipe'[r][1] = row
      <4>1. pipe'[r] = <<row>>
        BY <1>1, <2>1
      <4> QED
        BY <4>1, LastLine
    <3> QED
      BY <1>1, <1>5, <2>1, <3>1, <3>2 DEF BInv, OwnTypes
  <2>4. Pending' = Pending
    BY <1>3, <1>4, <2>1, <2>2 DEF Pending
  <2>5. \A x \in Pending : RowAt(x)' = RowAt(x)
    BY <1>3, <1>4, <2>2 DEF Pending
  <2> QED
    BY <1>1, <2>3, <2>4, <2>5, SamePending
<1> QED
  BY <1>2, <1>6, <1>7

(* Where the columns of each type's header stand.                          *)
LEMMA R900Columns ==
  LET names == Headers("r900") IN
    /\ DOMAIN names = 1 .. 10
    /\ {i \in DOMAIN names : names[i] = "ID"} = {1}
    /\ {i \in DOMAIN names : names[i] = "Leak"} = {7}
    /\ names[1] = "ID" /\ names[7] = "Leak"
BY DEF Headers

LEMMA ErtColumns ==
  ASSUME NEW type \in ErtTypes
  PROVE  /\ type # "r900" /\ Meter(type) # Id
         /\ \A i \in DOMAIN Headers(type) : Headers(type)[i] # Id
<1>1. type \in {"scm", "scm+", "idm"}
  BY ErtAssumption
<1>2. type # "r900" /\ Meter(type) # Id
  BY <1>1 DEF Meter, Id
<1>3. CASE type = "scm"
  BY <1>3 DEF Headers, Id, Meter
<1>4. CASE type = "scm+"
  BY <1>4 DEF Headers, Id, Meter
<1>5. CASE type = "idm"
  BY <1>5 DEF Headers, Id, Meter
<1> QED
  BY <1>1, <1>2, <1>3, <1>4, <1>5

(* statsLine finds the meter in a row of its own type, and the leak,       *)
LEMMA MeterFound ==
  ASSUME NEW r \in Radios, line[r].type = "r900", colIdx[r] = "r900"
  PROVE  idOf(r) = {Id} /\ leakOf(r) = line[r].leak
<1>1. \A i : Headers("r900")[i] = "ID" => Cell(line[r], i) = Id
  BY DEF Cell, Id
<1>2. \A i : Headers("r900")[i] = "Leak" => Cell(line[r], i) = "Leak"
  BY DEF Cell
<1>3. get(r, "ID") = {Cell(line[r], 1)}
  BY R900Columns DEF get
<1>4. get(r, "Leak") = {Cell(line[r], 7)}
  BY R900Columns DEF get
<1>5. Cell(line[r], 1) = Id /\ Cell(line[r], 7) = "Leak"
  BY <1>1, <1>2, R900Columns
<1>6. idOf(r) = {Id}
  BY <1>3, <1>5 DEF idOf
<1> QED
  BY <1>4, <1>5, <1>6 DEF leakOf

(* and never takes a row of another type for the meter's.                  *)
LEMMA OtherMeters ==
  ASSUME NEW r \in Radios, line[r].type \in ErtTypes
  PROVE  Id \notin idOf(r)
<1>1. ASSUME NEW i \in DOMAIN Headers(line[r].type) PROVE Cell(line[r], i) # Id
  BY ErtColumns DEF Cell
<1>2. \A name : Id \notin get(r, name)
  BY <1>1 DEF get
<1> QED
  BY <1>2 DEF idOf

LEMMA RecordCountsMeter == ASSUME HInv, BInv, NEW r \in Radios, record(r) PROVE BInv'
<1> DEFINE there == <<r, "line">>
<1>1. /\ UNCHANGED <<mode, pipe, line, heard>> /\ pc[r] = "stats"
      /\ pc'[r] = "next" /\ \A q \in Radios \ {r} : pc'[q] = pc[q]
      /\ colIdx' = IF line[r].kind = "header" THEN [colIdx EXCEPT ![r] = line[r].type] ELSE colIdx
      /\ DOMAIN colIdx = Radios
  BY DEF record, decoders, HInv, FlowTypeOK
<1>2. there \in Places /\ ~Waiting(there)'
      /\ Waiting(there) = (line[r].kind = "row") /\ RowAt(there) = line[r]
  BY <1>1, PlaceKinds DEF Waiting, RowAt
<1>3. ASSUME NEW x \in Places
      PROVE  RowAt(x)' = RowAt(x) /\ (x # there => Waiting(x)' = Waiting(x))
  <2>1. x # there => x[2] = "pipe" \/ x[1] \in Radios \ {r}
    BY PlaceKinds
  <2> QED
    BY <1>1, <2>1, PlaceKinds DEF Waiting, RowAt
<1>4. line[r].type \in msgType(r) /\ colIdx[r] \in msgType(r) \cup {None}
  BY <1>1 DEF BInv, OwnTypes
<1>5. OwnTypes'
  <2>1. \A q \in Radios : msgType(q)' = msgType(q)
    BY <1>1 DEF msgType
  <2>2. \A q \in Radios : colIdx'[q] \in msgType(q) \cup {None}
    BY <1>1, <1>4 DEF BInv, OwnTypes
  <2>3. \A q \in Radios : pc'[q] # "scan" => line'[q].type \in msgType(q)
    BY <1>1, <1>4 DEF BInv, OwnTypes
  <2> QED
    BY <1>1, <2>1, <2>2, <2>3 DEF BInv, OwnTypes
<1>6. line[r] \in HeaderLines \cup RowLines(r)
  BY <1>1 DEF HInv, FlowTypeOK
<1>7. CASE line[r].kind # "row"
  <2>1. UNCHANGED meters
    BY <1>7 DEF record
  <2>2. Pending' = Pending
    BY <1>2, <1>3, <1>7 DEF Pending
  <2> QED
    BY <1>1, <1>3, <1>5, <2>1, <2>2, SamePending DEF Pending
<1>8. CASE line[r].kind = "row"
  <2>1. colIdx[r] # None /\ line[r].leak \in {0, 1}
    <3>1. colIdx[r] # None
      BY <1>1, <1>8 DEF HInv, ColumnsFirst, HeaderNext
    <3>2. line[r] \in RowLines(r)
      BY <1>6, <1>8, LineKinds
    <3> QED
      BY <3>1, <3>2 DEF RowLines
  <2>2. meters' = [id \in Ids |->
                     IF id \in idOf(r) THEN Worst(meters[id], leakOf(r)) ELSE meters[id]]
    BY <1>8, <2>1 DEF record, CountMeter
  <2>3. Id \in Ids
    BY MeterKnown
  <2>4. CASE msgType(r) = ErtTypes
    <3>1. meters'[Id] = meters[Id] /\ DOMAIN meters' = Ids
      BY <1>4, <2>2, <2>3, <2>4, OtherMeters
    <3>2. Pending' = Pending
      <4>1. there \notin Pending
        BY <1>2, <1>4, <2>4, ErtColumns DEF Pending
      <4> QED
        BY <1>2, <1>3, <4>1 DEF Pending
    <3>3. \A x \in Pending : RowAt(x)' = RowAt(x)
      BY <1>3 DEF Pending
    <3>4. BurstsOfMeter' /\ LeakOfMeter'
      BY <1>1, <3>1, <3>2, <3>3 DEF BInv, BurstsOfMeter, LeakOfMeter
    <3> QED
      BY <1>1, <1>5, <3>1, <3>4 DEF BInv
  <2>5. CASE msgType(r) = {"r900"}
    <3>1. line[r].type = "r900" /\ colIdx[r] = "r900"
      BY <1>4, <2>1, <2>5
    <3>2. idOf(r) = {Id} /\ leakOf(r) = line[r].leak
      BY <3>1, MeterFound
    <3>3. meters'[Id] = Worst(meters[Id], line[r].leak) /\ DOMAIN meters' = Ids
      BY <2>2, <2>3, <3>2
    <3>4. meters[Id] \in Counters /\ heard["r900"] \in Counters
      BY DEF BInv
    <3>5. /\ meters'[Id] \in Counters
          /\ meters'[Id].bursts = meters[Id].bursts + 1
          /\ meters[Id].leak <= meters'[Id].leak /\ line[r].leak <= meters'[Id].leak
          /\ meters'[Id].leak \in {meters[Id].leak, line[r].leak}
      BY <2>1, <3>3, <3>4, WorstOf
    <3>6. there \in Pending /\ Pending' = Pending \ {there}
      BY <1>2, <1>3, <1>8, <3>1 DEF Pending
    <3>7. BurstsOfMeter'
      <4>1. Cardinality(Pending') = Cardinality(Pending) - 1
        BY <3>6, PendingFinite, FS_RemoveElement
      <4>2. heard["r900"].bursts = meters[Id].bursts + Cardinality(Pending)
        BY DEF BInv, BurstsOfMeter
      <4>3. heard["r900"].bursts \in Nat /\ meters[Id].bursts \in Nat
        BY <3>4 DEF Counters
      <4> QED
        BY <1>1, <3>5, <4>1, <4>2, <4>3, PendingFinite DEF BurstsOfMeter
    <3>8. LeakOfMeter'
      <4>1. /\ meters[Id].leak <= heard["r900"].leak /\ line[r].leak <= heard["r900"].leak
            /\ \A x \in Pending : RowAt(x).leak <= heard["r900"].leak
        BY <1>2, <3>6 DEF BInv, LeakOfMeter
      <4>2. /\ meters[Id].leak \in {0, 1} /\ heard["r900"].leak \in {0, 1}
            /\ meters'[Id].leak \in {0, 1}
        BY <3>4, <3>5 DEF Counters
      <4>3. meters'[Id].leak <= heard'["r900"].leak
        BY <1>1, <3>5, <4>1
      <4>4. \A x \in Pending' : x \in Pending /\ RowAt(x)' = RowAt(x)
        BY <1>3, <3>6 DEF Pending
      <4>5. \A x \in Pending' : RowAt(x)'.leak <= heard'["r900"].leak
        BY <1>1, <4>1, <4>4
      <4>6. \/ heard'["r900"].leak = meters'[Id].leak
            \/ \E x \in Pending' : RowAt(x)'.leak = heard'["r900"].leak
        <5>1. CASE heard["r900"].leak = meters[Id].leak
          BY <1>1, <2>1, <3>5, <4>1, <4>2, <5>1
        <5>2. ASSUME NEW x \in Pending, RowAt(x).leak = heard["r900"].leak
              PROVE  \/ heard'["r900"].leak = meters'[Id].leak
                     \/ \E y \in Pending' : RowAt(y)'.leak = heard'["r900"].leak
          <6>1. CASE x = there
            BY <1>1, <1>2, <2>1, <3>5, <4>2, <4>3, <5>2, <6>1
          <6>2. CASE x # there
            BY <1>1, <3>6, <4>4, <5>2, <6>2
          <6> QED
            BY <6>1, <6>2
        <5> QED
          BY <5>1, <5>2 DEF BInv, LeakOfMeter
      <4> QED
        BY <4>3, <4>5, <4>6 DEF LeakOfMeter
    <3> QED
      BY <1>1, <1>5, <3>3, <3>4, <3>5, <3>7, <3>8 DEF BInv
  <2> QED
    BY <2>4, <2>5 DEF msgType
<1> QED
  BY <1>7, <1>8

(* Nothing else moves a message on its way to statsLine.                   *)
LEMMA OthersKeepMeters ==
  ASSUME HInv, BInv,
         \/ Tick \/ handleSentence \/ UNCHANGED vars
         \/ \E r \in Radios : Restart(r) \/ handleLine(r) \/ writeLine(r)
  PROVE  BInv'
<1>1. UNCHANGED <<mode, pipe, colIdx, meters, heard>>
  BY DEF Tick, handleSentence, HearGGA, StoreFix, HearRMC, vars, decoders, stats,
         Restart, handleLine, writeLine
<1>2. ASSUME NEW q \in Radios
      PROVE  /\ pc'[q] = "stats" <=> pc[q] = "stats"
             /\ pc'[q] # "scan" => pc[q] # "scan" /\ line'[q] = line[q]
  <2>1. CASE UNCHANGED <<pc, line>>
    BY <2>1
  <2>2. ASSUME NEW r \in Radios, handleLine(r) \/ writeLine(r)
        PROVE  /\ pc'[q] = "stats" <=> pc[q] = "stats"
               /\ pc'[q] # "scan" => pc[q] # "scan" /\ line'[q] = line[q]
    BY <2>2 DEF handleLine, writeLine, HInv, FlowTypeOK
  <2>3. CASE Tick \/ handleSentence \/ UNCHANGED vars \/ \E r \in Radios : Restart(r)
    BY <2>1, <2>3 DEF Tick, handleSentence, HearGGA, StoreFix, HearRMC, vars, Restart
  <2> QED
    BY <2>2, <2>3
<1>3. OwnTypes'
  <2>1. \A q \in Radios : msgType(q)' = msgType(q)
    BY <1>1 DEF msgType
  <2> QED
    BY <1>1, <1>2, <2>1 DEF BInv, OwnTypes
<1>4. ASSUME NEW x \in Places
      PROVE  /\ Waiting(x)' = Waiting(x)
             /\ Waiting(x) => RowAt(x)' = RowAt(x)
  BY <1>1, <1>2, PlaceKinds DEF Waiting, RowAt
<1>5. Pending' = Pending /\ \A x \in Pending : RowAt(x)' = RowAt(x)
  BY <1>4 DEF Pending
<1> QED
  BY <1>1, <1>3, <1>5, SamePending

LEMMA NextBInv == HInv /\ BInv /\ [Next]_vars => BInv'
<1> SUFFICES ASSUME HInv, BInv, [Next]_vars PROVE BInv'
  OBVIOUS
<1>1. ASSUME NEW r \in Radios, Encode(r) \/ Scan(r) \/ record(r) PROVE BInv'
  BY <1>1, EncodeCountsMeter, ScanKeepsMeters, RecordCountsMeter
<1> QED
  BY <1>1, OthersKeepMeters DEF Next, Goroutine

THEOREM MeterInvariance == Spec => []BInv
BY InitHInv, NextHInv, InitBInv, NextBInv, PTL DEF Spec

(* When all lines are handled, the dashboard knows the meter of the type   *)
(* that is decoded alone with every burst any radio heard, and lists it as *)
(* leaking, at the worst level, if one of them said so.                    *)
THEOREM MetersCounted == Spec => []CountedByMeter
<1>1. HInv /\ BInv => CountedByMeter
  <2> SUFFICES ASSUME HInv, BInv, Quiet, NEW type \in Types \ ErtTypes
               PROVE  /\ meters[Meter(type)] = heard[type]
                      /\ heard[type].leak > 0 => Meter(type) \in Leaking
    BY DEF CountedByMeter
  <2>1. type = "r900" /\ Meter(type) = Id /\ Id \in Ids
    BY MeterKnown DEF Types, Id
  <2>2. Pending = {}
    BY PlaceKinds DEF Quiet, Pending, Waiting
  <2>3. meters[Id] \in Counters /\ heard["r900"] \in Counters
    BY DEF BInv
  <2>4. heard["r900"].bursts = meters[Id].bursts /\ heard["r900"].leak = meters[Id].leak
    <3>1. Cardinality(Pending) = 0
      BY <2>2, FS_EmptySet
    <3> QED
      BY <2>2, <2>3, <3>1 DEF BInv, BurstsOfMeter, LeakOfMeter, Counters
  <2>5. meters[Id] = heard["r900"]
    BY <2>3, <2>4 DEF Counters
  <2> QED
    BY <2>1, <2>5 DEF Leaking
<1> QED
  BY <1>1, InitHInv, NextHInv, MeterInvariance, PTL DEF Spec
=============================================================================
