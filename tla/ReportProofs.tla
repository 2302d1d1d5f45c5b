---------------------------- MODULE ReportProofs ----------------------------
(***************************************************************************)
(* Nothing is reported twice or missed, and every report's samples are in  *)
(* the sample file, for any meters, command lines and lengths.             *)
(***************************************************************************)
EXTENDS Report, SequenceTheorems, TLAPS

(* What is found in a block is among what was found; a digest map holds    *)
(* messages of the block it was filled in.                                 *)
Found ==
  /\ pc \in {"select", "range", "after", "single", "failed", "fatal"}
  /\ inbox \subseteq recent /\ straddling \subseteq recent /\ recent \subseteq Message
  /\ sent \in [Message -> Nat] /\ out \in [Message -> Nat]
  /\ pc \in {"range", "after"} => next \subseteq recent
  /\ pc = "select" => prev \subseteq recent

(* A transmission that still may be reported was not, or is in the map     *)
(* that will keep it from being so again.                                  *)
Unreported(m) == out[m] < sent[m]
Once ==
  \A m \in Message :
    /\ out[m] <= sent[m]
    /\ pc = "range" /\ m \in inbox => m \in prev \/ Unreported(m)
    /\ pc \in {"range", "after"} /\ m \in straddling => m \in next \/ Unreported(m)
    /\ pc = "select" /\ m \in straddling => m \in prev \/ Unreported(m)

(* Without -unique and -single: a wanted message is unreported exactly     *)
(* while it waits in a block whose predecessor did not have it.            *)
Plain == ~flags.unique /\ ~flags.single
Complete ==
  Plain =>
    \A m \in Message : PassesIdAndType(m) =>
      /\ pc \in {"select", "after"} => out[m] = sent[m]
      /\ pc = "range" => out[m] = IF m \in inbox \ prev THEN sent[m] - 1 ELSE sent[m]
      /\ pc = "range" /\ m \in straddling => m \in next \cup inbox
      /\ pc = "after" /\ m \in straddling => m \in next
      /\ pc = "select" /\ m \in straddling => m \in prev

DInv == Found /\ Once /\ Complete

LEMMA InitDInv == Init => DInv
  BY DEF Init, DInv, Found, Once, Complete, Unreported

LEMMA ReceiveDInv ==
  ASSUME DInv, NEW fresh \in SUBSET Message, NEW again \in SUBSET fresh, Receive(fresh, again)
  PROVE  DInv'
  <1> USE DEF DInv, Receive, air, log
  <1>1. Found'
    BY DEF Found
  (* A meter that transmits was silent, so its message is in no map.       *)
  <1>2. \A m \in fresh : m \notin recent /\ m \notin prev /\ m \notin straddling
    BY DEF Fresh, Found
  <1>3. \A m \in Message : /\ out'[m] = out[m]
                           /\ sent'[m] = IF m \in fresh THEN sent[m] + 1 ELSE sent[m]
    BY DEF Found
  <1>4. Once'
    BY <1>1, <1>2, <1>3 DEF Found, Once, Unreported
  <1>5. Complete'
    <2> SUFFICES ASSUME Plain', NEW m \in Message, PassesIdAndType(m)'
                 PROVE  /\ out'[m] = IF m \in inbox' \ prev' THEN sent'[m] - 1 ELSE sent'[m]
                        /\ m \in straddling' => m \in inbox'
      BY DEF Complete
    <2>1. out[m] = sent[m] /\ (m \in straddling => m \in prev)
      BY DEF Complete, Plain, PassesIdAndType
    <2> QED BY <1>2, <1>3, <2>1 DEF Found
  <1> QED BY <1>1, <1>4, <1>5

LEMMA HandleDInv ==
  ASSUME DInv, NEW m \in inbox, Reject(m) \/ Skip(m) \/ Report(m) \/ EncodeFails(m)
  PROVE  DInv'
  <1> USE DEF DInv, air, log
  <1>1. CASE Reject(m)
    <2>1. Found' /\ Once'
      BY <1>1 DEF Reject, Found, Once, Unreported
    <2>2. Complete'
      BY <1>1 DEF Reject, Found, Complete, Plain, Match, PassesIdAndType
    <2> QED BY <2>1, <2>2
  <1>2. CASE Skip(m)
    <2>1. Found' /\ Once'
      BY <1>2 DEF Skip, Found, Once, Unreported
    <2>2. Complete'
      BY <1>2 DEF Skip, Found, Complete, Plain, PassesIdAndType
    <2> QED BY <2>1, <2>2
  <1>3. CASE Report(m)
    <2>1. m \in Message /\ \A n \in Message : out'[n] = IF n = m THEN out[n] + 1 ELSE out[n]
      BY <1>3 DEF Report, Found
    <2>2. Found'
      BY <1>3 DEF Report, Found
    <2>3. Unreported(m)
      BY <1>3, <2>1 DEF Report, Once
    <2>4. Once'
      BY <1>3, <2>1, <2>3 DEF Report, Found, Once, Unreported
    <2>5. Complete'
      <3> SUFFICES ASSUME Plain', NEW n \in Message, PassesIdAndType(n)'
                   PROVE  /\ out'[n] = IF n \in inbox' \ prev' THEN sent'[n] - 1 ELSE sent'[n]
                          /\ n \in straddling' => n \in next' \cup inbox'
        BY <1>3 DEF Report, Complete
      <3>1. inbox' = inbox \ {m} /\ ids' = ids /\ UNCHANGED <<flags, prev, sent, straddling>>
        BY <1>3 DEF Report, Plain, TickedOff
      <3>2. /\ out[n] = IF n \in inbox \ prev THEN sent[n] - 1 ELSE sent[n]
            /\ n \in straddling => n \in next \cup inbox
        BY <1>3, <3>1 DEF Report, Complete, Plain, PassesIdAndType
      <3> QED BY <1>3, <2>1, <3>1, <3>2 DEF Report, Found
    <2> QED BY <2>2, <2>4, <2>5
  <1>4. CASE EncodeFails(m)
    BY <1>4 DEF EncodeFails, Found, Once, Complete, Unreported
  <1> QED BY <1>1, <1>2, <1>3, <1>4

LEMMA EndDInv ==
  ASSUME DInv, Write \/ NextBlock \/ UNCHANGED vars
  PROVE  DInv'
  <1> USE DEF DInv, Found, Once, Unreported, air, log
  <1>1. CASE Write
    BY <1>1 DEF Write, Complete, Plain, PassesIdAndType
  <1>2. CASE NextBlock
    BY <1>2 DEF NextBlock, Complete, Plain, PassesIdAndType
  <1>3. CASE UNCHANGED vars
    BY <1>3 DEF vars, Complete, Plain, PassesIdAndType
  <1> QED BY <1>1, <1>2, <1>3

LEMMA NextDInv == DInv /\ [Next]_vars => DInv'
  BY ReceiveDInv, HandleDInv, EndDInv DEF Next, Stopped

(* A transmission is reported at most once, whether one or two blocks had  *)
(* it, whatever the filters let pass the second time (main.go:255-311).    *)
THEOREM NoneReportedTwice == Spec => []ReportedOnce
  <1>1. DInv => ReportedOnce
    BY DEF DInv, Once, ReportedOnce
  <1> QED BY <1>1, InitDInv, NextDInv, PTL DEF Spec

(* Without -unique and -single each wanted transmission is reported: a     *)
(* digest is forgotten before its meter can transmit again.                *)
THEOREM AllReported == Spec => []NoneMissed
  <1>1. DInv => NoneMissed
    BY DEF DInv, Complete, Plain, NoneMissed
  <1> QED BY <1>1, InitDInv, NextDInv, PTL DEF Spec
-----------------------------------------------------------------------------
(* The sample buffer holds everything received, or more than the decoder's *)
(* buffer, and a whole block of it is new.                                 *)
Received == blocks * BlockSize
Buffered ==
  /\ buf <= BufferLength + BlockSize
  /\ buf <= Received
  /\ buf = Received \/ buf > BufferLength
  /\ pc # "select" => buf >= 1

TInv == TypeOK /\ Buffered

LEMMA Positions ==
  ASSUME NEW b \in 0 .. MaxBlocks
  PROVE  /\ b * BlockSize \in Nat /\ (b + 1) * BlockSize = b * BlockSize + BlockSize
         /\ b * BlockSize <= MaxBlocks * BlockSize
         /\ BufferLength \in Nat /\ MaxBlocks * BlockSize \in Nat
  <1>1. b \in Nat /\ MaxBlocks \in Nat /\ BlockSize \in Nat /\ b <= MaxBlocks
    BY LengthAssumption
  <1>2. BufferLength \in Nat
    BY LengthAssumption DEF BufferLength
  <1>3. \A x, y, z \in Nat : /\ x * z \in Nat /\ (x + 1) * z = x * z + z
                            /\ x <= y => x * z <= y * z
    OBVIOUS
  <1> QED BY <1>1, <1>2, <1>3

LEMMA InitTInv == Init => TInv
  <1>1. 0 * BlockSize = 0 /\ BufferLength \in Nat /\ BlockSize \in Nat /\ MaxBlocks \in Nat
    BY LengthAssumption DEF BufferLength
  <1> SUFFICES ASSUME Init PROVE TInv
    OBVIOUS
  <1>2. Buffered
    BY <1>1 DEF Init, Buffered, Received
  <1>3. ids \subseteq Ids
    BY FlagAssumption DEF Init
  <1>4. file \in Seq(0 .. MaxBlocks * BlockSize - 1)
    BY DEF Init
  <1>5. /\ sent \in [Message -> Nat] /\ out \in [Message -> Nat]
        /\ lastSent \in [Types \X Ids -> Sums \cup {None}]
        /\ lastOut \in [Types \X Ids -> Sums \cup {None}]
        /\ uf \in [Ids -> Sums \cup {None}]
    BY DEF Init
  <1>6. blocks \in 0 .. MaxBlocks /\ buf \in 0 .. BufferLength + BlockSize
    BY <1>1 DEF Init
  <1> QED BY <1>2, <1>3, <1>4, <1>5, <1>6 DEF Init, TInv, TypeOK

LEMMA ReceiveTInv ==
  ASSUME TInv, NEW fresh \in SUBSET Message, NEW again \in SUBSET fresh, Receive(fresh, again)
  PROVE  TInv'
  <1> USE DEF TInv, TypeOK, Receive, air, log
  <1>1. /\ blocks \in 0 .. MaxBlocks /\ blocks' = blocks + 1 /\ blocks' \in 0 .. MaxBlocks
        /\ BlockSize \in Nat /\ BlockSize >= 1
    BY LengthAssumption
  <1>2. /\ Received \in Nat /\ Received' = Received + BlockSize /\ BufferLength \in Nat
    BY <1>1, Positions DEF Received
  <1>3. buf' \in 0 .. BufferLength + BlockSize /\ Buffered'
    BY <1>1, <1>2 DEF Buffered, Appended
  <1>4. lastSent' \in [Types \X Ids -> Sums \cup {None}]
    <2> SUFFICES ASSUME NEW k \in Types \X Ids PROVE lastSent'[k] \in Sums \cup {None}
      OBVIOUS
    <2> DEFINE now == {m \in fresh : <<m.type, m.id>> = k}
    <2>1. lastSent'[k] = IF now = {} THEN lastSent[k] ELSE (CHOOSE m \in now : TRUE).sum
      OBVIOUS
    <2>2. CASE now = {}
      BY <2>1, <2>2
    <2>3. CASE now # {}
      <3>1. (CHOOSE m \in now : TRUE) \in Message
        BY <2>3
      <3> QED BY <2>1, <2>3, <3>1 DEF Message
    <2> QED BY <2>2, <2>3
  <1>5. sent' \in [Message -> Nat]
    OBVIOUS
  <1> QED BY <1>1, <1>3, <1>4, <1>5

LEMMA HandleTInv ==
  ASSUME TInv, NEW m \in inbox, Reject(m) \/ Skip(m) \/ Report(m) \/ EncodeFails(m)
  PROVE  TInv'
  <1> USE DEF TInv, air, log
  <1>1. /\ m \in Message /\ m.id \in Ids /\ m.type \in Types /\ m.sum \in Sums
    BY DEF TypeOK, Message
  <1>2. Buffered'
    BY DEF Reject, Skip, Report, EncodeFails, Buffered, Received
  <1>3. CASE Reject(m)
    BY <1>2, <1>3 DEF Reject, TypeOK
  <1>4. CASE Skip(m)
    BY <1>1, <1>2, <1>4 DEF Skip, Remember, TypeOK
  <1>5. CASE Report(m)
    <2>1. /\ uf' \in [Ids -> Sums \cup {None}] /\ lastOut' \in [Types \X Ids -> Sums \cup {None}]
          /\ out' \in [Message -> Nat]
      BY <1>1, <1>5 DEF Report, Remember, TypeOK
    <2>2. inbox' \subseteq Message /\ ids' \subseteq Ids /\ pktFound' = TRUE /\ next' \subseteq Message
      BY <1>1, <1>5 DEF Report, TickedOff, TypeOK
    <2> QED BY <1>2, <1>5, <2>1, <2>2 DEF Report, TypeOK
  <1>6. CASE EncodeFails(m)
    BY <1>1, <1>2, <1>6 DEF EncodeFails, Remember, TypeOK
  <1> QED BY <1>3, <1>4, <1>5, <1>6

LEMMA EndTInv ==
  ASSUME TInv, Write \/ NextBlock \/ UNCHANGED vars
  PROVE  TInv'
  <1> USE DEF TInv, air, log
  <1>1. CASE Write
    <2>1. Buffered'
      BY <1>1 DEF Write, Buffered, Received
    <2>2. file' \in Seq(0 .. MaxBlocks * BlockSize - 1)
      <3> DEFINE block == [i \in 1 .. buf |-> Received - buf + i - 1]
                 S == 0 .. MaxBlocks * BlockSize - 1
      <3>1. /\ Received \in Nat /\ buf \in Nat /\ buf <= Received
            /\ Received <= MaxBlocks * BlockSize /\ MaxBlocks * BlockSize \in Nat
        BY Positions DEF TypeOK, Buffered, Received
      <3>2. block \in Seq(S)
        BY <3>1
      <3>3. file' \in {file, file \o block}
        BY <1>1 DEF Write, Received
      <3>4. file \in Seq(S)
        BY DEF TypeOK
      <3> HIDE DEF S, block
      <3>5. file \o block \in Seq(S)
        BY <3>2, <3>4
      <3> QED BY <3>3, <3>4, <3>5 DEF S
    <2> QED BY <1>1, <2>1, <2>2 DEF Write, TypeOK
  <1>2. CASE NextBlock
    BY <1>2 DEF NextBlock, TypeOK, Buffered, Received
  <1>3. CASE UNCHANGED vars
    BY <1>3 DEF vars, TypeOK, Buffered, Received
  <1> QED BY <1>1, <1>2, <1>3

LEMMA NextTInv == TInv /\ [Next]_vars => TInv'
  BY ReceiveTInv, HandleTInv, EndTInv DEF Next, Stopped

(* Type correctness.                                                       *)
THEOREM TypeCorrect == Spec => []TypeOK
  <1>1. TInv => TypeOK
    BY DEF TInv
  <1> QED BY <1>1, InitTInv, NextTInv, PTL DEF Spec
-----------------------------------------------------------------------------
(* A report's samples are in the file, or are those of the buffer that is  *)
(* written next.                                                           *)
Extent == [offset : Nat, length : Nat \ {0}, from : Nat, to : Nat]
Stored(e) ==
  /\ e.offset + e.length <= Len(file)
  /\ \A i \in 1 .. e.length : file[e.offset + i] = e.to - e.length + i - 1
Pending(e) ==
  /\ pc \in {"range", "failed", "fatal"} /\ pktFound
  /\ e.offset = Len(file) /\ e.length = buf /\ e.to = Received
Extents ==
  \A e \in extents :
    /\ e \in Extent
    /\ e.to - e.length <= e.from
    /\ Stored(e) \/ Pending(e)

LEMMA HandleExtents ==
  ASSUME TInv, Extents, NEW m \in inbox, Reject(m) \/ Skip(m) \/ Report(m) \/ EncodeFails(m)
  PROVE  Extents'
  <1> USE DEF air, log
  <1>1. CASE Report(m)
    <2>1. PICK e : e = [offset |-> Len(file), length |-> buf,
                        from |-> IF Received > BufferLength THEN Received - BufferLength ELSE 0,
                        to |-> Received]
      OBVIOUS
    <2>2. /\ extents' = extents \cup {e} /\ pktFound' = TRUE
          /\ UNCHANGED <<pc, file, buf, blocks>> /\ pc = "range"
      BY <1>1, <2>1 DEF Report, Received
    <2>3. /\ Received \in Nat /\ buf \in Nat /\ buf >= 1 /\ BufferLength \in Nat
          /\ Len(file) \in Nat /\ (buf = Received \/ (buf > BufferLength /\ buf <= Received))
      BY <2>2, Positions DEF TInv, TypeOK, Buffered, Received
    <2>4. e \in Extent /\ e.to - e.length <= e.from
      BY <2>1, <2>3 DEF Extent
    <2>5. Pending(e)'
      BY <2>1, <2>2 DEF Pending, Received
    <2>6. ASSUME NEW o \in extents
          PROVE  o \in Extent /\ o.to - o.length <= o.from /\ (Stored(o) \/ Pending(o))'
      BY <2>2 DEF Extents, Stored, Pending, Received
    <2> QED BY <2>2, <2>4, <2>5, <2>6 DEF Extents
  <1>2. CASE Reject(m) \/ Skip(m) \/ EncodeFails(m)
    <2>1. /\ UNCHANGED <<extents, file, buf, blocks, pktFound>>
          /\ pc = "range" /\ pc' \in {"range", "failed"}
      BY <1>2 DEF Reject, Skip, EncodeFails
    <2> QED BY <2>1 DEF Extents, Stored, Pending, Received
  <1> QED BY <1>1, <1>2

LEMMA WriteExtents ==
  ASSUME TInv, Extents, Write
  PROVE  Extents'
  <1> USE DEF air, log
  <1>1. CASE pc' = "fatal" \/ ~pktFound
    <2>1. /\ UNCHANGED <<extents, file, buf, blocks, pktFound>>
          /\ pktFound => pc' = "fatal"
      BY <1>1 DEF Write
    <2>2. ASSUME NEW e \in extents PROVE (Stored(e) \/ Pending(e))'
      BY <2>1 DEF Extents, Stored, Pending, Received
    <2> QED BY <2>1, <2>2 DEF Extents
  <1>2. CASE pc' = "after" /\ pktFound
    <2> DEFINE block == [i \in 1 .. buf |-> Received - buf + i - 1]
               S == 0 .. MaxBlocks * BlockSize - 1
    <2>1. file' = file \o block /\ UNCHANGED <<extents, buf, blocks>>
      BY <1>2 DEF Write, Received
    <2>2. buf \in Nat /\ Received \in Nat /\ file \in Seq(S) /\ Len(file) \in Nat
      BY Positions DEF TInv, TypeOK, Received
    <2>3. block \in Seq(Int) /\ Len(block) = buf /\ \A i \in 1 .. buf : block[i] = Received - buf + i - 1
      BY <2>2
    <2> HIDE DEF block, S
    <2>4. /\ Len(file') = Len(file) + buf
          /\ \A i \in 1 .. Len(file) : file'[i] = file[i]
          /\ \A i \in 1 .. buf : file'[Len(file) + i] = Received - buf + i - 1
      <3> S \subseteq Int
        BY DEF S
      <3>1. file \in Seq(Int)
        BY <2>2, SeqMonotonic
      <3>2. /\ Len(file \o block) = Len(file) + buf
            /\ \A i \in 1 .. Len(file) + buf :
                 (file \o block)[i] = IF i <= Len(file) THEN file[i] ELSE block[i - Len(file)]
        BY <2>3, <3>1, ConcatProperties
      <3> QED BY <2>1, <2>2, <2>3, <3>2
    <2>5. ASSUME NEW e \in extents PROVE Stored(e)'
      <3>1. e \in Extent
        BY DEF Extents
      <3>2. CASE Stored(e)
        <4>1. /\ e.offset \in Nat /\ e.length \in Nat /\ e.offset + e.length <= Len(file)
              /\ \A i \in 1 .. e.length : e.offset + i \in 1 .. Len(file)
          BY <2>2, <3>1, <3>2 DEF Stored, Extent
        <4>2. \A i \in 1 .. e.length : file'[e.offset + i] = e.to - e.length + i - 1
          BY <2>4, <3>2, <4>1 DEF Stored
        <4> QED BY <2>2, <2>4, <4>1, <4>2 DEF Stored
      <3>3. CASE Pending(e)
        BY <2>2, <2>4, <3>1, <3>3 DEF Stored, Pending, Extent
      <3> QED BY <3>2, <3>3 DEF Extents
    <2> QED BY <2>1, <2>5 DEF Extents
  <1> QED BY <1>1, <1>2 DEF Write

LEMMA NextExtents == TInv /\ Extents /\ [Next]_vars => Extents'
  <1> SUFFICES ASSUME TInv, Extents, [Next]_vars PROVE Extents'
    OBVIOUS
  <1>1. CASE \E fresh \in SUBSET Message : \E again \in SUBSET fresh : Receive(fresh, again)
    <2>1. UNCHANGED <<extents, file>> /\ pc = "select"
      BY <1>1 DEF Receive, log
    <2> QED BY <2>1 DEF Extents, Stored, Pending
  <1>2. CASE NextBlock
    <2>1. UNCHANGED <<extents, file>> /\ pc = "after"
      BY <1>2 DEF NextBlock, log
    <2> QED BY <2>1 DEF Extents, Stored, Pending
  <1>3. CASE UNCHANGED vars
    BY <1>3 DEF vars, log, Extents, Stored, Pending, Received
  <1> QED BY <1>1, <1>2, <1>3, HandleExtents, WriteExtents DEF Next, Stopped

(* Offset and Length of each report name samples that were written, all    *)
(* those the decoder had, in a row, for any length of blocks and packets.  *)
THEOREM ReportsBacked == Spec => []SamplesBacked
  <1>1. Init => Extents
    BY DEF Init, Extents
  <1>2. TInv /\ Extents => SamplesBacked
    <2> SUFFICES ASSUME TInv, Extents, pc \in {"after", "select", "single"}, NEW e \in extents
                 PROVE  /\ e.offset + e.length <= Len(file)
                        /\ \A i \in e.offset + 1 .. e.offset + e.length - 1 : file[i + 1] = file[i] + 1
                        /\ file[e.offset + 1] <= e.from
                        /\ file[e.offset + e.length] = e.to - 1
      BY DEF SamplesBacked, TInv, Buffered
    <2>1. e \in Extent /\ Stored(e) /\ e.to - e.length <= e.from
      BY DEF Extents, Pending
    <2>2. /\ e.offset \in Nat /\ e.length \in Nat /\ e.length >= 1
          /\ e.from \in Nat /\ e.to \in Nat
      BY <2>1 DEF Extent
    <2>3. \A j \in 1 .. e.length : file[e.offset + j] = e.to - e.length + j - 1
      BY <2>1 DEF Stored
    <2>4. ASSUME NEW i \in e.offset + 1 .. e.offset + e.length - 1
          PROVE  file[i + 1] = file[i] + 1
      <3>1. /\ i - e.offset \in 1 .. e.length /\ i - e.offset + 1 \in 1 .. e.length
            /\ e.offset + (i - e.offset) = i /\ e.offset + (i - e.offset + 1) = i + 1
        BY <2>2
      <3>2. /\ file[i] = e.to - e.length + (i - e.offset) - 1
            /\ file[i + 1] = e.to - e.length + (i - e.offset + 1) - 1
        BY <2>3, <3>1
      <3> QED BY <2>2, <3>2
    <2>5. file[e.offset + 1] = e.to - e.length /\ file[e.offset + e.length] = e.to - 1
      BY <2>2, <2>3
    <2> QED BY <2>1, <2>4, <2>5 DEF Stored
  <1> QED BY <1>1, <1>2, InitTInv, NextTInv, NextExtents, PTL DEF Spec
-----------------------------------------------------------------------------
(* -single: which meters are still to be reported.                         *)
Of(id) == {m \in Message : m.id = id}
Unspent(S) == \A m \in S : out[m] = 0
Spent(S) == \E m \in S : out[m] = 1 /\ \A n \in S : n # m => out[n] = 0
SInv ==
  flags.single =>
    /\ flags.ids = {} =>
         /\ ids = {}
         /\ \/ Unspent(Message) /\ ~pktFound /\ pc # "single"
            \/ /\ Spent(Message)
               /\ \/ pc = "range" /\ inbox = {} /\ pktFound
                  \/ pc = "after" /\ pktFound
                  \/ pc \in {"single", "fatal"}
    /\ flags.ids # {} =>
         /\ \A id \in flags.ids : IF id \in ids THEN Unspent(Of(id)) ELSE Spent(Of(id))
         /\ pc = "single" => ids = {}

LEMMA InitSInv == Init => SInv
  BY DEF Init, SInv, Unspent, Of

LEMMA ReportSInv ==
  ASSUME TInv, SInv, NEW m \in inbox, Report(m)
  PROVE  SInv'
  <1> SUFFICES ASSUME flags.single PROVE SInv'
    BY DEF Report, SInv
  <1> USE DEF Report
  <1>1. /\ m \in Message /\ flags' = flags /\ pc = "range" /\ pc' = "range" /\ pktFound' = TRUE
        /\ \A n \in Message : out'[n] = IF n = m THEN out[n] + 1 ELSE out[n]
        /\ \A n \in Message : out[n] \in Nat
    BY DEF TInv, TypeOK
  <1>2. CASE flags.ids = {}
    <2>1. Unspent(Message) /\ ids = {}
      BY <1>1, <1>2 DEF SInv
    <2>2. inbox' = {} /\ ids' = {}
      BY <2>1
    <2>3. Spent(Message)'
      BY <1>1, <2>1 DEF Unspent, Spent
    <2> QED BY <1>1, <1>2, <2>2, <2>3 DEF SInv
  <1>3. CASE flags.ids # {}
    <2>1. m.id \in ids /\ ids' = ids \ {m.id}
      BY <1>3 DEF Match, PassesIdAndType, TickedOff
    <2>2. ASSUME NEW id \in flags.ids
          PROVE  IF id \in ids' THEN Unspent(Of(id))' ELSE Spent(Of(id))'
      <3>1. CASE id = m.id
        <4>1. Unspent(Of(id)) /\ m \in Of(id) /\ Of(id) \subseteq Message
          BY <1>1, <1>3, <2>1, <3>1 DEF SInv, Of
        <4>2. Spent(Of(id))'
          BY <1>1, <4>1 DEF Unspent, Spent, Of
        <4> QED BY <2>1, <3>1, <4>2
      <3>2. CASE id # m.id
        <4>1. \A n \in Of(id) : out'[n] = out[n]
          BY <1>1, <3>2 DEF Of
        <4>2. (id \in ids' <=> id \in ids) /\ IF id \in ids THEN Unspent(Of(id)) ELSE Spent(Of(id))
          BY <1>3, <2>1, <3>2 DEF SInv
        <4>3. (Unspent(Of(id)) => Unspent(Of(id))') /\ (Spent(Of(id)) => Spent(Of(id))')
          BY <4>1 DEF Unspent, Spent, Of
        <4> QED BY <4>2, <4>3
      <3> QED BY <3>1, <3>2
    <2> QED BY <1>1, <1>3, <2>2 DEF SInv
  <1> QED BY <1>2, <1>3

LEMMA NextSInv == TInv /\ SInv /\ [Next]_vars => SInv'
  <1> SUFFICES ASSUME TInv, SInv, [Next]_vars PROVE SInv'
    OBVIOUS
  <1> USE DEF SInv, Unspent, Spent, Of, air, log
  <1>1. CASE \E fresh \in SUBSET Message : \E again \in SUBSET fresh : Receive(fresh, again)
    BY <1>1 DEF Receive
  <1>2. CASE \E m \in inbox : Reject(m) \/ Skip(m) \/ EncodeFails(m)
    BY <1>2 DEF Reject, Skip, EncodeFails
  <1>3. CASE Write
    BY <1>3 DEF Write
  <1>4. CASE NextBlock
    BY <1>4 DEF NextBlock
  <1>5. CASE UNCHANGED vars
    BY <1>5 DEF vars
  <1> HIDE DEF SInv, Unspent, Spent, Of, air, log
  <1> QED BY <1>1, <1>2, <1>3, <1>4, <1>5, ReportSInv DEF Next, Stopped

LEMMA AtMostOne ==
  ASSUME NEW S \in SUBSET Message, Unspent(S) \/ Spent(S), TInv
  PROVE  OneEach(S)
  <1> SUFFICES ASSUME NEW a \in ReportsOf(S), NEW b \in ReportsOf(S) PROVE a = b
    BY DEF OneEach
  <1>1. /\ a \in S \X (1 .. MaxBlocks) /\ a[2] <= out[a[1]]
        /\ b \in S \X (1 .. MaxBlocks) /\ b[2] <= out[b[1]]
    BY DEF ReportsOf
  <1>2. /\ a[1] \in S /\ a[2] \in Nat /\ a[2] >= 1 /\ a = <<a[1], a[2]>>
        /\ b[1] \in S /\ b[2] \in Nat /\ b[2] >= 1 /\ b = <<b[1], b[2]>>
    BY <1>1, LengthAssumption
  <1>3. out[a[1]] # 0 /\ out[b[1]] # 0
    BY <1>1, <1>2
  <1>4. PICK m \in S : out[m] = 1 /\ \A n \in S : n # m => out[n] = 0
    BY <1>2, <1>3 DEF Unspent, Spent
  <1>5. a[1] = m /\ b[1] = m
    BY <1>2, <1>3, <1>4
  <1>6. a[2] = 1 /\ b[2] = 1
    BY <1>1, <1>2, <1>4, <1>5
  <1> QED BY <1>2, <1>5, <1>6

LEMMA AtLeastOne ==
  ASSUME NEW S, Spent(S), MaxBlocks >= 1
  PROVE  ReportsOf(S) # {}
  <1>1. PICK m \in S : out[m] = 1
    BY DEF Spent
  <1>2. <<m, 1>> \in S \X (1 .. MaxBlocks)
    BY LengthAssumption
  <1> QED BY <1>1, <1>2 DEF ReportsOf

(* -single reports exactly once, or exactly once for each id (main.go:288).*)
THEOREM SingleIsOne == Spec => []SingleMeansOne
  <1>1. TInv /\ SInv => SingleMeansOne
    <2> SUFFICES ASSUME TInv, SInv, flags.single PROVE SingleMeansOne
      BY DEF SingleMeansOne
    <2>1. ASSUME flags.ids = {} PROVE OneEach(Message)
      BY <2>1, AtMostOne DEF SInv
    <2>2. ASSUME NEW id \in flags.ids PROVE OneEach({m \in Message : m.id = id})
      <3>1. Unspent(Of(id)) \/ Spent(Of(id))
        BY DEF SInv
      <3> QED BY <3>1, AtMostOne DEF Of
    <2>3. ASSUME pc = "single"
          PROVE  /\ flags.ids = {} => ReportsOf(Message) # {}
                 /\ \A id \in flags.ids : ReportsOf({m \in Message : m.id = id}) # {}
      <3>1. MaxBlocks >= 1
        <4>1. buf >= 1 /\ buf <= blocks * BlockSize /\ buf \in Nat /\ blocks \in 0 .. MaxBlocks
          BY <2>3 DEF TInv, TypeOK, Buffered, Received
        <4>2. 0 * BlockSize = 0
          BY LengthAssumption
        <4>3. blocks # 0
          BY <4>1, <4>2
        <4> QED BY <4>1, <4>3, LengthAssumption
      <3>2. flags.ids = {} => Spent(Message)
        BY <2>3 DEF SInv
      <3>3. \A id \in flags.ids : Spent(Of(id))
        BY <2>3 DEF SInv
      <3> QED BY <3>1, <3>2, <3>3, AtLeastOne DEF Of
    <2> QED BY <2>1, <2>2, <2>3 DEF SingleMeansOne
  <1> QED BY <1>1, InitTInv, NextTInv, InitSInv, NextSInv, PTL DEF Spec
-----------------------------------------------------------------------------
(* -unique, with a single message type.  What was found last of a meter is *)
(* what it sent last; a digest in the map of the block before is the one   *)
(* the unique filter holds, so that nothing it lets pass is skipped.       *)
Latest ==
  /\ \A m \in recent : lastSent[<<m.type, m.id>>] = m.sum
  /\ pc = "select" => \A m \in prev : m \in recent /\ uf[m.id] = m.sum
  /\ pc = "range" => \A m \in prev \cap inbox : uf[m.id] = m.sum
  /\ pc \in {"range", "after"} => \A m \in next : uf[m.id] = m.sum
  /\ inbox \subseteq recent /\ straddling \subseteq recent
  /\ pc \in {"range", "after"} => next \subseteq recent
Wanted(id) == \A m \in Message : m.id = id => PassesIdAndType(m)
UInv ==
  flags.unique =>
    /\ Latest
    /\ pc # "failed" => \A t \in Types, id \in Ids : lastOut[<<t, id>>] = uf[id]
    /\ ~flags.single =>
         \A t \in Types, id \in Ids : Wanted(id) =>
           /\ pc \in {"select", "after"} => lastOut[<<t, id>>] = lastSent[<<t, id>>]
           /\ pc = "range" => \/ lastOut[<<t, id>>] = lastSent[<<t, id>>]
                             \/ \E m \in inbox : m.id = id

LEMMA InitUInv == Init => UInv
  BY DEF Init, UInv, Latest

LEMMA ReceiveUInv ==
  ASSUME TInv, UInv, NEW fresh \in SUBSET Message, NEW again \in SUBSET fresh,
         Receive(fresh, again)
  PROVE  UInv'
  <1> SUFFICES ASSUME flags.unique PROVE UInv'
    BY DEF UInv, Receive
  <1>1. /\ flags' = flags /\ ids' = ids /\ uf' = uf /\ prev' = prev /\ lastOut' = lastOut
        /\ pc = "select" /\ pc' = "range" /\ next' = {}
        /\ inbox' = fresh \cup straddling /\ recent' = inbox' /\ straddling' = again
    BY DEF Receive, log
  <1>2. /\ straddling \subseteq recent /\ recent \subseteq Message /\ straddling \subseteq Message
        /\ \A m \in recent : lastSent[<<m.type, m.id>>] = m.sum
        /\ \A m \in prev : uf[m.id] = m.sum
    BY <1>1 DEF UInv, Latest, TInv, TypeOK
  <1>3. ASSUME NEW t \in Types, NEW id \in Ids, \A m \in fresh : m.id # id
        PROVE  lastSent'[<<t, id>>] = lastSent[<<t, id>>]
    <2>1. {m \in fresh : <<m.type, m.id>> = <<t, id>>} = {}
      BY <1>3
    <2> QED BY <2>1 DEF Receive
  <1>4. ASSUME NEW m \in fresh PROVE lastSent'[<<m.type, m.id>>] = m.sum
    <2>1. m.type \in Types /\ m.id \in Ids
      BY DEF Message
    <2>2. {n \in fresh : <<n.type, n.id>> = <<m.type, m.id>>} = {m}
      BY DEF Receive, Fresh
    <2>3. (CHOOSE n \in {m} : TRUE) = m
      OBVIOUS
    <2> QED BY <2>1, <2>2, <2>3 DEF Receive
  <1>5. ASSUME NEW m \in straddling PROVE lastSent'[<<m.type, m.id>>] = m.sum
    <2>1. m.type \in Types /\ m.id \in Ids
      BY <1>2 DEF Message
    <2>2. \A n \in fresh : n.id # m.id
      BY <1>2 DEF Receive, Fresh
    <2> QED BY <1>2, <1>3, <2>1, <2>2
  <1>6. Latest'
    BY <1>1, <1>2, <1>4, <1>5 DEF Latest
  <1>7. ASSUME ~flags.single, NEW t \in Types, NEW id \in Ids, Wanted(id)'
        PROVE  \/ lastOut'[<<t, id>>] = lastSent'[<<t, id>>]
               \/ \E m \in inbox' : m.id = id
    <2>1. lastOut[<<t, id>>] = lastSent[<<t, id>>]
      BY <1>1, <1>7 DEF UInv, Wanted, PassesIdAndType
    <2> QED BY <1>1, <1>3, <2>1
  <1>8. \A t \in Types, id \in Ids : lastOut'[<<t, id>>] = uf'[id]
    BY <1>1 DEF UInv
  <1> QED BY <1>1, <1>6, <1>7, <1>8 DEF UInv

LEMMA HandleUInv ==
  ASSUME NEW type, Types = {type},
         TInv, UInv, NEW m \in inbox, Reject(m) \/ Skip(m) \/ Report(m) \/ EncodeFails(m)
  PROVE  UInv'
  <1> SUFFICES ASSUME flags.unique PROVE UInv'
    BY DEF UInv, Reject, Skip, Report, EncodeFails
  <1>1. /\ flags' = flags /\ recent' = recent /\ straddling' = straddling /\ prev' = prev
        /\ lastSent' = lastSent /\ pc = "range" /\ inbox' \subseteq inbox
    BY DEF Reject, Skip, Report, EncodeFails, air
  <1>2. /\ m \in recent /\ recent \subseteq Message
        /\ m \in Message /\ m.id \in Ids /\ m.type = type /\ m.sum = lastSent[<<type, m.id>>]
        /\ inbox \subseteq recent /\ next \subseteq recent
    BY <1>1 DEF UInv, Latest, TInv, TypeOK, Message
  (* All messages of a meter in a block are its last.                      *)
  <1>3. \A n \in recent : n.id \in Ids /\ n.sum = lastSent[<<type, n.id>>]
    BY <1>2 DEF UInv, Latest, Message
  <1>4. \A t \in Types, id \in Ids : lastOut[<<t, id>>] = uf[id]
    BY <1>1 DEF UInv
  <1>5. CASE Reject(m)
    <2>1. /\ UNCHANGED <<pc, prev, next, uf, ids, lastOut>> /\ inbox' = inbox \ {m}
      BY <1>5 DEF Reject, log
    <2>2. Latest'
      BY <1>1, <2>1 DEF UInv, Latest
    <2>3. ASSUME ~flags.single, NEW t \in Types, NEW id \in Ids, Wanted(id)'
          PROVE  \/ lastOut'[<<t, id>>] = lastSent'[<<t, id>>]
                 \/ \E n \in inbox' : n.id = id
      <3>1. Wanted(id)
        BY <1>1, <2>1, <2>3 DEF Wanted, PassesIdAndType
      <3>2. CASE m.id = id
        <4>1. uf[m.id] = m.sum
          BY <1>2, <1>5, <3>1, <3>2 DEF Reject, Match, Wanted
        <4> QED BY <1>1, <1>2, <1>4, <2>1, <3>2, <4>1
      <3>3. CASE m.id # id
        BY <1>1, <2>1, <2>3, <3>1, <3>3 DEF UInv
      <3> QED BY <3>2, <3>3
    <2> QED BY <1>1, <1>4, <2>1, <2>2, <2>3 DEF UInv
  <1>6. CASE Skip(m)
    <2>1. uf[m.id] # m.sum /\ m \in prev
      BY <1>6 DEF Skip, Match
    <2> QED BY <1>1, <2>1 DEF UInv, Latest
  <1>7. ASSUME Report(m) \/ EncodeFails(m) PROVE Latest'
    <2>1. /\ next' = next \cup {m} /\ pc' \in {"range", "failed"}
          /\ uf' = [uf EXCEPT ![m.id] = m.sum] /\ uf \in [Ids -> Sums \cup {None}]
      BY <1>1, <1>7 DEF Report, EncodeFails, Remember, TInv, TypeOK
    <2>2. \A n \in recent : uf[n.id] = n.sum => uf'[n.id] = n.sum
      BY <1>2, <1>3, <2>1
    <2>3. uf'[m.id] = m.sum
      BY <1>2, <2>1
    <2> QED BY <1>1, <1>2, <2>1, <2>2, <2>3 DEF UInv, Latest
  <1>8. CASE Report(m)
    <2>1. /\ uf' = [uf EXCEPT ![m.id] = m.sum] /\ uf \in [Ids -> Sums \cup {None}]
          /\ lastOut' = [lastOut EXCEPT ![<<m.type, m.id>>] = m.sum]
          /\ lastOut \in [Types \X Ids -> Sums \cup {None}] /\ pc' = "range"
      BY <1>8 DEF Report, Remember, TInv, TypeOK
    <2>2. \A id \in Ids : /\ uf'[id] = IF id = m.id THEN m.sum ELSE uf[id]
                          /\ lastOut'[<<type, id>>] = IF id = m.id THEN m.sum ELSE lastOut[<<type, id>>]
      BY <1>2, <2>1
    <2>3. ASSUME ~flags.single, NEW id \in Ids, Wanted(id)'
          PROVE  \/ lastOut'[<<type, id>>] = lastSent'[<<type, id>>]
                 \/ \E n \in inbox' : n.id = id
      <3>1. ids' = ids /\ inbox' = inbox \ {m}
        BY <1>8, <2>3 DEF Report, TickedOff
      <3>2. Wanted(id)
        BY <1>1, <2>3, <3>1 DEF Wanted, PassesIdAndType
      <3> QED BY <1>1, <1>2, <2>2, <2>3, <3>1, <3>2 DEF UInv
    <2> QED BY <1>1, <1>4, <1>7, <1>8, <2>1, <2>2, <2>3 DEF UInv
  <1>9. CASE EncodeFails(m)
    <2>1. pc' = "failed"
      BY <1>9 DEF EncodeFails
    <2> QED BY <1>7, <1>9, <2>1 DEF UInv
  <1> QED BY <1>5, <1>6, <1>8, <1>9

LEMMA EndUInv ==
  ASSUME TInv, UInv, Write \/ NextBlock \/ UNCHANGED vars
  PROVE  UInv'
  <1> USE DEF UInv, Latest, Wanted, PassesIdAndType, air, log
  <1>1. CASE Write
    BY <1>1 DEF Write
  <1>2. CASE NextBlock
    BY <1>2 DEF NextBlock
  <1>3. CASE UNCHANGED vars
    BY <1>3 DEF vars
  <1> QED BY <1>1, <1>2, <1>3

LEMMA NextUInv == (\E t : Types = {t}) /\ TInv /\ UInv /\ [Next]_vars => UInv'
  BY ReceiveUInv, HandleUInv, EndUInv DEF Next, Stopped

(* -unique with one message type hides repetitions only: a meter's last    *)
(* transmission is its last report.                                        *)
THEOREM ChangesShown ==
  ASSUME \E t : Types = {t}
  PROVE  Spec => []UniqueShowsChanges
  <1>1. UInv => UniqueShowsChanges
    BY DEF UInv, Wanted, UniqueShowsChanges
  <1>2. TInv /\ UInv /\ [Next]_vars => UInv'
    BY NextUInv
  <1> QED BY <1>1, <1>2, InitTInv, NextTInv, InitUInv, PTL DEF Spec

(* ... and hides all of them: no report repeats the one before it.  (With  *)
(* two types it does, as the run MCReportUnique shows.)                    *)
THEOREM RepetitionsHidden ==
  ASSUME \E t : Types = {t}
  PROVE  Spec => UniqueSuppresses
  <1> DEFINE A == flags.unique =>
                    \A m \in Message : out'[m] # out[m] => lastOut[<<m.type, m.id>>] # m.sum
  <1>1. TInv /\ UInv /\ [Next]_vars => [A]_vars
    <2> SUFFICES ASSUME TInv, UInv, [Next]_vars, flags.unique, NEW m \in Message, out'[m] # out[m]
                 PROVE  lastOut[<<m.type, m.id>>] # m.sum
      OBVIOUS
    <2>1. PICK n \in inbox : Report(n)
      BY DEF Next, Stopped, vars, air, log, Receive, Reject, Skip, EncodeFails, Write, NextBlock
    <2>2. n = m
      BY <2>1 DEF Report, TInv, TypeOK
    <2>3. uf[m.id] # m.sum /\ pc = "range"
      BY <2>1, <2>2 DEF Report, Match
    <2>4. lastOut[<<m.type, m.id>>] = uf[m.id]
      BY <2>3 DEF UInv, Message
    <2> QED BY <2>3, <2>4
  <1>2. TInv /\ UInv /\ [Next]_vars => UInv'
    BY NextUInv
  <1> QED BY <1>1, <1>2, InitTInv, NextTInv, InitUInv, PTL DEF Spec, UniqueSuppresses
=============================================================================
