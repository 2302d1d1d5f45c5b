------------------------------- MODULE Report -------------------------------
(***************************************************************************)
(* What the decoder goroutine of Receiver.Run does with the messages of    *)
(* each block: the filter chain, the two digest maps that keep a           *)
(* transmission found in two neighbouring blocks from being reported       *)
(* twice, the encoder, -single, and the raw sample file the reports point  *)
(* into.  The air is the environment: transmissions begin in a block and   *)
(* may be found again in the next one.                                     *)
(***************************************************************************)
EXTENDS Integers, Sequences

CONSTANTS
  Ids,         \* meter ids
  Types,       \* message types (MsgType)
  Sums,        \* checksums; a reading that changes changes its checksum
  MeterTypeOf, \* the meter type (commodity) of each id
  FlagSets,    \* the command lines: [unique, single, ids, types]
  BlockSize,   \* samples in a block
  PacketLength, \* samples in a packet; the decoder's buffer is a block longer
  MaxBlocks,
  None

BufferLength == PacketLength + BlockSize

ASSUME LengthAssumption ==
  BlockSize \in Nat \ {0} /\ PacketLength \in Nat /\ MaxBlocks \in Nat
ASSUME FlagAssumption ==
  \A f \in FlagSets : f.unique \in BOOLEAN /\ f.single \in BOOLEAN /\ f.ids \subseteq Ids

(* A message is what NewDigest keeps of it; the meter type is the id's.    *)
Message == [type : Types, id : Ids, sum : Sums]

VARIABLES
  flags,    \* the command line; ids = {} or types = {} when not given
  pc,       \* "select", "range", "after", "single", "failed" or "fatal"
  inbox,    \* messages this call of Decode has yet to deliver
  prev, next, \* digests seen in the previous and in this block
  uf,       \* UniqueFilter: the checksum kept for each id
  ids,      \* what is left of -filterid
  pktFound,
  blocks,   \* blocks received
  buf,      \* sampleBuf: length in samples; it holds the newest ones
  file,     \* the sample file: the stream position of each sample written
  \* history:
  recent,   \* messages found in the previous block
  straddling, \* messages of this block that the next one finds again
  sent,     \* transmissions of each message
  out,      \* reports of each message
  lastSent, \* what each meter last transmitted, per type
  lastOut,  \* and what was last reported of it
  extents   \* [offset, length, from, to]: reports and the samples they rest on

air == <<recent, straddling, sent, lastSent>>
log == <<out, lastOut, extents>>
vars == <<flags, pc, inbox, prev, next, uf, ids, pktFound, blocks, buf, file,
          air, log>>

TypeOK ==
  /\ flags \in FlagSets
  /\ pc \in {"select", "range", "after", "single", "failed", "fatal"}
  /\ inbox \subseteq Message
  /\ prev \subseteq Message /\ next \subseteq Message
  /\ uf \in [Ids -> Sums \cup {None}]
  /\ ids \subseteq Ids
  /\ pktFound \in BOOLEAN
  /\ blocks \in 0 .. MaxBlocks
  /\ buf \in 0 .. BufferLength + BlockSize
  /\ file \in Seq(0 .. MaxBlocks * BlockSize - 1)
  /\ recent \subseteq Message /\ straddling \subseteq Message
  /\ sent \in [Message -> Nat] /\ out \in [Message -> Nat]
  /\ lastSent \in [Types \X Ids -> Sums \cup {None}]
  /\ lastOut \in [Types \X Ids -> Sums \cup {None}]

Init ==
  /\ flags \in FlagSets
  /\ pc = "select" /\ inbox = {} /\ prev = {} /\ next = {}
  /\ uf = [id \in Ids |-> None]
  /\ ids = flags.ids
  /\ pktFound = FALSE /\ blocks = 0 /\ buf = 0 /\ file = << >>
  /\ recent = {} /\ straddling = {}
  /\ sent = [m \in Message |-> 0] /\ out = [m \in Message |-> 0]
  /\ lastSent = [k \in Types \X Ids |-> None] /\ lastOut = lastSent
  /\ extents = {}
-----------------------------------------------------------------------------
(* The air.  Transmissions last longer than a block and a meter pauses     *)
(* between them, so the meters of `fresh' were silent in the block before; *)
(* each transmits at most one message of a type.                           *)
Fresh(fresh) ==
  /\ \A m \in fresh, n \in recent : m.id # n.id
  /\ \A m, n \in fresh : m.id = n.id /\ m.type = n.type => m = n

MutDiscardEarly(length) ==
  (IF length > BlockSize THEN length - BlockSize ELSE length) + BlockSize

(* sampleBuf after a block: the oldest block leaves it when it is full.    *)
Appended(length) ==
  (IF length > BufferLength THEN length - BlockSize ELSE length) + BlockSize

(* A block arrives: the next map is cleared, the sample buffer takes the   *)
(* block, and Decode finds what began in this block and what straddles the *)
(* boundary to it.                                                         *)
Receive(fresh, again) ==
  /\ pc = "select"
  /\ blocks < MaxBlocks
  /\ Fresh(fresh)
  /\ pc' = "range"
  /\ next' = {}
  /\ buf' = Appended(buf)
  /\ pktFound' = FALSE
  /\ blocks' = blocks + 1
  /\ inbox' = fresh \cup straddling
  /\ recent' = fresh \cup straddling
  /\ straddling' = again
  /\ sent' = [m \in Message |-> IF m \in fresh THEN sent[m] + 1 ELSE sent[m]]
  /\ lastSent' = [k \in Types \X Ids |->
       LET now == {m \in fresh : <<m.type, m.id>> = k} IN
       IF now = {} THEN lastSent[k] ELSE (CHOOSE m \in now : TRUE).sum]
  /\ UNCHANGED <<flags, prev, uf, ids, file, log>>
-----------------------------------------------------------------------------
(* The filter chain, in the order in which flag.Visit adds the filters.    *)
(* The unique filter has a side effect, for messages that reach it.        *)
PassesIdAndType(m) ==
  /\ flags.ids # {} => m.id \in ids
  /\ flags.types # {} => MeterTypeOf[m.id] \in flags.types

MutFirstOnly(m) == PassesIdAndType(m) /\ (flags.unique => uf[m.id] = None)

Match(m) == PassesIdAndType(m) /\ (flags.unique => uf[m.id] # m.sum)

MutForget(m) == UNCHANGED uf

Remember(m) == uf' = IF flags.unique THEN [uf EXCEPT ![m.id] = m.sum] ELSE uf

Reject(m) ==
  /\ pc = "range" /\ m \in inbox
  /\ ~Match(m)
  /\ inbox' = inbox \ {m}
  /\ UNCHANGED <<flags, pc, prev, next, uf, ids, pktFound, blocks, buf, file, air, log>>

(* Seen in the previous block: marked for the next one and skipped.        *)
Skip(m) ==
  /\ pc = "range" /\ m \in inbox
  /\ Match(m) /\ Remember(m)
  /\ m \in prev
  /\ next' = next \cup {m}
  /\ inbox' = inbox \ {m}
  /\ UNCHANGED <<flags, pc, prev, ids, pktFound, blocks, buf, file, air, log>>

MutKeepId(m) == ids

(* -single ticks the meter off.                                            *)
TickedOff(m) == IF flags.single THEN ids \ {m.id} ELSE ids

(* Reported, with the current end of the sample file and the length of the *)
(* buffer that will be written there.  -single without ids stops the range *)
(* (the messages left are never received).                                 *)
Report(m) ==
  /\ pc = "range" /\ m \in inbox
  /\ Match(m) /\ Remember(m)
  /\ m \notin prev
  /\ next' = next \cup {m}
  /\ pktFound' = TRUE
  /\ IF flags.single /\ ids = {}
       THEN inbox' = {} /\ UNCHANGED ids
       ELSE /\ inbox' = inbox \ {m}
            /\ ids' = TickedOff(m)
  /\ out' = [out EXCEPT ![m] = @ + 1]
  /\ lastOut' = [lastOut EXCEPT ![<<m.type, m.id>>] = m.sum]
  /\ extents' = extents \cup
       {[offset |-> Len(file), length |-> buf,
         from |-> IF blocks * BlockSize > BufferLength
                    THEN blocks * BlockSize - BufferLength ELSE 0,
         to |-> blocks * BlockSize]}
  /\ UNCHANGED <<flags, pc, prev, blocks, buf, file, air>>

EncodeFails(m) ==
  /\ pc = "range" /\ m \in inbox
  /\ Match(m) /\ Remember(m)
  /\ m \notin prev
  /\ next' = next \cup {m}
  /\ pc' = "failed"
  /\ UNCHANGED <<flags, inbox, prev, ids, pktFound, blocks, buf, file, air, log>>

(* The channel is closed: write the buffer if anything was reported, stop  *)
(* if that was the last meter of -single, swap the maps.                   *)
Write ==
  /\ pc = "range" /\ inbox = {}
  /\ \/ pktFound /\ pc' = "fatal" /\ UNCHANGED file
     \/ /\ pc' = "after"
        /\ file' = IF pktFound
                     THEN file \o [i \in 1 .. buf |-> blocks * BlockSize - buf + i - 1]
                     ELSE file
  /\ UNCHANGED <<flags, inbox, prev, next, uf, ids, pktFound, blocks, buf, air, log>>

MutNoSwap ==
  /\ pc = "after"
  /\ pc' = IF pktFound /\ flags.single /\ ids = {} THEN "single" ELSE "select"
  /\ UNCHANGED <<flags, inbox, prev, next, uf, ids, pktFound, blocks, buf, file, air, log>>

MutNeverForget ==
  /\ pc = "after"
  /\ pc' = IF pktFound /\ flags.single /\ ids = {} THEN "single" ELSE "select"
  /\ prev' = prev \cup next
  /\ UNCHANGED <<flags, inbox, next, uf, ids, pktFound, blocks, buf, file, air, log>>

NextBlock ==
  /\ pc = "after"
  /\ IF pktFound /\ flags.single /\ ids = {}
       THEN pc' = "single" /\ UNCHANGED <<prev, next>>
       ELSE pc' = "select" /\ prev' = next /\ next' = prev
  /\ UNCHANGED <<flags, inbox, uf, ids, pktFound, blocks, buf, file, air, log>>
-----------------------------------------------------------------------------
(* Receiver.tla has the ends of this loop.                                 *)
Stopped ==
  /\ pc \in {"single", "failed", "fatal"} \/ (pc = "select" /\ blocks = MaxBlocks)
  /\ UNCHANGED vars

Next ==
  \/ \E fresh \in SUBSET Message : \E again \in SUBSET fresh : Receive(fresh, again)
  \/ \E m \in inbox : Reject(m) \/ Skip(m) \/ Report(m) \/ EncodeFails(m)
  \/ Write \/ NextBlock \/ Stopped

Spec == Init /\ [][Next]_vars
-----------------------------------------------------------------------------
(* A transmission is reported at most once, whether it was found in one    *)
(* block or in two ("a message spanning two sample blocks").               *)
ReportedOnce == \A m \in Message : out[m] <= sent[m]

(* ... and without -unique and -single it is reported if its id and type   *)
(* are wanted: the digest maps never hide the next transmission of the     *)
(* same reading.                                                           *)
NoneMissed ==
  (pc = "select" /\ ~flags.unique /\ ~flags.single) =>
    \A m \in Message : PassesIdAndType(m) => out[m] = sent[m]

(* -single: exactly one report without ids, exactly one of each id with    *)
(* them, also when a meter's messages share a block.                       *)
ReportsOf(S) == {r \in S \X (1 .. MaxBlocks) : r[2] <= out[r[1]]}

OneEach(group) ==
  \A a, b \in ReportsOf(group) : a = b

SingleMeansOne ==
  flags.single =>
    /\ flags.ids = {} => OneEach(Message)
    /\ \A id \in flags.ids : OneEach({m \in Message : m.id = id})
    /\ pc = "single" =>
         /\ flags.ids = {} => ReportsOf(Message) # {}
         /\ \A id \in flags.ids : ReportsOf({m \in Message : m.id = id}) # {}

(* -unique hides repetitions only: at the end of a block the last report   *)
(* of a meter is its last transmission.                                    *)
UniqueShowsChanges ==
  (pc = "select" /\ flags.unique /\ ~flags.single) =>
    \A t \in Types, id \in Ids :
      (\A m \in Message : m.id = id => PassesIdAndType(m)) =>
        lastOut[<<t, id>>] = lastSent[<<t, id>>]

(* -unique, "suppress duplicate messages from each meter": what is         *)
(* reported is not what was last reported of that meter and type.          *)
UniqueSuppresses ==
  [][flags.unique =>
       \A m \in Message : out'[m] # out[m] => lastOut[<<m.type, m.id>>] # m.sum]_vars

(* The Offset and Length of a report point at samples that were written,   *)
(* a contiguous piece of the stream that contains everything the decoder   *)
(* had in its buffer; and the sample buffer stays within a block of it.    *)
SamplesBacked ==
  /\ buf <= BufferLength + BlockSize
  /\ pc \in {"after", "select", "single"} =>
       \A e \in extents :
         /\ e.offset + e.length <= Len(file)
         /\ \A i \in e.offset + 1 .. e.offset + e.length - 1 : file[i + 1] = file[i] + 1
         /\ file[e.offset + 1] <= e.from
         /\ file[e.offset + e.length] = e.to - 1
=============================================================================
