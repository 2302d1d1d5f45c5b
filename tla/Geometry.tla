------------------------------ MODULE Geometry ------------------------------
(***************************************************************************)
(* From the flags to the decoder's buffers: HandleFlags checks them,       *)
(* NewReceiver expands and sorts -msgtype, RegisterProtocol takes the      *)
(* largest of each length, Allocate derives the rest.  Here the numbers    *)
(* are the program's own.                                                  *)
(***************************************************************************)
EXTENDS CommandLine, FiniteSets, FiniteSetsExt, SequencesExt

(* The names in the order of sort.Strings, and those with a parser.        *)
Sorted == <<"all", "gas", "idm", "netidm", "r900", "r900bcd", "scm", "scm+">>
Names == {Sorted[i] : i \in DOMAIN Sorted}
Registered == {"idm", "netidm", "r900", "r900bcd", "scm", "scm+"}

(* Each parser's packet configuration, and how many bytes of a packet it   *)
(* reads (the r900 parsers read none).                                     *)
IDM == [Preamble |-> "idm", PreambleSymbols |-> 32, PacketSymbols |-> 92 * 8,
        CenterFreq |-> 912600155, bytes |-> 92]
R900 == [Preamble |-> "r900", PreambleSymbols |-> 32, PacketSymbols |-> 116,
         CenterFreq |-> 912380000, bytes |-> 0]
SCM == [Preamble |-> "scm", PreambleSymbols |-> 21, PacketSymbols |-> 96,
        CenterFreq |-> 912600155, bytes |-> 12]
SCMPlus == [Preamble |-> "scm+", PreambleSymbols |-> 16, PacketSymbols |-> 16 * 8,
            CenterFreq |-> 912600155, bytes |-> 16]

ParserCfg(name) ==
  CASE name \in {"idm", "netidm"} -> IDM
    [] name \in {"r900", "r900bcd"} -> R900
    [] name = "scm" -> SCM
    [] name = "scm+" -> SCMPlus

PayloadSymbols == 42 \* of the r900 parser

(* The names in -msgtype; "gas" stands for all that are unknown.           *)
NamesTypes(arg) == arg.text = "list" /\ arg.items # {} /\ arg.items \subseteq Names
ASSUME NamesAssumption ==
  \A s \in Starts :
    /\ "-msgtype" \in DOMAIN s.env => NamesTypes(s.env["-msgtype"])
    /\ s.launch.mode = "user" =>
         LET args == s.launch.args IN
         \A i \in 2 .. Len(args) : args[i - 1].text = "-msgtype" => NamesTypes(args[i])

VARIABLES
  msgType,      \* a set of names
  names,        \* those still to be registered
  preambles,    \* the parsers of each preamble, in order of registration
  Cfg,          \* the decoder's configuration
  len           \* the lengths of its buffers

decoderVars == <<msgType, names, preambles, Cfg, len>>

Preambles == {"idm", "r900", "scm", "scm+"}

DecoderInit ==
  /\ msgType = {}
  /\ names = {}
  /\ preambles = [pre \in Preambles |-> << >>]
  /\ Cfg = [CenterFreq |-> 0, DataRate |-> 0, ChipLength |-> 0,
            PreambleSymbols |-> 0, PacketSymbols |-> 0]
  /\ len = << >>
-----------------------------------------------------------------------------
symbolLength == CHOOSE n \in value["-symbollength"].items : TRUE

MutAnyLength == TRUE

ValidLength == symbolLength \in {8, 32, 40, 48, 56, 64, 72, 80, 88, 96}

ValidFormat ==
  value["-format"] \in {Word("plain"), Word("csv"), Word("json"), Word("xml")}

(* An invalid value or a sample file that cannot be created is fatal.      *)
HandleFlags ==
  /\ pc = "flags"
  /\ \/ /\ ValidLength /\ ValidFormat
        /\ pc' = "msgtype"
     \/ /\ ~(ValidLength /\ ValidFormat) \/ value["-samplefile"] # None
        /\ pc' = "fatal"
  /\ UNCHANGED <<flagVars, decoderVars>>

(* "all" stands for four of the types, when it is given alone.             *)
SortTypes ==
  /\ pc = "msgtype"
  /\ LET wanted == value["-msgtype"].items IN
     msgType' = IF wanted = {"all"} THEN {"scm", "scm+", "idm", "r900"} ELSE wanted
  /\ names' = msgType'
  /\ pc' = "register"
  /\ UNCHANGED <<flagVars, preambles, Cfg, len>>

MutAnyOrder(name) == name \in names

(* The first in the order of the names.                                    *)
IsNext(name) ==
  /\ name \in names
  /\ \A j \in DOMAIN Sorted : Sorted[j] \in names =>
       \E i \in 1 .. j : Sorted[i] = name

UnknownType ==
  /\ pc = "register"
  /\ \E name \in names : IsNext(name) /\ name \notin Registered
  /\ pc' = "fatal"
  /\ UNCHANGED <<flagVars, decoderVars>>

Larger(a, b) == Max({a, b})

MutLastWins(old, new) == new

(* The frequency is the last one's, the lengths are the largest.           *)
Merged(old, new) == Larger(old, new)

MutReplace(parsers, name) == <<name>>

(* Parsers may share a preamble.                                           *)
Associated(parsers, name) == Append(parsers, name)

Register(name) ==
  /\ LET p == ParserCfg(name) IN
     /\ Cfg' = [CenterFreq |-> p.CenterFreq,
                DataRate |-> Larger(Cfg.DataRate, 32768),
                ChipLength |-> Larger(Cfg.ChipLength, symbolLength),
                PreambleSymbols |-> Merged(Cfg.PreambleSymbols, p.PreambleSymbols),
                PacketSymbols |-> Merged(Cfg.PacketSymbols, p.PacketSymbols)]
     /\ preambles' = [preambles EXCEPT ![p.Preamble] = Associated(@, name)]
  /\ names' = names \ {name}
  /\ UNCHANGED <<pc, flagVars, msgType, len>>

RegisterProtocol ==
  /\ pc = "register"
  /\ \E name \in Registered : IsNext(name) /\ Register(name)

(* 1 << ceil(log2(v)), for the values that occur.                          *)
Powers == {16, 32, 64, 128, 256, 512, 1024, 2048, 4096, 8192}
NextPowerOf2(v) == Min({n \in Powers : n >= v})

SymbolLength == Cfg.ChipLength * 2
PreambleLength == Cfg.PreambleSymbols * SymbolLength
PacketLength == Cfg.PacketSymbols * SymbolLength
BlockSize == NextPowerOf2(PreambleLength)
BufferLength == PacketLength + BlockSize

Allocate ==
  /\ pc = "register" /\ names = {}
  /\ len' = [Signal |-> BlockSize + SymbolLength,
             Quantized |-> BufferLength,
             csum |-> BlockSize + SymbolLength + 1,
             pkt |-> (Cfg.PacketSymbols + 7) \div 8,
             packed |-> (BlockSize + PreambleLength + 7) \div 8,
             block |-> 2 * BlockSize]
  /\ pc' = "connect"
  /\ UNCHANGED <<flagVars, msgType, names, preambles, Cfg>>

SetUpDecoder ==
  HandleFlags \/ SortTypes \/ UnknownType \/ RegisterProtocol \/ Allocate
-----------------------------------------------------------------------------
Parsers == msgType
Allocated == len # << >>
LastPosition == BlockSize - 1

(* No slice expression or index of Decode, Filter, Search, Slice and the   *)
(* r900 parser is out of range, for the last position a packet can have.   *)
IndicesInRange ==
  Allocated =>
    (* demodulation reads a pair of bytes for each sample *)
    /\ 2 * (len.Signal - SymbolLength) = len.block
    (* the matched filter fills the last block and sums a symbol *)
    /\ len.Quantized - PacketLength = BlockSize
    /\ SymbolLength + LastPosition <= len.csum - 1
    (* packing, and the byte pass of the last symbol *)
    /\ len.packed * 8 <= len.Quantized
    /\ \A p \in Parsers :
         LET last == ParserCfg(p).PreambleSymbols - 1 IN
         /\ LastPosition \div 8 + last * (SymbolLength \div 8) < len.packed
         /\ last * SymbolLength + BlockSize <= len.Quantized
    (* a packet, and its bytes *)
    /\ LastPosition + (Cfg.PacketSymbols - 1) * SymbolLength < len.Quantized
    /\ (Cfg.PacketSymbols - 1) \div 8 < len.pkt

(* What Search and Window assume of the lengths: symbols and blocks are    *)
(* whole bytes, no preamble is longer than a packet, a block holds a       *)
(* symbol, and the r900 parsers, which locate the payload by the decoder's *)
(* preamble length, find their own there and a payload's length behind it. *)
MeetsAssumptions ==
  Allocated =>
    /\ SymbolLength % 8 = 0 /\ SymbolLength > 0
    /\ BlockSize % 8 = 0 /\ BlockSize >= PreambleLength
    /\ \A p \in Parsers : ParserCfg(p).PreambleSymbols \in 1 .. Cfg.PacketSymbols
    /\ preambles["r900"] # << >> =>
         /\ Cfg.PreambleSymbols = R900.PreambleSymbols
         /\ PreambleLength + PayloadSymbols * 4 * Cfg.ChipLength <= PacketLength

(* Each parser asked for is registered once, under its own preamble, and   *)
(* gets packets long enough for it: all its bits, and no byte whose high   *)
(* bits are left over from the packet sliced before (pkt is never cleared, *)
(* a byte is clean when eight decisions went into it).                     *)
PacketsUsable ==
  Allocated =>
    \A p \in Parsers :
      /\ \A pre \in Preambles :
           Cardinality({i \in DOMAIN preambles[pre] : preambles[pre][i] = p}) =
             (IF pre = ParserCfg(p).Preamble THEN 1 ELSE 0)
      /\ ParserCfg(p).PacketSymbols <= Cfg.PacketSymbols
      /\ ParserCfg(p).bytes * 8 <= Cfg.PacketSymbols

(* The radio configuration is deterministic between runs, in whatever      *)
(* order the map of message types is walked: the tuner goes to the r900    *)
(* frequency for an r900 type that no scm type comes behind, else to that  *)
(* of the others.                                                          *)
RadioDeterministic ==
  Allocated =>
    Cfg.CenterFreq =
      IF Parsers \cap {"r900", "r900bcd"} # {} /\ Parsers \cap {"scm", "scm+"} = {}
      THEN 912380000 ELSE 912600155
=============================================================================
