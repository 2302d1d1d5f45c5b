# A TLA+ model of rtlamr and rtlamrscan

`rtlamr` decodes the broadcasts of utility meters (ERT: SCM, SCM+, IDM, NetIDM; Neptune:
R900, R900 BCD) from the samples an `rtl_tcp` server sends. `rtlamrscan` starts one
`rtl_tcp` and one `rtlamr` per dongle, restarts the decoders, stamps their lines with
GPS positions, writes csv files and shows a dashboard. This directory holds TLA+ modules
for both programs, TLC configurations that check small instances, and TLAPS proofs for
instances of every size. Paths are relative to `src/`.

## 1. The system

### rtlamr

| Component | State | Operations | Talks to |
|---|---|---|---|
| Receiver (`main.go`) | main's context, the receiver's context with its cause, rtl_tcp connection, wait group, `blockCh` | `NewReceiver`, `Run` (reader, decoder, drainer), `Close`, the deferred calls of each | rtl_tcp over TCP; decoder by `blockCh` |
| Decode fan-out (`protocol/decode.go`, `r900bcd`) | wait group and message channel of one call, sample buffers shared by all parsers | `Decode`: shift, one goroutine per parser, closer | decoder goroutine ranges over the channel |
| Preamble search (`protocol/decode.go`) | `Quantized`, packed bytes, two candidate lists, packet buffer | `Search`, `Slice`, called once per preamble and block | `Decode` |
| R900 history (`r900/r900.go`) | its own `signal`, `quantized` | `Parse`: shift, filter, read payloads | copies from the decoder's `Signal` |
| Registration, geometry (`protocol/decode.go`, `main.go`, `flags.go`) | `PacketConfig`, preamble → parsers | `RegisterProtocol`, `Allocate` | every buffer length follows from it |
| Reporting (`main.go`, `flags.go`, `protocol/parse.go`) | filter chain, unique filter's map, two digest maps, sample buffer and file, `-filterid` set | the loop over messages | encoders |
| Demodulation (`protocol/decode.go`, `r900/r900.go`) | magnitude table, running sums | `Execute`, `Filter`, the r900 `filter` and its digits | `Search`, the r900 parsers |
| Parsers and codes (`scm`, `idm`, `crc`, `gf`, ...) | tables, one packet buffer each | field slicing, CRC, Reed-Solomon syndrome | `Decode` |
| Command line (`flags.go`, `main.go`) | flag values, the flags that were set, filter chain | `RegisterFlags`, `EnvOverride`, `flag.Parse`, `HandleFlags`, the visit in `NewReceiver` | launcher's environment and arguments |
| Encoders (`csv`, `xml`, ...) | `wroteHeader` | `Encode` | rows of the launcher |

### rtlamrscan

| Component | State | Operations | Talks to |
|---|---|---|---|
| Command lines (`cmd/rtlamrscan/main.go`) | argument lists per mode and dongle | `freqPlan`, `gainArgs`, `wrap` | `rtlamr`'s `flag.Parse` |
| Processes (`main.go`, `proc_*.go`) | context, `rtl_tcp` and `rtlamr` processes, attempts | `startGPS`, `startRtlTCP`, `runDecoder`, `stop`, `fatal`, `killChildrenOnExit` | exec, job object, user |
| Rows (`main.go`, `csv/csv.go`) | `csvSink` files, header state of each decoder | `surveyMapper`, `writeLine`, `record` | lines on the decoders' stdout |
| GPS (`gps.go`) | last fix, last motion, their ages, under one lock | `handleSentence`, `statusSnapshot` | rows, dashboard |
| Statistics, web page (`stats.go`, `web.go`) | columns of the last header, per-radio counters, meter table | `statsLine`, `record`, HTTP handlers | rows |

### What is hard here

- *Shutdown of `rtlamr`*: three goroutines, two contexts and a wait group end each
  other; the cause that `main` logs must be the real one; nobody may use the connection
  or the sample file after `Close`; the reader must not stay in its send.
- *Fan-out*: parsers read buffers the next block shifts, and send on a channel that
  another goroutine closes. Each reads its packets into one buffer and goes on to the
  next packet while the decoder goroutine still works on the message of the last one.
  The r900 history is only right if every block reaches the parser exactly once, also
  the blocks without packets.
- *Boundaries*: packets straddle blocks; preamble search works on bytes before it works
  on positions; the payload of an r900 packet is located in one buffer by an index into
  another that is a symbol out of step.
- *Duplicates*: the same transmission is decoded twice when it straddles a block, and
  two mechanisms (digest maps, `-unique`) suppress repetitions for different reasons.
- *Processes*: a child may die, be killed, be restarted, or outlive the launcher; Ctrl+C
  may come at any point of the search for dongles, also between exec's look at the
  context and the start of the process; the job object that is to end the children on
  Windows may not work.
- *Start*: defaults, `RTLAMR_*` variables and arguments set the same flags, some values
  replace and some add; what was set decides which filters are installed, and a receiver
  that could not be set up is run all the same.
- *Stale state*: the columns of a row are those of the last header, whatever type the
  row has.
- *Stale positions*: the serial reader stores a fix while rows are stamped with it.

`PROJECT.json` lists each hazard at its line with the properties aimed at it.

## 2. The modules and the code

One module per component; each step is one handler or one stretch of a goroutine between
two points where another can be seen. `pc`-like variables (`mpc`, `rpc`, `cpc`, ...) say
where a goroutine stands; what has no such variable is data of the code under its own
name where TLA+ allows it. Variables marked *history* in the modules do not exist in the
code and guard nothing. Operators named `Mut...` are not part of a specification: each
is a plausible bug in the definition that follows it (a missed wait, an early close, an
off-by-one), kept to show that the properties notice.

**`StreamStage`** is the abstract specification of `Receiver.Run`: a stage that hands on
every block until a first cause stops it, may throw blocks away afterwards, and then
finishes or aborts.

**`Receiver`** (`main.go:60-386`). `NewReceiver` may fail and `Run` follows all the
same, as in the code. `ReaderRead` returns any part of a block or an error (the five
second deadline is one). The deferred calls are steps of their own in the order in which
they run (`ReaderWgDone`, `ReaderClose`, `ReaderCanc`). An unbuffered send is a joint
step of sender and receiver (`SendToDecoder`, `SendToDrainer`). A select with several
ready cases takes any of them. `configured` says that `NewReceiver` came to its end,
with filters and tuner set. What the decoder does with a block is one step with its four
outcomes (go on, encode error, `-single` complete, `os.Exit` when the sample file cannot
be written). A block has no content. `NilConnection`: the SDR type of the external
package embeds its connection, so calls on one whose `Connect` failed may panic.

**`Decode`** (`protocol/decode.go:162-199`, `r900/r900.go`, `r900bcd/r900bcd.go`). The
buffers are the number of the block in them; a parser "takes" the block when it works.
The wrapping r900bcd parser has an inner parser with a channel and wait group of its
own. `heap` holds the arrays behind the slices: a parser's packet buffer and what each
of its messages points to. `hand` is the message the decoder goroutine works on; `made`
and `got` (*history*) are the messages of the block, by parser and packet. The decoder
goroutine may leave in the middle of the range, as it does on an encoding error or when
`-single` is complete.

**`Delivery`** is the abstract specification of one call of `Decode` as its caller sees
it: the messages of the block come one at a time, in any order, each once and as it was
found, stay as they are while they are handled, and the range ends when there are no
more. It has no parsers, channels or wait groups. `Decode` implements it (`DeliversEach`):
`Inbox` is the messages that were made and not yet taken, `Content` what the slices of
the message in hand point to, not what was put into them.

**`Search`** (`protocol/decode.go:162-379`). Input is the stream of bit decisions,
chosen whole in `Init` and never read ahead. The two slices `sIdxA`/`sIdxB` are one set
`cand`: the code keeps them ascending and free of repetitions, and swaps them at each
pass. Packed bytes are not stored but computed from the decisions they pack. One step is
one pass over the list; the early returns lead to `slice` with what is left.

**`Window`** (`r900/r900.go:167-260`, `protocol/decode.go:162-174`). Samples are stood
for by their positions in the stream, decisions by the position of the first sample they
rest on, so "the payload behind its own preamble" is an equation between positions.
Buffers start as if silence had come before the stream.

**`CommandLine`** (`flags.go`, `cmd/rtlamrscan/main.go`). A start of `rtlamr` is a
launch and an environment. `Args` is the argument list the launcher builds, or a user's.
`EnvOverride` applies the environment, then parsing takes the list token by token with
the rules of Go's `flag` package: a list flag adds to its list, up to an item that does
not parse; a boolean flag takes no separate value; only an argument that parsed counts
as given. An argument that does not parse, or a flag at the end that needs one
(`MissingValue`), ends the program. An argument is a word, a list, or a list that breaks
off. `StartAssumption` leaves out one thing a user could type: a flag's value that is
itself the name of a flag.

**`Geometry`** (`protocol/decode.go`, `main.go`, `flags.go`, the parsers'
configurations) goes on from the flags to the decoder: `HandleFlags`, the expansion and
order of `-msgtype`, `RegisterProtocol`, `Allocate`, with the real numbers. `names` are
the types still to be registered, and `IsNext` holds of the first of them in the order
of `sort.Strings`. `NamesAssumption` says of `-msgtype` that it lists at least one name
(`"gas"` stands for every unknown one).

**`Demod`** (`protocol/decode.go`, `r900/r900.go`) has the magnitude table, the two
matched filters and the sums behind RSSI and SNR. The code computes in float32; here the
same sums are integers in units of 1/255². It also has the way meters send, as the chips
that carry.

**`Codes`** (`crc`, `r900/gf`, the parsers) has the table-driven checksums and the
Reed-Solomon syndromes, over bytes and field elements that are sets of exponents, next
to definitions of what meters send that use neither table nor logarithm. `Trusted` is
the set of parsers that read what was sent and whose code rejects one or two errors.

**`Startup`** (`main.go`) EXTENDS `Geometry` and `Codes`, and adds `Connect` and the
visit of the given flags that builds the filter chain and sets the tuner: `rtlamr` from
its first flag to `rcvr.Run`. A decoder inherits the launcher's environment, and
`EnvOverride` sets every flag that has a variable there, also those that the launcher
does not pass: `Inherited` says which. The flags are those of `CommandLine!Flags`; the
other flags of `rtltcp` and `-cpuprofile` are not among them.

**`Report`** (`main.go:239-311`, `flags.go:215-275`, `protocol/parse.go`). A message is
what `NewDigest` keeps of it: type, id and checksum. The environment (`Receive`) decides
which transmissions begin in a block and which of them the next block finds again. It
assumes that a meter pauses between transmissions (it was silent in the block before),
which is what the digest maps in the code rely on. The sample file is the sequence of
stream positions written to it.

**`Launcher`** (`cmd/rtlamrscan/main.go`, `proc_windows.go`, `proc_other.go`). The
platform is a variable chosen in `Init`. `job` says that the job object was made,
configured and joined: on Windows each of the three may fail, which the code warns of
and goes on (`proc_windows.go:17-21`, 34-41); elsewhere there is none. An exit ends the
children only where `job` holds. exec looks at the context and then starts the process;
the two are two steps (the stations `"spawn"`), so Ctrl+C may come in between. Children
die when they like; a killed child goes down in a step of its own (`Killed`, exec's
goroutine). A position receiver is
opened before the radios and may fail; `-gpstest` watches it and ends the launcher. The
launcher ends in four ways: its goroutines are over, an error, the five seconds are
over, its window is closed.

**`Survey`** (`cmd/rtlamrscan/main.go`, `gps.go`, `stats.go`, `csv/csv.go`). A decoder
prints the header of its first message and then rows; each line passes `statsLine`, the
mapper and a sink. `colIdx` is the header whose columns the statistics remember,
`meters` the dashboard's table of bursts and worst leak; `heard` (*history*) is the same
as the messages said it. Cells are what stands in the column of that name in the header,
so a wrong column is a wrong meter. The receiver's sentences are heard and stored in two
steps, because the code parses outside the lock. Ages are ticks and saturate one past
the limit. The GPS reader is on in survey mode only; elsewhere it feeds the dashboard
alone.

`MC*` modules give values to constants that a `.cfg` cannot write down; `*Proofs`
modules hold the theorems.

### How the modules fit together

`Startup` is a composition: `CommandLine`, `Geometry`, `Codes` with `Demod`, one behind
the other with one `pc`. What it ends with is where `Receiver` begins; `Receiver` keeps
of it whether it succeeded. `Receiver!DecoderBlock` is one round of `Report`, whose
flags are the filters in force in `Startup` (`ConfiguredUntilCancelled`: while nobody
has cancelled, a block is decoded with them), whose inbox is the set of
messages `Delivery` hands over in one call (and `Decode` implements `Delivery`), whose packets are what `Search` found, whose payloads `Window` reads;
`Geometry` discharges the assumptions of `Search` and `Window` (`AssumptionsMet` is the
proof). An rtlamr process of
`Launcher` ends the way `Receiver` does and starts as in `Startup`; its lines are the
`pipe` of `Survey`. `Receiver` refines `StreamStage` and `Decode` refines `Delivery`; the joints that are not
compositions or refinements are the assumptions named here.

## 3. What the runs check

| Run | Question | Bounds | Distinct states |
|---|---|---|---|
| `Receiver` | Is shutdown orderly, does it end, does it implement the stage, is anything decoded by a receiver that was not set up? | blocks of 2 bytes, drained-block count to 2 | 11,128 |
| `MCDecode` | Is the channel closed after the last message, is nothing lost or overwritten, does each parser take each block once, is a call what `Delivery` promises? | idm and netidm on one preamble, r900bcd on another; 2 messages per parser, 2 blocks | 399,255 |
| `MCReport` | What is reported, suppressed, and stored? | 24 command lines, 2 meters, 2 readings, 1 type, blocks of 2 samples, packets of 3, 5 blocks | 413,800 |
| `MCSearch` | Does the two-stage search find each preamble exactly where it is? | every stream of 12 decisions, bytes of 2, preambles of 2 and 3 symbols, 3 blocks | 366,728 |
| `Window` | Is the payload read from behind its own preamble? | chips of 1 sample, blocks of 4, packets at any positions, 6 blocks | 2,196 |
| `MCStartup` | Does a decoder do what it was started for, with the filters asked for, buffers that fit, codes that can be trusted and a frequency that the set of types decides? | every launch and 32 users' filter lines, each in 19 environments; 12 symbol lengths with all 255 sets of 8 type names | 57,370 |
| `Launcher` | Does the launcher stop, get no further start under way, leave no decoder? | 2 dongles, 4 attempts, both platforms, with and without a job object | 130,398 |
| `Survey` | Are rows honest, complete, behind a header that does not come again, and counted for their own meter? | 2 radios, all modes, 2 positions, age limit 2 ticks, 2 messages each, 2 ERT types, any restarts | 585,267 |
| `MCReportUnique` | finding 1 | one meter, two types | |
| `MCStartupAll` | finding 2 | as `MCStartup` | |
| `LauncherOther` | finding 3 | as `Launcher` | |
| `SurveyMixed` | finding 4 | as `Survey`, 3 ERT types | |

Why the bounds are enough:

- `Receiver`: two bytes give complete, partial and empty reads; the number of blocks is
  not bounded. Three goroutines are all there are.
- `MCDecode`: two parsers share a launch, two launches share a call, and a second block
  exercises what the first leaves behind. Two messages let a parser be interrupted
  between sends, and fill its buffer again while the first is handled.
- `MCReport`: a digest lives for two blocks, so three blocks bring a reading back after
  it was forgotten; the sample buffer is full after three blocks (5 samples, 2 per
  block) and two more exercise the discarding.
- `MCSearch`: a block of two bytes has a byte border inside it, a packet (three symbols)
  straddles two block borders, and the streams are all there are. The zeros before the
  stream are part of the search, as in the code.
- `Window`: a buffer of 22 samples takes 6 blocks of 4 to fill, so payloads are read
  both from the initial silence and from a completely shifted history.
- `MCStartup`: the launches are all combinations of mode, dongle and given flags. An
  environment has no or one variable of 18 that override, add, break or end; two
  variables act on different flags and do not meet. A user's filter may come once, twice
  or broken, and the last flag without its value. The symbol lengths are the ten legal
  ones and two others, with every set of type names, so the geometry is complete.
  Signals carry at two levels and are silent at two; codes are tried with every error of one or two bits, and with every error of one
  symbol and those of two symbols in which the second differs in its lowest bit.
- `Launcher`: four attempts is the code's constant; two dongles are one that is found
  before another fails.
- `Survey`: two radios share a file in survey and water mode and do not in mixed mode;
  one restart repeats a header, and a tick more than the limit makes a position old.

Deadlock is checked everywhere but in `Survey`, whose decoders fall silent after
`MaxRows` messages: without `-gps` the model then stops, the program does not.

### The properties

- `NoGapBeforeCancel`, `ConfiguredUntilCancelled`, `NoUseAfterClose`, `NoStuckSend`,
  `CancelEnds`, `StageSpec`: the drainer never steals a block from a working decoder;
  after `Close` nothing touches the connection or the file; every read block is handed
  over or given up; a cancelled receiver ends; unless it is cancelled a block is decoded
  only after `NewReceiver` came to its end; all of this is the abstract stage, whose
  causes are real ones (`CauseIsReal`, a part of it that is proved on its own: the logged
  cause is never the deferred `canc(nil)`).
- `NoSendOnClosed`, `HandledAsFound`, `InStep`, `EveryBlockOnce`, `DeliversEach`,
  `DecodeEnds`: no parser can send on the closed channel; what a message's slices point
  to is its own packet as long as it is handled, though the buffer behind it is read into
  again; parsers take blocks one by one and are never behind when the next one comes; for
  its caller a call is `Delivery`, so every message made is handled when the range ends
  (`NothingLost`, proved on its own) and none comes twice, which the maps of seen packets
  are for.
- `SearchExact`, `NoneOverlooked`, `FoundOnce`, `PacketsWhole`: compared with a direct
  definition of where a preamble is, in the buffer and in the whole stream.
- `PayloadAligned`, `InLockStep`: see `Window`.
- `AsItsMode`, `SurveyAsLaunched`, `FiltersInForce`: whatever the environment sets of
  the modelled flags, a decoder reads its own server and decodes its mode's types; a
  stationary decoder suppresses duplicates, a survey's exactly when `RTLAMR_UNIQUE=true`
  was there to inherit. In survey mode frequency, gain and time limit are the
  launcher's where it passes them, and the environment's or the default where it does
  not. A list filter is in force exactly when it was asked for and passes
  all that was, and the unique filter comes last.
- `IndicesInRange`, `MeetsAssumptions`, `PacketsUsable`, `PacketsTrusted`: see
  `Geometry` and `Codes`. The third covers the packet buffer that is never cleared: with
  116 symbols its last byte keeps old bits, which no parser reads.
- `RadioDeterministic`: the center frequency is the last registered type's
  (`decode.go:105`), and the types come out of a map in any order; `main.go:74-76` sorts
  them and says that the radio configuration is then the same at each run.
- `ReportedOnce`, `NoneMissed`, `SingleMeansOne`, `UniqueShowsChanges`,
  `UniqueSuppresses`, `SamplesBacked`: what is reported against what was transmitted;
  every `Offset` and `Length` names samples that were written and contain all the
  decoder had.
- `NoStrayDecoder`, `StopEnds`, `NoStartAfterStop`, `Restarted`: a launcher that ends by
  itself has reaped its decoders. A stopped one ends, and with a working job object
  leaves nothing running, however it ends; without one see finding 3. After Ctrl+C no
  start gets under way, neither of an `rtl_tcp` nor of an `rtlamr`, whatever else runs
  for the dongle; one that exec had already let pass may still come up, once. A decoder
  that failed is started again while it has attempts.
- `HeaderOnce`, `NoRowLost`, `CountedByMeter`, `HonestPosition`: a file begins with a
  header that does not come again, however many decoders and restarts print it, and
  only rows follow it; the exception is the file of mixed mode's second dongle, where a
  restarted decoder may begin with another type and puts that type's header among the
  rows. Every message is one row and one burst, as long as files can be written: `main.go:124`
  ignores the errors of `Fprintln`, and so does the model. The dashboard's table is what the
  meters sent, with the worst leak; the cut of what is shown to 100 meters
  (`stats.go:161-163`) is not modelled. A row has the receiver's last fresh position or
  none.

### Findings

1. `-unique` keys its map by meter id alone (`flags.go:250-261`). A meter heard in two
   message types overwrites its own entry, and repetitions are reported although
   `flags.go:51` says "suppress duplicate messages from each meter". The property holds
   where a meter has one type (`MCReport`) and fails with two (`MCReportUnique`).
2. Water and mixed mode pass `-unique` and `true` as two arguments
   (`cmd/rtlamrscan/main.go:561`, 582, 600). A Go boolean flag takes no separate value,
   so parsing stops at `true` and the center frequency, gain and duration behind it are
   lost (`README.md:80-87`, `main.go:50`). Survey mode passes no `-unique` and is right.
3. Without the job object (away from Windows, or where it could not be made or joined)
   an error ends the launcher by `os.Exit` with no context cancelled
   (`cmd/rtlamrscan/main.go:351-355`), and an `rtl_tcp` already started stays, against
   `main.go:419` and `proc_other.go:5-6`. The same when all decoders end by themselves:
   `main` returns without waiting for the kill (656-662).
4. In mixed mode the dashboard reads all rows of the second dongle by the header of the
   first message (`cmd/rtlamrscan/stats.go:190-201`, `csv/csv.go:48-55`): behind an SCM
   header an SCM+ row is counted under its frame sync. `stats.go:178` says
   "header-driven, so it works for any message type". `CountedByMeter` holds for a type
   that is decoded alone.

Seen in the properties that pass, as these state what the code does and not what the text
says. A decoder is started with the launcher's environment (`exec.Cmd` without `Env`,
`cmd/rtlamrscan/main.go:289`), and `flags.go:107-122` sets every flag that has a
variable:

- Survey mode passes no `-unique`, so with `RTLAMR_UNIQUE=true` its decoders suppress
  duplicates, against `cmd/rtlamrscan/main.go:10` and `README.md:76` ("keeps every burst
  (no dedup)"). `AsItsMode` says: exactly then.
- A survey with one dongle passes no `-centerfreq` (`cmd/rtlamrscan/main.go:533-537`), so
  with `RTLAMR_CENTERFREQ` it tunes to that, while its rows carry the default as the
  `FreqHz` that `main.go:136` calls "the radio's center frequency". `SurveyAsLaunched`
  says: the environment's frequency then, the one shown otherwise.

Noted without a run, as no text of the repository contradicts them:

- A motion that is too old is written as 0.0 km/h next to a fresh position
  (`gps.go:85`).
- `rtlamr` exits with status 0 after a read error (`main.go:378-386`), so the launcher
  does not restart it.
- A `RTLAMR_FILTERID` that breaks off does not install the filter but leaves the ids
  before the error in its list (`flags.go:213-226`); a `-filterid` argument then lets
  them pass as well.
- Each restart of a decoder passes the whole `-duration` again
  (`cmd/rtlamrscan/main.go:281-282`).
- An r900bcd consumption with a digit above 9 is reported as 0, as the error of
  `ParseUint` is dropped (`r900bcd/r900bcd.go:63-65`).

## 4. Fairness

- `Receiver`: weak fairness of main, reader, drainer, decoder (Go schedules every
  runnable goroutine; `Read` returns by its deadline) and of the propagation of a
  cancelled context. Strong fairness of `ReaderStop` only: while the drainer takes
  blocks the reader's select has two ready cases each time, and Go picks among them at
  random, so it does not pick the send for ever. Nothing makes an interrupt happen, and
  without one the receiver may run for ever.
- `Decode`: weak fairness of the decoder goroutine, the closer and each parser's
  goroutines. `DecodeEnds` allows the range to be abandoned, as the code does when the
  process is about to end.
- `Launcher`: weak fairness of main, of each `runDecoder` and of exec's killing
  goroutine. Neither the user nor a child has to do anything: a decoder may run for
  ever.
- The other modules state safety only and have no fairness.

## 5. What is proved

The proofs hold for every value of the constants that satisfies the named ASSUMEs. Each
invariant is strengthened to an inductive one, named `IInv` where a module needs one and
by its subject (`PInv`, `HInv`, ...) where it needs several; `Init => IInv` and
`IInv /\ [Next]_vars => IInv'` are lemmas with a step for each action.

| Module | Theorems | The inductive invariant and why it is needed |
|---|---|---|
| `ReceiverProofs` | `TypeCorrect`, `GapFree`, `ConfiguredFirst`, `RealCause`, `CloseIsLast`, `ImplementsStage`; `NeverStuck`, `NearerToTheEnd` | `WgCounts`: the wait group is the number of goroutines that have not called `Done`, so a zero means all have; `LeftWithCause`: a goroutine that has left its loop has left a cause, so the `canc(nil)` behind it comes second; `DrainerLast`, `ClosedAfterWait`: the order in which they leave; `ConfiguredOrCancelled`: `NewReceiver` gives up only with a cause. `NeverStuck` follows from these; `NearerToTheEnd` lowers the number `ToGo` |
| `DecodeProofs` | `TypeCorrect`, `CloseIsLast`, `KeepsStep`, `TakesEveryBlock`, `MessagesIntact`, `NoneLost`, `ImplementsDelivery`; `EachStepEndsSomething`, `NeverStuck` | `Counted`: the wait group is the cardinality of the set of active parsers, at any number of parsers; `Phases` ties closer and consumer to it; `InTurn` says which parsers are one block behind. `Filled`, `InHand`: an array that a message points to is filled before the message is sent, and its parser does not come back to it. `Outstanding`: a message made is handled, in hand, inside a wrapper or still to be sent; `Spent`: a finished parser has none left. `OInv` with `Past`: a message that was handled or is in hand is behind its parser and in no wrapper, so none comes twice. `LInv`: a wrapper that runs has its inner parser, the closer is there when the range begins |
| `SearchProofs` | `TypeCorrect`, `SearchCorrect`, `NothingOverlooked`, `FoundOnlyOnce`, `CutsWholePackets` | `ByteCandidates`: every match lies in a candidate byte; `BitCandidates`: the positions left are those that match so far; `BufferIsStream`, `FoundIsShown`, `SearchedOnce` carry this from one buffer to the stream; `SliceCutsWhole` says what a slice of such a buffer is |
| `WindowProofs` | `TypeCorrect`, `ReadsOwnPayload`, `KeepsLockStep`; `DigitRead`, `DigitLikeliest`, `NeverSilent` | `DecoderHolds`, `HistoryHolds`: which position each index holds, the history a block behind while the parse is due; `DigitsFresh`: the decisions are this block's except the last digit's, which no payload reaches. The last three are facts about the r900 filter of `Demod` for every signal, chip length and position, and need no invariant: a digit whose carrying chips are the stronger ones is read as what it is; the decided digit is one of most energy; no sample is quite silent, so its SNR is never below one |
| `ReportProofs` | `TypeCorrect`, `NoneReportedTwice`, `AllReported`, `SingleIsOne`, `ReportsBacked`; with one message type `ChangesShown`, `RepetitionsHidden` | `Once`, `Complete` (of `DInv`): where a transmission that is not reported yet, or will be found again, can be; `Buffered`, `Extents`: the sample buffer holds all samples or more than the decoder's, and the file has what each report names; `SInv`: a meter is off the list of `-single` exactly when it was reported; `Latest`, `UInv`: the digest map and the unique filter agree on a meter's last reading |
| `StartupProofs` | `ParseInvariance`, `FiltersForced`, `ModeOfLauncher`, `LaunchedForSurvey`; `GeometryInvariance`, `IndicesSafe`, `AssumptionsMet`, `PacketsSuffice`, `SameRadioEachRun` | `ParseInv`: between two arguments (`Between`) the flags given are those of the environment and of the places parsed (`GivenAre`), and each has the value it got there, or the environment's, or its own (`ValuesAre`). `GeometryInv`: of the types registered so far, each is under its own preamble once (`OncePerPreamble`), the lengths are the largest asked for (`LargestOf`), and the buffers are made of them (`Lengths`). `ByName`: the frequency is that of the type registered last, and every one still to come is behind it in the order of the sort |
| `LauncherProofs` | `TypeCorrect`, `DecodersReaped`, `StartsNothing`; `JobLeavesNone`, `StopWindsDown` | `Watched`: a running decoder has its goroutine in the scan; `Searching`, `AttemptLeft` bound the counters; `Untried`: a dongle the search has not come to has no `rtl_tcp`, so the one being started is not up already. `NoneOutlive` says that where the job object works a launcher whose `main` has ended, in any of its ways, has no process left; `StartsNothing` speaks of each process and each start under way (`Up`, `UnderWay`) by itself |
| `SurveyProofs` | `RowsHonest`, `HeaderComesOnce`, `RowsKept`, `MeterInvariance`, `MetersCounted` | `Current`: what is stored, or in hand, is the receiver's last sentence with its age; `ValidIsReal`, `Silent`. `ColumnsFirst`, `FileFirst` (of `HInv`): no row is ahead of the first header on its way to the statistics or a file. `MainInv`: lines of one type only are on their way to a file other than that of mixed mode's second dongle, and no header but the file's own. `RowsCounted`, `BurstsCounted` (`CInv`): rows in the file plus rows under way are the rows printed. `BurstsOfMeter` (`BInv`): the bursts heard from the meter are those counted plus the rows under way that stand for it (`Pending`); `LeakOfMeter`: the worst leak is in the table or under way; `OwnTypes`: every row, and the header the statistics remember, is of a type its radio decodes |

`ImplementsStage` proves that `Receiver`'s initial states and steps are those of
`StreamStage!Steps` under the mapping in `Receiver` (`StepSimulation` has a step per
action; the invariant is needed before and after the step).

`ImplementsDelivery` is the refinement in full, as `Delivery` states no liveness: initial
states map to initial states, and every step of `Decode` is a step of `Delivery` or a
stutter. What it needs beyond `NoneLost` is that a message is not sent twice and that the
one in hand still points to its own packet.

**Termination, as far as it is proved.** Liveness itself stays with TLC, but three
programs of goroutines have theorems for its two halves that are safety: somebody can
always go on, and nobody can go on for ever.

- A call of `Decode`: until the range is over the decoder goroutine, the closer or a
  parser has a step whose guard holds (`NeverStuck`; `CanStep` and `SomebodyCanStep` are
  the guards), and each step shrinks one of four sets of work to do and lets none grow
  (`EachStepEndsSomething`; `FiniteWork`: the sets are finite). Each goroutine has weak
  fairness, so `DecodeEnds` follows, for any number of parsers and messages, by an
  argument that the prover cannot state.
- The receiver: main, reader, drainer and decoder never wait in a circle while the
  program lives (`NeverStuck`), and once the reader has left its loop each step lowers
  `ToGo` (`NearerToTheEnd`). That the reader leaves its loop is the strong fairness of
  `ReaderStop`, and TLC's.
- The launcher: once the context is done, each step shrinks what is left (`StopWindsDown`:
  stations of `main`, processes that run or are being started, turns of the goroutines). That `main` has a step is its weak fairness.

That the guards in `NeverStuck` are those of the actions was checked with TLC on the
instances of `MCDecode` and `Receiver`, by comparing them with ENABLED.

What the theorems of `StartupProofs` add to `MCStartup`: an environment may set any
number of the modelled flags, with any values, and a user's arguments may be any list.
What a decoder is set to where the launcher passes nothing is then what it inherits
(`LaunchedNot`). Sizes are not
computed from instances: a symbol length accepted by `HandleFlags` is all that is known
of it, and the registered types are any set. The launcher's list is taken as the pairs
it is made of (`LaunchedPairs`); a water or mixed mode parse ends behind `-unique`, which
is finding 2 and the reason why `SurveyAsLaunched` speaks of survey mode.

The assumptions: `DecodeAssumption` says that parsers and preambles are finitely many (they
are the values and keys of a Go map), that each parser is under one preamble, and that
`MaxMsgs` is a number, any number. `StartAssumption` and `NamesAssumption` say what a start is (see
`CommandLine` and `Geometry`). `RadioAssumption` says that the radios are finitely many
and that one of them decodes the ERT types, `ErtAssumption` which types these may be;
`MetersCounted` is, like `CountedByMeter` itself, about the r900 meter, whose radio
decodes nothing else; finding 4 is what happens to the types that share a decoder.

### Only model-checked

- Liveness (`NoStuckSend`, `CancelEnds`, `DecodeEnds`, the liveness part of `StageSpec`,
  `StopEnds`, `Restarted`): TLAPS does not prove liveness under fairness, nor reason
  about ENABLED. What is proved towards `CancelEnds`, `DecodeEnds` and
  `StopEnds` is said above.
- `PacketsTrusted`: that the parsers' codes reject one or two errors is a computation
  over folds and sets of exponents, with nothing in it to vary; TLC does it for the errors
  named in section 3, the provers do not evaluate.
- Findings 2 to 4 and what they contradict, which are counterexamples, not theorems.
- `UniqueShowsChanges` and `UniqueSuppresses` with several message types: the second is
  finding 1. Their theorems assume one type.
- Induction over data (what a recursive definition computes for every input) is out of
  reach of the provers available; the modules avoid RECURSIVE operators altogether.

## 6. What is not modelled

- float32 rounding and the decibels made of the sums in `Demod`: TLC has no reals.
  `Search` and `Window` take the decisions as inputs and do not depend on them.
- Field layouts and log, csv, JSON and XML wording: straight slicing and formatting.
- The generator and irreducibility panics of `gf`, which cannot occur with the program's
  one field.
- `rtl_tcp` and the `rtltcp` package: not in the repository; only what `main.go` expects
  of them.
- The web page, the recent feed, times since the last burst, browser start, run info
  file: presentation.
- The search for the receiver's baud rate: it touches only the port, and its outcome is
  a choice in `Launcher`.
- `-cpuprofile` and the tuner flags `rtltcp` defines beyond `-server`, `-centerfreq` and
  `-tunergain`.
- `misc/modes.go`, a stand-alone table printer.
- The reports printed before an encoding error in the same block: the process is ending,
  their samples are never written, and the code promises nothing.

## 7. Plan

Written in this order, most important behaviour first: `Receiver` with `StreamStage`,
`Decode`, `Report`, `Search`, `Window`, `Geometry`, `CommandLine`, `Launcher`, `Survey`;
then `Codes`, `Demod` and `Startup`, the packet buffers of `Decode`, the statistics of
`Survey`, and the proofs about `Report` and `Survey`; then the proofs about `Startup`
(for any environment and any user's arguments) and about the dashboard's table;
then `Delivery` with its refinement, and the termination of `Decode`, `Receiver` and
`Launcher` as far as it can be proved. Every safety property of a passing run has its
theorem now, but `PacketsTrusted`. What could come next:

1. The baud rate search of `gps.go` with its time limits, if the order of its steps is
   ever to say more than whether it succeeds.
2. A second abstract specification, of what a row of the survey promises, that `Survey`
   would implement as `Decode` implements `Delivery`.
