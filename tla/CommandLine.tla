---------------------------- MODULE CommandLine ----------------------------
(***************************************************************************)
(* How a decoder learns what to do.  Its arguments come from a user or from*)
(* rtlamrscan, whose main builds a list for each dongle and whose          *)
(* runDecoder puts -server and -format in front and -duration behind.      *)
(* rtlamr registers its flags, takes RTLAMR_* from the environment, which  *)
(* a decoder inherits from the launcher, and then reads the arguments one  *)
(* by one.                                                                 *)
(***************************************************************************)
EXTENDS Integers, Sequences

CONSTANTS
  Starts, \* [launch, env]: who starts rtlamr and with which environment.  A
          \* launch is [mode |-> "user", args], or what the launcher was asked
          \* for: [mode, found, device, gain, freqs, duration], where gain,
          \* freqs and duration say whether the flag was given
  None

VARIABLES
  pc,      \* how far rtlamr's start has come
  launch,
  env,     \* the arguments that RTLAMR_* variables give to flags
  rest,    \* arguments not parsed yet
  value,   \* the flags' values
  given    \* the flags that flag.Visit visits: those that were set

flagVars == <<launch, env, rest, value, given>>

BoolFlags == {"-unique", "-single", "-version"}
ListFlags == {"-filterid", "-filtertype"}
ValueFlags == {"-server", "-centerfreq", "-tunergain", "-samplefile", "-msgtype",
               "-symbollength", "-duration", "-format"}
Flags == BoolFlags \cup ListFlags \cup ValueFlags

(* An argument is a word, a list of names or numbers, or one that breaks   *)
(* off at an item that does not parse.                                     *)
Word(text) == [text |-> text, items |-> {}]
List(items) == [text |-> "list", items |-> items]
Broken(items) == [text |-> "broken", items |-> items]
Named(args) == {args[i].text : i \in DOMAIN args} \cap Flags

Modes == {"survey", "water", "mixed"}

TakesValue(arg) == arg.text \in Flags \ BoolFlags

(* Only survey mode uses a third dongle.  A user's value is not the name of*)
(* a flag.                                                                 *)
ASSUME StartAssumption ==
  \A s \in Starts :
    /\ DOMAIN s.env \subseteq Flags
    /\ s.launch.mode = "user" =>
         LET args == s.launch.args IN
         /\ Len(args) \in Nat /\ args = [i \in 1 .. Len(args) |-> args[i]]
         /\ \A i \in 2 .. Len(args) : TakesValue(args[i - 1]) => args[i].text \notin Flags
    /\ s.launch.mode # "user" =>
         /\ s.launch.mode \in Modes
         /\ s.launch.found \in 1 .. (IF s.launch.mode = "survey" THEN 3 ELSE 2)
         /\ s.launch.device \in 0 .. s.launch.found - 1
-----------------------------------------------------------------------------
(* The launcher's lists.                                                   *)
Ports == <<"12340", "12341", "12342">>

(* Center frequencies in Hz; 0 is rtlamr's own default.                    *)
freqPlan(l) ==
  IF l.freqs THEN SubSeq(<<903000000, 915000000, 927000000>>, 1, l.found)
  ELSE CASE l.found = 1 -> <<0>>
         [] l.found = 2 -> <<911200000, 913560000>>
         [] l.found = 3 -> <<906000000, 912380000, 918500000>>

port(l) == Ports[l.device + 1]

(* The gain is fixed in survey mode, elsewhere when -gain is given.        *)
gainSet(l) == l.mode = "survey" \/ l.gain

MutGainWhenGiven(l) == IF l.gain THEN <<Word("-tunergain"), Word("40.0")>> ELSE << >>
gainArgs(l) == IF gainSet(l) THEN <<Word("-tunergain"), Word("40.0")>> ELSE << >>

freqArgs(freq) == IF freq = 0 THEN << >> ELSE <<Word("-centerfreq"), List({freq})>>

uniqueArgs(l) == IF l.mode = "survey" THEN << >> ELSE <<Word("-unique"), Word("true")>>

types(l) == IF l.mode = "mixed" /\ l.device = 1 THEN {"scm", "scm+", "idm"} ELSE {"r900"}

(* Mixed mode leaves the frequencies to the protocols.                     *)
modeArgs(l) ==
  <<Word("-msgtype"), List(types(l))>> \o uniqueArgs(l)
    \o (IF l.mode = "mixed" THEN << >> ELSE freqArgs(freqPlan(l)[l.device + 1]))

Args(l) ==
  IF l.mode = "user" THEN l.args
  ELSE <<Word("-server"), Word(port(l)), Word("-format"), Word("csv")>>
         \o modeArgs(l) \o gainArgs(l)
         \o (IF l.duration THEN <<Word("-duration"), Word("2h")>> ELSE << >>)

(* The frequency wrap gives to the dashboard.                              *)
shownFreq(l) ==
  IF l.mode = "mixed" THEN (IF l.device = 0 THEN 912380000 ELSE 912600155)
  ELSE LET freq == freqPlan(l)[l.device + 1] IN IF freq = 0 THEN 912380000 ELSE freq
-----------------------------------------------------------------------------
(* RegisterFlags: the values before anything is set.                       *)
Default(f) ==
  CASE f \in BoolFlags -> Word("false")
    [] f \in ListFlags -> List({})
    [] f = "-msgtype" -> List({"scm"})
    [] f = "-symbollength" -> List({72})
    [] f = "-format" -> Word("plain")
    [] OTHER -> None

FlagsInit ==
  /\ pc = "env"
  /\ \E s \in Starts : launch = s.launch /\ env = s.env
  /\ rest = Args(launch)
  /\ value = [f \in Flags |-> Default(f)]
  /\ given = {}

(* flag.Value's Set.  The filters add to their list, up to the item that   *)
(* does not parse; the others replace their value, by zero if it does not. *)
Assigned(f, old, arg) ==
  IF f \in ListFlags THEN List(old.items \cup arg.items)
  ELSE IF arg.text # "broken" THEN arg
  ELSE IF f \in BoolFlags THEN Word("false") ELSE List({0})

(* A flag counts as set only when its argument parsed.                     *)
Parses(arg) == arg.text # "broken"

EnvOverride ==
  /\ pc = "env"
  /\ value' = [f \in Flags |->
                 IF f \in DOMAIN env THEN Assigned(f, value[f], env[f]) ELSE value[f]]
  /\ given' = {f \in DOMAIN env : Parses(env[f])}
  /\ pc' = "parse"
  /\ UNCHANGED <<launch, env, rest>>

MutEnvWins(f) == IF f \in DOMAIN env THEN value[f] ELSE Assigned(f, value[f], rest[2])

FromArgument(f) == Assigned(f, value[f], rest[2])

(* flag.Parse, one argument at a time.  A flag with a value takes the next *)
(* argument for it, and one that does not parse ends the program.          *)
ParseValueFlag ==
  /\ pc = "parse" /\ Len(rest) > 1 /\ TakesValue(Head(rest))
  /\ LET f == Head(rest).text IN
     /\ value' = [value EXCEPT ![f] = FromArgument(f)]
     /\ given' = IF Parses(rest[2]) THEN given \cup {f} ELSE given
  /\ pc' = IF Parses(rest[2]) THEN "parse" ELSE "exit"
  /\ rest' = SubSeq(rest, 3, Len(rest))
  /\ UNCHANGED <<launch, env>>

(* "flag needs an argument".                                               *)
MissingValue ==
  /\ pc = "parse" /\ Len(rest) = 1 /\ TakesValue(Head(rest))
  /\ rest' = << >>
  /\ pc' = "exit"
  /\ UNCHANGED <<launch, env, value, given>>

(* A boolean flag is complete by itself.                                   *)
ParseBoolFlag ==
  /\ pc = "parse" /\ rest # << >> /\ Head(rest).text \in BoolFlags
  /\ value' = [value EXCEPT ![Head(rest).text] = Word("true")]
  /\ given' = given \cup {Head(rest).text}
  /\ rest' = Tail(rest)
  /\ UNCHANGED <<pc, launch, env>>

(* The first argument that is not a flag ends the parse; rtlamr does not   *)
(* look at what is left.  -version ends the program.                       *)
ParseEnds ==
  /\ pc = "parse"
  /\ rest # << >> => Head(rest).text \notin Flags
  /\ pc' = IF value["-version"] = Word("true") THEN "exit" ELSE "flags"
  /\ UNCHANGED flagVars

ParseFlags ==
  EnvOverride \/ ParseValueFlag \/ MissingValue \/ ParseBoolFlag \/ ParseEnds
=============================================================================
