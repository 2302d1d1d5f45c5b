------------------------------ MODULE Startup ------------------------------
(***************************************************************************)
(* rtlamr's start, from the environment and the arguments to the tuner and *)
(* the filters: main up to rcvr.Run.                                       *)
(***************************************************************************)
EXTENDS Geometry, Codes

VARIABLES
  fc,     \* the filter chain
  tuner   \* what was asked of the tuner: [freq, gain], or None

vars == <<pc, flagVars, decoderVars, fc, tuner>>

Init == FlagsInit /\ DecoderInit /\ fc = << >> /\ tuner = None
-----------------------------------------------------------------------------
(* rcvr.Connect and rcvr.HandleFlags, each of which may fail.              *)
Connect ==
  /\ pc = "connect"
  /\ pc' \in {"visit", "cancelled"}
  /\ UNCHANGED <<flagVars, decoderVars, fc, tuner>>

InForce(f) ==
  f \in given /\ (f = "-unique" => value[f] = Word("true"))

MutUniqueFirst == <<"-unique", "-filterid", "-filtertype">>

(* flag.Visit's order is that of the names.                                *)
VisitOrder == <<"-filterid", "-filtertype", "-unique">>

Hz(arg) == CHOOSE freq \in arg.items : TRUE

CenterFreq ==
  IF "-centerfreq" \in given THEN Hz(value["-centerfreq"]) ELSE Cfg.CenterFreq

Added(f) == IF InForce(f) THEN <<f>> ELSE << >>

(* The rest of NewReceiver.                                                *)
Visit ==
  /\ pc = "visit"
  /\ fc' = Added(VisitOrder[1]) \o Added(VisitOrder[2]) \o Added(VisitOrder[3])
  /\ tuner' = [freq |-> CenterFreq, gain |-> IF "-tunergain" \in given THEN "set" ELSE "auto"]
  /\ pc' = "ready"
  /\ UNCHANGED <<flagVars, decoderVars>>

Over ==
  /\ pc \in {"ready", "cancelled", "fatal", "exit"}
  /\ UNCHANGED vars

Next ==
  \/ ParseFlags /\ UNCHANGED <<decoderVars, fc, tuner>>
  \/ SetUpDecoder /\ UNCHANGED <<fc, tuner>>
  \/ Connect \/ Visit \/ Over

Spec == Init /\ [][Next]_vars
-----------------------------------------------------------------------------
ByLauncher == pc = "ready" /\ launch.mode # "user"

(* The launcher does not pass the flag and the decoder has it from the     *)
(* environment it was started in.                                          *)
Inherited(f) ==
  f \in DOMAIN env /\ Parses(env[f]) /\ f \notin Named(Args(launch))

Dedups == \E i \in DOMAIN fc : fc[i] = "-unique"

(* Whatever the environment it is started from, a decoder reads its own    *)
(* dongle's server, speaks csv and decodes the types of its mode; in the   *)
(* stationary modes it suppresses duplicates, in survey mode only when the *)
(* environment says so.                                                    *)
AsItsMode ==
  ByLauncher =>
    /\ value["-server"] = Word(Ports[launch.device + 1])
    /\ value["-format"] = Word("csv")
    /\ Parsers = types(launch)
    /\ Dedups <=> \/ launch.mode # "survey"
                  \/ Inherited("-unique") /\ env["-unique"] = Word("true")

(* The decoder does what the launcher was asked for and what it shows and  *)
(* records: the planned center frequency, the fixed gain, the time limit.  *)
(* Where the launcher says nothing of one of them the environment decides. *)
AsLaunched ==
  ByLauncher =>
    /\ tuner.freq = IF Inherited("-centerfreq") THEN Hz(env["-centerfreq"])
                    ELSE shownFreq(launch)
    /\ tuner.gain = "set" <=> gainSet(launch) \/ Inherited("-tunergain")
    /\ gainSet(launch) => value["-tunergain"] = Word("40.0")
    /\ "-duration" \in given <=> launch.duration \/ Inherited("-duration")
    /\ launch.duration => value["-duration"] = Word("2h")

(* ... which it does in survey mode.                                       *)
SurveyAsLaunched == ByLauncher /\ launch.mode = "survey" => AsLaunched

(* Every parser that is set up reads bits and symbols as they were sent,   *)
(* accepts a packet of them, and rejects it with one or two wrong bits (a  *)
(* word with one or two wrong symbols).                                    *)
PacketsTrusted == Allocated => Parsers \subseteq Trusted

(* The lists that were given with a filter flag, in the environment or as  *)
(* an argument that was parsed.                                            *)
Parsed == 1 .. Len(Args(launch)) - Len(rest)
Asked(f) ==
  {env[g] : g \in {f} \cap {g \in DOMAIN env : Parses(env[g])}}
    \cup {Args(launch)[i + 1] : i \in {i \in Parsed : Args(launch)[i].text = f}}

(* A list filter is in the chain exactly when one was asked for and then   *)
(* passes every item asked for, however often and wherever; and nothing is *)
(* remembered by the unique filter that a list filter would have rejected: *)
(* it comes last.                                                          *)
FiltersInForce ==
  pc = "ready" =>
    /\ \A f \in ListFlags :
         /\ Asked(f) # {} <=> \E i \in DOMAIN fc : fc[i] = f
         /\ UNION {arg.items : arg \in Asked(f)} \subseteq value[f].items
    /\ \A i \in DOMAIN fc : fc[i] = "-unique" => i = Len(fc)
=============================================================================
